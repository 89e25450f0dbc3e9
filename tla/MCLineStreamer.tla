---------------------------- MODULE MCLineStreamer ----------------------------
(***************************************************************************)
(* Two lanes; a region of five lines, one more than there are buffers in a *)
(* lane, that starts at the first word, and a region of a single line that *)
(* starts later.                                                           *)
(***************************************************************************)
EXTENDS LineStreamer

Regions == {[x_start |-> 0, x_stop |-> 2, y_size |-> 5],
            [x_start |-> 1, x_stop |-> 3, y_size |-> 1]}
================================================================================
