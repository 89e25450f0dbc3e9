------------------------------- MODULE MCArbiter -------------------------------
(***************************************************************************)
(* The arbiter with room for four writes of each agent on the bus: a       *)
(* request, its abort and a second request may all be under way at once.   *)
(***************************************************************************)
EXTENDS Arbiter
================================================================================
