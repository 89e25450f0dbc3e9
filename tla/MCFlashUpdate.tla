---------------------------- MODULE MCFlashUpdate -----------------------------
(***************************************************************************)
(* Three sectors of two pages; a golden image that names sector 1 and one  *)
(* without a warm boot address, an update for sector 1 that ends in the    *)
(* middle of sector 2 and has a gap, one for sector 2 that no golden image *)
(* names, and a file whose end is missing.                                 *)
(***************************************************************************)
EXTENDS FlashUpdate

Golden == <<1, 2>>
Stars  == [v \in Values |-> IF v = 1 THEN 1 ELSE 0]

GoldenFile   == <<LinearRec(0), DataRec(0, 1), DataRec(1, 2), EofRec>>
PlainFile    == <<LinearRec(0), DataRec(0, 3), EofRec>>
UpdateFile   == <<LinearRec(1), DataRec(0, 4), LinearRec(2), DataRec(0, 4), EofRec>>
StrayFile    == <<LinearRec(2), DataRec(0, 4), EofRec>>
TornFile     == <<LinearRec(1), DataRec(0, 4)>>
Firmware     == {GoldenFile, PlainFile, UpdateFile, StrayFile, TornFile}
================================================================================
