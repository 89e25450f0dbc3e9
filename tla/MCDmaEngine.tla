------------------------------ MODULE MCDmaEngine ------------------------------
(***************************************************************************)
(* Model-checking instances of DmaEngine.                                  *)
(***************************************************************************)
EXTENDS DmaRefinement, DmaInvariant
================================================================================
