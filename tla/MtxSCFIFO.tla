------------------------------- MODULE MtxSCFIFO -------------------------------
(***************************************************************************)
(* mtxSCFIFO.vhd: the single-clock FIFO used all over the camera FPGA.     *)
(* A ring of NUMOFMEMWORD words, a write and a read address counter and a  *)
(* distance counter one bit wider than they are.  The FIFO never refuses   *)
(* an access: full and empty are only reported, and an access at the limit *)
(* is an error of the client (the simulation-only P_FiFoError process).    *)
(***************************************************************************)
EXTENDS Integers

CONSTANT NUMOFMEMWORD        \* 2**ADDRWIDTH words, at least one
VARIABLES mem, wrAddrCntr, rdAddrCntr, distanceCntr, q

Slots == 0 .. NUMOFMEMWORD - 1
Succ(a) == (a + 1) % NUMOFMEMWORD

\* The synchronous clear; `none` stands for a word that was never written.
Clear(none) == /\ mem = [i \in Slots |-> none]
               /\ wrAddrCntr = 0
               /\ rdAddrCntr = 0
               /\ distanceCntr = 0
               /\ q = none

full  == distanceCntr = NUMOFMEMWORD
empty == distanceCntr = 0

\* One rising edge of clk.  The distance register wraps on its own width.
Clock(wren, data, rden) ==
  /\ wrAddrCntr' = IF wren THEN Succ(wrAddrCntr) ELSE wrAddrCntr
  /\ rdAddrCntr' = IF rden THEN Succ(rdAddrCntr) ELSE rdAddrCntr
  /\ mem' = IF wren THEN [mem EXCEPT ![wrAddrCntr] = data] ELSE mem
  /\ q'   = IF rden THEN mem[rdAddrCntr] ELSE q
  /\ distanceCntr' =
       CASE wren /\ ~rden -> (distanceCntr + 1) % (2 * NUMOFMEMWORD)
         [] rden /\ ~wren -> (distanceCntr - 1) % (2 * NUMOFMEMWORD)
         [] OTHER         -> distanceCntr

\* What P_FiFoError reports as "FIFO overrun" and "FIFO underrun".
Overrun(wren)  == full /\ wren
Underrun(rden) == empty /\ rden
================================================================================
