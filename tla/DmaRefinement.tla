----------------------------- MODULE DmaRefinement -----------------------------
(***************************************************************************)
(* The DMA engine implements FrameTransfer.  A line counts as stored from  *)
(* its last beat on, before the pointers move, and as delivered when the   *)
(* read side retires its buffer; the delivered sequence is read back from  *)
(* host memory, so a line that is torn, misplaced or of the wrong plane    *)
(* is none.                                                                *)
(***************************************************************************)
EXTENDS DmaEngine

\* The line the write side has accepted but not counted in distance_cntr yet.
pending == IF wr_state \in {"S_TOGGLE_BUFFER", "S_PCI_BACK_PRESSURE", "S_EOF"}
             THEN 1 ELSE 0

phase == CASE rd_state = "S_IDLE" -> "idle"
           [] rd_state # "S_IDLE" /\ wr_state \in {"S_EOF", "S_IDLE"} -> "closed"
           [] OTHER -> "open"

frame == IF phase = "open" THEN src.frame ELSE 1 - src.frame

stored == [i \in 1 .. distance_cntr + pending |->
             line_buffer[(rd_line_ptr + i - 1) % PhysBuffers]]

\* The line the host finds in row n, if all its planes and TLPs agree on one.
Fits(l, n) == \A p \in Planes, k \in Tlps :
                host[<<p, RowOf(n), k>>] = [line |-> l, plane |-> p]
HostLine(n) == IF \E l \in Lines : Fits(l, n) THEN CHOOSE l \in Lines : Fits(l, n)
                                             ELSE NoLine

accepted  == IF phase = "open" THEN src.line ELSE src.len
delivered == [i \in 1 .. accepted - Len(stored) |-> HostLine(i - 1)]

Promise == INSTANCE FrameTransfer WITH Capacity <- numb_line_buffer

\* The engine, step by step, does what FrameTransfer allows: no line lost,
\* duplicated, reordered or torn, at most numb_line_buffer lines held, and no
\* end of frame before the last line is in host memory (axi_stream_in.vhd and
\* dma_write.vhd together).
ImplementsFrameTransfer == Promise!Spec
================================================================================
