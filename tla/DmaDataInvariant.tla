--------------------------- MODULE DmaDataInvariant ---------------------------
(***************************************************************************)
(* The inductive invariant of the data path of the DMA engine, beside the  *)
(* one of its control (DmaInvariant): which line every buffer holds, where *)
(* dma_write is in the line it sends, and what host memory holds already.  *)
(***************************************************************************)
EXTENDS DmaInvariant, DmaRefinement

\* The lines held, and those of the frame whose buffer was retired.
held == distance_cntr + pending
sent == accepted - held

\* The buffers, oldest first, hold the lines of the frame in the order of the stream.
LinesInOrder ==
  /\ sent >= 0
  /\ wr_state \in {"S_IDLE", "S_SOF", "S_EOF"} => src.line = 0
  /\ \A i \in 0 .. held - 1 :
       line_buffer[(rd_line_ptr + i) % PhysBuffers] = [frame |-> frame, line |-> sent + i]

\* dma_write counts a line when it leaves LINE_END, which may be some clocks after
\* the read side has retired the buffer.
retired == dma_pcie_ctrl_state = "LINE_END" /\ rd_state \in {"S_WAIT_LINE", "S_DONE", "S_IDLE"}
row     == IF retired THEN sent - 1 ELSE sent

InTlps == dma_pcie_ctrl_state \in {"CALC_BYTECNT", "CALC_EOL", "TRANSF_DATA"}
InLine == InTlps \/ dma_pcie_ctrl_state \in {"LINE_START", "LINE_END", "NEXT_PLANE"}
onLink == IF nb_pcie_dout > 0 THEN 1 ELSE 0

\* The TLPs of this plane of the line that are in host memory.
written == IF InTlps THEN LineTlps - remain_bcnt - onLink
           ELSE IF dma_pcie_ctrl_state = "LINE_END" THEN LineTlps ELSE 0

\* The plane, the row and the TLP an address register stands at.
At(k) == [plane |-> plane_counter, row |-> line_offset, tlp |-> k]

\* A request is up, and data due, in TRANSF_DATA only.
LinkIdle == /\ tlp_req_to_send <=> dma_pcie_ctrl_state = "TRANSF_DATA"
            /\ nb_pcie_dout > 0 => dma_pcie_ctrl_state = "TRANSF_DATA"

\* The address, the bytes left and the accepted header agree on the TLP.
AddressOK ==
  /\ dma_pcie_ctrl_state # "IDLE" => line_offset = RowOf(row)
  /\ dma_pcie_ctrl_state = "FRAME_STARTED" => plane_counter = 0
  /\ InLine => plane_counter \in Planes
  /\ dma_pcie_ctrl_state = "LINE_START" => dma_tlp_addr_buf = At(0)
  /\ InTlps =>
       /\ read_plane = plane_counter
       /\ remain_bcnt >= 0 /\ written \in Tlps
       /\ dma_tlp_addr_buf = At(LineTlps - remain_bcnt)
       /\ nb_pcie_dout > 0 => tlp_hdr = At(written)
  /\ dma_pcie_ctrl_state = "TRANSF_DATA" => (end_of_line <=> written = LineTlps - 1)

\* The part of line n the host should find in plane p.
Part(p, n, k) ==
  host[<<p, RowOf(n), k>>] = [line |-> [frame |-> frame, line |-> n], plane |-> p]

\* The lines retired are in host memory, and of the line under way what was sent.
InHost ==
  /\ host = [c \in Cells |-> host[c]]
  /\ \A n \in 0 .. sent - 1, p \in Planes, k \in Tlps : Part(p, n, k)
  /\ InLine /\ ~retired =>
       /\ \A p \in 0 .. plane_counter - 1, k \in Tlps : Part(p, sent, k)
       /\ \A k \in 0 .. written - 1 : Part(plane_counter, sent, k)

\* The inductive invariant of the data path, given IInv.
DataInv == LinesInOrder /\ LinkIdle /\ AddressOK /\ InHost
================================================================================
