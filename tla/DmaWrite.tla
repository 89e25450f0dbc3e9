-------------------------------- MODULE DmaWrite --------------------------------
(***************************************************************************)
(* dma_write.vhd: the output half of the image DMA.  A FSM takes the line  *)
(* that axi_stream_in holds ready, cuts it into memory-write TLPs for the  *)
(* PCIe core and acknowledges the line with line_transfered; in planar     *)
(* mode it sends the line once per plane before the acknowledge.           *)
(*                                                                         *)
(* The arithmetic of a TLP (bytes, dwords, byte enables) is abstracted: a  *)
(* line is LineTlps TLPs per plane, a TLP is TlpBeats data beats, and an   *)
(* address is the plane, the row (line_offset counted in line pitches) and *)
(* the number of the TLP in the line.                                      *)
(***************************************************************************)
EXTENDS AxiStreamIn

CONSTANTS host_number_of_plane,  \* 1 packed, 3 planar
          LineTlps, TlpBeats,
          host_reverse_y,        \* rows are written bottom up
          cfg_bus_mast_en

VARIABLES dma_pcie_ctrl_state,
          line_ready_meta, line_ready_sysclk,   \* two-stage copy of line_ready
          end_of_dma_sysclk,                    \* latched end_of_dma
          plane_counter, line_offset, dma_tlp_addr_buf,
          remain_bcnt, end_of_line, nb_pcie_dout, tlp_req_to_send,
          read_plane,                           \* MSBs of read_address
          dma_idle

ASSUME DmaAssumption ==
  /\ host_number_of_plane \in {1, 3}
  /\ LineTlps \in Nat \ {0}
  /\ TlpBeats \in Nat \ {0}
  /\ host_reverse_y \in BOOLEAN
  /\ cfg_bus_mast_en \in BOOLEAN

dmaVars == <<line_transfered, dma_pcie_ctrl_state, line_ready_meta,
             line_ready_sysclk, end_of_dma_sysclk, plane_counter, line_offset,
             dma_tlp_addr_buf, remain_bcnt, end_of_line, nb_pcie_dout,
             tlp_req_to_send, read_plane, dma_idle>>

last_plane == plane_counter = host_number_of_plane - 1

DmaInit == /\ dma_pcie_ctrl_state = "IDLE"
           /\ line_ready_meta = FALSE
           /\ line_ready_sysclk = FALSE
           /\ end_of_dma_sysclk = FALSE
           /\ line_transfered = FALSE
           /\ plane_counter = 0
           /\ line_offset = 0
           /\ dma_tlp_addr_buf = [plane |-> 0, row |-> 0, tlp |-> 0]
           /\ remain_bcnt = 0
           /\ end_of_line = FALSE
           /\ nb_pcie_dout = 0
           /\ tlp_req_to_send = FALSE
           /\ read_plane = 0
           /\ dma_idle = TRUE

--------------------------------------------------------------------------------
(* The control FSM.  last_beat: the core takes the last data of the TLP.    *)

DmaTo(from, to) == dma_pcie_ctrl_state = from /\ dma_pcie_ctrl_state' = to
LastBeat(rdy)   == rdy /\ nb_pcie_dout = 1

DmaIdle         == DmaTo("IDLE", "IDLE") /\ ~(start_of_frame /\ cfg_bus_mast_en)
DmaFrame        == DmaTo("IDLE", "FRAME_STARTED") /\ start_of_frame /\ cfg_bus_mast_en
DmaLine         == DmaTo("FRAME_STARTED", "LINE_START") /\ line_ready_sysclk
DmaFrameEnd     == /\ DmaTo("FRAME_STARTED", "IDLE")
                   /\ ~line_ready_sysclk /\ end_of_dma_sysclk
DmaFrameWait    == /\ DmaTo("FRAME_STARTED", "FRAME_STARTED")
                   /\ ~line_ready_sysclk /\ ~end_of_dma_sysclk
DmaLineStart    == DmaTo("LINE_START", "CALC_BYTECNT")
DmaByteCnt      == DmaTo("CALC_BYTECNT", "CALC_EOL")
DmaEol          == DmaTo("CALC_EOL", "TRANSF_DATA")
DmaTransfer(rdy)== DmaTo("TRANSF_DATA", "TRANSF_DATA") /\ ~LastBeat(rdy)
DmaTlpEnd(rdy)  == /\ DmaTo("TRANSF_DATA", "CALC_BYTECNT")
                   /\ LastBeat(rdy) /\ ~end_of_line
DmaLineEnd(rdy) == /\ DmaTo("TRANSF_DATA", "LINE_END")
                   /\ LastBeat(rdy) /\ end_of_line
DmaAckWait      == DmaTo("LINE_END", "LINE_END") /\ last_plane /\ line_ready_sysclk
\* Mutation: the line buffer is not seen released before the next line.
DmaAckedEarly   == DmaTo("LINE_END", "FRAME_STARTED") /\ last_plane
DmaAcked        == DmaTo("LINE_END", "FRAME_STARTED") /\ last_plane /\ ~line_ready_sysclk
DmaNextPlane    == DmaTo("LINE_END", "NEXT_PLANE") /\ ~last_plane
DmaPlane        == DmaTo("NEXT_PLANE", "LINE_START")

DmaStep(rdy) ==
  \/ DmaIdle \/ DmaFrame \/ DmaLine \/ DmaFrameEnd \/ DmaFrameWait
  \/ DmaLineStart \/ DmaByteCnt \/ DmaEol \/ DmaTransfer(rdy) \/ DmaTlpEnd(rdy)
  \/ DmaLineEnd(rdy) \/ DmaAckWait \/ DmaAcked \/ DmaNextPlane \/ DmaPlane

--------------------------------------------------------------------------------
(* The handshake with axi_stream_in. *)

ResyncStep == /\ line_ready_meta' = line_ready
              /\ line_ready_sysclk' = line_ready_meta

\* Mutation: the end of the DMA is not latched.
EndOfDmaPulse == end_of_dma_sysclk' = (dma_pcie_ctrl_state # "IDLE" /\ end_of_dma)

EndOfDmaStep ==
  end_of_dma_sysclk' = (dma_pcie_ctrl_state # "IDLE" /\ (end_of_dma \/ end_of_dma_sysclk))

LineTransferedStep ==
  line_transfered' = (dma_pcie_ctrl_state = "LINE_END" /\ last_plane)

(* Counters and addresses; grant: the core accepted the TLP header. *)

\* Mutation: the plane of the last line is kept.
PlaneNoReset ==
  plane_counter' = IF dma_pcie_ctrl_state' = "NEXT_PLANE" THEN (plane_counter + 1) % 4
                                                          ELSE plane_counter

PlaneStep ==
  plane_counter' = CASE dma_pcie_ctrl_state' = "FRAME_STARTED" -> 0
                     [] dma_pcie_ctrl_state' = "NEXT_PLANE" -> (plane_counter + 1) % 4
                     [] OTHER -> plane_counter

LineOffsetStep ==
  line_offset' = CASE dma_pcie_ctrl_state = "IDLE" -> 0
                   [] DmaAcked -> IF host_reverse_y THEN line_offset - 1
                                                    ELSE line_offset + 1
                   [] OTHER    -> line_offset

AddrStep(grant) ==
  dma_tlp_addr_buf' =
    CASE grant -> [dma_tlp_addr_buf EXCEPT !.tlp = @ + 1]
      [] ~grant /\ dma_pcie_ctrl_state \in {"FRAME_STARTED", "NEXT_PLANE"} ->
           [plane |-> plane_counter, row |-> line_offset, tlp |-> 0]
      [] OTHER -> dma_tlp_addr_buf

RemainStep(grant) ==
  remain_bcnt' = CASE dma_pcie_ctrl_state = "LINE_START" -> LineTlps
                   [] dma_pcie_ctrl_state # "LINE_START" /\ grant -> remain_bcnt - 1
                   [] OTHER -> remain_bcnt

EndOfLineStep ==
  end_of_line' = IF dma_pcie_ctrl_state = "CALC_EOL" THEN remain_bcnt = 1
                                                     ELSE end_of_line

BeatStep(grant, rdy) ==
  nb_pcie_dout' = CASE grant -> TlpBeats
                    [] ~grant /\ rdy /\ nb_pcie_dout > 0 -> nb_pcie_dout - 1
                    [] OTHER -> nb_pcie_dout

RequestStep(rdy) ==
  tlp_req_to_send' = /\ ~LastBeat(rdy)
                     /\ dma_pcie_ctrl_state' = "TRANSF_DATA" \/ tlp_req_to_send

\* read_address is cleared in IDLE and takes the plane at the start of a line.
ReadPlaneStep ==
  read_plane' = CASE dma_pcie_ctrl_state = "IDLE"       -> 0
                  [] dma_pcie_ctrl_state = "LINE_START" -> plane_counter
                  [] OTHER                              -> read_plane

DmaIdleStep == dma_idle' = (dma_pcie_ctrl_state = "IDLE")

\* One rising edge of sys_clk in dma_write.
DmaClock(grant, rdy) == /\ DmaStep(rdy)
                        /\ ResyncStep
                        /\ EndOfDmaStep
                        /\ LineTransferedStep
                        /\ PlaneStep
                        /\ LineOffsetStep
                        /\ AddrStep(grant)
                        /\ RemainStep(grant)
                        /\ EndOfLineStep
                        /\ BeatStep(grant, rdy)
                        /\ RequestStep(rdy)
                        /\ ReadPlaneStep
                        /\ DmaIdleStep
================================================================================
