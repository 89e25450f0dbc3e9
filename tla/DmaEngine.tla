------------------------------- MODULE DmaEngine -------------------------------
(***************************************************************************)
(* The image DMA of dmawr2tlp.vhd: axi_stream_in feeding dma_write, closed *)
(* by what stands at its two ends.  Upstream, the video pipeline, of which *)
(* y_trim.vhd and x_trim_streamout.vhd come last, sends frames of one or   *)
(* more lines.  Downstream, pcie_tx_axi.vhd grants one TLP at a time,      *)
(* takes its data, and the data lands in host memory at the address of the *)
(* header.  Both may take any time the code does, and more.  When a frame  *)
(* is evacuated the engine raises end_of_dma, which is the interrupt that  *)
(* tells software the image is in memory (intevent).                       *)
(***************************************************************************)
EXTENDS DmaWrite, Sequences

CONSTANTS MaxLines,        \* bound: lines of the longest frame
          SofWhenIdle      \* the video pipeline starts a frame only on an idle DMA

VARIABLES src,             \* upstream: frame parity, next line, lines of the last frame
          tlp_hdr,         \* the header the core accepted last
          host             \* host memory: plane, row, TLP -> what was written there

ASSUME EngineAssumption == MaxLines \in Nat \ {0} /\ SofWhenIdle \in BOOLEAN

extVars == <<src, tlp_hdr, host>>
vars    == <<inVars, dmaVars, extVars>>

Planes == 0 .. host_number_of_plane - 1
Rows   == IF host_reverse_y THEN 1 - MaxLines .. 0 ELSE 0 .. MaxLines - 1
RowOf(n) == IF host_reverse_y THEN -n ELSE n
Tlps   == 0 .. LineTlps - 1
Cells  == Planes \X Rows \X Tlps
Lines  == [frame : {0, 1}, line : 0 .. MaxLines - 1]

ASSUME NoLineAssumption == NoLine \notin Lines

Init == /\ InInit
        /\ DmaInit
        /\ src = [frame |-> 0, line |-> 0, len |-> 0]
        /\ tlp_hdr = [plane |-> 0, row |-> 0, tlp |-> 0]
        /\ host = [c \in Cells |-> NoLine]

(* Upstream.  The beat x_trim_streamout offers on this clock: nothing, or a  *)
(* beat of the line src stands at, kept until it is taken (bclk_ack).  It    *)
(* marks the last beat of a line, with or without the end of the frame that  *)
(* y_trim regenerates.  A frame ends with any line, at the latest with       *)
(* MaxLines.  The first conjunct of MayOffer is no guard of that code: it is *)
(* the assumption SofWhenIdle about the sensor's frame rate.                 *)

Offer(tvalid, tlast, eof) ==
  [tvalid |-> tvalid, tlast |-> tlast, eof |-> eof, sof |-> src.line = 0,
   tdata |-> [frame |-> src.frame, line |-> src.line]]

MayOffer(s) ==
  /\ s.tvalid /\ wr_state = "S_IDLE" /\ SofWhenIdle => dma_pcie_ctrl_state = "IDLE"
  /\ s.eof => s.tlast
  /\ s.tlast /\ src.line = MaxLines - 1 => s.eof

SrcStep(s) ==
  src' = CASE ~(s_axis_tready /\ EndOfLine(s)) -> src
           [] s_axis_tready /\ EndOfLine(s) /\ ~s.eof -> [src EXCEPT !.line = @ + 1]
           [] s_axis_tready /\ EndOfLine(s) /\ s.eof ->
                [frame |-> 1 - src.frame, line |-> 0, len |-> src.line + 1]

(* Downstream.  pcie_tx_axi grants a requested TLP when it has sent the one  *)
(* before, saves its header, and takes its data on the clocks it chooses;    *)
(* the last beat writes the line the engine reads, if it reads one.          *)

MayGrant == tlp_req_to_send /\ nb_pcie_dout = 0

ReadLine == IF rd_state = "S_TRANSFER" /\ line_buffer[rd_line_ptr] # NoLine
              THEN [line |-> line_buffer[rd_line_ptr], plane |-> read_plane]
              ELSE NoLine

HostStep(grant, rdy) ==
  /\ tlp_hdr' = IF grant THEN dma_tlp_addr_buf ELSE tlp_hdr
  /\ host' = IF LastBeat(rdy)
               THEN [host EXCEPT ![<<tlp_hdr.plane, tlp_hdr.row, tlp_hdr.tlp>>] = ReadLine]
               ELSE host

Clock(s, grant, rdy) ==
  /\ MayOffer(s)
  /\ grant => MayGrant
  /\ rdy => nb_pcie_dout > 0
  /\ InClock(s)
  /\ DmaClock(grant, rdy)
  /\ SrcStep(s)
  /\ HostStep(grant, rdy)

Next == \E tvalid, tlast, eof, grant, rdy \in BOOLEAN :
          Clock(Offer(tvalid, tlast, eof), grant, rdy)

(* Fairness: the clock runs though no input moves; a line once begun is sent *)
(* to its end, as the sensor reads out on its own.  A requested TLP is       *)
(* granted and its data taken: the arbiter of pcie_tx_axi puts the DMA, the  *)
(* highest agent, before the others, and the link is assumed to run.         *)
(* Nothing makes the sensor start a frame.                                   *)

Quiet       == Clock(Offer(FALSE, FALSE, FALSE), FALSE, FALSE)
StreamMoves == wr_state = "S_WRITE" /\ \E eof, grant, rdy \in BOOLEAN :
                 Clock(Offer(TRUE, TRUE, eof), grant, rdy)
HostGrants  == \E tvalid, tlast, eof, rdy \in BOOLEAN :
                 MayGrant /\ Clock(Offer(tvalid, tlast, eof), TRUE, rdy)
HostAccepts == \E tvalid, tlast, eof, grant \in BOOLEAN :
                 Clock(Offer(tvalid, tlast, eof), grant, TRUE)

Fairness == /\ WF_vars(Quiet)
            /\ WF_vars(StreamMoves)
            /\ WF_vars(HostGrants)
            /\ WF_vars(HostAccepts)

Spec     == Init /\ [][Next]_vars
FairSpec == Spec /\ Fairness

--------------------------------------------------------------------------------
(* Properties. *)

FsmTypeOK ==
  /\ wr_state \in {"S_IDLE", "S_SOF", "S_SOL", "S_WRITE", "S_TOGGLE_BUFFER",
                   "S_PCI_BACK_PRESSURE", "S_EOF"}
  /\ rd_state \in {"S_IDLE", "S_WAIT_LINE", "S_READ_CONTEXT", "S_INIT",
                   "S_TRANSFER", "S_EOL", "S_END_OF_DMA", "S_DONE"}
  /\ dma_pcie_ctrl_state \in {"IDLE", "FRAME_STARTED", "LINE_START", "CALC_BYTECNT",
                              "CALC_EOL", "TRANSF_DATA", "LINE_END", "NEXT_PLANE"}
  /\ line_ready \in BOOLEAN /\ line_ready_meta \in BOOLEAN
  /\ line_ready_sysclk \in BOOLEAN /\ line_transfered \in BOOLEAN
  /\ end_of_dma_sysclk \in BOOLEAN

QueueTypeOK ==
  /\ wr_line_ptr \in BufferIds /\ rd_line_ptr \in BufferIds
  /\ distance_cntr \in 0 .. 7
  /\ info_wr \in BufferIds /\ info_rd \in BufferIds /\ info_cnt \in 0 .. 7
  /\ info_mem \in [BufferIds -> [eof : BOOLEAN, buff_id : BufferIds]]
  /\ info_q \in [eof : BOOLEAN, buff_id : BufferIds]

DataTypeOK ==
  /\ line_buffer \in [BufferIds -> Lines \union {NoLine}]
  /\ src \in [frame : {0, 1}, line : 0 .. MaxLines - 1, len : 0 .. MaxLines]
  /\ plane_counter \in 0 .. 3 /\ read_plane \in 0 .. 3
  /\ line_offset \in Int /\ remain_bcnt \in Int
  /\ nb_pcie_dout \in 0 .. TlpBeats
  /\ end_of_line \in BOOLEAN /\ tlp_req_to_send \in BOOLEAN /\ dma_idle \in BOOLEAN

TypeOK == FsmTypeOK /\ QueueTypeOK /\ DataTypeOK

\* The buffers that hold a line dma_write has not acknowledged.
Unread == {(rd_line_ptr + i) % PhysBuffers : i \in 0 .. distance_cntr - 1}

\* No line is lost to back pressure: the buffer the stream is being written to
\* never holds a line that is still to be evacuated ("When asserted it means we
\* can accept a full line in the line buffer", axi_stream_in.vhd).
NoLineOverwritten == s_axis_tready => wr_line_ptr \notin Unread

\* The line contexts and the line pointers are two queues that must agree: the
\* context FIFO is never written when full nor read when empty.
ContextFifoSafe == ~Info!Overrun(sclk_info_wren) /\ ~Info!Underrun(sclk_info_rden)

\* While a line is transferred its context is the one of the buffer that is read,
\* so end of frame is decided by the right line (rbuff_id is not wired back).
ContextOfLine == rd_state \in {"S_INIT", "S_TRANSFER", "S_EOL", "S_END_OF_DMA"} =>
                   info_q.buff_id = rd_line_ptr

\* The assertion of dma_write in TRANSF_DATA: the line is not taken away while a
\* TLP of it is under way, and the read side is really in its transfer.
LineHeldInTransfer == dma_pcie_ctrl_state = "TRANSF_DATA" =>
                        line_ready /\ rd_state = "S_TRANSFER"

\* When software gets the end-of-DMA interrupt, the whole frame is in host memory:
\* every plane, row and TLP holds its own part of the frame that was just sent.
FrameInHost ==
  end_of_dma =>
    \A p \in Planes, n \in 0 .. src.len - 1, k \in Tlps :
      host[<<p, RowOf(n), k>>] =
        [line |-> [frame |-> 1 - src.frame, line |-> n], plane |-> p]

\* The FIFO of free buffers never wedges the engine: a frame that was accepted is
\* evacuated completely, its interrupt is raised and the engine gets idle again.
FrameCompletes == (wr_state = "S_SOF") ~> end_of_dma
BackToIdle     == end_of_dma ~> (dma_pcie_ctrl_state = "IDLE" /\ rd_state = "S_IDLE")
================================================================================
