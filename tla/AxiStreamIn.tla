------------------------------ MODULE AxiStreamIn ------------------------------
(***************************************************************************)
(* axi_stream_in.vhd and dma_line_buffer.vhd: the input half of the image  *)
(* DMA.  A write FSM stores the lines of the video stream in four line     *)
(* buffers and back-pressures the stream when they are all taken; a read   *)
(* FSM hands the stored lines, oldest first, to dma_write.  Both run on    *)
(* sclk, so one step of this module is one rising edge: every register     *)
(* moves at once from the values before the edge.                          *)
(*                                                                         *)
(* A stored line is one value (its identity), NoLine while a buffer is     *)
(* being filled.  The word pointer, the length kept in the line context    *)
(* (nothing reads it back), and the max_line_buffer_cnt statistic are left *)
(* out.                                                                    *)
(***************************************************************************)
EXTENDS Integers

CONSTANTS line_ptr_width,    \* the OUTPUT_BUFFER.LINE_PTR_WIDTH register
          NoLine             \* a buffer that holds no complete line

VARIABLES wr_state, rd_state,
          wr_line_ptr, rd_line_ptr, distance_cntr,
          line_buffer,       \* the RAM: what each of the four buffers holds
          line_ready,        \* to dma_write: a line may be evacuated
          info_mem, info_wr, info_rd, info_cnt, info_q,   \* x_buff_info
          line_transfered    \* from dma_write: the line is evacuated

ASSUME LinePtrWidthAssumption == line_ptr_width \in 0 .. 3

inVars == <<wr_state, rd_state, wr_line_ptr, rd_line_ptr, distance_cntr,
            line_buffer, line_ready, info_mem, info_wr, info_rd, info_cnt, info_q>>

PhysBuffers == 4             \* 2**BUFFER_LINE_PTR_WIDTH, G_line_buffer
BufferIds   == 0 .. PhysBuffers - 1

Info == INSTANCE MtxSCFIFO WITH NUMOFMEMWORD <- 4, mem <- info_mem,
          wrAddrCntr <- info_wr, rdAddrCntr <- info_rd,
          distanceCntr <- info_cnt, q <- info_q

NoContext == [eof |-> FALSE, buff_id |-> 0]

numb_line_buffer == CASE line_ptr_width = 3 -> 8
                      [] line_ptr_width = 2 -> 4
                      [] OTHER              -> 2

s_axis_tready    == wr_state = "S_WRITE"
start_of_frame   == wr_state = "S_SOF"
init_line_ptr    == wr_state = "S_SOF"
incr_wr_line_ptr == wr_state \in {"S_TOGGLE_BUFFER", "S_EOF"}
incr_rd_line_ptr == rd_state \in {"S_EOL", "S_END_OF_DMA"}
end_of_dma       == rd_state = "S_END_OF_DMA"
line_buffer_full_late == distance_cntr = numb_line_buffer   \* mutation: one line too late
line_buffer_full == distance_cntr = numb_line_buffer - 1
sclk_info_wren_held   == incr_wr_line_ptr \/ wr_state = "S_PCI_BACK_PRESSURE"   \* mutation
sclk_info_wren   == incr_wr_line_ptr
sclk_info_rden   == rd_state = "S_READ_CONTEXT"
sclk_info_reof   == info_q.eof

InInit == /\ wr_state = "S_IDLE"
          /\ rd_state = "S_IDLE"
          /\ wr_line_ptr = 0
          /\ rd_line_ptr = 0
          /\ distance_cntr = 0
          /\ line_buffer = [b \in BufferIds |-> NoLine]
          /\ line_ready = FALSE
          /\ Info!Clear(NoContext)

--------------------------------------------------------------------------------
(* The write FSM.  s is the stream beat of this clock: tvalid, tlast, the   *)
(* tuser flags sof and eof, and tdata, the line the beat belongs to.        *)

WrTo(from, to) == wr_state = from /\ wr_state' = to
EndOfLine(s)   == s.tvalid /\ s.tlast

WrIdle(s)         == WrTo("S_IDLE", "S_IDLE") /\ ~(s.tvalid /\ s.sof)
WrFrame(s)        == WrTo("S_IDLE", "S_SOF") /\ s.tvalid /\ s.sof
WrSof             == WrTo("S_SOF", "S_SOL")
WrSol             == WrTo("S_SOL", "S_WRITE")
WrBeat(s)         == WrTo("S_WRITE", "S_WRITE") /\ ~EndOfLine(s)
WrEndOfFrame(s)   == WrTo("S_WRITE", "S_EOF") /\ EndOfLine(s) /\ s.eof
WrNextLine(s)     == /\ WrTo("S_WRITE", "S_TOGGLE_BUFFER")
                     /\ EndOfLine(s) /\ ~s.eof /\ ~line_buffer_full
WrAllTaken(s)     == /\ WrTo("S_WRITE", "S_PCI_BACK_PRESSURE")
                     /\ EndOfLine(s) /\ ~s.eof /\ line_buffer_full
WrBackPressure    == /\ WrTo("S_PCI_BACK_PRESSURE", "S_PCI_BACK_PRESSURE")
                     /\ line_buffer_full
WrRelease         == /\ WrTo("S_PCI_BACK_PRESSURE", "S_TOGGLE_BUFFER")
                     /\ ~line_buffer_full
WrToggle          == WrTo("S_TOGGLE_BUFFER", "S_SOL")
WrEof             == WrTo("S_EOF", "S_IDLE")

WrStep(s) == \/ WrIdle(s) \/ WrFrame(s) \/ WrSof \/ WrSol \/ WrBeat(s)
             \/ WrEndOfFrame(s) \/ WrNextLine(s) \/ WrAllTaken(s)
             \/ WrBackPressure \/ WrRelease \/ WrToggle \/ WrEof

--------------------------------------------------------------------------------
(* The read FSM. *)

RdTo(from, to) == rd_state = from /\ rd_state' = to

LineStoredUnchecked == ~line_transfered                      \* mutation
LineStoredLate == distance_cntr > 1 /\ ~line_transfered       \* mutation
LineStored     == distance_cntr > 0 /\ ~line_transfered
RdIdle         == RdTo("S_IDLE", "S_IDLE") /\ wr_state # "S_SOF"
RdFrame        == RdTo("S_IDLE", "S_WAIT_LINE") /\ wr_state = "S_SOF"
RdWaitLine     == RdTo("S_WAIT_LINE", "S_WAIT_LINE") /\ ~LineStored
RdLine         == RdTo("S_WAIT_LINE", "S_READ_CONTEXT") /\ LineStored
RdContext      == RdTo("S_READ_CONTEXT", "S_INIT")
RdInit         == RdTo("S_INIT", "S_TRANSFER")
RdTransfer     == RdTo("S_TRANSFER", "S_TRANSFER") /\ ~line_transfered
RdLastLine     == /\ RdTo("S_TRANSFER", "S_END_OF_DMA")
                  /\ line_transfered /\ sclk_info_reof
RdLineDone     == /\ RdTo("S_TRANSFER", "S_EOL")
                  /\ line_transfered /\ ~sclk_info_reof
RdEol          == RdTo("S_EOL", "S_WAIT_LINE")
RdEndOfDma     == RdTo("S_END_OF_DMA", "S_DONE")
RdDone         == RdTo("S_DONE", "S_IDLE")

RdStep == \/ RdIdle \/ RdFrame \/ RdWaitLine \/ RdLine \/ RdContext \/ RdInit
          \/ RdTransfer \/ RdLastLine \/ RdLineDone \/ RdEol \/ RdEndOfDma \/ RdDone

--------------------------------------------------------------------------------
(* The registers beside the two FSMs. *)

NextPtr(ptr, incr) == IF init_line_ptr THEN 0
                      ELSE IF incr THEN (ptr + 1) % PhysBuffers ELSE ptr

PtrStep ==
  /\ wr_line_ptr' = NextPtr(wr_line_ptr, incr_wr_line_ptr)
  /\ rd_line_ptr' = NextPtr(rd_line_ptr, incr_rd_line_ptr)

\* Up, down or unchanged when both sides move; BUFFER_LINE_PTR_WIDTH + 1 bits.
DistanceStep ==
  distance_cntr' =
    CASE init_line_ptr                         -> 0
      [] ~init_line_ptr /\ incr_wr_line_ptr /\ ~incr_rd_line_ptr
                                               -> (distance_cntr + 1) % 8
      [] ~init_line_ptr /\ ~incr_wr_line_ptr /\ incr_rd_line_ptr
                                               -> (distance_cntr - 1) % 8
      [] OTHER                                 -> distance_cntr

\* Every accepted beat is written; the line is complete with its last beat.
BufferStep(s) ==
  line_buffer' = IF s_axis_tready /\ s.tvalid
                   THEN [line_buffer EXCEPT ![wr_line_ptr] =
                           IF s.tlast THEN s.tdata ELSE NoLine]
                   ELSE line_buffer

InfoStep == Info!Clock(sclk_info_wren,
                       [eof |-> wr_state = "S_EOF", buff_id |-> wr_line_ptr],
                       sclk_info_rden)

LineReadyStep ==
  line_ready' = IF rd_state = "S_INIT" THEN TRUE
                ELSE IF line_transfered THEN FALSE ELSE line_ready

\* One rising edge of sclk in axi_stream_in.
InClock(s) == /\ WrStep(s)
              /\ RdStep
              /\ PtrStep
              /\ DistanceStep
              /\ BufferStep(s)
              /\ InfoStep
              /\ LineReadyStep
================================================================================
