------------------------------ MODULE DmaInvariant ------------------------------
(***************************************************************************)
(* The inductive invariant of the DMA engine: how its three FSMs, its two  *)
(* queues and its two-stage handshake move together.  It holds for the     *)
(* programming the software really uses: two or four line buffers, a bus   *)
(* mastering device, and a video pipeline that starts a frame on an idle   *)
(* DMA.                                                                    *)
(***************************************************************************)
EXTENDS DmaEngine

ProperUse == line_ptr_width # 3 /\ SofWhenIdle /\ cfg_bus_mast_en

\* A line whose context was read and whose buffer is not retired yet.
InHand == rd_state \in {"S_INIT", "S_TRANSFER", "S_EOL", "S_END_OF_DMA"}
inHand == IF InHand THEN 1 ELSE 0

\* line_ready crosses to dma_write in two clocks, line_transfered comes back in
\* one; dma_write leaves LINE_END only when it saw line_ready fall.
Ready(lr, meta, sysclk) == /\ line_ready = lr
                           /\ line_ready_meta = meta
                           /\ line_ready_sysclk = sysclk
NoneReady == Ready(FALSE, FALSE, FALSE)
AllReady  == rd_state = "S_TRANSFER" /\ Ready(TRUE, TRUE, TRUE)
Released  == \/ rd_state \in {"S_EOL", "S_END_OF_DMA"} /\ Ready(FALSE, TRUE, TRUE)
             \/ rd_state \in {"S_WAIT_LINE", "S_DONE"} /\ Ready(FALSE, FALSE, TRUE)
             \/ rd_state \in {"S_WAIT_LINE", "S_IDLE"} /\ NoneReady

Handshake ==
  CASE dma_pcie_ctrl_state = "IDLE" ->
         rd_state = "S_IDLE" /\ NoneReady /\ ~line_transfered
    [] dma_pcie_ctrl_state = "FRAME_STARTED" ->
         \/ NoneReady /\ rd_state \in {"S_IDLE", "S_WAIT_LINE"}
         \/ NoneReady /\ rd_state \in {"S_READ_CONTEXT", "S_INIT"} /\ ~line_transfered
         \/ /\ rd_state = "S_TRANSFER" /\ ~line_transfered
            /\ line_ready /\ (line_ready_sysclk => line_ready_meta)
    [] dma_pcie_ctrl_state = "LINE_END" ->
         \/ AllReady /\ (line_transfered => last_plane)
         \/ Released /\ line_transfered /\ last_plane
    [] OTHER -> AllReady /\ ~line_transfered

\* The three FSMs are in the same frame.
SameFrame ==
  /\ wr_state = "S_SOF" => dma_pcie_ctrl_state = "IDLE" /\ ~end_of_dma_sysclk
  /\ wr_state \notin {"S_IDLE", "S_SOF"} =>
       rd_state \notin {"S_IDLE", "S_END_OF_DMA", "S_DONE"}
  /\ end_of_dma_sysclk => rd_state \in {"S_DONE", "S_IDLE"}

\* The lines that may be stored when the write FSM is where it is.
Room == CASE wr_state = "S_TOGGLE_BUFFER"    -> numb_line_buffer - 2
          [] wr_state \in {"S_IDLE", "S_SOF"} -> numb_line_buffer
          [] OTHER                           -> numb_line_buffer - 1

\* Line pointers, distance and context FIFO count the same lines.
QueuesAgree ==
  /\ wr_line_ptr = (rd_line_ptr + distance_cntr) % PhysBuffers
  /\ info_wr = (info_rd + info_cnt) % PhysBuffers
  /\ distance_cntr = info_cnt + inHand
  /\ distance_cntr <= Room
  /\ rd_state = "S_READ_CONTEXT" => distance_cntr > 0
  /\ rd_state \in {"S_IDLE", "S_DONE"} => distance_cntr = 0

\* A context is the one of the buffer at its place in the queue, and end of frame
\* is marked on the last line of a frame that is completely stored.
Context(i) == info_mem[(info_rd + i) % PhysBuffers]
ContextsInOrder ==
  /\ \A i \in BufferIds : i < info_cnt =>
       /\ Context(i).buff_id = (rd_line_ptr + inHand + i) % PhysBuffers
       /\ Context(i).eof => i = info_cnt - 1 /\ wr_state = "S_IDLE"
  /\ InHand => /\ info_q.buff_id = rd_line_ptr
               /\ info_q.eof => info_cnt = 0 /\ wr_state = "S_IDLE"
  /\ rd_state = "S_END_OF_DMA" => info_q.eof

\* The two counters really count lines: on every clock, the start of a frame
\* included, distance_cntr moves by the lines stored less the lines retired, and
\* the distance of the context FIFO by the lines stored less the contexts read.
\* So neither ever wraps on its three bits, and init_line_ptr, which clears the
\* first and not the second, drops no line.
LinesCounted ==
  [][LET stored == IF incr_wr_line_ptr THEN 1 ELSE 0
     IN  /\ distance_cntr' = distance_cntr + stored - (IF incr_rd_line_ptr THEN 1 ELSE 0)
         /\ info_cnt' = info_cnt + stored - (IF sclk_info_rden THEN 1 ELSE 0)]_vars

\* The inductive invariant.
IInv == TypeOK /\ Handshake /\ SameFrame /\ QueuesAgree /\ ContextsInOrder
================================================================================
