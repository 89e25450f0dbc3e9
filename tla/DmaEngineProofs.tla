---------------------------- MODULE DmaEngineProofs ----------------------------
(***************************************************************************)
(* The DMA engine keeps its lines and their contexts in step, for every    *)
(* number of lines, TLPs and beats and for every pace of its two ends.     *)
(* IInv (DmaInvariant) is shown to be inductive, one conjunct at a time;   *)
(* each safety property follows from it.                                   *)
(***************************************************************************)
EXTENDS DmaInvariant, TLAPS

\* The bounds of the ring: four buffers, and at most four lines to fill them.
LEMMA RingFacts ==
  /\ PhysBuffers = 4 /\ BufferIds = 0 .. 3
  /\ numb_line_buffer \in {2, 4, 8}
  /\ line_ptr_width # 3 => numb_line_buffer \in {2, 4}
BY LinePtrWidthAssumption DEF PhysBuffers, BufferIds, numb_line_buffer

\* The initial state satisfies the invariant.
LEMMA InitInv == Init => IInv
<1> SUFFICES ASSUME Init PROVE IInv
  OBVIOUS
<1> USE DEF Init, InInit, DmaInit, Info!Clear
<1>1. TypeOK
  <2>1. FsmTypeOK
    BY DEF FsmTypeOK
  <2>2. QueueTypeOK
    BY RingFacts DEF QueueTypeOK, Info!Slots, NoContext
  <2>3. DataTypeOK
    <3>1. line_buffer \in [BufferIds -> Lines \union {NoLine}]
      OBVIOUS
    <3>2. src \in [frame : {0, 1}, line : 0 .. MaxLines - 1, len : 0 .. MaxLines]
      BY EngineAssumption
    <3>3. nb_pcie_dout \in 0 .. TlpBeats
      BY DmaAssumption
    <3>4. /\ plane_counter \in 0 .. 3 /\ read_plane \in 0 .. 3
          /\ line_offset \in Int /\ remain_bcnt \in Int
      OBVIOUS
    <3>5. end_of_line \in BOOLEAN /\ tlp_req_to_send \in BOOLEAN /\ dma_idle \in BOOLEAN
      OBVIOUS
    <3> HIDE DEF Init, InInit, DmaInit
    <3> QED
      BY <3>1, <3>2, <3>3, <3>4, <3>5 DEF DataTypeOK
  <2> QED
    BY <2>1, <2>2, <2>3 DEF TypeOK
<1>2. Handshake
  BY DEF Handshake, NoneReady, Ready
<1>3. SameFrame
  BY DEF SameFrame
<1>4. QueuesAgree
  BY RingFacts DEF QueuesAgree, inHand, InHand, Room
<1>5. ContextsInOrder
  BY RingFacts DEF ContextsInOrder, InHand
<1> QED
  BY <1>1, <1>2, <1>3, <1>4, <1>5 DEF IInv

--------------------------------------------------------------------------------
(* Each conjunct of the invariant is preserved by a rising edge of the clock. *)

\* The three FSMs and the handshake registers keep their types.
LEMMA FsmTypeStep ==
  ASSUME FsmTypeOK, NEW s, NEW grant, NEW rdy, InClock(s), DmaClock(grant, rdy)
  PROVE  FsmTypeOK'
<1> USE DEF FsmTypeOK, InClock, DmaClock
<1>1. (wr_state \in {"S_IDLE", "S_SOF", "S_SOL", "S_WRITE", "S_TOGGLE_BUFFER",
                    "S_PCI_BACK_PRESSURE", "S_EOF"})'
  BY DEF WrStep, WrTo, WrIdle, WrFrame, WrSof, WrSol, WrBeat, WrEndOfFrame,
         WrNextLine, WrAllTaken, WrBackPressure, WrRelease, WrToggle, WrEof
<1>2. (rd_state \in {"S_IDLE", "S_WAIT_LINE", "S_READ_CONTEXT", "S_INIT",
                    "S_TRANSFER", "S_EOL", "S_END_OF_DMA", "S_DONE"})'
  BY DEF RdStep, RdTo, RdIdle, RdFrame, RdWaitLine, RdLine, RdContext, RdInit,
         RdTransfer, RdLastLine, RdLineDone, RdEol, RdEndOfDma, RdDone
<1>3. (dma_pcie_ctrl_state \in
         {"IDLE", "FRAME_STARTED", "LINE_START", "CALC_BYTECNT",
          "CALC_EOL", "TRANSF_DATA", "LINE_END", "NEXT_PLANE"})'
  BY DEF DmaStep, DmaTo, DmaIdle, DmaFrame, DmaLine, DmaFrameEnd, DmaFrameWait,
         DmaLineStart, DmaByteCnt, DmaEol, DmaTransfer, DmaTlpEnd, DmaLineEnd,
         DmaAckWait, DmaAcked, DmaNextPlane, DmaPlane
<1>4. (line_ready \in BOOLEAN /\ line_ready_meta \in BOOLEAN
       /\ line_ready_sysclk \in BOOLEAN /\ line_transfered \in BOOLEAN
       /\ end_of_dma_sysclk \in BOOLEAN)'
  BY DEF LineReadyStep, ResyncStep, LineTransferedStep, EndOfDmaStep, end_of_dma
<1> QED
  BY <1>1, <1>2, <1>3, <1>4

\* The pointers and the context FIFO stay in their rings.
LEMMA QueueTypeStep ==
  ASSUME QueueTypeOK, NEW s, InClock(s)
  PROVE  QueueTypeOK'
<1> USE RingFacts DEF QueueTypeOK, InClock
<1>1. (wr_line_ptr \in BufferIds /\ rd_line_ptr \in BufferIds)'
  BY DEF PtrStep, NextPtr
<1>2. (distance_cntr \in 0 .. 7)'
  BY DEF DistanceStep
<1>3. (info_wr \in BufferIds /\ info_rd \in BufferIds /\ info_cnt \in 0 .. 7)'
  BY DEF InfoStep, Info!Clock, Info!Succ
<1>4. (info_mem \in [BufferIds -> [eof : BOOLEAN, buff_id : BufferIds]])'
  BY DEF InfoStep, Info!Clock
<1>5. (info_q \in [eof : BOOLEAN, buff_id : BufferIds])'
  BY DEF InfoStep, Info!Clock
<1> QED
  BY <1>1, <1>2, <1>3, <1>4, <1>5

\* The stored lines are lines of the stream; the counters of dma_write keep
\* their types.
LEMMA DataTypeStep ==
  ASSUME DataTypeOK, QueueTypeOK, NEW tvalid \in BOOLEAN, NEW tlast \in BOOLEAN,
         NEW eof \in BOOLEAN, NEW grant \in BOOLEAN, NEW rdy \in BOOLEAN,
         Clock(Offer(tvalid, tlast, eof), grant, rdy)
  PROVE  DataTypeOK'
<1> USE RingFacts, DmaAssumption, EngineAssumption
    DEF DataTypeOK, Clock, InClock, DmaClock, Offer
<1>1. (line_buffer \in [BufferIds -> Lines \union {NoLine}])'
  BY DEF BufferStep, Lines, QueueTypeOK
<1>2. (src \in [frame : {0, 1}, line : 0 .. MaxLines - 1, len : 0 .. MaxLines])'
  BY DEF SrcStep, MayOffer, EndOfLine
<1>3. (plane_counter \in 0 .. 3 /\ read_plane \in 0 .. 3)'
  BY DEF PlaneStep, ReadPlaneStep
<1>4. (line_offset \in Int /\ remain_bcnt \in Int)'
  BY DEF LineOffsetStep, RemainStep
<1>5. (nb_pcie_dout \in 0 .. TlpBeats)'
  BY DEF BeatStep
<1>6. (end_of_line \in BOOLEAN /\ tlp_req_to_send \in BOOLEAN /\ dma_idle \in BOOLEAN)'
  BY DEF EndOfLineStep, RequestStep, DmaIdleStep, LastBeat
<1> QED
  BY <1>1, <1>2, <1>3, <1>4, <1>5, <1>6

\* Where the read FSM goes from each of its states.
LEMMA RdMoves ==
  ASSUME FsmTypeOK, RdStep
  PROVE  /\ rd_state = "S_IDLE" =>
              rd_state' = IF wr_state = "S_SOF" THEN "S_WAIT_LINE" ELSE "S_IDLE"
         /\ rd_state = "S_WAIT_LINE" =>
              rd_state' = IF LineStored THEN "S_READ_CONTEXT" ELSE "S_WAIT_LINE"
         /\ rd_state = "S_READ_CONTEXT" => rd_state' = "S_INIT"
         /\ rd_state = "S_INIT" => rd_state' = "S_TRANSFER"
         /\ rd_state = "S_TRANSFER" =>
              IF line_transfered
                THEN rd_state' = IF sclk_info_reof THEN "S_END_OF_DMA" ELSE "S_EOL"
                ELSE rd_state' = "S_TRANSFER"
         /\ rd_state = "S_EOL" => rd_state' = "S_WAIT_LINE"
         /\ rd_state = "S_END_OF_DMA" => rd_state' = "S_DONE"
         /\ rd_state = "S_DONE" => rd_state' = "S_IDLE"
BY DEF FsmTypeOK, RdStep, RdTo, RdIdle, RdFrame, RdWaitLine, RdLine, RdContext, RdInit,
       RdTransfer, RdLastLine, RdLineDone, RdEol, RdEndOfDma, RdDone

\* Where the write FSM comes from, for each state it can be in.
LEMMA WrMoves ==
  ASSUME FsmTypeOK, NEW s, WrStep(s)
  PROVE  /\ wr_state' \in {"S_IDLE", "S_SOF", "S_SOL", "S_WRITE", "S_TOGGLE_BUFFER",
                           "S_PCI_BACK_PRESSURE", "S_EOF"}
         /\ wr_state' = "S_IDLE" => wr_state \in {"S_IDLE", "S_EOF"}
         /\ wr_state' = "S_SOF" => wr_state = "S_IDLE" /\ s.tvalid
         /\ wr_state' = "S_SOL" => wr_state \in {"S_SOF", "S_TOGGLE_BUFFER"}
         /\ wr_state' = "S_WRITE" => wr_state \in {"S_SOL", "S_WRITE"}
         /\ wr_state' = "S_EOF" => wr_state = "S_WRITE"
         /\ wr_state' = "S_PCI_BACK_PRESSURE" =>
              wr_state \in {"S_WRITE", "S_PCI_BACK_PRESSURE"}
         /\ wr_state' = "S_TOGGLE_BUFFER" =>
              wr_state \in {"S_WRITE", "S_PCI_BACK_PRESSURE"} /\ ~line_buffer_full
BY DEF FsmTypeOK, WrStep, WrTo, WrIdle, WrFrame, WrSof, WrSol, WrBeat, WrEndOfFrame,
       WrNextLine, WrAllTaken, WrBackPressure, WrRelease, WrToggle, WrEof, EndOfLine

\* line_ready and line_transfered keep the read FSM and dma_write in their
\* handshake: one case per state of dma_write before the clock.
LEMMA HandshakeStep ==
  ASSUME ProperUse, FsmTypeOK, Handshake, SameFrame,
         NEW s, NEW grant, NEW rdy, InClock(s), DmaClock(grant, rdy)
  PROVE  Handshake'
<1> RdStep
  BY DEF InClock
<1> USE RdMoves
    DEF ProperUse, FsmTypeOK, InClock, DmaClock, SameFrame, Handshake,
        Ready, NoneReady, AllReady, Released, LineStored,
        ResyncStep, LineReadyStep, LineTransferedStep, EndOfDmaStep, start_of_frame,
        DmaStep, DmaTo, DmaIdle, DmaFrame, DmaLine, DmaFrameEnd, DmaFrameWait,
        DmaLineStart, DmaByteCnt, DmaEol, DmaTransfer, DmaTlpEnd, DmaLineEnd,
        DmaAckWait, DmaAcked, DmaNextPlane, DmaPlane
<1>1. CASE dma_pcie_ctrl_state = "IDLE"
  BY <1>1
<1>2. CASE dma_pcie_ctrl_state = "FRAME_STARTED"
  BY <1>2
<1>3. CASE dma_pcie_ctrl_state = "LINE_END"
  BY <1>3 DEF PlaneStep, last_plane
<1>4. CASE dma_pcie_ctrl_state \notin {"IDLE", "FRAME_STARTED", "LINE_END"}
  BY <1>4
<1> QED
  BY <1>1, <1>2, <1>3, <1>4

\* A frame starts when the two other FSMs are idle and ends before they are.
LEMMA SameFrameStep ==
  ASSUME ProperUse, FsmTypeOK, Handshake, SameFrame, ContextsInOrder,
         NEW s, NEW grant, NEW rdy, InClock(s), DmaClock(grant, rdy), MayOffer(s)
  PROVE  SameFrame'
<1> RdStep /\ WrStep(s)
  BY DEF InClock
<1> USE RdMoves, WrMoves DEF FsmTypeOK, Handshake, SameFrame
<1>1. (wr_state = "S_SOF" => dma_pcie_ctrl_state = "IDLE" /\ ~end_of_dma_sysclk)'
  <2> SUFFICES ASSUME wr_state' = "S_SOF" PROVE (dma_pcie_ctrl_state = "IDLE" /\ ~end_of_dma_sysclk)'
    OBVIOUS
  <2>1. dma_pcie_ctrl_state = "IDLE" /\ ~start_of_frame
    BY DEF MayOffer, ProperUse, start_of_frame
  <2> QED
    BY <2>1 DEF DmaClock, EndOfDmaStep, DmaStep, DmaTo, DmaIdle, DmaFrame, DmaLine,
         DmaFrameEnd, DmaFrameWait, DmaLineStart, DmaByteCnt, DmaEol, DmaTransfer,
         DmaTlpEnd, DmaLineEnd, DmaAckWait, DmaAcked, DmaNextPlane, DmaPlane
<1>2. (wr_state \notin {"S_IDLE", "S_SOF"} =>
         rd_state \notin {"S_IDLE", "S_END_OF_DMA", "S_DONE"})'
  <2>1. rd_state = "S_TRANSFER" /\ sclk_info_reof => wr_state = "S_IDLE"
    BY DEF ContextsInOrder, InHand, sclk_info_reof
  <2>2. wr_state = "S_SOF" => rd_state = "S_IDLE"
    OBVIOUS
  <2> SUFFICES ASSUME wr_state' \notin {"S_IDLE", "S_SOF"}
               PROVE  rd_state' \notin {"S_IDLE", "S_END_OF_DMA", "S_DONE"}
    OBVIOUS
  <2>3. CASE wr_state = "S_SOF"
    BY <2>2, <2>3
  <2>4. CASE wr_state # "S_SOF"
    <3>1. wr_state \notin {"S_IDLE", "S_SOF"}
      BY <2>4
    <3> QED
      BY <2>1, <3>1
  <2> QED
    BY <2>3, <2>4
<1>3. (end_of_dma_sysclk => rd_state \in {"S_DONE", "S_IDLE"})'
  BY DEF DmaClock, EndOfDmaStep, end_of_dma
<1> QED
  BY <1>1, <1>2, <1>3

\* Whether a line is in hand after the clock follows from where the read FSM was.
LEMMA InHandStep ==
  ASSUME FsmTypeOK, RdStep
  PROVE  InHand' <=> rd_state \in {"S_READ_CONTEXT", "S_INIT", "S_TRANSFER"}
BY RdMoves DEF FsmTypeOK, InHand

\* At the start of a frame the two queues are empty.
LEMMA EmptyAtSof ==
  ASSUME FsmTypeOK, QueueTypeOK, Handshake, SameFrame, QueuesAgree, wr_state = "S_SOF"
  PROVE  rd_state = "S_IDLE" /\ distance_cntr = 0 /\ info_cnt = 0
BY DEF FsmTypeOK, QueueTypeOK, Handshake, SameFrame, QueuesAgree, inHand, InHand

\* Neither counter wraps: one line more for each line stored, one less for each
\* line retired (distance_cntr) or each context read (info_cnt).
LEMMA CountsStep ==
  ASSUME ProperUse, FsmTypeOK, QueueTypeOK, QueuesAgree, NEW s, InClock(s)
  PROVE  /\ IF wr_state = "S_SOF"
              THEN distance_cntr' = 0
              ELSE distance_cntr' = distance_cntr + (IF incr_wr_line_ptr THEN 1 ELSE 0)
                                                  - (IF incr_rd_line_ptr THEN 1 ELSE 0)
         /\ info_cnt' = info_cnt + (IF incr_wr_line_ptr THEN 1 ELSE 0)
                                 - (IF rd_state = "S_READ_CONTEXT" THEN 1 ELSE 0)
<1> USE RingFacts DEF QueueTypeOK, InClock, InfoStep
<1>1. IF wr_state = "S_SOF"
        THEN distance_cntr' = 0
        ELSE distance_cntr' = distance_cntr + (IF incr_wr_line_ptr THEN 1 ELSE 0)
                                            - (IF incr_rd_line_ptr THEN 1 ELSE 0)
  BY DEF DistanceStep, QueuesAgree, Room, inHand, InHand, incr_wr_line_ptr,
         incr_rd_line_ptr, init_line_ptr, ProperUse
<1>2. info_cnt' = info_cnt + (IF incr_wr_line_ptr THEN 1 ELSE 0)
                           - (IF rd_state = "S_READ_CONTEXT" THEN 1 ELSE 0)
  BY DEF Info!Clock, QueuesAgree, Room, inHand, InHand, sclk_info_wren, sclk_info_rden,
         incr_wr_line_ptr, ProperUse
<1> QED
  BY <1>1, <1>2

\* The pointers, the distance counter and the context FIFO count the same lines.
LEMMA QueuesStep ==
  ASSUME ProperUse, FsmTypeOK, QueueTypeOK, Handshake, SameFrame, QueuesAgree,
         ContextsInOrder, NEW s, InClock(s)
  PROVE  QueuesAgree'
<1> RdStep /\ WrStep(s)
  BY DEF InClock
<1> USE RingFacts DEF QueueTypeOK, InClock, InfoStep
<1>1. (info_wr = (info_rd + info_cnt) % PhysBuffers)'
  BY DEF QueuesAgree, Info!Clock, Info!Succ
<1>2. (wr_line_ptr = (rd_line_ptr + distance_cntr) % PhysBuffers)'
  BY DEF QueuesAgree, PtrStep, NextPtr, DistanceStep
<1>3. (distance_cntr = info_cnt + inHand)'
  BY CountsStep, InHandStep, EmptyAtSof
  DEF QueuesAgree, FsmTypeOK, inHand, InHand, incr_wr_line_ptr, incr_rd_line_ptr
<1>4. (distance_cntr <= Room)'
  <2>1. numb_line_buffer' = numb_line_buffer
    BY DEF numb_line_buffer
  <2> QED
    BY CountsStep, <2>1, WrMoves
    DEF QueuesAgree, FsmTypeOK, Room, ProperUse, incr_wr_line_ptr, incr_rd_line_ptr, line_buffer_full
<1>5. (rd_state = "S_READ_CONTEXT" => distance_cntr > 0)'
  BY CountsStep, RdMoves, EmptyAtSof
  DEF FsmTypeOK, LineStored, incr_wr_line_ptr, incr_rd_line_ptr
<1>6. (rd_state \in {"S_IDLE", "S_DONE"} => distance_cntr = 0)'
  BY CountsStep, RdMoves
  DEF FsmTypeOK, SameFrame, QueuesAgree, ContextsInOrder, InHand, inHand,
      incr_wr_line_ptr, incr_rd_line_ptr
<1> QED
  BY <1>1, <1>2, <1>3, <1>4, <1>5, <1>6 DEF QueuesAgree

\* Arithmetic of the ring of four.
LEMMA RingPlus ==
  ASSUME NEW a \in Int, NEW b \in Int, NEW i \in Int, a % 4 = b % 4
  PROVE  (a + i) % 4 = (b + i) % 4
OBVIOUS

\* Two places of the ring less than four apart are different buffers.
LEMMA RingDistinct ==
  ASSUME NEW a \in 0 .. 3, NEW i \in 0 .. 3, NEW j \in 0 .. 3, i # j
  PROVE  (a + i) % 4 # (a + j) % 4
OBVIOUS

\* No frame starts while the read side has one.
LEMMA NoSofMeanwhile ==
  ASSUME ProperUse, FsmTypeOK, Handshake, NEW s, WrStep(s), MayOffer(s),
         wr_state = "S_IDLE", rd_state # "S_IDLE"
  PROVE  wr_state' = "S_IDLE"
BY WrMoves DEF ProperUse, FsmTypeOK, Handshake, MayOffer

\* The contexts stay in the order of the buffers, and the end of frame at the end.
LEMMA ContextsStep ==
  ASSUME ProperUse, FsmTypeOK, QueueTypeOK, Handshake, SameFrame, QueuesAgree,
         ContextsInOrder, NEW s, InClock(s), MayOffer(s)
  PROVE  ContextsInOrder'
<1> RdStep /\ WrStep(s)
  BY DEF InClock
<1> USE RingFacts DEF QueueTypeOK, InClock, InfoStep
<1>1. ASSUME NEW i \in BufferIds, i < info_cnt'
      PROVE  /\ Context(i)'.buff_id = ((rd_line_ptr + inHand + i) % PhysBuffers)'
             /\ Context(i)'.eof => i = info_cnt' - 1 /\ wr_state' = "S_IDLE"
  <2> DEFINE k == IF rd_state = "S_READ_CONTEXT" THEN 1 ELSE 0
  <2>1. wr_state # "S_SOF"
    BY <1>1, CountsStep, EmptyAtSof DEF incr_wr_line_ptr
  <2>2. /\ info_rd' = (info_rd + k) % PhysBuffers
        /\ (rd_line_ptr + inHand)' % PhysBuffers = (rd_line_ptr + inHand + k) % PhysBuffers
    BY <2>1, InHandStep DEF FsmTypeOK, Info!Clock, Info!Succ, sclk_info_rden, PtrStep, NextPtr,
       incr_rd_line_ptr, init_line_ptr, inHand, InHand
  <2>3. info_cnt \in 0 .. 4 /\ info_cnt' = info_cnt - k + (IF incr_wr_line_ptr THEN 1 ELSE 0)
    BY CountsStep DEF QueuesAgree, Room, ProperUse, inHand
  <2>6. ((rd_line_ptr + inHand + i) % PhysBuffers)' = (rd_line_ptr + inHand + (i + k)) % PhysBuffers
    <3>1. /\ rd_line_ptr + inHand \in Int /\ (rd_line_ptr + inHand)' \in Int
          /\ rd_line_ptr + inHand + k \in Int
      BY DEF inHand, PtrStep, NextPtr
    <3>2. ((rd_line_ptr + inHand)' + i) % 4 = (rd_line_ptr + inHand + k + i) % 4
      BY <2>2, <3>1, RingPlus
    <3> QED
      BY <3>1, <3>2 DEF inHand
  <2>4. CASE i + k < info_cnt
    <3>1. i + k \in BufferIds /\ (info_rd' + i) % 4 = (info_rd + (i + k)) % 4
      BY <2>2, <2>3, <2>4
    <3>2. Context(i)' = Context(i + k)
      <4>1. CASE ~incr_wr_line_ptr
        BY <3>1, <4>1 DEF Context, Info!Clock, sclk_info_wren
      <4>2. CASE incr_wr_line_ptr
        <5>1. info_cnt \in 0 .. 3
          BY <4>2, <2>3 DEF QueuesAgree, Room, ProperUse, inHand, incr_wr_line_ptr
        <5>2. (info_rd + (i + k)) % 4 # info_wr
          <6>1. i + k \in 0 .. 3 /\ i + k # info_cnt /\ info_rd \in 0 .. 3
            BY <2>4, <3>1, <5>1
          <6>2. (info_rd + (i + k)) % 4 # (info_rd + info_cnt) % 4
            BY <5>1, <6>1, RingDistinct
          <6> QED
            BY <6>2 DEF QueuesAgree
        <5> QED
          BY <3>1, <4>2, <5>2 DEF Context, Info!Clock, sclk_info_wren
      <4> QED
        BY <4>1, <4>2
    <3>3. Context(i + k).buff_id = (rd_line_ptr + inHand + (i + k)) % PhysBuffers
      BY <2>4, <3>1 DEF ContextsInOrder
    <3>4. Context(i + k).eof => i + k = info_cnt - 1 /\ wr_state = "S_IDLE"
      BY <2>4, <3>1 DEF ContextsInOrder
    <3>5. rd_state # "S_IDLE"
      BY <2>3, <2>4 DEF QueuesAgree, inHand
    <3>6. Context(i)'.buff_id = ((rd_line_ptr + inHand + i) % PhysBuffers)'
      BY <3>2, <3>3, <2>6
    <3>7. Context(i)'.eof => i = info_cnt' - 1 /\ wr_state' = "S_IDLE"
      BY <2>3, <3>2, <3>4, <3>5, NoSofMeanwhile DEF incr_wr_line_ptr
    <3> QED
      BY <3>6, <3>7
  <2>5. CASE i + k = info_cnt /\ incr_wr_line_ptr
    <3>1. (info_rd' + i) % PhysBuffers = info_wr
      BY <2>2, <2>3, <2>5 DEF QueuesAgree
    <3>2. Context(i)' = [eof |-> wr_state = "S_EOF", buff_id |-> wr_line_ptr]
      BY <2>5, <3>1 DEF Context, Info!Clock, sclk_info_wren
    <3>3. wr_line_ptr = (rd_line_ptr + inHand + (i + k)) % PhysBuffers
      BY <2>3, <2>5 DEF QueuesAgree, inHand
    <3>4. Context(i)'.buff_id = ((rd_line_ptr + inHand + i) % PhysBuffers)'
      BY <3>2, <3>3, <2>6
    <3>5. wr_state = "S_EOF" => wr_state' = "S_IDLE"
      BY WrMoves DEF FsmTypeOK
    <3>6. Context(i)'.eof => i = info_cnt' - 1 /\ wr_state' = "S_IDLE"
      <4>1. i = info_cnt' - 1
        BY <2>3, <2>5
      <4>2. Context(i)'.eof => wr_state = "S_EOF"
        <5>1. Context(i)'.eof = (wr_state = "S_EOF")
          BY <3>2
        <5> QED
          BY <5>1
      <4> QED
        BY <3>5, <4>1, <4>2
    <3> QED
      BY <3>4, <3>6
  <2> QED
    BY <1>1, <2>3, <2>4, <2>5
<1>2. InHand' => /\ info_q'.buff_id = rd_line_ptr'
                 /\ info_q'.eof => info_cnt' = 0 /\ wr_state' = "S_IDLE"
  <2>1. CASE rd_state = "S_READ_CONTEXT"
    <3>1. info_cnt > 0 /\ info_q' = Context(0) /\ rd_line_ptr' = rd_line_ptr
      BY <2>1 DEF QueuesAgree, inHand, InHand, Context, Info!Clock, sclk_info_rden,
         PtrStep, NextPtr, incr_rd_line_ptr, init_line_ptr, Handshake, SameFrame
    <3>2. /\ Context(0).buff_id = rd_line_ptr
          /\ Context(0).eof => info_cnt = 1 /\ wr_state = "S_IDLE"
      BY <2>1, <3>1 DEF ContextsInOrder, inHand, InHand
    <3> QED
      BY <2>1, <3>1, <3>2, CountsStep, NoSofMeanwhile DEF incr_wr_line_ptr
  <2>2. CASE rd_state \in {"S_INIT", "S_TRANSFER"}
    <3>1. info_q' = info_q /\ rd_line_ptr' = rd_line_ptr
      BY <2>2 DEF Info!Clock, sclk_info_rden, PtrStep, NextPtr, incr_rd_line_ptr,
         init_line_ptr, Handshake, SameFrame
    <3> QED
      BY <2>2, <3>1, CountsStep, NoSofMeanwhile
      DEF ContextsInOrder, InHand, incr_wr_line_ptr
  <2> QED
    BY <2>1, <2>2, InHandStep
<1>3. (rd_state = "S_END_OF_DMA" => info_q.eof)'
  <2> SUFFICES ASSUME rd_state' = "S_END_OF_DMA" PROVE info_q'.eof
    OBVIOUS
  <2>1. rd_state = "S_TRANSFER" /\ sclk_info_reof
    BY RdMoves DEF FsmTypeOK
  <2> QED
    BY <2>1 DEF Info!Clock, sclk_info_rden, sclk_info_reof
<1> QED
  BY <1>1, <1>2, <1>3 DEF ContextsInOrder

\* Every step of the engine preserves the invariant.
LEMMA NextInv ==
  ASSUME ProperUse, IInv, [Next]_vars
  PROVE  IInv'
<1> USE DEF IInv, TypeOK
<1>1. CASE Next
  <2> PICK tvalid, tlast, eof, grant, rdy \in BOOLEAN :
           Clock(Offer(tvalid, tlast, eof), grant, rdy)
    BY <1>1 DEF Next
  <2> DEFINE s == Offer(tvalid, tlast, eof)
  <2>1. InClock(s) /\ DmaClock(grant, rdy) /\ MayOffer(s)
    BY DEF Clock
  <2> HIDE DEF s
  <2>2. FsmTypeOK'
    BY <2>1, FsmTypeStep
  <2>3. QueueTypeOK'
    BY <2>1, QueueTypeStep
  <2>4. DataTypeOK'
    BY DataTypeStep
  <2>5. Handshake'
    BY <2>1, HandshakeStep
  <2>6. SameFrame'
    BY <2>1, SameFrameStep
  <2>7. QueuesAgree'
    BY <2>1, QueuesStep
  <2>8. ContextsInOrder'
    BY <2>1, ContextsStep
  <2> QED
    BY <2>2, <2>3, <2>4, <2>5, <2>6, <2>7, <2>8
<1>2. CASE UNCHANGED vars
  BY <1>2
  DEF vars, inVars, dmaVars, extVars, FsmTypeOK, QueueTypeOK, DataTypeOK, Handshake,
      Ready, NoneReady, AllReady, Released, last_plane, SameFrame, QueuesAgree, Room,
      inHand, InHand, ContextsInOrder, Context, numb_line_buffer
<1> QED
  BY <1>1, <1>2

--------------------------------------------------------------------------------
(* The theorems. *)

\* The invariant holds in every reachable state of a DMA that is used properly.
THEOREM Invariance == ASSUME ProperUse PROVE Spec => []IInv
<1>1. Init => IInv
  BY InitInv
<1>2. IInv /\ [Next]_vars => IInv'
  BY NextInv
<1> QED
  BY <1>1, <1>2, PTL DEF Spec

\* The line counters of axi_stream_in and of its context FIFO count the lines in
\* the buffers on every clock: they never wrap, and the start of a frame, which
\* clears one and not the other, finds both at zero (axi_stream_in.vhd,
\* distance_cntr; mtxSCFIFO.vhd, distanceCntr).
THEOREM CountersCount == ASSUME ProperUse PROVE Spec => LinesCounted
<1> DEFINE Counted ==
             LET stored == IF incr_wr_line_ptr THEN 1 ELSE 0
             IN  /\ distance_cntr' = distance_cntr + stored
                                      - (IF incr_rd_line_ptr THEN 1 ELSE 0)
                 /\ info_cnt' = info_cnt + stored - (IF sclk_info_rden THEN 1 ELSE 0)
<1>1. IInv /\ [Next]_vars => [Counted]_vars
  <2> SUFFICES ASSUME IInv, NEW s, InClock(s) PROVE Counted
    BY DEF Next, Clock
  <2>1. FsmTypeOK /\ QueueTypeOK /\ Handshake /\ SameFrame /\ QueuesAgree
    BY DEF IInv, TypeOK
  <2>2. CASE wr_state = "S_SOF"
    BY <2>1, <2>2, EmptyAtSof, CountsStep
    DEF incr_wr_line_ptr, incr_rd_line_ptr, sclk_info_rden
  <2>3. CASE wr_state # "S_SOF"
    BY <2>1, <2>3, CountsStep DEF sclk_info_rden
  <2> QED
    BY <2>2, <2>3
<1>2. [][Counted]_vars => LinesCounted
  BY PTL DEF LinesCounted
<1> QED
  BY <1>1, <1>2, Invariance, PTL DEF Spec

\* Back pressure loses no line: the buffer the stream fills is not among those
\* dma_write has not evacuated (axi_stream_in.vhd).
THEOREM LinesKept == ASSUME ProperUse PROVE Spec => []NoLineOverwritten
<1>1. IInv => NoLineOverwritten
  <2> SUFFICES ASSUME IInv, wr_state = "S_WRITE",
                      NEW i \in 0 .. distance_cntr - 1,
                      wr_line_ptr = (rd_line_ptr + i) % PhysBuffers
               PROVE  FALSE
    BY DEF NoLineOverwritten, Unread, s_axis_tready
  <2>1. distance_cntr \in 0 .. 3 /\ i \in 0 .. 3 /\ i # distance_cntr /\ rd_line_ptr \in 0 .. 3
    <3>1. distance_cntr \in 0 .. 7 /\ rd_line_ptr \in 0 .. 3
      BY RingFacts DEF IInv, TypeOK, QueueTypeOK
    <3>2. distance_cntr <= Room /\ Room = numb_line_buffer - 1
      BY DEF IInv, QueuesAgree, Room
    <3>3. numb_line_buffer \in {2, 4}
      BY RingFacts DEF ProperUse
    <3> QED
      BY <3>1, <3>2, <3>3
  <2>2. (rd_line_ptr + i) % 4 # (rd_line_ptr + distance_cntr) % 4
    BY <2>1, RingDistinct
  <2> QED
    BY <2>2, RingFacts DEF IInv, QueuesAgree
<1> QED
  BY <1>1, Invariance, PTL

\* The context FIFO between the two FSMs is neither overrun nor underrun
\* (dma_line_buffer.vhd, P_FiFoError of mtxSCFIFO.vhd).
THEOREM ContextsKept == ASSUME ProperUse PROVE Spec => []ContextFifoSafe
<1>1. IInv => ContextFifoSafe
  BY RingFacts
  DEF IInv, TypeOK, QueueTypeOK, FsmTypeOK, QueuesAgree, Room, ProperUse, inHand, InHand,
      ContextFifoSafe, Info!Overrun, Info!Underrun, Info!full, Info!empty,
      sclk_info_wren, sclk_info_rden, incr_wr_line_ptr
<1> QED
  BY <1>1, Invariance, PTL

\* The end of frame is decided by the context of the line that is transferred.
THEOREM ContextsMatch == ASSUME ProperUse PROVE Spec => []ContextOfLine
<1>1. IInv => ContextOfLine
  BY DEF IInv, ContextsInOrder, InHand, ContextOfLine
<1> QED
  BY <1>1, Invariance, PTL

\* The line dma_write cuts into TLPs is held by the read side all the while: the
\* two-stage handshake of line_ready and line_transfered never runs ahead.
THEOREM HandshakeHolds == ASSUME ProperUse PROVE Spec => []LineHeldInTransfer
<1>1. IInv => LineHeldInTransfer
  BY DEF IInv, Handshake, AllReady, Ready, LineHeldInTransfer
<1> QED
  BY <1>1, Invariance, PTL
================================================================================
