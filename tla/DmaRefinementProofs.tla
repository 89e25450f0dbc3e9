-------------------------- MODULE DmaRefinementProofs --------------------------
(***************************************************************************)
(* The DMA engine delivers what it accepts: for every number of lines,     *)
(* planes, TLPs and beats, each line reaches its own rows of host memory,  *)
(* the end-of-DMA interrupt finds the whole frame there, and the engine    *)
(* implements FrameTransfer step by step.  DataInv (DmaDataInvariant) is   *)
(* inductive relative to IInv, which DmaEngineProofs has established.      *)
(***************************************************************************)
EXTENDS DmaDataInvariant, DmaEngineProofs, SequenceTheorems

one(b) == IF b THEN 1 ELSE 0
Accepts(s) == s_axis_tready /\ EndOfLine(s)

\* Where dma_write goes from each of its states.
LEMMA DmaMoves ==
  ASSUME FsmTypeOK, NEW rdy, DmaStep(rdy)
  PROVE  /\ dma_pcie_ctrl_state = "IDLE" =>
              dma_pcie_ctrl_state' = IF start_of_frame /\ cfg_bus_mast_en
                                       THEN "FRAME_STARTED" ELSE "IDLE"
         /\ dma_pcie_ctrl_state = "FRAME_STARTED" =>
              dma_pcie_ctrl_state' = IF line_ready_sysclk THEN "LINE_START"
                                     ELSE IF end_of_dma_sysclk THEN "IDLE" ELSE "FRAME_STARTED"
         /\ dma_pcie_ctrl_state = "LINE_START" => dma_pcie_ctrl_state' = "CALC_BYTECNT"
         /\ dma_pcie_ctrl_state = "CALC_BYTECNT" => dma_pcie_ctrl_state' = "CALC_EOL"
         /\ dma_pcie_ctrl_state = "CALC_EOL" => dma_pcie_ctrl_state' = "TRANSF_DATA"
         /\ dma_pcie_ctrl_state = "TRANSF_DATA" =>
              IF LastBeat(rdy)
                THEN dma_pcie_ctrl_state' = IF end_of_line THEN "LINE_END" ELSE "CALC_BYTECNT"
                ELSE dma_pcie_ctrl_state' = "TRANSF_DATA"
         /\ dma_pcie_ctrl_state = "LINE_END" =>
              IF last_plane
                THEN dma_pcie_ctrl_state' = IF line_ready_sysclk THEN "LINE_END"
                                                                 ELSE "FRAME_STARTED"
                ELSE dma_pcie_ctrl_state' = "NEXT_PLANE"
         /\ dma_pcie_ctrl_state = "NEXT_PLANE" => dma_pcie_ctrl_state' = "LINE_START"
BY DEF FsmTypeOK, DmaStep, DmaTo, DmaIdle, DmaFrame, DmaLine, DmaFrameEnd, DmaFrameWait,
       DmaLineStart, DmaByteCnt, DmaEol, DmaTransfer, DmaTlpEnd, DmaLineEnd,
       DmaAckWait, DmaAcked, DmaNextPlane, DmaPlane

\* The lines held are the first of the ring; their number has its bounds.
LEMMA HeldFacts ==
  ASSUME ProperUse, IInv
  PROVE  /\ held \in 0 .. 4 /\ accepted \in 0 .. MaxLines /\ sent \in Int
         /\ distance_cntr \in 0 .. 4 /\ rd_line_ptr \in 0 .. 3
         /\ held <= numb_line_buffer
         /\ wr_state = "S_WRITE" => held = distance_cntr /\ held < numb_line_buffer /\ held < 4
         /\ InHand => held > 0
         /\ frame \in {0, 1} /\ src.frame \in {0, 1} /\ src.line \in 0 .. MaxLines - 1
<1>1. /\ distance_cntr \in 0 .. 7 /\ rd_line_ptr \in 0 .. 3 /\ info_cnt \in 0 .. 7
      /\ src.frame \in {0, 1} /\ src.line \in 0 .. MaxLines - 1 /\ src.len \in 0 .. MaxLines
  BY RingFacts DEF IInv, TypeOK, QueueTypeOK, DataTypeOK
<1>2. distance_cntr <= Room /\ distance_cntr = info_cnt + inHand
  BY DEF IInv, QueuesAgree
<1>3. numb_line_buffer \in {2, 4}
  BY RingFacts DEF ProperUse
<1>4. held \in 0 .. 4 /\ held <= numb_line_buffer
  BY <1>1, <1>2, <1>3 DEF held, pending, Room
<1>5. accepted \in 0 .. MaxLines /\ frame \in {0, 1}
  BY <1>1, EngineAssumption DEF accepted, frame
<1>6. wr_state = "S_WRITE" => held = distance_cntr /\ held < numb_line_buffer /\ held < 4
  BY <1>1, <1>2, <1>3 DEF held, pending, Room
<1>7. InHand => held > 0
  BY <1>1, <1>2 DEF inHand, held, pending
<1> QED
  BY <1>1, <1>2, <1>3, <1>4, <1>5, <1>6, <1>7, EngineAssumption DEF sent, Room

\* What a clock does to the lines: at the start of a frame there are none, later
\* the stream may add one and the read side may retire one.
LEMMA LinesMove ==
  ASSUME ProperUse, IInv, LinesInOrder,
         NEW s, s.eof \in BOOLEAN, InClock(s), MayOffer(s), SrcStep(s)
  PROVE  /\ wr_state = "S_SOF" =>
              /\ rd_state = "S_IDLE" /\ phase = "idle" /\ phase' = "open"
              /\ held' = 0 /\ accepted' = 0 /\ sent' = 0 /\ frame' = 1 - frame
              /\ held = 0 /\ ~Accepts(s)
         /\ wr_state # "S_SOF" =>
              /\ held' = held + one(Accepts(s)) - one(incr_rd_line_ptr)
              /\ accepted' = accepted + one(Accepts(s))
              /\ frame' = frame
              /\ sent' = sent + one(incr_rd_line_ptr)
              /\ phase' = IF rd_state = "S_DONE" THEN "idle"
                          ELSE IF Accepts(s) /\ s.eof THEN "closed" ELSE phase
         /\ Accepts(s) => phase = "open" /\ frame = src.frame /\ accepted = src.line
         /\ wr_state' \in {"S_IDLE", "S_SOF", "S_EOF"} => src'.line = 0
<1>1. RdStep /\ WrStep(s) /\ DistanceStep
  BY DEF InClock
<1>2. FsmTypeOK /\ QueueTypeOK /\ Handshake /\ SameFrame /\ QueuesAgree /\ ContextsInOrder
  BY DEF IInv, TypeOK
<1>3. wr_state \in {"S_IDLE", "S_SOF", "S_SOL", "S_WRITE", "S_TOGGLE_BUFFER",
                    "S_PCI_BACK_PRESSURE", "S_EOF"}
  BY <1>2 DEF FsmTypeOK
<1>4. CASE wr_state = "S_SOF"
  <2>1. rd_state = "S_IDLE" /\ distance_cntr' = 0 /\ rd_state' = "S_WAIT_LINE"
    BY <1>1, <1>2, <1>4, EmptyAtSof, CountsStep, RdMoves
  <2>2. wr_state' = "S_SOL"
    BY <1>1, <1>4 DEF WrStep, WrTo, WrIdle, WrFrame, WrSof, WrSol, WrBeat, WrEndOfFrame,
       WrNextLine, WrAllTaken, WrBackPressure, WrRelease, WrToggle, WrEof
  <2>3. src' = src /\ ~Accepts(s) /\ src.line = 0
    BY <1>1, <1>4 DEF SrcStep, s_axis_tready, Accepts, LinesInOrder
  <2>4. phase = "idle" /\ phase' = "open" /\ frame' = 1 - frame
    BY <2>1, <2>2, <2>3, HeldFacts DEF phase, frame
  <2>5. held' = 0 /\ accepted' = 0 /\ held = 0
    <3>1. distance_cntr = 0
      BY <1>2, <1>4, EmptyAtSof
    <3> QED
      BY <1>4, <2>1, <2>2, <2>3, <2>4, <3>1 DEF held, pending, accepted
  <2>6. sent' = 0
    BY <2>5 DEF sent
  <2> QED
    BY <1>4, <2>1, <2>2, <2>3, <2>4, <2>5, <2>6
<1>5. CASE wr_state # "S_SOF"
  <2>1. distance_cntr' = distance_cntr + one(incr_wr_line_ptr) - one(incr_rd_line_ptr)
    BY <1>1, <1>2, <1>5, CountsStep DEF one
  <2>2. /\ wr_state = "S_WRITE" => rd_state \notin {"S_IDLE", "S_DONE", "S_END_OF_DMA"}
        /\ Accepts(s) => wr_state = "S_WRITE"
    BY <1>2 DEF SameFrame, Accepts, s_axis_tready
  <2>3. /\ wr_state' \in {"S_TOGGLE_BUFFER", "S_PCI_BACK_PRESSURE", "S_EOF"} <=>
             Accepts(s) \/ wr_state = "S_PCI_BACK_PRESSURE"
        /\ wr_state' = "S_EOF" <=> Accepts(s) /\ s.eof
        /\ wr_state' \in {"S_IDLE", "S_SOF"} <=> wr_state \in {"S_IDLE", "S_EOF"}
        /\ wr_state' = "S_SOF" => wr_state = "S_IDLE"
    BY <1>1, <1>2, <1>3, <1>5 DEF Accepts, s_axis_tready, EndOfLine, WrStep, WrTo, WrIdle, WrFrame, WrSof,
       WrSol, WrBeat, WrEndOfFrame, WrNextLine, WrAllTaken, WrBackPressure, WrRelease,
       WrToggle, WrEof
  <2>4. pending' = pending + one(Accepts(s)) - one(incr_wr_line_ptr)
    BY <1>3, <2>2, <2>3 DEF pending, one, incr_wr_line_ptr
  <2>5. held' = held + one(Accepts(s)) - one(incr_rd_line_ptr)
    BY <2>1, <2>4, HeldFacts DEF held, pending, one
  <2>6. /\ ~Accepts(s) => src' = src
        /\ Accepts(s) /\ ~s.eof => src' = [src EXCEPT !.line = @ + 1]
        /\ Accepts(s) /\ s.eof =>
             src' = [frame |-> 1 - src.frame, line |-> 0, len |-> src.line + 1]
    BY <1>1 DEF SrcStep, Accepts
  <2>7. rd_state' = "S_IDLE" <=> rd_state \in {"S_DONE", "S_IDLE"}
    BY <1>1, <1>2, <1>5, RdMoves DEF FsmTypeOK
  <2>8. wr_state = "S_IDLE" /\ rd_state # "S_IDLE" => wr_state' = "S_IDLE"
    BY <1>1, <1>2, NoSofMeanwhile
  <2>9. rd_state \in {"S_IDLE", "S_DONE"} => wr_state = "S_IDLE"
    BY <1>2, <1>3, <1>5 DEF SameFrame
  <2>10. phase' = IF rd_state = "S_DONE" THEN "idle"
                  ELSE IF Accepts(s) /\ s.eof THEN "closed" ELSE phase
    <3>1. CASE rd_state \in {"S_DONE", "S_IDLE"}
      <4>1. phase' = "idle" /\ ~Accepts(s)
        BY <2>2, <2>7, <2>9, <3>1 DEF phase
      <4> QED
        BY <3>1, <4>1 DEF phase
    <3>2. CASE rd_state \notin {"S_DONE", "S_IDLE"}
      <4>1. wr_state' # "S_SOF"
        BY <2>3, <2>8, <1>5, <3>2
      <4>2. /\ phase = IF wr_state \in {"S_EOF", "S_IDLE"} THEN "closed" ELSE "open"
            /\ phase' = IF wr_state' \in {"S_EOF", "S_IDLE"} THEN "closed" ELSE "open"
        BY <2>7, <3>2 DEF phase
      <4>3. wr_state' \in {"S_EOF", "S_IDLE"} <=>
              (Accepts(s) /\ s.eof) \/ wr_state \in {"S_EOF", "S_IDLE"}
        BY <1>3, <2>2, <2>3, <4>1
      <4> QED
        BY <3>2, <4>2, <4>3
    <3> QED
      BY <3>1, <3>2
  <2>11. Accepts(s) => phase = "open" /\ frame = src.frame /\ accepted = src.line
    BY <2>2 DEF phase, frame, accepted
  <2>12. phase = "open" => wr_state \notin {"S_IDLE", "S_EOF"} /\ rd_state # "S_DONE"
    BY <2>9 DEF phase
  <2>13. src \in [frame : {0, 1}, line : 0 .. MaxLines - 1, len : 0 .. MaxLines]
    BY DEF IInv, TypeOK, DataTypeOK
  <2>14. frame' = frame /\ accepted' = accepted + one(Accepts(s))
    <3>1. CASE ~Accepts(s)
      <4>1. src' = src /\ (phase' = "open" <=> phase = "open")
        BY <2>6, <2>10, <2>12, <3>1
      <4> QED
        BY <3>1, <4>1, HeldFacts DEF frame, accepted, one
    <3>2. CASE Accepts(s) /\ ~s.eof
      <4>1. phase = "open" /\ phase' = "open"
        BY <2>10, <2>11, <2>12, <3>2
      <4> QED
        BY <2>6, <2>13, <3>2, <4>1 DEF frame, accepted, one
    <3>3. CASE Accepts(s) /\ s.eof
      <4>1. phase = "open" /\ phase' = "closed"
        BY <2>10, <2>11, <2>12, <3>3
      <4> QED
        BY <2>6, <2>13, <3>3, <4>1 DEF frame, accepted, one
    <3> QED
      BY <3>1, <3>2, <3>3
  <2>15. sent' = sent + one(incr_rd_line_ptr)
    BY <2>5, <2>14, HeldFacts DEF sent, one
  <2>16. wr_state' \in {"S_IDLE", "S_SOF", "S_EOF"} => src'.line = 0
    <3>1. CASE wr_state' = "S_EOF"
      BY <2>3, <2>6, <3>1
    <3>2. CASE wr_state' \in {"S_IDLE", "S_SOF"}
      <4>1. wr_state \in {"S_IDLE", "S_EOF"} /\ ~Accepts(s)
        BY <2>2, <2>3, <3>2
      <4> QED
        BY <2>6, <4>1 DEF LinesInOrder
    <3> QED
      BY <3>1, <3>2
  <2> QED
    BY <1>5, <2>5, <2>10, <2>11, <2>14, <2>15, <2>16
<1> QED
  BY <1>4, <1>5

\* The buffers keep holding the lines of the frame in the order of the stream.
LEMMA LinesStep ==
  ASSUME ProperUse, IInv, IInv', LinesInOrder,
         NEW s, s.eof \in BOOLEAN, InClock(s), MayOffer(s), SrcStep(s),
         s.tdata = [frame |-> src.frame, line |-> src.line]
  PROVE  LinesInOrder'
<1>1. /\ sent' >= 0
      /\ wr_state' \in {"S_IDLE", "S_SOF", "S_EOF"} => src'.line = 0
  BY LinesMove, HeldFacts DEF LinesInOrder, one
<1>2. ASSUME NEW i \in 0 .. held' - 1
      PROVE  line_buffer'[(rd_line_ptr' + i) % PhysBuffers]
               = [frame |-> frame', line |-> sent' + i]
  <2> DEFINE k == one(incr_rd_line_ptr)
             j == i + k
             at == (rd_line_ptr + j) % 4
  <2>1. wr_state # "S_SOF"
    BY <1>2, LinesMove
  <2>2. /\ held' = held + one(Accepts(s)) - k /\ frame' = frame /\ sent' = sent + k
        /\ Accepts(s) => frame = src.frame /\ accepted = src.line
    BY <2>1, LinesMove
  <2>3. /\ held \in 0 .. 4 /\ rd_line_ptr \in 0 .. 3 /\ distance_cntr \in 0 .. 4 /\ sent \in Int
        /\ wr_state = "S_WRITE" => held = distance_cntr /\ held < 4
    BY HeldFacts
  <2>4. k \in {0, 1} /\ j \in 0 .. held /\ (j = held => Accepts(s)) /\ i \in Nat
        /\ i + k = j
    BY <1>2, <2>2, <2>3 DEF one
  <2>5. rd_line_ptr' = (rd_line_ptr + k) % 4
    BY <2>1, <2>3, RingFacts DEF InClock, PtrStep, NextPtr, init_line_ptr, one
  <2>6. (rd_line_ptr' + i) % 4 = at
    <3>1. (rd_line_ptr + k) % 4 \in Int /\ rd_line_ptr + k \in Int
      BY <2>3, <2>4
    <3>2. ((rd_line_ptr + k) % 4) % 4 = (rd_line_ptr + k) % 4
      BY <3>1
    <3>3. (((rd_line_ptr + k) % 4) + i) % 4 = (rd_line_ptr + k + i) % 4
      BY <2>4, <3>1, <3>2, RingPlus
    <3>4. rd_line_ptr + k + i = rd_line_ptr + j
      BY <2>3, <2>4
    <3> QED
      BY <2>5, <3>3, <3>4
  <2>7. wr_line_ptr = (rd_line_ptr + distance_cntr) % 4 /\ at \in BufferIds
    BY <2>3, <2>4, RingFacts DEF IInv, QueuesAgree
  <2>8. DOMAIN line_buffer = BufferIds
    BY DEF IInv, TypeOK, DataTypeOK
  <2>9. Accepts(s) => s_axis_tready /\ s.tvalid /\ s.tlast
    BY DEF Accepts, EndOfLine
  <2> HIDE DEF k, j
  <2>10. CASE j < held
    <3>1. s_axis_tready => at # wr_line_ptr
      <4> SUFFICES ASSUME s_axis_tready PROVE at # wr_line_ptr
        OBVIOUS
      <4>1. j \in 0 .. 3 /\ distance_cntr \in 0 .. 3 /\ j # distance_cntr
        BY <2>3, <2>4, <2>10 DEF s_axis_tready
      <4> QED
        BY <2>3, <2>7, <4>1, RingDistinct
    <3>2. line_buffer'[at] = line_buffer[at]
      BY <2>7, <2>8, <3>1 DEF InClock, BufferStep
    <3>3. line_buffer[at] = [frame |-> frame, line |-> sent + j]
      <4>1. j \in 0 .. held - 1
        BY <2>3, <2>4, <2>10
      <4> QED
        BY <4>1, RingFacts DEF LinesInOrder
    <3>4. sent + j = sent' + i
      BY <2>2, <2>3, <2>4
    <3> QED
      BY <2>2, <2>6, <3>2, <3>3, <3>4, RingFacts
  <2>11. CASE j = held
    <3>1. Accepts(s) /\ at = wr_line_ptr
      BY <2>3, <2>4, <2>7, <2>9, <2>11 DEF s_axis_tready
    <3>2. line_buffer'[at] = [frame |-> src.frame, line |-> src.line]
      BY <2>7, <2>8, <2>9, <3>1 DEF InClock, BufferStep
    <3>3. src.frame = frame' /\ src.line = sent' + i
      <4>1. accepted = sent + held
        BY <2>3, HeldFacts DEF sent
      <4> QED
        BY <2>2, <2>3, <2>4, <2>11, <3>1, <4>1
    <3> QED
      BY <2>6, <3>2, <3>3, RingFacts
  <2> QED
    BY <2>3, <2>4, <2>10, <2>11
<1> QED
  BY <1>1, <1>2 DEF LinesInOrder

--------------------------------------------------------------------------------
(* The other half: where dma_write is in a line. *)

\* A grant and a last beat happen in TRANSF_DATA only, and never together.
LEMMA LinkStep ==
  ASSUME FsmTypeOK, DataTypeOK, LinkIdle, NEW grant \in BOOLEAN, NEW rdy \in BOOLEAN,
         DmaClock(grant, rdy), grant => MayGrant, rdy => nb_pcie_dout > 0
  PROVE  /\ LinkIdle'
         /\ grant => /\ dma_pcie_ctrl_state = "TRANSF_DATA" /\ ~LastBeat(rdy)
                     /\ onLink = 0 /\ onLink' = 1
         /\ LastBeat(rdy) => /\ dma_pcie_ctrl_state = "TRANSF_DATA"
                             /\ onLink = 1 /\ onLink' = 0
         /\ ~grant /\ ~LastBeat(rdy) => onLink' = onLink
<1> DmaStep(rdy)
  BY DEF DmaClock
<1>1. nb_pcie_dout \in 0 .. TlpBeats /\ TlpBeats \in Nat \ {0} /\ tlp_req_to_send \in BOOLEAN
  BY DmaAssumption DEF DataTypeOK
<1>2. nb_pcie_dout' = IF grant THEN TlpBeats
                      ELSE IF rdy /\ nb_pcie_dout > 0 THEN nb_pcie_dout - 1 ELSE nb_pcie_dout
  BY DEF DmaClock, BeatStep
<1>3. /\ grant => dma_pcie_ctrl_state = "TRANSF_DATA" /\ nb_pcie_dout = 0 /\ ~rdy
      /\ LastBeat(rdy) => dma_pcie_ctrl_state = "TRANSF_DATA" /\ nb_pcie_dout = 1 /\ rdy
  BY <1>1 DEF MayGrant, LinkIdle, LastBeat
<1>4. tlp_req_to_send' <=> ~LastBeat(rdy) /\ (dma_pcie_ctrl_state' = "TRANSF_DATA" \/ tlp_req_to_send)
  BY DEF DmaClock, RequestStep
<1>5. dma_pcie_ctrl_state' = "TRANSF_DATA" <=>
        dma_pcie_ctrl_state = "CALC_EOL"
          \/ (dma_pcie_ctrl_state = "TRANSF_DATA" /\ ~LastBeat(rdy))
  BY DmaMoves DEF FsmTypeOK
<1>6. LinkIdle'
  BY <1>1, <1>2, <1>3, <1>4, <1>5 DEF LinkIdle, LastBeat
<1> QED
  BY <1>1, <1>2, <1>3, <1>6 DEF onLink, LastBeat

\* While a line is under way its buffer is not retired; dma_write counts it later.
LEMMA RowMoves ==
  ASSUME ProperUse, IInv, LinesInOrder,
         NEW s, s.eof \in BOOLEAN, InClock(s), MayOffer(s), SrcStep(s),
         NEW grant, NEW rdy, DmaClock(grant, rdy)
  PROVE  /\ dma_pcie_ctrl_state = "IDLE" /\ dma_pcie_ctrl_state' # "IDLE" =>
              dma_pcie_ctrl_state' = "FRAME_STARTED" /\ row' = 0
         /\ DmaAcked => row' = row + 1
         /\ dma_pcie_ctrl_state # "IDLE" /\ dma_pcie_ctrl_state' # "IDLE" /\ ~DmaAcked =>
              row' = row
         /\ dma_pcie_ctrl_state # "IDLE" => wr_state # "S_SOF"
         /\ dma_pcie_ctrl_state \notin {"IDLE", "LINE_END"} => sent' = sent /\ ~retired
         /\ dma_pcie_ctrl_state = "LINE_END" /\ ~last_plane => sent' = sent /\ ~retired
         /\ dma_pcie_ctrl_state = "LINE_END" /\ ~retired =>
              IF retired' THEN sent' = sent + 1 /\ last_plane
                          ELSE sent' = sent
         /\ retired => sent' = sent /\ (dma_pcie_ctrl_state' = "LINE_END" => retired')
<1>1. RdStep /\ DmaStep(rdy) /\ LineTransferedStep /\ ResyncStep
  BY DEF InClock, DmaClock
<1>2. FsmTypeOK /\ Handshake /\ SameFrame
  BY DEF IInv, TypeOK
<1>3. dma_pcie_ctrl_state # "IDLE" => wr_state # "S_SOF" /\ sent' = sent + one(incr_rd_line_ptr)
  BY <1>2, LinesMove DEF SameFrame
<1>4. sent \in Int
  BY HeldFacts
<1>5. CASE dma_pcie_ctrl_state = "IDLE"
  <2>1. dma_pcie_ctrl_state' # "IDLE" => dma_pcie_ctrl_state' = "FRAME_STARTED" /\ wr_state = "S_SOF"
    BY <1>1, <1>2, <1>5, DmaMoves DEF start_of_frame
  <2> QED
    BY <1>5, <2>1, LinesMove DEF row, retired, DmaAcked, DmaTo
<1>6. CASE dma_pcie_ctrl_state \notin {"IDLE", "LINE_END"}
  <2>1. ~incr_rd_line_ptr /\ ~retired
    BY <1>2, <1>6 DEF Handshake, AllReady, incr_rd_line_ptr, retired, NoneReady, Ready
  <2>2. sent' = sent
    BY <1>3, <1>4, <1>6, <2>1 DEF one
  <2>3. ~retired'
    <3> SUFFICES ASSUME dma_pcie_ctrl_state' = "LINE_END" PROVE rd_state' = "S_TRANSFER"
      BY DEF retired
    <3>1. dma_pcie_ctrl_state = "TRANSF_DATA"
      BY <1>1, <1>2, <1>6, DmaMoves DEF FsmTypeOK
    <3>2. rd_state = "S_TRANSFER" /\ ~line_transfered
      BY <1>2, <3>1 DEF Handshake, AllReady
    <3> QED
      BY <1>1, <1>2, <3>2, RdMoves
  <2> QED
    BY <1>2, <1>3, <1>6, <2>1, <2>2, <2>3 DEF row, DmaAcked, DmaTo
<1>7. CASE dma_pcie_ctrl_state = "LINE_END"
  <2>1. \/ AllReady /\ (line_transfered => last_plane)
        \/ Released /\ line_transfered /\ last_plane
    BY <1>2, <1>7 DEF Handshake
  <2>2. CASE AllReady /\ (line_transfered => last_plane)
    <3>1. rd_state = "S_TRANSFER" /\ line_ready_sysclk /\ ~retired /\ sent' = sent
      BY <1>3, <1>4, <1>7, <2>2 DEF AllReady, Ready, retired, incr_rd_line_ptr, one
    <3>2. rd_state' \in {"S_TRANSFER", "S_EOL", "S_END_OF_DMA"}
      BY <1>1, <1>2, <3>1, RdMoves
    <3>3. ~DmaAcked /\ ~retired'
      BY <3>1, <3>2 DEF DmaAcked, retired
    <3> QED
      BY <1>3, <1>7, <3>1, <3>3 DEF row
  <2>3. CASE Released /\ line_transfered /\ last_plane
    <3>1. CASE rd_state \in {"S_EOL", "S_END_OF_DMA"}
      <4>1. line_ready_sysclk /\ ~retired /\ sent' = sent + 1
        BY <1>3, <1>4, <1>7, <2>3, <3>1 DEF Released, Ready, retired, incr_rd_line_ptr, one
      <4>2. rd_state' \in {"S_WAIT_LINE", "S_DONE"} /\ dma_pcie_ctrl_state' = "LINE_END"
        BY <1>1, <1>2, <1>7, <2>3, <3>1, <4>1, RdMoves, DmaMoves
      <4>3. ~DmaAcked /\ retired'
        BY <4>1, <4>2 DEF DmaAcked, retired
      <4> QED
        BY <1>3, <1>4, <1>7, <2>3, <4>1, <4>3 DEF row
    <3>2. CASE rd_state \in {"S_WAIT_LINE", "S_DONE", "S_IDLE"}
      <4>1. retired /\ sent' = sent
        BY <1>3, <1>4, <1>7, <3>2 DEF retired, incr_rd_line_ptr, one
      <4>2. rd_state' \in {"S_WAIT_LINE", "S_DONE", "S_IDLE"}
        BY <1>1, <1>2, <1>3, <1>7, <2>3, <3>2, RdMoves DEF LineStored
      <4>3. dma_pcie_ctrl_state' = IF line_ready_sysclk THEN "LINE_END" ELSE "FRAME_STARTED"
        BY <1>1, <1>2, <1>7, <2>3, DmaMoves
      <4>4. DmaAcked <=> ~line_ready_sysclk
        BY <1>7, <2>3, <4>3 DEF DmaAcked, DmaTo
      <4>5. retired' <=> line_ready_sysclk
        BY <4>2, <4>3 DEF retired
      <4>6. dma_pcie_ctrl_state' = "LINE_END" => line_ready_sysclk
        BY <4>3
      <4> QED
        BY <1>3, <1>4, <1>7, <2>3, <4>1, <4>4, <4>5, <4>6 DEF row
    <3> QED
      BY <2>3, <3>1, <3>2 DEF Released
  <2> QED
    BY <2>1, <2>2, <2>3
<1> QED
  BY <1>5, <1>6, <1>7

\* The registers of dma_write point at the TLP that is under way, and count on when
\* its last beat is taken.
LEMMA AddressStep ==
  ASSUME ProperUse, IInv, LinesInOrder, LinkIdle, LinkIdle', AddressOK,
         NEW s, s.eof \in BOOLEAN, InClock(s), MayOffer(s), SrcStep(s),
         NEW grant \in BOOLEAN, NEW rdy \in BOOLEAN, DmaClock(grant, rdy), HostStep(grant, rdy),
         grant => MayGrant, rdy => nb_pcie_dout > 0
  PROVE  /\ AddressOK'
         /\ InTlps => plane_counter' = plane_counter
         /\ dma_pcie_ctrl_state = "TRANSF_DATA" =>
              written' = IF LastBeat(rdy) THEN written + 1 ELSE written
         /\ dma_pcie_ctrl_state \in {"LINE_START", "CALC_BYTECNT", "CALC_EOL"} =>
              written' = written /\ plane_counter' = plane_counter
         /\ dma_pcie_ctrl_state = "LINE_END" /\ ~last_plane => plane_counter' = plane_counter + 1
         /\ dma_pcie_ctrl_state = "LINE_END" /\ dma_pcie_ctrl_state' = "LINE_END" =>
              plane_counter' = plane_counter
         /\ dma_pcie_ctrl_state = "NEXT_PLANE" => plane_counter' = plane_counter
<1> DEFINE st == dma_pcie_ctrl_state
<1>1. FsmTypeOK /\ DataTypeOK /\ DmaStep(rdy)
  BY DEF IInv, TypeOK, DmaClock
<1>2. /\ plane_counter \in 0 .. 3 /\ remain_bcnt \in Int /\ line_offset \in Int
      /\ LineTlps \in Nat \ {0} /\ host_number_of_plane \in {1, 3} /\ end_of_line \in BOOLEAN
  BY <1>1, DmaAssumption DEF DataTypeOK
<1>3. /\ grant => st = "TRANSF_DATA" /\ ~LastBeat(rdy) /\ onLink = 0 /\ onLink' = 1
      /\ LastBeat(rdy) => st = "TRANSF_DATA" /\ onLink = 1 /\ onLink' = 0
      /\ ~grant /\ ~LastBeat(rdy) => onLink' = onLink
      /\ onLink \in {0, 1} /\ (nb_pcie_dout' > 0 <=> onLink' = 1)
      /\ (nb_pcie_dout > 0 <=> onLink = 1) /\ (onLink = 1 => st = "TRANSF_DATA")
  BY <1>1, LinkStep DEF onLink, LinkIdle
<1>4. plane_counter' = IF st' = "FRAME_STARTED" THEN 0
                       ELSE IF st' = "NEXT_PLANE" THEN plane_counter + 1 ELSE plane_counter
  <2>1. st' = "NEXT_PLANE" => plane_counter \in 0 .. 2
    <3> SUFFICES ASSUME st' = "NEXT_PLANE" PROVE plane_counter \in 0 .. 2
      OBVIOUS
    <3>1. st = "LINE_END"
      BY <1>1, DmaMoves DEF FsmTypeOK
    <3> QED
      BY <1>2, <3>1 DEF AddressOK, InLine, Planes
  <2> QED
    BY <1>2, <2>1 DEF DmaClock, PlaneStep
<1>5. line_offset' = IF st = "IDLE" THEN 0
                     ELSE IF ~DmaAcked THEN line_offset
                     ELSE IF host_reverse_y THEN line_offset - 1 ELSE line_offset + 1
  BY DEF DmaClock, LineOffsetStep, DmaAcked, DmaTo
<1>6. DmaAcked <=> st = "LINE_END" /\ st' = "FRAME_STARTED"
  BY <1>1, DmaMoves DEF FsmTypeOK, DmaAcked, DmaTo
<1>7. (dma_pcie_ctrl_state # "IDLE" => line_offset = RowOf(row))'
  <2> SUFFICES ASSUME st' # "IDLE" PROVE line_offset' = RowOf(row')
    BY DEF RowOf
  <2>1. CASE st = "IDLE"
    BY <1>5, <2>1, RowMoves DEF RowOf
  <2>2. CASE st # "IDLE" /\ DmaAcked
    <3>1. row' = row + 1 /\ line_offset = RowOf(row)
      BY <2>2, RowMoves DEF AddressOK
    <3>2. row \in Int
      BY HeldFacts DEF row
    <3> QED
      BY <1>5, <2>2, <3>1, <3>2 DEF RowOf
  <2>3. CASE st # "IDLE" /\ ~DmaAcked
    BY <1>5, <2>3, RowMoves DEF AddressOK
  <2> QED
    BY <2>1, <2>2, <2>3
<1>8. (dma_pcie_ctrl_state = "FRAME_STARTED" => plane_counter = 0)'
  BY <1>4
<1>9. (InLine => plane_counter \in Planes)'
  <2> SUFFICES ASSUME InLine' PROVE plane_counter' \in Planes
    BY DEF Planes
  <2>1. CASE st = "FRAME_STARTED"
    <3>1. st' = "LINE_START"
      BY <1>1, <2>1, DmaMoves DEF InLine, InTlps
    <3> QED
      BY <1>2, <1>4, <2>1, <3>1 DEF AddressOK, Planes
  <2>2. CASE st = "LINE_END" /\ ~last_plane
    <3>1. st' = "NEXT_PLANE" /\ plane_counter \in Planes
      BY <1>1, <2>2, DmaMoves DEF AddressOK, InLine
    <3> QED
      BY <1>2, <1>4, <2>2, <3>1 DEF Planes, last_plane
  <2>3. CASE st \notin {"FRAME_STARTED", "LINE_END"} \/ (st = "LINE_END" /\ last_plane)
    <3>1. InLine /\ st' \notin {"FRAME_STARTED", "NEXT_PLANE"}
      BY <1>1, <2>3, DmaMoves DEF FsmTypeOK, InLine, InTlps
    <3> QED
      BY <1>4, <3>1 DEF AddressOK
  <2> QED
    BY <2>1, <2>2, <2>3
<1>10. (dma_pcie_ctrl_state = "LINE_START" => dma_tlp_addr_buf = At(0))'
  <2> SUFFICES ASSUME st' = "LINE_START"
               PROVE  dma_tlp_addr_buf' = [plane |-> plane_counter', row |-> line_offset', tlp |-> 0]
    BY DEF At
  <2>1. st \in {"FRAME_STARTED", "NEXT_PLANE"}
    BY <1>1, DmaMoves DEF FsmTypeOK
  <2>2. ~grant /\ plane_counter' = plane_counter /\ line_offset' = line_offset
    BY <1>3, <1>4, <1>5, <1>6, <2>1
  <2> QED
    BY <2>1, <2>2 DEF DmaClock, AddrStep
<1>11. InTlps' <=> st \in {"LINE_START", "CALC_BYTECNT", "CALC_EOL"}
                   \/ (st = "TRANSF_DATA" /\ ~(LastBeat(rdy) /\ end_of_line))
  BY <1>1, DmaMoves DEF FsmTypeOK, InTlps
<1>12. st \in {"LINE_START", "CALC_BYTECNT", "CALC_EOL", "TRANSF_DATA"} =>
         plane_counter' = plane_counter /\ line_offset' = line_offset
  <2>1. st \in {"LINE_START", "CALC_BYTECNT", "CALC_EOL", "TRANSF_DATA"} =>
          st' \notin {"FRAME_STARTED", "NEXT_PLANE"}
    BY <1>1, DmaMoves
  <2> QED
    BY <1>4, <1>5, <1>6, <2>1
<1>13. remain_bcnt' = IF st = "LINE_START" THEN LineTlps
                      ELSE IF grant THEN remain_bcnt - 1 ELSE remain_bcnt
  BY DEF DmaClock, RemainStep
<1>14. st \in {"LINE_START", "CALC_BYTECNT", "CALC_EOL", "TRANSF_DATA"} =>
         dma_tlp_addr_buf' = IF grant THEN [dma_tlp_addr_buf EXCEPT !.tlp = @ + 1]
                                      ELSE dma_tlp_addr_buf
  BY DEF DmaClock, AddrStep
<1>15. tlp_hdr' = IF grant THEN dma_tlp_addr_buf ELSE tlp_hdr
  BY DEF HostStep
<1>16. read_plane' = IF st = "IDLE" THEN 0 ELSE IF st = "LINE_START" THEN plane_counter ELSE read_plane
  BY DEF DmaClock, ReadPlaneStep
<1>17. end_of_line' = IF st = "CALC_EOL" THEN remain_bcnt = 1 ELSE end_of_line
  BY DEF DmaClock, EndOfLineStep
<1>18. InTlps => written = LineTlps - remain_bcnt - onLink /\ written \in Tlps /\ remain_bcnt >= 0
  BY DEF written, AddressOK
<1>19. CASE st = "LINE_START"
  <2>1. /\ InTlps' /\ remain_bcnt' = LineTlps /\ onLink' = 0 /\ written' = 0 /\ written = 0
        /\ st' = "CALC_BYTECNT"
    <3>1. InTlps' /\ remain_bcnt' = LineTlps /\ onLink' = 0 /\ st' = "CALC_BYTECNT"
      BY <1>1, <1>3, <1>11, <1>13, <1>19, DmaMoves
    <3> QED
      BY <1>2, <1>19, <3>1 DEF written, InTlps
  <2>2. /\ dma_tlp_addr_buf' = [plane |-> plane_counter', row |-> line_offset', tlp |-> 0]
        /\ read_plane' = plane_counter' /\ plane_counter' = plane_counter
    BY <1>3, <1>12, <1>14, <1>16, <1>19 DEF AddressOK, At
  <2>3. AddressOK'
    BY <1>2, <1>3, <1>7, <1>8, <1>9, <1>10, <1>19, <2>1, <2>2 DEF AddressOK, At, Tlps
  <2> QED
    BY <1>19, <2>1, <2>2, <2>3 DEF InTlps
<1>20. CASE st \in {"CALC_BYTECNT", "CALC_EOL"}
  <2>1. /\ InTlps /\ InTlps' /\ remain_bcnt' = remain_bcnt /\ onLink = 0 /\ onLink' = 0
        /\ st' # "LINE_START" /\ (st' = "TRANSF_DATA" <=> st = "CALC_EOL")
    BY <1>1, <1>3, <1>11, <1>13, <1>20, DmaMoves DEF InTlps
  <2>2. written' = written
    BY <2>1 DEF written
  <2>3. dma_tlp_addr_buf' = dma_tlp_addr_buf /\ read_plane' = read_plane
    BY <1>3, <1>14, <1>16, <1>20
  <2>4. plane_counter' = plane_counter /\ line_offset' = line_offset
    BY <1>12, <1>20
  <2>5. st' = "TRANSF_DATA" => (end_of_line' <=> written = LineTlps - 1)
    <3>1. st' = "TRANSF_DATA" => (end_of_line' <=> remain_bcnt = 1)
      BY <1>17, <2>1
    <3>2. remain_bcnt = 1 <=> written = LineTlps - 1
      BY <1>2, <1>18, <2>1
    <3> QED
      BY <3>1, <3>2
  <2>6. AddressOK'
    BY <1>3, <1>7, <1>8, <1>9, <1>10, <2>1, <2>2, <2>3, <2>4, <2>5 DEF AddressOK, At, Tlps
  <2> QED
    BY <1>20, <2>2, <2>4, <2>6
<1>21. CASE st = "TRANSF_DATA"
  <2>1. /\ InTlps /\ plane_counter' = plane_counter /\ line_offset' = line_offset
        /\ read_plane' = read_plane /\ end_of_line' = end_of_line
    BY <1>12, <1>16, <1>17, <1>21 DEF InTlps
  <2>2. end_of_line <=> written = LineTlps - 1
    BY <1>21 DEF AddressOK
  <2>3. /\ written = LineTlps - remain_bcnt - onLink /\ written \in 0 .. LineTlps - 1
        /\ remain_bcnt >= 0 /\ read_plane = plane_counter
        /\ dma_tlp_addr_buf = [plane |-> plane_counter, row |-> line_offset,
                               tlp |-> LineTlps - remain_bcnt]
        /\ onLink = 1 => tlp_hdr = [plane |-> plane_counter, row |-> line_offset, tlp |-> written]
    BY <1>3, <1>18, <2>1 DEF AddressOK, At, Tlps
  <2>4. CASE LastBeat(rdy) /\ end_of_line
    <3>1. st' = "LINE_END"
      BY <1>1, <1>21, <2>4, DmaMoves
    <3>2. written' = LineTlps
      BY <3>1 DEF written, InTlps
    <3>3. ~InTlps'
      BY <3>1 DEF InTlps
    <3>4. written' = written + 1
      BY <1>2, <2>2, <2>3, <2>4, <3>2
    <3>5. AddressOK'
      BY <1>7, <1>8, <1>9, <3>1, <3>3 DEF AddressOK
    <3> QED
      BY <1>21, <2>1, <2>4, <3>4, <3>5
  <2>5. CASE LastBeat(rdy) /\ ~end_of_line
    <3>1. st' = "CALC_BYTECNT" /\ InTlps' /\ ~grant /\ onLink = 1 /\ onLink' = 0
      BY <1>1, <1>3, <1>11, <1>21, <2>5, DmaMoves
    <3>2. remain_bcnt' = remain_bcnt /\ dma_tlp_addr_buf' = dma_tlp_addr_buf
      BY <1>13, <1>14, <1>21, <3>1
    <3>3. written' = LineTlps - remain_bcnt
      BY <1>2, <3>1, <3>2 DEF written
    <3>4. written' = written + 1 /\ written' \in 0 .. LineTlps - 1
      BY <1>2, <2>2, <2>3, <2>5, <3>1, <3>3
    <3>5. AddressOK'
      BY <1>3, <1>7, <1>8, <1>9, <2>1, <2>3, <3>1, <3>2, <3>4 DEF AddressOK, At, Tlps
    <3> QED
      BY <1>21, <2>1, <2>5, <3>4, <3>5
  <2>6. CASE ~LastBeat(rdy) /\ grant
    <3>1. st' = "TRANSF_DATA" /\ InTlps' /\ onLink = 0 /\ onLink' = 1
      BY <1>1, <1>3, <1>11, <1>21, <2>6, DmaMoves
    <3>2. /\ remain_bcnt' = remain_bcnt - 1 /\ tlp_hdr' = dma_tlp_addr_buf
          /\ dma_tlp_addr_buf' = [dma_tlp_addr_buf EXCEPT !.tlp = @ + 1]
      BY <1>13, <1>14, <1>15, <1>21, <2>6
    <3>3. written' = LineTlps - remain_bcnt' - 1
      BY <3>1 DEF written
    <3>4. written' = written
      BY <1>2, <2>3, <3>1, <3>2, <3>3
    <3>5. remain_bcnt' >= 0 /\ LineTlps - remain_bcnt' = LineTlps - remain_bcnt + 1
          /\ written = LineTlps - remain_bcnt
      BY <1>2, <2>3, <3>1, <3>2
    <3>6. dma_tlp_addr_buf' = [plane |-> plane_counter, row |-> line_offset,
                               tlp |-> LineTlps - remain_bcnt']
      BY <2>3, <3>2, <3>5
    <3>7. AddressOK'
      BY <1>3, <1>7, <1>8, <1>9, <2>1, <2>2, <2>3, <3>1, <3>2, <3>4, <3>5, <3>6 DEF AddressOK, At, Tlps
    <3> QED
      BY <1>21, <2>1, <2>6, <3>4, <3>7
  <2>7. CASE ~LastBeat(rdy) /\ ~grant
    <3>1. st' = "TRANSF_DATA" /\ InTlps' /\ onLink' = onLink
      BY <1>1, <1>3, <1>11, <1>21, <2>7, DmaMoves
    <3>2. /\ remain_bcnt' = remain_bcnt /\ tlp_hdr' = tlp_hdr
          /\ dma_tlp_addr_buf' = dma_tlp_addr_buf
      BY <1>13, <1>14, <1>15, <1>21, <2>7
    <3>3. written' = written
      BY <2>3, <3>1, <3>2 DEF written
    <3>4. AddressOK'
      BY <1>3, <1>7, <1>8, <1>9, <2>1, <2>2, <2>3, <3>1, <3>2, <3>3 DEF AddressOK, At, Tlps
    <3> QED
      BY <1>21, <2>1, <2>7, <3>3, <3>4
  <2> QED
    BY <2>4, <2>5, <2>6, <2>7
<1>22. CASE st \in {"IDLE", "FRAME_STARTED", "LINE_END", "NEXT_PLANE"}
  <2>1. ~InTlps' /\ st' # "TRANSF_DATA" /\ ~InTlps
    BY <1>1, <1>22, DmaMoves DEF InTlps
  <2>2. AddressOK'
    BY <1>7, <1>8, <1>9, <1>10, <2>1 DEF AddressOK
  <2>3. /\ st = "LINE_END" /\ ~last_plane => st' = "NEXT_PLANE"
        /\ st = "NEXT_PLANE" => st' = "LINE_START"
    BY <1>1, DmaMoves
  <2> QED
    BY <1>4, <1>22, <2>1, <2>2, <2>3
<1> QED
  BY <1>1, <1>19, <1>20, <1>21, <1>22 DEF FsmTypeOK

--------------------------------------------------------------------------------
(* Both halves together: what host memory holds. *)

\* Every TLP of every line of a frame has a cell of its own.
LEMMA CellFacts ==
  /\ \A p \in Planes, n \in 0 .. MaxLines - 1, k \in Tlps : <<p, RowOf(n), k>> \in Cells
  /\ \A m, n \in Int : RowOf(m) = RowOf(n) <=> m = n
  /\ LineTlps \in Nat \ {0} /\ MaxLines \in Nat \ {0} /\ host_number_of_plane \in Nat \ {0}
BY DmaAssumption, EngineAssumption DEF Cells, RowOf, Rows, Planes, Tlps

\* The last beat of a TLP writes this part of the line under way, and nothing else
\* writes to the host.
LEMMA HostMoves ==
  ASSUME ProperUse, IInv, LinesInOrder, LinkIdle, AddressOK,
         NEW grant \in BOOLEAN, NEW rdy \in BOOLEAN, HostStep(grant, rdy)
  PROVE  IF LastBeat(rdy)
           THEN /\ host' = [host EXCEPT ![<<plane_counter, RowOf(sent), written>>] =
                              [line |-> [frame |-> frame, line |-> sent], plane |-> plane_counter]]
                /\ <<plane_counter, RowOf(sent), written>> \in Cells
                /\ dma_pcie_ctrl_state = "TRANSF_DATA" /\ sent \in 0 .. MaxLines - 1
           ELSE host' = host
<1>1. CASE ~LastBeat(rdy)
  BY <1>1 DEF HostStep
<1>2. CASE LastBeat(rdy)
  <2>1. nb_pcie_dout = 1 /\ dma_pcie_ctrl_state = "TRANSF_DATA"
    BY <1>2 DEF LastBeat, LinkIdle
  <2>2. rd_state = "S_TRANSFER" /\ InHand /\ ~retired
    BY <2>1 DEF IInv, Handshake, AllReady, InHand, retired
  <2>3. held > 0 /\ sent \in 0 .. MaxLines - 1 /\ rd_line_ptr \in 0 .. 3
    <3>1. /\ held \in 0 .. 4 /\ held > 0 /\ accepted \in 0 .. MaxLines /\ sent \in Int
          /\ rd_line_ptr \in 0 .. 3 /\ MaxLines \in Nat
      BY <2>2, HeldFacts, CellFacts
    <3>2. sent = accepted - held /\ sent >= 0
      BY DEF sent, LinesInOrder
    <3> QED
      BY <3>1, <3>2
  <2>4. line_buffer[rd_line_ptr] = [frame |-> frame, line |-> sent]
    <3>1. 0 \in 0 .. held - 1 /\ (rd_line_ptr + 0) % 4 = rd_line_ptr /\ sent + 0 = sent
      BY <2>3, HeldFacts
    <3> QED
      BY <3>1, RingFacts DEF LinesInOrder
  <2>5. line_buffer[rd_line_ptr] # NoLine
    <3>1. [frame |-> frame, line |-> sent] \in Lines
      BY <2>3, HeldFacts DEF Lines
    <3> QED
      BY <2>4, <3>1, NoLineAssumption
  <2>6. /\ InTlps /\ read_plane = plane_counter /\ plane_counter \in Planes /\ written \in Tlps
        /\ tlp_hdr = [plane |-> plane_counter, row |-> line_offset, tlp |-> written]
        /\ line_offset = RowOf(sent)
    BY <2>1, <2>2 DEF AddressOK, InTlps, InLine, At, row
  <2>7. ReadLine = [line |-> [frame |-> frame, line |-> sent], plane |-> plane_counter]
    BY <2>2, <2>4, <2>5, <2>6 DEF ReadLine
  <2>8. <<tlp_hdr.plane, tlp_hdr.row, tlp_hdr.tlp>> = <<plane_counter, RowOf(sent), written>>
    BY <2>6
  <2>9. <<plane_counter, RowOf(sent), written>> \in Cells
    BY <2>3, <2>6, CellFacts
  <2> QED
    BY <1>2, <2>1, <2>3, <2>7, <2>8, <2>9 DEF HostStep
<1> QED
  BY <1>1, <1>2

\* Retired lines stay in host memory, and the line under way grows TLP by TLP.
LEMMA InHostStep ==
  ASSUME ProperUse, IInv, IInv', LinesInOrder, LinesInOrder', LinkIdle, LinkIdle',
         AddressOK, AddressOK', InHost,
         NEW s, s.eof \in BOOLEAN, InClock(s), MayOffer(s), SrcStep(s),
         NEW grant \in BOOLEAN, NEW rdy \in BOOLEAN, DmaClock(grant, rdy), HostStep(grant, rdy),
         grant => MayGrant, rdy => nb_pcie_dout > 0
  PROVE  InHost'
<1> DEFINE st == dma_pcie_ctrl_state
           part(p, n, k) == [line |-> [frame |-> frame, line |-> n], plane |-> p]
<1>1. FsmTypeOK /\ DmaStep(rdy)
  BY DEF IInv, TypeOK, DmaClock
<1>2. /\ LineTlps \in Nat \ {0} /\ MaxLines \in Nat \ {0} /\ host_number_of_plane \in Nat \ {0}
      /\ sent \in Int /\ sent >= 0
  BY HeldFacts, CellFacts DEF LinesInOrder
<1>3. sent' \in 0 .. MaxLines
  <2>1. accepted' \in 0 .. MaxLines /\ held' \in 0 .. 4 /\ sent' = accepted' - held' /\ sent' >= 0
    <3>1. (accepted \in 0 .. MaxLines /\ held \in 0 .. 4)'
      <4>1. /\ (src \in [frame : {0, 1}, line : 0 .. MaxLines - 1, len : 0 .. MaxLines])'
            /\ (distance_cntr \in 0 .. 7)' /\ distance_cntr' <= Room'
        BY DEF IInv, TypeOK, DataTypeOK, QueueTypeOK, QueuesAgree
      <4>2. accepted' \in 0 .. MaxLines
        BY <4>1, <1>2 DEF accepted
      <4>3. numb_line_buffer' \in {2, 4}
        BY RingFacts DEF ProperUse, numb_line_buffer
      <4>4. held' \in 0 .. 4
        BY <4>1, <4>3 DEF held, pending, Room
      <4> QED
        BY <4>2, <4>4
    <3> QED
      BY <3>1 DEF sent, LinesInOrder
  <2>2. accepted' \in Int /\ held' \in Int /\ accepted' <= MaxLines /\ held' >= 0
    BY <1>2, <2>1
  <2>3. ASSUME NEW a \in Int, NEW b \in Int, a <= MaxLines, b >= 0, a - b >= 0
        PROVE  a - b \in 0 .. MaxLines
    BY <1>2, <2>3
  <2> QED
    BY <2>1, <2>2, <2>3
<1>4. (host = [c \in Cells |-> host[c]])'
  <2>1. host' = [c \in Cells |-> host'[c]]
    BY HostMoves DEF InHost
  <2> QED
    BY <2>1 DEF Cells, Planes, Rows, Tlps
<1>5. DOMAIN host = Cells
  BY DEF InHost
<1>6. ASSUME NEW p \in Planes, NEW n \in 0 .. MaxLines - 1, NEW k \in Tlps, n # sent
      PROVE  host'[<<p, RowOf(n), k>>] = host[<<p, RowOf(n), k>>]
  <2>1. RowOf(n) # RowOf(sent)
    BY <1>2, <1>6, CellFacts
  <2>2. <<p, RowOf(n), k>> # <<plane_counter, RowOf(sent), written>>
    BY <2>1
  <2>3. <<p, RowOf(n), k>> \in Cells
    BY CellFacts
  <2>4. CASE LastBeat(rdy)
    BY <1>5, <2>2, <2>3, <2>4, HostMoves
  <2>5. CASE ~LastBeat(rdy)
    BY <2>5, HostMoves
  <2> QED
    BY <2>4, <2>5
<1>7. ASSUME NEW p \in Planes, NEW k \in Tlps, p # plane_counter \/ k # written
      PROVE  host'[<<p, RowOf(sent), k>>] = host[<<p, RowOf(sent), k>>]
  <2>1. <<p, RowOf(sent), k>> # <<plane_counter, RowOf(sent), written>>
    BY <1>7
  <2>2. CASE LastBeat(rdy)
    <3>1. <<p, RowOf(sent), k>> \in Cells
      BY <2>2, CellFacts, HostMoves
    <3> QED
      BY <1>5, <2>1, <2>2, <3>1, HostMoves
  <2>3. CASE ~LastBeat(rdy)
    BY <2>3, HostMoves
  <2> QED
    BY <2>2, <2>3
<1>8. st # "TRANSF_DATA" => host' = host
  BY HostMoves
<1>9. st # "IDLE" => wr_state # "S_SOF" /\ frame' = frame
  BY RowMoves, LinesMove
<1>10. ASSUME NEW n \in Int, 0 <= n, n < sent', NEW p \in Planes, NEW k \in Tlps
       PROVE  host'[<<p, RowOf(n), k>>] = [line |-> [frame |-> frame', line |-> n], plane |-> p]
  <2>1. wr_state # "S_SOF"
    BY <1>10, LinesMove
  <2>2. frame' = frame /\ sent' = sent + one(incr_rd_line_ptr)
    BY <2>1, LinesMove
  <2>3. CASE n < sent
    <3>1. n \in 0 .. sent - 1 /\ n \in 0 .. MaxLines - 1 /\ n # sent
      <4>1. n <= sent - 1 /\ n # sent /\ n <= MaxLines - 1
        BY <1>2, <1>3, <1>10, <2>3
      <4> QED
        BY <1>2, <1>10, <4>1
    <3>2. Part(p, n, k)
      BY <3>1 DEF InHost
    <3> QED
      BY <1>6, <2>2, <3>1, <3>2 DEF Part
  <2>4. CASE ~(n < sent)
    <3>1. incr_rd_line_ptr /\ n = sent
      BY <1>2, <1>3, <1>10, <2>2, <2>4 DEF one
    <3>2. st = "LINE_END" /\ ~retired /\ last_plane
      BY <3>1 DEF IInv, Handshake, AllReady, Released, NoneReady, Ready, incr_rd_line_ptr, retired,
         TypeOK, FsmTypeOK
    <3>3. written = LineTlps /\ InLine
      BY <3>2 DEF written, InTlps, InLine
    <3>4. plane_counter \in Planes /\ (p < plane_counter \/ p = plane_counter)
      BY <1>2, <3>2, <3>3 DEF AddressOK, Planes, last_plane
    <3>5. Part(p, sent, k)
      <4>1. CASE p < plane_counter
        <5>1. p \in 0 .. plane_counter - 1
          BY <1>2, <3>4, <4>1 DEF Planes
        <5> QED
          BY <3>2, <3>3, <5>1 DEF InHost
      <4>2. CASE p = plane_counter
        <5>1. k \in 0 .. written - 1
          BY <3>3 DEF Tlps
        <5> QED
          BY <3>2, <3>3, <4>2, <5>1 DEF InHost
      <4> QED
        BY <3>4, <4>1, <4>2
    <3> QED
      BY <1>8, <2>2, <3>1, <3>2, <3>5 DEF Part
  <2> QED
    BY <2>3, <2>4
<1>11. ASSUME InLine', ~retired'
       PROVE  /\ \A p \in 0 .. plane_counter' - 1, k \in Tlps :
                   host'[<<p, RowOf(sent'), k>>]
                     = [line |-> [frame |-> frame', line |-> sent'], plane |-> p]
              /\ \A k \in 0 .. written' - 1 :
                   host'[<<plane_counter', RowOf(sent'), k>>]
                     = [line |-> [frame |-> frame', line |-> sent'], plane |-> plane_counter']
  <2> DEFINE Planes0(m) == \A p \in 0 .. m - 1, k \in Tlps :
                host[<<p, RowOf(sent), k>>]
                  = [line |-> [frame |-> frame, line |-> sent], plane |-> p]
             Tlps0(m) == \A k \in 0 .. m - 1 :
                host[<<plane_counter, RowOf(sent), k>>]
                  = [line |-> [frame |-> frame, line |-> sent], plane |-> plane_counter]
  <2>1. st # "IDLE"
    BY <1>1, <1>11, DmaMoves DEF InLine, InTlps
  <2>2. InLine /\ ~retired => Planes0(plane_counter) /\ Tlps0(written)
    BY DEF InHost, Part
  <2>3. frame' = frame /\ sent' = sent
    <3>1. CASE st # "LINE_END"
      BY <1>9, <2>1, <3>1, RowMoves
    <3>2. CASE st = "LINE_END"
      <4>1. st' \in {"LINE_END", "NEXT_PLANE"}
        BY <1>1, <1>11, <3>2, DmaMoves DEF InLine, InTlps
      <4>2. ~retired
        <5>1. CASE last_plane
          <6>1. st' = "LINE_END"
            BY <1>1, <3>2, <4>1, <5>1, DmaMoves
          <6> QED
            BY <1>11, <6>1, RowMoves
        <5>2. CASE ~last_plane
          BY <3>2, <5>2, RowMoves
        <5> QED
          BY <5>1, <5>2
      <4> QED
        BY <1>9, <1>11, <2>1, <3>2, <4>2, RowMoves
    <3> QED
      BY <3>1, <3>2
  <2>4. SUFFICES /\ \A p \in 0 .. plane_counter' - 1, k \in Tlps :
                      host'[<<p, RowOf(sent), k>>]
                        = [line |-> [frame |-> frame, line |-> sent], plane |-> p]
                 /\ \A k \in 0 .. written' - 1 :
                      host'[<<plane_counter', RowOf(sent), k>>]
                        = [line |-> [frame |-> frame, line |-> sent], plane |-> plane_counter']
    BY <2>3
  <2>5. CASE st = "FRAME_STARTED"
    <3>1. st' = "LINE_START"
      BY <1>1, <1>11, <2>5, DmaMoves DEF InLine, InTlps
    <3>2. plane_counter' = 0 /\ written' = 0
      <4>1. plane_counter' = plane_counter
        BY <2>5, <3>1 DEF DmaClock, PlaneStep
      <4> QED
        BY <2>5, <3>1, <4>1 DEF AddressOK, written, InTlps
    <3> QED
      BY <3>2
  <2>6. CASE st \in {"LINE_START", "CALC_BYTECNT", "CALC_EOL"}
    <3>1. plane_counter' = plane_counter /\ written' = written /\ InLine /\ ~retired
      BY <2>6, AddressStep DEF InLine, InTlps, retired
    <3> QED
      BY <1>8, <2>2, <2>6, <3>1
  <2>7. CASE st = "TRANSF_DATA"
    <3>1. /\ plane_counter' = plane_counter /\ InLine /\ ~retired /\ InTlps
          /\ written' = IF LastBeat(rdy) THEN written + 1 ELSE written
          /\ plane_counter \in Planes /\ written \in Tlps
      <4>1. InLine /\ ~retired /\ InTlps
        BY <2>7 DEF InLine, InTlps, retired
      <4> QED
        BY <2>7, <4>1, AddressStep DEF AddressOK
    <3>2. ASSUME NEW p \in 0 .. plane_counter - 1, NEW k \in Tlps
          PROVE  host'[<<p, RowOf(sent), k>>]
                   = [line |-> [frame |-> frame, line |-> sent], plane |-> p]
      <4>1. p \in Planes /\ p # plane_counter
        BY <1>2, <3>1 DEF Planes
      <4> QED
        BY <1>7, <2>2, <3>1, <4>1
    <3>3. ASSUME NEW k \in 0 .. written' - 1
          PROVE  host'[<<plane_counter, RowOf(sent), k>>]
                   = [line |-> [frame |-> frame, line |-> sent], plane |-> plane_counter]
      <4>1. CASE k # written
        <5>1. k \in 0 .. written - 1 /\ k \in Tlps
          BY <1>2, <3>1, <4>1 DEF Tlps
        <5> QED
          BY <1>7, <2>2, <3>1, <4>1, <5>1
      <4>2. CASE k = written
        <5>1. LastBeat(rdy)
          BY <1>2, <3>1, <4>2 DEF Tlps
        <5> QED
          BY <1>5, <4>2, <5>1, HostMoves
      <4> QED
        BY <4>1, <4>2
    <3> QED
      BY <3>1, <3>2, <3>3
  <2>8. CASE st = "LINE_END" /\ ~last_plane
    <3>1. /\ ~retired /\ InLine /\ written = LineTlps /\ st' = "NEXT_PLANE"
          /\ plane_counter' = plane_counter + 1 /\ plane_counter \in Planes
      <4>1. ~retired /\ InLine /\ written = LineTlps /\ st' = "NEXT_PLANE"
        BY <1>1, <2>8, RowMoves, DmaMoves DEF InLine, InTlps, written
      <4> QED
        BY <2>8, <4>1, AddressStep DEF AddressOK
    <3>2. written' = 0
      BY <3>1 DEF written, InTlps
    <3>3. Planes0(plane_counter + 1)
      <4> SUFFICES ASSUME NEW p \in 0 .. plane_counter, NEW k \in Tlps
                   PROVE  host[<<p, RowOf(sent), k>>]
                            = [line |-> [frame |-> frame, line |-> sent], plane |-> p]
        BY <1>2, <3>1 DEF Planes
      <4>1. CASE p = plane_counter
        <5>1. k \in 0 .. written - 1
          BY <3>1 DEF Tlps
        <5> QED
          BY <2>2, <3>1, <4>1, <5>1
      <4>2. CASE p # plane_counter
        <5>1. p \in 0 .. plane_counter - 1
          BY <1>2, <3>1, <4>2 DEF Planes
        <5> QED
          BY <2>2, <3>1, <5>1
      <4> QED
        BY <4>1, <4>2
    <3> QED
      BY <1>8, <2>8, <3>1, <3>2, <3>3
  <2>9. CASE st = "LINE_END" /\ last_plane
    <3>1. st' = "LINE_END"
      BY <1>1, <1>11, <2>9, DmaMoves DEF InLine, InTlps
    <3>2. /\ plane_counter' = plane_counter /\ written' = written /\ ~retired /\ InLine
      BY <1>11, <2>9, <3>1, AddressStep, RowMoves DEF written, InTlps, InLine
    <3> QED
      BY <1>8, <2>2, <2>9, <3>2
  <2>10. CASE st = "NEXT_PLANE"
    <3>1. /\ plane_counter' = plane_counter /\ st' = "LINE_START" /\ InLine /\ ~retired
      BY <1>1, <2>10, DmaMoves, AddressStep DEF InLine, retired
    <3>2. written' = 0
      BY <3>1 DEF written, InTlps
    <3> QED
      BY <1>8, <2>2, <2>10, <3>1, <3>2
  <2> QED
    BY <1>1, <2>1, <2>5, <2>6, <2>7, <2>8, <2>9, <2>10 DEF FsmTypeOK
<1>12. /\ \A n \in 0 .. sent' - 1, p \in Planes', k \in Tlps' : Part(p, n, k)'
       /\ InLine' /\ ~retired' =>
            /\ \A p \in 0 .. plane_counter' - 1, k \in Tlps' : Part(p, sent, k)'
            /\ \A k \in 0 .. written' - 1 : Part(plane_counter, sent, k)'
  BY <1>3, <1>10, <1>11 DEF Part, RowOf, Planes, Tlps
<1> QED
  BY <1>4, <1>12 DEF InHost

\* At the start the buffers and host memory hold nothing.
LEMMA InitData == Init => DataInv
<1> SUFFICES ASSUME Init PROVE DataInv
  OBVIOUS
<1> USE DEF Init, InInit, DmaInit
<1>1. phase = "idle" /\ accepted = 0 /\ held = 0 /\ sent = 0
  BY DEF phase, accepted, held, pending, sent
<1>2. LinesInOrder
  BY <1>1 DEF LinesInOrder
<1>3. LinkIdle
  BY DEF LinkIdle
<1>4. AddressOK
  BY DEF AddressOK, InLine, InTlps
<1>5. InHost
  BY <1>1 DEF InHost, InLine, InTlps
<1> QED
  BY <1>2, <1>3, <1>4, <1>5 DEF DataInv

\* Every step of the engine preserves the invariant of its data path.
LEMMA NextData ==
  ASSUME ProperUse, IInv, IInv', DataInv, [Next]_vars
  PROVE  DataInv'
<1> USE DEF DataInv
<1>1. CASE Next
  <2> PICK tvalid, tlast, eof, grant, rdy \in BOOLEAN :
           Clock(Offer(tvalid, tlast, eof), grant, rdy)
    BY <1>1 DEF Next
  <2> DEFINE s == Offer(tvalid, tlast, eof)
  <2>1. /\ InClock(s) /\ MayOffer(s) /\ SrcStep(s) /\ DmaClock(grant, rdy) /\ HostStep(grant, rdy)
        /\ grant => MayGrant
        /\ rdy => nb_pcie_dout > 0
        /\ s.eof \in BOOLEAN
        /\ s.tdata = [frame |-> src.frame, line |-> src.line]
    BY DEF Clock, Offer
  <2> HIDE DEF s
  <2>2. LinesInOrder'
    BY <2>1, LinesStep
  <2>3. LinkIdle'
    BY <2>1, LinkStep DEF IInv, TypeOK
  <2>4. AddressOK'
    BY <2>1, <2>3, AddressStep
  <2>5. InHost'
    BY <2>1, <2>2, <2>3, <2>4, InHostStep
  <2> QED
    BY <2>2, <2>3, <2>4, <2>5
<1>2. CASE UNCHANGED vars
  <2> USE <1>2 DEF vars, inVars, dmaVars, extVars
  <2>1. phase' = phase /\ pending' = pending
    BY DEF phase, pending
  <2>2. frame' = frame /\ accepted' = accepted /\ held' = held
    BY <2>1 DEF frame, accepted, held
  <2>3. sent' = sent /\ retired' = retired /\ InTlps' = InTlps /\ onLink' = onLink
    BY <2>2 DEF sent, retired, InTlps, onLink
  <2>4. row' = row /\ written' = written /\ InLine' = InLine
    BY <2>3 DEF row, written, InLine
  <2>5. LinesInOrder' /\ LinkIdle' /\ AddressOK'
    BY <2>2, <2>3, <2>4 DEF LinesInOrder, LinkIdle, AddressOK, At, RowOf, Planes, Tlps
  <2>6. InHost'
    BY <2>2, <2>3, <2>4 DEF InHost, Part, RowOf, Planes, Tlps, Cells, Rows
  <2> QED
    BY <2>5, <2>6
<1> QED
  BY <1>1, <1>2

\* The invariant of the data path holds in every reachable state.
THEOREM DataInvariance == ASSUME ProperUse PROVE Spec => []DataInv
<1>1. Init => DataInv
  BY InitData
<1>2. IInv /\ IInv' /\ DataInv /\ [Next]_vars => DataInv'
  BY NextData
<1> QED
  BY <1>1, <1>2, Invariance, PTL DEF Spec

\* The end-of-DMA interrupt finds the whole frame in host memory, every plane, row
\* and TLP of it (intevent of dmawr2tlp.vhd).
THEOREM FramesDelivered == ASSUME ProperUse PROVE Spec => []FrameInHost
<1>1. IInv /\ DataInv => FrameInHost
  <2> SUFFICES ASSUME IInv, DataInv, rd_state = "S_END_OF_DMA",
                      NEW p \in Planes, NEW n \in 0 .. src.len - 1, NEW k \in Tlps
               PROVE  host[<<p, RowOf(n), k>>] =
                        [line |-> [frame |-> 1 - src.frame, line |-> n], plane |-> p]
    BY DEF FrameInHost, end_of_dma
  <2>1. info_q.eof /\ InHand /\ inHand = 1
    BY DEF IInv, ContextsInOrder, InHand, inHand
  <2>2. wr_state = "S_IDLE" /\ info_cnt = 0
    BY <2>1 DEF IInv, ContextsInOrder
  <2>3. phase = "closed" /\ frame = 1 - src.frame /\ accepted = src.len
    BY <2>2 DEF phase, frame, accepted
  <2>4. held = 1 /\ sent = src.len - 1
    BY <2>1, <2>2, <2>3, HeldFacts DEF IInv, QueuesAgree, held, pending, sent
  <2>5. dma_pcie_ctrl_state = "LINE_END" /\ last_plane /\ ~retired /\ InLine
    BY DEF IInv, Handshake, AllReady, Released, NoneReady, Ready, retired, InLine,
       TypeOK, FsmTypeOK
  <2>6. written = LineTlps /\ plane_counter = host_number_of_plane - 1
    BY <2>5 DEF written, InTlps, last_plane
  <2>7. n \in Int /\ (n < sent \/ n = sent) /\ n >= 0 /\ sent \in Int
    BY <2>4, HeldFacts
  <2>8. Part(p, n, k)
    <3>1. CASE n < sent
      BY <2>7, <3>1 DEF DataInv, InHost
    <3>2. CASE n = sent /\ p = plane_counter
      <4>1. k \in 0 .. written - 1
        BY <2>6 DEF Tlps
      <4> QED
        BY <2>5, <3>2, <4>1 DEF DataInv, InHost
    <3>3. CASE n = sent /\ p # plane_counter
      <4>1. p \in 0 .. plane_counter - 1
        BY <2>6, <3>3, CellFacts DEF Planes
      <4> QED
        BY <2>5, <3>3, <4>1 DEF DataInv, InHost
    <3> QED
      BY <2>7, <3>1, <3>2, <3>3
  <2> QED
    BY <2>3, <2>8 DEF Part
<1> QED
  BY <1>1, Invariance, DataInvariance, PTL

--------------------------------------------------------------------------------
(* The refinement: what FrameTransfer sees of the engine is two runs of      *)
(* consecutive lines, those delivered and those stored.                      *)

\* The n lines of the frame of parity f from line a on.
Run(f, a, n) == [i \in 1 .. n |-> [frame |-> f, line |-> a + i - 1]]

\* A run is a sequence of lines.
LEMMA RunIsSeq ==
  ASSUME NEW f, NEW a \in Int, NEW n \in Nat
  PROVE  /\ Run(f, a, n) \in Seq([frame : {f}, line : Int])
         /\ Len(Run(f, a, n)) = n
         /\ \A i \in 1 .. n : Run(f, a, n)[i] = [frame |-> f, line |-> a + i - 1]
<1>1. \A i \in 1 .. n : [frame |-> f, line |-> a + i - 1] \in [frame : {f}, line : Int]
  OBVIOUS
<1> QED
  BY <1>1 DEF Run

\* A run grows at its end by the line that follows it.
LEMMA RunAppend ==
  ASSUME NEW f, NEW a \in Int, NEW n \in Nat
  PROVE  Append(Run(f, a, n), [frame |-> f, line |-> a + n]) = Run(f, a, n + 1)
<1> DEFINE S == [frame : {f}, line : Int]
           x == [frame |-> f, line |-> a + n]
<1>1. Run(f, a, n) \in Seq(S) /\ Len(Run(f, a, n)) = n /\ x \in S
  <2>1. x \in S
    OBVIOUS
  <2>2. Run(f, a, n) \in Seq(S) /\ Len(Run(f, a, n)) = n
    BY RunIsSeq
  <2> QED
    BY <2>1, <2>2
<1>2. Run(f, a, n + 1) \in Seq(S) /\ Len(Run(f, a, n + 1)) = n + 1
  BY RunIsSeq
<1>3. /\ Append(Run(f, a, n), x) \in Seq(S) /\ Len(Append(Run(f, a, n), x)) = n + 1
      /\ \A i \in 1 .. n : Append(Run(f, a, n), x)[i] = Run(f, a, n)[i]
      /\ Append(Run(f, a, n), x)[n + 1] = x
  BY <1>1, AppendProperties
<1>4. ASSUME NEW i \in 1 .. n + 1
      PROVE  Append(Run(f, a, n), x)[i] = Run(f, a, n + 1)[i]
  <2>1. Run(f, a, n + 1)[i] = [frame |-> f, line |-> a + i - 1]
    BY DEF Run
  <2>2. CASE i = n + 1
    BY <1>3, <2>1, <2>2
  <2>3. CASE i # n + 1
    <3>1. i \in 1 .. n
      BY <2>3
    <3> QED
      BY <1>3, <2>1, <3>1, RunIsSeq
  <2> QED
    BY <2>2, <2>3
<1> HIDE DEF S, x
<1>5. Append(Run(f, a, n), x) = Run(f, a, n + 1)
  BY <1>2, <1>3, <1>4, SeqEqual
<1> QED
  BY <1>5 DEF x

\* A run that is not empty begins with its first line.
LEMMA RunTail ==
  ASSUME NEW f, NEW a \in Int, NEW n \in Nat
  PROVE  /\ Run(f, a, n) = <<>> <=> n = 0
         /\ n > 0 => /\ Head(Run(f, a, n)) = [frame |-> f, line |-> a]
                     /\ Tail(Run(f, a, n)) = Run(f, a + 1, n - 1)
<1> DEFINE S == [frame : {f}, line : Int]
<1>1. Run(f, a, n) \in Seq(S) /\ Len(Run(f, a, n)) = n
  BY RunIsSeq
<1> HIDE DEF S
<1>2. Run(f, a, n) = <<>> <=> n = 0
  BY <1>1, EmptySeq
<1>3. ASSUME n > 0 PROVE Tail(Run(f, a, n)) = Run(f, a + 1, n - 1)
  <2>1. n - 1 \in Nat /\ a + 1 \in Int
    BY <1>3
  <2>2. /\ Tail(Run(f, a, n)) \in Seq(S) /\ Len(Tail(Run(f, a, n))) = n - 1
        /\ \A i \in 1 .. n - 1 : Tail(Run(f, a, n))[i] = Run(f, a, n)[i + 1]
    BY <1>1, <1>2, <1>3, HeadTailProperties
  <2>3. Run(f, a + 1, n - 1) \in Seq(S) /\ Len(Run(f, a + 1, n - 1)) = n - 1
    BY <2>1, RunIsSeq DEF S
  <2>4. ASSUME NEW i \in 1 .. n - 1
        PROVE  Tail(Run(f, a, n))[i] = Run(f, a + 1, n - 1)[i]
    <3>1. i + 1 \in 1 .. n /\ a + (i + 1) - 1 = a + 1 + i - 1
      BY <2>1
    <3>2. Run(f, a, n)[i + 1] = [frame |-> f, line |-> a + (i + 1) - 1]
      BY <3>1, RunIsSeq
    <3>3. Run(f, a + 1, n - 1)[i] = [frame |-> f, line |-> a + 1 + i - 1]
      BY <2>1, RunIsSeq
    <3> QED
      BY <2>2, <3>1, <3>2, <3>3
  <2> QED
    BY <2>2, <2>3, <2>4, SeqEqual
<1>4. ASSUME n > 0 PROVE Head(Run(f, a, n)) = [frame |-> f, line |-> a]
  <2>1. Head(Run(f, a, n)) = Run(f, a, n)[1]
    BY <1>1, <1>2, <1>4
  <2>2. Run(f, a, n)[1] = [frame |-> f, line |-> a + 1 - 1]
    <3>1. 1 \in 1 .. n
      BY <1>4
    <3> QED
      BY <3>1 DEF Run
  <2> QED
    BY <2>1, <2>2
<1> QED
  BY <1>2, <1>3, <1>4

\* What FrameTransfer sees of the engine.
View == /\ held \in Nat /\ sent \in Nat
        /\ stored = Run(frame, sent, held)
        /\ delivered = Run(frame, 0, sent)

\* The rows of the host that are complete read as the lines retired.
LEMMA ViewHolds == ASSUME ProperUse PROVE IInv /\ DataInv => View
<1> SUFFICES ASSUME IInv, DataInv PROVE View
  OBVIOUS
<1>1. /\ held \in 0 .. 4 /\ accepted \in 0 .. MaxLines /\ sent \in Int
      /\ distance_cntr \in 0 .. 4 /\ rd_line_ptr \in 0 .. 3 /\ frame \in {0, 1}
      /\ MaxLines \in Nat
  BY HeldFacts, EngineAssumption
<1>2. sent \in 0 .. MaxLines /\ held \in Nat /\ sent = accepted - held
  <2>1. sent = accepted - held /\ sent >= 0
    BY DEF DataInv, LinesInOrder, sent
  <2> QED
    BY <1>1, <2>1
<1>3. stored = Run(frame, sent, held)
  <2>1. ASSUME NEW i \in 1 .. held
        PROVE  line_buffer[(rd_line_ptr + i - 1) % PhysBuffers]
                 = [frame |-> frame, line |-> sent + i - 1]
    <3>1. i - 1 \in 0 .. held - 1 /\ rd_line_ptr + i - 1 = rd_line_ptr + (i - 1)
          /\ sent + i - 1 = sent + (i - 1)
      BY <1>1
    <3> QED
      BY <3>1 DEF DataInv, LinesInOrder
  <2>2. stored = [i \in 1 .. held |-> line_buffer[(rd_line_ptr + i - 1) % PhysBuffers]]
    BY DEF stored, held
  <2> HIDE DEF stored
  <2> QED
    BY <2>1, <2>2 DEF Run
<1>4. Len(stored) = held
  BY <1>1, <1>2, <1>3, RunIsSeq
<1>5. ASSUME NEW n \in 0 .. MaxLines - 1, n < sent
      PROVE  HostLine(n) = [frame |-> frame, line |-> n]
  <2> DEFINE l0 == [frame |-> frame, line |-> n]
  <2>1. l0 \in Lines
    BY <1>1 DEF Lines
  <2>2. Fits(l0, n)
    <3>1. n \in 0 .. sent - 1
      BY <1>1, <1>2, <1>5
    <3> QED
      BY <3>1 DEF Fits, DataInv, InHost, Part
  <2>3. ASSUME NEW l \in Lines, Fits(l, n) PROVE l = l0
    <3>1. 0 \in Planes /\ 0 \in Tlps
      BY CellFacts DEF Planes, Tlps
    <3>2. /\ host[<<0, RowOf(n), 0>>] = [line |-> l, plane |-> 0]
          /\ host[<<0, RowOf(n), 0>>] = [line |-> l0, plane |-> 0]
      BY <2>2, <2>3, <3>1 DEF Fits
    <3>3. [line |-> l, plane |-> 0].line = [line |-> l0, plane |-> 0].line
      BY <3>2
    <3> QED
      BY <3>3
  <2> HIDE DEF l0
  <2>4. HostLine(n) = CHOOSE l \in Lines : Fits(l, n)
    BY <2>1, <2>2 DEF HostLine
  <2>5. (CHOOSE l \in Lines : Fits(l, n)) \in Lines /\ Fits(CHOOSE l \in Lines : Fits(l, n), n)
    BY <2>1, <2>2
  <2>6. HostLine(n) = l0
    BY <2>3, <2>4, <2>5
  <2> QED
    BY <2>6 DEF l0
<1>6. delivered = Run(frame, 0, sent)
  <2>1. delivered = [i \in 1 .. sent |-> HostLine(i - 1)]
    BY <1>2, <1>4 DEF delivered
  <2>2. ASSUME NEW i \in 1 .. sent
        PROVE  HostLine(i - 1) = [frame |-> frame, line |-> 0 + i - 1]
    <3>1. i - 1 \in 0 .. MaxLines - 1 /\ i - 1 < sent /\ 0 + i - 1 = i - 1
      BY <1>1, <1>2
    <3> QED
      BY <1>5, <3>1
  <2> QED
    BY <2>1, <2>2 DEF Run
<1> QED
  BY <1>2, <1>3, <1>6 DEF View

\* The same after a step.
LEMMA ViewNext == ASSUME ProperUse PROVE IInv' /\ DataInv' => View'
BY ViewHolds, PTL

\* Every step of the engine is a step of FrameTransfer, or none that it sees.
LEMMA StepRefines ==
  ASSUME ProperUse, IInv, IInv', DataInv, DataInv', [Next]_vars
  PROVE  [Promise!Next]_<<phase, frame, stored, delivered>>
<1>1. /\ stored = Run(frame, sent, held) /\ delivered = Run(frame, 0, sent)
      /\ held \in Nat /\ sent \in Nat
  BY ViewHolds DEF View
<1>2. /\ stored' = Run(frame', sent', held') /\ delivered' = Run(frame', 0, sent')
      /\ held' \in Nat /\ sent' \in Nat
  BY ViewNext DEF View
<1>3. CASE Next
  <2> PICK tvalid, tlast, eof, grant, rdy \in BOOLEAN :
           Clock(Offer(tvalid, tlast, eof), grant, rdy)
    BY <1>3 DEF Next
  <2> DEFINE s == Offer(tvalid, tlast, eof)
             acc == Accepts(s)
             ret == incr_rd_line_ptr
  <2>1. InClock(s) /\ MayOffer(s) /\ SrcStep(s) /\ s.eof \in BOOLEAN
    BY DEF Clock, Offer
  <2> HIDE DEF s
  <2>2. CASE wr_state = "S_SOF"
    <3>1. /\ phase = "idle" /\ phase' = "open" /\ frame' = 1 - frame
          /\ held = 0 /\ held' = 0 /\ sent' = 0
      BY <2>1, <2>2, LinesMove DEF DataInv
    <3>2. stored = <<>> /\ stored' = <<>> /\ delivered' = <<>>
      BY <1>1, <1>2, <3>1, RunTail
    <3> QED
      BY <3>1, <3>2 DEF Promise!Next, Promise!Start
  <2>3. CASE wr_state # "S_SOF"
    <3>1. /\ held' = held + one(acc) - one(ret) /\ sent' = sent + one(ret) /\ frame' = frame
          /\ phase' = IF rd_state = "S_DONE" THEN "idle"
                      ELSE IF acc /\ s.eof THEN "closed" ELSE phase
          /\ acc => phase = "open" /\ frame = src.frame /\ accepted = src.line
      BY <2>1, <2>3, LinesMove DEF DataInv
    <3>2. /\ acc => held < numb_line_buffer
          /\ ret => held > 0 /\ rd_state \in {"S_EOL", "S_END_OF_DMA"}
          /\ phase = "idle" <=> rd_state = "S_IDLE"
      <4>1. acc => wr_state = "S_WRITE"
        BY DEF Accepts, s_axis_tready
      <4>2. ret => InHand /\ rd_state \in {"S_EOL", "S_END_OF_DMA"}
        BY DEF incr_rd_line_ptr, InHand
      <4> QED
        BY <4>1, <4>2, HeldFacts DEF phase
    <3>3. CASE rd_state = "S_DONE"
      <4>1. phase = "closed" /\ held = 0
        BY <3>3 DEF IInv, TypeOK, FsmTypeOK, SameFrame, Handshake, QueuesAgree, phase, held, pending
      <4>2. ~acc /\ ~ret /\ phase' = "idle"
        BY <3>1, <3>2, <3>3, <4>1
      <4>3. held' = held /\ sent' = sent
        BY <1>1, <3>1, <4>2 DEF one
      <4>4. stored = <<>> /\ stored' = stored /\ delivered' = delivered
        BY <1>1, <1>2, <3>1, <4>1, <4>3, RunTail
      <4> QED
        BY <3>1, <4>1, <4>2, <4>4 DEF Promise!Next, Promise!Complete
    <3>4. CASE rd_state = "S_IDLE"
      <4>1. ~acc /\ ~ret /\ phase' = phase
        BY <3>1, <3>2, <3>4
      <4>2. held' = held /\ sent' = sent
        BY <1>1, <3>1, <4>1 DEF one
      <4> QED
        BY <1>1, <1>2, <3>1, <4>1, <4>2
    <3>5. CASE rd_state \notin {"S_DONE", "S_IDLE"}
      <4>1. Len(stored) = held /\ Len(delivered) = sent
        <5>1. Len(Run(frame, sent, held)) = held /\ Len(Run(frame, 0, sent)) = sent
          <6>1. sent \in Int /\ 0 \in Int /\ sent \in Nat /\ held \in Nat
            BY <1>1
          <6>2. Len(Run(frame, sent, held)) = held
            BY <6>1, RunIsSeq
          <6>3. Len(Run(frame, 0, sent)) = sent
            BY <6>1, RunIsSeq
          <6> QED
            BY <6>2, <6>3
        <5> QED
          BY <1>1, <5>1
      <4>2. Promise!NextLine = [frame |-> frame, line |-> sent + held]
        BY <4>1 DEF Promise!NextLine
      <4>3. Promise!Accepted(acc) = Run(frame, sent, held + one(acc))
        <5>1. CASE acc
          <6>1. Append(Run(frame, sent, held), [frame |-> frame, line |-> sent + held])
                  = Run(frame, sent, held + 1)
            BY <1>1, RunAppend
          <6> QED
            BY <1>1, <4>2, <5>1, <6>1 DEF Promise!Accepted, one
        <5>2. CASE ~acc
          <6>1. held + one(acc) = held
            BY <1>1, <5>2 DEF one
          <6> QED
            BY <1>1, <5>2, <6>1 DEF Promise!Accepted
        <5> QED
          BY <5>1, <5>2
      <4>4. held + one(acc) \in Nat
        BY <1>1 DEF one
      <4>5. ret => /\ stored # <<>> /\ Head(stored) = [frame |-> frame, line |-> sent]
                   /\ Tail(Promise!Accepted(acc)) = Run(frame, sent + 1, (held + one(acc)) - 1)
        <5> SUFFICES ASSUME ret
                     PROVE  /\ stored # <<>> /\ Head(stored) = [frame |-> frame, line |-> sent]
                            /\ Tail(Promise!Accepted(acc)) = Run(frame, sent + 1, (held + one(acc)) - 1)
          OBVIOUS
        <5>1. held > 0 /\ held + one(acc) > 0
          BY <1>1, <3>2 DEF one
        <5>2. stored # <<>> /\ Head(stored) = [frame |-> frame, line |-> sent]
          BY <1>1, <5>1, RunTail
        <5>3. Tail(Run(frame, sent, held + one(acc))) = Run(frame, sent + 1, (held + one(acc)) - 1)
          <6> DEFINE m == held + one(acc)
          <6>1. m \in Nat /\ m > 0 /\ sent \in Int
            BY <1>1, <4>4, <5>1
          <6> HIDE DEF m
          <6>2. Tail(Run(frame, sent, m)) = Run(frame, sent + 1, m - 1)
            BY <6>1, RunTail
          <6> QED
            BY <6>2 DEF m
        <5> QED
          BY <4>3, <5>2, <5>3
      <4>6. stored' = IF ret THEN Tail(Promise!Accepted(acc)) ELSE Promise!Accepted(acc)
        <5>1. CASE ret
          <6>1. held' = (held + one(acc)) - 1 /\ sent' = sent + 1
            BY <1>1, <3>1, <4>4, <5>1 DEF one
          <6> QED
            BY <1>2, <3>1, <4>5, <5>1, <6>1
        <5>2. CASE ~ret
          <6>1. held' = held + one(acc) /\ sent' = sent
            BY <1>1, <3>1, <4>4, <5>2 DEF one
          <6> QED
            BY <1>2, <3>1, <4>3, <5>2, <6>1
        <5> QED
          BY <5>1, <5>2
      <4>7. delivered' = IF ret THEN Append(delivered, Head(stored)) ELSE delivered
        <5>1. CASE ret
          <6>1. sent' = sent + 1
            BY <3>1, <5>1 DEF one
          <6>2. Append(Run(frame, 0, sent), [frame |-> frame, line |-> 0 + sent])
                  = Run(frame, 0, sent + 1)
            BY <1>1, RunAppend
          <6>3. 0 + sent = sent
            BY <1>1
          <6> QED
            BY <1>1, <1>2, <3>1, <4>5, <5>1, <6>1, <6>2, <6>3
        <5>2. CASE ~ret
          <6>1. sent' = sent
            BY <1>1, <3>1, <5>2 DEF one
          <6> QED
            BY <1>1, <1>2, <3>1, <5>2, <6>1
        <5> QED
          BY <5>1, <5>2
      <4>8. phase # "idle" /\ phase' = IF acc /\ s.eof THEN "closed" ELSE phase
        BY <3>1, <3>2, <3>5
      <4>9. (acc => phase = "open" /\ Len(stored) < numb_line_buffer) /\ (ret => stored # <<>>)
        BY <3>1, <3>2, <4>1, <4>5
      <4>10. acc \in BOOLEAN /\ ret \in BOOLEAN
        BY DEF Accepts, s_axis_tready, EndOfLine, incr_rd_line_ptr
      <4>11. Promise!Transfer(acc, s.eof, ret)
        BY <3>1, <4>6, <4>7, <4>8, <4>9 DEF Promise!Transfer
      <4> HIDE DEF acc, ret
      <4>12. Promise!Next
        BY <2>1, <4>10, <4>11 DEF Promise!Next
      <4> QED
        BY <4>12
    <3> QED
      BY <3>3, <3>4, <3>5
  <2> QED
    BY <2>2, <2>3
<1>4. CASE UNCHANGED vars
  <2> USE <1>4 DEF vars, inVars, dmaVars, extVars
  <2>1. phase' = phase /\ pending' = pending
    BY DEF phase, pending
  <2>2. frame' = frame /\ held' = held /\ accepted' = accepted
    BY <2>1 DEF frame, held, accepted
  <2>3. sent' = sent
    BY <2>2 DEF sent
  <2> QED
    BY <1>1, <1>2, <2>1, <2>2, <2>3
<1> QED
  BY <1>3, <1>4

\* The engine implements FrameTransfer: no line is lost, duplicated, reordered or
\* torn, and a frame is over when its last line is in host memory.
THEOREM EngineRefines == ASSUME ProperUse PROVE Spec => ImplementsFrameTransfer
<1>1. Init => Promise!Init
  <2> SUFFICES ASSUME Init PROVE Promise!Init
    OBVIOUS
  <2>1. phase = "idle" /\ frame = 1
    BY DEF Init, InInit, phase, frame
  <2>2. held = 0 /\ sent = 0
    BY <2>1 DEF Init, InInit, held, pending, sent, accepted
  <2>3. View
    BY InitInv, InitData, ViewHolds
  <2>4. stored = <<>> /\ delivered = <<>>
    BY <2>2, <2>3, RunTail DEF View
  <2> QED
    BY <2>1, <2>4 DEF Promise!Init
<1>2. IInv /\ IInv' /\ DataInv /\ DataInv' /\ [Next]_vars
        => [Promise!Next]_<<phase, frame, stored, delivered>>
  BY StepRefines
<1> QED
  BY <1>1, <1>2, Invariance, DataInvariance, PTL DEF Spec, ImplementsFrameTransfer, Promise!Spec
================================================================================
