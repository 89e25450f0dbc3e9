-------------------------- MODULE LineStreamerProofs --------------------------
(***************************************************************************)
(* That the invariant of LineStreamerInvariant is inductive, and what      *)
(* follows from it, for every number of lanes, regions, clocks and lines.  *)
(***************************************************************************)
EXTENDS LineStreamerInvariant, FiniteSetTheorems, FunctionTheorems, SequenceTheorems, TLAPS

-----------------------------------------------------------------------------
(* Regions. *)

\* What the assumption says of a region.
LEMMA RoiFacts ==
  ASSUME NEW r \in Rois
  PROVE  /\ r.x_start \in Nat /\ r.x_stop \in Nat /\ r.x_start + 2 <= r.x_stop
         /\ r.y_size \in Nat /\ 0 < r.y_size /\ r.y_size <= MaxLines
         /\ 3 * (r.x_stop + 1 - r.x_start) <= FifoWords
         /\ 10 + 4 * r.x_stop <= 3 * DataClocks
         /\ DataClocks \in Nat /\ MaxLines \in Nat /\ FifoWords \in Nat /\ 0 < DataClocks
<1>1. /\ r.x_start \in Nat /\ r.x_stop \in Nat /\ r.x_stop >= r.x_start + 2
      /\ r.y_size \in 1 .. MaxLines
      /\ 3 * (r.x_stop + 1 - r.x_start) <= FifoWords
      /\ DataClocks >= 4 + r.x_stop + r.x_stop \div 3
      /\ DataClocks \in Nat /\ MaxLines \in Nat /\ FifoWords \in Nat
  BY StreamerAssumption
<1> DEFINE d == r.x_stop \div 3
<1>2. d \in Nat /\ r.x_stop <= 3 * d + 2
  BY <1>1
<1> HIDE DEF d
<1>3. DataClocks >= (4 + r.x_stop) + d
  BY <1>1 DEF d
<1> QED
  BY <1>1, <1>2, <1>3

LEMMA SomeRoiIn == SomeRoi \in Rois
  BY StreamerAssumption DEF SomeRoi

\* The registers the counters are compared with.
LEMMA CurFacts ==
  ASSUME Types
  PROVE  /\ cur \in Rois
         /\ cur.x_start \in Nat /\ cur.x_stop \in Nat /\ cur.x_start + 2 <= cur.x_stop
         /\ cur.y_size \in Nat /\ 0 < cur.y_size /\ cur.y_size <= MaxLines
         /\ 3 * (cur.x_stop + 1 - cur.x_start) <= FifoWords
         /\ 10 + 4 * cur.x_stop <= 3 * DataClocks
         /\ DataClocks \in Nat /\ MaxLines \in Nat /\ FifoWords \in Nat /\ 0 < DataClocks
         /\ line_cntr \in Nat /\ data_cntr \in 0 .. DataClocks - 1
         /\ pixel_ptr \in {0, 6, 8, 10, 12} /\ pixel_cntr \in 0 .. DataClocks
<1>1. cur \in Rois
  BY DEF Types
<1>2. /\ line_cntr \in Nat /\ data_cntr \in 0 .. DataClocks - 1
      /\ pixel_ptr \in {0, 6, 8, 10, 12} /\ pixel_cntr \in 0 .. DataClocks
  BY DEF Types
<1> QED
  BY <1>1, <1>2, RoiFacts

-----------------------------------------------------------------------------
(* One clock: types. *)

LEMMA RowTypes ==
  ASSUME Types, RowStep
  PROVE  /\ state' \in {"S_IDLE", "S_SOF", "S_WAIT_SOL", "S_SOL", "S_LOAD_BURST_CNTR",
                        "S_DATA_PHASE", "S_LAST_DATA", "S_EOL", "S_EOF",
                        "S_WAIT_STREAMER_DONE", "S_DONE"}
         /\ frame_pending' \in BOOLEAN /\ last_row' \in BOOLEAN
         /\ cur' \in Rois /\ line_cntr' \in Nat /\ data_cntr' \in 0 .. DataClocks - 1
<1>1. state' \in {"S_IDLE", "S_SOF", "S_WAIT_SOL", "S_SOL", "S_LOAD_BURST_CNTR",
                  "S_DATA_PHASE", "S_LAST_DATA", "S_EOL", "S_EOF",
                  "S_WAIT_STREAMER_DONE", "S_DONE"}
  BY DEF Types, RowStep, StateNext
<1>2. frame_pending' \in BOOLEAN /\ last_row' \in BOOLEAN
  BY DEF Types, RowStep, LastRowNext, init_frame
<1>3. cur' \in Rois
  BY DEF Types, RowStep
<1>4. line_cntr' \in Nat
  BY DEF Types, RowStep
<1>5. data_cntr' \in 0 .. DataClocks - 1
  <2>1. data_cntr \in 0 .. DataClocks - 1 /\ DataClocks \in Nat /\ 0 < DataClocks
    BY CurFacts
  <2>2. data_cntr' = IF state = "S_DATA_PHASE" /\ ~last_data THEN data_cntr + 1 ELSE 0
    BY DEF RowStep
  <2> QED
    BY <2>1, <2>2 DEF last_data
<1> QED
  BY <1>1, <1>2, <1>3, <1>4, <1>5

\* The packer's counters: the last case of RowCounters bounds pixel_cntr.
LEMMA PackerTypes ==
  ASSUME Types, RowCounters, PackerStep
  PROVE  /\ load_data' \in BOOLEAN
         /\ pixel_ptr' \in {0, 6, 8, 10, 12} /\ pixel_cntr' \in 0 .. DataClocks
<1>1. load_data' \in BOOLEAN
  BY DEF PackerStep
<1>2. pixel_ptr' \in {0, 6, 8, 10, 12}
  BY CurFacts DEF PackerStep
<1>3. pixel_cntr' \in 0 .. DataClocks
  <2>1. CASE packer_rdy
    <3>1. /\ state = "S_DATA_PHASE" /\ pixel_ptr > 7 /\ pixel_cntr' = pixel_cntr + 1
      BY <2>1 DEF packer_rdy, PackerStep
    <3>2. data_cntr > 0 /\ pixel_ptr = 6 * (data_cntr - 1) - 8 * pixel_cntr
      BY <3>1, CurFacts DEF RowCounters
    <3> QED
      BY <3>1, <3>2, CurFacts
  <2>2. CASE ~packer_rdy
    BY <2>2, CurFacts DEF PackerStep
  <2> QED
    BY <2>1, <2>2
<1> QED
  BY <1>1, <1>2, <1>3

LEMMA HispiTypes ==
  ASSUME Types, NEW ready \in BOOLEAN, HispiStep(ready)
  PROVE  /\ hispi_state' \in {"S_DISABLED", "S_RESET_PHY", "S_IDLE", "S_START_CALIBRATION",
                               "S_CALIBRATE", "S_SOF", "S_INIT", "S_FRAME", "S_EOF", "S_DONE"}
         /\ sof_pending' \in BOOLEAN /\ calibration_pending' \in BOOLEAN
         /\ sclk_roi' \in Rois /\ reg_roi' \in Rois /\ hispi_ctrl' \in HispiCtrls
<1>1. hispi_state' \in {"S_DISABLED", "S_RESET_PHY", "S_IDLE", "S_START_CALIBRATION",
                        "S_CALIBRATE", "S_SOF", "S_INIT", "S_FRAME", "S_EOF", "S_DONE"}
  BY DEF Types, HispiStep, HispiNext
<1> QED
  BY <1>1 DEF Types, HispiStep

\* A marker is set, the word of the FIFO has a line of the lanes.
LEMMA WordTypes ==
  ASSUME Types, Lanes # {}
  PROVE  write_sync' = SyncNext => write_sync' \in Marking /\ fifo_write_data \in Words
<1>1. SyncNext \in Marking
  BY DEF Types, SyncNext, EndMark, Marking
<1>2. LineRead \in Tags
  <2> DEFINE lines == {lane[i].ram[lane[i].rptr] : i \in Lanes}
  <2>1. NoLine \in Tags
    BY CurFacts DEF NoLine, Tags
  <2>2. lines \subseteq Tags
    BY DEF Types
  <2>3. LineRead = IF \E l \in lines : lines = {l} THEN CHOOSE l \in lines : TRUE ELSE NoLine
    BY DEF LineRead
  <2> HIDE DEF lines
  <2> QED
    BY <2>1, <2>2, <2>3
<1>3. write_sync \in Marking /\ pixel_cntr \in 0 .. DataClocks
  BY DEF Types
<1> QED
  BY <1>1, <1>2, <1>3 DEF fifo_write_data, Words

\* A lane on a clock, field by field.
LEMMA LaneMoves ==
  ASSUME Types, NEW pulses, LaneStep(pulses), NEW i \in Lanes
  PROVE  /\ lane'[i] \in [wptr : Buffers, rptr : Buffers, used : Buffers, rdy : BOOLEAN,
                           ram : [Buffers -> Tags]]
         /\ lane'[i].wptr = lane[i].wptr /\ lane'[i].ram = lane[i].ram
         /\ lane'[i].rptr = IF transfer_done THEN (lane[i].rptr + 1) % 4 ELSE lane[i].rptr
         /\ lane'[i].used = UsedNext(lane[i].used, i \in pulses)
         /\ lane'[i].rdy <=> lane[i].rdy /\ i \notin pulses
<1> DEFINE Lane == [wptr : Buffers, rptr : Buffers, used : Buffers, rdy : BOOLEAN,
                    ram : [Buffers -> Tags]]
           r == IF transfer_done THEN (lane[i].rptr + 1) % 4 ELSE lane[i].rptr
           u == UsedNext(lane[i].used, i \in pulses)
           d == lane[i].rdy /\ i \notin pulses
<1>1. lane'[i] = [lane[i] EXCEPT !.rptr = r, !.used = u, !.rdy = d]
  BY DEF LaneStep
<1>2. lane[i] \in Lane /\ lane[i].rptr \in Buffers /\ lane[i].used \in Buffers
  BY DEF Types
<1>3. \A n \in Buffers : (n + 1) % 4 \in Buffers /\ (n - 1) % 4 \in Buffers
  BY DEF Buffers
<1>4. r \in Buffers
  BY <1>2, <1>3
<1>5. u \in Buffers
  <2>1. \A n \in Buffers : \A ready : UsedNext(n, ready) \in {n, (n + 1) % 4, (n - 1) % 4}
    BY DEF UsedNext
  <2> QED
    BY <1>2, <1>3, <2>1
<1>6. d \in BOOLEAN
  OBVIOUS
<1> HIDE DEF r, u, d
<1>7. /\ lane'[i] \in Lane
      /\ lane'[i].wptr = lane[i].wptr /\ lane'[i].ram = lane[i].ram
      /\ lane'[i].rptr = r /\ lane'[i].used = u /\ lane'[i].rdy = d
  BY <1>1, <1>2, <1>4, <1>5, <1>6
<1> QED
  BY <1>7 DEF r, u, d

LEMMA LaneTypes ==
  ASSUME Types, NEW pulses, LaneStep(pulses)
  PROVE  lane' \in [Lanes -> [wptr : Buffers, rptr : Buffers, used : Buffers, rdy : BOOLEAN,
                              ram : [Buffers -> Tags]]]
<1>1. lane' = [i \in Lanes |-> lane'[i]]
  BY DEF LaneStep
<1> QED
  BY <1>1, LaneMoves

\* What goes into the FIFO and out of it.
LEMMA FifoTypes ==
  ASSUME fifo \in Seq(Words), q \in Words, fifo_write_data \in Words,
         NEW tready \in BOOLEAN, FifoStep(tready)
  PROVE  fifo' \in Seq(Words) /\ q' \in Words
<1> DEFINE rest == IF fifo_read_en(tready) THEN Tail(fifo) ELSE fifo
<1>1. fifo_read_en(tready) => fifo # << >>
  BY DEF fifo_read_en
<1>2. fifo # << >> => Head(fifo) \in Words /\ Tail(fifo) \in Seq(Words)
  BY HeadTailProperties
<1>3. rest \in Seq(Words)
  BY <1>1, <1>2
<1>4. Append(rest, fifo_write_data) \in Seq(Words)
  BY <1>3, AppendProperties
<1>5. /\ fifo' = IF fifo_write_en THEN Append(rest, fifo_write_data) ELSE rest
      /\ q' = IF fifo_read_en(tready) THEN Head(fifo) ELSE q
  BY DEF FifoStep
<1> HIDE DEF rest
<1> QED
  BY <1>1, <1>2, <1>3, <1>4, <1>5

LEMMA StreamTypes ==
  ASSUME Types, NEW tready \in BOOLEAN, StreamStep(tready)
  PROVE  /\ strm_state' \in {"S_IDLE", "S_WAIT_ROW", "S_PREFETCH", "S_TRANSFER", "S_EOL",
                             "S_EOF", "S_DONE"}
         /\ pace' \in 0 .. 3 /\ tword' \in Words
         /\ read_data_valid' \in BOOLEAN /\ tvalid' \in BOOLEAN
<1>1. strm_state' \in {"S_IDLE", "S_WAIT_ROW", "S_PREFETCH", "S_TRANSFER", "S_EOL",
                       "S_EOF", "S_DONE"}
  BY DEF Types, StreamStep, StrmNext
<1>2. pace' \in 0 .. 3
  <2>1. \A n \in 0 .. 3 : (n + 1) % 4 \in 0 .. 3 /\ (n - 1) % 4 \in 0 .. 3
    OBVIOUS
  <2>2. pace' \in {0, pace, (pace + 1) % 4, (pace - 1) % 4}
    BY DEF StreamStep, PaceNext
  <2>3. pace \in 0 .. 3
    BY DEF Types
  <2> QED
    BY <2>1, <2>2, <2>3
<1>3. tword' \in Words
  BY DEF Types, StreamStep
<1>4. read_data_valid' \in BOOLEAN /\ tvalid' \in BOOLEAN
  BY DEF Types, StreamStep, m_wait, fifo_read_en
<1> QED
  BY <1>1, <1>2, <1>3, <1>4

\* The consumer's place is one on in the row, or the first of the next row.
LEMMA ConsumerMoves ==
  ASSUME Types, NEW tready \in BOOLEAN, Consumed(tready)
  PROVE  /\ rx' \in [roi : Rois, frame : {0, 1}, line : Nat, x : Nat]
         /\ rx'.roi = rx.roi /\ rx'.frame = rx.frame
         /\ ~(clean /\ tvalid /\ tready) => rx' = rx
         /\ clean /\ tvalid /\ tready => [line |-> rx'.line, x |-> rx'.x] = After(OutPlace)
<1>1. /\ rx \in [roi : Rois, frame : {0, 1}, line : Nat, x : Nat]
      /\ rx.roi \in Rois /\ rx.line \in Nat /\ rx.x \in Nat
      /\ rx.roi.x_stop \in Nat /\ rx.roi.x_start \in Nat
  BY RoiFacts DEF Types
<1>2. CASE ~(clean /\ tvalid /\ tready)
  BY <1>1, <1>2 DEF Consumed
<1>3. CASE clean /\ tvalid /\ tready /\ rx.x < rx.roi.x_stop
  BY <1>1, <1>3 DEF Consumed, After, OutPlace
<1>4. CASE clean /\ tvalid /\ tready /\ rx.x >= rx.roi.x_stop
  <2>1. rx' = [rx EXCEPT !.x = rx.roi.x_start, !.line = rx.line + 1]
    BY <1>1, <1>4 DEF Consumed
  <2> DEFINE x == rx.roi.x_start
             l == rx.line + 1
  <2>a. x \in Nat /\ l \in Nat
    BY <1>1
  <2> HIDE DEF x, l
  <2>b. rx' = [rx EXCEPT !.x = x, !.line = l]
    BY <2>1 DEF x, l
  <2>c. /\ rx'.roi = rx.roi /\ rx'.frame = rx.frame /\ rx'.x = x /\ rx'.line = l
        /\ rx' \in [roi : Rois, frame : {0, 1}, line : Nat, x : Nat]
    BY <1>1, <2>a, <2>b
  <2>2. /\ rx'.roi = rx.roi /\ rx'.frame = rx.frame
        /\ rx'.x = rx.roi.x_start /\ rx'.line = rx.line + 1
        /\ rx' \in [roi : Rois, frame : {0, 1}, line : Nat, x : Nat]
    BY <2>c DEF x, l
  <2>3. ~(rx.x < rx.roi.x_stop)
    BY <1>1, <1>4
  <2> QED
    BY <1>4, <2>2, <2>3 DEF After, OutPlace
<1> QED
  BY <1>1, <1>2, <1>3, <1>4

LEMMA ClockTypes ==
  ASSUME Types, RowCounters, NEW tready \in BOOLEAN, NEW ready \in BOOLEAN, NEW pulses,
         Clock(tready, ready, pulses)
  PROVE  Types'
<1>1. /\ HispiStep(ready) /\ RowStep /\ PackerStep /\ write_sync' = SyncNext
      /\ LaneStep(pulses) /\ StreamStep(tready) /\ Consumed(tready)
      /\ UNCHANGED <<sensor, clean>>
  BY DEF Clock
<1>2. /\ sensor \in [frame : {0, 1}, size : 0 .. MaxLines, sent : [Lanes -> 0 .. MaxLines],
                     late : Nat]
      /\ fifo \in Seq(Words) /\ q \in Words /\ clean \in BOOLEAN
  BY DEF Types
<1>3. write_sync' \in Marking /\ fifo_write_data \in Words
  BY <1>1, StreamerAssumption, WordTypes
<1>4. fifo' \in Seq(Words) /\ q' \in Words
  BY <1>1, <1>2, <1>3, FifoTypes DEF StreamStep
<1>5. lane' \in [Lanes -> [wptr : Buffers, rptr : Buffers, used : Buffers, rdy : BOOLEAN,
                           ram : [Buffers -> Tags]]]
  BY <1>1, LaneTypes
<1>6. rx' \in [roi : Rois, frame : {0, 1}, line : Nat, x : Nat]
  BY <1>1, ConsumerMoves
<1> QED
  BY <1>1, <1>2, <1>3, <1>4, <1>5, <1>6, HispiTypes, RowTypes, PackerTypes, StreamTypes
     DEF Types

-----------------------------------------------------------------------------
(* One clock: control. *)

LEMMA SameFrameClock ==
  ASSUME Types, SameFrame, NEW tready \in BOOLEAN, NEW ready \in BOOLEAN, NEW pulses,
         Clock(tready, ready, pulses)
  PROVE  SameFrame'
<1>1. HispiStep(ready) /\ RowStep /\ clean' = clean /\ hispi_ctrl' = hispi_ctrl
  BY DEF Clock, HispiStep
<1>2. CASE enable_hispi
  <2>1. /\ ~SwitchedOff /\ ~SwitchedOff' /\ hispi_ctrl' # "cleared"
    BY <1>1, <1>2 DEF SwitchedOff, enable_hispi, On
  <2>2. /\ state' # "S_IDLE" => hispi_state' = "S_FRAME"
        /\ hispi_state' = "S_FRAME" /\ state' = "S_IDLE" => frame_pending'
    BY <1>1, <1>2, <2>1 DEF Types, SameFrame, InFrame, HispiStep, HispiNext, RowStep,
                            StateNext, init_frame, frame_done
  <2>3. /\ frame_pending' => hispi_state' = "S_FRAME" /\ state' \in {"S_IDLE", "S_SOF"}
        /\ state' = "S_SOF" => frame_pending'
    BY <1>1, <1>2, <2>1 DEF Types, SameFrame, InFrame, HispiStep, HispiNext, RowStep,
                            StateNext, init_frame, frame_done
  <2>4. /\ hispi_state' = "S_SOF" => sof_pending'
        /\ clean' => /\ hispi_ctrl' = "streaming" /\ hispi_state' # "S_DISABLED"
                     /\ hispi_state' \in {"S_INIT", "S_FRAME", "S_EOF", "S_DONE"} => ~sof_pending'
    BY <1>1, <1>2 DEF Types, SameFrame, HispiStep, HispiNext
  <2> QED
    BY <2>1, <2>2, <2>3, <2>4 DEF SameFrame, InFrame
<1>3. CASE ~enable_hispi
  <2>1. /\ hispi_state' = "S_DISABLED" /\ hispi_ctrl \in {"disabled", "cleared"} /\ ~clean
    BY <1>1, <1>3 DEF Types, SameFrame, HispiStep, HispiNext, enable_hispi, On, HispiCtrls
  <2>2. CASE hispi_ctrl = "disabled"
    <3>1. InFrame'
      BY <1>1, <2>1, <2>2 DEF InFrame, SwitchedOff
    <3>2. /\ frame_pending' <=> init_frame \/ (frame_pending /\ state # "S_SOF")
          /\ state' = StateNext
      BY <1>1 DEF RowStep
    <3>3. /\ init_frame => state = "S_IDLE"
          /\ frame_pending => state \in {"S_IDLE", "S_SOF"}
          /\ state = "S_IDLE" => StateNext \in {"S_IDLE", "S_SOF"}
      BY DEF SameFrame, InFrame, SwitchedOff, init_frame, StateNext
    <3>4. StateNext = "S_SOF" => state = "S_IDLE" /\ frame_pending
      BY DEF Types, StateNext
    <3>5. /\ frame_pending' => state' \in {"S_IDLE", "S_SOF"}
          /\ state' = "S_SOF" => frame_pending'
      BY <3>2, <3>3, <3>4
    <3> QED
      BY <1>1, <2>1, <2>2, <3>1, <3>5 DEF SameFrame
  <2>3. CASE hispi_ctrl = "cleared"
    <3>1. hispi_state = "S_DISABLED" /\ state = "S_IDLE" /\ ~frame_pending
      BY <2>3 DEF SameFrame, InFrame, SwitchedOff
    <3>2. state' = "S_IDLE" /\ ~frame_pending'
      BY <1>1, <3>1 DEF RowStep, StateNext, init_frame
    <3> QED
      BY <1>1, <2>1, <3>2 DEF SameFrame
  <2> QED
    BY <2>1, <2>2, <2>3
<1> QED
  BY <1>2, <1>3

\* The data phase is long enough for the last word of the region.
LEMMA RowCountersClock ==
  ASSUME Types, RowCounters, RowStep, PackerStep
  PROVE  RowCounters'
<1>1. CASE state = "S_DATA_PHASE"
  <2>1. /\ load_data' /\ cur' = cur /\ state' = IF last_data THEN "S_LAST_DATA" ELSE state
        /\ data_cntr' = IF last_data THEN 0 ELSE data_cntr + 1
    BY <1>1 DEF RowStep, PackerStep, StateNext
  <2>2. pixel_ptr' = 6 * data_cntr - 8 * pixel_cntr'
    <3>1. CASE data_cntr = 0
      BY <1>1, <3>1, CurFacts DEF RowCounters, PackerStep, packer_rdy
    <3>2. CASE data_cntr > 0 /\ pixel_ptr > 7
      BY <1>1, <3>2, CurFacts DEF RowCounters, PackerStep, packer_rdy
    <3>3. CASE data_cntr > 0 /\ pixel_ptr < 8
      BY <1>1, <3>3, CurFacts DEF RowCounters, PackerStep, packer_rdy
    <3> QED
      BY <3>1, <3>2, <3>3, CurFacts
  <2>3. pixel_ptr' \in {0, 6, 8, 10, 12} /\ pixel_cntr' \in 0 .. DataClocks
    BY PackerTypes
  <2>4. CASE last_data
    <3>1. pixel_cntr' > cur.x_stop
      BY <2>2, <2>3, <2>4, CurFacts DEF last_data
    <3> QED
      BY <2>1, <2>4, <3>1 DEF RowCounters
  <2>5. CASE ~last_data
    <3>1. data_cntr' > 0 /\ data_cntr' - 1 = data_cntr
      BY <2>1, <2>5, CurFacts
    <3> QED
      BY <1>1, <2>1, <2>2, <2>5, <3>1 DEF RowCounters
  <2> QED
    BY <2>4, <2>5
<1>2. CASE state = "S_LAST_DATA"
  <2>1. /\ state' \in {"S_EOF", "S_EOL"} /\ data_cntr' = 0 /\ ~load_data' /\ cur' = cur
        /\ pixel_cntr' = pixel_cntr
    BY <1>2 DEF RowStep, StateNext, PackerStep, packer_rdy
  <2> QED
    BY <1>2, <2>1 DEF RowCounters
<1>3. CASE state \notin {"S_DATA_PHASE", "S_LAST_DATA"}
  <2>1. /\ data_cntr' = 0 /\ ~load_data' /\ state' \notin {"S_LAST_DATA", "S_EOL", "S_EOF"}
    BY <1>3 DEF Types, RowStep, StateNext, PackerStep
  <2>2. state' = "S_LOAD_BURST_CNTR" => pixel_ptr' = 0 /\ pixel_cntr' = 0
    <3>1. state' = "S_LOAD_BURST_CNTR" => state = "S_SOL"
      BY <1>3 DEF Types, RowStep, StateNext
    <3>2. state = "S_SOL" => pixel_ptr' = 0
      BY DEF PackerStep
    <3>3. state = "S_SOL" => pixel_cntr' = 0
      BY DEF PackerStep, packer_rdy
    <3> QED
      BY <3>1, <3>2, <3>3
  <2>3. state' = "S_DATA_PHASE" => pixel_ptr' = 0 /\ pixel_cntr' = 0
    <3>1. state' = "S_DATA_PHASE" => state = "S_LOAD_BURST_CNTR"
      BY <1>3 DEF Types, RowStep, StateNext
    <3>2. state = "S_LOAD_BURST_CNTR" => pixel_ptr = 0 /\ pixel_cntr = 0 /\ ~load_data
      BY DEF RowCounters
    <3> QED
      BY <3>1, <3>2 DEF PackerStep, packer_rdy
  <2> QED
    BY <2>1, <2>2, <2>3 DEF RowCounters
<1> QED
  BY <1>1, <1>2, <1>3

LEMMA RowsCountedClock ==
  ASSUME Types, RowsCounted, RowStep
  PROVE  RowsCounted'
<1>1. /\ state' = StateNext /\ last_row' = LastRowNext
      /\ cur' = IF state = "S_SOF" THEN sclk_roi ELSE cur
      /\ line_cntr' = IF state = "S_SOF" THEN 0
                      ELSE IF state = "S_EOL" THEN line_cntr + 1 ELSE line_cntr
  BY DEF RowStep
<1>2. CASE state = "S_SOF"
  <2>1. cur' \in Rois /\ line_cntr' = 0 /\ state' = "S_WAIT_SOL" /\ last_row' = FALSE
    BY <1>1, <1>2 DEF Types, StateNext, LastRowNext
  <2>2. 0 < cur'.y_size
    BY <2>1, RoiFacts
  <2> QED
    BY <2>1, <2>2 DEF RowsCounted
<1>3. CASE state = "S_EOL"
  <2>1. /\ line_cntr' = line_cntr + 1 /\ line_cntr # cur.y_size - 1 /\ line_cntr < cur.y_size
        /\ cur' = cur /\ state' = "S_WAIT_SOL" /\ last_row' = last_row
    BY <1>1, <1>3 DEF RowsCounted, StateNext, LastRowNext, LastRow
  <2>2. line_cntr' < cur'.y_size
    BY <2>1, CurFacts
  <2>3. ~last_row
    BY <1>3 DEF RowsCounted
  <2> QED
    BY <2>1, <2>2, <2>3 DEF RowsCounted
<1>4. CASE state \notin {"S_SOF", "S_EOL"}
  <2>1. line_cntr' = line_cntr /\ cur' = cur
    BY <1>1, <1>4
  <2>2. (LastRow' <=> LastRow) /\ line_cntr' < cur'.y_size
    BY <2>1 DEF LastRow, RowsCounted
  <2>3. CASE state = "S_SOL"
    BY <1>1, <2>2, <2>3 DEF Types, RowsCounted, StateNext, LastRowNext, LastRow
  <2>4. CASE state = "S_EOF"
    BY <1>1, <2>2, <2>4 DEF Types, RowsCounted, StateNext, LastRowNext
  <2>5. CASE state = "S_LAST_DATA"
    BY <1>1, <2>2, <2>5 DEF Types, RowsCounted, StateNext, LastRowNext
  <2>6. CASE state \notin {"S_SOL", "S_EOF", "S_LAST_DATA"}
    BY <1>1, <1>4, <2>2, <2>6 DEF Types, RowsCounted, StateNext, LastRowNext
  <2> QED
    BY <2>3, <2>4, <2>5, <2>6
<1> QED
  BY <1>2, <1>3, <1>4

\* The markers: the end of a row is announced while the word before it leaves.
LEMMA MarkerClock ==
  ASSUME Types, RowCounters, RowsCounted, MarkerReady, RowStep, PackerStep, write_sync' = SyncNext
  PROVE  MarkerReady'
<1>1. CASE state = "S_SOF"
  BY <1>1 DEF MarkerReady, RowStep, StateNext, SyncNext
<1>2. CASE state \in {"S_IDLE", "S_EOF", "S_WAIT_STREAMER_DONE", "S_DONE"}
  BY <1>2 DEF MarkerReady, RowStep, StateNext
<1>3. CASE state = "S_WAIT_SOL"
  BY <1>3 DEF MarkerReady, RowStep, StateNext, SyncNext, fifo_write_en, packer_rdy
<1>4. CASE state = "S_SOL"
  <2>1. state' = "S_LOAD_BURST_CNTR" /\ line_cntr' = line_cntr
    BY <1>4 DEF RowStep, StateNext
  <2>2. write_sync = IF line_cntr = 0 THEN {"SOF"} ELSE {}
    BY <1>4 DEF MarkerReady
  <2>3. write_sync' = IF "SOF" \notin write_sync THEN write_sync \cup {"SOL"} ELSE write_sync
    BY <1>4 DEF SyncNext, fifo_write_en, packer_rdy
  <2>4. write_sync' = FirstMark'
    BY <2>1, <2>2, <2>3 DEF FirstMark
  <2> QED
    BY <2>1, <2>4 DEF MarkerReady
<1>5. CASE state = "S_LOAD_BURST_CNTR"
  <2>1. /\ state' = "S_DATA_PHASE" /\ pixel_cntr' = 0 /\ cur' = cur /\ line_cntr' = line_cntr
        /\ write_sync' = write_sync
    BY <1>5, CurFacts DEF RowCounters, RowStep, StateNext, SyncNext, PackerStep, fifo_write_en,
                          packer_rdy
  <2> QED
    BY <1>5, <2>1, CurFacts DEF MarkerReady, FirstMark
<1>6. CASE state = "S_EOL"
  <2>1. state' = "S_WAIT_SOL" /\ line_cntr' = line_cntr + 1 /\ write_sync' = write_sync
    BY <1>6 DEF RowStep, StateNext, SyncNext, fifo_write_en, packer_rdy
  <2> QED
    BY <1>6, <2>1, CurFacts DEF MarkerReady
<1>7. CASE state = "S_LAST_DATA"
  <2>1. state' \in {"S_EOL", "S_EOF"} /\ write_sync' = write_sync
    BY <1>7 DEF RowStep, StateNext, SyncNext, fifo_write_en, packer_rdy
  <2> QED
    BY <1>7, <2>1 DEF MarkerReady
<1>8. CASE state = "S_DATA_PHASE"
  <2>1. /\ state' = IF last_data THEN "S_LAST_DATA" ELSE state
        /\ cur' = cur /\ line_cntr' = line_cntr /\ last_row' = last_row
        /\ pixel_cntr' = IF packer_rdy THEN pixel_cntr + 1 ELSE pixel_cntr
        /\ fifo_write_en <=> packer_rdy /\ valid_x_roi
        /\ write_sync' = IF packer_rdy /\ pixel_cntr = cur.x_stop - 1
                         THEN write_sync \cup EndMark
                         ELSE IF packer_rdy /\ valid_x_roi THEN {} ELSE write_sync
    <3>1. /\ state' = IF last_data THEN "S_LAST_DATA" ELSE state
          /\ cur' = cur /\ line_cntr' = line_cntr /\ last_row' = last_row
      BY <1>8 DEF RowStep, StateNext, LastRowNext
    <3>2. pixel_cntr' = IF packer_rdy THEN pixel_cntr + 1 ELSE pixel_cntr
      BY <1>8 DEF PackerStep
    <3>3. packer_rdy => load_data
      BY <1>8, CurFacts DEF RowCounters, packer_rdy
    <3> QED
      BY <1>8, <3>1, <3>2, <3>3 DEF SyncNext, fifo_write_en
  <2>2. EndMark' = EndMark /\ FirstMark' = FirstMark
    BY <2>1 DEF EndMark, FirstMark
  <2>3. write_sync = IF pixel_cntr <= cur.x_start THEN FirstMark
                     ELSE IF pixel_cntr = cur.x_stop THEN EndMark ELSE {}
    BY <1>8 DEF MarkerReady
  <2>4. write_sync' = IF pixel_cntr' <= cur.x_start THEN FirstMark
                      ELSE IF pixel_cntr' = cur.x_stop THEN EndMark ELSE {}
    <3>1. CASE ~packer_rdy
      BY <2>1, <2>3, <3>1
    <3>2. CASE packer_rdy /\ pixel_cntr < cur.x_start
      BY <2>1, <2>3, <3>2, CurFacts DEF valid_x_roi
    <3>3. CASE packer_rdy /\ cur.x_start <= pixel_cntr /\ pixel_cntr < cur.x_stop - 1
      BY <2>1, <2>3, <3>3, CurFacts DEF valid_x_roi
    <3>4. CASE packer_rdy /\ pixel_cntr = cur.x_stop - 1
      BY <2>1, <2>3, <3>4, CurFacts
    <3>5. CASE packer_rdy /\ cur.x_stop <= pixel_cntr
      BY <2>1, <2>3, <3>5, CurFacts DEF valid_x_roi
    <3> QED
      BY <3>1, <3>2, <3>3, <3>4, <3>5, CurFacts
  <2>5. state' = "S_LAST_DATA" => pixel_cntr' > cur.x_stop
    BY <2>1, RowCountersClock DEF RowCounters
  <2>6. state' = "S_LAST_DATA" => write_sync' = {}
    BY <2>4, <2>5, CurFacts, PackerTypes
  <2>7. state' \in {"S_DATA_PHASE", "S_LAST_DATA"}
    BY <1>8, <2>1
  <2> QED
    BY <2>1, <2>2, <2>4, <2>6, <2>7 DEF MarkerReady
<1> QED
  BY <1>1, <1>2, <1>3, <1>4, <1>5, <1>6, <1>7, <1>8 DEF Types

-----------------------------------------------------------------------------
(* The FIFO and its row ends. *)

LEMMA EndsFinite ==
  ASSUME NEW s \in Seq(Words)
  PROVE  IsFiniteSet(Ends(s)) /\ Cardinality(Ends(s)) \in Nat
<1>1. Len(s) \in Nat
  BY LenProperties
<1>2. Ends(s) \in SUBSET Nat /\ \A i \in Ends(s) : i <= Len(s)
  BY <1>1 DEF Ends
<1>3. IsFiniteSet(Ends(s))
  BY <1>1, <1>2, FS_BoundedSetOfNaturals
<1> QED
  BY <1>3, FS_CardinalityType

\* The head leaves: the others move down one place.
LEMMA EndsTail ==
  ASSUME NEW s \in Seq(Words), s # << >>
  PROVE  Cardinality(Ends(Tail(s))) =
           IF RowEnd(s[1]) THEN Cardinality(Ends(s)) - 1 ELSE Cardinality(Ends(s))
<1> DEFINE t == Tail(s)
           T == Ends(s) \ {1}
           f == [i \in Ends(t) |-> i + 1]
<1>1. /\ t \in Seq(Words) /\ Len(s) \in Nat \ {0} /\ Len(t) = Len(s) - 1
      /\ \A i \in 1 .. Len(t) : t[i] = s[i + 1]
  BY HeadTailProperties, EmptySeq
<1> HIDE DEF t
<1>2. \A i \in Ends(t) : i \in Nat /\ i + 1 \in T
  BY <1>1 DEF Ends
<1>3. \A j \in T : j - 1 \in Ends(t) /\ (j - 1) + 1 = j
  BY <1>1 DEF Ends
<1>4. f \in [Ends(t) -> T]
  BY <1>2
<1>5. \A i, j \in Ends(t) : f[i] = f[j] => i = j
  BY <1>2
<1>6. \A j \in T : \E i \in Ends(t) : f[i] = j
  BY <1>3
<1>7. f \in Bijection(Ends(t), T)
  BY <1>4, <1>5, <1>6, Fun_IsBij
<1>8. Cardinality(T) = Cardinality(Ends(t))
  BY <1>1, <1>7, EndsFinite, FS_Bijection DEF ExistsBijection
<1>9. Cardinality(T) = IF 1 \in Ends(s) THEN Cardinality(Ends(s)) - 1 ELSE Cardinality(Ends(s))
  BY EndsFinite, FS_RemoveElement
<1>10. 1 \in Ends(s) <=> RowEnd(s[1])
  BY <1>1 DEF Ends
<1> QED
  BY <1>8, <1>9, <1>10 DEF t

LEMMA EndsAppend ==
  ASSUME NEW s \in Seq(Words), NEW w \in Words
  PROVE  Cardinality(Ends(Append(s, w))) =
           IF RowEnd(w) THEN Cardinality(Ends(s)) + 1 ELSE Cardinality(Ends(s))
<1> DEFINE a == Append(s, w)
           n == Len(s)
<1>1. /\ n \in Nat /\ Len(a) = n + 1 /\ a[n + 1] = w
      /\ \A i \in 1 .. n : a[i] = s[i]
  BY AppendProperties, LenProperties
<1> HIDE DEF a
<1>2. n + 1 \notin Ends(s)
  BY <1>1 DEF Ends
<1>3. Ends(a) = IF RowEnd(w) THEN Ends(s) \cup {n + 1} ELSE Ends(s)
  BY <1>1 DEF Ends
<1>4. Cardinality(Ends(s) \cup {n + 1}) = Cardinality(Ends(s)) + 1
  BY <1>2, EndsFinite, FS_AddElement
<1> QED
  BY <1>3, <1>4 DEF a

\* A clock of the FIFO: the head may leave to q, a word may be added.
LEMMA FifoMoves ==
  ASSUME fifo \in Seq(Words), fifo_write_data \in Words, NEW tready \in BOOLEAN,
         FifoStep(tready)
  PROVE  /\ Len(fifo) \in Nat /\ (fifo = << >> <=> Len(fifo) = 0)
         /\ Len(fifo') \in Nat /\ (fifo' = << >> <=> Len(fifo') = 0)
         /\ fifo_read_en(tready) => Len(fifo) > 0 /\ q' = fifo[1]
         /\ ~fifo_read_en(tready) => q' = q
         /\ Len(fifo') = Len(fifo) - One(fifo_read_en(tready)) + One(fifo_write_en)
         /\ \A i \in 1 .. Len(fifo) - One(fifo_read_en(tready)) :
              fifo'[i] = fifo[i + One(fifo_read_en(tready))]
         /\ fifo_write_en => fifo'[Len(fifo')] = fifo_write_data
         /\ Cardinality(Ends(fifo)) \in Nat /\ Cardinality(Ends(fifo')) \in Nat
         /\ Cardinality(Ends(fifo')) =
              Cardinality(Ends(fifo)) - One(fifo_read_en(tready) /\ RowEnd(fifo[1]))
                                      + One(fifo_write_en /\ RowEnd(fifo_write_data))
<1> DEFINE pop  == fifo_read_en(tready)
           rest == IF pop THEN Tail(fifo) ELSE fifo
<1>1. pop => fifo # << >>
  BY DEF fifo_read_en
<1>2. /\ fifo' = IF fifo_write_en THEN Append(rest, fifo_write_data) ELSE rest
      /\ q' = IF pop THEN Head(fifo) ELSE q
  BY DEF FifoStep
<1>3. /\ Len(fifo) \in Nat /\ (fifo = << >> <=> Len(fifo) = 0)
      /\ fifo # << >> => /\ Head(fifo) = fifo[1] /\ Tail(fifo) \in Seq(Words)
                         /\ Len(Tail(fifo)) = Len(fifo) - 1
                         /\ \A i \in 1 .. Len(fifo) - 1 : Tail(fifo)[i] = fifo[i + 1]
  BY EmptySeq, HeadTailProperties
<1> HIDE DEF pop
<1>4. /\ rest \in Seq(Words) /\ Len(rest) = Len(fifo) - One(pop)
      /\ \A i \in 1 .. Len(fifo) - One(pop) : rest[i] = fifo[i + One(pop)]
  <2>1. CASE pop
    BY <1>1, <1>3, <2>1 DEF One
  <2>2. CASE ~pop
    BY <1>3, <2>2 DEF One
  <2> QED
    BY <2>1, <2>2
<1>5. /\ Cardinality(Ends(fifo)) \in Nat
      /\ Cardinality(Ends(rest)) = Cardinality(Ends(fifo)) - One(pop /\ RowEnd(fifo[1]))
  <2>1. Cardinality(Ends(fifo)) \in Nat
    BY EndsFinite
  <2>2. CASE pop
    BY <1>1, <2>1, <2>2, EndsTail DEF One
  <2>3. CASE ~pop
    BY <2>1, <2>3 DEF One
  <2> QED
    BY <2>1, <2>2, <2>3
<1> HIDE DEF rest
<1>6. /\ Len(rest) \in Nat
      /\ Len(Append(rest, fifo_write_data)) = Len(rest) + 1
      /\ Append(rest, fifo_write_data)[Len(rest) + 1] = fifo_write_data
      /\ \A i \in 1 .. Len(rest) : Append(rest, fifo_write_data)[i] = rest[i]
      /\ Append(rest, fifo_write_data) \in Seq(Words)
  BY <1>4, AppendProperties, LenProperties
<1>7. /\ fifo' \in Seq(Words) /\ Len(fifo') = Len(rest) + One(fifo_write_en)
      /\ \A i \in 1 .. Len(rest) : fifo'[i] = rest[i]
      /\ fifo_write_en => fifo'[Len(fifo')] = fifo_write_data
  <2>1. CASE fifo_write_en
    BY <1>2, <1>4, <1>6, <2>1 DEF One
  <2>2. CASE ~fifo_write_en
    BY <1>2, <1>4, <1>6, <2>2 DEF One
  <2> QED
    BY <2>1, <2>2
<1>8. /\ Cardinality(Ends(rest)) \in Nat /\ Cardinality(Ends(fifo')) \in Nat
      /\ Cardinality(Ends(fifo')) =
           Cardinality(Ends(rest)) + One(fifo_write_en /\ RowEnd(fifo_write_data))
  <2>1. Cardinality(Ends(rest)) \in Nat
    BY <1>4, EndsFinite
  <2>2. CASE fifo_write_en
    BY <1>2, <1>4, <2>1, <2>2, EndsAppend DEF One
  <2>3. CASE ~fifo_write_en
    BY <1>2, <2>1, <2>3 DEF One
  <2> QED
    BY <2>1, <2>2, <2>3
<1>9. /\ Len(fifo') \in Nat /\ (fifo' = << >> <=> Len(fifo') = 0)
  BY <1>7, EmptySeq
<1>10. /\ pop => Len(fifo) > 0 /\ q' = fifo[1]
       /\ ~pop => q' = q
  BY <1>1, <1>2, <1>3
<1>11. /\ Len(fifo') = Len(fifo) - One(pop) + One(fifo_write_en)
       /\ \A i \in 1 .. Len(fifo) - One(pop) : fifo'[i] = fifo[i + One(pop)]
  BY <1>4, <1>7
<1>12. Cardinality(Ends(fifo')) =
         Cardinality(Ends(fifo)) - One(pop /\ RowEnd(fifo[1]))
                                 + One(fifo_write_en /\ RowEnd(fifo_write_data))
  BY <1>5, <1>8
<1> QED
  BY <1>3, <1>5, <1>7, <1>8, <1>9, <1>10, <1>11, <1>12 DEF pop

-----------------------------------------------------------------------------
(* One clock: packer and stream FSM. *)

LEMMA MarksFacts ==
  ASSUME NEW line, NEW x, NEW r
  PROVE  Marks(line, x, r) =
           (IF x = r.x_start THEN IF line = 0 THEN {"SOF"} ELSE {"SOL"} ELSE {}) \cup
           (IF x = r.x_stop THEN IF line = r.y_size - 1 THEN {"EOF"} ELSE {"EOL"} ELSE {})
<1> DEFINE A == IF x = r.x_start THEN IF line = 0 THEN {"SOF"} ELSE {"SOL"} ELSE {}
           B == IF x = r.x_stop THEN IF line = r.y_size - 1 THEN {"EOF"} ELSE {"EOL"} ELSE {}
           M == {"SOF", "SOL", "EOL", "EOF"}
<1>1. /\ A \subseteq M /\ B \subseteq M
      /\ "SOF" \in A <=> x = r.x_start /\ line = 0
      /\ "SOL" \in A <=> x = r.x_start /\ line # 0
      /\ "EOL" \in B <=> x = r.x_stop /\ line # r.y_size - 1
      /\ "EOF" \in B <=> x = r.x_stop /\ line = r.y_size - 1
      /\ "SOF" \notin B /\ "SOL" \notin B /\ "EOL" \notin A /\ "EOF" \notin A
  OBVIOUS
<1> HIDE DEF A, B
<1>2. \A m : m \in Marks(line, x, r) <=> m \in A \cup B
  <2>1. \A m \in M : m \in Marks(line, x, r) <=> m \in A \cup B
    BY <1>1 DEF Marks
  <2>2. Marks(line, x, r) \subseteq M
    BY DEF Marks
  <2> QED
    BY <1>1, <2>1, <2>2
<1>3. Marks(line, x, r) = A \cup B
  BY <1>2
<1> QED
  BY <1>3 DEF A, B

\* A word goes into the FIFO with the markers of its place.
LEMMA WordWritten ==
  ASSUME Types, RowCounters, RowsCounted, MarkerReady, fifo_write_en
  PROVE  /\ state = "S_DATA_PHASE" /\ packer_rdy /\ data_cntr > 0
         /\ cur.x_start <= pixel_cntr /\ pixel_cntr <= cur.x_stop
         /\ fifo_write_data.x = pixel_cntr /\ PackX = pixel_cntr
         /\ fifo_write_data.tag = LineRead
         /\ fifo_write_data.sync = Marks(line_cntr, pixel_cntr, cur)
         /\ RowEnd(fifo_write_data) <=> pixel_cntr = cur.x_stop
         /\ "EOF" \in fifo_write_data.sync <=> pixel_cntr = cur.x_stop /\ last_row
<1>1. /\ state = "S_DATA_PHASE" /\ packer_rdy /\ load_data
      /\ cur.x_start <= pixel_cntr /\ pixel_cntr <= cur.x_stop
  BY DEF fifo_write_en, packer_rdy, valid_x_roi
<1>2. data_cntr > 0
  BY <1>1 DEF RowCounters
<1>3. /\ fifo_write_data.x = pixel_cntr /\ fifo_write_data.tag = LineRead
      /\ fifo_write_data.sync = write_sync
  BY DEF fifo_write_data
<1>4. PackX = pixel_cntr
  BY <1>1, CurFacts DEF PackX
<1>5. last_row <=> LastRow
  BY <1>1 DEF RowsCounted
<1>6. write_sync = IF pixel_cntr <= cur.x_start THEN FirstMark
                   ELSE IF pixel_cntr = cur.x_stop THEN EndMark ELSE {}
  BY <1>1 DEF MarkerReady
<1>7. write_sync = Marks(line_cntr, pixel_cntr, cur)
  <2> DEFINE A == IF pixel_cntr = cur.x_start
                  THEN IF line_cntr = 0 THEN {"SOF"} ELSE {"SOL"} ELSE {}
             B == IF pixel_cntr = cur.x_stop
                  THEN IF line_cntr = cur.y_size - 1 THEN {"EOF"} ELSE {"EOL"} ELSE {}
  <2>1. Marks(line_cntr, pixel_cntr, cur) = A \cup B
    BY MarksFacts
  <2>2. CASE pixel_cntr = cur.x_start
    <3>1. pixel_cntr # cur.x_stop /\ pixel_cntr <= cur.x_start
      BY <2>2, CurFacts
    <3>2. write_sync = A /\ B = {}
      BY <1>6, <2>2, <3>1 DEF FirstMark
    <3> QED
      BY <2>1, <3>2
  <2>3. CASE pixel_cntr = cur.x_stop
    <3>1. pixel_cntr # cur.x_start /\ ~(pixel_cntr <= cur.x_start)
      BY <2>3, CurFacts
    <3>2. write_sync = EndMark /\ A = {}
      BY <1>6, <2>3, <3>1
    <3>3. EndMark = B
      BY <1>5, <2>3 DEF EndMark, LastRow
    <3> QED
      BY <2>1, <3>2, <3>3
  <2>4. CASE pixel_cntr # cur.x_start /\ pixel_cntr # cur.x_stop
    <3>1. ~(pixel_cntr <= cur.x_start)
      BY <1>1, <2>4, CurFacts
    <3>2. write_sync = {} /\ A = {} /\ B = {}
      BY <1>6, <2>4, <3>1
    <3> QED
      BY <2>1, <3>2
  <2> QED
    BY <2>2, <2>3, <2>4
<1>8. /\ RowEnd(fifo_write_data) <=> pixel_cntr = cur.x_stop
      /\ "EOF" \in fifo_write_data.sync <=> pixel_cntr = cur.x_stop /\ last_row
  BY <1>3, <1>5, <1>7, MarksFacts DEF RowEnd, LastRow
<1> QED
  BY <1>1, <1>2, <1>3, <1>4, <1>7, <1>8

\* The packer's place, and whether it is past the end of the row.
LEMMA PackMoves ==
  ASSUME Types, RowCounters, RowsCounted, MarkerReady, RowStep, PackerStep
  PROVE  /\ state = "S_SOF" => PackX' = cur'.x_start
         /\ state # "S_SOF" =>
              /\ cur' = cur
              /\ PackX' = IF fifo_write_en THEN NextX(PackX) ELSE PackX
         /\ transfer_done => RowPacked /\ ~RowPacked'
         /\ fifo_write_en => ~RowPacked
         /\ ~transfer_done =>
              (RowPacked' <=> RowPacked \/ (fifo_write_en /\ pixel_cntr = cur.x_stop))
<1>1. CASE state = "S_DATA_PHASE"
  <2>1. /\ state' \in {"S_DATA_PHASE", "S_LAST_DATA"} /\ cur' = cur /\ ~transfer_done
        /\ pixel_cntr' = IF packer_rdy THEN pixel_cntr + 1 ELSE pixel_cntr
    BY <1>1 DEF RowStep, StateNext, PackerStep, transfer_done
  <2>2. /\ fifo_write_en <=> packer_rdy /\ valid_x_roi
    <3>1. packer_rdy => load_data
      BY <1>1, CurFacts DEF RowCounters, packer_rdy
    <3> QED
      BY <3>1 DEF fifo_write_en
  <2>3. state' = "S_LAST_DATA" => pixel_cntr' > cur.x_stop
    BY <2>1, RowCountersClock DEF RowCounters
  <2>4. (RowPacked <=> pixel_cntr > cur.x_stop) /\ (RowPacked' <=> pixel_cntr' > cur.x_stop)
    BY <1>1, <2>1 DEF RowPacked, Packing
  <2>5. PackX' = IF cur.x_start < pixel_cntr' /\ pixel_cntr' <= cur.x_stop
                 THEN pixel_cntr' ELSE cur.x_start
    <3>1. CASE state' = "S_DATA_PHASE"
      BY <2>1, <3>1 DEF PackX
    <3>2. CASE state' = "S_LAST_DATA"
      BY <2>1, <2>3, <3>2, CurFacts, PackerTypes DEF PackX
    <3> QED
      BY <2>1, <3>1, <3>2
  <2>6. PackX = IF cur.x_start < pixel_cntr /\ pixel_cntr <= cur.x_stop
                THEN pixel_cntr ELSE cur.x_start
    BY <1>1 DEF PackX
  <2>7. PackX' = IF fifo_write_en THEN NextX(PackX) ELSE PackX
    BY <2>1, <2>2, <2>5, <2>6, CurFacts DEF NextX, valid_x_roi
  <2>8. RowPacked' <=> RowPacked \/ (fifo_write_en /\ pixel_cntr = cur.x_stop)
    BY <2>1, <2>2, <2>4, CurFacts DEF valid_x_roi
  <2>9. fifo_write_en => ~RowPacked
    BY <2>2, <2>4, CurFacts DEF valid_x_roi
  <2> QED
    BY <1>1, <2>1, <2>7, <2>8, <2>9
<1>2. CASE state \in {"S_LAST_DATA", "S_EOL", "S_EOF"}
  <2>1. /\ ~fifo_write_en /\ cur' = cur /\ pixel_cntr' = pixel_cntr /\ pixel_cntr > cur.x_stop
        /\ state' = IF state = "S_LAST_DATA" THEN IF last_row THEN "S_EOF" ELSE "S_EOL"
                    ELSE IF state = "S_EOL" THEN "S_WAIT_SOL" ELSE "S_WAIT_STREAMER_DONE"
    BY <1>2 DEF RowStep, StateNext, PackerStep, packer_rdy, fifo_write_en, RowCounters
  <2>2. PackX' = PackX
    BY <1>2, <2>1 DEF PackX
  <2> QED
    BY <1>2, <2>1, <2>2 DEF RowPacked, Packing, transfer_done
<1>3. CASE state \notin {"S_DATA_PHASE", "S_LAST_DATA", "S_EOL", "S_EOF"}
  <2>1. ~fifo_write_en /\ ~RowPacked /\ ~transfer_done /\ PackX = cur.x_start
    BY <1>3 DEF fifo_write_en, packer_rdy, RowPacked, Packing, transfer_done, PackX
  <2>2. state' \notin {"S_LAST_DATA", "S_EOL", "S_EOF"}
    BY <1>3 DEF Types, RowStep, StateNext
  <2>3. cur' = IF state = "S_SOF" THEN sclk_roi ELSE cur
    BY DEF RowStep
  <2>4. state' = "S_DATA_PHASE" => state = "S_LOAD_BURST_CNTR" /\ pixel_cntr' = 0
    <3>1. state' = "S_DATA_PHASE" => state = "S_LOAD_BURST_CNTR"
      BY <1>3 DEF Types, RowStep, StateNext
    <3>2. state = "S_LOAD_BURST_CNTR" => pixel_cntr' = 0
      BY CurFacts DEF RowCounters, PackerStep, packer_rdy
    <3> QED
      BY <3>1, <3>2
  <2>5. PackX' = cur'.x_start
    <3>1. state' = "S_DATA_PHASE" => ~(cur'.x_start < pixel_cntr')
      BY <2>3, <2>4, CurFacts
    <3> QED
      BY <3>1 DEF PackX
  <2>6. ~RowPacked'
    <3>1. state' = "S_DATA_PHASE" => ~(pixel_cntr' > cur'.x_stop)
      BY <2>3, <2>4, CurFacts
    <3> QED
      BY <2>2, <3>1 DEF RowPacked, Packing
  <2> QED
    BY <2>1, <2>3, <2>5, <2>6
<1> QED
  BY <1>1, <1>2, <1>3

\* With a row to stream there is a word in the FIFO.
LEMMA RowWaits ==
  ASSUME Types, StreamFollows, RowsInFifo, strm_state \in {"S_PREFETCH", "S_TRANSFER"},
         ~(strm_state = "S_TRANSFER" /\ RowEnd(q))
  PROVE  fifo # << >>
<1>1. pace > 0 /\ pace + One(RowPacked) = Cardinality(Ends(fifo)) + 0
  BY DEF StreamFollows, RowsInFifo, One
<1>2. pace \in 0 .. 3 /\ One(RowPacked) \in {0, 1}
  BY DEF Types, One
<1>3. Cardinality(Ends(<< >>)) = 0
  BY FS_EmptySet DEF Ends
<1> QED
  BY <1>1, <1>2, <1>3

\* The end of a frame reaches the stream FSM when the packer has left the row.
LEMMA EofWaits ==
  ASSUME Types, RowCounters, StreamFollows, RowsInFifo, EofIsLast,
         strm_state = "S_TRANSFER", "EOF" \in q.sync
  PROVE  state = "S_WAIT_STREAMER_DONE" /\ fifo = << >>
<1>1. fifo = << >> /\ LastPacked
  BY DEF EofIsLast
<1>2. Cardinality(Ends(fifo)) = 0
  <2>1. Ends(fifo) = {}
    BY <1>1 DEF Ends
  <2> QED
    BY <2>1, FS_EmptySet
<1>3. RowEnd(q)
  BY DEF RowEnd
<1>4. pace > 0 /\ pace + One(RowPacked) = 1
  BY <1>2, <1>3 DEF StreamFollows, RowsInFifo, One
<1>5. ~RowPacked
  <2>1. RowPacked => pace + 1 = 1
    BY <1>4 DEF One
  <2>2. pace \in 0 .. 3
    BY DEF Types
  <2> QED
    BY <1>4, <2>1, <2>2
<1>6. state # "S_EOF"
  BY <1>5 DEF RowCounters, RowPacked, Packing
<1> QED
  BY <1>1, <1>5, <1>6 DEF LastPacked

\* The stream FSM on a clock: it stalls, is outside a row, fetches the first
\* word, passes a word on, or passes on the last word of a row.
Stalls(tready)   == /\ m_wait(tready) /\ ~fifo_read_en(tready) /\ strm_state' = strm_state
                    /\ tvalid' = tvalid /\ tword' = tword
                    /\ read_data_valid' = read_data_valid
Outside(tready)  == /\ ~m_wait(tready) /\ strm_state \notin {"S_PREFETCH", "S_TRANSFER"}
                    /\ ~fifo_read_en(tready) /\ strm_state' = StrmNext
                    /\ ~tvalid' /\ ~read_data_valid'
Fetches(tready)  == /\ ~m_wait(tready) /\ strm_state = "S_PREFETCH" /\ ~tvalid
                    /\ fifo_read_en(tready) /\ strm_state' = "S_TRANSFER"
                    /\ ~tvalid' /\ read_data_valid'
Passes(tready)   == /\ ~m_wait(tready) /\ strm_state = "S_TRANSFER" /\ ~RowEnd(q)
                    /\ fifo_read_en(tready) /\ strm_state' = "S_TRANSFER"
                    /\ tvalid' /\ read_data_valid' /\ tword' = q
EndsRow(tready)  == /\ ~m_wait(tready) /\ strm_state = "S_TRANSFER" /\ RowEnd(q)
                    /\ ~fifo_read_en(tready) /\ tvalid' /\ ~read_data_valid' /\ tword' = q
                    /\ strm_state' = IF "EOF" \in q.sync THEN "S_EOF" ELSE "S_EOL"

LEMMA StreamMoves ==
  ASSUME Types, StreamFollows, RowsInFifo, NEW tready \in BOOLEAN, StreamStep(tready)
  PROVE  \/ Stalls(tready) \/ Outside(tready) \/ Fetches(tready)
         \/ Passes(tready) \/ EndsRow(tready)
<1>1. /\ strm_state' = IF m_wait(tready) THEN strm_state ELSE StrmNext
      /\ read_data_valid' = (fifo_read_en(tready) \/ (m_wait(tready) /\ read_data_valid))
      /\ tvalid' = IF m_wait(tready) THEN tvalid ELSE read_data_valid
      /\ tword' = IF ~m_wait(tready) /\ read_data_valid THEN q ELSE tword
  BY DEF StreamStep
<1>2. read_data_valid <=> strm_state = "S_TRANSFER"
  BY DEF StreamFollows
<1>3. CASE m_wait(tready)
  BY <1>1, <1>3 DEF Types, Stalls, fifo_read_en
<1>4. CASE ~m_wait(tready) /\ strm_state \notin {"S_PREFETCH", "S_TRANSFER"}
  BY <1>1, <1>2, <1>4 DEF Outside, fifo_read_en
<1>5. CASE ~m_wait(tready) /\ strm_state = "S_PREFETCH"
  <2>1. fifo # << >> /\ ~tvalid
    BY <1>5, RowWaits DEF StreamFollows
  <2>2. StrmNext = "S_TRANSFER" /\ fifo_read_en(tready)
    BY <1>5, <2>1 DEF StrmNext, fifo_read_en
  <2> QED
    BY <1>1, <1>2, <1>5, <2>1, <2>2 DEF Fetches
<1>6. CASE ~m_wait(tready) /\ strm_state = "S_TRANSFER" /\ ~RowEnd(q)
  <2>1. fifo # << >>
    BY <1>6, RowWaits
  <2>2. "EOF" \notin q.sync /\ "EOL" \notin q.sync
    BY <1>6 DEF RowEnd
  <2>3. StrmNext = "S_TRANSFER" /\ fifo_read_en(tready)
    BY <1>6, <2>1, <2>2 DEF StrmNext, fifo_read_en
  <2> QED
    BY <1>1, <1>2, <1>6, <2>3 DEF Passes
<1>7. CASE ~m_wait(tready) /\ strm_state = "S_TRANSFER" /\ RowEnd(q)
  <2>1. "EOF" \in q.sync \/ "EOL" \in q.sync
    BY <1>7 DEF RowEnd
  <2>2. StrmNext = IF "EOF" \in q.sync THEN "S_EOF" ELSE "S_EOL"
    BY <1>7, <2>1 DEF StrmNext
  <2>3. ~fifo_read_en(tready)
    BY <1>7 DEF fifo_read_en
  <2> QED
    BY <1>1, <1>2, <1>7, <2>2, <2>3 DEF EndsRow
<1> QED
  BY <1>3, <1>4, <1>5, <1>6, <1>7

\* stream_pace_cntr, of two bits, never wraps.
LEMMA PaceMoves ==
  ASSUME Types, StreamFollows, RowsInFifo, NEW tready \in BOOLEAN, StreamStep(tready)
  PROVE  pace' = pace + One(transfer_done) - One(decr_pace(tready))
<1>1. pace \in 0 .. 3 /\ pace' = PaceNext(tready)
  BY DEF Types, StreamStep
<1>2. transfer_done => state # "S_SOF" /\ pace < 3
  BY DEF transfer_done, RowsInFifo, InRow, Packing
<1>3. decr_pace(tready) => strm_state = "S_TRANSFER" /\ pace > 0
  BY DEF decr_pace, StreamFollows
<1>4. /\ \A n \in 0 .. 3 : n < 3 => (n + 1) % 4 = n + 1
      /\ \A n \in 0 .. 3 : n > 0 => (n - 1) % 4 = n - 1
  OBVIOUS
<1>5. CASE state = "S_SOF"
  <2>1. strm_state = "S_IDLE" /\ fifo = << >>
    BY <1>5 DEF StreamFollows
  <2>2. ~transfer_done /\ ~decr_pace(tready)
    BY <1>2, <1>3, <1>5, <2>1
  <2>3. ~RowPacked /\ pace' = 0
    BY <1>1, <1>5 DEF RowPacked, Packing, PaceNext
  <2>4. Cardinality(Ends(<< >>)) = 0
    BY FS_EmptySet DEF Ends
  <2>5. pace + 0 = 0 + 0
    BY <2>1, <2>3, <2>4 DEF RowsInFifo, One
  <2> QED
    BY <1>1, <2>2, <2>3, <2>5 DEF One
<1>6. CASE state # "S_SOF"
  <2>1. pace' = IF transfer_done /\ ~decr_pace(tready) THEN (pace + 1) % 4
                ELSE IF ~transfer_done /\ decr_pace(tready) THEN (pace - 1) % 4 ELSE pace
    BY <1>1, <1>6 DEF PaceNext, incr_pace
  <2> QED
    BY <1>1, <1>2, <1>3, <1>4, <2>1 DEF One
<1> QED
  BY <1>5, <1>6

\* Neither FSM of the streamer leaves its frame without the other.
LEMMA StreamFollowsClock ==
  ASSUME Types, RowCounters, StreamFollows, RowsInFifo, EofIsLast, RowStep,
         NEW tready \in BOOLEAN, StreamStep(tready)
  PROVE  StreamFollows'
<1>1. \/ Stalls(tready) \/ Outside(tready) \/ Fetches(tready)
      \/ Passes(tready) \/ EndsRow(tready)
  BY StreamMoves
<1>2. /\ read_data_valid' <=> strm_state' = "S_TRANSFER"
      /\ tvalid' => strm_state' \in {"S_TRANSFER", "S_EOL", "S_EOF"}
  <2>1. CASE Stalls(tready)
    BY <2>1 DEF Stalls, StreamFollows
  <2>2. CASE Outside(tready)
    BY <2>2 DEF Outside, StrmNext, Types
  <2>3. CASE Fetches(tready) \/ Passes(tready) \/ EndsRow(tready)
    BY <2>3 DEF Fetches, Passes, EndsRow
  <2> QED
    BY <1>1, <2>1, <2>2, <2>3
<1>3. /\ state \in {"S_IDLE", "S_DONE"} => state' \in {"S_IDLE", "S_SOF"}
      /\ state = "S_SOF" => state' = "S_WAIT_SOL"
      /\ state = "S_WAIT_STREAMER_DONE" =>
           state' = IF strm_state = "S_DONE" THEN "S_DONE" ELSE state
      /\ state \notin {"S_IDLE", "S_SOF", "S_DONE", "S_WAIT_STREAMER_DONE"} =>
           state' \notin {"S_IDLE", "S_SOF", "S_DONE"}
  BY DEF RowStep, StateNext, Types
<1>4. /\ strm_state = "S_IDLE" <=> state \in {"S_IDLE", "S_SOF", "S_DONE"}
      /\ strm_state \in {"S_EOF", "S_DONE"} => state = "S_WAIT_STREAMER_DONE"
  BY DEF StreamFollows
<1>8. /\ strm_state' = "S_IDLE" <=> state' \in {"S_IDLE", "S_SOF", "S_DONE"}
      /\ strm_state' \in {"S_EOF", "S_DONE"} => state' = "S_WAIT_STREAMER_DONE"
  <2>5. CASE strm_state = "S_IDLE"
    <3>1. Outside(tready)
      BY <1>1, <2>5 DEF Stalls, Fetches, Passes, EndsRow, StreamFollows, m_wait
    <3>2. strm_state' = IF state = "S_SOF" THEN "S_WAIT_ROW" ELSE "S_IDLE"
      BY <2>5, <3>1 DEF Outside, StrmNext
    <3> QED
      BY <1>3, <1>4, <2>5, <3>2
  <2>6. CASE strm_state = "S_DONE"
    <3>1. Outside(tready)
      BY <1>1, <2>6 DEF Stalls, Fetches, Passes, EndsRow, StreamFollows, m_wait
    <3>2. strm_state' = "S_IDLE"
      BY <2>6, <3>1 DEF Outside, StrmNext
    <3> QED
      BY <1>3, <1>4, <2>6, <3>2
  <2>7. CASE strm_state \notin {"S_IDLE", "S_DONE"}
    <3>1. state' \notin {"S_IDLE", "S_SOF", "S_DONE"}
      BY <1>3, <1>4, <2>7
    <3>2. strm_state' # "S_IDLE"
      BY <1>1, <2>7 DEF Stalls, Outside, Fetches, Passes, EndsRow, StrmNext, Types
    <3>3. strm_state' = "S_DONE" => strm_state = "S_EOF"
      BY <1>1, <2>7 DEF Stalls, Outside, Fetches, Passes, EndsRow, StrmNext, Types
    <3>4. strm_state' = "S_EOF" =>
            strm_state = "S_EOF" \/ (strm_state = "S_TRANSFER" /\ "EOF" \in q.sync)
      BY <1>1, <2>7 DEF Stalls, Outside, Fetches, Passes, EndsRow, StrmNext, Types
    <3>5. strm_state' \in {"S_EOF", "S_DONE"} => state = "S_WAIT_STREAMER_DONE"
      BY <1>4, <3>3, <3>4, EofWaits
    <3> QED
      BY <1>3, <2>7, <3>1, <3>2, <3>5
  <2> QED
    BY <2>5, <2>6, <2>7
<1>9. strm_state' \in {"S_IDLE", "S_EOF", "S_DONE"} => fifo' = << >>
  <2>1. strm_state' \in {"S_IDLE", "S_EOF", "S_DONE"} => fifo = << >> /\ state # "S_DATA_PHASE"
    <3>1. strm_state' = "S_IDLE" => strm_state \in {"S_IDLE", "S_DONE"}
      BY <1>1 DEF Stalls, Outside, Fetches, Passes, EndsRow, StrmNext, Types
    <3>2. strm_state' = "S_DONE" => strm_state \in {"S_EOF", "S_DONE"}
      BY <1>1 DEF Stalls, Outside, Fetches, Passes, EndsRow, StrmNext, Types
    <3>3. strm_state' = "S_EOF" =>
            strm_state = "S_EOF" \/ (strm_state = "S_TRANSFER" /\ "EOF" \in q.sync)
      BY <1>1 DEF Stalls, Outside, Fetches, Passes, EndsRow, StrmNext, Types
    <3>4. strm_state \in {"S_IDLE", "S_EOF", "S_DONE"} => fifo = << >>
      BY DEF StreamFollows
    <3> QED
      BY <1>4, <3>1, <3>2, <3>3, <3>4, EofWaits
  <2>2. fifo = << >> /\ state # "S_DATA_PHASE" => fifo' = << >>
    BY DEF StreamStep, FifoStep, fifo_read_en, fifo_write_en, packer_rdy
  <2> QED
    BY <2>1, <2>2
<1>10. strm_state' \in {"S_PREFETCH", "S_TRANSFER"} => pace' > 0
  <2>1. strm_state' \in {"S_PREFETCH", "S_TRANSFER"} =>
          ~decr_pace(tready) /\
          (strm_state \in {"S_PREFETCH", "S_TRANSFER"} \/ pace > 0)
    BY <1>1 DEF Stalls, Outside, Fetches, Passes, EndsRow, StrmNext, Types, decr_pace
  <2>2. strm_state' \in {"S_PREFETCH", "S_TRANSFER"} => ~decr_pace(tready) /\ pace > 0
    BY <2>1 DEF StreamFollows
  <2>3. pace' = pace + One(transfer_done) - One(decr_pace(tready)) /\ pace \in 0 .. 3
    BY PaceMoves DEF Types
  <2> QED
    BY <2>2, <2>3 DEF One
<1> QED
  BY <1>2, <1>8, <1>9, <1>10 DEF StreamFollows

\* The word in q after a clock of a row: the head of the FIFO, or the same one.
LEMMA QMoves ==
  ASSUME Types, StreamFollows, RowsInFifo, fifo_write_data \in Words,
         NEW tready \in BOOLEAN, StreamStep(tready)
  PROVE  /\ strm_state' = "S_TRANSFER" =>
              \/ fifo_read_en(tready) /\ q' = fifo[1] /\ strm_state \in {"S_PREFETCH", "S_TRANSFER"}
              \/ ~fifo_read_en(tready) /\ q' = q /\ strm_state = "S_TRANSFER"
         /\ One(strm_state' = "S_TRANSFER" /\ RowEnd(q')) =
              One(strm_state = "S_TRANSFER" /\ RowEnd(q)) - One(decr_pace(tready))
                + One(fifo_read_en(tready) /\ RowEnd(fifo[1]))
<1>1. \/ Stalls(tready) \/ Outside(tready) \/ Fetches(tready)
      \/ Passes(tready) \/ EndsRow(tready)
  BY StreamMoves
<1>2. /\ fifo_read_en(tready) => q' = fifo[1]
      /\ ~fifo_read_en(tready) => q' = q
  BY FifoMoves DEF Types, StreamStep
<1>3. CASE Stalls(tready)
  <2>1. ~fifo_read_en(tready) /\ q' = q /\ strm_state' = strm_state /\ ~decr_pace(tready)
    BY <1>2, <1>3 DEF Stalls, decr_pace
  <2> QED
    BY <2>1 DEF One
<1>4. CASE Outside(tready)
  <2>1. /\ ~fifo_read_en(tready) /\ strm_state # "S_TRANSFER" /\ strm_state' # "S_TRANSFER"
        /\ ~decr_pace(tready)
    BY <1>4 DEF Outside, StrmNext, Types, decr_pace
  <2> QED
    BY <2>1 DEF One
<1>5. CASE Fetches(tready)
  <2>1. /\ fifo_read_en(tready) /\ strm_state = "S_PREFETCH" /\ strm_state' = "S_TRANSFER"
        /\ ~decr_pace(tready) /\ q' = fifo[1]
    BY <1>2, <1>5 DEF Fetches, decr_pace
  <2> QED
    BY <2>1 DEF One
<1>6. CASE Passes(tready)
  <2>1. /\ fifo_read_en(tready) /\ strm_state = "S_TRANSFER" /\ strm_state' = "S_TRANSFER"
        /\ ~decr_pace(tready) /\ q' = fifo[1] /\ ~RowEnd(q)
    BY <1>2, <1>6 DEF Passes, decr_pace
  <2> QED
    BY <2>1 DEF One
<1>7. CASE EndsRow(tready)
  <2>1. /\ ~fifo_read_en(tready) /\ strm_state = "S_TRANSFER" /\ strm_state' # "S_TRANSFER"
        /\ decr_pace(tready) /\ RowEnd(q)
    BY <1>7 DEF EndsRow, decr_pace
  <2> QED
    BY <2>1 DEF One
<1> QED
  BY <1>1, <1>3, <1>4, <1>5, <1>6, <1>7

LEMMA RowsInFifoClock ==
  ASSUME Types, RowCounters, RowsCounted, MarkerReady, StreamFollows, RowsInFifo,
         RowStep, PackerStep, fifo_write_data \in Words, NEW tready \in BOOLEAN, StreamStep(tready)
  PROVE  RowsInFifo'
<1> DEFINE D == One(decr_pace(tready))
           T == One(transfer_done)
           R == One(fifo_read_en(tready) /\ RowEnd(fifo[1]))
           W == One(fifo_write_en /\ RowEnd(fifo_write_data))
<1>1. pace' = pace + T - D /\ pace \in 0 .. 3
  BY PaceMoves DEF Types
<1>2. One(RowPacked') = One(RowPacked) - T + W
  <2>1. fifo_write_en => (RowEnd(fifo_write_data) <=> pixel_cntr = cur.x_stop)
    BY WordWritten
  <2>2. /\ transfer_done => RowPacked /\ ~RowPacked'
        /\ fifo_write_en => ~RowPacked
        /\ ~transfer_done =>
             (RowPacked' <=> RowPacked \/ (fifo_write_en /\ RowEnd(fifo_write_data)))
    BY <2>1, PackMoves
  <2>3. CASE transfer_done
    BY <2>2, <2>3 DEF One
  <2>4. CASE ~transfer_done
    BY <2>2, <2>4 DEF One
  <2> QED
    BY <2>3, <2>4
<1>3. /\ Cardinality(Ends(fifo)) \in Nat
      /\ Cardinality(Ends(fifo')) = Cardinality(Ends(fifo)) - R + W
  BY FifoMoves DEF Types, StreamStep
<1>4. One(strm_state' = "S_TRANSFER" /\ RowEnd(q')) =
        One(strm_state = "S_TRANSFER" /\ RowEnd(q)) - D + R
  BY QMoves
<1>5. pace + One(RowPacked) =
        Cardinality(Ends(fifo)) + One(strm_state = "S_TRANSFER" /\ RowEnd(q))
  BY DEF RowsInFifo
<1>6. \A b \in BOOLEAN : One(b) \in {0, 1}
  BY DEF One
<1>7. /\ T \in {0, 1} /\ D \in {0, 1} /\ R \in {0, 1} /\ W \in {0, 1}
      /\ One(RowPacked) \in {0, 1} /\ One(strm_state = "S_TRANSFER" /\ RowEnd(q)) \in {0, 1}
  BY <1>6 DEF One
<1>8. pace' + One(RowPacked') =
        Cardinality(Ends(fifo')) + One(strm_state' = "S_TRANSFER" /\ RowEnd(q'))
  <2> HIDE DEF T, D, R, W
  <2> QED
    BY <1>1, <1>2, <1>3, <1>4, <1>5, <1>7
<1>9. InRow' => pace' < 3
  <2>1. InRow' => ~transfer_done /\ (InRow \/ (state = "S_WAIT_SOL" /\ RowAvailable))
    <3>1. state' = StateNext
      BY DEF RowStep
    <3> QED
      BY <3>1 DEF InRow, Packing, transfer_done, StateNext, Types
  <2>2. InRow' => ~transfer_done /\ pace < 3
    BY <2>1 DEF RowsInFifo, RowAvailable
  <2>3. ~transfer_done => T = 0
    BY DEF One
  <2>4. T \in {0, 1} /\ D \in {0, 1}
    BY <1>7
  <2> HIDE DEF T, D
  <2>5. T = 0 => pace' <= pace
    BY <1>1, <2>4
  <2>6. pace' \in Int /\ pace \in Int
    BY <1>1, <2>4
  <2> QED
    BY <2>2, <2>3, <2>5, <2>6
<1> QED
  BY <1>8, <1>9 DEF RowsInFifo

\* EOF stays the last word to be packed, up to the stream FSM.
LEMMA EofIsLastClock ==
  ASSUME Types, RowCounters, RowsCounted, MarkerReady, StreamFollows, RowsInFifo, EofIsLast,
         RowStep, PackerStep, fifo_write_data \in Words, NEW tready \in BOOLEAN, StreamStep(tready)
  PROVE  EofIsLast'
<1> DEFINE r == One(fifo_read_en(tready))
           w == One(fifo_write_en)
<1>1. /\ Len(fifo) \in Nat /\ (fifo = << >> <=> Len(fifo) = 0)
      /\ Len(fifo') \in Nat /\ (fifo' = << >> <=> Len(fifo') = 0)
      /\ fifo_read_en(tready) => Len(fifo) > 0
      /\ Len(fifo') = Len(fifo) - r + w
      /\ \A i \in 1 .. Len(fifo) - r : fifo'[i] = fifo[i + r]
      /\ fifo_write_en => fifo'[Len(fifo')] = fifo_write_data
  BY FifoMoves DEF Types, StreamStep
<1>2. /\ fifo_read_en(tready) => r = 1
      /\ ~fifo_read_en(tready) => r = 0
      /\ fifo_write_en => w = 1
      /\ ~fifo_write_en => w = 0
  BY DEF One
<1> HIDE DEF r, w
<1>3. fifo_write_en => ~LastPacked
  BY PackMoves DEF LastPacked, fifo_write_en, packer_rdy
<1>4. LastPacked /\ strm_state # "S_DONE" => LastPacked'
  <2>1. CASE state \in {"S_EOF", "S_WAIT_STREAMER_DONE"} /\ strm_state # "S_DONE"
    BY <2>1 DEF LastPacked, RowStep, StateNext
  <2>2. CASE state = "S_LAST_DATA" /\ last_row
    BY <2>2 DEF LastPacked, RowStep, StateNext
  <2>3. CASE state = "S_DATA_PHASE" /\ last_row /\ RowPacked
    <3>1. RowPacked' /\ last_row' /\ state' \in {"S_DATA_PHASE", "S_LAST_DATA"}
      BY <2>3, PackMoves DEF RowStep, StateNext, LastRowNext, transfer_done
    <3> QED
      BY <3>1 DEF LastPacked
  <2> QED
    BY <2>1, <2>2, <2>3 DEF LastPacked
<1>5. fifo_write_en /\ "EOF" \in fifo_write_data.sync => LastPacked'
  <2>1. SUFFICES ASSUME fifo_write_en, "EOF" \in fifo_write_data.sync PROVE LastPacked'
    OBVIOUS
  <2>2. state = "S_DATA_PHASE" /\ pixel_cntr = cur.x_stop /\ last_row
    BY <2>1, WordWritten
  <2>3. RowPacked' /\ last_row' /\ state' \in {"S_DATA_PHASE", "S_LAST_DATA"}
    BY <2>1, <2>2, PackMoves DEF RowStep, StateNext, LastRowNext, transfer_done
  <2> QED
    BY <2>3 DEF LastPacked
<1>6. /\ \A i \in 1 .. Len(fifo) : "EOF" \in fifo[i].sync => i = Len(fifo) /\ LastPacked
      /\ strm_state = "S_TRANSFER" /\ "EOF" \in q.sync => fifo = << >> /\ LastPacked
  BY DEF EofIsLast
<1>7. strm_state = "S_DONE" => Len(fifo) = 0
  BY <1>1 DEF StreamFollows
<1>8. ASSUME NEW i \in 1 .. Len(fifo'), "EOF" \in fifo'[i].sync
      PROVE  i = Len(fifo') /\ LastPacked'
  <2>1. CASE i \in 1 .. Len(fifo) - r
    <3>1. i + r \in 1 .. Len(fifo) /\ "EOF" \in fifo[i + r].sync
      BY <1>1, <1>2, <1>8, <2>1
    <3>2. i + r = Len(fifo) /\ LastPacked
      BY <1>6, <3>1
    <3>3. ~fifo_write_en /\ strm_state # "S_DONE"
      BY <1>3, <1>7, <3>1, <3>2
    <3> QED
      BY <1>1, <1>2, <1>4, <3>2, <3>3
  <2>2. CASE i \notin 1 .. Len(fifo) - r
    <3>1. fifo_write_en /\ i = Len(fifo')
      BY <1>1, <1>2, <2>2
    <3> QED
      BY <1>1, <1>5, <1>8, <3>1
  <2> QED
    BY <2>1, <2>2
<1>9. ASSUME strm_state' = "S_TRANSFER", "EOF" \in q'.sync
      PROVE  fifo' = << >> /\ LastPacked'
  <2>1. CASE fifo_read_en(tready) /\ q' = fifo[1] /\ strm_state \in {"S_PREFETCH", "S_TRANSFER"}
    <3>a. 1 \in 1 .. Len(fifo)
      BY <1>1, <2>1
    <3>1. 1 = Len(fifo) /\ LastPacked
      BY <1>6, <1>9, <2>1, <3>a
    <3>2. ~fifo_write_en /\ strm_state # "S_DONE"
      BY <1>3, <2>1, <3>1
    <3> QED
      BY <1>1, <1>2, <1>4, <2>1, <3>1, <3>2
  <2>2. CASE ~fifo_read_en(tready) /\ q' = q /\ strm_state = "S_TRANSFER"
    <3>1. Len(fifo) = 0 /\ LastPacked
      BY <1>1, <1>6, <1>9, <2>2
    <3>2. ~fifo_write_en /\ strm_state # "S_DONE"
      BY <1>3, <2>2, <3>1
    <3> QED
      BY <1>1, <1>2, <1>4, <2>2, <3>1, <3>2
  <2> QED
    BY <1>9, <2>1, <2>2, QMoves
<1> QED
  BY <1>8, <1>9 DEF EofIsLast

\* The head's place in the row after a clock.
LEMMA NextXFacts ==
  ASSUME Types, NEW x \in cur.x_start .. cur.x_stop
  PROVE  /\ x \in Nat /\ NextX(x) \in cur.x_start .. cur.x_stop
         /\ NextX(x) = x + 1 - Width * One(x = cur.x_stop)
<1>1. x \in Nat /\ cur.x_start <= x /\ x <= cur.x_stop
  BY CurFacts
<1>2. CASE x = cur.x_stop
  <2>1. NextX(x) = cur.x_start /\ One(x = cur.x_stop) = 1
    BY <1>2, CurFacts DEF NextX, One
  <2>2. x + 1 - Width * 1 = cur.x_start
    BY <1>2, CurFacts DEF Width
  <2> QED
    BY <1>1, <2>1, <2>2, CurFacts
<1>3. CASE x # cur.x_stop
  <2>1. NextX(x) = x + 1 /\ One(x = cur.x_stop) = 0
    BY <1>1, <1>3, CurFacts DEF NextX, One
  <2>2. Width * 0 = 0
    BY CurFacts DEF Width
  <2> QED
    BY <1>1, <1>3, <2>1, <2>2, CurFacts
<1> QED
  BY <1>2, <1>3

LEMMA PackXFacts ==
  ASSUME Types
  PROVE  PackX \in cur.x_start .. cur.x_stop
  BY CurFacts DEF PackX

\* The words of the FIFO keep their order; its length stays that of its rows.
LEMMA WordsInOrderClock ==
  ASSUME Types, RowCounters, RowsCounted, MarkerReady, StreamFollows, WordsInOrder,
         RowStep, PackerStep, fifo_write_data \in Words, NEW tready \in BOOLEAN,
         StreamStep(tready), state # "S_SOF"
  PROVE  WordsInOrder'
<1> DEFINE r == One(fifo_read_en(tready))
           w == One(fifo_write_en)
           er == One(fifo_read_en(tready) /\ RowEnd(fifo[1]))
           ew == One(fifo_write_en /\ RowEnd(fifo_write_data))
           c == Cardinality(Ends(fifo))
           n == Len(fifo)
<1>1. /\ n \in Nat /\ (fifo = << >> <=> n = 0)
      /\ Len(fifo') \in Nat /\ (fifo' = << >> <=> Len(fifo') = 0)
      /\ fifo_read_en(tready) => n > 0
      /\ Len(fifo') = n - r + w
      /\ \A i \in 1 .. n - r : fifo'[i] = fifo[i + r]
      /\ fifo_write_en => fifo'[Len(fifo')] = fifo_write_data
      /\ c \in Nat /\ Cardinality(Ends(fifo')) = c - er + ew
  BY FifoMoves DEF Types, StreamStep
<1>2. /\ fifo_read_en(tready) => r = 1
      /\ ~fifo_read_en(tready) => r = 0
      /\ fifo_write_en => w = 1
      /\ ~fifo_write_en => w = 0
  BY DEF One
<1> HIDE DEF r, w, n
<1>3. /\ cur' = cur
      /\ PackX' = IF fifo_write_en THEN NextX(PackX) ELSE PackX
  BY PackMoves
<1>4. \A x : NextX(x)' = NextX(x')
  BY <1>3 DEF NextX
<1>5. PackX \in cur.x_start .. cur.x_stop
  BY PackXFacts
<1>6. fifo_write_en => /\ fifo_write_data.x = PackX
                       /\ RowEnd(fifo_write_data) <=> PackX = cur.x_stop
  BY WordWritten
<1>7. \A i \in 1 .. n :
         /\ fifo[i].x \in cur.x_start .. cur.x_stop
         /\ RowEnd(fifo[i]) <=> fifo[i].x = cur.x_stop
         /\ NextX(fifo[i].x) = IF i = n THEN PackX ELSE fifo[i + 1].x
  BY DEF WordsInOrder, n
<1>8. ASSUME NEW i \in 1 .. Len(fifo')
      PROVE  /\ fifo'[i].x \in cur.x_start .. cur.x_stop
             /\ RowEnd(fifo'[i]) <=> fifo'[i].x = cur.x_stop
             /\ NextX(fifo'[i].x) = IF i = Len(fifo') THEN PackX' ELSE fifo'[i + 1].x
  <2>1. CASE i \in 1 .. n - r
    <3>1. i + r \in 1 .. n /\ fifo'[i] = fifo[i + r]
      BY <1>1, <1>2, <2>1
    <3>2. CASE i + r = n /\ fifo_write_en
      <4>1. i # Len(fifo') /\ i + 1 = Len(fifo')
        BY <1>1, <1>2, <3>2
      <4> QED
        BY <1>1, <1>6, <1>7, <3>1, <3>2, <4>1
    <3>3. CASE i + r = n /\ ~fifo_write_en
      <4>1. i = Len(fifo')
        BY <1>1, <1>2, <3>3
      <4> QED
        BY <1>3, <1>7, <3>1, <3>3, <4>1
    <3>4. CASE i + r # n
      <4>1. i + 1 \in 1 .. n - r /\ (i + 1) + r = (i + r) + 1 /\ i # Len(fifo')
        BY <1>1, <1>2, <2>1, <3>1, <3>4
      <4>2. fifo'[i + 1] = fifo[(i + r) + 1]
        BY <1>1, <4>1
      <4> QED
        BY <1>7, <3>1, <3>4, <4>1, <4>2
    <3> QED
      BY <3>2, <3>3, <3>4
  <2>2. CASE i \notin 1 .. n - r
    <3>1. fifo_write_en /\ i = Len(fifo')
      BY <1>1, <1>2, <2>2
    <3> QED
      BY <1>1, <1>3, <1>5, <1>6, <3>1
  <2> QED
    BY <2>1, <2>2
<1>9. fifo_read_en(tready) => HeadX = fifo[1].x /\ 1 \in 1 .. n
  BY <1>1 DEF HeadX
<1>10. HeadX' = IF fifo_read_en(tready) THEN NextX(HeadX) ELSE HeadX
  <2>1. HeadX' = IF Len(fifo') = 0 THEN PackX' ELSE fifo'[1].x
    BY <1>1 DEF HeadX
  <2>2. CASE fifo_read_en(tready)
    <3>1. NextX(HeadX) = IF 1 = n THEN PackX ELSE fifo[1 + 1].x
      BY <1>7, <1>9, <2>2
    <3>2. CASE n = 1 /\ fifo_write_en
      BY <1>1, <1>2, <1>6, <2>1, <2>2, <3>1, <3>2
    <3>3. CASE n = 1 /\ ~fifo_write_en
      BY <1>1, <1>2, <1>3, <2>1, <2>2, <3>1, <3>3
    <3>4. CASE n > 1
      BY <1>1, <1>2, <2>1, <2>2, <3>1, <3>4
    <3> QED
      BY <1>1, <2>2, <3>2, <3>3, <3>4
  <2>3. CASE ~fifo_read_en(tready) /\ n > 0
    <3>1. HeadX = fifo[1].x
      BY <1>1, <2>3 DEF HeadX
    <3> QED
      BY <1>1, <1>2, <2>1, <2>3, <3>1
  <2>4. CASE ~fifo_read_en(tready) /\ n = 0
    <3>1. HeadX = PackX
      BY <1>1, <2>4 DEF HeadX
    <3> QED
      BY <1>1, <1>2, <1>3, <1>6, <2>1, <2>4, <3>1
  <2> QED
    BY <1>1, <2>2, <2>3, <2>4
<1>11. HeadX \in cur.x_start .. cur.x_stop
  BY <1>1, <1>5, <1>7 DEF HeadX
<1>12. /\ fifo_read_en(tready) => (RowEnd(fifo[1]) <=> HeadX = cur.x_stop)
  BY <1>7, <1>9
<1>13. HeadX' = HeadX + r - Width * er
  <2>1. CASE fifo_read_en(tready)
    <3>1. NextX(HeadX) = HeadX + 1 - Width * One(HeadX = cur.x_stop)
      BY <1>11, NextXFacts
    <3>2. er = One(HeadX = cur.x_stop) /\ r = 1
      BY <1>2, <1>12, <2>1 DEF One
    <3> QED
      BY <1>10, <2>1, <3>1, <3>2
  <2>2. CASE ~fifo_read_en(tready)
    <3>1. er = 0 /\ r = 0 /\ HeadX' = HeadX
      BY <1>2, <1>10, <2>2 DEF One
    <3>2. HeadX \in Int /\ Width * 0 = 0
      BY <1>11, CurFacts DEF Width
    <3> QED
      BY <3>1, <3>2
  <2> QED
    BY <2>1, <2>2
<1>14. PackX' = PackX + w - Width * ew
  <2>1. CASE fifo_write_en
    <3>1. NextX(PackX) = PackX + 1 - Width * One(PackX = cur.x_stop)
      BY <1>5, NextXFacts
    <3>2. ew = One(PackX = cur.x_stop) /\ w = 1
      BY <1>2, <1>6, <2>1 DEF One
    <3> QED
      BY <1>3, <2>1, <3>1, <3>2
  <2>2. CASE ~fifo_write_en
    <3>1. ew = 0 /\ w = 0 /\ PackX' = PackX
      BY <1>2, <1>3, <2>2 DEF One
    <3>2. PackX \in Int /\ Width * 0 = 0
      BY <1>5, CurFacts DEF Width
    <3> QED
      BY <3>1, <3>2
  <2> QED
    BY <2>1, <2>2
<1>15. Len(fifo') = Width' * Cardinality(Ends(fifo')) + (PackX' - HeadX')
  <2>1. n = Width * c + (PackX - HeadX)
    BY DEF WordsInOrder, n
  <2>2. Width' = Width /\ Width \in Int
    BY <1>3, CurFacts DEF Width
  <2>3. PackX \in Int /\ HeadX \in Int
    BY <1>5, <1>11, CurFacts
  <2>4. er \in {0, 1} /\ ew \in {0, 1} /\ r \in {0, 1} /\ w \in {0, 1}
    BY <1>2 DEF One
  <2> HIDE DEF er, ew, c
  <2> DEFINE W == Width
             P == PackX
             H == HeadX
  <2>5. Width * (c - er + ew) = Width * c - Width * er + Width * ew
    <3> HIDE DEF W
    <3>1. W * (c - er + ew) = W * c - W * er + W * ew
      BY <1>1, <2>2, <2>4 DEF W
    <3> QED
      BY <3>1 DEF W
  <2> QED
    BY <1>1, <1>13, <1>14, <2>1, <2>2, <2>3, <2>4, <2>5
<1> QED
  BY <1>3, <1>8, <1>15 DEF WordsInOrder, NextX

LEMMA EmptyInOrder ==
  Types /\ fifo = << >> => WordsInOrder
<1> SUFFICES ASSUME Types, fifo = << >> PROVE WordsInOrder
  OBVIOUS
<1>1. Len(fifo) = 0 /\ Cardinality(Ends(fifo)) = 0
  <2>1. Cardinality(Ends(<< >>)) = 0
    BY FS_EmptySet DEF Ends
  <2> QED
    BY <2>1
<1>2. HeadX = PackX /\ PackX \in Int /\ Width \in Int
  <2>1. HeadX = PackX
    BY DEF HeadX
  <2>2. /\ PackX \in cur.x_start .. cur.x_stop
        /\ cur.x_start \in Nat /\ cur.x_stop \in Nat
    BY PackXFacts, CurFacts
  <2> QED
    BY <2>1, <2>2 DEF Width
<1>3. Width * 0 + (PackX - HeadX) = 0
  BY <1>2
<1> QED
  BY <1>1, <1>3 DEF WordsInOrder

LEMMA ControlClock ==
  ASSUME Control, NEW tready \in BOOLEAN, NEW ready \in BOOLEAN, NEW pulses,
         Clock(tready, ready, pulses)
  PROVE  Control'
<1>1. /\ Types /\ SameFrame /\ RowCounters /\ RowsCounted /\ MarkerReady
      /\ StreamFollows /\ RowsInFifo /\ EofIsLast /\ WordsInOrder
  BY DEF Control
<1>2. RowStep /\ PackerStep /\ write_sync' = SyncNext /\ StreamStep(tready)
  BY DEF Clock
<1>3. fifo_write_data \in Words
  BY <1>1, <1>2, StreamerAssumption, WordTypes
<1>4. Types'
  BY <1>1, ClockTypes
<1>5. WordsInOrder'
  <2>1. CASE state = "S_SOF"
    <3>1. fifo = << >>
      BY <1>1, <2>1 DEF StreamFollows
    <3>2. fifo' = << >>
      BY <1>2, <2>1, <3>1 DEF StreamStep, FifoStep, fifo_read_en, fifo_write_en, packer_rdy
    <3>3. (Types /\ fifo = << >> => WordsInOrder)'
      BY EmptyInOrder, PTL
    <3> QED
      BY <1>4, <3>2, <3>3
  <2>2. CASE state # "S_SOF"
    BY <1>1, <1>2, <1>3, <2>2, WordsInOrderClock
  <2> QED
    BY <2>1, <2>2
<1>6. SameFrame'
  BY <1>1, SameFrameClock
<1>7. RowCounters' /\ RowsCounted' /\ MarkerReady'
  BY <1>1, <1>2, RowCountersClock, RowsCountedClock, MarkerClock
<1>8. StreamFollows'
  BY <1>1, <1>2, StreamFollowsClock
<1>9. RowsInFifo' /\ EofIsLast'
  BY <1>1, <1>2, <1>3, RowsInFifoClock, EofIsLastClock
<1> QED
  BY <1>4, <1>5, <1>6, <1>7, <1>8, <1>9 DEF Control

-----------------------------------------------------------------------------
(* The other actions: control. *)

\* A reset leaves nothing of a frame.
LEMMA ResetControl ==
  Types /\ ResetHispi /\ ResetPacker /\ ResetOutput /\ ~clean => Control
<1> SUFFICES ASSUME Types, ResetHispi, ResetPacker, ResetOutput, ~clean
             PROVE  Control
  OBVIOUS
<1>1. SameFrame /\ RowCounters /\ MarkerReady
  BY DEF ResetHispi, ResetPacker, SameFrame, RowCounters, MarkerReady
<1>2. RowsCounted
  BY CurFacts DEF ResetPacker, RowsCounted
<1>3. StreamFollows
  BY DEF ResetPacker, ResetOutput, StreamFollows
<1>4. RowsInFifo
  <2>1. Cardinality(Ends(<< >>)) = 0
    BY FS_EmptySet DEF Ends
  <2>2. pace = 0 /\ ~RowPacked /\ fifo = << >> /\ strm_state # "S_TRANSFER" /\ ~InRow
    BY DEF ResetPacker, ResetOutput, RowPacked, Packing, InRow
  <2> QED
    BY <2>1, <2>2 DEF RowsInFifo, One
<1>5. EofIsLast
  <2>1. fifo = << >> /\ strm_state # "S_TRANSFER"
    BY DEF ResetOutput
  <2>2. \A i \in 1 .. Len(fifo) : FALSE
    BY <2>1
  <2> QED
    BY <2>1, <2>2 DEF EofIsLast
<1>6. WordsInOrder
  BY EmptyInOrder DEF ResetOutput
<1> QED
  BY <1>1, <1>2, <1>3, <1>4, <1>5, <1>6 DEF Control

\* The control invariants of the streamer look at its own registers only.
LEMMA StreamerUntouched ==
  ASSUME Control, UNCHANGED <<packVars, strmVars>>
  PROVE  /\ RowCounters' /\ RowsCounted' /\ MarkerReady' /\ StreamFollows'
         /\ RowsInFifo' /\ EofIsLast' /\ WordsInOrder'
<1>1. /\ RowCounters /\ RowsCounted /\ MarkerReady /\ StreamFollows
      /\ RowsInFifo /\ EofIsLast /\ WordsInOrder
  BY DEF Control
<1>2. RowCounters' /\ RowsCounted' /\ MarkerReady' /\ StreamFollows'
  BY <1>1 DEF packVars, strmVars, RowCounters, RowsCounted, MarkerReady, StreamFollows,
              LastRow, FirstMark, EndMark
<1>3. RowsInFifo' /\ EofIsLast'
  BY <1>1 DEF packVars, strmVars, RowsInFifo, EofIsLast, RowPacked, Packing, InRow,
              LastPacked, Ends, RowEnd
<1>4. WordsInOrder'
  BY <1>1 DEF packVars, strmVars, WordsInOrder, NextX, PackX, HeadX, Width, Ends, RowEnd
<1> QED
  BY <1>2, <1>3, <1>4

\* What a reset writes is of the type.
LEMMA ResetWords ==
  /\ NoLine \in Tags /\ NoWord \in Words
  /\ LaneReset \in [wptr : Buffers, rptr : Buffers, used : Buffers, rdy : BOOLEAN,
                    ram : [Buffers -> Tags]]
  /\ NoWordDue \in [roi : Rois, frame : {0, 1}, line : Nat, x : Nat]
<1>1. MaxLines \in Nat /\ DataClocks \in Nat
  BY StreamerAssumption
<1>2. NoLine \in Tags
  BY <1>1 DEF NoLine, Tags
<1>3. NoWord \in Words
  <2>1. NoWord = [tag |-> NoLine, x |-> 0, sync |-> {}]
    BY DEF NoWord
  <2>2. {} \in Marking /\ 0 \in 0 .. DataClocks
    BY <1>1 DEF Marking
  <2> QED
    BY <1>2, <2>1, <2>2 DEF Words
<1>4. LaneReset \in [wptr : Buffers, rptr : Buffers, used : Buffers, rdy : BOOLEAN,
                     ram : [Buffers -> Tags]]
  <2>1. 0 \in Buffers
    BY DEF Buffers
  <2>2. [b \in Buffers |-> NoLine] \in [Buffers -> Tags]
    BY <1>2
  <2> QED
    BY <2>1, <2>2 DEF LaneReset
<1>5. NoWordDue \in [roi : Rois, frame : {0, 1}, line : Nat, x : Nat]
  BY SomeRoiIn DEF NoWordDue
<1> QED
  BY <1>2, <1>3, <1>4, <1>5

\* The lanes ignore the rest of a frame.
LEMMA RestTypes ==
  ASSUME Types
  PROVE  RestIgnored \in [frame : {0, 1}, size : 0 .. MaxLines,
                          sent : [Lanes -> 0 .. MaxLines], late : Nat]
<1> DEFINE s == [i \in Lanes |-> sensor.size]
<1>1. sensor \in [frame : {0, 1}, size : 0 .. MaxLines, sent : [Lanes -> 0 .. MaxLines],
                  late : Nat]
  BY DEF Types
<1>2. s \in [Lanes -> 0 .. MaxLines]
  BY <1>1
<1>3. RestIgnored = [sensor EXCEPT !.sent = s]
  BY DEF RestIgnored
<1> HIDE DEF s
<1> QED
  BY <1>1, <1>2, <1>3

LEMMA SofTypes ==
  ASSUME Types, Sof
  PROVE  Types'
<1> DEFINE Lane == [wptr : Buffers, rptr : Buffers, used : Buffers, rdy : BOOLEAN,
                    ram : [Buffers -> Tags]]
<1>1. lane' \in [Lanes -> Lane]
  <2>1. \A i \in Lanes : lane[i] \in Lane
    BY DEF Types
  <2>2. 0 \in Buffers
    BY DEF Buffers
  <2>3. \A i \in Lanes : [lane[i] EXCEPT !.wptr = 0, !.rptr = 0, !.used = 0, !.rdy = FALSE]
                           \in Lane
    BY <2>1, <2>2
  <2>4. lane' = [i \in Lanes |-> [lane[i] EXCEPT !.wptr = 0, !.rptr = 0, !.used = 0,
                                                 !.rdy = FALSE]]
    BY DEF Sof
  <2> QED
    BY <2>3, <2>4
<1>2. /\ reg_roi \in Rois /\ reg_roi.y_size \in 0 .. MaxLines /\ reg_roi.x_start \in Nat
      /\ 0 \in 0 .. MaxLines
  <2>1. reg_roi \in Rois
    BY DEF Types
  <2>2. /\ reg_roi.x_start \in Nat /\ reg_roi.y_size \in Nat
        /\ reg_roi.y_size <= MaxLines /\ MaxLines \in Nat
    BY <2>1, RoiFacts
  <2> QED
    BY <2>1, <2>2
<1>3. sensor.frame \in {0, 1}
  BY DEF Types
<1>4. /\ sensor' \in [frame : {0, 1}, size : 0 .. MaxLines, sent : [Lanes -> 0 .. MaxLines],
                      late : Nat]
      /\ sensor'.frame \in {0, 1}
  <2> DEFINE f == 1 - sensor.frame
             n == LinesDecoded
             s == [i \in Lanes |-> 0]
             m == IF Drained THEN 0 ELSE sensor.late + 1
  <2>1. sensor' = [frame |-> f, size |-> n, sent |-> s, late |-> m]
    BY DEF Sof
  <2>2. f \in {0, 1} /\ n \in 0 .. MaxLines
    BY <1>2, <1>3, StreamerAssumption DEF LinesDecoded
  <2>3. s \in [Lanes -> 0 .. MaxLines]
    BY <1>2
  <2>4. m \in Nat
    BY DEF Types
  <2> HIDE DEF f, n, s, m
  <2> QED
    BY <2>1, <2>2, <2>3, <2>4
<1>5. sensor'.frame \in {0, 1}
  BY <1>4
<1>6. rx' \in [roi : Rois, frame : {0, 1}, line : Nat, x : Nat]
  <2> DEFINE x == reg_roi.x_start
             f == sensor'.frame
  <2>1. rx' = IF Drained THEN [roi |-> reg_roi, frame |-> f, line |-> 0, x |-> x]
              ELSE NoWordDue
    BY DEF Sof
  <2>2. x \in Nat /\ f \in {0, 1}
    BY <1>2, <1>5
  <2> HIDE DEF x, f
  <2>3. [roi |-> reg_roi, frame |-> f, line |-> 0, x |-> x]
          \in [roi : Rois, frame : {0, 1}, line : Nat, x : Nat]
    BY <1>2, <2>2
  <2> QED
    BY <2>1, <2>3, ResetWords
<1>7. /\ sof_pending' \in BOOLEAN /\ clean' \in BOOLEAN
      /\ UNCHANGED <<hispi_ctrl, hispi_state, calibration_pending, sclk_roi, reg_roi,
                     packVars, strmVars>>
  BY DEF Sof, Drained
<1> QED
  BY <1>1, <1>4, <1>6, <1>7 DEF Types, packVars, strmVars

LEMMA LineDoneTypes ==
  ASSUME Types, NEW i \in Lanes, LineDone(i)
  PROVE  Types'
<1> DEFINE Lane == [wptr : Buffers, rptr : Buffers, used : Buffers, rdy : BOOLEAN,
                    ram : [Buffers -> Tags]]
           l == lane[i]
           tag == [frame |-> sensor.frame, line |-> sensor.sent[i]]
           next == (l.wptr + 1) % 4
<1>1. /\ l \in Lane /\ sensor.sent[i] \in 0 .. MaxLines /\ sensor.frame \in {0, 1}
      /\ sensor.size \in 0 .. MaxLines /\ sensor.sent[i] < sensor.size
      /\ lane \in [Lanes -> Lane] /\ MaxLines \in Nat
      /\ sensor \in [frame : {0, 1}, size : 0 .. MaxLines, sent : [Lanes -> 0 .. MaxLines],
                     late : Nat]
  BY CurFacts DEF Types, LineDone
<1>2. tag \in Tags /\ next \in Buffers
  <2>1. l.wptr \in Buffers
    BY <1>1
  <2> QED
    BY <1>1, <2>1 DEF Tags, Buffers
<1> HIDE DEF tag, next
<1>3. lane' = [lane EXCEPT ![i] = [l EXCEPT !.ram[l.wptr] = tag, !.wptr = next, !.rdy = TRUE]]
  BY DEF LineDone, tag, next
<1>4. [l EXCEPT !.ram[l.wptr] = tag, !.wptr = next, !.rdy = TRUE] \in Lane
  BY <1>1, <1>2
<1>5. lane' \in [Lanes -> Lane]
  BY <1>1, <1>3, <1>4
<1>6. sensor' \in [frame : {0, 1}, size : 0 .. MaxLines, sent : [Lanes -> 0 .. MaxLines],
                   late : Nat]
  <2> DEFINE m == sensor.sent[i] + 1
  <2>1. m \in 0 .. MaxLines
    BY <1>1
  <2>2. sensor' = [sensor EXCEPT !.sent[i] = m]
    BY DEF LineDone
  <2> HIDE DEF m
  <2> QED
    BY <1>1, <2>1, <2>2
<1>7. clean' \in BOOLEAN
  BY DEF LineDone, Types
<1>8. rx' \in [roi : Rois, frame : {0, 1}, line : Nat, x : Nat]
  BY ResetWords DEF LineDone, Types
<1> QED
  BY <1>5, <1>6, <1>7, <1>8 DEF Types, LineDone, hispiVars, packVars, strmVars

LEMMA ResetTypes ==
  ASSUME ResetHispi, ResetPacker, ResetOutput, reg_roi \in Rois,
         lane = [i \in Lanes |-> LaneReset],
         sensor \in [frame : {0, 1}, size : 0 .. MaxLines, sent : [Lanes -> 0 .. MaxLines],
                     late : Nat],
         rx \in [roi : Rois, frame : {0, 1}, line : Nat, x : Nat],
         hispi_ctrl \in HispiCtrls, ~clean, clean \in BOOLEAN
  PROVE  Types
<1>1. /\ DataClocks \in Nat /\ 0 < DataClocks /\ SomeRoi \in Rois
  BY RoiFacts, SomeRoiIn
<1>2. lane \in [Lanes -> [wptr : Buffers, rptr : Buffers, used : Buffers, rdy : BOOLEAN,
                          ram : [Buffers -> Tags]]]
  BY ResetWords
<1>3. /\ hispi_state = "S_DISABLED" /\ sof_pending = FALSE
      /\ calibration_pending = FALSE /\ sclk_roi \in Rois
  BY <1>1 DEF ResetHispi
<1>4. /\ state = "S_IDLE" /\ frame_pending = FALSE /\ cur \in Rois
      /\ line_cntr = 0 /\ last_row = FALSE /\ data_cntr = 0 /\ load_data = FALSE
      /\ pixel_ptr = 0 /\ pixel_cntr = 0 /\ write_sync \in Marking /\ pace = 0
  BY <1>1 DEF ResetPacker, Marking
<1>5. /\ strm_state = "S_IDLE" /\ fifo \in Seq(Words) /\ q \in Words
      /\ read_data_valid = FALSE /\ tvalid = FALSE /\ tword \in Words
  <2>1. fifo \in Seq(Words)
    BY EmptySeq DEF ResetOutput
  <2> QED
    BY <2>1, ResetWords DEF ResetOutput
<1>6. /\ line_cntr \in Nat /\ data_cntr \in 0 .. DataClocks - 1
      /\ pixel_ptr \in {0, 6, 8, 10, 12} /\ pixel_cntr \in 0 .. DataClocks /\ pace \in 0 .. 3
  BY <1>1, <1>4
<1>7. /\ sof_pending \in BOOLEAN /\ calibration_pending \in BOOLEAN
      /\ frame_pending \in BOOLEAN /\ last_row \in BOOLEAN /\ load_data \in BOOLEAN
      /\ read_data_valid \in BOOLEAN /\ tvalid \in BOOLEAN
      /\ clean \in BOOLEAN
  BY <1>3, <1>4, <1>5
<1>8. /\ hispi_state \in {"S_DISABLED", "S_RESET_PHY", "S_IDLE", "S_START_CALIBRATION",
                          "S_CALIBRATE", "S_SOF", "S_INIT", "S_FRAME", "S_EOF", "S_DONE"}
      /\ state \in {"S_IDLE", "S_SOF", "S_WAIT_SOL", "S_SOL", "S_LOAD_BURST_CNTR",
                    "S_DATA_PHASE", "S_LAST_DATA", "S_EOL", "S_EOF", "S_WAIT_STREAMER_DONE",
                    "S_DONE"}
      /\ strm_state \in {"S_IDLE", "S_WAIT_ROW", "S_PREFETCH", "S_TRANSFER", "S_EOL", "S_EOF",
                         "S_DONE"}
  BY <1>3, <1>4, <1>5
<1> QED
  BY <1>2, <1>3, <1>4, <1>5, <1>6, <1>7, <1>8 DEF Types

\* A reset of the streamer leaves the control invariant.
LEMMA AfterReset ==
  /\ ResetHispi /\ ResetPacker /\ ResetOutput /\ reg_roi \in Rois
  /\ lane = [i \in Lanes |-> LaneReset]
  /\ sensor \in [frame : {0, 1}, size : 0 .. MaxLines, sent : [Lanes -> 0 .. MaxLines], late : Nat]
  /\ rx \in [roi : Rois, frame : {0, 1}, line : Nat, x : Nat]
  /\ hispi_ctrl \in HispiCtrls /\ clean = FALSE
  => Control
<1> SUFFICES ASSUME ResetHispi /\ ResetPacker /\ ResetOutput /\ reg_roi \in Rois,
                    lane = [i \in Lanes |-> LaneReset],
                    sensor \in [frame : {0, 1}, size : 0 .. MaxLines, sent : [Lanes -> 0 .. MaxLines],
                                late : Nat],
                    rx \in [roi : Rois, frame : {0, 1}, line : Nat, x : Nat],
                    hispi_ctrl \in HispiCtrls /\ clean = FALSE
             PROVE  Control
  OBVIOUS
<1>1. Types
  BY ResetTypes
<1> QED
  BY <1>1, ResetControl

LEMMA ControlInit ==
  Init => Control
<1> SUFFICES ASSUME Init PROVE Control
  OBVIOUS
<1>1. /\ ResetHispi /\ ResetPacker /\ ResetOutput /\ reg_roi \in Rois
      /\ lane = [i \in Lanes |-> LaneReset] /\ hispi_ctrl \in HispiCtrls /\ clean = FALSE
  BY DEF Init, HispiCtrls
<1>2. sensor \in [frame : {0, 1}, size : 0 .. MaxLines, sent : [Lanes -> 0 .. MaxLines], late : Nat]
  <2>1. 0 \in 0 .. MaxLines
    BY StreamerAssumption
  <2> QED
    BY <2>1 DEF Init
<1>3. rx \in [roi : Rois, frame : {0, 1}, line : Nat, x : Nat]
  BY SomeRoiIn DEF Init, NoWordDue
<1> QED
  BY <1>1, <1>2, <1>3, AfterReset

LEMMA ControlReset ==
  ASSUME Control, HiSpiClr
  PROVE  Control'
<1>1. /\ ResetHispi' /\ ResetPacker' /\ ResetOutput'
      /\ lane' = [i \in Lanes |-> LaneReset] /\ hispi_ctrl' \in HispiCtrls /\ clean' = FALSE
      /\ sensor' = RestIgnored /\ reg_roi' = reg_roi /\ rx' = NoWordDue
  BY DEF HiSpiClr, ResetHispi, ResetPacker, ResetOutput, HispiCtrls
<1>2. /\ reg_roi \in Rois
      /\ RestIgnored \in [frame : {0, 1}, size : 0 .. MaxLines,
                          sent : [Lanes -> 0 .. MaxLines], late : Nat]
      /\ NoWordDue \in [roi : Rois, frame : {0, 1}, line : Nat, x : Nat]
  BY ResetWords, RestTypes DEF Control, Types
<1>3. (/\ ResetHispi /\ ResetPacker /\ ResetOutput /\ reg_roi \in Rois
       /\ lane = [i \in Lanes |-> LaneReset]
       /\ sensor \in [frame : {0, 1}, size : 0 .. MaxLines, sent : [Lanes -> 0 .. MaxLines],
                      late : Nat]
       /\ rx \in [roi : Rois, frame : {0, 1}, line : Nat, x : Nat]
       /\ hispi_ctrl \in HispiCtrls /\ clean = FALSE
       => Control)'
  BY AfterReset, PTL
<1> QED
  BY <1>1, <1>2, <1>3

\* The control part of the invariant is inductive by itself.
THEOREM ControlNext ==
  Control /\ [Next]_vars => Control'
<1> SUFFICES ASSUME Control, [Next]_vars PROVE Control'
  OBVIOUS
<1>1. Types /\ SameFrame
  BY DEF Control
<1>2. CASE Sof
  <2>1. Types' /\ UNCHANGED <<packVars, strmVars>>
    BY <1>1, <1>2, SofTypes DEF Sof
  <2>2. SameFrame'
    BY <1>1, <1>2 DEF Sof, SameFrame, InFrame, SwitchedOff, Drained, packVars
  <2> QED
    BY <2>1, <2>2, StreamerUntouched DEF Control
<1>3. CASE SetRoi
  <2>1. UNCHANGED <<packVars, strmVars>> /\ Types' /\ SameFrame'
    BY <1>1, <1>3 DEF SetRoi, Types, SameFrame, InFrame, SwitchedOff, sensorVars, packVars,
                        strmVars
  <2> QED
    BY <2>1, StreamerUntouched DEF Control
<1>4. CASE SwitchOff \/ Enable \/ SwCalib \/ DataPathOn
  <2>1. UNCHANGED <<packVars, strmVars>>
    BY <1>4 DEF SwitchOff, Enable, SwCalib, DataPathOn
  <2>2. Types'
    <3>1. CASE SwitchOff
      <4>1. /\ sensor' \in [frame : {0, 1}, size : 0 .. MaxLines,
                            sent : [Lanes -> 0 .. MaxLines], late : Nat]
            /\ rx' \in [roi : Rois, frame : {0, 1}, line : Nat, x : Nat]
        BY <1>1, <3>1, RestTypes, ResetWords DEF SwitchOff
      <4>2. /\ hispi_ctrl' \in HispiCtrls /\ clean' \in BOOLEAN
            /\ UNCHANGED <<lane, hispi_state, sof_pending, calibration_pending, sclk_roi,
                           reg_roi>>
        BY <3>1 DEF SwitchOff, CtrlTo, HispiCtrls
      <4> QED
        BY <1>1, <2>1, <4>1, <4>2 DEF Types, packVars, strmVars
    <3>2. CASE Enable \/ SwCalib \/ DataPathOn
      <4>1. UNCHANGED <<sensor, lane, hispi_state, sof_pending, sclk_roi, reg_roi, rx, clean>>
        BY <3>2 DEF Enable, SwCalib, DataPathOn, sensorVars
      <4>2. hispi_ctrl' \in HispiCtrls
        BY <3>2 DEF Enable, SwCalib, DataPathOn, CtrlTo, HispiCtrls, On
      <4>3. calibration_pending' \in BOOLEAN
        BY <1>1, <3>2 DEF Enable, SwCalib, DataPathOn, Types
      <4> QED
        BY <1>1, <2>1, <4>1, <4>2, <4>3 DEF Types, packVars, strmVars
    <3> QED
      BY <1>4, <3>1, <3>2
  <2>3. SameFrame'
    <3>1. /\ state' = state /\ frame_pending' = frame_pending /\ hispi_state' = hispi_state
          /\ sof_pending' = sof_pending /\ clean' \in {clean, FALSE}
          /\ clean' => Enable \/ SwCalib \/ DataPathOn
      BY <1>4 DEF SwitchOff, Enable, SwCalib, DataPathOn, packVars
    <3>2. /\ hispi_ctrl # "disabled" /\ hispi_ctrl' # "cleared"
          /\ Enable \/ SwCalib \/ DataPathOn => hispi_ctrl # "streaming"
      BY <1>4 DEF SwitchOff, Enable, SwCalib, DataPathOn, CtrlTo, On
    <3>3. ~SwitchedOff /\ (InFrame => InFrame')
      BY <3>1, <3>2 DEF SwitchedOff, InFrame
    <3>4. clean' => FALSE
      BY <1>1, <3>1, <3>2 DEF SameFrame
    <3> QED
      BY <1>1, <3>1, <3>2, <3>3, <3>4 DEF SameFrame
  <2> QED
    BY <2>1, <2>2, <2>3, StreamerUntouched DEF Control
<1>5. CASE HiSpiClr
  BY <1>5, ControlReset
<1>6. ASSUME NEW i \in Lanes, LineDone(i) PROVE Control'
  <2>1. Types' /\ UNCHANGED <<packVars, strmVars>>
    BY <1>1, <1>6, LineDoneTypes DEF LineDone
  <2>2. SameFrame'
    BY <1>1, <1>6 DEF LineDone, SameFrame, InFrame, SwitchedOff, packVars, hispiVars
  <2> QED
    BY <2>1, <2>2, StreamerUntouched DEF Control
<1>7. ASSUME NEW tready \in BOOLEAN, NEW ready \in BOOLEAN, NEW pulses \in SUBSET Lanes,
             Clock(tready, ready, pulses)
      PROVE  Control'
  BY <1>7, ControlClock
<1>8. CASE UNCHANGED vars
  <2>1. UNCHANGED <<packVars, strmVars>> /\ Types' /\ SameFrame'
    BY <1>1, <1>8 DEF vars, sensorVars, hispiVars, packVars, strmVars, Types, SameFrame,
                        InFrame, SwitchedOff
  <2> QED
    BY <2>1, StreamerUntouched DEF Control
<1> QED
  BY <1>2, <1>3, <1>4, <1>5, <1>6, <1>7, <1>8 DEF Next

-----------------------------------------------------------------------------
(* What the control invariant says. *)

\* The FIFO never holds more than three rows.
LEMMA ThreeRows ==
  Control => Len(fifo) <= FifoWords
<1> SUFFICES ASSUME Control PROVE Len(fifo) <= FifoWords
  OBVIOUS
<1>1. Types /\ RowsInFifo /\ WordsInOrder
  BY DEF Control
<1> DEFINE c == Cardinality(Ends(fifo))
           n == Len(fifo)
<1>2. c \in Nat /\ n \in Nat /\ (fifo = << >> <=> n = 0)
  BY <1>1, EndsFinite, EmptySeq DEF Types
<1>3. n = Width * c + (PackX - HeadX)
  BY <1>1 DEF WordsInOrder
<1>4. \A i \in 1 .. n : fifo[i].x \in cur.x_start .. cur.x_stop
  BY <1>1 DEF WordsInOrder
<1> HIDE DEF n
<1>5. /\ cur.x_start \in Nat /\ cur.x_stop \in Nat /\ cur.x_start + 2 <= cur.x_stop
      /\ 3 * Width <= FifoWords /\ FifoWords \in Nat /\ Width \in Nat
      /\ PackX \in cur.x_start .. cur.x_stop
  BY <1>1, CurFacts, PackXFacts DEF Width
<1>6. HeadX \in cur.x_start .. cur.x_stop
  BY <1>2, <1>4, <1>5 DEF HeadX
<1>7. /\ pace \in 0 .. 3 /\ One(RowPacked) \in {0, 1}
      /\ One(strm_state = "S_TRANSFER" /\ RowEnd(q)) \in {0, 1}
  BY <1>1 DEF Types, One
<1>8. pace + One(RowPacked) = c + One(strm_state = "S_TRANSFER" /\ RowEnd(q))
  BY <1>1 DEF RowsInFifo
<1>9. RowPacked => InRow /\ PackX = cur.x_start
  BY <1>1, CurFacts DEF RowPacked, InRow, PackX
<1>10. ~InRow => PackX = cur.x_start
  BY DEF InRow, Packing, PackX
<1>11. InRow => pace < 3
  BY <1>1 DEF RowsInFifo
<1>12. One(RowPacked) = 1 => RowPacked
  BY DEF One
<1> HIDE DEF c
<1>13. c <= 3 /\ (c = 3 => PackX = cur.x_start)
  <2>1. CASE InRow
    BY <1>2, <1>7, <1>8, <1>9, <1>11, <1>12, <2>1
  <2>2. CASE ~InRow
    BY <1>2, <1>7, <1>8, <1>9, <1>10, <1>12, <2>2
  <2> QED
    BY <2>1, <2>2
<1>14. n <= 3 * Width
  <2>1. Width = cur.x_stop + 1 - cur.x_start
    BY DEF Width
  <2>2. CASE c = 3
    BY <1>3, <1>5, <1>6, <1>13, <2>2
  <2>3. CASE c = 2
    BY <1>3, <1>5, <1>6, <2>1, <2>3
  <2>4. CASE c = 1
    BY <1>3, <1>5, <1>6, <2>1, <2>4
  <2>5. CASE c = 0
    BY <1>3, <1>5, <1>6, <2>1, <2>5
  <2> QED
    BY <1>2, <1>13, <2>2, <2>3, <2>4, <2>5
<1> QED
  BY <1>2, <1>5, <1>14 DEF n

LEMMA TypesHold ==
  Control => TypeOK
<1> SUFFICES ASSUME Control PROVE TypeOK
  OBVIOUS
<1>1. Types /\ RowsCounted
  BY DEF Control
<1>2. \A i \in Lanes : /\ lane[i].wptr \in Buffers /\ lane[i].rptr \in Buffers
                       /\ lane[i].used \in 0 .. 3 /\ lane[i].rdy \in BOOLEAN
                       /\ sensor.sent[i] \in 0 .. MaxLines
  BY <1>1 DEF Types, Buffers
<1>3. line_cntr \in 0 .. MaxLines - 1
  BY <1>1, CurFacts DEF RowsCounted
<1>4. Len(fifo) <= FifoWords
  BY ThreeRows
<1>5. /\ {sclk_roi, reg_roi, cur} \subseteq Rois
      /\ {sof_pending, calibration_pending, frame_pending, last_row, load_data,
          read_data_valid, tvalid, clean} \subseteq BOOLEAN
  BY <1>1 DEF Types
<1>6. /\ data_cntr \in 0 .. DataClocks - 1
      /\ pixel_ptr \in {0, 6, 8, 10, 12} /\ pixel_cntr \in 0 .. DataClocks /\ pace \in 0 .. 3
  BY <1>1 DEF Types
<1> QED
  BY <1>2, <1>3, <1>4, <1>5, <1>6 DEF TypeOK

LEMMA PaceFollows ==
  Control => PaceCountsRows
<1> SUFFICES ASSUME Control PROVE PaceCountsRows
  OBVIOUS
<1>1. RowEnds = Cardinality(Ends(fifo))
  <2>1. DOMAIN fifo = 1 .. Len(fifo)
    BY LenProperties DEF Control, Types
  <2> QED
    BY <2>1 DEF RowEnds, Ends
<1>2. pace + One(RowPacked) = RowEnds + One(strm_state = "S_TRANSFER" /\ RowEnd(q))
  BY <1>1 DEF Control, RowsInFifo
<1> QED
  BY <1>2, TypesHold DEF PaceCountsRows, One, RowPacked, Packing

\* The counters stay in their ranges, the FIFO does not overflow, and
\* stream_pace_cntr is the number of whole rows in it.
THEOREM PaceCounts == Spec => []PaceCountsRows
<1>1. Init => Control
  BY ControlInit
<1>2. Control /\ [Next]_vars => Control'
  BY ControlNext
<1>3. Control => PaceCountsRows
  BY PaceFollows
<1> QED
  BY <1>1, <1>2, <1>3, PTL DEF Spec

-----------------------------------------------------------------------------
(* One clock: data. *)

\* An announced frame waits in front of an idle packer.
LEMMA AnnouncedIdle ==
  ASSUME Types, SameFrame, clean
  PROVE  /\ Announced => state \in {"S_IDLE", "S_SOF"}
         /\ state = "S_SOF" => Announced
         /\ enable_hispi
  BY DEF Types, SameFrame, InFrame, SwitchedOff, Announced, enable_hispi, On

LEMMA AnnouncedMoves ==
  ASSUME Types, SameFrame, clean, NEW ready \in BOOLEAN, HispiStep(ready), RowStep
  PROVE  Announced' <=> Announced /\ state # "S_SOF"
<1>1. /\ hispi_state' = "S_INIT" <=> hispi_state = "S_SOF"
      /\ sof_pending' <=> sof_pending /\ hispi_state # "S_SOF"
      /\ frame_pending' <=> hispi_state = "S_INIT" \/ (frame_pending /\ state # "S_SOF")
  BY AnnouncedIdle DEF Types, HispiStep, HispiNext, RowStep, init_frame
<1>2. /\ hispi_state = "S_SOF" => sof_pending /\ state = "S_IDLE"
      /\ hispi_state = "S_INIT" => state = "S_IDLE"
      /\ sof_pending => state # "S_SOF"
  BY DEF Types, SameFrame, InFrame, SwitchedOff
<1> QED
  BY <1>1, <1>2 DEF Announced

\* The line that is released is the one whose row ends.
LEMMA ReleasedMoves ==
  ASSUME Types, SameFrame, clean, NEW ready \in BOOLEAN, HispiStep(ready), RowStep
  PROVE  /\ Released \in Nat /\ Released' = Released + One(transfer_done)
         /\ InRow' => ~transfer_done /\ (InRow \/ (state = "S_WAIT_SOL" /\ RowAvailable))
<1>1. /\ Announced' <=> Announced /\ state # "S_SOF"
      /\ Announced => state \in {"S_IDLE", "S_SOF"}
      /\ state = "S_SOF" => Announced
  BY AnnouncedMoves, AnnouncedIdle
<1>2. /\ state' = StateNext
      /\ line_cntr' = IF state = "S_SOF" THEN 0
                      ELSE IF state = "S_EOL" THEN line_cntr + 1 ELSE line_cntr
      /\ line_cntr \in Nat
  BY CurFacts DEF RowStep
<1>3. Released \in Nat
  BY <1>2 DEF Released
<1>4. Released' = Released + One(transfer_done)
  <2>1. CASE Announced /\ state # "S_SOF"
    <3>1. Announced' /\ state = "S_IDLE" /\ ~transfer_done
      BY <1>1, <2>1 DEF transfer_done
    <3> QED
      BY <2>1, <3>1 DEF Released, One
  <2>2. CASE state = "S_SOF"
    <3>1. /\ ~Announced' /\ Announced /\ state' = "S_WAIT_SOL" /\ line_cntr' = 0
          /\ ~transfer_done
      BY <1>1, <1>2, <2>2 DEF StateNext, transfer_done
    <3> QED
      BY <3>1 DEF Released, One
  <2>3. CASE ~Announced
    <3>1. ~Announced' /\ state # "S_SOF"
      BY <1>1, <2>3
    <3>2. state = "S_IDLE" => state' = "S_IDLE"
      BY <1>2, <2>3 DEF StateNext, Announced
    <3>3. CASE transfer_done
      <4>1. /\ InRow /\ ~InRow'
            /\ state = "S_EOL" => state' = "S_WAIT_SOL"
            /\ state = "S_EOF" => state' = "S_WAIT_STREAMER_DONE"
            /\ state \in {"S_EOL", "S_EOF"}
        BY <1>2, <3>3 DEF StateNext, transfer_done, InRow, Packing
      <4>2. Released = line_cntr /\ Released' = line_cntr + 1
        BY <1>2, <2>3, <3>1, <4>1 DEF Released
      <4> QED
        BY <3>3, <4>2 DEF One
    <3>4. CASE ~transfer_done
      <4>1. line_cntr' = line_cntr /\ state \notin {"S_EOL", "S_EOF"}
        BY <1>2, <3>1, <3>4 DEF transfer_done
      <4>2. (InRow' \/ state' = "S_WAIT_SOL") <=> (InRow \/ state = "S_WAIT_SOL")
        BY <1>2, <3>1, <3>2, <4>1 DEF StateNext, InRow, Packing, Types
      <4>3. Released' = Released
        BY <2>3, <3>1, <4>1, <4>2 DEF Released
      <4> QED
        BY <1>3, <3>4, <4>3 DEF One
    <3> QED
      BY <3>3, <3>4
  <2> QED
    BY <2>1, <2>2, <2>3
<1>5. InRow' => ~transfer_done /\ (InRow \/ (state = "S_WAIT_SOL" /\ RowAvailable))
  BY <1>2 DEF InRow, Packing, transfer_done, StateNext, Types
<1> QED
  BY <1>3, <1>4, <1>5

\* The consumer's region and frame do not change.
LEMMA RegionTakenClock ==
  ASSUME Types, SameFrame, clean, RowsCounted, RegionTaken, NEW tready \in BOOLEAN,
         NEW ready \in BOOLEAN, NEW pulses, Clock(tready, ready, pulses)
  PROVE  RegionTaken'
<1>1. HispiStep(ready) /\ RowStep /\ sensor' = sensor /\ Consumed(tready)
  BY DEF Clock
<1>2. rx'.roi = rx.roi /\ rx'.frame = rx.frame
  BY <1>1, ConsumerMoves
<1>3. /\ Announced' <=> Announced /\ state # "S_SOF"
      /\ state = "S_SOF" => Announced
  BY <1>1, AnnouncedMoves, AnnouncedIdle
<1>4. sof_pending' => reg_roi' = rx'.roi
  BY <1>1, <1>2 DEF HispiStep, RegionTaken
<1>5. hispi_state' = "S_INIT" \/ frame_pending' => sclk_roi' = rx'.roi
  <2>1. CASE hispi_state = "S_SOF"
    <3>1. sof_pending /\ sclk_roi' = reg_roi
      BY <1>1, <2>1 DEF SameFrame, HispiStep
    <3> QED
      BY <1>2, <3>1 DEF RegionTaken
  <2>2. CASE hispi_state # "S_SOF"
    <3>1. sclk_roi' = sclk_roi /\ hispi_state' # "S_INIT"
      BY <1>1, <2>2, AnnouncedIdle DEF HispiStep, HispiNext, Types
    <3>2. frame_pending' => hispi_state = "S_INIT" \/ frame_pending
      BY <1>1 DEF RowStep, init_frame
    <3> QED
      BY <1>2, <3>1, <3>2 DEF RegionTaken
  <2> QED
    BY <2>1, <2>2
<1>6. ASSUME ~Announced'
      PROVE  cur' = rx'.roi /\ (state' = "S_IDLE" => LastRow')
  <2>1. CASE state = "S_SOF"
    <3>1. frame_pending /\ cur' = sclk_roi /\ state' = "S_WAIT_SOL"
      BY <1>1, <2>1 DEF SameFrame, RowStep, StateNext
    <3> QED
      BY <1>2, <3>1 DEF RegionTaken
  <2>2. CASE state # "S_SOF"
    <3>1. ~Announced /\ cur' = cur
      BY <1>1, <1>3, <1>6, <2>2 DEF RowStep
    <3>2. state' = "S_IDLE" => state \in {"S_IDLE", "S_DONE"}
      BY <1>1, <2>2 DEF RowStep, StateNext, Types
    <3>3. state \in {"S_IDLE", "S_DONE"} => LastRow /\ line_cntr' = line_cntr
      BY <1>1, <3>1 DEF RegionTaken, RowsCounted, RowStep
    <3> QED
      BY <1>2, <3>1, <3>2, <3>3 DEF RegionTaken, LastRow
  <2> QED
    BY <2>1, <2>2
<1> QED
  BY <1>1, <1>2, <1>4, <1>5, <1>6 DEF RegionTaken

\* A lane on a clock: what it stores is what it has and has not released.
LEMMA StoredMoves ==
  ASSUME Types, NEW pulses, pulses \subseteq {j \in Lanes : lane[j].rdy}, LaneStep(pulses),
         NEW i \in Lanes, Stored(lane[i]) <= 3, transfer_done => lane[i].used > 0
  PROVE  /\ Stored(lane[i]) \in Nat /\ Stored(lane'[i]) = Stored(lane[i]) - One(transfer_done)
         /\ lane'[i].used \in Nat /\ (~transfer_done => lane'[i].used >= lane[i].used)
<1>1. /\ lane'[i].used = UsedNext(lane[i].used, i \in pulses)
      /\ lane'[i].rdy <=> lane[i].rdy /\ i \notin pulses
  BY LaneMoves
<1>2. i \in pulses => lane[i].rdy
  OBVIOUS
<1>3. lane[i].used \in 0 .. 3
  BY DEF Types, Buffers
<1> DEFINE u == lane[i].used
           v == lane'[i].used
<1>4. Stored(lane[i]) = u + One(lane[i].rdy) /\ Stored(lane'[i]) = v + One(lane'[i].rdy)
  BY DEF Stored
<1>5. /\ i \in pulses /\ ~transfer_done => v = (u + 1) % 4
      /\ i \notin pulses /\ transfer_done => v = (u - 1) % 4
      /\ (i \in pulses <=> transfer_done) => v = u
  BY <1>1 DEF UsedNext
<1>6. transfer_done => u > 0
  OBVIOUS
<1> HIDE DEF u, v
<1>7. CASE i \in pulses
  <2>1. One(lane[i].rdy) = 1 /\ One(lane'[i].rdy) = 0
    BY <1>1, <1>2, <1>7 DEF One
  <2>2. u <= 2 /\ u \in 0 .. 3
    BY <1>3, <1>4, <2>1 DEF u
  <2>3. CASE transfer_done
    <3>1. v = u /\ One(transfer_done) = 1
      BY <1>5, <1>7, <2>3 DEF One
    <3>b. Stored(lane[i]) = u + One(lane[i].rdy) /\ Stored(lane'[i]) = v + One(lane'[i].rdy)
      BY <1>4 DEF u, v
    <3>a. /\ Stored(lane[i]) \in Nat /\ Stored(lane'[i]) = Stored(lane[i]) - One(transfer_done)
          /\ v \in Nat
      BY <2>1, <2>2, <3>1, <3>b
    <3> QED
      BY <2>3, <3>a DEF v
  <2>4. CASE ~transfer_done
    <3>1. v = (u + 1) % 4 /\ One(transfer_done) = 0
      BY <1>5, <1>7, <2>4 DEF One
    <3>2. v = u + 1
      BY <2>2, <3>1
    <3> QED
      BY <1>4, <2>1, <2>2, <2>4, <3>1, <3>2 DEF u, v
  <2> QED
    BY <2>3, <2>4
<1>8. CASE i \notin pulses
  <2>1. One(lane'[i].rdy) = One(lane[i].rdy) /\ One(lane[i].rdy) \in {0, 1}
    BY <1>1, <1>8 DEF One
  <2>2. u \in 0 .. 3
    BY <1>3 DEF u
  <2>3. CASE transfer_done
    <3>1. v = (u - 1) % 4 /\ One(transfer_done) = 1
      BY <1>5, <1>8, <2>3 DEF One
    <3>2. v = u - 1 /\ v \in Nat
      BY <1>6, <2>2, <2>3, <3>1
    <3>b. Stored(lane[i]) = u + One(lane[i].rdy) /\ Stored(lane'[i]) = v + One(lane'[i].rdy)
      BY <1>4 DEF u, v
    <3>a. /\ Stored(lane[i]) \in Nat /\ Stored(lane'[i]) = Stored(lane[i]) - One(transfer_done)
          /\ v \in Nat
      BY <2>1, <2>2, <3>1, <3>2, <3>b
    <3> QED
      BY <2>3, <3>a DEF v
  <2>4. CASE ~transfer_done
    <3>1. v = u /\ One(transfer_done) = 0
      BY <1>5, <1>8, <2>4 DEF One
    <3> QED
      BY <1>4, <2>1, <2>2, <2>4, <3>1 DEF u, v
  <2> QED
    BY <2>3, <2>4
<1> QED
  BY <1>7, <1>8

LEMMA LinesStoredClock ==
  ASSUME Types, SameFrame, clean, LinesStored, NEW ready \in BOOLEAN, HispiStep(ready), RowStep,
         NEW pulses, pulses \subseteq {j \in Lanes : lane[j].rdy}, LaneStep(pulses),
         sensor' = sensor
  PROVE  LinesStored'
<1>1. /\ Released \in Nat /\ Released' = Released + One(transfer_done)
      /\ InRow' => ~transfer_done /\ (InRow \/ (state = "S_WAIT_SOL" /\ RowAvailable))
  BY ReleasedMoves
<1>2. transfer_done => InRow
  BY DEF transfer_done, InRow, Packing
<1>3. One(transfer_done) \in {0, 1} /\ (transfer_done <=> One(transfer_done) = 1)
  BY DEF One
<1> SUFFICES ASSUME NEW i \in Lanes
    PROVE /\ sensor.sent[i] = Released' + Stored(lane'[i]) /\ Stored(lane'[i]) <= 3
          /\ lane'[i].wptr = sensor.sent[i] % 4 /\ lane'[i].rptr = Released' % 4
          /\ InRow' => lane'[i].used > 0
          /\ \A k \in 0 .. MaxLines : Released' <= k /\ k < sensor.sent[i] =>
               lane'[i].ram[k % 4] = [frame |-> sensor.frame, line |-> k]
  BY DEF LinesStored, Stored
<1>4. /\ sensor.sent[i] = Released + Stored(lane[i]) /\ Stored(lane[i]) <= 3
      /\ lane[i].wptr = sensor.sent[i] % 4 /\ lane[i].rptr = Released % 4
      /\ InRow => lane[i].used > 0
      /\ \A k \in 0 .. MaxLines : Released <= k /\ k < sensor.sent[i] =>
           lane[i].ram[k % 4] = [frame |-> sensor.frame, line |-> k]
  BY DEF LinesStored
<1>5. /\ Stored(lane[i]) \in Nat /\ Stored(lane'[i]) = Stored(lane[i]) - One(transfer_done)
      /\ lane'[i].used \in Nat /\ (~transfer_done => lane'[i].used >= lane[i].used)
  BY <1>2, <1>4, StoredMoves
<1>6. /\ lane'[i].wptr = lane[i].wptr /\ lane'[i].ram = lane[i].ram
      /\ lane'[i].rptr = IF transfer_done THEN (lane[i].rptr + 1) % 4 ELSE lane[i].rptr
  BY LaneMoves
<1>7. sensor.sent[i] = Released' + Stored(lane'[i]) /\ Stored(lane'[i]) <= 3
  BY <1>1, <1>3, <1>4, <1>5
<1>8. lane'[i].rptr = Released' % 4
  BY <1>1, <1>3, <1>4, <1>6
<1>9. InRow' => lane'[i].used > 0
  <2>1. RowAvailable => lane[i].used # 0
    BY DEF RowAvailable
  <2>2. lane[i].used \in 0 .. 3
    BY DEF Types, Buffers
  <2>3. InRow' => lane[i].used > 0 /\ lane'[i].used >= lane[i].used
    BY <1>1, <1>4, <1>5, <2>1, <2>2
  <2> QED
    BY <1>5, <2>2, <2>3
<1>10. \A k \in 0 .. MaxLines : Released' <= k /\ k < sensor.sent[i] =>
         lane'[i].ram[k % 4] = [frame |-> sensor.frame, line |-> k]
  <2>1. SUFFICES ASSUME NEW k \in 0 .. MaxLines, Released' <= k, k < sensor.sent[i]
                 PROVE  lane'[i].ram[k % 4] = [frame |-> sensor.frame, line |-> k]
    OBVIOUS
  <2>2. Released <= k
    BY <1>1, <1>3, <2>1
  <2> QED
    BY <1>4, <1>6, <2>1, <2>2
<1> QED
  BY <1>4, <1>6, <1>7, <1>8, <1>9, <1>10

\* The line the packer reads is the one its row is of.
LEMMA LineReadIs ==
  ASSUME Types, SameFrame, RowsCounted, LinesStored, InRow, ~Announced
  PROVE  LineRead = [frame |-> sensor.frame, line |-> line_cntr]
<1> DEFINE tag   == [frame |-> sensor.frame, line |-> line_cntr]
           lines == {lane[i].ram[lane[i].rptr] : i \in Lanes}
<1>1. Released = line_cntr /\ line_cntr \in 0 .. MaxLines
  BY CurFacts DEF Released, RowsCounted
<1>2. ASSUME NEW i \in Lanes
      PROVE  lane[i].ram[lane[i].rptr] = tag
  <2>1. /\ sensor.sent[i] = Released + Stored(lane[i]) /\ lane[i].rptr = Released % 4
        /\ lane[i].used > 0
        /\ \A k \in 0 .. MaxLines : Released <= k /\ k < sensor.sent[i] =>
             lane[i].ram[k % 4] = [frame |-> sensor.frame, line |-> k]
    BY DEF LinesStored
  <2>2. lane[i].used \in 0 .. 3 /\ One(lane[i].rdy) \in {0, 1}
    BY DEF Types, Buffers, One
  <2>3. Stored(lane[i]) > 0 /\ Stored(lane[i]) \in Nat
    BY <2>1, <2>2 DEF Stored
  <2>4. line_cntr < sensor.sent[i] /\ Released <= line_cntr
    BY <1>1, <2>1, <2>3
  <2> QED
    BY <1>1, <2>1, <2>4
<1>3. lines = {tag}
  BY <1>2, StreamerAssumption
<1>4. LineRead = IF \E l \in lines : lines = {l} THEN CHOOSE l \in lines : TRUE ELSE NoLine
  BY DEF LineRead
<1> HIDE DEF lines, tag
<1>5. LineRead = tag
  BY <1>3, <1>4
<1> QED
  BY <1>5 DEF tag

\* A word is written on the packer's place, which it leaves.
LEMMA PackPlaceMoves ==
  ASSUME Control, clean, RegionTaken, LinesStored, NEW ready \in BOOLEAN, HispiStep(ready),
         RowStep, PackerStep, rx'.roi = rx.roi
  PROVE  /\ PackPlace' = IF fifo_write_en THEN After(PackPlace) ELSE PackPlace
         /\ fifo_write_en => Place(fifo_write_data) = PackPlace /\ Sound(fifo_write_data)
<1>0. Types /\ SameFrame /\ RowCounters /\ RowsCounted /\ MarkerReady
  BY DEF Control
<1>1. /\ Announced' <=> Announced /\ state # "S_SOF"
      /\ Announced => state \in {"S_IDLE", "S_SOF"}
      /\ state = "S_SOF" => Announced
  BY <1>0, AnnouncedMoves, AnnouncedIdle
<1>2. fifo_write_en => state = "S_DATA_PHASE"
  BY DEF fifo_write_en, packer_rdy
<1>3. /\ state = "S_SOF" => PackX' = cur'.x_start
      /\ state # "S_SOF" =>
           /\ cur' = cur
           /\ PackX' = IF fifo_write_en THEN NextX(PackX) ELSE PackX
      /\ transfer_done => RowPacked /\ ~RowPacked'
      /\ fifo_write_en => ~RowPacked
      /\ ~transfer_done =>
           (RowPacked' <=> RowPacked \/ (fifo_write_en /\ pixel_cntr = cur.x_stop))
  BY <1>0, PackMoves
<1>4. CASE Announced /\ state # "S_SOF"
  <2>1. Announced' /\ ~fifo_write_en
    BY <1>1, <1>2, <1>4
  <2> QED
    BY <1>4, <2>1 DEF PackPlace
<1>5. CASE state = "S_SOF"
  <2>1. /\ ~Announced' /\ Announced /\ ~fifo_write_en
        /\ state' = "S_WAIT_SOL" /\ line_cntr' = 0 /\ cur' = sclk_roi
    BY <1>1, <1>2, <1>5 DEF RowStep, StateNext
  <2>2. sclk_roi = rx.roi
    BY <1>0, <1>5 DEF SameFrame, RegionTaken
  <2>3. PackX' = rx'.roi.x_start /\ ~RowPacked'
    BY <1>3, <1>5, <2>1, <2>2 DEF RowPacked, Packing
  <2>4. PackPlace' = [line |-> 0 + 0, x |-> rx'.roi.x_start]
    BY <2>1, <2>3 DEF PackPlace, One
  <2>5. PackPlace = [line |-> 0, x |-> rx.roi.x_start]
    BY <2>1 DEF PackPlace
  <2> QED
    BY <2>1, <2>4, <2>5
<1>6. CASE ~Announced
  <2> DEFINE Left  == RowPacked \/ state \in {"S_WAIT_STREAMER_DONE", "S_DONE", "S_IDLE"}
             Left1 == RowPacked' \/ state' \in {"S_WAIT_STREAMER_DONE", "S_DONE", "S_IDLE"}
  <2>1. /\ ~Announced' /\ state # "S_SOF" /\ cur = rx.roi /\ cur' = cur
        /\ PackX' = IF fifo_write_en THEN NextX(PackX) ELSE PackX
    BY <1>1, <1>3, <1>6 DEF RegionTaken
  <2>2. /\ PackPlace = [line |-> line_cntr + One(Left), x |-> PackX]
        /\ PackPlace' = [line |-> line_cntr' + One(Left1), x |-> PackX']
    BY <1>6, <2>1 DEF PackPlace
  <2>3. line_cntr \in Nat
    BY <1>0, CurFacts
  <2>4. CASE fifo_write_en
    <3>1. /\ state = "S_DATA_PHASE" /\ fifo_write_data.x = pixel_cntr /\ PackX = pixel_cntr
          /\ fifo_write_data.tag = LineRead /\ pixel_cntr <= cur.x_stop
          /\ fifo_write_data.sync = Marks(line_cntr, pixel_cntr, cur)
      BY <1>0, <2>4, WordWritten
    <3>2. LineRead = [frame |-> sensor.frame, line |-> line_cntr]
      BY <1>0, <1>6, <3>1, LineReadIs DEF InRow, Packing
    <3>3. ~Left /\ (Left1 <=> pixel_cntr = cur.x_stop) /\ line_cntr' = line_cntr
      <4>1. state' \in {"S_DATA_PHASE", "S_LAST_DATA"} /\ line_cntr' = line_cntr
        BY <3>1 DEF RowStep, StateNext
      <4>2. ~transfer_done
        BY <3>1 DEF transfer_done
      <4> QED
        BY <1>3, <2>4, <3>1, <4>1, <4>2
    <3>4. PackPlace = [line |-> line_cntr, x |-> pixel_cntr]
      BY <2>2, <2>3, <3>1, <3>3 DEF One
    <3>5. Place(fifo_write_data) = PackPlace /\ Sound(fifo_write_data)
      BY <2>1, <3>1, <3>2, <3>4 DEF Place, Sound, RegionTaken
    <3>6. PackPlace' = After(PackPlace)
      <4>1. CASE pixel_cntr = cur.x_stop
        <5>1. PackX' = cur.x_start /\ PackPlace'.line = line_cntr + 1
          BY <1>0, <2>1, <2>2, <2>4, <3>1, <3>3, <4>1, CurFacts DEF NextX, One
        <5>2. PackPlace' = [line |-> line_cntr + 1, x |-> cur.x_start]
          BY <2>2, <5>1
        <5>3. After(PackPlace) = [line |-> line_cntr + 1, x |-> cur.x_start]
          BY <1>0, <2>1, <3>4, <4>1, CurFacts DEF After
        <5> QED
          BY <5>2, <5>3
      <4>2. CASE pixel_cntr # cur.x_stop
        <5>1. pixel_cntr < cur.x_stop
          BY <1>0, <3>1, <4>2, CurFacts
        <5>2. PackX' = pixel_cntr + 1 /\ One(Left1) = 0
          BY <2>1, <2>4, <3>1, <3>3, <4>2, <5>1 DEF NextX, One
        <5>3. PackPlace' = [line |-> line_cntr, x |-> pixel_cntr + 1]
          BY <2>2, <2>3, <3>3, <5>2
        <5>4. After(PackPlace) = [line |-> line_cntr, x |-> pixel_cntr + 1]
          BY <2>1, <3>4, <5>1 DEF After
        <5> QED
          BY <5>3, <5>4
      <4> QED
        BY <4>1, <4>2
    <3> QED
      BY <2>4, <3>5, <3>6
  <2>5. CASE ~fifo_write_en /\ ~transfer_done
    <3>1. state \notin {"S_EOL", "S_EOF", "S_SOF"} /\ (RowPacked' <=> RowPacked)
      BY <1>3, <2>1, <2>5 DEF transfer_done
    <3>2. line_cntr' = line_cntr
      BY <3>1 DEF RowStep
    <3>3. state = "S_IDLE" => ~frame_pending
      BY <1>6 DEF Announced
    <3>4. state' \in {"S_WAIT_STREAMER_DONE", "S_DONE", "S_IDLE"} <=>
            state \in {"S_WAIT_STREAMER_DONE", "S_DONE", "S_IDLE"}
      BY <1>0, <3>1, <3>3 DEF RowStep, StateNext, Types
    <3>5. One(Left1) = One(Left)
      BY <3>1, <3>4
    <3> QED
      BY <2>1, <2>2, <2>5, <3>2, <3>5
  <2>6. CASE ~fifo_write_en /\ transfer_done
    <3>1. RowPacked /\ ~RowPacked'
      BY <1>3, <2>6
    <3>2. CASE state = "S_EOL"
      <4>1. line_cntr' = line_cntr + 1 /\ state' = "S_WAIT_SOL"
        BY <3>2 DEF RowStep, StateNext
      <4>2. One(Left) = 1 /\ One(Left1) = 0
        BY <3>1, <4>1 DEF One
      <4>3. line_cntr' + One(Left1) = line_cntr + One(Left)
        BY <2>3, <4>1, <4>2
      <4> QED
        BY <2>1, <2>2, <2>6, <4>3
    <3>3. CASE state = "S_EOF"
      <4>1. line_cntr' = line_cntr /\ state' = "S_WAIT_STREAMER_DONE"
        BY <3>3 DEF RowStep, StateNext
      <4>2. One(Left) = 1 /\ One(Left1) = 1
        BY <3>1, <4>1 DEF One
      <4> QED
        BY <2>1, <2>2, <2>6, <4>1, <4>2
    <3> QED
      BY <2>6, <3>2, <3>3 DEF transfer_done
  <2> QED
    BY <2>4, <2>5, <2>6
<1>7. ~Announced \/ ~fifo_write_en
  BY <1>1, <1>2
<1> QED
  BY <1>1, <1>4, <1>5, <1>6, <1>7

\* The places on the way out: the word of q follows tword's, the head's q's.
LEMMA HeadPlaceMoves ==
  ASSUME Types, StreamFollows, RowsInFifo, WordsFollow, clean, NEW tready \in BOOLEAN,
         StreamStep(tready), Consumed(tready), fifo_write_data \in Words
  PROVE  /\ HeadPlace' = IF fifo_read_en(tready) THEN After(HeadPlace) ELSE HeadPlace
         /\ tvalid' => Sound(tword') /\ Place(tword') = OutPlace'
         /\ strm_state' = "S_TRANSFER" => Sound(q') /\ Place(q') = QPlace'
<1>1. \/ Stalls(tready) \/ Outside(tready) \/ Fetches(tready)
      \/ Passes(tready) \/ EndsRow(tready)
  BY StreamMoves
<1>2. /\ rx'.roi = rx.roi /\ rx'.frame = rx.frame
      /\ ~(tvalid /\ tready) => rx' = rx
      /\ tvalid /\ tready => [line |-> rx'.line, x |-> rx'.x] = After(OutPlace)
  BY ConsumerMoves
<1>3. /\ m_wait(tready) => OutPlace' = OutPlace /\ tvalid
      /\ ~m_wait(tready) => OutPlace' = QPlace
  <2>1. OutPlace' = IF tvalid /\ tready THEN After(OutPlace) ELSE OutPlace
    BY <1>2 DEF OutPlace
  <2> QED
    BY <2>1 DEF m_wait, QPlace
<1>4. /\ QPlace' = IF tvalid' THEN After(OutPlace') ELSE OutPlace'
      /\ HeadPlace' = IF strm_state' = "S_TRANSFER" THEN After(QPlace') ELSE QPlace'
      /\ HeadPlace = IF strm_state = "S_TRANSFER" THEN After(QPlace) ELSE QPlace
  BY <1>2 DEF QPlace, HeadPlace, After
<1>5. /\ tvalid => Sound(tword) /\ Place(tword) = OutPlace
      /\ strm_state = "S_TRANSFER" => Sound(q) /\ Place(q) = QPlace
  BY DEF WordsFollow
<1>6. /\ fifo_read_en(tready) => q' = fifo[1] /\ Sound(fifo[1]) /\ Place(fifo[1]) = HeadPlace
      /\ ~fifo_read_en(tready) => q' = q
  <2>1. /\ Len(fifo) \in Nat /\ (fifo = << >> <=> Len(fifo) = 0)
        /\ fifo_read_en(tready) => Len(fifo) > 0 /\ q' = fifo[1]
        /\ ~fifo_read_en(tready) => q' = q
    BY FifoMoves DEF Types, StreamStep
  <2>2. fifo_read_en(tready) => fifo # << >> /\ 1 \in 1 .. Len(fifo)
    BY <2>1
  <2> QED
    BY <2>1, <2>2 DEF WordsFollow
<1>7. CASE Stalls(tready)
  <2>1. /\ ~fifo_read_en(tready) /\ q' = q /\ tword' = tword /\ tvalid /\ tvalid'
        /\ OutPlace' = OutPlace /\ strm_state' = strm_state
    BY <1>3, <1>6, <1>7 DEF Stalls
  <2>2. QPlace' = QPlace
    BY <1>4, <2>1 DEF QPlace
  <2> QED
    BY <1>4, <1>5, <2>1, <2>2
<1>8. CASE Outside(tready)
  <2>1. /\ ~fifo_read_en(tready) /\ ~tvalid' /\ strm_state # "S_TRANSFER"
        /\ strm_state' # "S_TRANSFER" /\ OutPlace' = QPlace
    BY <1>3, <1>8 DEF Outside, StrmNext, Types
  <2> QED
    BY <1>4, <2>1
<1>9. CASE Fetches(tready)
  <2>1. /\ fifo_read_en(tready) /\ ~tvalid' /\ strm_state # "S_TRANSFER"
        /\ strm_state' = "S_TRANSFER" /\ OutPlace' = QPlace
    BY <1>3, <1>9 DEF Fetches
  <2> QED
    BY <1>4, <1>6, <2>1
<1>10. CASE Passes(tready)
  <2>1. /\ fifo_read_en(tready) /\ tvalid' /\ tword' = q /\ strm_state = "S_TRANSFER"
        /\ strm_state' = "S_TRANSFER" /\ OutPlace' = QPlace
    BY <1>3, <1>10 DEF Passes
  <2> QED
    BY <1>4, <1>5, <1>6, <2>1
<1>11. CASE EndsRow(tready)
  <2>1. /\ ~fifo_read_en(tready) /\ tvalid' /\ tword' = q /\ strm_state = "S_TRANSFER"
        /\ strm_state' # "S_TRANSFER" /\ OutPlace' = QPlace
    BY <1>3, <1>11 DEF EndsRow
  <2> QED
    BY <1>4, <1>5, <2>1
<1> QED
  BY <1>1, <1>7, <1>8, <1>9, <1>10, <1>11

\* The words from the packer to the consumer follow one another.
LEMMA WordsFollowClock ==
  ASSUME Control, clean, RegionTaken, LinesStored, WordsFollow, NEW tready \in BOOLEAN,
         NEW ready \in BOOLEAN, NEW pulses, Clock(tready, ready, pulses)
  PROVE  WordsFollow'
<1> DEFINE r == One(fifo_read_en(tready))
           w == One(fifo_write_en)
           n == Len(fifo)
<1>1. /\ Types /\ RowsInFifo /\ StreamFollows
      /\ HispiStep(ready) /\ RowStep /\ PackerStep /\ StreamStep(tready) /\ Consumed(tready)
      /\ write_sync' = SyncNext
  BY DEF Control, Clock
<1>2. fifo_write_data \in Words
  BY <1>1, StreamerAssumption, WordTypes
<1>3. rx'.roi = rx.roi /\ rx'.frame = rx.frame
  BY <1>1, ConsumerMoves
<1>4. /\ n \in Nat /\ (fifo = << >> <=> n = 0)
      /\ Len(fifo') \in Nat /\ (fifo' = << >> <=> Len(fifo') = 0)
      /\ fifo_read_en(tready) => n > 0
      /\ Len(fifo') = n - r + w
      /\ \A i \in 1 .. n - r : fifo'[i] = fifo[i + r]
      /\ fifo_write_en => fifo'[Len(fifo')] = fifo_write_data
  BY <1>1, <1>2, FifoMoves DEF Types, StreamStep
<1>5. /\ fifo_read_en(tready) => r = 1
      /\ ~fifo_read_en(tready) => r = 0
      /\ fifo_write_en => w = 1
      /\ ~fifo_write_en => w = 0
  BY DEF One
<1> HIDE DEF r, w, n
<1>6. /\ PackPlace' = IF fifo_write_en THEN After(PackPlace) ELSE PackPlace
      /\ fifo_write_en => Place(fifo_write_data) = PackPlace /\ Sound(fifo_write_data)
  BY <1>1, <1>3, PackPlaceMoves
<1>7. /\ HeadPlace' = IF fifo_read_en(tready) THEN After(HeadPlace) ELSE HeadPlace
      /\ tvalid' => Sound(tword') /\ Place(tword') = OutPlace'
      /\ strm_state' = "S_TRANSFER" => Sound(q') /\ Place(q') = QPlace'
  BY <1>1, <1>2, HeadPlaceMoves
<1>8. /\ HeadPlace = IF n = 0 THEN PackPlace ELSE Place(fifo[1])
      /\ \A i \in 1 .. n :
           /\ Sound(fifo[i])
           /\ After(Place(fifo[i])) = IF i = n THEN PackPlace ELSE Place(fifo[i + 1])
  BY <1>4 DEF WordsFollow, n
<1>9. ASSUME NEW i \in 1 .. Len(fifo')
      PROVE  /\ Sound(fifo'[i])
             /\ After(Place(fifo'[i])) = IF i = Len(fifo') THEN PackPlace'
                                         ELSE Place(fifo'[i + 1])
  <2>1. CASE i \in 1 .. n - r
    <3>1. i + r \in 1 .. n /\ fifo'[i] = fifo[i + r]
      BY <1>4, <1>5, <2>1
    <3>2. CASE i + r = n /\ fifo_write_en
      <4>1. i # Len(fifo') /\ i + 1 = Len(fifo')
        BY <1>4, <1>5, <3>2
      <4> QED
        BY <1>4, <1>6, <1>8, <3>1, <3>2, <4>1
    <3>3. CASE i + r = n /\ ~fifo_write_en
      <4>1. i = Len(fifo')
        BY <1>4, <1>5, <3>3
      <4> QED
        BY <1>6, <1>8, <3>1, <3>3, <4>1
    <3>4. CASE i + r # n
      <4>1. i + 1 \in 1 .. n - r /\ (i + 1) + r = (i + r) + 1 /\ i # Len(fifo')
        BY <1>4, <1>5, <2>1, <3>1, <3>4
      <4>2. fifo'[i + 1] = fifo[(i + r) + 1]
        BY <1>4, <4>1
      <4> QED
        BY <1>8, <3>1, <3>4, <4>1, <4>2
    <3> QED
      BY <3>2, <3>3, <3>4
  <2>2. CASE i \notin 1 .. n - r
    <3>1. fifo_write_en /\ i = Len(fifo')
      BY <1>4, <1>5, <2>2
    <3> QED
      BY <1>4, <1>6, <3>1
  <2> QED
    BY <2>1, <2>2
<1>10. HeadPlace' = IF fifo' = << >> THEN PackPlace' ELSE Place(fifo'[1])
  <2>1. CASE fifo_read_en(tready)
    <3>1. /\ n > 0 /\ 1 \in 1 .. n
          /\ HeadPlace' = IF 1 = n THEN PackPlace ELSE Place(fifo[1 + 1])
      BY <1>4, <1>7, <1>8, <2>1
    <3>2. CASE n = 1 /\ fifo_write_en
      <4>1. Len(fifo') = 1
        BY <1>4, <1>5, <2>1, <3>2
      <4>2. fifo'[1] = fifo_write_data
        BY <1>4, <3>2, <4>1
      <4>3. fifo' # << >>
        BY <1>4, <4>1
      <4>4. Place(fifo'[1]) = PackPlace
        BY <1>6, <3>2, <4>2
      <4> QED
        BY <1>6, <3>1, <3>2, <4>3, <4>4
    <3>3. CASE n = 1 /\ ~fifo_write_en
      <4>1. Len(fifo') = 0
        BY <1>4, <1>5, <2>1, <3>3
      <4> QED
        BY <1>4, <1>6, <3>1, <3>3, <4>1
    <3>4. CASE n > 1
      <4>1. Len(fifo') > 0 /\ fifo'[1] = fifo[1 + 1]
        BY <1>4, <1>5, <2>1, <3>4
      <4> QED
        BY <1>4, <3>1, <3>4, <4>1
    <3> QED
      BY <1>4, <3>1, <3>2, <3>3, <3>4
  <2>2. CASE ~fifo_read_en(tready) /\ n > 0
    <3>1. Len(fifo') > 0 /\ fifo'[1] = fifo[1]
      BY <1>4, <1>5, <2>2
    <3> QED
      BY <1>4, <1>7, <1>8, <2>2, <3>1
  <2>3. CASE ~fifo_read_en(tready) /\ n = 0
    <3>1. HeadPlace' = PackPlace
      BY <1>7, <1>8, <2>3
    <3>2. CASE fifo_write_en
      <4>1. Len(fifo') = 1
        BY <1>4, <1>5, <2>3, <3>2
      <4>2. fifo'[1] = fifo_write_data
        BY <1>4, <3>2, <4>1
      <4>3. fifo' # << >>
        BY <1>4, <4>1
      <4>4. Place(fifo'[1]) = PackPlace
        BY <1>6, <3>2, <4>2
      <4> QED
        BY <1>6, <3>1, <3>2, <4>3, <4>4
    <3>3. CASE ~fifo_write_en
      <4>1. Len(fifo') = 0
        BY <1>4, <1>5, <2>3, <3>3
      <4> QED
        BY <1>4, <1>6, <3>1, <3>3, <4>1
    <3> QED
      BY <3>2, <3>3
  <2> QED
    BY <1>4, <2>1, <2>2, <2>3
<1>11. /\ tvalid' => Sound(tword)' /\ Place(tword)' = OutPlace'
       /\ strm_state' = "S_TRANSFER" => Sound(q)' /\ Place(q)' = QPlace'
  BY <1>3, <1>7 DEF Sound, Place
<1>12. \A i \in 1 .. Len(fifo') :
         /\ Sound(fifo[i])'
         /\ After(Place(fifo[i]))' = IF i = Len(fifo') THEN PackPlace' ELSE Place(fifo'[i + 1])
  BY <1>3, <1>9 DEF Sound, After, Place
<1> QED
  BY <1>10, <1>11, <1>12 DEF WordsFollow

-----------------------------------------------------------------------------
(* The other actions: data. *)

\* The streamer is empty when a frame starts.
LEMMA SofData ==
  ASSUME Control, Sof, clean'
  PROVE  RegionTaken' /\ LinesStored' /\ WordsFollow'
<1>0. Drained
  BY DEF Sof
<1>1. Types /\ SameFrame /\ StreamFollows
  BY DEF Control
<1>2. /\ sensor' = [frame |-> 1 - sensor.frame, size |-> reg_roi.y_size,
                    sent |-> [i \in Lanes |-> 0], late |-> 0]
      /\ lane' = [i \in Lanes |-> [lane[i] EXCEPT !.wptr = 0, !.rptr = 0, !.used = 0,
                                                  !.rdy = FALSE]]
      /\ rx' = [roi |-> reg_roi, frame |-> sensor'.frame, line |-> 0, x |-> reg_roi.x_start]
      /\ sof_pending' = TRUE /\ hispi_state' = hispi_state /\ reg_roi' = reg_roi
      /\ sclk_roi' = sclk_roi
      /\ UNCHANGED packVars /\ UNCHANGED strmVars
  BY <1>0 DEF Sof, LinesDecoded
<1>3. state = "S_IDLE" /\ hispi_state = "S_IDLE" /\ ~frame_pending
  BY <1>0 DEF Drained
<1>4. StreamFollows
  BY <1>1
<1>5. /\ state' = "S_IDLE" /\ ~frame_pending' /\ hispi_state' # "S_INIT"
      /\ strm_state' = "S_IDLE" /\ fifo' = << >> /\ ~tvalid'
  BY <1>1, <1>2, <1>3, <1>4 DEF StreamFollows, packVars, strmVars
<1>6. Announced'
  BY <1>2 DEF Announced
<1>7. /\ rx'.roi = reg_roi /\ rx'.frame = sensor'.frame /\ rx'.line = 0
      /\ rx'.x = reg_roi.x_start
  BY <1>2
<1>8. RegionTaken'
  <2>1. sensor'.size = reg_roi.y_size
    BY <1>2
  <2> QED
    BY <1>2, <1>5, <1>6, <1>7, <2>1 DEF RegionTaken
<1>9. LinesStored'
  <2>1. Released' = 0 /\ ~InRow'
    BY <1>5, <1>6 DEF Released, InRow, Packing
  <2>2. ASSUME NEW i \in Lanes
        PROVE  /\ sensor'.sent[i] = 0 /\ lane'[i].wptr = 0 /\ lane'[i].rptr = 0
               /\ lane'[i].used = 0 /\ lane'[i].rdy = FALSE
    <3>1. lane[i] \in [wptr : Buffers, rptr : Buffers, used : Buffers, rdy : BOOLEAN,
                       ram : [Buffers -> Tags]]
      BY <1>1 DEF Types
    <3>2. sensor'.sent[i] = 0
      BY <1>2
    <3>3. lane'[i] = [lane[i] EXCEPT !.wptr = 0, !.rptr = 0, !.used = 0, !.rdy = FALSE]
      BY <1>2
    <3> QED
      BY <3>1, <3>2, <3>3
  <2>3. ASSUME NEW i \in Lanes PROVE Stored(lane'[i]) = 0
    <3>1. Stored(lane'[i]) = 0 + 0
      BY <2>2 DEF Stored, One
    <3> QED
      BY <3>1
  <2>4. \A k \in 0 .. MaxLines : ~(k < 0)
    BY <1>1, CurFacts
  <2>5. ASSUME NEW i \in Lanes
        PROVE  /\ sensor'.sent[i] = Released' + Stored(lane'[i]) /\ Stored(lane'[i]) <= 3
               /\ lane'[i].wptr = sensor'.sent[i] % 4 /\ lane'[i].rptr = Released' % 4
    <3>1. /\ sensor'.sent[i] = 0 /\ lane'[i].wptr = 0 /\ lane'[i].rptr = 0
          /\ Stored(lane'[i]) = 0
      BY <2>2, <2>3
    <3>2. 0 % 4 = 0 /\ 0 + 0 = 0 /\ 0 <= 3
      OBVIOUS
    <3> QED
      BY <2>1, <3>1, <3>2
  <2>6. ASSUME NEW i \in Lanes
        PROVE  \A k \in 0 .. MaxLines : Released' <= k /\ k < sensor'.sent[i] =>
                 lane'[i].ram[k % 4] = [frame |-> sensor'.frame, line |-> k]
    BY <2>2, <2>4
  <2> QED
    BY <2>1, <2>5, <2>6 DEF LinesStored, Stored
<1>10. WordsFollow'
  <2>1. PackPlace' = [line |-> 0, x |-> reg_roi.x_start]
    BY <1>6, <1>7 DEF PackPlace
  <2>2. HeadPlace' = [line |-> 0, x |-> reg_roi.x_start]
    BY <1>5, <1>7 DEF HeadPlace, QPlace, OutPlace
  <2>3. \A i \in 1 .. Len(fifo') : FALSE
    BY <1>5
  <2> QED
    BY <1>5, <2>1, <2>2, <2>3 DEF WordsFollow
<1> QED
  BY <1>8, <1>9, <1>10

\* Words and region look at neither lanes nor sent lines.
LEMMA StreamUntouched ==
  ASSUME RegionTaken, WordsFollow, UNCHANGED <<packVars, strmVars, rx>>,
         hispi_state' = hispi_state, sof_pending' = sof_pending, sclk_roi' = sclk_roi,
         sof_pending => reg_roi' = reg_roi,
         sensor'.size = sensor.size, sensor'.frame = sensor.frame
  PROVE  RegionTaken' /\ WordsFollow'
<1>1. Announced' <=> Announced
  BY DEF Announced, packVars
<1>2. RegionTaken'
  BY <1>1 DEF RegionTaken, LastRow, packVars
<1>3. PackPlace' = PackPlace
  BY <1>1 DEF PackPlace, PackX, RowPacked, Packing, One, packVars
<1>4. HeadPlace' = HeadPlace /\ QPlace' = QPlace /\ OutPlace' = OutPlace
  BY DEF HeadPlace, QPlace, OutPlace, After, strmVars
<1>5. WordsFollow'
  BY <1>3, <1>4 DEF WordsFollow, Sound, After, Place, strmVars
<1> QED
  BY <1>2, <1>5

LEMMA LanesUntouched ==
  ASSUME LinesStored, sensor' = sensor, lane' = lane, UNCHANGED packVars,
         hispi_state' = hispi_state, sof_pending' = sof_pending
  PROVE  LinesStored'
<1>1. Released' = Released /\ (InRow' <=> InRow)
  BY DEF Released, Announced, InRow, Packing, packVars
<1> QED
  BY <1>1 DEF LinesStored, Stored

\* A line ends on a lane that has a buffer free.
LEMMA LineDoneData ==
  ASSUME Control, LinesStored, NEW j \in Lanes, LineDone(j), clean'
  PROVE  LinesStored'
<1>1. Types
  BY DEF Control
<1> DEFINE l == lane[j]
           n == sensor.sent[j]
           tag == [frame |-> sensor.frame, line |-> n]
           next == (l.wptr + 1) % 4
<1>2. /\ n < sensor.size /\ ~l.rdy /\ l.used # 3 /\ n \in 0 .. MaxLines /\ l.used \in 0 .. 3
      /\ l.wptr \in Buffers /\ sensor.size \in 0 .. MaxLines /\ MaxLines \in Nat
  <2>1. n < sensor.size /\ ~l.rdy /\ l.used # 3
    BY DEF LineDone
  <2> QED
    BY <1>1, <2>1, CurFacts DEF Types, Buffers
<1>3. /\ lane' = [lane EXCEPT ![j] = [l EXCEPT !.ram[l.wptr] = tag, !.wptr = next, !.rdy = TRUE]]
      /\ sensor' = [sensor EXCEPT !.sent[j] = n + 1]
      /\ UNCHANGED hispiVars /\ UNCHANGED packVars
  BY DEF LineDone
<1>4. Released' = Released /\ (InRow' <=> InRow) /\ Released \in Nat
  BY <1>1, <1>3, CurFacts DEF Released, Announced, InRow, Packing, packVars, hispiVars
<1>5. /\ sensor'.frame = sensor.frame /\ sensor'.sent[j] = n + 1
      /\ \A i \in Lanes : i # j => sensor'.sent[i] = sensor.sent[i] /\ lane'[i] = lane[i]
  <2>1. /\ sensor \in [frame : {0, 1}, size : 0 .. MaxLines, sent : [Lanes -> 0 .. MaxLines],
                       late : Nat]
        /\ lane \in [Lanes -> [wptr : Buffers, rptr : Buffers, used : Buffers, rdy : BOOLEAN,
                               ram : [Buffers -> Tags]]]
    BY <1>1 DEF Types
  <2> DEFINE m == n + 1
             nl == [l EXCEPT !.ram[l.wptr] = tag, !.wptr = next, !.rdy = TRUE]
  <2>2. sensor' = [sensor EXCEPT !.sent[j] = m] /\ lane' = [lane EXCEPT ![j] = nl]
    BY <1>3
  <2> HIDE DEF m, nl
  <2>3. /\ sensor'.frame = sensor.frame /\ sensor'.sent[j] = m
        /\ \A i \in Lanes : i # j => sensor'.sent[i] = sensor.sent[i] /\ lane'[i] = lane[i]
    BY <2>1, <2>2
  <2> QED
    BY <2>3 DEF m
<1>6. /\ lane'[j].wptr = next /\ lane'[j].rptr = l.rptr /\ lane'[j].used = l.used
      /\ lane'[j].rdy = TRUE
      /\ lane'[j].ram = [l.ram EXCEPT ![l.wptr] = tag]
      /\ l.ram \in [Buffers -> Tags]
  <2>1. l \in [wptr : Buffers, rptr : Buffers, used : Buffers, rdy : BOOLEAN,
               ram : [Buffers -> Tags]]
    BY <1>1 DEF Types
  <2>2. lane'[j] = [l EXCEPT !.ram[l.wptr] = tag, !.wptr = next, !.rdy = TRUE]
    BY <1>1, <1>3 DEF Types
  <2> HIDE DEF tag, next, l
  <2> QED
    BY <2>1, <2>2
<1> HIDE DEF tag, next, l, n
<1>7. /\ n = Released + Stored(l) /\ l.wptr = n % 4 /\ l.rptr = Released % 4
      /\ InRow => l.used > 0
      /\ \A k \in 0 .. MaxLines : Released <= k /\ k < n =>
           l.ram[k % 4] = [frame |-> sensor.frame, line |-> k]
  BY DEF LinesStored, l, n
<1>8. Stored(l) = l.used /\ Stored(lane'[j]) = l.used + 1
  BY <1>2, <1>6 DEF Stored, One, l
<1>9. /\ sensor'.sent[j] = Released + Stored(lane'[j]) /\ Stored(lane'[j]) <= 3
      /\ lane'[j].wptr = sensor'.sent[j] % 4 /\ lane'[j].rptr = Released % 4
      /\ InRow => lane'[j].used > 0
  <2>1. l.used \in 0 .. 2 /\ n = Released + l.used
    BY <1>2, <1>7, <1>8 DEF l
  <2>2. sensor'.sent[j] = Released + Stored(lane'[j]) /\ Stored(lane'[j]) <= 3
    BY <1>4, <1>5, <1>8, <2>1
  <2>3. next = (n + 1) % 4
    <3>1. n \in Nat /\ next = ((n % 4) + 1) % 4
      BY <1>2, <1>7 DEF next, n
    <3> QED
      BY <3>1
  <2> QED
    BY <1>5, <1>6, <1>7, <2>2, <2>3
<1>10. ASSUME NEW k \in 0 .. MaxLines, Released <= k, k < sensor'.sent[j]
       PROVE  lane'[j].ram[k % 4] = [frame |-> sensor.frame, line |-> k]
  <2>1. n \in Nat /\ k \in Nat /\ k <= n /\ n <= k + 2 /\ l.wptr = n % 4
    <3>1. l.used \in 0 .. 2 /\ n = Released + l.used
      BY <1>2, <1>7, <1>8 DEF l
    <3> QED
      BY <1>2, <1>4, <1>5, <1>7, <1>10, <3>1 DEF n
  <2>2. l.wptr \in Buffers /\ k % 4 \in Buffers
    BY <1>2, <2>1 DEF Buffers, l
  <2>3. CASE k = n
    BY <1>6, <2>1, <2>2, <2>3 DEF tag
  <2>4. CASE k < n
    <3>1. k % 4 # n % 4
      BY <2>1, <2>4
    <3> QED
      BY <1>6, <1>7, <1>10, <2>1, <2>2, <2>4, <3>1
  <2> QED
    BY <2>1, <2>3, <2>4
<1>11. ASSUME NEW i \in Lanes, i # j
       PROVE  /\ sensor'.sent[i] = Released + Stored(lane'[i]) /\ Stored(lane'[i]) <= 3
              /\ lane'[i].wptr = sensor'.sent[i] % 4 /\ lane'[i].rptr = Released % 4
              /\ InRow => lane'[i].used > 0
              /\ \A k \in 0 .. MaxLines : Released <= k /\ k < sensor'.sent[i] =>
                   lane'[i].ram[k % 4] = [frame |-> sensor.frame, line |-> k]
  BY <1>5, <1>11 DEF LinesStored
<1>12. Stored(lane'[j]) <= 3
  BY <1>9
<1>13. \A i \in Lanes :
         /\ sensor'.sent[i] = Released + Stored(lane'[i]) /\ Stored(lane'[i]) <= 3
         /\ lane'[i].wptr = sensor'.sent[i] % 4 /\ lane'[i].rptr = Released % 4
         /\ InRow => lane'[i].used > 0
         /\ \A k \in 0 .. MaxLines : Released <= k /\ k < sensor'.sent[i] =>
              lane'[i].ram[k % 4] = [frame |-> sensor.frame, line |-> k]
  BY <1>9, <1>10, <1>11
<1> QED
  BY <1>4, <1>5, <1>13 DEF LinesStored, Stored

-----------------------------------------------------------------------------
(* The invariant, and what follows from it. *)

LEMMA InitInv ==
  Init => IInv
  BY ControlInit DEF Init, IInv, Data

LEMMA NextInv ==
  IInv /\ [Next]_vars => IInv'
<1> SUFFICES ASSUME IInv, [Next]_vars PROVE Data'
  BY ControlNext DEF IInv
<1>1. Control /\ (clean => RegionTaken /\ LinesStored /\ WordsFollow)
  BY DEF IInv, Data
<1>2. CASE Sof
  BY <1>1, <1>2, SofData DEF Data
<1>3. CASE SetRoi
  <2>1. /\ UNCHANGED <<packVars, strmVars, rx>> /\ hispi_state' = hispi_state
        /\ sof_pending' = sof_pending /\ sclk_roi' = sclk_roi /\ ~sof_pending
        /\ sensor' = sensor /\ lane' = lane /\ clean' = clean
    BY <1>3 DEF SetRoi, sensorVars
  <2> QED
    BY <1>1, <2>1, StreamUntouched, LanesUntouched DEF Data
<1>4. CASE Enable \/ SwCalib \/ DataPathOn
  <2>1. /\ UNCHANGED <<packVars, strmVars, rx>> /\ hispi_state' = hispi_state
        /\ sof_pending' = sof_pending /\ sclk_roi' = sclk_roi /\ reg_roi' = reg_roi
        /\ sensor' = sensor /\ lane' = lane /\ clean' = clean
    BY <1>4 DEF Enable, SwCalib, DataPathOn, sensorVars
  <2> QED
    BY <1>1, <2>1, StreamUntouched, LanesUntouched DEF Data
<1>5. CASE SwitchOff \/ HiSpiClr
  BY <1>5 DEF SwitchOff, HiSpiClr, Data
<1>6. ASSUME NEW i \in Lanes, LineDone(i) PROVE Data'
  <2>1. /\ UNCHANGED <<packVars, strmVars>> /\ hispi_state' = hispi_state
        /\ sof_pending' = sof_pending /\ sclk_roi' = sclk_roi /\ reg_roi' = reg_roi
        /\ clean' => clean /\ rx' = rx
    BY <1>6 DEF LineDone, hispiVars
  <2>2. sensor'.size = sensor.size /\ sensor'.frame = sensor.frame
    <3>1. sensor \in [frame : {0, 1}, size : 0 .. MaxLines, sent : [Lanes -> 0 .. MaxLines],
                      late : Nat]
      BY <1>1 DEF Control, Types
    <3> DEFINE n == sensor.sent[i] + 1
    <3>2. sensor' = [sensor EXCEPT !.sent[i] = n]
      BY <1>6 DEF LineDone
    <3> HIDE DEF n
    <3> QED
      BY <3>1, <3>2
  <2>3. clean' => RegionTaken' /\ WordsFollow'
    BY <1>1, <2>1, <2>2, StreamUntouched
  <2>4. clean' => LinesStored'
    BY <1>1, <1>6, <2>1, LineDoneData
  <2> QED
    BY <2>3, <2>4 DEF Data
<1>7. ASSUME NEW tready \in BOOLEAN, NEW ready \in BOOLEAN, NEW pulses \in SUBSET Lanes,
             Clock(tready, ready, pulses)
      PROVE  Data'
  <2>1. /\ HispiStep(ready) /\ RowStep /\ LaneStep(pulses) /\ sensor' = sensor
        /\ clean' = clean /\ pulses \subseteq {j \in Lanes : lane[j].rdy}
    BY <1>7 DEF Clock
  <2>2. Types /\ SameFrame /\ RowsCounted
    BY <1>1 DEF Control
  <2>3. clean => RegionTaken'
    BY <1>1, <1>7, <2>2, RegionTakenClock
  <2>4. clean => LinesStored'
    BY <1>1, <2>1, <2>2, LinesStoredClock
  <2>5. clean => WordsFollow'
    BY <1>1, <1>7, WordsFollowClock
  <2> QED
    BY <2>1, <2>3, <2>4, <2>5 DEF Data
<1>8. CASE UNCHANGED vars
  <2>1. /\ UNCHANGED <<packVars, strmVars, rx>> /\ hispi_state' = hispi_state
        /\ sof_pending' = sof_pending /\ sclk_roi' = sclk_roi /\ reg_roi' = reg_roi
        /\ sensor' = sensor /\ lane' = lane /\ clean' = clean
    BY <1>8 DEF vars, sensorVars, hispiVars, packVars, strmVars
  <2> QED
    BY <1>1, <2>1, StreamUntouched, LanesUntouched DEF Data
<1> QED
  BY <1>2, <1>3, <1>4, <1>5, <1>6, <1>7, <1>8 DEF Next

\* A line is whole on every lane while it is read, and not written over.
LEMMA HeldFollows ==
  IInv => LineHeld
<1> SUFFICES ASSUME IInv, clean,
                    state \in {"S_SOL", "S_LOAD_BURST_CNTR", "S_DATA_PHASE", "S_LAST_DATA"},
                    NEW i \in Lanes
             PROVE  /\ lane[i].wptr # lane[i].rptr
                    /\ lane[i].ram[lane[i].rptr] = [frame |-> sensor.frame, line |-> line_cntr]
  BY DEF LineHeld
<1>1. Types /\ SameFrame /\ RowsCounted /\ LinesStored
  BY DEF IInv, Control, Data
<1>2. InRow /\ ~Announced
  BY <1>1, AnnouncedIdle DEF InRow, Packing
<1>3. Released = line_cntr /\ line_cntr \in 0 .. MaxLines
  BY <1>1, <1>2, CurFacts DEF Released, RowsCounted
<1>4. /\ sensor.sent[i] = Released + Stored(lane[i]) /\ Stored(lane[i]) <= 3
      /\ lane[i].wptr = sensor.sent[i] % 4 /\ lane[i].rptr = Released % 4
      /\ lane[i].used > 0
      /\ \A k \in 0 .. MaxLines : Released <= k /\ k < sensor.sent[i] =>
           lane[i].ram[k % 4] = [frame |-> sensor.frame, line |-> k]
  BY <1>1, <1>2 DEF LinesStored
<1>5. Stored(lane[i]) \in 1 .. 3
  <2>1. lane[i].used \in 0 .. 3 /\ One(lane[i].rdy) \in {0, 1}
    BY <1>1 DEF Types, Buffers, One
  <2> QED
    BY <1>4, <2>1 DEF Stored
<1>6. lane[i].ram[lane[i].rptr] = [frame |-> sensor.frame, line |-> line_cntr]
  <2>1. line_cntr < sensor.sent[i] /\ Released <= line_cntr
    BY <1>3, <1>4, <1>5
  <2> QED
    BY <1>3, <1>4, <2>1
<1>7. lane[i].wptr # lane[i].rptr
  <2>1. \A a \in Nat, d \in 1 .. 3 : (a + d) % 4 # a % 4
    OBVIOUS
  <2> QED
    BY <1>3, <1>4, <1>5, <2>1
<1> QED
  BY <1>6, <1>7

\* The consumer has the whole frame when the streamer says it is done.
LEMMA WholeFollows ==
  IInv => FrameWhole
<1> SUFFICES ASSUME IInv PROVE FrameWhole
  OBVIOUS
<1>1. Types /\ SameFrame /\ RowsCounted /\ StreamFollows
  BY DEF IInv, Control
<1>2. StartNotMissed
  BY <1>1 DEF StartNotMissed, StreamFollows
<1>3. ASSUME clean, state = "S_DONE"
      PROVE  rx.line = rx.roi.y_size
  <2>1. RegionTaken /\ WordsFollow
    BY <1>3 DEF IInv, Data
  <2>2. ~Announced
    BY <1>1, <1>3, AnnouncedIdle
  <2>3. strm_state = "S_IDLE" /\ fifo = << >> /\ ~tvalid
    BY <1>1, <1>3 DEF StreamFollows
  <2>4. OutPlace = PackPlace
    BY <2>1, <2>3 DEF WordsFollow, HeadPlace, QPlace
  <2>5. PackPlace.line = line_cntr + 1
    BY <1>3, <2>2 DEF PackPlace, One
  <2>6. cur = rx.roi /\ line_cntr = cur.y_size - 1
    BY <1>1, <1>3, <2>1, <2>2 DEF RegionTaken, RowsCounted, LastRow
  <2>7. rx.line = line_cntr + 1
    BY <2>4, <2>5 DEF OutPlace
  <2> QED
    BY <1>1, <2>6, <2>7, CurFacts
<1> QED
  BY <1>2, <1>3 DEF FrameWhole

LEMMA OrderFollows ==
  IInv => StreamInOrder
<1> SUFFICES ASSUME IInv, clean, tvalid
             PROVE  /\ tword.tag = [frame |-> rx.frame, line |-> rx.line] /\ tword.x = rx.x
                    /\ tword.sync = Marks(rx.line, rx.x, rx.roi)
  BY DEF StreamInOrder
<1>1. Sound(tword) /\ Place(tword) = OutPlace
  BY DEF IInv, Data, WordsFollow
<1>2. tword.tag \in Tags
  BY DEF IInv, Control, Types, Words
<1>3. tword.tag.line = rx.line /\ tword.x = rx.x
  BY <1>1 DEF Place, OutPlace
<1>4. tword.tag.frame = rx.frame /\ tword.sync = Marks(tword.tag.line, tword.x, rx.roi)
  BY <1>1 DEF Sound
<1>5. tword.tag = [frame |-> rx.frame, line |-> rx.line]
  BY <1>2, <1>3, <1>4 DEF Tags
<1> QED
  BY <1>3, <1>4, <1>5

\* IInv holds in every state.
THEOREM Invariance == Spec => []IInv
  BY InitInv, NextInv, PTL DEF Spec

\* Lines are read whole, and no lane writes over one that is being read.
THEOREM LinesHeld == Spec => []LineHeld
  BY Invariance, HeldFollows, PTL

\* The two FSMs of the streamer never miss each other's frame, and the
\* streamer's done means that the consumer has all of it.
THEOREM FramesWhole == Spec => []FrameWhole
  BY Invariance, WholeFollows, PTL

\* The consumer gets the region of the frame, word by word, in order, with
\* its markers.
THEOREM OrderKept == Spec => []StreamInOrder
  BY Invariance, OrderFollows, PTL
================================================================================
