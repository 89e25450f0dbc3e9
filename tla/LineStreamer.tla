----------------------------- MODULE LineStreamer -----------------------------
(***************************************************************************)
(* From the sensor lanes to the video stream: the line buffers of the      *)
(* lanes (line_buffer.vhd), the HiSPi frame FSM (xgs_hispi_top.vhd) and    *)
(* the line streamer (axi_line_streamer.vhd) that cuts the region of       *)
(* interest out of each line, queues it in a FIFO and sends it as an       *)
(* AXI stream.  Clock is one rising edge of sclk.  The sensor completes    *)
(* its lines on a clock of its own, each lane for itself.                  *)
(* A word of eight pixels stands for its data: the line it is from and its *)
(* place in the line.                                                      *)
(***************************************************************************)
EXTENDS Integers, Sequences, FiniteSets

CONSTANTS Lanes,       \* the lanes in use
          Rois,        \* regions: [x_start, x_stop, y_size], x in words
          DataClocks,  \* clocks of a data phase: what the lanes hold of a line
          MaxLines,    \* lines of the highest region
          MaxLate,     \* bound: frames in a row that start on a busy streamer
          LateLines,   \* bound: lines of such a frame
          FifoWords    \* words of xoutput_fifo

Buffers == 0 .. 3      \* LINE_PTR_WIDTH = 2

(* A region is at least three words wide (the markers of the first and of  *)
(* the last word go through one register), the data phase reaches the word *)
(* after it, and the FIFO holds three rows of it.                          *)
ASSUME StreamerAssumption ==
  /\ Lanes # {} /\ Rois # {} /\ {DataClocks, MaxLines, MaxLate, LateLines, FifoWords} \subseteq Nat
  /\ \A r \in Rois : /\ r.x_start \in Nat /\ r.x_stop >= r.x_start + 2
                     /\ r.x_stop \in Nat /\ r.y_size \in 1 .. MaxLines
                     /\ 3 * (r.x_stop + 1 - r.x_start) <= FifoWords
                     /\ DataClocks >= 4 + r.x_stop + r.x_stop \div 3

VARIABLES sensor,        \* frame parity, lines it has, lines sent on each lane,
                         \* frames in a row that started late
          lane,          \* per lane: pointers, count, RAM, pulse on its way to sclk
          hispi_ctrl,    \* how far software is with HISPI.CTRL
          hispi_state, sof_pending, calibration_pending, sclk_roi, reg_roi,
          state, frame_pending, cur, line_cntr, last_row,
          data_cntr,     \* word, mux and lane counters of the data phase as one
          load_data, pixel_ptr, pixel_cntr, write_sync, pace,
          strm_state, fifo, q, read_data_valid, tvalid, tword,
          rx,            \* the word the consumer expects next (history)
          clean          \* the frame is one the streamer can deliver (history)

sensorVars == <<sensor, lane>>
hispiVars  == <<hispi_ctrl, hispi_state, sof_pending, calibration_pending, sclk_roi, reg_roi>>
packVars   == <<state, frame_pending, cur, line_cntr, last_row, data_cntr,
                load_data, pixel_ptr, pixel_cntr, write_sync, pace>>
strmVars   == <<strm_state, fifo, q, read_data_valid, tvalid, tword>>
vars       == <<sensorVars, hispiVars, packVars, strmVars, rx, clean>>

NoLine == [frame |-> 0, line |-> -1]
NoWord == [tag |-> NoLine, x |-> 0, sync |-> {}]
SomeRoi == CHOOSE r \in Rois : TRUE

LaneReset == [wptr |-> 0, rptr |-> 0, used |-> 0, rdy |-> FALSE,
              ram |-> [b \in Buffers |-> NoLine]]

(* Everything sclk_reset clears. *)
ResetHispi == /\ hispi_state = "S_DISABLED" /\ sof_pending = FALSE
              /\ calibration_pending = FALSE /\ sclk_roi = SomeRoi
ResetPacker == /\ state = "S_IDLE" /\ frame_pending = FALSE /\ cur = SomeRoi
               /\ line_cntr = 0 /\ last_row = FALSE /\ data_cntr = 0 /\ load_data = FALSE
               /\ pixel_ptr = 0 /\ pixel_cntr = 0 /\ write_sync = {} /\ pace = 0
ResetOutput == /\ strm_state = "S_IDLE" /\ fifo = << >> /\ q = NoWord
               /\ read_data_valid = FALSE /\ tvalid = FALSE /\ tword = NoWord

NoWordDue == [roi |-> SomeRoi, frame |-> 0, line |-> 0, x |-> 0]

Init == /\ ResetHispi /\ ResetPacker /\ ResetOutput /\ reg_roi \in Rois
        /\ sensor = [frame |-> 0, size |-> 0, sent |-> [i \in Lanes |-> 0], late |-> 0]
        /\ lane = [i \in Lanes |-> LaneReset] /\ hispi_ctrl = "cleared"
        /\ rx = NoWordDue /\ clean = FALSE

-----------------------------------------------------------------------------
(* The sensor. *)

FrameSent == \A i \in Lanes : sensor.sent[i] = sensor.size
Drained   == /\ state = "S_IDLE" /\ hispi_state = "S_IDLE"
             /\ ~sof_pending /\ ~frame_pending /\ \A i \in Lanes : ~lane[i].rdy

(* A frame starts, with the region in the registers, if the data path is   *)
(* on.  The lanes reset their buffers whatever the streamer still does: a  *)
(* frame is clean if it finds the streamer done with the one before, which *)
(* no code makes sure of; any other starts late.                           *)
LinesDecoded == IF Drained \/ reg_roi.y_size <= LateLines THEN reg_roi.y_size ELSE LateLines

Sof == /\ FrameSent /\ hispi_ctrl = "streaming" /\ (Drained \/ sensor.late < MaxLate)
       /\ sensor' = [frame |-> 1 - sensor.frame, size |-> LinesDecoded,
                     sent |-> [i \in Lanes |-> 0],
                     late |-> IF Drained THEN 0 ELSE sensor.late + 1]
       /\ lane' = [i \in Lanes |-> [lane[i] EXCEPT !.wptr = 0, !.rptr = 0, !.used = 0,
                                                   !.rdy = FALSE]]
       /\ sof_pending' = TRUE
       /\ clean' = Drained
       /\ rx' = IF Drained THEN [roi |-> reg_roi, frame |-> sensor'.frame, line |-> 0,
                                 x |-> reg_roi.x_start]
                ELSE NoWordDue
       /\ UNCHANGED <<hispi_ctrl, hispi_state, calibration_pending, sclk_roi, reg_roi,
                      packVars, strmVars>>

(* A lane ends a line: next buffer, and a pulse to the sclk domain.  A line*)
(* that ends while three are unread is an overrun (FIFO_OVERRUN): nothing  *)
(* stops it, the count wraps and the frame is lost.                        *)
LineDone(i) ==
  /\ sensor.sent[i] < sensor.size /\ ~lane[i].rdy
  /\ \A j \in Lanes : sensor.sent[i] <= sensor.sent[j]
  /\ LET l == lane[i] IN
     /\ lane' = [lane EXCEPT ![i] =
                   [l EXCEPT !.ram[l.wptr] = [frame |-> sensor.frame, line |-> sensor.sent[i]],
                             !.wptr = (@ + 1) % 4, !.rdy = TRUE]]
     /\ clean' = (clean /\ l.used # 3)
     /\ rx' = IF clean' THEN rx ELSE NoWordDue
  /\ sensor' = [sensor EXCEPT !.sent[i] = @ + 1]
  /\ UNCHANGED <<hispiVars, packVars, strmVars>>

(* Software: the region of the next frame, once this one has taken its own.*)
SetRoi == /\ ~sof_pending /\ hispi_state # "S_SOF"
          /\ reg_roi' \in Rois \ {reg_roi}
          /\ UNCHANGED <<sensorVars, hispi_ctrl, hispi_state, sof_pending,
                         calibration_pending, sclk_roi, packVars, strmVars, rx, clean>>

(* HISPI.CTRL.  HiSpiCalibrate switches interface and data path off, clears*)
(* them, enables the interface, calibrates, and only then switches the data*)
(* path on.  HiSpiClr switches both off and clears, which resets the       *)
(* streamer too; the data path goes 100 ms earlier, which a sensor that    *)
(* pauses stands for.  The lanes decode nothing of the rest of the frame.  *)
On         == {"enabled", "calibrating", "streaming"}
HispiCtrls == On \cup {"disabled", "cleared"}
RestIgnored == [sensor EXCEPT !.sent = [i \in Lanes |-> sensor.size]]

CtrlTo(from, to) == hispi_ctrl \in from /\ hispi_ctrl' = to
SwitchOff == /\ CtrlTo(On, "disabled")
             /\ sensor' = RestIgnored /\ clean' = FALSE /\ rx' = NoWordDue
             /\ UNCHANGED <<lane, hispi_state, sof_pending, calibration_pending, sclk_roi,
                            reg_roi, packVars, strmVars>>
Enable    == /\ CtrlTo({"cleared"}, "enabled")
             /\ UNCHANGED <<sensorVars, hispi_state, sof_pending, calibration_pending,
                            sclk_roi, reg_roi, packVars, strmVars, rx, clean>>
SwCalib   == /\ CtrlTo({"enabled"}, "calibrating") /\ calibration_pending' = TRUE
             /\ UNCHANGED <<sensorVars, hispi_state, sof_pending, sclk_roi, reg_roi,
                            packVars, strmVars, rx, clean>>
DataPathOn == /\ CtrlTo({"calibrating"}, "streaming")
              /\ hispi_state = "S_IDLE" /\ ~calibration_pending
              /\ UNCHANGED <<sensorVars, hispi_state, sof_pending, calibration_pending,
                             sclk_roi, reg_roi, packVars, strmVars, rx, clean>>

HiSpiClr == /\ hispi_ctrl' = "cleared" /\ hispi_state' = "S_DISABLED"
            /\ sof_pending' = FALSE
            /\ calibration_pending' = FALSE /\ sclk_roi' = SomeRoi /\ state' = "S_IDLE"
            /\ frame_pending' = FALSE /\ cur' = SomeRoi /\ line_cntr' = 0
            /\ last_row' = FALSE /\ data_cntr' = 0 /\ load_data' = FALSE /\ pixel_ptr' = 0
            /\ pixel_cntr' = 0 /\ write_sync' = {} /\ pace' = 0 /\ strm_state' = "S_IDLE"
            /\ fifo' = << >> /\ q' = NoWord /\ read_data_valid' = FALSE /\ tvalid' = FALSE
            /\ tword' = NoWord
            /\ lane' = [i \in Lanes |-> LaneReset]
            /\ sensor' = RestIgnored /\ clean' = FALSE /\ rx' = NoWordDue
            /\ UNCHANGED reg_roi

-----------------------------------------------------------------------------
(* xgs_hispi_top: one frame or one calibration at a time, and only while   *)
(* the interface is enabled; the flags and the streamer are not reset.     *)

frame_done == state = "S_DONE"
enable_hispi == hispi_ctrl \in On
init_frame == hispi_state = "S_INIT"

HispiNext(ready) ==  \* ready: PLL locked, calibration done
  IF ~enable_hispi THEN "S_DISABLED" ELSE
  CASE hispi_state = "S_DISABLED"          -> "S_RESET_PHY"
    [] hispi_state = "S_RESET_PHY"         -> IF ready THEN "S_IDLE" ELSE hispi_state
    [] hispi_state = "S_IDLE"              -> IF sof_pending THEN "S_SOF"
                                              ELSE IF calibration_pending THEN "S_START_CALIBRATION"
                                              ELSE hispi_state
    [] hispi_state = "S_START_CALIBRATION" -> "S_CALIBRATE"
    [] hispi_state = "S_CALIBRATE"         -> IF ready THEN "S_IDLE" ELSE hispi_state
    [] hispi_state = "S_SOF"               -> "S_INIT"
    [] hispi_state = "S_INIT"              -> "S_FRAME"
    [] hispi_state = "S_FRAME"             -> IF frame_done THEN "S_EOF" ELSE hispi_state
    [] hispi_state = "S_EOF"               -> "S_DONE"
    [] hispi_state = "S_DONE"              -> "S_IDLE"

HispiStep(ready) ==
  /\ hispi_state' = HispiNext(ready)
  /\ sof_pending' = (sof_pending /\ hispi_state # "S_SOF")
  /\ calibration_pending' = (calibration_pending /\ hispi_state # "S_START_CALIBRATION")
  /\ sclk_roi' = IF hispi_state = "S_SOF" THEN reg_roi ELSE sclk_roi
  /\ UNCHANGED <<hispi_ctrl, reg_roi>>

-----------------------------------------------------------------------------
(* axi_line_streamer, packing side. *)

RowAvailable == (\A i \in Lanes : lane[i].used # 0) /\ pace < 3
last_data    == data_cntr = DataClocks - 1

StateNext ==
  CASE state = "S_IDLE"            -> IF frame_pending THEN "S_SOF" ELSE state
    [] state \in {"S_SOF", "S_EOL"} -> "S_WAIT_SOL"
    [] state = "S_WAIT_SOL"        -> IF RowAvailable THEN "S_SOL" ELSE state
    [] state = "S_SOL"             -> "S_LOAD_BURST_CNTR"
    [] state = "S_LOAD_BURST_CNTR" -> "S_DATA_PHASE"
    [] state = "S_DATA_PHASE"      -> IF last_data THEN "S_LAST_DATA" ELSE state
    [] state = "S_LAST_DATA"       -> IF last_row THEN "S_EOF" ELSE "S_EOL"
    [] state = "S_EOF"             -> "S_WAIT_STREAMER_DONE"
    [] state = "S_WAIT_STREAMER_DONE" -> IF strm_state = "S_DONE" THEN "S_DONE" ELSE state
    [] state = "S_DONE"            -> "S_IDLE"

LastRowLate ==  \* mutant: the last row is y_start + y_size
  CASE state \in {"S_SOF", "S_EOF"} -> FALSE
    [] state = "S_SOL" -> last_row \/ line_cntr = cur.y_size
    [] OTHER -> last_row

LastRowEarly ==  \* mutant: one is subtracted twice
  CASE state \in {"S_SOF", "S_EOF"} -> FALSE
    [] state = "S_SOL" -> last_row \/ line_cntr + 2 >= cur.y_size
    [] OTHER -> last_row

LastRowNext == CASE state \in {"S_SOF", "S_EOF"} -> FALSE
                 [] state = "S_SOL" -> last_row \/ line_cntr = cur.y_size - 1
                 [] OTHER -> last_row

RowStep == /\ state' = StateNext
           /\ frame_pending' = (init_frame \/ (frame_pending /\ state # "S_SOF"))
           /\ cur' = IF state = "S_SOF" THEN sclk_roi ELSE cur
           /\ line_cntr' = CASE state = "S_SOF" -> 0
                             [] state = "S_EOL" -> line_cntr + 1
                             [] OTHER -> line_cntr
           /\ last_row' = LastRowNext
           /\ data_cntr' = IF state = "S_DATA_PHASE" /\ ~last_data THEN data_cntr + 1 ELSE 0

(* Six pixels are loaded on a clock and eight leave as a word. *)
packer_rdy    == state = "S_DATA_PHASE" /\ pixel_ptr > 7
valid_x_roi   == pixel_cntr >= cur.x_start /\ pixel_cntr <= cur.x_stop
fifo_write_en == load_data /\ packer_rdy /\ valid_x_roi

PackerStep ==
  /\ load_data' = (state = "S_DATA_PHASE")
  /\ pixel_ptr' = CASE state = "S_SOL" -> 0
                    [] state # "S_SOL" /\ load_data -> IF pixel_ptr < 8 THEN pixel_ptr + 6
                                                                       ELSE pixel_ptr - 2
                    [] OTHER -> pixel_ptr
  /\ pixel_cntr' = CASE state = "S_SOL" -> 0
                     [] packer_rdy -> pixel_cntr + 1
                     [] OTHER -> pixel_cntr

(* The markers that go with the next word of the region. *)
EndMark == {IF last_row THEN "EOF" ELSE "EOL"}
SyncClearedFirst ==  \* mutant: the write of a word wins over the end marker
  IF state = "S_SOF" THEN {"SOF"}
  ELSE IF state = "S_SOL" /\ "SOF" \notin write_sync THEN write_sync \cup {"SOL"}
  ELSE IF fifo_write_en THEN {}
  ELSE IF packer_rdy /\ pixel_cntr = cur.x_stop - 1 THEN write_sync \cup EndMark
  ELSE write_sync
SyncNext ==
  IF state = "S_SOF" THEN {"SOF"}
  ELSE IF state = "S_SOL" /\ "SOF" \notin write_sync THEN write_sync \cup {"SOL"}
  ELSE IF packer_rdy /\ pixel_cntr = cur.x_stop - 1 THEN write_sync \cup EndMark
  ELSE IF fifo_write_en THEN {} ELSE write_sync

LineRead == LET lines == {lane[i].ram[lane[i].rptr] : i \in Lanes}
            IN IF \E l \in lines : lines = {l} THEN CHOOSE l \in lines : TRUE ELSE NoLine
fifo_write_data == [tag |-> LineRead, x |-> pixel_cntr, sync |-> write_sync]

(* line_buffer, sclk side: a line came in, a line was streamed. *)
transfer_done == state \in {"S_EOL", "S_EOF"}
UsedReadyFirst(used, ready) ==  \* mutant: both pulses on one clock count up
  CASE ready -> (used + 1) % 4
    [] ~ready /\ transfer_done -> (used - 1) % 4
    [] OTHER -> used
UsedNext(used, ready) == CASE ready /\ ~transfer_done -> (used + 1) % 4
                           [] ~ready /\ transfer_done -> (used - 1) % 4
                           [] OTHER -> used
LaneStep(pulses) ==
  lane' = [i \in Lanes |->
             [lane[i] EXCEPT !.rptr = IF transfer_done THEN (@ + 1) % 4 ELSE @,
                             !.used = UsedNext(@, i \in pulses),
                             !.rdy  = @ /\ i \notin pulses]]

-----------------------------------------------------------------------------
(* axi_line_streamer, stream side: whole rows only, as fast as the consumer*)
(* takes them.                                                             *)

m_wait(tready) == tvalid /\ ~tready
RowEnd(w)      == w.sync \cap {"EOL", "EOF"} # {}

incr_pace         == transfer_done
decr_pace(tready) == ~m_wait(tready) /\ strm_state = "S_TRANSFER" /\ RowEnd(q)
PaceIncrFirst(tready) ==  \* mutant: both events on one clock count up
  CASE state = "S_SOF" -> 0
    [] state # "S_SOF" /\ incr_pace -> (pace + 1) % 4
    [] state # "S_SOF" /\ ~incr_pace /\ decr_pace(tready) -> (pace - 1) % 4
    [] OTHER -> pace
PaceNext(tready)  ==
  CASE state = "S_SOF"                              -> 0
    [] state # "S_SOF" /\ incr_pace /\ ~decr_pace(tready) -> (pace + 1) % 4
    [] state # "S_SOF" /\ ~incr_pace /\ decr_pace(tready) -> (pace - 1) % 4
    [] OTHER                                        -> pace

StrmNext ==
  CASE strm_state = "S_IDLE"     -> IF state = "S_SOF" THEN "S_WAIT_ROW" ELSE strm_state
    [] strm_state = "S_WAIT_ROW" -> IF pace > 0 /\ fifo # << >> THEN "S_PREFETCH" ELSE strm_state
    [] strm_state = "S_PREFETCH" -> "S_TRANSFER"
    [] strm_state = "S_TRANSFER" -> IF "EOF" \in q.sync THEN "S_EOF"
                                    ELSE IF "EOL" \in q.sync THEN "S_EOL" ELSE strm_state
    [] strm_state = "S_EOL"      -> "S_WAIT_ROW"
    [] strm_state = "S_EOF"      -> "S_DONE"
    [] strm_state = "S_DONE"     -> "S_IDLE"

fifo_read_en(tready) ==
  /\ fifo # << >> /\ ~m_wait(tready)
  /\ strm_state = "S_PREFETCH" \/ (strm_state = "S_TRANSFER" /\ ~RowEnd(q))

FifoStep(tready) ==
  LET rest == IF fifo_read_en(tready) THEN Tail(fifo) ELSE fifo
  IN /\ fifo' = IF fifo_write_en THEN Append(rest, fifo_write_data) ELSE rest
     /\ q' = IF fifo_read_en(tready) THEN Head(fifo) ELSE q

StreamStep(tready) ==
  /\ pace' = PaceNext(tready)
  /\ strm_state' = IF m_wait(tready) THEN strm_state ELSE StrmNext
  /\ FifoStep(tready)
  /\ read_data_valid' = (fifo_read_en(tready) \/ (m_wait(tready) /\ read_data_valid))
  /\ tvalid' = IF m_wait(tready) THEN tvalid ELSE read_data_valid
  /\ tword'  = IF ~m_wait(tready) /\ read_data_valid THEN q ELSE tword

(* What the consumer expects after the word it takes on this clock. *)
Consumed(tready) ==
  rx' = CASE ~(clean /\ tvalid /\ tready) -> rx
          [] clean /\ tvalid /\ tready /\ rx.x < rx.roi.x_stop -> [rx EXCEPT !.x = @ + 1]
          [] clean /\ tvalid /\ tready /\ rx.x >= rx.roi.x_stop ->
               [rx EXCEPT !.x = rx.roi.x_start, !.line = @ + 1]

Clock(tready, ready, pulses) ==
  /\ pulses \subseteq {i \in Lanes : lane[i].rdy}
  /\ HispiStep(ready) /\ RowStep /\ PackerStep /\ write_sync' = SyncNext
  /\ LaneStep(pulses) /\ StreamStep(tready) /\ Consumed(tready)
  /\ UNCHANGED <<sensor, clean>>

Next == \/ Sof \/ SetRoi \/ SwitchOff \/ HiSpiClr \/ Enable \/ SwCalib \/ DataPathOn
        \/ \E i \in Lanes : LineDone(i)
        \/ \E tready, ready \in BOOLEAN, pulses \in SUBSET Lanes : Clock(tready, ready, pulses)

(* The clock runs, the sensor ends the lines of a frame, the consumer is   *)
(* ready again and again, and so are the PLL and the calibration.          *)
FastClock == Clock(TRUE, TRUE, {i \in Lanes : lane[i].rdy})
Spec == /\ Init /\ [][Next]_vars
        /\ WF_vars(FastClock)
        /\ \A i \in Lanes : WF_vars(LineDone(i))
-----------------------------------------------------------------------------
TypeOK ==
  /\ \A i \in Lanes : /\ lane[i].wptr \in Buffers /\ lane[i].rptr \in Buffers
                       /\ lane[i].used \in 0 .. 3 /\ lane[i].rdy \in BOOLEAN
                       /\ sensor.sent[i] \in 0 .. MaxLines
  /\ {sclk_roi, reg_roi, cur} \subseteq Rois
  /\ line_cntr \in 0 .. MaxLines - 1 /\ data_cntr \in 0 .. DataClocks - 1
  /\ pixel_ptr \in {0, 6, 8, 10, 12} /\ pixel_cntr \in 0 .. DataClocks /\ pace \in 0 .. 3
  /\ Len(fifo) <= FifoWords
  /\ {sof_pending, calibration_pending, frame_pending, last_row, load_data,
      read_data_valid, tvalid, clean} \subseteq BOOLEAN

(* The stream is the region of the frame: every word of it once, in order, *)
(* with the markers SOF, SOL, EOL and EOF where the pipeline expects them, *)
(* however the consumer stalls and the lanes are skewed.                   *)
Marks(line, x, roi) ==
  {m \in {"SOF", "SOL", "EOL", "EOF"} :
     CASE m = "SOF" -> x = roi.x_start /\ line = 0
       [] m = "SOL" -> x = roi.x_start /\ line # 0
       [] m = "EOL" -> x = roi.x_stop /\ line # roi.y_size - 1
       [] m = "EOF" -> x = roi.x_stop /\ line = roi.y_size - 1}
StreamInOrder ==
  clean /\ tvalid =>
    /\ tword.tag = [frame |-> rx.frame, line |-> rx.line] /\ tword.x = rx.x
    /\ tword.sync = Marks(rx.line, rx.x, rx.roi)

(* The stream FSM looks for the start of a frame on one clock only, and not*)
(* while it is stalled: on that clock it is always parked.                 *)
StartNotMissed == state = "S_SOF" => strm_state = "S_IDLE" /\ ~tvalid

(* The two FSMs of the streamer are in the same frame: neither misses its  *)
(* start, and frame_done, which ends it in xgs_hispi_top and lets the next *)
(* one in, comes when the consumer has the whole frame.                    *)
FrameWhole == StartNotMissed /\ (clean /\ state = "S_DONE" => rx.line = rx.roi.y_size)

(* The counters stay in their ranges; stream_pace_cntr, of two bits, never *)
(* wraps: it is the number of whole rows in the FIFO, the one that is      *)
(* counted on this clock included.                                         *)
RowEnds == Cardinality({i \in DOMAIN fifo : RowEnd(fifo[i])})
PaceCountsRows ==
  TypeOK /\
  pace + (IF state \in {"S_DATA_PHASE", "S_LAST_DATA", "S_EOL", "S_EOF"}
             /\ pixel_cntr > cur.x_stop THEN 1 ELSE 0)
    = RowEnds + (IF strm_state \in {"S_TRANSFER"} /\ RowEnd(q) THEN 1 ELSE 0)

(* A line is read out of the lanes when all of them have it, and until it  *)
(* is streamed no lane writes over it.                                     *)
LineHeld ==
  clean /\ state \in {"S_SOL", "S_LOAD_BURST_CNTR", "S_DATA_PHASE", "S_LAST_DATA"} =>
    \A i \in Lanes : /\ lane[i].wptr # lane[i].rptr
                     /\ lane[i].ram[lane[i].rptr] = [frame |-> sensor.frame, line |-> line_cntr]

(* Every frame that finds the streamer done with the one before is streamed*)
(* to its end, unless a lane overruns, the next frame comes early or       *)
(* software switches the interface off.                                    *)
FrameStreamed == sof_pending /\ clean ~> hispi_state = "S_EOF" \/ ~clean
================================================================================
