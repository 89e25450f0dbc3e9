------------------------ MODULE LineStreamerInvariant -------------------------
(***************************************************************************)
(* The inductive invariant of the line streamer.  The first half holds in  *)
(* every frame, also in one that overran, started late or was switched off:*)
(* the FSMs are in the same frame, the packer's counters agree, and the    *)
(* rows in the FIFO are what stream_pace_cntr counts.  The second half is  *)
(* about clean frames: the lanes hold the lines that are not streamed, and *)
(* the words from the packer to the consumer follow one another.           *)
(***************************************************************************)
EXTENDS LineStreamer

Marking == SUBSET {"SOF", "SOL", "EOL", "EOF"}
Tags    == [frame : {0, 1}, line : -1 .. MaxLines]
Words   == [tag : Tags, x : 0 .. DataClocks, sync : Marking]

Types ==
  /\ sensor \in [frame : {0, 1}, size : 0 .. MaxLines, sent : [Lanes -> 0 .. MaxLines],
                 late : Nat]
  /\ hispi_ctrl \in HispiCtrls
  /\ lane \in [Lanes -> [wptr : Buffers, rptr : Buffers, used : Buffers, rdy : BOOLEAN,
                         ram : [Buffers -> Tags]]]
  /\ hispi_state \in {"S_DISABLED", "S_RESET_PHY", "S_IDLE", "S_START_CALIBRATION",
                      "S_CALIBRATE", "S_SOF", "S_INIT", "S_FRAME", "S_EOF", "S_DONE"}
  /\ state \in {"S_IDLE", "S_SOF", "S_WAIT_SOL", "S_SOL", "S_LOAD_BURST_CNTR",
                "S_DATA_PHASE", "S_LAST_DATA", "S_EOL", "S_EOF", "S_WAIT_STREAMER_DONE",
                "S_DONE"}
  /\ strm_state \in {"S_IDLE", "S_WAIT_ROW", "S_PREFETCH", "S_TRANSFER", "S_EOL", "S_EOF",
                     "S_DONE"}
  /\ reg_roi \in Rois /\ sclk_roi \in Rois /\ cur \in Rois
  /\ line_cntr \in Nat /\ data_cntr \in 0 .. DataClocks - 1
  /\ pixel_ptr \in {0, 6, 8, 10, 12} /\ pixel_cntr \in 0 .. DataClocks
  /\ write_sync \in Marking /\ pace \in 0 .. 3
  /\ fifo \in Seq(Words) /\ q \in Words /\ tword \in Words
  /\ rx \in [roi : Rois, frame : {0, 1}, line : Nat, x : Nat]
  /\ sof_pending \in BOOLEAN /\ calibration_pending \in BOOLEAN
  /\ frame_pending \in BOOLEAN /\ last_row \in BOOLEAN /\ load_data \in BOOLEAN
  /\ read_data_valid \in BOOLEAN /\ tvalid \in BOOLEAN
  /\ clean \in BOOLEAN

-----------------------------------------------------------------------------
(* Control. *)

(* xgs_hispi_top and the packing FSM are in the same frame; switched off,  *)
(* the first is out of it, and the second ends it alone or is cleared.     *)
SwitchedOff == hispi_ctrl = "disabled" /\ hispi_state = "S_DISABLED"
InFrame     == hispi_state = "S_FRAME" \/ SwitchedOff
SameFrame ==
  /\ state # "S_IDLE" => InFrame
  /\ hispi_state = "S_FRAME" /\ state = "S_IDLE" => frame_pending
  /\ frame_pending => InFrame /\ state \in {"S_IDLE", "S_SOF"}
  /\ state = "S_SOF" => frame_pending
  /\ hispi_ctrl = "cleared" => hispi_state = "S_DISABLED"
  /\ hispi_state = "S_SOF" => sof_pending
  /\ clean => /\ hispi_ctrl = "streaming" /\ hispi_state # "S_DISABLED"
              /\ hispi_state \in {"S_INIT", "S_FRAME", "S_EOF", "S_DONE"} => ~sof_pending

Packing == state \in {"S_DATA_PHASE", "S_LAST_DATA", "S_EOL", "S_EOF"}
InRow   == Packing \/ state \in {"S_SOL", "S_LOAD_BURST_CNTR"}

(* The counters of a row: 6 pixels in, 8 out; the last word of the region  *)
(* is out before the data phase ends.                                      *)
RowCounters ==
  /\ state # "S_DATA_PHASE" => data_cntr = 0
  /\ load_data <=> (state = "S_DATA_PHASE" /\ data_cntr > 0) \/ state = "S_LAST_DATA"
  /\ state = "S_LOAD_BURST_CNTR" => pixel_ptr = 0 /\ pixel_cntr = 0
  /\ state = "S_DATA_PHASE" =>
       /\ data_cntr = 0 => pixel_ptr = 0 /\ pixel_cntr = 0
       /\ data_cntr > 0 => pixel_ptr = 6 * (data_cntr - 1) - 8 * pixel_cntr
  /\ state \in {"S_LAST_DATA", "S_EOL", "S_EOF"} => pixel_cntr > cur.x_stop

LastRow == line_cntr = cur.y_size - 1
RowsCounted ==
  /\ line_cntr < cur.y_size
  /\ last_row <=> (state \in {"S_LOAD_BURST_CNTR", "S_DATA_PHASE", "S_LAST_DATA", "S_EOF"}
                   /\ LastRow)
  /\ state = "S_EOL" => ~LastRow
  /\ state \in {"S_EOF", "S_WAIT_STREAMER_DONE", "S_DONE"} => LastRow

(* write_sync is what the next word of the region is to carry. *)
FirstMark == IF line_cntr = 0 THEN {"SOF"} ELSE {"SOL"}
MarkerReady ==
  /\ state \in {"S_WAIT_SOL", "S_SOL"} =>
       write_sync = IF line_cntr = 0 THEN {"SOF"} ELSE {}
  /\ state = "S_LOAD_BURST_CNTR" => write_sync = FirstMark
  /\ state = "S_DATA_PHASE" =>
       write_sync = IF pixel_cntr <= cur.x_start THEN FirstMark
                    ELSE IF pixel_cntr = cur.x_stop THEN EndMark ELSE {}
  /\ state \in {"S_LAST_DATA", "S_EOL"} => write_sync = {}

(* The stream FSM: idle between the frames, in a row when there is one. *)
StreamFollows ==
  /\ read_data_valid <=> strm_state = "S_TRANSFER"
  /\ tvalid => strm_state \in {"S_TRANSFER", "S_EOL", "S_EOF"}
  /\ strm_state = "S_IDLE" <=> state \in {"S_IDLE", "S_SOF", "S_DONE"}
  /\ strm_state \in {"S_EOF", "S_DONE"} => state = "S_WAIT_STREAMER_DONE"
  /\ strm_state \in {"S_IDLE", "S_EOF", "S_DONE"} => fifo = << >>
  /\ strm_state \in {"S_PREFETCH", "S_TRANSFER"} => pace > 0

RowPacked == Packing /\ pixel_cntr > cur.x_stop
Ends(s)   == {i \in 1 .. Len(s) : RowEnd(s[i])}
One(b)    == IF b THEN 1 ELSE 0

(* stream_pace_cntr and the row ends between the packer and tword. *)
RowsInFifo ==
  /\ pace + One(RowPacked) =
       Cardinality(Ends(fifo)) + One(strm_state = "S_TRANSFER" /\ RowEnd(q))
  /\ InRow => pace < 3

(* Only the last word of a frame carries EOF, nothing is behind it. *)
LastPacked == \/ state \in {"S_EOF", "S_WAIT_STREAMER_DONE"}
              \/ state \in {"S_DATA_PHASE", "S_LAST_DATA"} /\ last_row /\ RowPacked
EofIsLast ==
  /\ \A i \in 1 .. Len(fifo) : "EOF" \in fifo[i].sync => i = Len(fifo) /\ LastPacked
  /\ strm_state = "S_TRANSFER" /\ "EOF" \in q.sync => fifo = << >> /\ LastPacked

(* The words of the FIFO follow one another along the rows; the next one is*)
(* the packer's.                                                           *)
NextX(x) == IF x < cur.x_stop THEN x + 1 ELSE cur.x_start
PackX    == IF state = "S_DATA_PHASE" /\ cur.x_start < pixel_cntr /\ pixel_cntr <= cur.x_stop
            THEN pixel_cntr ELSE cur.x_start
HeadX    == IF fifo = << >> THEN PackX ELSE fifo[1].x
Width    == cur.x_stop + 1 - cur.x_start
WordsInOrder ==
  /\ \A i \in 1 .. Len(fifo) :
       /\ fifo[i].x \in cur.x_start .. cur.x_stop
       /\ RowEnd(fifo[i]) <=> fifo[i].x = cur.x_stop
       /\ NextX(fifo[i].x) = IF i = Len(fifo) THEN PackX ELSE fifo[i + 1].x
  /\ Len(fifo) = Width * Cardinality(Ends(fifo)) + (PackX - HeadX)

Control == /\ Types /\ SameFrame /\ RowCounters /\ RowsCounted /\ MarkerReady
           /\ StreamFollows /\ RowsInFifo /\ EofIsLast /\ WordsInOrder

-----------------------------------------------------------------------------
(* Data, while clean. *)

(* The frame is announced, its first row is not yet awaited. *)
Announced == sof_pending \/ hispi_state = "S_INIT" \/ frame_pending

(* The region travels with the frame. *)
RegionTaken ==
  /\ sensor.size = rx.roi.y_size /\ sensor.frame = rx.frame
  /\ sof_pending => reg_roi = rx.roi
  /\ hispi_state = "S_INIT" \/ frame_pending => sclk_roi = rx.roi
  /\ ~Announced => cur = rx.roi /\ (state = "S_IDLE" => LastRow)

(* The lines a lane has released, and those it holds. *)
Released == IF Announced THEN 0
            ELSE IF InRow \/ state = "S_WAIT_SOL" THEN line_cntr ELSE line_cntr + 1
Stored(l) == l.used + One(l.rdy)
LinesStored ==
  \A i \in Lanes :
    /\ sensor.sent[i] = Released + Stored(lane[i]) /\ Stored(lane[i]) <= 3
    /\ lane[i].wptr = sensor.sent[i] % 4 /\ lane[i].rptr = Released % 4
    /\ InRow => lane[i].used > 0
    /\ \A k \in 0 .. MaxLines : Released <= k /\ k < sensor.sent[i] =>
         lane[i].ram[k % 4] = [frame |-> sensor.frame, line |-> k]

(* Places of the region, and the words on them. *)
After(p) == IF p.x < rx.roi.x_stop THEN [line |-> p.line, x |-> p.x + 1]
            ELSE [line |-> p.line + 1, x |-> rx.roi.x_start]
Place(w) == [line |-> w.tag.line, x |-> w.x]
Sound(w) == w.tag.frame = rx.frame /\ w.sync = Marks(w.tag.line, w.x, rx.roi)

PackPlace == IF Announced THEN [line |-> 0, x |-> rx.roi.x_start]
             ELSE [line |-> line_cntr + One(RowPacked \/ state \in {"S_WAIT_STREAMER_DONE",
                                                                   "S_DONE", "S_IDLE"}),
                   x    |-> PackX]
OutPlace  == [line |-> rx.line, x |-> rx.x]
QPlace    == IF tvalid THEN After(OutPlace) ELSE OutPlace
HeadPlace == IF strm_state = "S_TRANSFER" THEN After(QPlace) ELSE QPlace

WordsFollow ==
  /\ tvalid => Sound(tword) /\ Place(tword) = OutPlace
  /\ strm_state = "S_TRANSFER" => Sound(q) /\ Place(q) = QPlace
  /\ HeadPlace = IF fifo = << >> THEN PackPlace ELSE Place(fifo[1])
  /\ \A i \in 1 .. Len(fifo) :
       /\ Sound(fifo[i])
       /\ After(Place(fifo[i])) = IF i = Len(fifo) THEN PackPlace ELSE Place(fifo[i + 1])

Data == clean => RegionTaken /\ LinesStored /\ WordsFollow

IInv == Control /\ Data
================================================================================
