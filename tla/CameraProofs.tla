------------------------------ MODULE CameraProofs ------------------------------
(***************************************************************************)
(* That every frame is stored with the DMA context of its own grab, for    *)
(* every programming of the mode registers, every length of delay, FOT,    *)
(* readout and exposure, and any number of contexts; and that the          *)
(* controller keeps its properties in the camera.                          *)
(***************************************************************************)
EXTENDS CameraInvariant, XgsProofs

-----------------------------------------------------------------------------
(* The clock. *)

\* What a clock is made of.
LEMMA CameraSteps ==
  ASSUME NEW cmd, NEW ext_trig, NEW exposure, NEW fot, NEW done, NEW start, NEW end,
         CameraClock(cmd, ext_trig, exposure, fot, done, start, end)
  PROVE  /\ Clock(cmd, ext_trig, exposure, fot, done, TRUE)
         /\ MayWrite(cmd) /\ FlagsStep(cmd) /\ GrabStep(cmd) /\ TrigStep(cmd)
         /\ ReadoutFlagStep /\ SoftwareStep(cmd)
         /\ MaySetDma(cmd) /\ MayMove(start, end, fot)
         /\ StrobeStep(cmd) /\ ContextStep /\ DmaSoftwareStep(cmd) /\ DmaStep(start, end)
BY ClockSteps DEF CameraClock

\* The parts of the invariant of the controller that the contexts need.
LEMMA ControllerFacts ==
  ASSUME IInv
  PROVE  /\ TypeOK /\ Types /\ Managers /\ Waiting /\ ReadoutFlag /\ GrabsQueued
         /\ EO_FOT => curr_grab_mngr_state = "wait_eo_fot" /\ grab_active
<1>1. TypeOK /\ Types /\ Managers /\ Waiting /\ ReadoutFlag /\ GrabsQueued
  BY DEF IInv, Control, Types, Managers
<1>2. EO_FOT => curr_grab_mngr_state = "wait_eo_fot"
  BY <1>1, GrabTriggered
<1> QED
  BY <1>1, <1>2 DEF GrabsQueued

-----------------------------------------------------------------------------
(* The strobes. *)

LEMMA SomeBit ==
  ASSUME NEW v, v[0]
  PROVE  AnyBit(v)
<1>1. 0 \in 0 .. 3
  OBVIOUS
<1> QED
  BY <1>1, Zenon DEF AnyBit

LEMMA ShiftBits ==
  ASSUME NEW v \in [0 .. 3 -> BOOLEAN], NEW bit \in BOOLEAN
  PROVE  /\ Shift(v, bit) \in [0 .. 3 -> BOOLEAN]
         /\ Shift(v, bit)[0] = bit
         /\ \A i \in 0 .. 2 : Shift(v, bit)[i + 1] = v[i]
         /\ ~AnyBit(v) => (AnyBit(Shift(v, bit)) <=> bit)
<1>1. Shift(v, bit) \in [0 .. 3 -> BOOLEAN]
  <2>1. \A i \in 0 .. 3 : (IF i = 0 THEN bit ELSE v[i - 1]) \in BOOLEAN
    OBVIOUS
  <2> QED
    BY <2>1 DEF Shift
<1>2. Shift(v, bit)[0] = bit
  BY DEF Shift
<1>3. \A i \in 0 .. 2 : Shift(v, bit)[i + 1] = v[i]
  BY DEF Shift
<1>4. ASSUME ~AnyBit(v) PROVE AnyBit(Shift(v, bit)) <=> bit
  <2>1. \A i \in 0 .. 3 : ~v[i]
    BY <1>4 DEF AnyBit
  <2>2. \A i \in 0 .. 2 : ~Shift(v, bit)[i + 1]
    BY <1>3, <2>1
  <2>3. \A i \in 1 .. 3 : ~Shift(v, bit)[i]
    <3> TAKE i \in 1 .. 3
    <3>1. i - 1 \in 0 .. 2 /\ (i - 1) + 1 = i
      OBVIOUS
    <3> QED
      BY <2>2, <3>1
  <2>4. AnyBit(Shift(v, bit)) => bit
    <3> SUFFICES ASSUME NEW i \in 0 .. 3, Shift(v, bit)[i] PROVE bit
      BY DEF AnyBit
    <3>1. i = 0
      BY <2>3
    <3> QED
      BY <1>2, <3>1
  <2>5. bit => AnyBit(Shift(v, bit))
    BY <1>2, SomeBit
  <2> QED
    BY <2>4, <2>5
<1> QED
  BY <1>1, <1>2, <1>3, <1>4

\* A strobe rises on the clock after its event, unless it is still up, and loads its
\* stage one clock later.
LEMMA StrobeMoves ==
  ASSUME ContextTypes, NEW cmd, StrobeStep(cmd), ContextStep
  PROVE  /\ Raised1' <=> ~AnyBit(strobe_DMA_P1_vector) /\ LoadP1(cmd)
         /\ Rising1' <=> Raised1
         /\ Raised2' <=> ~AnyBit(strobe_DMA_P2_vector) /\ EO_FOT
         /\ Rising2' <=> Raised2
         /\ LoadP1(cmd) => AnyBit(strobe_DMA_P1_vector')
<1>1. /\ strobe_DMA_P1_vector \in [0 .. 3 -> BOOLEAN]
      /\ strobe_DMA_P2_vector \in [0 .. 3 -> BOOLEAN]
  BY DEF ContextTypes
<1>2. LoadP1(cmd) \in BOOLEAN /\ EO_FOT \in BOOLEAN
  BY DEF LoadP1, EO_FOT
<1>3. /\ strobe_DMA_P1_vector' = Shift(strobe_DMA_P1_vector, LoadP1(cmd))
      /\ strobe_DMA_P2_vector' = Shift(strobe_DMA_P2_vector, EO_FOT)
      /\ strobe_DMA_P1' <=> AnyBit(strobe_DMA_P1_vector)
      /\ strobe_DMA_P2' <=> AnyBit(strobe_DMA_P2_vector)
      /\ context_strb_P1'[1] = strobe_DMA_P1 /\ context_strb_P1'[2] = strobe_DMA_P2
  BY DEF StrobeStep, ContextStep
<1>4. Rising1' <=> Raised1
  BY <1>3 DEF Rising1, Raised1
<1>5. Rising2' <=> Raised2
  BY <1>3 DEF Rising2, Raised2
<1>6. AnyBit(strobe_DMA_P1_vector)' <=> AnyBit(Shift(strobe_DMA_P1_vector, LoadP1(cmd)))
  BY <1>3 DEF AnyBit
<1>7. AnyBit(strobe_DMA_P2_vector)' <=> AnyBit(Shift(strobe_DMA_P2_vector, EO_FOT))
  BY <1>3 DEF AnyBit
<1>8. Raised1' <=> ~AnyBit(strobe_DMA_P1_vector) /\ LoadP1(cmd)
  BY <1>1, <1>2, <1>3, <1>6, ShiftBits DEF Raised1
<1>9. Raised2' <=> ~AnyBit(strobe_DMA_P2_vector) /\ EO_FOT
  BY <1>1, <1>2, <1>3, <1>7, ShiftBits DEF Raised2
<1>10. LoadP1(cmd) => AnyBit(strobe_DMA_P1_vector')
  <2>1. strobe_DMA_P1_vector'[0] = LoadP1(cmd)
    BY <1>1, <1>2, <1>3, ShiftBits
  <2> QED
    BY <2>1, SomeBit
<1> QED
  BY <1>4, <1>5, <1>8, <1>9, <1>10

\* Both events of the first strobe find the grab manager before its trigger, or take it
\* back there.
LEMMA FirstStrobeStep ==
  ASSUME IInv, ContextTypes, FirstStrobe, NEW cmd, GrabStep(cmd),
         StrobeStep(cmd), ContextStep
  PROVE  FirstStrobe'
<1>1. TypeOK /\ GrabsQueued /\ (EO_FOT => curr_grab_mngr_state = "wait_eo_fot")
  BY ControllerFacts
<1>2. ASSUME Raised1' PROVE BeforeTrigger' /\ curr_grab_mngr_state' # "trig"
  <2>1. CASE EO_FOT
    <3>1. curr_grab_mngr_state' \in {"idle", "sensor_reprog", "wait_end_rdo",
                                     "wait_end_deadwindow", "arm"}
      BY <1>1, <2>1, GrabFot DEF ReadyState
    <3> QED
      BY <3>1 DEF BeforeTrigger
  <2>2. CASE NewGrab(cmd)
    <3>1. curr_grab_mngr_state = "idle"
      BY <1>1, <2>2 DEF NewGrab, GrabsQueued
    <3>2. curr_grab_mngr_state' \in {"idle", "sensor_reprog", "arm"}
      BY <3>1, GrabBefore DEF BeforeTrigger
    <3> QED
      BY <3>2 DEF BeforeTrigger
  <2> QED
    BY <1>2, <2>1, <2>2, StrobeMoves DEF LoadP1
<1>3. ASSUME Rising1' PROVE BeforeTrigger'
  <2>1. Raised1
    BY <1>3, StrobeMoves
  <2> QED
    BY <2>1, GrabBefore DEF FirstStrobe
<1> QED
  BY <1>2, <1>3 DEF FirstStrobe

\* So no stage is loaded on the way from the trigger to the end of the FOT.
LEMMA NoneAhead ==
  ASSUME IInv, FirstStrobe, SO_FOT \/ FOT \/ EO_FOT
  PROVE  ~Raised1 /\ ~Rising1
<1>1. TypeOK /\ Managers
  BY ControllerFacts
<1>2. ~BetweenExposures
  BY DEF BetweenExposures, SO_FOT, FOT, EO_FOT
<1> QED
  BY <1>1, <1>2, GrabTriggered DEF FirstStrobe

\* The second strobe is over long before the next one begins.
LEMMA SecondStrobeStep ==
  ASSUME ContextTypes, SecondStrobe, NEW cmd, TrigStep(cmd), StrobeStep(cmd), ContextStep
  PROVE  SecondStrobe'
<1> DEFINE after1 == {"readout_state", "idle", "trigger", "wait_pet"}
           after2 == after1 \cup {"wait_exp_start"}
           after3 == after2 \cup {"single_slope", "exp_level"}
           after4 == after3 \cup {"monitoring"}
           after5 == after4 \cup {"SO_FOT_STATE"}
<1>1. /\ EO_FOT => TrigIn({"readout_state"})'
      /\ TrigIn({"readout_state"}) => TrigIn(after1)'
      /\ TrigIn(after1) => TrigIn(after2)'
      /\ TrigIn(after2) => TrigIn(after3)'
      /\ TrigIn(after3) => TrigIn(after4)'
      /\ TrigIn(after4) => TrigIn(after5)'
  BY DEF TrigStep, TrigMngr, TrigTo, TrigIn, EO_FOT
<1>2. /\ strobe_DMA_P2_vector \in [0 .. 3 -> BOOLEAN] /\ EO_FOT \in BOOLEAN
      /\ strobe_DMA_P2_vector' = Shift(strobe_DMA_P2_vector, EO_FOT)
      /\ strobe_DMA_P2' <=> AnyBit(strobe_DMA_P2_vector)
      /\ context_strb_P1'[2] = strobe_DMA_P2
  BY DEF ContextTypes, EO_FOT, StrobeStep, ContextStep
<1>3. /\ strobe_DMA_P2_vector'[0] <=> EO_FOT
      /\ \A i \in 0 .. 2 : strobe_DMA_P2_vector'[i + 1] = strobe_DMA_P2_vector[i]
  BY <1>2, ShiftBits
<1>4. /\ strobe_DMA_P2_vector'[1] = strobe_DMA_P2_vector[0]
      /\ strobe_DMA_P2_vector'[2] = strobe_DMA_P2_vector[1]
      /\ strobe_DMA_P2_vector'[3] = strobe_DMA_P2_vector[2]
  BY <1>3
<1>5. /\ strobe_DMA_P2_vector[0] => TrigIn({"readout_state"})
      /\ strobe_DMA_P2_vector[1] => TrigIn(after1)
      /\ strobe_DMA_P2_vector[2] => TrigIn(after2)
      /\ strobe_DMA_P2_vector[3] => TrigIn(after3)
      /\ strobe_DMA_P2 => TrigIn(after4)
      /\ context_strb_P1[2] => TrigIn(after5)
  BY DEF SecondStrobe, TrigIn
<1>6. AnyBit(strobe_DMA_P2_vector) => TrigIn(after3)
  <2> SUFFICES ASSUME NEW i \in 0 .. 3, strobe_DMA_P2_vector[i] PROVE TrigIn(after3)
    BY DEF AnyBit
  <2>1. i \in {0, 1, 2, 3}
    OBVIOUS
  <2> QED
    BY <1>5, <2>1 DEF TrigIn
<1>7. /\ strobe_DMA_P2_vector'[0] => TrigIn({"readout_state"})'
      /\ strobe_DMA_P2_vector'[1] => TrigIn(after1)'
      /\ strobe_DMA_P2_vector'[2] => TrigIn(after2)'
      /\ strobe_DMA_P2_vector'[3] => TrigIn(after3)'
      /\ strobe_DMA_P2' => TrigIn(after4)'
      /\ context_strb_P1'[2] => TrigIn(after5)'
  <2> HIDE DEF after1, after2, after3, after4, after5
  <2> QED
    BY <1>1, <1>2, <1>3, <1>4, <1>5, <1>6
<1> QED
  BY <1>7 DEF SecondStrobe, TrigIn

LEMMA SecondOver ==
  ASSUME SecondStrobe, EO_FOT
  PROVE  ~AnyBit(strobe_DMA_P2_vector) /\ ~Raised2 /\ ~Rising2
<1>1. ASSUME NEW i \in 0 .. 3 PROVE ~strobe_DMA_P2_vector[i]
  <2>1. i \in {0, 1, 2, 3}
    OBVIOUS
  <2> QED
    BY <2>1 DEF SecondStrobe, TrigIn, EO_FOT
<1>2. ~strobe_DMA_P2
  BY DEF SecondStrobe, TrigIn, EO_FOT
<1> QED
  BY <1>1, <1>2 DEF AnyBit, Raised2, Rising2

-----------------------------------------------------------------------------
(* The queue of contexts. *)

\* Tail and Append on a queue of at most two.
LEMMA QueueOfTwo ==
  ASSUME NEW S, NEW q \in Seq(S), NEW x \in S, NEW a \in BOOLEAN, NEW d \in BOOLEAN,
         d => a, Len(q) = (IF a THEN 1 ELSE 0) + (IF d THEN 1 ELSE 0)
  PROVE  /\ q # << >> <=> a
         /\ a => /\ Head(q) = q[1] /\ q[1] \in S
                 /\ Tail(q) \in Seq(S) /\ Len(Tail(q)) = IF d THEN 1 ELSE 0
                 /\ d => Tail(q)[1] = q[2]
         /\ ~d => /\ Append(q, x) \in Seq(S) /\ Len(Append(q, x)) = IF a THEN 2 ELSE 1
                  /\ Append(q, x)[IF a THEN 2 ELSE 1] = x
                  /\ a => Append(q, x)[1] = q[1]
<1>1. q # << >> <=> a
  BY EmptySeq
<1>2. ASSUME a
      PROVE  /\ Head(q) = q[1] /\ q[1] \in S
             /\ Tail(q) \in Seq(S) /\ Len(Tail(q)) = IF d THEN 1 ELSE 0
             /\ d => Tail(q)[1] = q[2]
  <2>1. Len(q) > 0 /\ Len(q) - 1 = IF d THEN 1 ELSE 0
    BY <1>2
  <2>2. Tail(q) \in Seq(S) /\ Len(Tail(q)) = Len(q) - 1
    BY <2>1, TailMoves
  <2>3. \A i \in 1 .. Len(q) - 1 : Tail(q)[i] = q[i + 1]
    BY <2>1, TailMoves
  <2>4. Head(q) = q[1] /\ q[1] \in S
    BY <1>1, <1>2, <2>1, HeadTailProperties, ElementOfSeq
  <2> QED
    BY <2>1, <2>2, <2>3, <2>4
<1>3. ASSUME ~d
      PROVE  /\ Append(q, x) \in Seq(S) /\ Len(Append(q, x)) = IF a THEN 2 ELSE 1
             /\ Append(q, x)[IF a THEN 2 ELSE 1] = x
             /\ a => Append(q, x)[1] = q[1]
  <2>1. /\ Append(q, x) \in Seq(S) /\ Len(Append(q, x)) = Len(q) + 1
        /\ \A i \in 1 .. Len(q) : Append(q, x)[i] = q[i]
        /\ Append(q, x)[Len(q) + 1] = x
    BY AppendMoves
  <2>2. Len(q) = IF a THEN 1 ELSE 0
    BY <1>3
  <2> QED
    BY <2>1, <2>2
<1> QED
  BY <1>1, <1>2, <1>3

LEMMA ContextFacts ==
  ASSUME IInv, ContextTypes, ContextsQueued
  PROVE  /\ grab_active \in BOOLEAN /\ grab_pending \in BOOLEAN
         /\ grab_pending => grab_active /\ ~sw_ready
         /\ dma_reg \in 0 .. Contexts - 1 /\ grab_context \in Seq(0 .. Contexts - 1)
         /\ Len(grab_context) = (IF grab_active THEN 1 ELSE 0) + (IF grab_pending THEN 1 ELSE 0)
BY ControllerFacts DEF TypeOK, GrabsQueued, ContextTypes, ContextsQueued, Queued

\* What a clock does to the registers and to the contexts of the queued grabs: a grab that
\* is first in the queue on an event of the first strobe has its context in the registers.
LEMMA ContextMoves ==
  ASSUME IInv, ContextTypes, ContextsQueued, NEW cmd, MayWrite(cmd), MaySetDma(cmd),
         FlagsStep(cmd), SoftwareStep(cmd), DmaSoftwareStep(cmd)
  PROVE  /\ grab_context' \in Seq(0 .. Contexts - 1)
         /\ ContextsQueued'
         /\ grab_active' =>
              IF LoadP1(cmd) THEN grab_context'[1] = dma_reg' /\ dma_reg' = dma_reg
              ELSE grab_active /\ grab_context'[1] = grab_context[1]
<1> DEFINE C == 0 .. Contexts - 1
<1>1. /\ grab_active \in BOOLEAN /\ grab_pending \in BOOLEAN
      /\ grab_pending => grab_active /\ ~sw_ready
      /\ dma_reg \in C /\ grab_context \in Seq(C)
      /\ Len(grab_context) = (IF grab_active THEN 1 ELSE 0) + (IF grab_pending THEN 1 ELSE 0)
  BY ContextFacts
<1>2. EO_FOT => grab_active
  BY ControllerFacts
<1>3. /\ sw_ready => dma_set
      /\ grab_pending => ~dma_set /\ grab_context[2] = dma_reg
  BY DEF ContextsQueued
<1>4. /\ cmd = "GRAB_CMD" => sw_ready /\ ~abort_grab_cmd /\ ~grab_pending
      /\ cmd = "SET_DMA" => ~grab_pending /\ ~dma_set
      /\ cmd = "PARAMS" => dma_set
  BY <1>1 DEF MayWrite, MaySetDma, PendingReadZero, abort_done, abort_grab_cmd
<1>5. sw_ready' => dma_set'
  BY <1>3, <1>4 DEF SoftwareStep, DmaSoftwareStep
<1>6. /\ cmd # "SET_DMA" => dma_reg' = dma_reg
      /\ cmd = "GRAB_CMD" => ~dma_set'
      /\ cmd \notin {"SET_DMA", "GRAB_CMD"} => dma_set' = dma_set
  BY DEF DmaSoftwareStep
<1>7. LoadP1(cmd) <=> (cmd = "GRAB_CMD" /\ ~grab_active) \/ EO_FOT
  BY DEF LoadP1, NewGrab
<1> HIDE DEF C
<1>8. CASE abort_grab_cmd
  <2>1. ~grab_active' /\ ~grab_pending' /\ grab_context' = << >>
    BY <1>8 DEF FlagsStep, DmaSoftwareStep
  <2>2. grab_context' \in Seq(C) /\ Len(grab_context') = 0
    BY <2>1
  <2> QED
    BY <1>5, <2>1, <2>2 DEF ContextsQueued, Queued, C
<1>9. CASE ~abort_grab_cmd /\ EO_FOT /\ cmd = "GRAB_CMD"
  <2>1. grab_active' /\ ~grab_pending' /\ ~grab_pending
    BY <1>2, <1>4, <1>9 DEF FlagsStep
  <2>2. grab_context # << >>
    BY <1>1, <1>2, <1>9, QueueOfTwo
  <2>3. grab_context' = Append(Tail(grab_context), dma_reg)
    BY <1>9, <2>2 DEF DmaSoftwareStep
  <2> DEFINE t == Tail(grab_context)
  <2>4. t \in Seq(C) /\ Len(t) = 0
    BY <1>1, <1>2, <1>9, <2>1, QueueOfTwo
  <2> HIDE DEF t
  <2>5. Append(t, dma_reg) \in Seq(C) /\ Len(Append(t, dma_reg)) = 1 /\ Append(t, dma_reg)[1] = dma_reg
    BY <1>1, <2>4, AppendMoves
  <2>6. grab_context' \in Seq(C) /\ Len(grab_context') = 1 /\ grab_context'[1] = dma_reg
    BY <2>3, <2>5 DEF t
  <2> QED
    BY <1>5, <1>6, <1>7, <1>9, <2>1, <2>6 DEF ContextsQueued, Queued, C
<1>10. CASE ~abort_grab_cmd /\ EO_FOT /\ cmd # "GRAB_CMD"
  <2>1. (grab_active' <=> grab_pending) /\ ~grab_pending'
    BY <1>10 DEF FlagsStep
  <2>2. grab_context # << >>
    BY <1>1, <1>2, <1>10, QueueOfTwo
  <2>3. grab_context' = Tail(grab_context)
    BY <1>10, <2>2 DEF DmaSoftwareStep
  <2>4. /\ grab_context' \in Seq(C) /\ Len(grab_context') = IF grab_pending THEN 1 ELSE 0
        /\ grab_pending => grab_context'[1] = grab_context[2]
    BY <1>1, <1>2, <1>10, <2>3, QueueOfTwo
  <2>5. grab_pending => cmd # "SET_DMA"
    BY <1>4
  <2> QED
    BY <1>3, <1>5, <1>6, <1>7, <1>10, <2>1, <2>4, <2>5 DEF ContextsQueued, Queued, C
<1>11. CASE ~abort_grab_cmd /\ ~EO_FOT /\ cmd = "GRAB_CMD"
  <2>1. grab_active' /\ (grab_pending' <=> grab_active) /\ ~grab_pending
    BY <1>4, <1>11 DEF FlagsStep
  <2>2. grab_context' = Append(grab_context, dma_reg)
    BY <1>11 DEF DmaSoftwareStep
  <2>3. /\ grab_context' \in Seq(C) /\ Len(grab_context') = IF grab_active THEN 2 ELSE 1
        /\ grab_context'[IF grab_active THEN 2 ELSE 1] = dma_reg
        /\ grab_active => grab_context'[1] = grab_context[1]
    BY <1>1, <2>1, <2>2, QueueOfTwo
  <2> QED
    BY <1>5, <1>6, <1>7, <1>11, <2>1, <2>3 DEF ContextsQueued, Queued, C
<1>12. CASE ~abort_grab_cmd /\ ~EO_FOT /\ cmd # "GRAB_CMD"
  <2>1. grab_active' = grab_active /\ grab_pending' = grab_pending
    BY <1>1, <1>12 DEF FlagsStep
  <2>2. grab_context' = grab_context
    BY <1>12 DEF DmaSoftwareStep
  <2>3. grab_pending => cmd # "SET_DMA"
    BY <1>4
  <2> QED
    BY <1>1, <1>3, <1>5, <1>6, <1>7, <1>12, <2>1, <2>2, <2>3 DEF ContextsQueued, Queued, C
<1> QED
  BY <1>8, <1>9, <1>10, <1>11, <1>12

-----------------------------------------------------------------------------
(* The stages. *)

LEMMA ContextTypesStep ==
  ASSUME IInv, ContextTypes, ContextsQueued, NEW cmd, NEW start, NEW end,
         StrobeStep(cmd), ContextStep, DmaSoftwareStep(cmd), DmaStep(start, end),
         grab_context' \in Seq(0 .. Contexts - 1)
  PROVE  ContextTypes'
<1> DEFINE C == 0 .. Contexts - 1
<1>1. /\ {strobe_DMA_P1_vector', strobe_DMA_P2_vector'} \subseteq [0 .. 3 -> BOOLEAN]
      /\ {strobe_DMA_P1', strobe_DMA_P2'} \subseteq BOOLEAN
      /\ context_strb_P1' \in BOOLEAN \X BOOLEAN
  <2>1. LoadP1(cmd) \in BOOLEAN /\ EO_FOT \in BOOLEAN
    BY DEF LoadP1, EO_FOT
  <2>2. /\ strobe_DMA_P1_vector' \in [0 .. 3 -> BOOLEAN]
        /\ strobe_DMA_P2_vector' \in [0 .. 3 -> BOOLEAN]
    BY <2>1, ShiftBits DEF StrobeStep, ContextTypes
  <2>3. {strobe_DMA_P1', strobe_DMA_P2'} \subseteq BOOLEAN
    BY DEF StrobeStep, AnyBit
  <2>4. context_strb_P1' \in BOOLEAN \X BOOLEAN
    BY DEF ContextStep, ContextTypes
  <2> QED
    BY <2>2, <2>3, <2>4
<1>2. dma_reg' \in C /\ dma_set' \in BOOLEAN
  <2>1. Contexts \in Nat \ {0} /\ dma_reg \in C /\ dma_set \in BOOLEAN
    BY CameraAssumption DEF ContextTypes
  <2>2. dma_reg' \in {dma_reg, (dma_reg + 1) % Contexts} /\ dma_set' \in {dma_set, TRUE, FALSE}
    BY DEF DmaSoftwareStep
  <2>3. (dma_reg + 1) % Contexts \in C
    BY <2>1
  <2> QED
    BY <2>1, <2>2, <2>3
<1>3. dma_context_p0' \in C /\ dma_context_p1' \in C
  BY DEF ContextStep, ContextTypes
<1>4. dma_frame' \in C
  <2>1. dma_frame \in C
    BY DEF ContextTypes
  <2>2. EO_FOT => Head(grab_context) \in C
    <3>1. EO_FOT => grab_active
      BY ControllerFacts
    <3>2. /\ grab_active \in BOOLEAN /\ grab_pending \in BOOLEAN /\ (grab_pending => grab_active)
          /\ dma_reg \in C /\ grab_context \in Seq(C)
          /\ Len(grab_context) = (IF grab_active THEN 1 ELSE 0) + (IF grab_pending THEN 1 ELSE 0)
      BY ContextFacts
    <3> HIDE DEF C
    <3> QED
      BY <3>1, <3>2, QueueOfTwo
  <2> QED
    BY <2>1, <2>2 DEF DmaStep
<1>5. dma' \in {"empty", "reading", "storing"}
  BY DEF DmaStep, ContextTypes
<1> QED
  BY <1>1, <1>2, <1>3, <1>4, <1>5 DEF ContextTypes

\* While the strobe lasts the registers are not written.
LEMMA RegistersHeld ==
  ASSUME NEW cmd, MaySetDma(cmd), DmaSoftwareStep(cmd),
         strobe_DMA_P1 \/ AnyBit(strobe_DMA_P1_vector) \/ Raised1 \/ Rising1
  PROVE  dma_reg' = dma_reg
<1>1. cmd # "SET_DMA"
  BY DEF MaySetDma, PendingReadZero, Raised1, Rising1
<1> QED
  BY <1>1 DEF DmaSoftwareStep

\* The first stage, once the strobe has risen, is what the registers hold.
LEMMA FirstLoaded ==
  ASSUME FirstStage, NEW cmd, MaySetDma(cmd), DmaSoftwareStep(cmd), ContextStep,
         strobe_DMA_P1
  PROVE  dma_context_p0' = dma_reg'
<1>1. dma_reg' = dma_reg
  BY RegistersHeld
<1>2. dma_context_p0' = IF Rising1 THEN dma_reg ELSE dma_context_p0
  BY DEF ContextStep, Rising1
<1> QED
  BY <1>1, <1>2 DEF FirstStage

LEMMA FirstStageStep ==
  ASSUME IInv, ContextTypes, FirstStage, NEW cmd, MaySetDma(cmd), StrobeStep(cmd), ContextStep,
         DmaSoftwareStep(cmd),
         grab_active' => IF LoadP1(cmd) THEN grab_context'[1] = dma_reg' /\ dma_reg' = dma_reg
                         ELSE grab_active /\ grab_context'[1] = grab_context[1]
  PROVE  FirstStage'
<1>1. /\ Raised1' <=> ~AnyBit(strobe_DMA_P1_vector) /\ LoadP1(cmd)
      /\ Rising1' <=> Raised1
      /\ strobe_DMA_P1' <=> AnyBit(strobe_DMA_P1_vector)
      /\ context_strb_P1'[1] = strobe_DMA_P1
  BY StrobeMoves DEF StrobeStep, ContextStep
<1>2. strobe_DMA_P1' /\ ~Rising1' => strobe_DMA_P1
  BY <1>1 DEF Rising1
<1>3. strobe_DMA_P1' /\ ~Rising1' => dma_context_p0' = dma_reg'
  BY <1>2, FirstLoaded
<1>4. ASSUME grab_active'
      PROVE  grab_context'[1] = IF Raised1' \/ Rising1' THEN dma_reg' ELSE dma_context_p0'
  <2>1. CASE LoadP1(cmd)
    <3>1. grab_context'[1] = dma_reg'
      BY <1>4, <2>1
    <3>2. ~Raised1' /\ ~Rising1' => strobe_DMA_P1'
      BY <1>1, <2>1
    <3> QED
      BY <1>3, <3>1, <3>2
  <2>2. CASE ~LoadP1(cmd)
    <3>1. ~Raised1' /\ grab_context'[1] = grab_context[1]
      BY <1>1, <1>4, <2>2
    <3>2. grab_context[1] = IF Raised1 \/ Rising1 THEN dma_reg ELSE dma_context_p0
      BY <1>4, <2>2 DEF FirstStage
    <3>3. CASE Raised1
      <4>1. dma_reg' = dma_reg
        BY <3>3, RegistersHeld
      <4> QED
        BY <1>1, <3>1, <3>2, <3>3, <4>1
    <3>4. CASE Rising1 /\ ~Raised1
      <4>1. strobe_DMA_P1 /\ dma_reg' = dma_reg
        BY <3>4, RegistersHeld DEF Rising1
      <4>2. dma_context_p0' = dma_reg'
        BY <4>1, FirstLoaded
      <4> QED
        BY <1>1, <3>1, <3>2, <3>4, <4>1, <4>2
    <3>5. CASE ~Raised1 /\ ~Rising1
      <4>1. dma_context_p0' = dma_context_p0
        BY <3>5 DEF ContextStep, Rising1
      <4> QED
        BY <1>1, <3>1, <3>2, <3>5, <4>1
    <3> QED
      BY <3>3, <3>4, <3>5
  <2> QED
    BY <2>1, <2>2
<1> QED
  BY <1>3, <1>4 DEF FirstStage

LEMMA SecondStageStep ==
  ASSUME IInv, ContextTypes, ContextsQueued, FirstStrobe, SecondStrobe, FirstStage, SecondStage,
         NEW cmd, NEW start, NEW end,
         StrobeStep(cmd), ContextStep, DmaStep(start, end)
  PROVE  SecondStage'
<1>1. /\ Raised2' <=> ~AnyBit(strobe_DMA_P2_vector) /\ EO_FOT
      /\ Rising1' <=> Raised1
      /\ Rising2' <=> Raised2
  BY StrobeMoves
<1>2. /\ dma_context_p0' = IF Rising1 THEN dma_reg ELSE dma_context_p0
      /\ dma_context_p1' = IF Rising2 THEN dma_context_p0 ELSE dma_context_p1
      /\ dma_frame' = IF EO_FOT THEN Head(grab_context) ELSE dma_frame
  BY DEF ContextStep, DmaStep, Rising1, Rising2
<1>3. CASE EO_FOT
  <2>1. ~Raised1 /\ ~Rising1
    BY <1>3, NoneAhead
  <2>2. Raised2'
    BY <1>1, <1>3, SecondOver
  <2>3. Head(grab_context) = grab_context[1] /\ grab_context[1] = dma_context_p0
    <3>1. grab_active
      BY <1>3, ControllerFacts
    <3>2. /\ grab_active \in BOOLEAN /\ grab_pending \in BOOLEAN /\ (grab_pending => grab_active)
          /\ dma_reg \in 0 .. Contexts - 1 /\ grab_context \in Seq(0 .. Contexts - 1)
          /\ Len(grab_context) = (IF grab_active THEN 1 ELSE 0) + (IF grab_pending THEN 1 ELSE 0)
      BY ContextFacts
    <3>3. Head(grab_context) = grab_context[1]
      BY <3>1, <3>2, QueueOfTwo
    <3> QED
      BY <2>1, <3>1, <3>3 DEF FirstStage
  <2> QED
    BY <1>1, <1>2, <1>3, <2>1, <2>2, <2>3 DEF SecondStage
<1>4. CASE ~EO_FOT
  <2>1. ~Raised2' /\ dma_frame' = dma_frame
    BY <1>1, <1>2, <1>4
  <2>2. CASE Raised2
    BY <1>1, <1>2, <2>1, <2>2 DEF SecondStage
  <2>3. CASE Rising2 /\ ~Raised2
    BY <1>1, <1>2, <2>1, <2>3 DEF SecondStage
  <2>4. CASE ~Rising2 /\ ~Raised2
    BY <1>1, <1>2, <2>1, <2>4 DEF SecondStage
  <2> QED
    BY <2>2, <2>3, <2>4
<1> QED
  BY <1>3, <1>4

\* A readout begins with its counter at its whole length, and the frame after FirstLine.
LEMMA NotBegunStep ==
  ASSUME IInv, ContextTypes, NotBegun, NEW cmd, NEW start, NEW end, NEW fot,
         ReadoutFlagStep, MayMove(start, end, fot), StrobeStep(cmd), ContextStep,
         DmaStep(start, end)
  PROVE  NotBegun'
<1> SUFFICES ASSUME FirstLine > 0
             PROVE  /\ Raised2' => /\ dma' # "storing" /\ readout_cntr2_armed'
                                   /\ readout_cntr2' = READOUT_LENGTH
                    /\ Rising2' => dma' # "storing"
  BY DEF NotBegun
<1>1. (Raised2' => EO_FOT) /\ (Rising2' => Raised2)
  BY StrobeMoves
<1>2. ASSUME EO_FOT
      PROVE  dma' # "storing" /\ readout_cntr2_armed' /\ readout_cntr2' = READOUT_LENGTH
  <2>1. ~readout_cntr2_armed
    BY <1>2, ControllerFacts DEF ReadoutFlag
  <2>2. dma' = "reading"
    BY <1>2 DEF DmaStep
  <2> QED
    BY <1>2, <2>1, <2>2 DEF ReadoutFlagStep
<1>3. ASSUME Raised2 PROVE dma' # "storing"
  <2>1. dma # "storing" /\ readout_cntr2_armed /\ readout_cntr2 = READOUT_LENGTH
    BY <1>3 DEF NotBegun
  <2>2. ~FirstLineOut
    BY <2>1, XgsCtrlAssumption, CameraAssumption DEF FirstLineOut
  <2>3. ~start
    BY <2>2 DEF MayMove
  <2> QED
    BY <2>1, <2>3 DEF DmaStep
<1> QED
  BY <1>1, <1>2, <1>3

-----------------------------------------------------------------------------
(* The invariant. *)

LEMMA CameraInitInvariant == CameraInit => CameraInv
<1> SUFFICES ASSUME CameraInit PROVE CameraInv
  OBVIOUS
<1>1. Init /\ IInv
  BY InitInvariant DEF CameraInit
<1>2. ~AnyBit(strobe_DMA_P1_vector) /\ ~AnyBit(strobe_DMA_P2_vector)
  BY DEF CameraInit, AnyBit
<1>3. ~Raised1 /\ ~Rising1 /\ ~Raised2 /\ ~Rising2
  BY <1>2 DEF CameraInit, Raised1, Rising1, Raised2, Rising2
<1>4. ~grab_active /\ ~grab_pending /\ ~sw_ready
  BY <1>1 DEF Init, CtrlInit
<1>5. ContextTypes
  <2>1. 0 \in 0 .. Contexts - 1
    BY CameraAssumption
  <2>2. << >> \in Seq(0 .. Contexts - 1)
    OBVIOUS
  <2> QED
    BY <2>1, <2>2 DEF CameraInit, ContextTypes
<1>6. FirstStrobe /\ SecondStrobe
  BY <1>3 DEF FirstStrobe, SecondStrobe, CameraInit
<1>7. ContextsQueued
  BY <1>4 DEF ContextsQueued, Queued, CameraInit
<1>8. FirstStage /\ SecondStage /\ NotBegun
  BY <1>3, <1>4 DEF FirstStage, SecondStage, NotBegun, CameraInit
<1> QED
  BY <1>1, <1>5, <1>6, <1>7, <1>8 DEF CameraInv

LEMMA CameraClockInvariant ==
  ASSUME CameraInv, NEW cmd, NEW ext_trig \in BOOLEAN, NEW exposure \in BOOLEAN,
         NEW fot \in BOOLEAN, NEW done, NEW start, NEW end,
         CameraClock(cmd, ext_trig, exposure, fot, done, start, end)
  PROVE  CameraInv'
<1>1. /\ IInv /\ ContextTypes /\ FirstStrobe /\ SecondStrobe
      /\ ContextsQueued /\ FirstStage /\ SecondStage /\ NotBegun
  BY DEF CameraInv
<1>2. /\ Clock(cmd, ext_trig, exposure, fot, done, TRUE)
      /\ MayWrite(cmd) /\ FlagsStep(cmd) /\ GrabStep(cmd) /\ TrigStep(cmd)
      /\ ReadoutFlagStep /\ SoftwareStep(cmd)
      /\ MaySetDma(cmd) /\ MayMove(start, end, fot)
      /\ StrobeStep(cmd) /\ ContextStep /\ DmaSoftwareStep(cmd) /\ DmaStep(start, end)
  BY CameraSteps
<1>3. IInv'
  BY <1>1, <1>2, ClockInvariant
<1>4. FirstStrobe' /\ SecondStrobe'
  BY <1>1, <1>2, FirstStrobeStep, SecondStrobeStep
<1>5. /\ grab_context' \in Seq(0 .. Contexts - 1)
      /\ ContextsQueued'
      /\ grab_active' =>
           IF LoadP1(cmd) THEN grab_context'[1] = dma_reg' /\ dma_reg' = dma_reg
           ELSE grab_active /\ grab_context'[1] = grab_context[1]
  BY <1>1, <1>2, ContextMoves
<1>6. ContextTypes'
  BY <1>1, <1>2, <1>5, ContextTypesStep
<1>7. FirstStage'
  BY <1>1, <1>2, <1>5, FirstStageStep
<1>8. SecondStage'
  BY <1>1, <1>2, SecondStageStep
<1>9. NotBegun'
  BY <1>1, <1>2, NotBegunStep
<1> QED
  BY <1>3, <1>4, <1>5, <1>6, <1>7, <1>8, <1>9 DEF CameraInv

LEMMA CameraStutterInvariant == CameraInv /\ UNCHANGED cameraVars => CameraInv'
<1> SUFFICES ASSUME CameraInv, UNCHANGED cameraVars PROVE CameraInv'
  OBVIOUS
<1>1. /\ UNCHANGED vars
      /\ UNCHANGED <<strobe_DMA_P1_vector, strobe_DMA_P2_vector, strobe_DMA_P1, strobe_DMA_P2,
                     context_strb_P1, dma_reg, dma_context_p0, dma_context_p1,
                     dma_set, grab_context, dma, dma_frame>>
  BY DEF cameraVars, contextVars
<1>2. UNCHANGED <<curr_grab_mngr_state, curr_trig_mngr_state, grab_active, grab_pending, sw_ready,
                  readout_cntr2, readout_cntr2_armed>>
  BY <1>1 DEF vars, ctrlVars, grabVars, trigVars, rdoVars, swVars
<1>3. IInv'
  BY <1>1, StutterInvariant DEF CameraInv
<1>4. /\ Raised1' <=> Raised1
      /\ Rising1' <=> Rising1
      /\ Raised2' <=> Raised2
      /\ Rising2' <=> Rising2
  BY <1>1 DEF Raised1, Rising1, Raised2, Rising2, AnyBit
<1>5. ContextTypes'
  BY <1>1 DEF CameraInv, ContextTypes
<1>6. FirstStrobe' /\ SecondStrobe'
  BY <1>1, <1>2, <1>4 DEF CameraInv, FirstStrobe, SecondStrobe, BeforeTrigger, TrigIn
<1>7. ContextsQueued' /\ FirstStage' /\ SecondStage' /\ NotBegun'
  BY <1>1, <1>2, <1>4 DEF CameraInv, ContextsQueued, Queued, FirstStage, SecondStage, NotBegun
<1> QED
  BY <1>3, <1>5, <1>6, <1>7 DEF CameraInv

\* The invariant of CameraInvariant holds in every reachable state of the controller with
\* the DMA contexts behind it; the invariant of the controller is a part of it
\* (xgs_ctrl.vhd, dmawr2tlp.vhd, XGS_athena.vhd).
THEOREM CameraInvariance == CameraSpec => []CameraInv
<1>1. CameraInv /\ [CameraNext]_cameraVars => CameraInv'
  BY CameraClockInvariant, CameraStutterInvariant DEF CameraNext
<1> QED
  BY CameraInitInvariant, <1>1, PTL DEF CameraSpec

-----------------------------------------------------------------------------
(* What follows from it. *)

LEMMA ContextOfFot == CameraInv => FirstStageHeld
<1> SUFFICES ASSUME CameraInv, FOT
             PROVE  grab_context # << >> /\ dma_context_p0 = Head(grab_context)
  BY DEF FirstStageHeld
<1>1. IInv /\ ContextTypes /\ FirstStrobe /\ ContextsQueued /\ FirstStage
  BY DEF CameraInv
<1>2. ~Raised1 /\ ~Rising1
  BY <1>1, NoneAhead
<1>3. grab_active
  <2>1. TypeOK /\ Managers /\ GrabsQueued
    BY <1>1, ControllerFacts
  <2>2. ~BetweenExposures
    BY DEF BetweenExposures, FOT
  <2>3. curr_grab_mngr_state # "idle"
    BY <2>1, <2>2, GrabTriggered DEF BeforeTrigger
  <2> QED
    BY <2>1, <2>3 DEF GrabsQueued
<1>4. grab_context # << >> /\ Head(grab_context) = grab_context[1]
  <2>1. /\ grab_active \in BOOLEAN /\ grab_pending \in BOOLEAN /\ (grab_pending => grab_active)
        /\ dma_reg \in 0 .. Contexts - 1 /\ grab_context \in Seq(0 .. Contexts - 1)
        /\ Len(grab_context) = (IF grab_active THEN 1 ELSE 0) + (IF grab_pending THEN 1 ELSE 0)
    BY <1>1, ContextFacts
  <2> QED
    BY <1>3, <2>1, QueueOfTwo
<1> QED
  BY <1>1, <1>2, <1>3, <1>4 DEF FirstStage

\* Every frame is stored with the DMA context of the grab that asked for it, from its
\* first line to its last, whatever software queues, aborts or writes in the DMA registers
\* meanwhile, when the sensor sends nothing in the clock in which EO_FOT is seen
\* ("Grab context pipeline", dmawr2tlp.vhd:295-319).
THEOREM FrameContexts ==
  ASSUME FirstLine > 0 PROVE CameraSpec => []FrameContext
<1>1. CameraInv => FrameContext
  <2> SUFFICES ASSUME CameraInv, dma = "storing" PROVE dma_context_p1 = dma_frame
    BY ContextOfFot DEF FrameContext
  <2>1. ~Raised2 /\ ~Rising2
    BY DEF CameraInv, NotBegun
  <2> QED
    BY <2>1 DEF CameraInv, SecondStage
<1> QED
  BY CameraInvariance, <1>1, PTL

\* Every clock of the camera is one write of GRAB_CTRL and at most two events.
LEMMA CameraClockImplements ==
  ASSUME CameraInv, CameraInv', NEW cmd, NEW ext_trig, NEW exposure, NEW fot, NEW done,
         NEW start, NEW end,
         CameraClock(cmd, ext_trig, exposure, fot, done, start, end)
  PROVE  grabPath' = grabPath \/ Path!Next
<1>1. Clock(cmd, ext_trig, exposure, fot, done, TRUE)
  BY DEF CameraClock
<1>2. IInv /\ TypeOK'
  BY DEF CameraInv, IInv, Control, Types
<1>3. grabPath' \in Path!Soon(Written(grabPath, Bit(cmd)))
  BY <1>1, <1>2, ClockImplements
<1>4. Bit(cmd) \in Path!GrabBits \cup {"none"}
  BY BitFacts
<1> QED
  BY <1>3, <1>4 DEF Path!Next, Written

\* The camera gives the controller a DMA that is always idle and software that also
\* writes the DMA registers; what GRAB_STAT promises software holds all the same
\* (XGS_athena.vhd, XGS_Data.cpp).
THEOREM CameraImplementsGrabPath == CameraSpec => ImplementsGrabPath
<1>1. CameraInit => Path!Init
  <2> SUFFICES ASSUME CameraInit PROVE grabPath = Path!AtRest
    BY DEF Path!Init
  <2> QED
    BY DEF CameraInit, Init, CtrlInit, grabPath, phase, abort_now, Path!AtRest, Path!Stat
<1>2. CameraInv /\ CameraInv' /\ [CameraNext]_cameraVars => [Path!Next]_grabPath
  <2>1. ASSUME CameraInv, CameraInv', CameraNext PROVE grabPath' = grabPath \/ Path!Next
    BY <2>1, CameraClockImplements DEF CameraNext
  <2>2. ASSUME UNCHANGED cameraVars PROVE grabPath' = grabPath
    BY <2>2 DEF cameraVars, vars, ctrlVars, grabVars, trigVars, rdoVars, grabPath, phase, abort_now
  <2> QED
    BY <2>1, <2>2
<1> QED
  BY CameraInvariance, <1>1, <1>2, PTL DEF CameraSpec, ImplementsGrabPath, Path!Spec
================================================================================
