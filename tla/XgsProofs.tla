------------------------------- MODULE XgsProofs -------------------------------
(***************************************************************************)
(* That the invariant of XgsInvariant is inductive, and what follows from  *)
(* it for every programming of the mode registers, every length of delay,  *)
(* FOT, readout and exposure, and a sensor that answers at any clock.      *)
(***************************************************************************)
EXTENDS XgsInvariant, ControllerRefinement, SequenceTheorems, TLAPS

-----------------------------------------------------------------------------
(* The moves of each manager. *)

LEMMA GrabPhases ==
  ASSUME TypeOK
  PROVE  BeforeTrigger \/ InLevel \/ curr_grab_mngr_state = "wait_eo_fot"
BY DEF TypeOK, BeforeTrigger, InLevel

\* What a clock is made of.
LEMMA ClockSteps ==
  ASSUME NEW cmd, NEW ext_trig, NEW exposure, NEW fot, NEW done, NEW dma_idle,
         Clock(cmd, ext_trig, exposure, fot, done, dma_idle)
  PROVE  /\ MayWrite(cmd) /\ SensorStep(exposure, fot)
         /\ FlagsStep(cmd) /\ ParamsStep(cmd, reg) /\ HwTrigStep(ext_trig)
         /\ GrabStep(cmd) /\ TimerStep(cmd, busy) /\ TrigStep(cmd)
         /\ MonitorStep(exposure, fot) /\ ReadoutCntrStep /\ ReadoutFlagStep
         /\ AbortStep(cmd, abort_fifo_cmd_done, dma_idle)
         /\ SpiClock(cmd = "GRAB_CMD", grab_mngr_sensor_reconf, cmd = "REFRESH_TEMP",
                     abort_now, abort_fifo_cmd, done)
         /\ SoftwareStep(cmd) /\ GrabsStep(cmd)
         /\ UNCHANGED modeVars
BY DEF Clock, CtrlClock

\* The grab manager stays before its trigger until it sends one.
LEMMA GrabBefore ==
  ASSUME NEW cmd, GrabStep(cmd), BeforeTrigger
  PROVE  /\ BeforeTrigger' <=> curr_grab_mngr_state # "trig"
         /\ curr_grab_mngr_state = "trig" =>
              curr_grab_mngr_state' = IF Level THEN "wait_level" ELSE "wait_eo_fot"
         /\ curr_grab_mngr_state' = "trig" => ~grab_mngr_trig_p1'
         /\ curr_grab_mngr_state # "idle" /\ curr_grab_mngr_state' = "idle" => abort_now
         /\ curr_grab_mngr_state = "idle" /\ curr_grab_mngr_state' # "idle" =>
              StartGrab(cmd) /\ curr_grab_mngr_state' = IF SENSOR_REG_UPDATE THEN "sensor_reprog" ELSE "arm"
BY DEF GrabStep, GrabMngr, GrabTo, GrabIdle, GrabReprog, GrabArm, GrabReady, RdoWait, RdoEnd,
       RdoAbort, DeadEnd, DeadWait, DeadAbort, ArmWait, ArmTrig, ArmAbort, TrigSent, LevelWait,
       LevelRdo, LevelEnd, LevelRdoWait, LevelRdoEnd, SoFotWait, SoFotSeen, EoFotWait,
       EoFotAbort, EoFotLast, EoFotNext, BeforeTrigger, grab_mngr_trig, Level, ReadyState

\* When the level sets the exposure it waits for its end and for the FOT.
LEMMA GrabLevel ==
  ASSUME NEW cmd, GrabStep(cmd), InLevel
  PROVE  /\ curr_grab_mngr_state \in {"wait_level", "wait_end_rdout"} =>
              InLevel' /\ (curr_grab_mngr_state' = "wait_so_fot" => ~readout)
         /\ curr_grab_mngr_state = "wait_so_fot" =>
              curr_grab_mngr_state' = IF SO_FOT THEN "wait_eo_fot" ELSE "wait_so_fot"
BY DEF GrabStep, GrabMngr, GrabTo, GrabIdle, GrabReprog, GrabArm, GrabReady, RdoWait, RdoEnd,
       RdoAbort, DeadEnd, DeadWait, DeadAbort, ArmWait, ArmTrig, ArmAbort, TrigSent, LevelWait,
       LevelRdo, LevelEnd, LevelRdoWait, LevelRdoEnd, SoFotWait, SoFotSeen, EoFotWait,
       EoFotAbort, EoFotLast, EoFotNext, InLevel

\* It leaves the FOT, or the exposure that was aborted.
LEMMA GrabFot ==
  ASSUME NEW cmd, GrabStep(cmd), curr_grab_mngr_state = "wait_eo_fot"
  PROVE  \/ curr_grab_mngr_state' = "wait_eo_fot" /\ ~abort_seq /\ ~EO_FOT
         \/ curr_grab_mngr_state' = "idle" /\ (abort_seq \/ (EO_FOT /\ ~ChainGrab(cmd)))
         \/ /\ curr_grab_mngr_state' = IF SENSOR_REG_UPDATE THEN "sensor_reprog" ELSE ReadyState
            /\ ~abort_seq /\ EO_FOT /\ ChainGrab(cmd)
BY DEF GrabStep, GrabMngr, GrabTo, GrabIdle, GrabReprog, GrabArm, GrabReady, RdoWait, RdoEnd,
       RdoAbort, DeadEnd, DeadWait, DeadAbort, ArmWait, ArmTrig, ArmAbort, TrigSent, LevelWait,
       LevelRdo, LevelEnd, LevelRdoWait, LevelRdoEnd, SoFotWait, SoFotSeen, EoFotWait,
       EoFotAbort, EoFotLast, EoFotNext

-----------------------------------------------------------------------------
(* The three managers stay on one grab. *)

\* The trig manager takes a trigger between two exposures only.
LEMMA TrigBetween ==
  ASSUME NEW cmd, TrigStep(cmd), BetweenExposures
  PROVE  /\ BetweenExposures' <=> ~Trigger(cmd)
         /\ Trigger(cmd) => curr_trig_mngr_state' \in {"trigger", "wait_pet"}
         /\ Level /\ Trigger(cmd) => curr_trig_mngr_state' = "trigger"
         /\ curr_trig_mngr_state' = "wait_pet" => curr_trig_mngr_state = "readout_state"
BY DEF TrigStep, TrigMngr, TrigTo, BetweenExposures, Level

LEMMA WaitingStep ==
  ASSUME NEW cmd, NEW reconf_busy, TypeOK, Waiting, Delayed, Exposing,
         GrabStep(cmd), TimerStep(cmd, reconf_busy), TrigStep(cmd)
  PROVE  Waiting'
<1> SUFFICES ASSUME BeforeTrigger'
             PROVE  /\ BetweenExposures'
                    /\ \/ curr_timer_mngr_state' = "idle"
                       \/ curr_timer_mngr_state' = "exposure_end" /\ curr_grab_mngr_state' = "idle"
                    /\ curr_grab_mngr_state' = "trig" => ~grab_mngr_trig_p1'
  BY DEF Waiting
<1>1. CASE BeforeTrigger
  <2>1. curr_grab_mngr_state # "trig" /\ ~grab_mngr_trig
    BY <1>1, GrabBefore DEF BeforeTrigger, grab_mngr_trig
  <2>2. curr_timer_mngr_state' = "idle" /\ ~trig_delayed
    BY <1>1, <2>1 DEF Waiting, TimerStep, TimerMngr, TimerTo, trig_delayed
  <2> QED
    BY <1>1, <2>2, TrigBetween, GrabBefore DEF Waiting, Trigger
<1>2. CASE curr_grab_mngr_state = "wait_eo_fot" /\ abort_seq
  <2>1. curr_timer_mngr_state = "exposure_monitor" /\ curr_grab_mngr_state' = "idle"
    BY <1>2, GrabFot DEF Exposing, BeforeTrigger
  <2>2. BetweenExposures /\ ~Level /\ ~trig_delayed
    BY <1>2, <2>1 DEF Exposing, Delayed, TrigIn, BetweenExposures, trig_delayed, Level
  <2>3. curr_timer_mngr_state' = "exposure_end"
    BY <1>2, <2>1 DEF TimerStep, TimerMngr, TimerTo
  <2> QED
    BY <2>1, <2>2, <2>3, TrigBetween DEF Trigger
<1>3. CASE curr_grab_mngr_state = "wait_eo_fot" /\ ~abort_seq
  <2>1. EO_FOT /\ curr_timer_mngr_state = "idle"
    BY <1>3, GrabFot DEF Exposing, BeforeTrigger, EO_FOT
  <2>2. curr_trig_mngr_state' = "readout_state"
    BY <2>1 DEF TrigStep, TrigMngr, TrigTo, EO_FOT
  <2>3. curr_timer_mngr_state' = "idle"
    BY <1>3, <2>1 DEF TimerStep, TimerMngr, TimerTo, grab_mngr_trig
  <2>4. curr_grab_mngr_state' # "trig"
    BY <1>3, GrabFot DEF ReadyState
  <2> QED
    BY <2>2, <2>3, <2>4 DEF BetweenExposures
<1>4. CASE InLevel
  BY <1>4, GrabLevel DEF InLevel, BeforeTrigger
<1> QED
  BY <1>1, <1>2, <1>3, <1>4, GrabPhases

LEMMA DelayedStep ==
  ASSUME NEW cmd, NEW reconf_busy, NEW fifo_done, NEW dma_idle,
         TypeOK, Waiting, Delayed, Exposing, AbortOrder, ExposureSeen,
         GrabStep(cmd), TimerStep(cmd, reconf_busy), TrigStep(cmd),
         AbortStep(cmd, fifo_done, dma_idle), UNCHANGED modeVars
  PROVE  Delayed'
<1>1. ASSUME curr_timer_mngr_state' \in {"verify_reconf_busy", "delaying", "trig"}
      PROVE  BetweenExposures' /\ ~abort_seq'
  <2>1. CASE curr_timer_mngr_state = "idle"
    <3>1. grab_mngr_trig /\ ~grab_mngr_trig_p1
      BY <1>1, <2>1 DEF TimerStep, TimerMngr, TimerTo
    <3>2. BetweenExposures
      BY <2>1, <3>1, GrabPhases DEF Waiting, Exposing, TimerIn, grab_mngr_trig
    <3> QED
      BY <2>1, <3>2, TrigBetween
      DEF Trigger, trig_delayed, TrigStep, AbortFlags, BetweenExposures
  <2>2. CASE curr_timer_mngr_state # "idle"
    <3>1. curr_timer_mngr_state \in {"verify_reconf_busy", "delaying"}
      BY <1>1, <2>2 DEF TimerStep, TimerMngr, TimerTo
    <3>2. BetweenExposures
      BY <3>1 DEF Delayed, TimerIn
    <3> QED
      BY <3>1, <3>2, TrigBetween
      DEF Trigger, trig_delayed, TrigStep, AbortFlags, BetweenExposures
  <2> QED
    BY <2>1, <2>2
<1>2. Level' = Level
  BY DEF modeVars, Level
<1>3. /\ curr_timer_mngr_state' = "delaying" => ~Level'
      /\ curr_timer_mngr_state' = "level" => Level'
  BY <1>2 DEF TimerStep, TimerMngr, TimerTo, Delayed, Level
<1>4. ASSUME curr_timer_mngr_state' = "exposure_monitor"
      PROVE  IF BetweenExposures' THEN abort_seq'
             ELSE ~abort_seq' /\ (TrigIn({"trigger", "wait_exp_start"})'
                                    \/ (~Level' /\ TrigIn({"wait_pet"})'))
  <2>1. CASE curr_timer_mngr_state = "trig"
    <3>1. BetweenExposures /\ trig_delayed /\ (Trigger(cmd) <=> ~Abort(cmd))
      BY <2>1 DEF Delayed, TimerIn, trig_delayed, Trigger
    <3>2. abort_seq' <=> Abort(cmd)
      BY <3>1 DEF TrigStep, AbortFlags, BetweenExposures
    <3> QED
      BY <1>2, <3>1, <3>2, TrigBetween DEF TrigIn
  <2>2. CASE curr_timer_mngr_state = "exposure_monitor"
    <3>1. ~abort_seq /\ ~ExposureRises /\ ~xgs_exposure
      BY <1>4, <2>2 DEF TimerStep, TimerMngr, TimerTo, ExposureSeen, ExposureRises
    <3>2. ~BetweenExposures
      BY <2>2, <3>1 DEF Delayed
    <3>3. CASE curr_trig_mngr_state \in {"trigger", "wait_exp_start"}
      <4>1. curr_trig_mngr_state' = "wait_exp_start"
        BY <2>2, <3>1, <3>3 DEF TrigStep, TrigMngr, TrigTo, timer_exposure
      <4>2. ~abort_seq'
        BY <3>3 DEF TrigStep, AbortFlags
      <4> QED
        BY <4>1, <4>2 DEF TrigIn, BetweenExposures
    <3>4. CASE curr_trig_mngr_state = "wait_pet" /\ ~Level
      <4>1. abort_seq' <=> Abort(cmd)
        BY <3>4 DEF TrigStep, AbortFlags
      <4>2. curr_trig_mngr_state' \in
              IF Abort(cmd) THEN {"readout_state"} ELSE {"trigger", "wait_pet"}
        BY <3>4 DEF TrigStep, TrigMngr, TrigTo
      <4> QED
        BY <1>2, <3>4, <4>1, <4>2 DEF TrigIn, BetweenExposures
    <3> QED
      BY <2>2, <3>2, <3>3, <3>4 DEF Delayed, TrigIn
  <2> QED
    BY <1>4, <2>1, <2>2 DEF TimerStep, TimerMngr, TimerTo
<1>5. ASSUME abort_seq' PROVE abort_now'
  <2>1. Abort(cmd) /\ ~ManagersIdle
    BY <1>5 DEF TrigStep, AbortFlags, ManagersIdle, trig_delayed
  <2>2. CASE abort_now
    BY <2>1, <2>2 DEF AbortOrder, AbortStep, AbortTo, abort_now
  <2>3. CASE ~abort_now
    BY <2>1, <2>3 DEF AbortStep, AbortTo, abort_now, Abort
  <2> QED
    BY <2>2, <2>3
<1> QED
  BY <1>1, <1>3, <1>4, <1>5 DEF Delayed, TimerIn

\* The exposure of a grab whose manager waits for the end of its FOT.
LEMMA FotKept ==
  ASSUME NEW cmd, NEW reconf_busy, TypeOK, Delayed, Exposing, ExposureSeen, FotSeen,
         curr_grab_mngr_state = "wait_eo_fot", ~abort_seq, ~EO_FOT,
         TimerStep(cmd, reconf_busy), TrigStep(cmd)
  PROVE  /\ Level => TrigIn({"FOT_STATE", "EO_FOT_STATE"})'
         /\ curr_timer_mngr_state' = "exposure" =>
              TrigIn({"wait_exp_start", "single_slope", "monitoring", "SO_FOT_STATE", "FOT_STATE"})'
         /\ curr_timer_mngr_state' = "exposure_end" => TrigIn({"FOT_STATE"})'
         /\ curr_timer_mngr_state' = "idle" => TrigIn({"FOT_STATE", "EO_FOT_STATE"})'
         /\ curr_timer_mngr_state' # "level"
         /\ curr_trig_mngr_state' = "EO_FOT_STATE" => curr_timer_mngr_state' = "idle"
         /\ curr_trig_mngr_state' # "exp_level"
         /\ curr_timer_mngr_state' # "exposure_monitor" => ~abort_seq'
<1> USE DEF TrigIn, TimerIn
<1>1. CASE TimerIn({"verify_reconf_busy", "delaying", "trig"})
  <2>1. /\ BetweenExposures /\ ~Level
        /\ trig_delayed <=> curr_timer_mngr_state = "trig"
    BY <1>1 DEF Delayed, Exposing, BetweenExposures, trig_delayed
  <2>2. curr_timer_mngr_state' \in {"verify_reconf_busy", "delaying", "trig", "exposure_monitor"}
        /\ (curr_timer_mngr_state = "trig" => curr_timer_mngr_state' = "exposure_monitor")
    BY <1>1 DEF TimerStep, TimerMngr, TimerTo
  <2>3. curr_trig_mngr_state' \in {"idle", "readout_state", "trigger", "wait_pet"}
    BY <2>1, TrigBetween DEF BetweenExposures
  <2>4. abort_seq' => curr_timer_mngr_state = "trig"
    BY <2>1 DEF TrigStep, AbortFlags, BetweenExposures
  <2> QED
    BY <2>1, <2>2, <2>3, <2>4
<1>2. CASE curr_timer_mngr_state = "exposure_monitor"
  <2>1. ~Level /\ curr_trig_mngr_state \in {"trigger", "wait_exp_start", "wait_pet"}
    BY <1>2 DEF Delayed, Exposing, BetweenExposures
  <2>2. ExposureRises => curr_trig_mngr_state = "wait_exp_start"
    BY <2>1 DEF ExposureSeen, ExposureRises
  <2>3. curr_timer_mngr_state' = IF ExposureRises THEN "exposure" ELSE "exposure_monitor"
    BY <1>2, <2>1 DEF TimerStep, TimerMngr, TimerTo, Level
  <2>4. curr_trig_mngr_state' \in {"trigger", "wait_exp_start", "wait_pet", "readout_state"}
        /\ (curr_trig_mngr_state = "wait_exp_start" => curr_trig_mngr_state' = "wait_exp_start")
    BY <1>2, <2>1 DEF TrigStep, TrigMngr, TrigTo, timer_exposure, Level
  <2>5. abort_seq' => curr_trig_mngr_state = "wait_pet"
    BY <1>2, <2>1 DEF TrigStep, AbortFlags
  <2> QED
    BY <2>1, <2>2, <2>3, <2>4, <2>5
<1>3. CASE curr_timer_mngr_state = "exposure"
  <2>1. /\ xgs_exposure_p1
        /\ curr_trig_mngr_state \in
             {"wait_exp_start", "single_slope", "monitoring", "SO_FOT_STATE", "FOT_STATE"}
    BY <1>3 DEF Exposing, ExposureSeen
  <2>2. /\ curr_timer_mngr_state' = IF xgs_exposure THEN "exposure" ELSE "exposure_end"
    BY <1>3, <2>1 DEF TimerStep, TimerMngr, TimerTo, ExposureFalls
  <2>3. ~xgs_exposure => curr_trig_mngr_state \in {"SO_FOT_STATE", "FOT_STATE"}
    BY <1>3, <2>1 DEF ExposureSeen
  <2>4. ~xgs_EO_FOT
    BY <2>1 DEF FotSeen
  <2>5. /\ curr_trig_mngr_state = "SO_FOT_STATE" => curr_trig_mngr_state' = "FOT_STATE"
        /\ curr_trig_mngr_state = "FOT_STATE" => curr_trig_mngr_state' = "FOT_STATE"
        /\ curr_trig_mngr_state = "monitoring" =>
             curr_trig_mngr_state' \in {"monitoring", "SO_FOT_STATE"}
        /\ curr_trig_mngr_state = "single_slope" =>
             curr_trig_mngr_state' \in {"single_slope", "monitoring"}
        /\ curr_trig_mngr_state = "wait_exp_start" /\ ~Level =>
             curr_trig_mngr_state' \in {"single_slope", "wait_exp_start"}
    BY <2>4 DEF TrigStep, TrigMngr, TrigTo, Level
  <2>6. Level => curr_trig_mngr_state = "FOT_STATE"
    BY <2>1 DEF Exposing
  <2>7. ~abort_seq'
    BY <1>3, <2>1 DEF TrigStep, AbortFlags
  <2> QED
    BY <2>1, <2>2, <2>3, <2>5, <2>6, <2>7
<1>4. CASE TimerIn({"exposure_end", "idle"})
  <2>1. curr_trig_mngr_state = "FOT_STATE"
    BY <1>4 DEF Exposing, EO_FOT
  <2>2. curr_timer_mngr_state' = "idle"
    BY <1>4 DEF TimerStep, TimerMngr, TimerTo, grab_mngr_trig
  <2>3. curr_trig_mngr_state' \in {"FOT_STATE", "EO_FOT_STATE"}
    BY <2>1 DEF TrigStep, TrigMngr, TrigTo
  <2>4. ~abort_seq'
    BY <2>1 DEF TrigStep, AbortFlags
  <2> QED
    BY <2>2, <2>3, <2>4
<1> QED
  BY <1>1, <1>2, <1>3, <1>4 DEF TypeOK, Exposing

\* The exposure of a grab whose manager waits for the end of the level.
LEMMA LevelKept ==
  ASSUME NEW cmd, NEW reconf_busy, NEW fifo_done, NEW dma_idle,
         TypeOK, Delayed, Exposing, ExposureSeen, AbortOrder, InLevel, InLevel',
         GrabStep(cmd), TimerStep(cmd, reconf_busy), TrigStep(cmd),
         AbortStep(cmd, fifo_done, dma_idle)
  PROVE  /\ curr_timer_mngr_state' = "level" => TrigIn({"exp_level"})' /\ ~abort_seq'
         /\ curr_timer_mngr_state' = "exposure" =>
              /\ curr_grab_mngr_state' = "wait_so_fot" /\ ~abort_seq'
              /\ TrigIn({"exp_level", "monitoring", "SO_FOT_STATE"})'
              /\ curr_trig_mngr_state' = "exp_level" => trig_delayed_p1'
         /\ TimerIn({"exposure_end", "idle"})' => BetweenExposures' /\ abort_now'
         /\ curr_timer_mngr_state' = "idle" /\ grab_mngr_trig' => grab_mngr_trig_p1'
<1> USE DEF TrigIn, TimerIn
<1>1. Level
  BY DEF Exposing
<1>2. ~ManagersIdle
  BY DEF ManagersIdle, InLevel
<1>3. abort_now => abort_now'
  BY <1>2 DEF AbortOrder, AbortStep, AbortTo, abort_now
<1>4. grab_mngr_trig' => grab_mngr_trig /\ grab_mngr_trig_p1'
  <2>1. curr_grab_mngr_state = "wait_so_fot" => ~grab_mngr_trig'
    BY GrabLevel DEF grab_mngr_trig
  <2>2. curr_grab_mngr_state # "wait_so_fot" => grab_mngr_trig
    BY DEF InLevel, grab_mngr_trig
  <2> QED
    BY <2>1, <2>2 DEF GrabStep
<1>5. CASE TimerIn({"verify_reconf_busy", "delaying", "trig"})
  BY <1>5 DEF TimerStep, TimerMngr, TimerTo
<1>6. CASE curr_timer_mngr_state = "exposure_monitor" /\ ~abort_seq
  <2>1. curr_trig_mngr_state \in {"trigger", "wait_exp_start"}
    BY <1>1, <1>6 DEF Delayed, BetweenExposures
  <2>2. ExposureRises <=> xgs_exposure
    BY <1>6 DEF ExposureSeen, ExposureRises
  <2>3. curr_timer_mngr_state' = IF xgs_exposure THEN "level" ELSE "exposure_monitor"
    BY <1>1, <1>6, <2>2 DEF TimerStep, TimerMngr, TimerTo, Level
  <2>4. xgs_exposure => curr_trig_mngr_state = "wait_exp_start"
    BY <2>1 DEF ExposureSeen
  <2>5. xgs_exposure => curr_trig_mngr_state' = "exp_level" /\ ~abort_seq'
    BY <1>1, <2>4 DEF TrigStep, TrigMngr, TrigTo, AbortFlags, Level
  <2> QED
    BY <2>3, <2>5
<1>7. CASE curr_timer_mngr_state = "exposure_monitor" /\ abort_seq
  <2>1. BetweenExposures /\ abort_now
    BY <1>7 DEF Delayed
  <2>2. BetweenExposures'
    BY <2>1, TrigBetween DEF Trigger, Abort
  <2>3. curr_timer_mngr_state' = "exposure_end"
    BY <1>7 DEF TimerStep, TimerMngr, TimerTo
  <2> QED
    BY <1>3, <2>1, <2>2, <2>3
<1>8. CASE curr_timer_mngr_state = "level"
  <2>1. curr_trig_mngr_state = "exp_level" /\ ~abort_seq /\ trig_delayed
    BY <1>8 DEF Exposing, trig_delayed
  <2>2. curr_trig_mngr_state' = "exp_level" /\ ~abort_seq' /\ trig_delayed_p1'
    BY <2>1 DEF TimerStep, TrigStep, TrigMngr, TrigTo, AbortFlags
  <2>3. curr_timer_mngr_state' = IF grab_mngr_trig THEN "level" ELSE "exposure"
    BY <1>8, <2>1 DEF TimerStep, TimerMngr, TimerTo
  <2>4. ~grab_mngr_trig => curr_grab_mngr_state' = "wait_so_fot"
    BY <2>1, GrabLevel DEF InLevel, grab_mngr_trig, SO_FOT
  <2> QED
    BY <2>2, <2>3, <2>4
<1>9. CASE curr_timer_mngr_state = "exposure"
  <2>1. /\ curr_grab_mngr_state = "wait_so_fot"
        /\ curr_trig_mngr_state \in {"exp_level", "monitoring", "SO_FOT_STATE"}
        /\ curr_trig_mngr_state = "exp_level" => trig_delayed_p1
    BY <1>9 DEF Exposing
  <2>2. curr_grab_mngr_state' = "wait_so_fot" /\ ~SO_FOT
    BY <2>1, GrabLevel DEF InLevel
  <2>3. xgs_exposure
    BY <2>1, <2>2 DEF ExposureSeen, SO_FOT
  <2>4. curr_timer_mngr_state' = "exposure"
    BY <1>9, <2>1, <2>3 DEF TimerStep, TimerMngr, TimerTo, ExposureFalls, Exposing
  <2>5. curr_trig_mngr_state' \in {"monitoring", "SO_FOT_STATE"} /\ ~abort_seq'
    BY <1>9, <2>1, <2>2 DEF TrigStep, TrigMngr, TrigTo, AbortFlags, SO_FOT, trig_delayed
  <2> QED
    BY <2>2, <2>4, <2>5
<1>10. CASE TimerIn({"exposure_end", "idle"})
  <2>1. BetweenExposures /\ abort_now /\ ~trig_delayed
    BY <1>10 DEF Exposing, trig_delayed
  <2>2. BetweenExposures'
    BY <2>1, TrigBetween DEF Trigger
  <2>3. curr_timer_mngr_state' = "idle"
    BY <1>10 DEF TimerStep, TimerMngr, TimerTo, Exposing
  <2> QED
    BY <1>3, <1>4, <2>1, <2>2, <2>3
<1>11. curr_timer_mngr_state' = "idle" /\ grab_mngr_trig' => grab_mngr_trig_p1'
  BY <1>4
<1> QED
  BY <1>5, <1>6, <1>7, <1>8, <1>9, <1>10, <1>11 DEF TypeOK

LEMMA ExposingStep ==
  ASSUME NEW cmd, NEW reconf_busy, NEW fifo_done, NEW dma_idle,
         TypeOK, Waiting, Delayed, Exposing, AbortOrder, ExposureSeen, FotSeen,
         GrabStep(cmd), TimerStep(cmd, reconf_busy), TrigStep(cmd),
         AbortStep(cmd, fifo_done, dma_idle), UNCHANGED modeVars
  PROVE  Exposing'
<1>1. Level' = Level
  BY DEF modeVars, Level
<1>2. CASE curr_grab_mngr_state = "trig"
  <2>1. /\ curr_timer_mngr_state = "idle" /\ grab_mngr_trig /\ ~grab_mngr_trig_p1
        /\ BetweenExposures
    BY <1>2 DEF Waiting, BeforeTrigger, grab_mngr_trig
  <2>2. curr_timer_mngr_state' = "verify_reconf_busy"
    BY <2>1 DEF TimerStep, TimerMngr, TimerTo
  <2>3. curr_grab_mngr_state' = IF Level THEN "wait_level" ELSE "wait_eo_fot"
    BY <1>2, GrabBefore DEF BeforeTrigger
  <2>4. BetweenExposures' /\ ~abort_seq'
    BY <2>1, TrigBetween DEF Trigger, trig_delayed, TrigStep, AbortFlags, BetweenExposures
  <2> QED
    BY <1>1, <2>2, <2>3, <2>4 DEF Exposing, InLevel, TimerIn, TrigIn, BetweenExposures
<1>3. CASE BeforeTrigger /\ curr_grab_mngr_state # "trig"
  BY <1>3, GrabBefore DEF BeforeTrigger, InLevel, Exposing
<1>4. CASE curr_grab_mngr_state = "wait_eo_fot"
  <2>1. CASE curr_grab_mngr_state' = "wait_eo_fot"
    <3>1. ~abort_seq /\ ~EO_FOT
      BY <1>4, <2>1, GrabFot DEF ReadyState
    <3> QED
      BY <1>1, <1>4, <2>1, <3>1, FotKept DEF Exposing, InLevel
  <2>2. CASE curr_grab_mngr_state' # "wait_eo_fot"
    BY <1>4, <2>2, GrabFot DEF Exposing, InLevel, ReadyState
  <2> QED
    BY <2>1, <2>2
<1>5. CASE InLevel
  <2>1. CASE InLevel'
    <3>1. curr_grab_mngr_state' # "wait_eo_fot" /\ Level
      BY <1>5, <2>1 DEF InLevel, Exposing
    <3> QED
      BY <1>1, <1>5, <2>1, <3>1, LevelKept DEF Exposing
  <2>2. CASE ~InLevel'
    <3>1. SO_FOT /\ curr_grab_mngr_state' = "wait_eo_fot"
      BY <1>5, <2>2, GrabLevel DEF InLevel
    <3>2. curr_timer_mngr_state = "exposure"
      BY <1>5, <3>1 DEF TypeOK, Exposing, Delayed, BetweenExposures, TimerIn, TrigIn, SO_FOT
    <3>3. curr_timer_mngr_state' \in {"exposure", "exposure_end"}
      BY <3>2 DEF TimerStep, TimerMngr, TimerTo
    <3>4. curr_trig_mngr_state' = "FOT_STATE" /\ ~abort_seq'
      BY <3>1, <3>2 DEF TrigStep, TrigMngr, TrigTo, AbortFlags, SO_FOT, trig_delayed
    <3> QED
      BY <2>2, <3>1, <3>3, <3>4 DEF Exposing, TrigIn
  <2> QED
    BY <2>1, <2>2
<1> QED
  BY <1>2, <1>3, <1>4, <1>5, GrabPhases

-----------------------------------------------------------------------------
(* An abort. *)

\* Nothing starts while an abort is under way.
LEMMA IdleKept ==
  ASSUME NEW cmd, NEW reconf_busy, abort_now, ManagersIdle,
         GrabStep(cmd), TimerStep(cmd, reconf_busy), TrigStep(cmd)
  PROVE  ManagersIdle'
<1>1. curr_grab_mngr_state' = "idle"
  BY GrabBefore DEF ManagersIdle, BeforeTrigger, StartGrab, Abort
<1>2. curr_timer_mngr_state' = "idle"
  BY DEF ManagersIdle, TimerStep, TimerMngr, TimerTo, grab_mngr_trig
<1>3. curr_trig_mngr_state' = "idle"
  BY DEF ManagersIdle, TrigStep, TrigMngr, TrigTo, Trigger, Abort
<1> QED
  BY <1>1, <1>2, <1>3 DEF ManagersIdle

LEMMA AbortOrderStep ==
  ASSUME NEW cmd, NEW ext_trig, NEW exposure, NEW fot, NEW done, NEW dma_idle,
         TypeOK, AbortOrder, ReadoutFlag, Clock(cmd, ext_trig, exposure, fot, done, dma_idle)
  PROVE  AbortOrder'
<1> USE DEF abort_now
<1>1. /\ MayWrite(cmd) /\ FlagsStep(cmd) /\ GrabStep(cmd) /\ TimerStep(cmd, busy) /\ TrigStep(cmd)
      /\ ReadoutFlagStep /\ AbortStep(cmd, abort_fifo_cmd_done, dma_idle)
      /\ FifoStep(abort_now) /\ ReconfRequest(grab_mngr_sensor_reconf)
      /\ SpiStep(abort_fifo_cmd, done)
  BY ClockSteps DEF SpiClock
<1>2. ASSUME abort_now', curr_grab_abort_state' # "abort_states"
      PROVE  ManagersIdle' /\ ~readout'
  <2>1. abort_now /\ ManagersIdle
    BY <1>1, <1>2 DEF AbortStep, AbortTo, AbortOrder
  <2>2. readout => readout_cntr2_end
    BY <2>1 DEF ReadoutFlag, ManagersIdle, FOT, EO_FOT
  <2>3. ~readout'
    BY <1>1, <2>1, <2>2 DEF ReadoutFlagStep, SO_FOT, ManagersIdle
  <2> QED
    BY <1>1, <2>1, <2>3, IdleKept
<1>3. ASSUME curr_grab_abort_state' \in {"abort_ser_fifo", "abort_dma", "abort_irq"}
      PROVE  ~grab_active'
  <2>1. abort_now /\ ManagersIdle /\ (abort_grab_cmd \/ ~grab_active)
    BY <1>1, <1>3 DEF AbortStep, AbortTo, AbortOrder, abort_grab_cmd
  <2>2. cmd # "GRAB_CMD" /\ ~EO_FOT
    BY <1>1, <2>1 DEF MayWrite, abort_done, ManagersIdle, EO_FOT
  <2> QED
    BY <1>1, <2>1, <2>2 DEF FlagsStep
<1>4. curr_grab_abort_state \in {"abort_ser_fifo", "abort_dma", "abort_irq"} =>
        ~grab_mngr_sensor_reconf
  BY DEF AbortOrder, ManagersIdle, grab_mngr_sensor_reconf
<1>5. ASSUME S_currentState' = "S_abort_fifo_cmd"
      PROVE  curr_grab_abort_state' = "abort_ser_fifo" /\ ~reconf_start_buff'
  <2>1. S_currentState = "S_idle" /\ abort_fifo_cmd
    BY <1>1, <1>5 DEF SpiStep, SpiTo, SpiIdle, SpiAbort, SpiReconf, SpiTemp, SpiWaitReconf,
       SpiFirstWord, SpiWord, SpiStop, SpiCaptureT, SpiShift, SpiLast, SpiNext,
       SpiReconfDone, SpiReset, SpiAbortDone
  <2>2. curr_grab_abort_state' = "abort_ser_fifo"
    BY <1>1, <2>1 DEF AbortStep, AbortTo, abort_fifo_cmd, abort_fifo_cmd_done
  <2>3. ~reconf_start_buff'
    BY <1>1, <1>4, <2>1 DEF ReconfRequest, abort_fifo_cmd
  <2> QED
    BY <2>2, <2>3
<1>6. ASSUME S_currentState' = "S_abort_fifo_done"
      PROVE  /\ curr_grab_abort_state' = "abort_ser_fifo" /\ ~reconf_start_buff'
             /\ fifo' = << >> /\ ~reconf_start'
  <2>1. S_currentState = "S_abort_fifo_cmd"
    BY <1>1, <1>6 DEF SpiStep, SpiTo, SpiIdle, SpiAbort, SpiReconf, SpiTemp, SpiWaitReconf,
       SpiFirstWord, SpiWord, SpiStop, SpiCaptureT, SpiShift, SpiLast, SpiNext,
       SpiReconfDone, SpiReset, SpiAbortDone
  <2>2. curr_grab_abort_state = "abort_ser_fifo" /\ ~reconf_start_buff
    BY <2>1 DEF AbortOrder
  <2>3. curr_grab_abort_state' = "abort_ser_fifo"
    BY <1>1, <2>1, <2>2 DEF AbortStep, AbortTo, abort_fifo_cmd_done
  <2>4. ~reconf_start_buff' /\ ~reconf_start'
    BY <1>1, <1>4, <2>1, <2>2 DEF ReconfRequest
  <2>5. fifo' = << >>
    BY <1>1, <2>1 DEF FifoStep
  <2> QED
    BY <2>3, <2>4, <2>5
<1>7. ASSUME curr_grab_abort_state' \in {"abort_dma", "abort_irq"}
      PROVE  /\ fifo' = << >> /\ ~reconf_start' /\ ~reconf_start_buff'
             /\ S_currentState' \in {"S_idle", "S_captureT", "S_scanout"}
  <2>1. \/ curr_grab_abort_state = "abort_ser_fifo" /\ S_currentState = "S_abort_fifo_done"
        \/ curr_grab_abort_state = "abort_dma"
    BY <1>1, <1>7 DEF AbortStep, AbortTo, abort_fifo_cmd_done
  <2>2. /\ fifo = << >> /\ ~reconf_start /\ ~reconf_start_buff /\ ~grab_mngr_sensor_reconf
        /\ S_currentState \in {"S_idle", "S_captureT", "S_scanout", "S_abort_fifo_done"}
    BY <1>4, <2>1 DEF AbortOrder, fifo_empty
  <2>3. ~reconf_start' /\ ~reconf_start_buff'
    BY <1>1, <2>2 DEF ReconfRequest
  <2>4. fifo' = << >>
    BY <1>1, <2>1, <2>2 DEF FifoStep, fifo_write
  <2>5. S_currentState' \in {"S_idle", "S_captureT", "S_scanout"}
    BY <1>1, <2>1, <2>2 DEF SpiStep, SpiTo, SpiIdle, SpiAbort, SpiReconf, SpiTemp, SpiWaitReconf,
       SpiFirstWord, SpiWord, SpiStop, SpiCaptureT, SpiShift, SpiLast, SpiNext,
       SpiReconfDone, SpiReset, SpiAbortDone, abort_fifo_cmd, fifo_empty
  <2> QED
    BY <2>3, <2>4, <2>5
<1> QED
  BY <1>2, <1>3, <1>5, <1>6, <1>7 DEF AbortOrder, fifo_empty

-----------------------------------------------------------------------------
(* The sensor. *)

\* Where the trig manager is, from the timer manager.
LEMMA TimerAndTrig ==
  ASSUME TypeOK, Managers
  PROVE  /\ TimerIn({"exposure_end", "idle"}) =>
              TrigIn({"idle", "readout_state", "FOT_STATE", "EO_FOT_STATE"})
         /\ curr_timer_mngr_state = "level" => curr_trig_mngr_state = "exp_level"
         /\ curr_timer_mngr_state = "exposure" =>
              TrigIn({"wait_exp_start", "single_slope", "exp_level", "monitoring",
                      "SO_FOT_STATE", "FOT_STATE"})
         /\ curr_timer_mngr_state = "exposure_monitor" =>
              TrigIn({"idle", "readout_state", "trigger", "wait_exp_start", "wait_pet"})
         /\ TimerIn({"verify_reconf_busy", "delaying", "trig"}) => BetweenExposures
<1> USE DEF TimerIn, TrigIn, BetweenExposures
<1>1. CASE BeforeTrigger
  BY <1>1 DEF Managers, Waiting
<1>2. CASE curr_grab_mngr_state = "wait_eo_fot"
  BY <1>2 DEF Managers, Exposing, Delayed
<1>3. CASE InLevel
  BY <1>3 DEF Managers, Exposing, Delayed
<1> QED
  BY <1>1, <1>2, <1>3, GrabPhases

\* An exposure goes on until the FOT, and starts with the trigger.
LEMMA ExposureMoves ==
  ASSUME NEW exposure, NEW fot, SensorStep(exposure, fot), MonitorStep(exposure, fot), ExposureSeen,
         FotSeen
  PROVE  /\ xgs_exposure /\ ~xgs_exposure' => xgs_FOT
         /\ ~xgs_exposure /\ xgs_exposure' => curr_trig0 /\ ~xgs_FOT
         /\ xgs_exposure_p1' = xgs_exposure
         /\ xgs_exposure /\ TrigIn({"wait_exp_start", "single_slope", "exp_level"}) => ~xgs_FOT
BY DEF SensorStep, MonitorStep, FotSeen

LEMMA ExposureSeenStep ==
  ASSUME NEW cmd, NEW reconf_busy, NEW exposure, NEW fot,
         TypeOK, Managers, ExposureSeen, FotSeen,
         TimerStep(cmd, reconf_busy), TrigStep(cmd),
         SensorStep(exposure, fot), MonitorStep(exposure, fot)
  PROVE  ExposureSeen'
<1> USE DEF TrigIn, TimerIn
<1>1. ASSUME xgs_exposure'
      PROVE  curr_trig_mngr_state' \in {"wait_exp_start", "single_slope", "exp_level",
                                        "monitoring", "SO_FOT_STATE", "FOT_STATE"}
  <2>1. CASE xgs_exposure
    BY <2>1 DEF ExposureSeen, FotSeen, TrigStep, TrigMngr, TrigTo
  <2>2. CASE ~xgs_exposure
    BY <1>1, <2>2, ExposureMoves DEF curr_trig0, TrigStep, TrigMngr, TrigTo
  <2> QED
    BY <2>1, <2>2
<1>2. ASSUME curr_trig_mngr_state' \in {"single_slope", "exp_level", "monitoring"}
      PROVE  xgs_exposure'
  <2>1. /\ \/ curr_trig_mngr_state = "wait_exp_start" /\ (xgs_exposure \/ timer_exposure)
           \/ curr_trig_mngr_state \in {"single_slope", "exp_level"}
           \/ curr_trig_mngr_state = "monitoring" /\ ~xgs_FOT
    BY <1>2 DEF TrigStep, TrigMngr, TrigTo
  <2>2. xgs_exposure
    BY <2>1 DEF ExposureSeen, timer_exposure
  <2> QED
    BY <2>1, <2>2, ExposureMoves
<1>3. ASSUME curr_timer_mngr_state' = "level" PROVE xgs_exposure'
  <2>1. \/ curr_timer_mngr_state = "level"
        \/ curr_timer_mngr_state = "exposure_monitor" /\ xgs_exposure
    BY <1>3 DEF TimerStep, TimerMngr, TimerTo, ExposureRises
  <2>2. xgs_exposure /\ curr_trig_mngr_state \in {"wait_exp_start", "exp_level"}
    BY <2>1, TimerAndTrig DEF ExposureSeen
  <2> QED
    BY <2>2, ExposureMoves
<1>4. ASSUME curr_timer_mngr_state' = "exposure"
      PROVE  xgs_exposure_p1' /\ (curr_trig_mngr_state' = "wait_exp_start" => xgs_exposure')
  <2>1. \/ curr_timer_mngr_state = "level"
        \/ curr_timer_mngr_state = "exposure_monitor" /\ xgs_exposure
        \/ curr_timer_mngr_state = "exposure" /\ (xgs_exposure \/ ~xgs_exposure_p1)
    BY <1>4 DEF TimerStep, TimerMngr, TimerTo, ExposureRises, ExposureFalls
  <2>2. xgs_exposure
    BY <2>1 DEF ExposureSeen
  <2>3. curr_trig_mngr_state' = "wait_exp_start" => curr_trig_mngr_state = "wait_exp_start"
    BY <2>1, TimerAndTrig DEF TrigStep, TrigMngr, TrigTo, ExposureSeen
  <2> QED
    BY <2>2, <2>3, ExposureMoves
<1>5. ASSUME curr_timer_mngr_state' = "exposure_monitor" PROVE ~xgs_exposure
  <2>1. \/ curr_timer_mngr_state = "trig"
        \/ curr_timer_mngr_state = "exposure_monitor" /\ ~(xgs_exposure /\ ~xgs_exposure_p1)
    BY <1>5 DEF TimerStep, TimerMngr, TimerTo, ExposureRises
  <2> QED
    BY <2>1, TimerAndTrig DEF ExposureSeen, BetweenExposures
<1>6. ASSUME curr_timer_mngr_state' \in {"exposure_end", "idle"} PROVE ~xgs_exposure'
  <2>1. \/ curr_timer_mngr_state \in {"exposure_end", "idle"}
        \/ curr_timer_mngr_state = "exposure" /\ (abort_seq \/ ~xgs_exposure)
        \/ curr_timer_mngr_state = "exposure_monitor" /\ abort_seq
    BY <1>6 DEF TimerStep, TimerMngr, TimerTo, ExposureFalls
  <2>2. curr_timer_mngr_state = "exposure" => ~abort_seq
    BY GrabPhases DEF Managers, Waiting, Exposing, Delayed
  <2>3. ~xgs_exposure /\ ~curr_trig0
    BY <2>1, <2>2, TimerAndTrig DEF ExposureSeen, curr_trig0, Managers, Delayed, BetweenExposures
  <2> QED
    BY <2>3, ExposureMoves
<1> QED
  BY <1>1, <1>2, <1>3, <1>4, <1>5, <1>6, ExposureMoves DEF ExposureSeen

\* A FOT starts after the exposure time and ends after the exposure.
LEMMA FotMoves ==
  ASSUME NEW exposure, NEW fot, SensorStep(exposure, fot), MonitorStep(exposure, fot),
         ExposureSeen, FotSeen
  PROVE  /\ xgs_FOT' /\ ~xgs_FOT => curr_trig_mngr_state = "monitoring"
         /\ xgs_FOT /\ ~xgs_FOT' => ~xgs_exposure
         /\ xgs_FOT_p1' = xgs_FOT
BY DEF SensorStep, MonitorStep, ExposureSeen, FotSeen, TrigIn, curr_trig0

LEMMA FotSeenStep ==
  ASSUME NEW cmd, NEW exposure, NEW fot, TypeOK, ExposureSeen, FotSeen,
         TrigStep(cmd), SensorStep(exposure, fot), MonitorStep(exposure, fot),
         ReadoutCntrStep, UNCHANGED modeVars
  PROVE  FotSeen'
<1> USE DEF TrigIn
<1> DEFINE over  == readout_cntr_FOT /\ readout_cntr = 0
           start == xgs_FOT /\ ~xgs_FOT_p1
<1>1. xgs_FOT' /\ ~xgs_FOT_p1' => curr_trig_mngr_state' = "monitoring"
  BY FotMoves DEF TrigStep, TrigMngr, TrigTo
<1>2. xgs_exposure' /\ TrigIn({"wait_exp_start", "single_slope", "exp_level"})' => ~xgs_FOT'
  BY FotMoves, ExposureMoves DEF TrigStep, TrigMngr, TrigTo, FotSeen, ExposureSeen
<1>3. curr_trig_mngr_state' = "SO_FOT_STATE" => xgs_FOT'
  BY FotMoves DEF TrigStep, TrigMngr, TrigTo, ExposureSeen
<1>4. curr_trig_mngr_state' = "FOT_STATE" /\ ~xgs_FOT' => ~xgs_exposure' /\ ~xgs_exposure_p1'
  <2> SUFFICES ASSUME curr_trig_mngr_state' = "FOT_STATE", ~xgs_FOT'
               PROVE  ~xgs_exposure' /\ ~xgs_exposure_p1'
    OBVIOUS
  <2>1. curr_trig_mngr_state \in {"SO_FOT_STATE", "FOT_STATE"}
    BY DEF TrigStep, TrigMngr, TrigTo
  <2>2. ~xgs_exposure
    BY <2>1, FotMoves DEF FotSeen
  <2> QED
    BY <2>1, <2>2, ExposureMoves DEF curr_trig0
<1>5. readout_cntr_EO_FOT' => curr_trig_mngr_state' = "FOT_STATE" /\ ~xgs_exposure'
  <2> SUFFICES ASSUME readout_cntr_EO_FOT'
               PROVE  curr_trig_mngr_state' = "FOT_STATE" /\ ~xgs_exposure'
    OBVIOUS
  <2>1. EO_FOT_SEL /\ over
    BY DEF ReadoutCntrStep, CountReadout, CountFotAndReadout
  <2>2. ~xgs_exposure'
    BY <2>1 DEF SensorStep, MonitorStep
  <2>3. curr_trig_mngr_state \in {"SO_FOT_STATE", "FOT_STATE"} /\ ~xgs_EO_FOT
    BY <2>1 DEF FotSeen
  <2> QED
    BY <2>2, <2>3 DEF TrigStep, TrigMngr, TrigTo
<1>6. readout_cntr_FOT' => TrigIn({"SO_FOT_STATE", "FOT_STATE"})'
  <2> SUFFICES ASSUME readout_cntr_FOT'
               PROVE  curr_trig_mngr_state' \in {"SO_FOT_STATE", "FOT_STATE"}
    OBVIOUS
  <2>1. EO_FOT_SEL /\ (start \/ readout_cntr_FOT)
    BY DEF ReadoutCntrStep, CountReadout, CountFotAndReadout
  <2>2. CASE start
    BY <2>2 DEF FotSeen, TrigStep, TrigMngr, TrigTo
  <2>3. CASE readout_cntr_FOT
    BY <2>1, <2>3 DEF FotSeen, TrigStep, TrigMngr, TrigTo
  <2> QED
    BY <2>1, <2>2, <2>3
<1>7. xgs_EO_FOT' => /\ curr_trig_mngr_state' = "FOT_STATE"
                     /\ ~xgs_exposure' /\ ~xgs_exposure_p1'
  <2> SUFFICES ASSUME xgs_EO_FOT'
               PROVE  /\ curr_trig_mngr_state' = "FOT_STATE"
                      /\ ~xgs_exposure' /\ ~xgs_exposure_p1'
    OBVIOUS
  <2>1. IF EO_FOT_SEL THEN readout_cntr_EO_FOT ELSE xgs_FOT_p1 /\ ~xgs_FOT
    BY DEF MonitorStep
  <2>2. curr_trig_mngr_state = "FOT_STATE" /\ ~xgs_exposure /\ ~xgs_EO_FOT
    BY <2>1 DEF FotSeen
  <2> QED
    BY <2>2, ExposureMoves DEF TrigStep, TrigMngr, TrigTo, curr_trig0
<1>8. CASE EO_FOT_SEL
  <2>1. EO_FOT_SEL'
    BY <1>8 DEF modeVars
  <2>2. /\ readout_cntr_FOT' <=> start \/ (readout_cntr_FOT /\ ~over /\ ~readout_cntr_EO_FOT)
        /\ readout_cntr_EO_FOT' <=> ~start /\ over
        /\ xgs_EO_FOT' <=> readout_cntr_EO_FOT
    BY <1>8 DEF ReadoutCntrStep, CountFotAndReadout, MonitorStep, TypeOK
  <2>3. readout_cntr_EO_FOT => ~start /\ ~over
    BY <1>8 DEF FotSeen
  <2>4. /\ ~(readout_cntr_FOT' /\ readout_cntr_EO_FOT')
        /\ xgs_EO_FOT' => ~readout_cntr_FOT' /\ ~readout_cntr_EO_FOT'
    BY <2>2, <2>3
  <2> QED
    BY <1>1, <1>2, <1>3, <1>4, <1>5, <1>6, <1>7, <2>1, <2>4 DEF FotSeen
<1>9. CASE ~EO_FOT_SEL
  <2>1. ~EO_FOT_SEL'
    BY <1>9 DEF modeVars
  <2>2. ~readout_cntr_FOT' /\ ~readout_cntr_EO_FOT'
    BY <1>9 DEF ReadoutCntrStep, CountReadout
  <2>3. xgs_FOT' => TrigIn({"monitoring", "SO_FOT_STATE", "FOT_STATE"})'
    BY <1>9, FotMoves DEF FotSeen, TrigStep, TrigMngr, TrigTo
  <2>4. xgs_FOT_p1' /\ ~xgs_FOT' => curr_trig_mngr_state' = "FOT_STATE"
    BY <1>9, FotMoves DEF FotSeen, ExposureSeen, TrigStep, TrigMngr, TrigTo
  <2>5. xgs_EO_FOT' => ~xgs_FOT' /\ ~xgs_FOT_p1'
    BY <1>9, FotMoves DEF FotSeen, MonitorStep
  <2> QED
    BY <1>1, <1>2, <1>3, <1>4, <1>5, <1>6, <1>7, <2>1, <2>2, <2>3, <2>4, <2>5 DEF FotSeen
<1> QED
  BY <1>8, <1>9

-----------------------------------------------------------------------------
(* Types. *)

\* The readout counter stays below its modulus, and counts down above zero.
LEMMA DownFacts ==
  ASSUME NEW c \in 0 .. CntrMod - 1
  PROVE  Down(c) \in 0 .. CntrMod - 1 /\ (c > 0 => Down(c) = c - 1)
<1>1. CntrMod \in Nat /\ CntrMod > 0
  BY XgsCtrlAssumption
<1>2. CASE c > 0
  <2>1. c - 1 \in 0 .. CntrMod - 1
    BY <1>1, <1>2
  <2>2. (c - 1) % CntrMod = c - 1
    BY <1>1, <2>1
  <2> QED
    BY <2>1, <2>2 DEF Down
<1>3. CASE c = 0
  BY <1>1, <1>3 DEF Down
<1> QED
  BY <1>2, <1>3

LEMMA GrabTypes ==
  ASSUME Types, NEW cmd, NEW ext_trig \in BOOLEAN,
         FlagsStep(cmd), HwTrigStep(ext_trig), GrabStep(cmd), ParamsStep(cmd, reg), UNCHANGED modeVars
  PROVE  /\ curr_grab_mngr_state' \in
              {"idle", "sensor_reprog", "wait_end_rdo", "wait_end_deadwindow", "arm", "trig",
               "wait_level", "wait_end_rdout", "wait_so_fot", "wait_eo_fot"}
         /\ grab_active' \in BOOLEAN /\ grab_pending' \in BOOLEAN /\ hw_trig' \in BOOLEAN
         /\ grab_mngr_trig_p1' \in BOOLEAN /\ ext_trig_p2' \in BOOLEAN /\ ext_trig_p3' \in BOOLEAN
         /\ curr_trigger_src' \in {"NONE", TRIGGER_SRC'}
         /\ {curr_exposure', curr_BUFFER_ID', curr_db_BUFFER_ID'} \subseteq 0 .. Sets - 1
<1>1. curr_grab_mngr_state' \in
        {"idle", "sensor_reprog", "wait_end_rdo", "wait_end_deadwindow", "arm", "trig",
         "wait_level", "wait_end_rdout", "wait_so_fot", "wait_eo_fot"}
  BY DEF GrabStep, GrabMngr, GrabTo, GrabIdle, GrabReprog, GrabArm, GrabReady, RdoWait, RdoEnd,
     RdoAbort, DeadEnd, DeadWait, DeadAbort, ArmWait, ArmTrig, ArmAbort, TrigSent, LevelWait,
     LevelRdo, LevelEnd, LevelRdoWait, LevelRdoEnd, SoFotWait, SoFotSeen, EoFotWait,
     EoFotAbort, EoFotLast, EoFotNext, ReadyState
<1>2. grab_active' \in BOOLEAN /\ grab_pending' \in BOOLEAN
  BY DEF FlagsStep, Types, TypeOK
<1>3. hw_trig' \in BOOLEAN /\ ext_trig_p2' \in BOOLEAN /\ ext_trig_p3' \in BOOLEAN
  BY DEF HwTrigStep, Types, TypeOK
<1>4. grab_mngr_trig_p1' \in BOOLEAN
  BY DEF GrabStep, grab_mngr_trig
<1>5. curr_trigger_src' \in {"NONE", TRIGGER_SRC'}
  BY DEF ParamsStep, Types, TypeOK, modeVars
<1>6. {reg, curr_exposure, curr_BUFFER_ID, curr_db_BUFFER_ID} \subseteq 0 .. Sets - 1
  BY DEF Types, TypeOK
<1>7. {curr_exposure', curr_BUFFER_ID', curr_db_BUFFER_ID'} \subseteq 0 .. Sets - 1
  BY <1>6 DEF ParamsStep
<1> QED
  BY <1>1, <1>2, <1>3, <1>4, <1>5, <1>7

LEMMA TimerTrigTypes ==
  ASSUME Types, NEW cmd, NEW reconf_busy, NEW fifo_done, NEW dma_idle,
         TimerStep(cmd, reconf_busy), TrigStep(cmd), AbortStep(cmd, fifo_done, dma_idle)
  PROVE  /\ curr_timer_mngr_state' \in
              {"idle", "verify_reconf_busy", "delaying", "trig", "exposure_monitor",
               "exposure", "exposure_end", "level"}
         /\ timer_cntr' \in 0 .. TRIGGER_DELAY + 1
         /\ curr_timer_mngr_state' = "delaying" => timer_cntr' <= TRIGGER_DELAY
         /\ trig_delayed_p1' \in BOOLEAN
         /\ curr_trig_mngr_state' \in
              {"idle", "trigger", "wait_exp_start", "single_slope", "exp_level", "monitoring",
               "SO_FOT_STATE", "FOT_STATE", "EO_FOT_STATE", "readout_state", "wait_pet"}
         /\ abort_seq' \in BOOLEAN /\ abort_delai' \in BOOLEAN /\ abort_pet' \in BOOLEAN
         /\ exposure_cntr' \in 0 .. ExposureCap
         /\ curr_grab_abort_state' \in
              {"idle", "abort_states", "abort_cmd_flags", "abort_ser_fifo", "abort_dma", "abort_irq"}
<1>1. curr_timer_mngr_state' \in
        {"idle", "verify_reconf_busy", "delaying", "trig", "exposure_monitor",
         "exposure", "exposure_end", "level"}
  BY DEF TimerStep, TimerMngr, TimerTo
<1>2. /\ timer_cntr' \in 0 .. TRIGGER_DELAY + 1
      /\ curr_timer_mngr_state' = "delaying" => timer_cntr' <= TRIGGER_DELAY
  <2>1. TRIGGER_DELAY \in Nat /\ timer_cntr \in Nat
    BY XgsCtrlAssumption DEF Types, TypeOK
  <2>2. CASE curr_timer_mngr_state = "delaying"
    <3>1. timer_cntr <= TRIGGER_DELAY /\ timer_cntr' = timer_cntr + 1
      BY <2>2 DEF Types, TimerStep, timer_cnt
    <3>2. curr_timer_mngr_state' = "delaying" => timer_cntr # TRIGGER_DELAY
      BY <2>2 DEF TimerStep, TimerMngr, TimerTo, DelayOver
    <3> QED
      BY <2>1, <3>1, <3>2
  <2>3. CASE curr_timer_mngr_state # "delaying"
    BY <2>1, <2>3 DEF TimerStep, timer_cnt
  <2> QED
    BY <2>2, <2>3
<1>3. trig_delayed_p1' \in BOOLEAN
  BY DEF TimerStep, trig_delayed
<1>4. curr_trig_mngr_state' \in
        {"idle", "trigger", "wait_exp_start", "single_slope", "exp_level", "monitoring",
         "SO_FOT_STATE", "FOT_STATE", "EO_FOT_STATE", "readout_state", "wait_pet"}
  BY DEF TrigStep, TrigMngr, TrigTo
<1>5. abort_seq' \in BOOLEAN /\ abort_delai' \in BOOLEAN /\ abort_pet' \in BOOLEAN
  BY DEF TrigStep, AbortFlags
<1>6. exposure_cntr' \in 0 .. ExposureCap
  <2>1. ExposureCap \in Nat /\ exposure_cntr \in 0 .. ExposureCap
    BY XgsCtrlAssumption DEF Types, TypeOK
  <2>2. \/ exposure_cntr < ExposureCap /\ exposure_cntr' = exposure_cntr + 1
        \/ exposure_cntr = ExposureCap /\ exposure_cntr' = exposure_cntr
        \/ exposure_cntr' = 0
    BY <2>1 DEF TrigStep, ExposureCntrStep
  <2> QED
    BY <2>1, <2>2
<1>7. curr_grab_abort_state' \in
        {"idle", "abort_states", "abort_cmd_flags", "abort_ser_fifo", "abort_dma", "abort_irq"}
  BY DEF AbortStep, AbortTo
<1> QED
  BY <1>1, <1>2, <1>3, <1>4, <1>5, <1>6, <1>7

LEMMA ReadoutTypes ==
  ASSUME Types, NEW exposure \in BOOLEAN, NEW fot \in BOOLEAN, MonitorStep(exposure, fot),
         ReadoutCntrStep, ReadoutFlagStep
  PROVE  /\ readout_cntr' \in 0 .. CntrMod - 1 /\ readout_cntr2' \in 0 .. READOUT_LENGTH
         /\ {readout', readout_cntr2_armed', readout_cntr2_end', readout_cntr_FOT',
             readout_cntr_EO_FOT', xgs_exposure', xgs_exposure_p1', xgs_FOT', xgs_FOT_p1',
             xgs_EO_FOT'} \subseteq BOOLEAN
<1>1. /\ {READOUT_LENGTH, FOT_LENGTH} \subseteq 0 .. CntrMod - 1 /\ READOUT_LENGTH \in Nat
      /\ readout_cntr \in 0 .. CntrMod - 1 /\ readout_cntr2 \in 0 .. READOUT_LENGTH
  <2>1. /\ READOUT_LENGTH \in Nat /\ FOT_LENGTH \in Nat /\ CntrMod \in Nat
        /\ READOUT_LENGTH < CntrMod /\ FOT_LENGTH < CntrMod
    BY XgsCtrlAssumption
  <2>2. readout_cntr \in 0 .. CntrMod - 1 /\ readout_cntr2 \in 0 .. READOUT_LENGTH
    BY DEF Types, TypeOK
  <2> QED
    BY <2>1, <2>2
<1>2. readout_cntr' \in {READOUT_LENGTH, FOT_LENGTH, Down(readout_cntr), readout_cntr}
  BY DEF ReadoutCntrStep, CountReadout, CountFotAndReadout
<1>3. readout_cntr' \in 0 .. CntrMod - 1
  BY <1>1, <1>2, DownFacts
<1>4. readout_cntr2' \in 0 .. READOUT_LENGTH
  <2>1. \/ readout_cntr2' \in {READOUT_LENGTH, 0}
        \/ readout_cntr2 # 0 /\ readout_cntr2' = readout_cntr2 - 1
    <3>1. CASE readout_cntr2_armed /\ readout_cntr2 = 0
      BY <3>1 DEF ReadoutFlagStep
    <3>2. CASE ~(readout_cntr2_armed /\ readout_cntr2 = 0)
      <4>1. CASE EO_FOT
        BY <3>2, <4>1 DEF ReadoutFlagStep
      <4>2. CASE ~EO_FOT /\ readout_cntr2_armed
        BY <3>2, <4>2 DEF ReadoutFlagStep
      <4>3. CASE ~EO_FOT /\ ~readout_cntr2_armed
        BY <3>2, <4>3 DEF ReadoutFlagStep
      <4> QED
        BY <4>1, <4>2, <4>3
    <3> QED
      BY <3>1, <3>2
  <2> QED
    BY <1>1, <2>1
<1>5. {readout', readout_cntr2_armed', readout_cntr2_end'} \subseteq BOOLEAN
  BY DEF ReadoutFlagStep
<1>6. readout_cntr_FOT' \in BOOLEAN /\ readout_cntr_EO_FOT' \in BOOLEAN
  BY DEF ReadoutCntrStep, CountReadout, CountFotAndReadout
<1>7. /\ xgs_exposure' \in BOOLEAN /\ xgs_exposure_p1' \in BOOLEAN
      /\ xgs_FOT' \in BOOLEAN /\ xgs_FOT_p1' \in BOOLEAN /\ xgs_EO_FOT' \in BOOLEAN
  BY DEF MonitorStep, Types
<1> QED
  BY <1>3, <1>4, <1>5, <1>6, <1>7

\* What software does, and the serial link; fifo is any sequence.
LEMMA SoftwareTypes ==
  ASSUME Types, NEW cmd, SoftwareStep(cmd), GrabsStep(cmd)
  PROVE  /\ reg' \in 0 .. Sets - 1 /\ sw_ready' \in BOOLEAN /\ bus_busy' \in BOOLEAN
         /\ grabs' \in Seq(0 .. Sets - 1)
<1>1. Sets \in Nat \ {0}
  BY XgsCtrlAssumption
<1>2. reg \in 0 .. Sets - 1 /\ sw_ready \in BOOLEAN /\ grabs \in Seq(0 .. Sets - 1)
  BY DEF Types, TypeOK
<1>3. reg' \in 0 .. Sets - 1
  <2>1. (reg + 1) % Sets \in 0 .. Sets - 1
    BY <1>1, <1>2
  <2> QED
    BY <1>2, <2>1 DEF SoftwareStep
<1>4. sw_ready' \in BOOLEAN /\ bus_busy' \in BOOLEAN
  BY <1>2 DEF SoftwareStep
<1>5. grabs' \in Seq(0 .. Sets - 1)
  <2> DEFINE left == IF EO_FOT /\ grabs # << >> THEN Tail(grabs) ELSE grabs
  <2>1. left \in Seq(0 .. Sets - 1)
    <3>1. grabs # << >> => Tail(grabs) \in Seq(0 .. Sets - 1)
      BY <1>2, HeadTailProperties
    <3> QED
      BY <1>2, <3>1
  <2>2. Append(left, reg) \in Seq(0 .. Sets - 1)
    BY <1>2, <2>1
  <2>3. grabs' \in {<< >>, left, Append(left, reg)}
    <3>1. CASE abort_grab_cmd
      BY <3>1 DEF GrabsStep
    <3>2. CASE ~abort_grab_cmd /\ cmd = "GRAB_CMD"
      BY <3>2 DEF GrabsStep
    <3>3. CASE ~abort_grab_cmd /\ cmd # "GRAB_CMD"
      BY <3>3 DEF GrabsStep
    <3> QED
      BY <3>1, <3>2, <3>3
  <2>4. << >> \in Seq(0 .. Sets - 1)
    OBVIOUS
  <2> QED
    BY <2>1, <2>2, <2>3, <2>4
<1> QED
  BY <1>3, <1>4, <1>5

LEMMA LinkTypes ==
  ASSUME Types, NEW cmd, NEW done,
         SpiClock(cmd = "GRAB_CMD", grab_mngr_sensor_reconf, cmd = "REFRESH_TEMP",
                  abort_now, abort_fifo_cmd, done)
  PROVE  /\ S_currentState' \in
              {"S_idle", "S_wait_reconf", "S_readfifo1", "S_captureT", "S_scanout",
               "S_reconf_done", "S_abort_fifo_cmd", "S_abort_fifo_done"}
         /\ reconf_WF_pipe' \in 0 .. 3
         /\ {reconf_start', reconf_start_buff', read_temp_start', read_temp_start_buff',
             read_temp_flag'} \subseteq BOOLEAN
<1>1. S_currentState' \in
        {"S_idle", "S_wait_reconf", "S_readfifo1", "S_captureT", "S_scanout",
         "S_reconf_done", "S_abort_fifo_cmd", "S_abort_fifo_done"}
  BY DEF SpiClock, SpiStep, SpiTo, SpiIdle, SpiAbort, SpiReconf, SpiTemp, SpiWaitReconf,
     SpiFirstWord, SpiWord, SpiStop, SpiCaptureT, SpiShift, SpiLast, SpiNext,
     SpiReconfDone, SpiReset, SpiAbortDone
<1>2. reconf_WF_pipe' \in 0 .. 3
  BY DEF SpiClock, PipeStep
<1>3. reconf_start' \in BOOLEAN /\ reconf_start_buff' \in BOOLEAN
  BY DEF SpiClock, ReconfRequest
<1>4. read_temp_start' \in BOOLEAN /\ read_temp_start_buff' \in BOOLEAN
  BY DEF SpiClock, TempRequest
<1>5. read_temp_flag' \in BOOLEAN
  BY DEF SpiClock, TempFlagStep, Types
<1> QED
  BY <1>1, <1>2, <1>3, <1>4, <1>5

LEMMA TypesStep ==
  ASSUME Types, NEW cmd, NEW ext_trig \in BOOLEAN, NEW exposure \in BOOLEAN,
         NEW fot \in BOOLEAN, NEW done, NEW dma_idle,
         Clock(cmd, ext_trig, exposure, fot, done, dma_idle)
  PROVE  Types'
<1>1. /\ MayWrite(cmd) /\ SensorStep(exposure, fot)
      /\ FlagsStep(cmd) /\ ParamsStep(cmd, reg) /\ HwTrigStep(ext_trig)
      /\ GrabStep(cmd) /\ TimerStep(cmd, busy) /\ TrigStep(cmd)
      /\ MonitorStep(exposure, fot) /\ ReadoutCntrStep /\ ReadoutFlagStep
      /\ AbortStep(cmd, abort_fifo_cmd_done, dma_idle)
      /\ SpiClock(cmd = "GRAB_CMD", grab_mngr_sensor_reconf, cmd = "REFRESH_TEMP",
                  abort_now, abort_fifo_cmd, done)
      /\ SoftwareStep(cmd) /\ GrabsStep(cmd)
      /\ UNCHANGED modeVars
  BY ClockSteps
<1>2. /\ TRIGGER_SRC' \in {"CONTINUOUS", "HW", "SW"}
      /\ {LEVEL_MODE_EXP', TRIGGER_OVERLAP', TRIGGER_OVERLAP_BUFFn', EO_FOT_SEL',
          SENSOR_REG_UPDATE'} \subseteq BOOLEAN
  BY <1>1 DEF Types, modeVars
<1>3. TypeOK'
  BY <1>1, GrabTypes, TimerTrigTypes, ReadoutTypes, SoftwareTypes, LinkTypes DEF TypeOK
<1> QED
  BY <1>1, <1>2, <1>3, GrabTypes, TimerTrigTypes, ReadoutTypes, SoftwareTypes, LinkTypes DEF Types

-----------------------------------------------------------------------------
(* The readout. *)

\* The timer manager, from the trig manager.
LEMMA ExposureTimed ==
  ASSUME TypeOK, Managers
  PROVE  /\ TrigIn({"monitoring", "SO_FOT_STATE"}) => curr_timer_mngr_state = "exposure"
         /\ curr_trig_mngr_state = "wait_pet" => curr_timer_mngr_state = "exposure_monitor"
         /\ curr_trig_mngr_state = "exp_level" => TimerIn({"exposure", "level"})
         /\ curr_timer_mngr_state = "exposure" => ~abort_seq
BY TimerAndTrig, GrabPhases
DEF TypeOK, TimerIn, TrigIn, Managers, Waiting, Delayed, Exposing, BetweenExposures

\* Between a trigger and its FOT, and in the FOT, the grab manager is past its trigger.
LEMMA GrabTriggered ==
  ASSUME TypeOK, Managers
  PROVE  /\ ~BetweenExposures => ~BeforeTrigger
         /\ EO_FOT => curr_grab_mngr_state = "wait_eo_fot" /\ curr_timer_mngr_state = "idle"
         /\ SO_FOT => curr_grab_mngr_state \in {"wait_so_fot", "wait_eo_fot"}
BY TimerAndTrig, ExposureTimed, GrabPhases
DEF TypeOK, TimerIn, TrigIn, Managers, Waiting, Delayed, Exposing, BetweenExposures, EO_FOT,
    SO_FOT, InLevel

\* The exposure that ends is not the one of a frame still read out.
LEMMA ExposedAfterReadout ==
  ASSUME Types, Managers, ReadoutFlag, EndsAfterReadout, NEW cmd, TrigStep(cmd),
         curr_trig_mngr_state' = "monitoring"
  PROVE  ~readout /\ ~SO_FOT
<1>1. CASE curr_trig_mngr_state = "monitoring"
  BY <1>1 DEF ReadoutFlag, TrigIn, SO_FOT
<1>2. CASE curr_trig_mngr_state = "single_slope"
  <2>1. exposure_cntr = curr_exposure_ss
    BY <1>2 DEF TrigStep, TrigMngr, TrigTo
  <2>2. curr_timer_mngr_state = "exposure" /\ ~Level
    BY <1>2, GrabPhases DEF EndsAfterReadout, Types, Managers, Waiting, Exposing, TrigIn
  <2>3. /\ readout_cntr2_armed => readout_cntr2 + exposure_cntr + 2 <= curr_exposure_ss
        /\ readout_cntr2_end => exposure_cntr + 1 <= curr_exposure_ss
    BY <1>2, <2>2 DEF EndsAfterReadout, TrigIn
  <2>4. exposure_cntr \in Nat /\ readout_cntr2 \in Nat
    BY XgsCtrlAssumption DEF Types, TypeOK
  <2>5. ~readout_cntr2_armed /\ ~readout_cntr2_end
    BY <2>1, <2>3, <2>4
  <2> QED
    BY <1>2, <2>5 DEF ReadoutFlag, FOT, EO_FOT, SO_FOT
<1>3. CASE curr_trig_mngr_state = "exp_level"
  <2>1. ~trig_delayed
    BY <1>3 DEF TrigStep, TrigMngr, TrigTo
  <2>2. curr_timer_mngr_state = "exposure"
    BY <1>3, <2>1, ExposureTimed DEF Types, TimerIn, trig_delayed
  <2>3. curr_grab_mngr_state = "wait_so_fot"
    BY <1>3, <2>2, GrabPhases DEF Types, Managers, Waiting, Exposing
  <2> QED
    BY <1>3, <2>3 DEF ReadoutFlag, SO_FOT
<1> QED
  BY <1>1, <1>2, <1>3 DEF TrigStep, TrigMngr, TrigTo

LEMMA ReadoutFlagKept ==
  ASSUME Types, Managers, ReadoutFlag, CountersAgree, EndsAfterReadout, NEW cmd,
         GrabStep(cmd), TrigStep(cmd), ReadoutFlagStep
  PROVE  ReadoutFlag'
<1> DEFINE over == readout_cntr2_armed /\ readout_cntr2 = 0
<1> USE DEF TrigIn, FOT, EO_FOT, SO_FOT
<1>1. /\ readout_cntr2_armed' <=> ~over /\ (EO_FOT \/ readout_cntr2_armed)
      /\ readout_cntr2_end' <=> over
      /\ readout' <=> ~readout_cntr2_end /\ (SO_FOT \/ readout)
  BY DEF ReadoutFlagStep, Types
<1>2. /\ FOT' <=> SO_FOT \/ (FOT /\ ~xgs_EO_FOT)
      /\ EO_FOT' <=> FOT /\ xgs_EO_FOT
  BY DEF TrigStep, TrigMngr, TrigTo
<1>3. readout' <=> readout_cntr2_armed' \/ readout_cntr2_end' \/ FOT' \/ EO_FOT'
  BY <1>1, <1>2 DEF ReadoutFlag
<1>4. ~(readout_cntr2_armed' /\ readout_cntr2_end')
  BY <1>1
<1>5. TrigIn({"monitoring", "SO_FOT_STATE"})' => ~readout'
  <2>1. curr_trig_mngr_state' = "SO_FOT_STATE" => curr_trig_mngr_state = "monitoring"
    BY DEF TrigStep, TrigMngr, TrigTo
  <2> QED
    BY <1>1, <2>1, ExposedAfterReadout DEF ReadoutFlag
<1>6. FOT' \/ EO_FOT' => ~readout_cntr2_armed' /\ ~readout_cntr2_end'
  BY <1>1, <1>2 DEF ReadoutFlag
<1>7. curr_trig_mngr_state' = "idle" => ~readout_cntr2_armed'
  <2>1. curr_trig_mngr_state' = "idle" =>
          \/ curr_trig_mngr_state = "idle"
          \/ curr_trig_mngr_state = "readout_state" /\ readout_cntr = 0
    BY DEF TrigStep, TrigMngr, TrigTo
  <2> QED
    BY <1>1, <2>1 DEF ReadoutFlag, CountersAgree, readout_cnt
<1>8. ASSUME curr_grab_mngr_state' = "wait_so_fot" PROVE ~readout'
  <2>1. InLevel /\ ~SO_FOT
    BY <1>8, GrabBefore, GrabFot, GrabLevel, GrabPhases, GrabTriggered
    DEF Types, BeforeTrigger, InLevel, ReadyState
  <2>2. ~readout
    BY <1>8, <2>1, GrabLevel DEF InLevel, ReadoutFlag
  <2> QED
    BY <1>1, <2>1, <2>2
<1> QED
  BY <1>3, <1>4, <1>5, <1>6, <1>7, <1>8 DEF ReadoutFlag

\* Both counters start from EO_FOT and count down together.
LEMMA CountersAgreeStep ==
  ASSUME Types, FotSeen, ReadoutFlag, CountersAgree, NEW cmd, NEW exposure, NEW fot,
         TrigStep(cmd), MonitorStep(exposure, fot), ReadoutCntrStep, ReadoutFlagStep,
         UNCHANGED modeVars
  PROVE  CountersAgree'
<1> DEFINE over  == readout_cntr_FOT /\ readout_cntr = 0
           start == xgs_FOT /\ ~xgs_FOT_p1
<1> USE DEF TrigIn, FOT, EO_FOT, readout_cnt
<1>1. EO_FOT_SEL' = EO_FOT_SEL
  BY DEF modeVars
<1>2. curr_trig_mngr_state # "monitoring" => ~start
  BY DEF FotSeen
<1>3. /\ readout_cntr_FOT => TrigIn({"SO_FOT_STATE", "FOT_STATE"})
      /\ readout_cntr_EO_FOT => curr_trig_mngr_state = "FOT_STATE"
      /\ xgs_EO_FOT => ~readout_cntr_FOT /\ ~readout_cntr_EO_FOT
  BY DEF FotSeen
<1>4. ASSUME EO_FOT_SEL, xgs_EO_FOT' PROVE readout_cntr' = READOUT_LENGTH
  <2>1. readout_cntr_EO_FOT
    BY <1>4 DEF MonitorStep
  <2> QED
    BY <1>2, <1>3, <1>4, <2>1 DEF ReadoutCntrStep, CountFotAndReadout
<1>5. ASSUME EO_FOT_SEL, EO_FOT' PROVE readout_cntr' = READOUT_LENGTH
  <2>1. curr_trig_mngr_state = "FOT_STATE" /\ xgs_EO_FOT
    BY <1>5 DEF TrigStep, TrigMngr, TrigTo
  <2>2. readout_cntr = READOUT_LENGTH
    BY <1>5, <2>1 DEF CountersAgree
  <2> QED
    BY <1>2, <1>3, <1>5, <2>1, <2>2 DEF ReadoutCntrStep, CountFotAndReadout
<1>6. ASSUME readout_cnt', readout_cntr2_armed' PROVE readout_cntr2' = readout_cntr'
  <2>1. curr_trig_mngr_state \in {"EO_FOT_STATE", "readout_state", "wait_pet"}
    BY <1>6 DEF TrigStep, TrigMngr, TrigTo
  <2>2. ~(readout_cntr2_armed /\ readout_cntr2 = 0)
    BY <1>6 DEF ReadoutFlagStep
  <2>3. ~start /\ ~over /\ ~readout_cntr_EO_FOT /\ ~readout_cntr_FOT
    BY <1>2, <1>3, <2>1
  <2>4. CASE EO_FOT
    <3>1. readout_cntr2' = READOUT_LENGTH
      BY <2>2, <2>4 DEF ReadoutFlagStep
    <3>2. CASE EO_FOT_SEL
      <4>1. readout_cntr = READOUT_LENGTH
        BY <2>4, <3>2 DEF CountersAgree
      <4> QED
        BY <2>3, <2>4, <3>1, <3>2, <4>1 DEF ReadoutCntrStep, CountFotAndReadout
    <3>3. CASE ~EO_FOT_SEL
      BY <2>4, <3>1, <3>3 DEF ReadoutCntrStep, CountReadout
    <3> QED
      BY <3>2, <3>3
  <2>5. CASE readout_cnt
    <3>1. readout_cntr2_armed /\ ~EO_FOT
      BY <1>6, <2>5 DEF ReadoutFlagStep
    <3>2. readout_cntr2' = readout_cntr2 - 1 /\ readout_cntr2 = readout_cntr /\ readout_cntr # 0
      BY <2>2, <2>5, <3>1 DEF ReadoutFlagStep, CountersAgree
    <3>3. readout_cntr' = Down(readout_cntr)
      <4>1. CASE EO_FOT_SEL
        BY <2>3, <2>5, <4>1 DEF ReadoutCntrStep, CountFotAndReadout
      <4>2. CASE ~EO_FOT_SEL
        BY <2>5, <3>1, <4>2 DEF ReadoutCntrStep, CountReadout
      <4> QED
        BY <4>1, <4>2
    <3>4. readout_cntr \in 0 .. CntrMod - 1 /\ CntrMod \in Nat
      BY XgsCtrlAssumption DEF Types, TypeOK
    <3>5. Down(readout_cntr) = readout_cntr - 1
      BY <3>2, <3>4, DownFacts
    <3> QED
      BY <3>2, <3>3, <3>5
  <2> QED
    BY <2>1, <2>4, <2>5
<1> QED
  BY <1>1, <1>4, <1>5, <1>6 DEF CountersAgree

\* The exposure time of a grab does not change while it is exposed.
LEMMA ExposureTimeKept ==
  ASSUME Types, Managers, GrabsQueued, NEW cmd, ParamsStep(cmd, reg), ~BetweenExposures, ~EO_FOT
  PROVE  curr_exposure_ss' = curr_exposure_ss
<1>1. grab_active
  BY GrabTriggered DEF Types, GrabsQueued, BeforeTrigger
<1>2. curr_exposure' = curr_exposure
  BY <1>1 DEF ParamsStep, LoadExposure, NewGrab
<1> QED
  BY <1>2 DEF curr_exposure_ss

\* What is left of the readout shrinks as fast as what is left of the exposure.
LEMMA LeftOfBoth ==
  ASSUME NEW c \in Nat, NEW e \in Nat, NEW f \in Nat, NEW ss \in Nat, f <= e + 1
  PROVE  /\ c + e + 2 <= ss => (c - 1) + f + 2 <= ss
         /\ e + 2 <= ss => f + 1 <= ss
OBVIOUS

LEMMA EndsAfterReadoutStep ==
  ASSUME Types, Managers, ExposureSeen, ReadoutFlag, CountersAgree, EndsAfterReadout, GrabsQueued,
         NEW cmd, NEW reconf_busy, ParamsStep(cmd, reg),
         TimerStep(cmd, reconf_busy), TrigStep(cmd), ReadoutFlagStep, UNCHANGED modeVars
  PROVE  EndsAfterReadout'
<1> DEFINE over == readout_cntr2_armed /\ readout_cntr2 = 0
<1>1. Level' = Level
  BY DEF modeVars, Level
<1>2. ASSUME curr_timer_mngr_state' \notin {"exposure", "exposure_end", "level"}
      PROVE  exposure_cntr' = 0
  <2>1. ~timer_exposure
    BY <1>2 DEF TimerStep, TimerMngr, TimerTo, timer_exposure
  <2> QED
    BY <2>1 DEF TrigStep, ExposureCntrStep
<1>3. ASSUME curr_trig_mngr_state' = "single_slope" PROVE curr_timer_mngr_state' = "exposure"
  <2>1. \/ curr_trig_mngr_state = "wait_exp_start" /\ ~Level /\ timer_exposure
        \/ curr_trig_mngr_state = "single_slope"
    BY <1>3 DEF TrigStep, TrigMngr, TrigTo, Level
  <2>2. curr_timer_mngr_state = "exposure"
    BY <2>1 DEF timer_exposure, EndsAfterReadout, Managers, Delayed
  <2>3. xgs_exposure /\ ~abort_seq
    BY <2>1, <2>2, ExposureTimed DEF Types, ExposureSeen, TrigIn
  <2> QED
    BY <2>2, <2>3 DEF TimerStep, TimerMngr, TimerTo, ExposureFalls
<1>4. ASSUME ~Level, curr_trig_mngr_state' \in {"trigger", "wait_exp_start", "single_slope"}
      PROVE  /\ readout_cntr2_armed' => readout_cntr2' + exposure_cntr' + 2 <= curr_exposure_ss'
             /\ readout_cntr2_end' => exposure_cntr' + 1 <= curr_exposure_ss'
  <2>1. curr_trig_mngr_state \in {"idle", "wait_pet", "trigger", "wait_exp_start", "single_slope"}
    BY <1>4 DEF TrigStep, TrigMngr, TrigTo, Level
  <2>2. CASE curr_trig_mngr_state = "idle"
    <3>1. ~readout_cntr2_armed
      BY <2>2 DEF ReadoutFlag
    <3> QED
      BY <2>2, <3>1 DEF ReadoutFlagStep, EO_FOT
  <2>3. CASE curr_trig_mngr_state # "idle"
    <3>1. curr_exposure_ss' = curr_exposure_ss
      BY <2>1, <2>3, ExposureTimeKept DEF BetweenExposures, EO_FOT
    <3>2. /\ readout_cntr2_armed' <=> readout_cntr2_armed /\ ~over
          /\ readout_cntr2_end' <=> over
          /\ readout_cntr2_armed' => readout_cntr2' = readout_cntr2 - 1
      BY <2>1 DEF ReadoutFlagStep, EO_FOT
    <3>3. /\ exposure_cntr \in Nat /\ readout_cntr2 \in Nat
      BY XgsCtrlAssumption DEF Types, TypeOK
    <3>4. exposure_cntr' \in {0, exposure_cntr, exposure_cntr + 1}
      BY <3>3, XgsCtrlAssumption DEF Types, TypeOK, TrigStep, ExposureCntrStep
    <3>5. curr_exposure_ss \in Nat /\ curr_exposure_ss > 0
      <4>1. curr_exposure \in 0 .. Sets - 1
        BY DEF Types, TypeOK
      <4>2. EXPOSURE_SS \in [0 .. Sets - 1 -> Nat \ {0}]
        BY XgsCtrlAssumption
      <4> QED
        BY <4>1, <4>2 DEF curr_exposure_ss
    <3>6. CASE curr_trig_mngr_state = "wait_pet"
      <4>1. readout_cntr2_armed => readout_cntr2 < curr_exposure_ss
        <5>1. curr_exposure_ss > readout_cntr
          BY <1>4, <3>6 DEF TrigStep, TrigMngr, TrigTo, DeadWindowOver
        <5> QED
          BY <3>6, <5>1 DEF CountersAgree, readout_cnt
      <4>2. exposure_cntr' = 0
        BY <3>6, ExposureTimed DEF Types, TrigStep, ExposureCntrStep, timer_exposure
      <4> QED
        BY <3>1, <3>2, <3>3, <3>5, <4>1, <4>2
    <3>7. CASE curr_trig_mngr_state # "wait_pet"
      <4>1. readout_cntr2_armed => readout_cntr2 + exposure_cntr + 2 <= curr_exposure_ss
        BY <1>4, <2>1, <2>3, <3>7 DEF EndsAfterReadout, TrigIn
      <4>2. exposure_cntr' \in Nat /\ exposure_cntr' <= exposure_cntr + 1
        BY <3>3, <3>4
      <4>3. /\ readout_cntr2 + exposure_cntr + 2 <= curr_exposure_ss =>
                 (readout_cntr2 - 1) + exposure_cntr' + 2 <= curr_exposure_ss
            /\ exposure_cntr + 2 <= curr_exposure_ss => exposure_cntr' + 1 <= curr_exposure_ss
        BY <3>3, <3>5, <4>2, LeftOfBoth
      <4>4. ASSUME readout_cntr2_armed'
            PROVE  readout_cntr2' + exposure_cntr' + 2 <= curr_exposure_ss'
        BY <3>1, <3>2, <4>1, <4>3, <4>4
      <4>5. ASSUME over
            PROVE  exposure_cntr + 2 <= curr_exposure_ss
        BY <3>3, <3>5, <4>1, <4>5
      <4> QED
        BY <3>1, <3>2, <4>3, <4>4, <4>5
    <3> QED
      BY <3>6, <3>7
  <2> QED
    BY <2>2, <2>3
<1> QED
  BY <1>1, <1>2, <1>3, <1>4 DEF EndsAfterReadout, TimerIn, TrigIn

\* A grab waits for the readout before it when it must not overlap it.
LEMMA ReadoutAwaitedStep ==
  ASSUME Types, Managers, ReadoutAwaited, NEW cmd,
         GrabStep(cmd), TrigStep(cmd), ReadoutFlagStep, UNCHANGED modeVars
  PROVE  ReadoutAwaited'
<1> SUFFICES ASSUME ~TRIGGER_OVERLAP, SENSOR_REG_UPDATE, ~FOT', ~EO_FOT',
                    curr_grab_mngr_state' \notin {"idle", "sensor_reprog", "wait_end_rdo"}
             PROVE  ~readout'
  BY DEF ReadoutAwaited, modeVars
<1>1. ~SO_FOT /\ ~FOT
  BY DEF TrigStep, TrigMngr, TrigTo, SO_FOT, FOT, EO_FOT
<1>2. ~readout => ~readout'
  BY <1>1 DEF ReadoutFlagStep
<1>3. CASE curr_grab_mngr_state \in {"idle", "sensor_reprog"}
  BY <1>3 DEF GrabStep, GrabMngr, GrabTo, GrabIdle, GrabReprog, GrabArm, GrabReady, RdoWait, RdoEnd,
       RdoAbort, DeadEnd, DeadWait, DeadAbort, ArmWait, ArmTrig, ArmAbort, TrigSent, LevelWait,
       LevelRdo, LevelEnd, LevelRdoWait, LevelRdoEnd, SoFotWait, SoFotSeen, EoFotWait,
       EoFotAbort, EoFotLast, EoFotNext, ReadyState, WaitReadout
<1>4. CASE curr_grab_mngr_state = "wait_end_rdo"
  <2>1. ~readout
    BY <1>4 DEF GrabStep, GrabMngr, GrabTo, GrabIdle, GrabReprog, GrabArm, GrabReady, RdoWait, RdoEnd,
       RdoAbort, DeadEnd, DeadWait, DeadAbort, ArmWait, ArmTrig, ArmAbort, TrigSent, LevelWait,
       LevelRdo, LevelEnd, LevelRdoWait, LevelRdoEnd, SoFotWait, SoFotSeen, EoFotWait,
       EoFotAbort, EoFotLast, EoFotNext
  <2> QED
    BY <1>2, <2>1
<1>5. CASE curr_grab_mngr_state \notin {"idle", "sensor_reprog", "wait_end_rdo"}
  <2>1. ~EO_FOT
    BY GrabTriggered, GrabFot DEF Types
  <2> QED
    BY <1>1, <1>2, <1>5, <2>1 DEF ReadoutAwaited
<1> QED
  BY <1>3, <1>4, <1>5

-----------------------------------------------------------------------------
(* The queue of grabs. *)

LEMMA AppendMoves ==
  ASSUME NEW S, NEW s \in Seq(S), NEW e \in S
  PROVE  /\ Append(s, e) \in Seq(S) /\ Len(Append(s, e)) = Len(s) + 1
         /\ \A i \in 1 .. Len(s) : Append(s, e)[i] = s[i]
         /\ Append(s, e)[Len(s) + 1] = e
BY AppendProperties

LEMMA TailMoves ==
  ASSUME NEW S, NEW s \in Seq(S), Len(s) > 0
  PROVE  /\ Tail(s) \in Seq(S) /\ Len(Tail(s)) = Len(s) - 1
         /\ \A i \in 1 .. Len(s) - 1 : Tail(s)[i] = s[i + 1]
BY HeadTailProperties

\* What is left when a grab leaves the FOT, and what a GRAB_CMD appends to it.
LEMMA QueueFacts ==
  ASSUME Types, GrabsQueued
  PROVE  /\ Len(grabs) = Queued
         /\ grabs # << >> <=> grab_active
         /\ grab_active => Len(Tail(grabs)) = IF grab_pending THEN 1 ELSE 0
         /\ grab_pending => Tail(grabs)[1] = grabs[2]
         /\ ~grab_active => Len(Append(grabs, reg)) = 1 /\ Append(grabs, reg)[1] = reg
         /\ grab_active /\ ~grab_pending =>
              /\ Len(Append(grabs, reg)) = 2
              /\ Append(grabs, reg)[1] = grabs[1] /\ Append(grabs, reg)[2] = reg
              /\ Len(Append(Tail(grabs), reg)) = 1 /\ Append(Tail(grabs), reg)[1] = reg
<1> DEFINE P == 0 .. Sets - 1
<1>1. /\ grabs \in Seq(P) /\ reg \in P
      /\ grab_active \in BOOLEAN /\ grab_pending \in BOOLEAN
  BY DEF Types, TypeOK
<1>2. Len(grabs) = IF ~grab_active THEN 0 ELSE IF grab_pending THEN 2 ELSE 1
  BY <1>1 DEF GrabsQueued, Queued
<1>3. Len(grabs) = Queued
  BY DEF GrabsQueued
<1> HIDE DEF P
<1>4. /\ grabs # << >> <=> grab_active
      /\ grab_active => Tail(grabs) \in Seq(P) /\ Len(Tail(grabs)) = IF grab_pending THEN 1 ELSE 0
      /\ grab_pending /\ grab_active => Tail(grabs)[1] = grabs[2]
  <2>1. grabs # << >> <=> grab_active
    BY <1>1, <1>2, EmptySeq
  <2>2. ASSUME grab_active
        PROVE  Tail(grabs) \in Seq(P) /\ Len(Tail(grabs)) = IF grab_pending THEN 1 ELSE 0
    <3>1. Len(grabs) > 0 /\ Len(grabs) - 1 = IF grab_pending THEN 1 ELSE 0
      BY <1>1, <1>2, <2>2
    <3>2. Tail(grabs) \in Seq(P) /\ Len(Tail(grabs)) = Len(grabs) - 1
      BY <1>1, <3>1, TailMoves
    <3> QED
      BY <3>1, <3>2
  <2>3. ASSUME grab_pending, grab_active PROVE Tail(grabs)[1] = grabs[2]
    <3>1. Len(grabs) = 2 /\ Len(grabs) > 0
      BY <1>2, <2>3
    <3>2. \A i \in 1 .. Len(grabs) - 1 : Tail(grabs)[i] = grabs[i + 1]
      BY <1>1, <3>1, TailMoves
    <3> QED
      BY <3>1, <3>2
  <2> QED
    BY <2>1, <2>2, <2>3
<1>5. ~grab_active => Len(Append(grabs, reg)) = 1 /\ Append(grabs, reg)[1] = reg
  BY <1>1, <1>2, AppendMoves
<1>6. ASSUME grab_active, ~grab_pending
      PROVE  /\ Len(Append(grabs, reg)) = 2
             /\ Append(grabs, reg)[1] = grabs[1] /\ Append(grabs, reg)[2] = reg
  <2>1. Len(grabs) = 1
    BY <1>2, <1>6
  <2>2. /\ Len(Append(grabs, reg)) = Len(grabs) + 1
        /\ \A i \in 1 .. Len(grabs) : Append(grabs, reg)[i] = grabs[i]
        /\ Append(grabs, reg)[Len(grabs) + 1] = reg
    BY <1>1, AppendMoves
  <2> QED
    BY <2>1, <2>2
<1>7. ASSUME grab_active, ~grab_pending
      PROVE  Len(Append(Tail(grabs), reg)) = 1 /\ Append(Tail(grabs), reg)[1] = reg
  <2> DEFINE t == Tail(grabs)
  <2>1. t \in Seq(P) /\ Len(t) = 0
    BY <1>4, <1>7
  <2>2. Len(Append(t, reg)) = 1 /\ Append(t, reg)[1] = reg
    <3> HIDE DEF t
    <3> QED
      BY <1>1, <2>1, AppendMoves
  <2> QED
    BY <2>2
<1>8. grab_pending => grab_active
  BY DEF GrabsQueued
<1> QED
  BY <1>3, <1>4, <1>5, <1>6, <1>7, <1>8

LEMMA GrabsQueuedStep ==
  ASSUME Types, Managers, AbortOrder, GrabsQueued, NEW cmd, NEW reconf_busy,
         MayWrite(cmd), FlagsStep(cmd), ParamsStep(cmd, reg),
         GrabStep(cmd), TimerStep(cmd, reconf_busy), TrigStep(cmd),
         SoftwareStep(cmd), GrabsStep(cmd)
  PROVE  GrabsQueued'
<1>1. CASE abort_grab_cmd
  <2>1. curr_grab_mngr_state' = "idle"
    BY <1>1, IdleKept DEF AbortOrder, abort_grab_cmd, abort_now, ManagersIdle
  <2>2. ~grab_active' /\ ~grab_pending' /\ grabs' = << >>
    BY <1>1 DEF FlagsStep, GrabsStep
  <2> QED
    BY <2>1, <2>2 DEF GrabsQueued, Queued
<1>2. cmd = "GRAB_CMD" => sw_ready /\ ~grab_pending
  BY DEF MayWrite, GrabsQueued
<1>3. CASE ~abort_grab_cmd /\ EO_FOT
  <2>1. curr_grab_mngr_state = "wait_eo_fot" /\ grab_active /\ grabs # << >>
    BY <1>3, GrabTriggered, QueueFacts DEF Types, GrabsQueued
  <2>2. curr_grab_mngr_state' # "idle" => grab_pending \/ cmd = "GRAB_CMD"
    BY <1>3, <2>1, GrabFot DEF ChainGrab, NextGrab
  <2>3. CASE cmd = "GRAB_CMD"
    <3>1. grabs' = Append(Tail(grabs), reg) /\ grab_active' /\ ~grab_pending'
      BY <1>3, <2>1, <2>3 DEF GrabsStep, FlagsStep
    <3>2. curr_exposure' = reg /\ curr_BUFFER_ID' = reg
      BY <1>3, <2>3 DEF ParamsStep, LoadExposure, LoadReadout, NextGrab
    <3> QED
      BY <1>2, <2>1, <2>3, <3>1, <3>2, QueueFacts DEF GrabsQueued, Queued
  <2>4. CASE cmd # "GRAB_CMD" /\ grab_pending
    <3>1. grabs' = Tail(grabs) /\ grab_active' /\ ~grab_pending'
      BY <1>3, <2>1, <2>4 DEF GrabsStep, FlagsStep
    <3>2. curr_exposure' = reg /\ curr_BUFFER_ID' = reg
      BY <1>3, <2>4 DEF ParamsStep, LoadExposure, LoadReadout, NextGrab
    <3>3. Len(grabs') = 1 /\ grabs'[1] = reg
      BY <2>1, <2>4, <3>1, QueueFacts DEF GrabsQueued
    <3> QED
      BY <3>1, <3>2, <3>3 DEF GrabsQueued, Queued
  <2>5. CASE cmd # "GRAB_CMD" /\ ~grab_pending
    <3>1. grabs' = Tail(grabs) /\ ~grab_active' /\ ~grab_pending'
      BY <1>3, <2>1, <2>5 DEF GrabsStep, FlagsStep
    <3>2. Len(grabs') = 0
      BY <2>1, <2>5, <3>1, QueueFacts
    <3> QED
      BY <2>2, <2>5, <3>1, <3>2 DEF GrabsQueued, Queued
  <2> QED
    BY <2>3, <2>4, <2>5
<1>4. CASE ~abort_grab_cmd /\ ~EO_FOT /\ cmd = "GRAB_CMD"
  <2>1. grabs' = Append(grabs, reg) /\ grab_active' /\ (grab_pending' <=> grab_active)
    BY <1>2, <1>4 DEF GrabsStep, FlagsStep
  <2>2. ~sw_ready' /\ reg' = reg
    BY <1>4 DEF SoftwareStep
  <2>3. CASE grab_active
    <3>1. curr_exposure' = curr_exposure /\ curr_BUFFER_ID' = curr_BUFFER_ID
      BY <1>4, <2>3 DEF ParamsStep, LoadExposure, LoadReadout, NewGrab
    <3>2. Len(grabs') = 2 /\ grabs'[1] = grabs[1] /\ grabs'[2] = reg
      BY <1>2, <1>4, <2>1, <2>3, QueueFacts
    <3> QED
      BY <2>1, <2>2, <2>3, <3>1, <3>2 DEF GrabsQueued, Queued
  <2>4. CASE ~grab_active
    <3>1. curr_exposure' = reg /\ curr_BUFFER_ID' = reg
      BY <1>4, <2>4 DEF ParamsStep, LoadExposure, LoadReadout, NewGrab
    <3>2. Len(grabs') = 1 /\ grabs'[1] = reg
      BY <2>1, <2>4, QueueFacts
    <3> QED
      BY <2>1, <2>4, <3>1, <3>2 DEF GrabsQueued, Queued
  <2> QED
    BY <2>3, <2>4
<1>5. CASE ~abort_grab_cmd /\ ~EO_FOT /\ cmd # "GRAB_CMD"
  <2>1. grabs' = grabs /\ grab_active' = grab_active /\ grab_pending' = grab_pending
    <3>1. grab_active \in BOOLEAN /\ grab_pending \in BOOLEAN
      BY DEF Types, TypeOK
    <3>2. grabs' = grabs
      BY <1>5 DEF GrabsStep
    <3> QED
      BY <1>5, <3>1, <3>2 DEF FlagsStep
  <2>2. grab_pending => ~sw_ready' /\ reg' = reg
    BY <1>5 DEF SoftwareStep, MayWrite, GrabsQueued
  <2>3. curr_exposure' = curr_exposure /\ curr_BUFFER_ID' = curr_BUFFER_ID
    BY <1>5 DEF ParamsStep, LoadExposure, LoadReadout, NewGrab
  <2>4. curr_grab_mngr_state' # "idle" => curr_grab_mngr_state # "idle"
    BY <1>5, GrabBefore DEF BeforeTrigger, StartGrab
  <2> QED
    BY <2>1, <2>2, <2>3, <2>4 DEF GrabsQueued, Queued
<1> QED
  BY <1>1, <1>3, <1>4, <1>5

LEMMA GrabManagedStep ==
  ASSUME Types, Managers, AbortOrder, GrabManaged, NEW cmd, NEW reconf_busy,
         NEW fifo_done, NEW dma_idle, MayWrite(cmd), FlagsStep(cmd),
         GrabStep(cmd), TimerStep(cmd, reconf_busy), TrigStep(cmd),
         AbortStep(cmd, fifo_done, dma_idle)
  PROVE  GrabManaged'
<1> SUFFICES ASSUME curr_grab_mngr_state' = "idle", grab_active' PROVE abort_now'
  BY DEF GrabManaged
<1>1. CASE abort_now
  <2>1. curr_grab_abort_state = "abort_irq" => ~grab_active /\ cmd # "GRAB_CMD" /\ ~EO_FOT
    BY DEF AbortOrder, MayWrite, abort_done, ManagersIdle, EO_FOT, abort_now
  <2>2. curr_grab_abort_state # "abort_irq"
    BY <2>1 DEF FlagsStep
  <2> QED
    BY <1>1, <2>2 DEF AbortStep, AbortTo, abort_now
<1>2. CASE ~abort_now
  <2>1. CASE curr_grab_mngr_state = "idle"
    <3>1. ~grab_active /\ ~EO_FOT
      BY <1>2, <2>1, GrabTriggered DEF Types, GrabManaged
    <3>2. cmd = "GRAB_CMD"
      BY <3>1 DEF FlagsStep
    <3>3. StartGrab(cmd)
      BY <1>2, <3>2 DEF StartGrab, Abort
    <3> QED
      BY <2>1, <3>3 DEF GrabStep, GrabMngr, GrabTo, GrabIdle, GrabReprog, GrabArm, GrabReady,
         RdoWait, RdoEnd, RdoAbort, DeadEnd, DeadWait, DeadAbort, ArmWait, ArmTrig, ArmAbort,
         TrigSent, LevelWait, LevelRdo, LevelEnd, LevelRdoWait, LevelRdoEnd, SoFotWait, SoFotSeen,
         EoFotWait, EoFotAbort, EoFotLast, EoFotNext
  <2>2. CASE curr_grab_mngr_state = "wait_eo_fot"
    <3>1. EO_FOT /\ ~ChainGrab(cmd)
      BY <1>2, <2>2, GrabFot DEF Managers, Delayed, ReadyState
    <3>2. NextGrab(cmd)
      BY <1>2, <3>1 DEF FlagsStep, NextGrab, abort_grab_cmd, abort_now
    <3>3. cmd = "ABORT_GRAB"
      BY <1>2, <3>1, <3>2 DEF ChainGrab, Abort
    <3> QED
      BY <1>2, <3>3 DEF AbortStep, AbortTo, abort_now
  <2>3. CASE curr_grab_mngr_state \notin {"idle", "wait_eo_fot"}
    BY <1>2, <2>3, GrabBefore, GrabLevel, GrabPhases DEF Types, InLevel
  <2> QED
    BY <2>1, <2>2, <2>3
<1> QED
  BY <1>1, <1>2

-----------------------------------------------------------------------------
(* The serial link. *)

\* From S_idle the link leaves for an abort or a request only.
LEMMA LinkFree ==
  ASSUME NEW abort, NEW done, SpiStep(abort, done), ~read_temp_start
  PROVE  /\ S_currentState = "S_idle" /\ ~abort /\ ~reconf_start => S_currentState' = "S_idle"
         /\ S_currentState \in {"S_reconf_done", "S_abort_fifo_done"} => S_currentState' = "S_idle"
         /\ S_currentState' = "S_captureT" => FALSE
BY DEF SpiStep, SpiTo, SpiIdle, SpiAbort, SpiReconf, SpiTemp, SpiWaitReconf,
   SpiFirstWord, SpiWord, SpiStop, SpiCaptureT, SpiShift, SpiLast, SpiNext,
   SpiReconfDone, SpiReset, SpiAbortDone

\* The grab manager asks for the sensor once, on a clock without an abort.
LEMMA LinkFollowsStep ==
  ASSUME Types, Managers, AbortOrder, LinkFollows, NEW cmd,
         NEW ext_trig, NEW exposure, NEW fot, NEW done, NEW dma_idle,
         Clock(cmd, ext_trig, exposure, fot, done, dma_idle)
  PROVE  LinkFollows'
<1> SUFFICES ASSUME ~Temperature PROVE LinkFollows'
  BY DEF LinkFollows
<1> USE DEF abort_now, LinkDone
<1>1. /\ MayWrite(cmd) /\ GrabStep(cmd) /\ TimerStep(cmd, busy) /\ TrigStep(cmd)
      /\ AbortStep(cmd, abort_fifo_cmd_done, dma_idle)
      /\ ReconfRequest(grab_mngr_sensor_reconf)
      /\ TempRequest(grab_mngr_sensor_reconf, cmd = "REFRESH_TEMP")
      /\ SpiStep(abort_fifo_cmd, done)
  BY ClockSteps DEF SpiClock
<1>2. /\ ~read_temp_start /\ ~read_temp_start_buff /\ S_currentState # "S_captureT"
      /\ ~reconf_start_buff
      /\ curr_grab_mngr_state = "sensor_reprog" => ~abort_now
      /\ ~abort_now /\ curr_grab_mngr_state \in {"idle", "sensor_reprog"} => LinkDone
      /\ curr_grab_abort_state \in {"abort_dma", "abort_irq"} => LinkDone
      /\ ~BeforeTrigger =>
           /\ ~reconf_start
           /\ curr_timer_mngr_state # "verify_reconf_busy" => LinkDone
  BY DEF LinkFollows
<1>3. ~read_temp_start' /\ ~read_temp_start_buff' /\ S_currentState' # "S_captureT"
  BY <1>1, <1>2, LinkFree DEF TempRequest, MayWrite
<1>4. ~reconf_start_buff' /\ (curr_grab_mngr_state # "sensor_reprog" => ~reconf_start')
  BY <1>1, <1>2 DEF ReconfRequest, grab_mngr_sensor_reconf
<1>5. abort_fifo_cmd => ManagersIdle
  BY DEF AbortOrder, abort_fifo_cmd
<1>6. ASSUME curr_grab_mngr_state # "sensor_reprog", LinkDone, ~abort_fifo_cmd
      PROVE  LinkDone'
  BY <1>1, <1>2, <1>4, <1>6, LinkFree
<1>7. ASSUME curr_grab_mngr_state' = "sensor_reprog" PROVE ~abort_now'
  <2>1. \/ StartGrab(cmd)
        \/ curr_grab_mngr_state = "wait_eo_fot" /\ ChainGrab(cmd)
    BY <1>1, <1>7 DEF GrabStep, GrabMngr, GrabTo, GrabIdle, GrabReprog, GrabArm, GrabReady, RdoWait,
       RdoEnd, RdoAbort, DeadEnd, DeadWait, DeadAbort, ArmWait, ArmTrig, ArmAbort, TrigSent,
       LevelWait, LevelRdo, LevelEnd, LevelRdoWait, LevelRdoEnd, SoFotWait, SoFotSeen, EoFotWait,
       EoFotAbort, EoFotLast, EoFotNext, ReadyState
  <2>2. ~abort_now /\ cmd # "ABORT_GRAB"
    BY <2>1 DEF StartGrab, ChainGrab, Abort
  <2> QED
    BY <1>1, <2>2 DEF AbortStep, AbortTo
<1>8. ASSUME ~abort_now', curr_grab_mngr_state' \in {"idle", "sensor_reprog"}
      PROVE  LinkDone'
  <2>1. ~abort_now \/ curr_grab_abort_state = "abort_irq"
    BY <1>1, <1>8 DEF AbortStep, AbortTo
  <2>2. CASE curr_grab_abort_state = "abort_irq"
    BY <1>2, <1>6, <2>2 DEF AbortOrder, ManagersIdle, abort_fifo_cmd
  <2>3. CASE ~abort_now
    <3>1. curr_grab_mngr_state = "idle" \/ curr_grab_mngr_state = "wait_eo_fot"
      BY <1>1, <1>8, <2>3
      DEF GrabStep, GrabMngr, GrabTo, GrabIdle, GrabReprog, GrabArm, GrabReady, RdoWait,
       RdoEnd, RdoAbort, DeadEnd, DeadWait, DeadAbort, ArmWait, ArmTrig, ArmAbort, TrigSent,
       LevelWait, LevelRdo, LevelEnd, LevelRdoWait, LevelRdoEnd, SoFotWait, SoFotSeen, EoFotWait,
       EoFotAbort, EoFotLast, EoFotNext, ReadyState
    <3>2. curr_grab_mngr_state = "wait_eo_fot" => curr_timer_mngr_state # "verify_reconf_busy"
      BY <1>1, <1>8, <2>3, GrabFot DEF Managers, Delayed, Exposing, EO_FOT
    <3>3. LinkDone
      BY <1>2, <2>3, <3>1, <3>2 DEF BeforeTrigger
    <3> QED
      BY <1>6, <2>3, <3>1, <3>3 DEF abort_fifo_cmd
  <2> QED
    BY <2>1, <2>2, <2>3
<1>9. ASSUME curr_grab_abort_state' \in {"abort_dma", "abort_irq"} PROVE LinkDone'
  <2>1. \/ curr_grab_abort_state = "abort_ser_fifo" /\ S_currentState = "S_abort_fifo_done"
        \/ curr_grab_abort_state = "abort_dma"
    BY <1>1, <1>9 DEF AbortStep, AbortTo, abort_fifo_cmd_done
  <2>2. curr_grab_mngr_state = "idle"
    BY <2>1 DEF AbortOrder, ManagersIdle
  <2>3. CASE curr_grab_abort_state = "abort_ser_fifo" /\ S_currentState = "S_abort_fifo_done"
    BY <1>1, <1>2, <1>4, <2>2, <2>3, LinkFree
  <2>4. CASE curr_grab_abort_state = "abort_dma"
    BY <1>2, <1>6, <2>2, <2>4 DEF abort_fifo_cmd
  <2> QED
    BY <2>1, <2>3, <2>4
<1>10. ASSUME ~BeforeTrigger'
       PROVE  /\ ~reconf_start'
              /\ curr_timer_mngr_state' # "verify_reconf_busy" => LinkDone'
  <2>1. curr_grab_mngr_state = "trig" \/ ~BeforeTrigger
    BY <1>1, <1>10, GrabBefore
  <2>2. ~reconf_start'
    BY <1>4, <2>1 DEF BeforeTrigger
  <2>3. CASE curr_grab_mngr_state = "trig"
    <3>1. curr_timer_mngr_state' = "verify_reconf_busy"
      BY <1>1, <2>3 DEF Managers, Waiting, BeforeTrigger, TimerStep, TimerMngr, TimerTo, grab_mngr_trig
    <3> QED
      BY <2>2, <3>1
  <2>4. CASE ~BeforeTrigger
    <3>1. ~abort_fifo_cmd /\ curr_grab_mngr_state # "sensor_reprog"
      BY <1>5, <2>4 DEF ManagersIdle, BeforeTrigger
    <3>2. CASE curr_timer_mngr_state # "verify_reconf_busy"
      BY <1>2, <1>6, <2>2, <2>4, <3>1, <3>2
    <3>3. CASE curr_timer_mngr_state = "verify_reconf_busy"
      <4>1. curr_timer_mngr_state' # "verify_reconf_busy" => ~busy
        BY <1>1, <3>3 DEF TimerStep, TimerMngr, TimerTo
      <4>2. S_currentState \notin {"S_abort_fifo_cmd", "S_abort_fifo_done"}
        BY <3>3 DEF AbortOrder, ManagersIdle
      <4>3. ~busy => S_currentState \in {"S_idle", "S_reconf_done"}
        BY <4>2 DEF busy, Types, TypeOK
      <4>4. ~busy => S_currentState' = "S_idle"
        BY <1>1, <1>2, <2>4, <3>1, <4>3, LinkFree
      <4> QED
        BY <1>4, <2>2, <4>1, <4>4
    <3> QED
      BY <3>2, <3>3
  <2> QED
    BY <2>1, <2>3, <2>4
<1> QED
  BY <1>3, <1>4, <1>7, <1>8, <1>9, <1>10 DEF LinkFollows

-----------------------------------------------------------------------------
(* The invariant. *)

LEMMA InitTypes == Init => Types
<1> SUFFICES ASSUME Init PROVE Types
  OBVIOUS
<1>1. PICK m \in Modes : /\ TRIGGER_SRC = m.TRIGGER_SRC
                         /\ LEVEL_MODE_EXP = m.LEVEL_MODE_EXP
                         /\ TRIGGER_OVERLAP = m.TRIGGER_OVERLAP
                         /\ TRIGGER_OVERLAP_BUFFn = m.TRIGGER_OVERLAP_BUFFn
                         /\ EO_FOT_SEL = m.EO_FOT_SEL
                         /\ SENSOR_REG_UPDATE = m.SENSOR_REG_UPDATE
  BY DEF Init, ModeInit
<1>2. m \in [TRIGGER_SRC : {"CONTINUOUS", "HW", "SW"},
             LEVEL_MODE_EXP : BOOLEAN, TRIGGER_OVERLAP : BOOLEAN,
             TRIGGER_OVERLAP_BUFFn : BOOLEAN, EO_FOT_SEL : BOOLEAN,
             SENSOR_REG_UPDATE : BOOLEAN]
  BY XgsCtrlAssumption
<1>3. /\ TRIGGER_SRC \in {"CONTINUOUS", "HW", "SW"}
      /\ {LEVEL_MODE_EXP, TRIGGER_OVERLAP, TRIGGER_OVERLAP_BUFFn, EO_FOT_SEL,
          SENSOR_REG_UPDATE} \subseteq BOOLEAN
  BY <1>1, <1>2
<1>4. /\ TRIGGER_DELAY \in Nat /\ READOUT_LENGTH \in Nat /\ ExposureCap \in Nat
      /\ CntrMod \in Nat /\ CntrMod > 0 /\ Sets \in Nat /\ Sets > 0
  BY XgsCtrlAssumption
<1>5. TypeOK
  <2>1. /\ 0 \in 0 .. TRIGGER_DELAY + 1 /\ 0 \in 0 .. ExposureCap /\ 0 \in 0 .. CntrMod - 1
        /\ 0 \in 0 .. READOUT_LENGTH /\ 0 \in 0 .. Sets - 1 /\ 0 \in 0 .. 3
    BY <1>4
  <2>2. /\ timer_cntr = 0 /\ exposure_cntr = 0 /\ readout_cntr = 0 /\ readout_cntr2 = 0
        /\ curr_exposure = 0 /\ curr_BUFFER_ID = 0 /\ curr_db_BUFFER_ID = 0 /\ reg = 0
        /\ reconf_WF_pipe = 0
    BY DEF Init, CtrlInit, SpiInit
  <2>3. /\ curr_grab_mngr_state = "idle" /\ curr_timer_mngr_state = "idle"
        /\ curr_trig_mngr_state = "idle" /\ curr_grab_abort_state = "idle"
        /\ S_currentState = "S_idle" /\ curr_trigger_src = "NONE"
    BY DEF Init, CtrlInit, SpiInit
  <2>4. {grab_active, grab_pending, hw_trig, readout, abort_seq, abort_delai, abort_pet,
         reconf_start, reconf_start_buff, sw_ready} \subseteq BOOLEAN
    BY DEF Init, CtrlInit, SpiInit
  <2> QED
    BY <2>1, <2>2, <2>3, <2>4 DEF TypeOK
<1>6. grabs \in Seq(0 .. Sets - 1)
  <2>1. grabs = << >>
    BY DEF Init
  <2> QED
    BY <2>1
<1> QED
  BY <1>3, <1>5, <1>6 DEF Types, Init, CtrlInit, SpiInit

LEMMA InitInvariant == Init => IInv
<1> SUFFICES ASSUME Init PROVE IInv
  OBVIOUS
<1> USE DEF Init, CtrlInit, SpiInit, TimerIn, TrigIn
<1>1. Managers
  BY DEF Managers, Waiting, Delayed, Exposing, BeforeTrigger, InLevel, BetweenExposures
<1>2. AbortOrder
  BY DEF AbortOrder, abort_now
<1>3. ExposureSeen /\ FotSeen
  BY InitTypes DEF ExposureSeen, FotSeen
<1>4. ReadoutFlag /\ CountersAgree /\ EndsAfterReadout /\ ReadoutAwaited
  BY DEF ReadoutFlag, CountersAgree, EndsAfterReadout, ReadoutAwaited, FOT, EO_FOT
<1>5. GrabsQueued
  BY DEF GrabsQueued, Queued
<1>6. LinkFollows
  BY DEF LinkFollows, LinkDone, BeforeTrigger
<1>7. GrabManaged
  BY DEF GrabManaged
<1> QED
  BY <1>1, <1>2, <1>3, <1>4, <1>5, <1>6, <1>7, InitTypes DEF IInv, Control

LEMMA ClockInvariant ==
  ASSUME IInv, NEW cmd, NEW ext_trig \in BOOLEAN, NEW exposure \in BOOLEAN,
         NEW fot \in BOOLEAN, NEW done, NEW dma_idle,
         Clock(cmd, ext_trig, exposure, fot, done, dma_idle)
  PROVE  IInv'
<1>1. /\ MayWrite(cmd) /\ SensorStep(exposure, fot)
      /\ FlagsStep(cmd) /\ ParamsStep(cmd, reg)
      /\ GrabStep(cmd) /\ TimerStep(cmd, busy) /\ TrigStep(cmd)
      /\ MonitorStep(exposure, fot) /\ ReadoutCntrStep /\ ReadoutFlagStep
      /\ AbortStep(cmd, abort_fifo_cmd_done, dma_idle)
      /\ SoftwareStep(cmd) /\ GrabsStep(cmd)
      /\ UNCHANGED modeVars
  BY ClockSteps
<1>2. /\ Types /\ TypeOK /\ Managers /\ Waiting /\ Delayed /\ Exposing
      /\ AbortOrder /\ ExposureSeen /\ FotSeen
      /\ ReadoutFlag /\ CountersAgree /\ EndsAfterReadout /\ ReadoutAwaited
      /\ GrabsQueued /\ GrabManaged /\ LinkFollows
  BY DEF IInv, Control, Managers, Types
<1>3. Types'
  BY <1>2, TypesStep
<1>4. Waiting' /\ Delayed' /\ Exposing'
  BY <1>1, <1>2, WaitingStep, DelayedStep, ExposingStep
<1>5. AbortOrder'
  BY <1>2, AbortOrderStep
<1>6. ExposureSeen' /\ FotSeen'
  BY <1>1, <1>2, ExposureSeenStep, FotSeenStep
<1>7. ReadoutFlag' /\ CountersAgree'
  BY <1>1, <1>2, ReadoutFlagKept, CountersAgreeStep
<1>8. EndsAfterReadout' /\ ReadoutAwaited'
  BY <1>1, <1>2, EndsAfterReadoutStep, ReadoutAwaitedStep
<1>9. GrabsQueued'
  BY <1>1, <1>2, GrabsQueuedStep
<1>10. LinkFollows'
  BY <1>2, LinkFollowsStep
<1>11. GrabManaged'
  BY <1>1, <1>2, GrabManagedStep
<1> QED
  BY <1>3, <1>4, <1>5, <1>6, <1>7, <1>8, <1>9, <1>10, <1>11 DEF IInv, Control, Managers

LEMMA StutterInvariant == IInv /\ UNCHANGED vars => IInv'
<1> SUFFICES ASSUME IInv, UNCHANGED vars PROVE IInv'
  OBVIOUS
<1> USE DEF vars, modeVars, ctrlVars, grabVars, timerVars, trigVars, sensorVars, rdoVars, parVars,
            spiVars, swVars, IInv, Control, TimerIn, TrigIn, BeforeTrigger, BetweenExposures
<1>1. Types'
  BY DEF Types, TypeOK
<1>2. Managers'
  BY DEF Managers, Waiting, Delayed, Exposing, InLevel, grab_mngr_trig, abort_now, Level
<1>3. AbortOrder'
  BY DEF AbortOrder, abort_now, ManagersIdle, fifo_empty
<1>4. ExposureSeen' /\ FotSeen'
  BY DEF ExposureSeen, FotSeen
<1>5. ReadoutFlag' /\ CountersAgree' /\ EndsAfterReadout' /\ ReadoutAwaited'
  BY DEF ReadoutFlag, CountersAgree, EndsAfterReadout, ReadoutAwaited, FOT, EO_FOT, readout_cnt,
     curr_exposure_ss, Level
<1>6. GrabsQueued'
  BY DEF GrabsQueued, Queued
<1>7. LinkFollows'
  BY DEF LinkFollows, LinkDone, abort_now
<1>8. GrabManaged'
  BY DEF GrabManaged, abort_now
<1> QED
  BY <1>1, <1>2, <1>3, <1>4, <1>5, <1>6, <1>7, <1>8

\* The invariant of XgsInvariant holds in every reachable state of the controller, the
\* software and the sensor (xgs_ctrl.vhd, xgs_spi.vhd).
THEOREM Invariance == Spec => []IInv
<1>1. Init => IInv
  BY InitInvariant
<1>2. IInv /\ [Next]_vars => IInv'
  BY ClockInvariant, StutterInvariant DEF Next
<1> QED
  BY <1>1, <1>2, PTL DEF Spec

-----------------------------------------------------------------------------
(* What follows from it. *)

\* GRAB_STAT tells software the truth: the two flags are the number of grabs it queued,
\* GRAB_READOUT covers the FOT and the readout of every frame, and when ABORT_DONE is
\* set nothing is left in the managers, the flags and the serial FIFO
\* (xgs_ctrl.vhd:643-657, 864-912, 2097-2129, 2357-2393).
THEOREM StatusHolds == Spec => []GrabStatusHolds
<1>1. IInv => GrabStatusHolds
  <2> SUFFICES ASSUME IInv PROVE GrabStatusHolds
    OBVIOUS
  <2>1. Types /\ AbortOrder /\ ReadoutFlag /\ GrabsQueued
    BY DEF IInv, Control
  <2>2. TypeOK /\ FlagsCountGrabs /\ ReadoutFlagged
    BY <2>1 DEF Types, FlagsCountGrabs, GrabsQueued, Queued, ReadoutFlagged, ReadoutFlag
  <2>3. AbortLeavesIdle
    BY <2>1 DEF AbortLeavesIdle, AbortOrder, GrabsQueued, abort_now, ManagersIdle, timer_exposure
  <2> QED
    BY <2>2, <2>3 DEF GrabStatusHolds
<1> QED
  BY Invariance, <1>1, PTL

\* Every frame is exposed and stored with the parameters of the grab that asked for it,
\* while software writes those of the next (xgs_ctrl.vhd:916-1119).
THEOREM ParametersOfGrab == Spec => []FrameParameters
<1>1. IInv => FrameParameters
  <2> SUFFICES ASSUME IInv, curr_trig0 \/ EO_FOT
               PROVE  grabs # << >> /\ curr_exposure = Head(grabs) /\ curr_BUFFER_ID = Head(grabs)
    BY DEF FrameParameters
  <2>1. Types /\ TypeOK /\ Managers /\ GrabsQueued
    BY DEF IInv, Control, Types
  <2>2. ~BetweenExposures
    BY DEF BetweenExposures, curr_trig0, EO_FOT
  <2>3. grab_active
    BY <2>1, <2>2, GrabTriggered DEF GrabsQueued, BeforeTrigger
  <2>4. grabs # << >> /\ curr_exposure = grabs[1] /\ curr_BUFFER_ID = grabs[1]
    BY <2>1, <2>3, QueueFacts DEF GrabsQueued
  <2>5. Head(grabs) = grabs[1]
    BY <2>1, <2>4, HeadTailProperties DEF Types
  <2> QED
    BY <2>4, <2>5
<1> QED
  BY Invariance, <1>1, PTL

\* No trigger is lost between the managers: the timer manager is idle when the grab
\* manager triggers it, the trig manager takes the delayed trigger (xgs_ctrl.vhd:1525-1603, 1748-1822).
THEOREM TriggersTaken == Spec => []TriggerTaken
<1>1. IInv => TriggerTaken
  BY DEF IInv, Control, Managers, Waiting, Delayed, BeforeTrigger, BetweenExposures, TimerIn,
     TriggerTaken
<1> QED
  BY Invariance, <1>1, PTL

\* The trigger of the sensor is never removed while the frame before is read out, in
\* overlap, in the dead window and when the level ends early ("deassert trig during
\* readout looks to be bugged in the sensor", xgs_ctrl.vhd:1210).
THEOREM TriggerKeptInReadout == Spec => NoTrigFallInReadout
<1>1. IInv /\ [Next]_vars => [curr_trig0 /\ ~curr_trig0' => ~readout]_vars
  <2>1. ASSUME IInv, Next, curr_trig0, ~curr_trig0' PROVE ~readout
    <3>1. PICK cmd \in Commands : TrigStep(cmd)
      BY <2>1, ClockSteps DEF Next
    <3>2. curr_trig_mngr_state' = "monitoring"
      BY <2>1, <3>1 DEF curr_trig0, TrigStep, TrigMngr, TrigTo
    <3> QED
      BY <2>1, <3>1, <3>2, ExposedAfterReadout DEF IInv, Control
  <2> QED
    BY <2>1
<1> QED
  BY Invariance, <1>1, PTL DEF Spec, NoTrigFallInReadout

\* The registers of a grab are in the sensor before its trigger, unless a temperature
\* read took the link ("verify sensor programmation end before delai",
\* xgs_ctrl.vhd:1528).
THEOREM Reprogrammed ==
  ASSUME ~Temperature PROVE Spec => []ReprogrammedBeforeTrigger
<1>1. IInv => ReprogrammedBeforeTrigger
  <2> SUFFICES ASSUME IInv, curr_trig_mngr_state = "trigger"
               PROVE  ~reconf_start /\ ~reconf_start_buff /\ ~busy
    BY DEF ReprogrammedBeforeTrigger
  <2>1. TypeOK /\ Managers /\ LinkFollows
    BY DEF IInv, Control, Types
  <2>2. ~BetweenExposures
    BY DEF BetweenExposures
  <2>3. ~BeforeTrigger /\ curr_timer_mngr_state # "verify_reconf_busy"
    BY <2>1, <2>2, GrabTriggered DEF Managers, Delayed, TimerIn
  <2> QED
    BY <2>1, <2>3 DEF LinkFollows, LinkDone, busy
<1> QED
  BY Invariance, <1>1, PTL

\* With the overlap disabled no exposure runs while a frame is read out, when the sensor
\* is reprogrammed for every grab: without it the first grab after an idle controller
\* skips the wait (xgs_ctrl.vhd:1144-1176, 1246).
THEOREM NoOverlap ==
  ASSUME \A m \in Modes : ~m.TRIGGER_OVERLAP => m.SENSOR_REG_UPDATE
  PROVE  Spec => []NoOverlapWhenDisabled
<1> DEFINE UpdatesSensor == ~TRIGGER_OVERLAP => SENSOR_REG_UPDATE
<1>1. Init => UpdatesSensor
  BY DEF Init, ModeInit
<1>2. UpdatesSensor /\ [Next]_vars => UpdatesSensor'
  BY DEF Next, Clock, modeVars, vars
<1>3. Spec => []UpdatesSensor
  BY <1>1, <1>2, PTL DEF Spec
<1>4. IInv /\ UpdatesSensor => NoOverlapWhenDisabled
  <2> SUFFICES ASSUME IInv, UpdatesSensor, ~TRIGGER_OVERLAP, curr_trig0 PROVE ~readout
    BY DEF NoOverlapWhenDisabled
  <2>1. TypeOK /\ Managers /\ ReadoutAwaited
    BY DEF IInv, Control, Types
  <2>2. ~BetweenExposures /\ ~FOT /\ ~EO_FOT
    BY DEF BetweenExposures, curr_trig0, FOT, EO_FOT
  <2> QED
    BY <2>1, <2>2, GrabTriggered DEF ReadoutAwaited, BeforeTrigger
<1> QED
  BY Invariance, <1>3, <1>4, PTL

-----------------------------------------------------------------------------
(* That the controller implements GrabPath: a clock is one write of        *)
(* GRAB_CTRL followed by at most two events, one of the grab and the end   *)
(* of a readout.                                                           *)

(* The events and the commands of GrabPath on a reading of GRAB_STAT.      *)
(* Holds keeps a flag a variable: a prover that knows its value would      *)
(* write TRUE in its place, where the lemmas no longer match.              *)

Holds(flag) == flag

\* The grab that is queued, armed, exposed and in its FOT.
LEMMA GrabEvents ==
  ASSUME NEW a \in BOOLEAN, NEW d \in BOOLEAN, NEW r \in BOOLEAN, NEW b \in BOOLEAN,
         NEW x \in BOOLEAN
  PROVE  /\ Path!Stat(a, d, r, b, "armed") \in Path!Events(Path!Stat(a, d, r, b, "queued"))
         /\ Path!Stat(a, d, r, b, "exposing") \in Path!Events(Path!Stat(a, d, r, b, "armed"))
         /\ ~Holds(r) /\ Holds(x) =>
              Path!Stat(a, d, x, b, "fot") \in Path!Events(Path!Stat(a, d, r, b, "exposing"))
         /\ ~Holds(x) =>
              Path!Stat(d, x, r, b, IF Holds(d) /\ ~Holds(b) THEN "queued" ELSE "idle")
                \in Path!Events(Path!Stat(a, d, r, b, "fot"))
<1>1. Path!Arm(Path!Stat(a, d, r, b, "queued")) = {Path!Stat(a, d, r, b, "armed")}
  BY DEF Path!Stat, Path!Arm
<1>2. Path!Trigger(Path!Stat(a, d, r, b, "armed")) = {Path!Stat(a, d, r, b, "exposing")}
  BY DEF Path!Stat, Path!Trigger
<1>3. ~Holds(r) /\ Holds(x) =>
        Path!StartFot(Path!Stat(a, d, r, b, "exposing")) = {Path!Stat(a, d, x, b, "fot")}
  BY DEF Path!Stat, Path!StartFot, Holds
<1>4. ~Holds(x) =>
        Path!EndFot(Path!Stat(a, d, r, b, "fot"))
          = {Path!Stat(d, x, r, b, IF Holds(d) /\ ~Holds(b) THEN "queued" ELSE "idle")}
  BY DEF Path!Stat, Path!EndFot, Holds
<1> QED
  BY <1>1, <1>2, <1>3, <1>4 DEF Path!Events

\* The readout ends and an abort takes the grab away, outside of the FOT.
LEMMA OtherEvents ==
  ASSUME NEW a \in BOOLEAN, NEW d \in BOOLEAN, NEW r \in BOOLEAN, NEW b \in BOOLEAN,
         NEW x \in BOOLEAN, NEW ph, ph # "fot"
  PROVE  /\ Holds(r) /\ ~Holds(x) =>
              Path!Stat(a, d, x, b, ph) \in Path!Events(Path!Stat(a, d, r, b, ph))
         /\ Holds(b) => Path!Stat(a, d, r, b, "idle") \in Path!Events(Path!Stat(a, d, r, b, ph))
<1>1. Holds(r) /\ ~Holds(x) =>
        Path!EndReadout(Path!Stat(a, d, r, b, ph)) = {Path!Stat(a, d, x, b, ph)}
  BY DEF Path!Stat, Path!EndReadout, Holds
<1>2. Holds(b) => Path!Cancel(Path!Stat(a, d, r, b, ph)) = {Path!Stat(a, d, r, b, "idle")}
  BY DEF Path!Stat, Path!Cancel, Holds
<1> QED
  BY <1>1, <1>2 DEF Path!Events

\* An abort forgets the grabs, and ends when nothing is left.
LEMMA AbortEvents ==
  ASSUME NEW a \in BOOLEAN, NEW d \in BOOLEAN, NEW r \in BOOLEAN, NEW b \in BOOLEAN,
         NEW x \in BOOLEAN, NEW y \in BOOLEAN
  PROVE  /\ Holds(b) /\ ~Holds(r) /\ ~Holds(x) /\ ~Holds(y) =>
              Path!Stat(x, y, r, b, "idle") \in Path!Events(Path!Stat(a, d, r, b, "idle"))
         /\ Holds(b) /\ ~Holds(r) /\ ~Holds(a) /\ ~Holds(d) /\ ~Holds(x) =>
              Path!Stat(a, d, r, x, "idle") \in Path!Events(Path!Stat(a, d, r, b, "idle"))
<1>1. Holds(b) /\ ~Holds(r) /\ ~Holds(x) /\ ~Holds(y) =>
        Path!ForgetGrabs(Path!Stat(a, d, r, b, "idle")) = {Path!Stat(x, y, r, b, "idle")}
  BY DEF Path!Stat, Path!ForgetGrabs, Holds
<1>2. Holds(b) /\ ~Holds(r) /\ ~Holds(a) /\ ~Holds(d) /\ ~Holds(x) =>
        Path!AbortDone(Path!Stat(a, d, r, b, "idle")) = {Path!Stat(a, d, r, x, "idle")}
  BY DEF Path!Stat, Path!AbortDone, Path!AtRest, Holds
<1> QED
  BY <1>1, <1>2 DEF Path!Events

\* One write of GRAB_CTRL.
Written(p, bit) == Path!Command(p, {bit})

LEMMA NoWrite == \A p : Written(p, "none") = p
BY DEF Written, Path!Command

\* GRAB_CMD queues a grab, the second one behind the first.
LEMMA GrabWritten ==
  ASSUME NEW a \in BOOLEAN, NEW d \in BOOLEAN, NEW r \in BOOLEAN, NEW b \in BOOLEAN, NEW ph,
         NEW x \in BOOLEAN
  PROVE  /\ Holds(x) /\ Holds(a) => Written(Path!Stat(a, d, r, b, ph), "GRAB_CMD") = Path!Stat(a, x, r, b, ph)
         /\ Holds(x) /\ ~Holds(a) /\ ph = "idle" /\ ~Holds(b) =>
              Written(Path!Stat(a, d, r, b, ph), "GRAB_CMD") = Path!Stat(x, d, r, b, "queued")
         /\ Holds(x) /\ ~Holds(a) /\ (ph # "idle" \/ Holds(b)) =>
              Written(Path!Stat(a, d, r, b, ph), "GRAB_CMD") = Path!Stat(x, d, r, b, ph)
<1>1. /\ Holds(x) /\ Holds(a) => Path!GrabCmd(Path!Stat(a, d, r, b, ph)) = Path!Stat(a, x, r, b, ph)
      /\ Holds(x) /\ ~Holds(a) /\ ph = "idle" /\ ~Holds(b) =>
           Path!GrabCmd(Path!Stat(a, d, r, b, ph)) = Path!Stat(x, d, r, b, "queued")
      /\ Holds(x) /\ ~Holds(a) /\ (ph # "idle" \/ Holds(b)) =>
           Path!GrabCmd(Path!Stat(a, d, r, b, ph)) = Path!Stat(x, d, r, b, ph)
  BY DEF Path!Stat, Path!GrabCmd, Holds
<1> QED
  BY <1>1 DEF Written, Path!Command

LEMMA SnapshotWritten ==
  ASSUME NEW a \in BOOLEAN, NEW d \in BOOLEAN, NEW r \in BOOLEAN, NEW b \in BOOLEAN, NEW ph
  PROVE  /\ ph = "armed" => Written(Path!Stat(a, d, r, b, ph), "GRAB_SS") = Path!Stat(a, d, r, b, "exposing")
         /\ ph # "armed" => Written(Path!Stat(a, d, r, b, ph), "GRAB_SS") = Path!Stat(a, d, r, b, ph)
<1>1. /\ ph = "armed" => Path!Snapshot(Path!Stat(a, d, r, b, ph)) = Path!Stat(a, d, r, b, "exposing")
      /\ ph # "armed" => Path!Snapshot(Path!Stat(a, d, r, b, ph)) = Path!Stat(a, d, r, b, ph)
  BY DEF Path!Stat, Path!Snapshot
<1> QED
  BY <1>1 DEF Written, Path!Command

LEMMA AbortWritten ==
  ASSUME NEW a \in BOOLEAN, NEW d \in BOOLEAN, NEW r \in BOOLEAN, NEW b \in BOOLEAN, NEW ph,
         NEW x \in BOOLEAN
  PROVE  Holds(x) => Written(Path!Stat(a, d, r, b, ph), "ABORT_GRAB") = Path!Stat(a, d, r, x, ph)
<1>1. Holds(x) => Path!AbortGrab(Path!Stat(a, d, r, b, ph)) = Path!Stat(a, d, r, x, ph)
  BY DEF Path!Stat, Path!AbortGrab, Holds
<1> QED
  BY <1>1 DEF Written, Path!Command

LEMMA SoonFacts ==
  ASSUME NEW p, NEW q
  PROVE  /\ p \in Path!Soon(p)
         /\ q \in Path!Events(p) => q \in Path!Soon(p)
         /\ \A s : q \in Path!Events(p) /\ s \in Path!Events(q) => s \in Path!Soon(p)
BY DEF Path!Soon

-----------------------------------------------------------------------------
(* The clocks of the controller: a write and at most two events. *)

WriteBits == {"none", "GRAB_CMD", "GRAB_SS", "ABORT_GRAB"}

\* The FOT ends: the next grab is queued, and armed at once when nothing holds it.
FotEnd(a, d, b, a2, d2, b2, ph2, bit) ==
  /\ {a, d, b, a2, d2, b2} \subseteq BOOLEAN /\ bit \in WriteBits
  /\ a /\ (a2 <=> d \/ bit = "GRAB_CMD") /\ ~d2 /\ (b2 <=> b \/ bit = "ABORT_GRAB")
  /\ IF a2 /\ ~b2 THEN ph2 \in {"queued", "armed"} ELSE ph2 = "idle"

LEMMA FotEnds ==
  ASSUME NEW a, NEW d, NEW r, NEW b, NEW a2, NEW d2, NEW b2, NEW ph2, NEW bit,
         r \in BOOLEAN, FotEnd(a, d, b, a2, d2, b2, ph2, bit)
  PROVE  Path!Stat(a2, d2, r, b2, ph2) \in Path!Soon(Written(Path!Stat(a, d, r, b, "fot"), bit))
<1>0. /\ a \in BOOLEAN /\ d \in BOOLEAN /\ r \in BOOLEAN /\ b \in BOOLEAN
      /\ a2 \in BOOLEAN /\ d2 \in BOOLEAN /\ b2 \in BOOLEAN /\ bit \in WriteBits
  BY DEF FotEnd
<1>1. Written(Path!Stat(a, d, r, b, "fot"), bit) = Path!Stat(a, a2, r, b2, "fot")
  <2>1. CASE bit = "none"
    <3>1. a2 = d /\ b2 = b
      BY <1>0, <2>1 DEF FotEnd
    <3> QED
      BY <2>1, <3>1, NoWrite
  <2>2. CASE bit = "GRAB_CMD"
    <3>1. b2 = b /\ Holds(a) /\ Holds(a2)
      BY <1>0, <2>2 DEF FotEnd, Holds
    <3> QED
      BY <1>0, <2>2, <3>1, GrabWritten
  <2>3. CASE bit = "GRAB_SS"
    <3>1. a2 = d /\ b2 = b
      BY <1>0, <2>3 DEF FotEnd
    <3> QED
      BY <1>0, <2>3, <3>1, SnapshotWritten
  <2>4. CASE bit = "ABORT_GRAB"
    <3>1. a2 = d /\ Holds(b2)
      BY <1>0, <2>4 DEF FotEnd, Holds
    <3> QED
      BY <1>0, <2>4, <3>1, AbortWritten
  <2> QED
    BY <1>0, <2>1, <2>2, <2>3, <2>4 DEF WriteBits
<1>2. /\ ~Holds(d2)
      /\ \/ Holds(a2) /\ ~Holds(b2) /\ ph2 \in {"queued", "armed"}
         \/ ~(Holds(a2) /\ ~Holds(b2)) /\ ph2 = "idle"
  BY <1>0 DEF FotEnd, Holds
<1>3. CASE Holds(a2) /\ ~Holds(b2) /\ ph2 = "armed"
  <2>1. Path!Stat(a2, d2, r, b2, "queued") \in Path!Events(Path!Stat(a, a2, r, b2, "fot"))
    BY <1>0, <1>2, <1>3, GrabEvents
  <2>2. Path!Stat(a2, d2, r, b2, "armed") \in Path!Events(Path!Stat(a2, d2, r, b2, "queued"))
    BY <1>0, GrabEvents
  <2> QED
    BY <1>1, <1>3, <2>1, <2>2, SoonFacts
<1>4. CASE ph2 = IF Holds(a2) /\ ~Holds(b2) THEN "queued" ELSE "idle"
  <2>1. Path!Stat(a2, d2, r, b2, ph2) \in Path!Events(Path!Stat(a, a2, r, b2, "fot"))
    BY <1>0, <1>2, <1>4, GrabEvents
  <2> QED
    BY <1>1, <2>1, SoonFacts
<1> QED
  BY <1>2, <1>3, <1>4

\* The FOT starts.
FotStart(a, d, r, b, d2, r2, b2, bit) ==
  /\ {a, d, r, b, d2, r2, b2} \subseteq BOOLEAN /\ bit \in WriteBits
  /\ a /\ (d2 <=> d \/ bit = "GRAB_CMD") /\ (b2 <=> b \/ bit = "ABORT_GRAB") /\ ~r /\ r2

LEMMA FotStarts ==
  ASSUME NEW a, NEW d, NEW r, NEW b, NEW d2, NEW r2, NEW b2, NEW bit,
         FotStart(a, d, r, b, d2, r2, b2, bit)
  PROVE  Path!Stat(a, d2, r2, b2, "fot")
           \in Path!Soon(Written(Path!Stat(a, d, r, b, "exposing"), bit))
<1>0. /\ a \in BOOLEAN /\ d \in BOOLEAN /\ r \in BOOLEAN /\ b \in BOOLEAN
      /\ d2 \in BOOLEAN /\ r2 \in BOOLEAN /\ b2 \in BOOLEAN /\ bit \in WriteBits
  BY DEF FotStart
<1>1. Written(Path!Stat(a, d, r, b, "exposing"), bit) = Path!Stat(a, d2, r, b2, "exposing")
  <2>1. CASE bit = "none"
    <3>1. d2 = d /\ b2 = b
      BY <1>0, <2>1 DEF FotStart
    <3> QED
      BY <2>1, <3>1, NoWrite
  <2>2. CASE bit = "GRAB_CMD"
    <3>1. b2 = b /\ Holds(a) /\ Holds(d2)
      BY <1>0, <2>2 DEF FotStart, Holds
    <3> QED
      BY <1>0, <2>2, <3>1, GrabWritten
  <2>3. CASE bit = "GRAB_SS"
    <3>1. d2 = d /\ b2 = b
      BY <1>0, <2>3 DEF FotStart
    <3> QED
      BY <1>0, <2>3, <3>1, SnapshotWritten
  <2>4. CASE bit = "ABORT_GRAB"
    <3>1. d2 = d /\ Holds(b2)
      BY <1>0, <2>4 DEF FotStart, Holds
    <3> QED
      BY <1>0, <2>4, <3>1, AbortWritten
  <2> QED
    BY <1>0, <2>1, <2>2, <2>3, <2>4 DEF WriteBits
<1>2. ~Holds(r) /\ Holds(r2)
  BY <1>0 DEF FotStart, Holds
<1>3. Path!Stat(a, d2, r2, b2, "fot") \in Path!Events(Path!Stat(a, d2, r, b2, "exposing"))
  BY <1>0, <1>2, GrabEvents
<1> QED
  BY <1>1, <1>3, SoonFacts

\* Between two FOTs the phase moves with the write or by itself, and a readout may end.
AfterWrite(a, b, ph, bit) ==
  IF bit = "GRAB_CMD" /\ ~a /\ ~b /\ ph = "idle" THEN "queued"
  ELSE IF bit = "GRAB_SS" /\ ph = "armed" THEN "exposing" ELSE ph

PhaseMove(from, to, b) ==
  \/ to = from
  \/ from = "queued" /\ to = "armed"
  \/ from = "armed" /\ to = "exposing"
  \/ b /\ to = "idle"

FlagsMove(a, d, r, b, a2, d2, r2, b2, bit) ==
  /\ {a, d, r, b, a2, d2, r2, b2} \subseteq BOOLEAN /\ bit \in WriteBits
  /\ a2 <=> a \/ bit = "GRAB_CMD"
  /\ d2 <=> d \/ (bit = "GRAB_CMD" /\ a)
  /\ b2 <=> b \/ bit = "ABORT_GRAB"
  /\ r2 => r

LEMMA BetweenFots ==
  ASSUME NEW a, NEW d, NEW r, NEW b, NEW ph, NEW a2, NEW d2, NEW r2, NEW b2, NEW ph2, NEW bit,
         ph # "fot", ph2 # "fot", FlagsMove(a, d, r, b, a2, d2, r2, b2, bit),
         PhaseMove(AfterWrite(a, b, ph, bit), ph2, b2)
  PROVE  Path!Stat(a2, d2, r2, b2, ph2) \in Path!Soon(Written(Path!Stat(a, d, r, b, ph), bit))
<1> DEFINE ph1 == AfterWrite(a, b, ph, bit)
           p   == Path!Stat(a2, d2, r, b2, ph1)
           q   == Path!Stat(a2, d2, r, b2, ph2)
<1>0. /\ a \in BOOLEAN /\ d \in BOOLEAN /\ r \in BOOLEAN /\ b \in BOOLEAN
      /\ a2 \in BOOLEAN /\ d2 \in BOOLEAN /\ r2 \in BOOLEAN /\ b2 \in BOOLEAN /\ bit \in WriteBits
  BY DEF FlagsMove
<1>1. ph1 # "fot"
  BY DEF AfterWrite
<1>2. Written(Path!Stat(a, d, r, b, ph), bit) = p
  <2>1. CASE bit = "none"
    <3>1. a2 = a /\ d2 = d /\ b2 = b /\ ph1 = ph
      BY <1>0, <2>1 DEF FlagsMove, AfterWrite
    <3> HIDE DEF ph1
    <3> QED
      BY <2>1, <3>1, NoWrite
  <2>2. CASE bit = "GRAB_CMD"
    <3>1. /\ b2 = b
          /\ Holds(a) => a2 = a /\ Holds(d2) /\ ph1 = ph
          /\ ~Holds(a) => d2 = d /\ Holds(a2)
          /\ ~Holds(a) /\ ph = "idle" /\ ~Holds(b) => ph1 = "queued"
          /\ ~Holds(a) /\ (ph # "idle" \/ Holds(b)) => ph1 = ph
      BY <1>0, <2>2 DEF FlagsMove, AfterWrite, Holds
    <3> HIDE DEF ph1
    <3>2. CASE Holds(a)
      BY <1>0, <2>2, <3>1, <3>2, GrabWritten
    <3>3. CASE ~Holds(a) /\ ph = "idle" /\ ~Holds(b)
      BY <1>0, <2>2, <3>1, <3>3, GrabWritten
    <3>4. CASE ~Holds(a) /\ (ph # "idle" \/ Holds(b))
      BY <1>0, <2>2, <3>1, <3>4, GrabWritten
    <3> QED
      BY <3>2, <3>3, <3>4
  <2>3. CASE bit = "GRAB_SS"
    <3>1. a2 = a /\ d2 = d /\ b2 = b /\ ph1 = IF ph = "armed" THEN "exposing" ELSE ph
      BY <1>0, <2>3 DEF FlagsMove, AfterWrite
    <3> HIDE DEF ph1
    <3> QED
      BY <1>0, <2>3, <3>1, SnapshotWritten
  <2>4. CASE bit = "ABORT_GRAB"
    <3>1. a2 = a /\ d2 = d /\ Holds(b2) /\ ph1 = ph
      BY <1>0, <2>4 DEF FlagsMove, AfterWrite, Holds
    <3> HIDE DEF ph1
    <3> QED
      BY <1>0, <2>4, <3>1, AbortWritten
  <2> QED
    BY <1>0, <2>1, <2>2, <2>3, <2>4 DEF WriteBits
<1>3. q = p \/ q \in Path!Events(p)
  <2>1. \/ ph2 = ph1
        \/ ph1 = "queued" /\ ph2 = "armed"
        \/ ph1 = "armed" /\ ph2 = "exposing"
        \/ Holds(b2) /\ ph2 = "idle"
    BY DEF PhaseMove, Holds
  <2> HIDE DEF ph1
  <2> QED
    BY <1>0, <1>1, <2>1, GrabEvents, OtherEvents
<1>4. r2 = r \/ (Holds(r) /\ ~Holds(r2))
  BY <1>0 DEF FlagsMove, Holds
<1>5. CASE r2 = r
  <2>1. Path!Stat(a2, d2, r2, b2, ph2) = q
    BY <1>5
  <2> HIDE DEF p, q
  <2> QED
    BY <1>2, <1>3, <2>1, SoonFacts
<1>6. CASE Holds(r) /\ ~Holds(r2)
  <2>1. Path!Stat(a2, d2, r2, b2, ph2) \in Path!Events(q)
    BY <1>0, <1>6, OtherEvents
  <2> HIDE DEF p, q
  <2> QED
    BY <1>2, <1>3, <2>1, SoonFacts
<1> QED
  BY <1>4, <1>5, <1>6

\* The bit of GRAB_CTRL that a command of the software writes.
Bit(cmd) == IF cmd \in Path!GrabBits THEN cmd ELSE "none"

LEMMA BitFacts ==
  ASSUME NEW cmd
  PROVE  /\ Bit(cmd) \in WriteBits /\ WriteBits = Path!GrabBits \cup {"none"}
         /\ \A bit \in {"GRAB_CMD", "GRAB_SS", "ABORT_GRAB"} : Bit(cmd) = bit <=> cmd = bit
BY DEF Bit, WriteBits, Path!GrabBits

\* What a clock does to the flags and to the abort, outside of the clocks that clear them.
LEMMA FlagsOf ==
  ASSUME NEW cmd, NEW fifo_done, NEW dma_idle, TypeOK, AbortOrder, MayWrite(cmd),
         FlagsStep(cmd), ReadoutFlagStep, AbortStep(cmd, fifo_done, dma_idle)
  PROVE  /\ curr_grab_abort_state # "abort_irq" => (abort_now' <=> Abort(cmd))
         /\ curr_grab_abort_state = "abort_irq" => ~abort_now'
         /\ ~abort_grab_cmd /\ ~EO_FOT =>
              /\ grab_active' <=> grab_active \/ cmd = "GRAB_CMD"
              /\ grab_pending' <=> grab_pending \/ (cmd = "GRAB_CMD" /\ grab_active)
         /\ abort_grab_cmd => ~grab_active' /\ ~grab_pending'
         /\ readout' <=> ~readout_cntr2_end /\ (SO_FOT \/ readout)
         /\ abort_now => cmd \notin Path!GrabBits
         /\ abort_now /\ curr_grab_abort_state # "abort_states" => ManagersIdle /\ ~readout
<1>1. /\ curr_grab_abort_state # "abort_irq" => (abort_now' <=> Abort(cmd))
      /\ curr_grab_abort_state = "abort_irq" => ~abort_now'
  BY DEF AbortStep, AbortTo, abort_now, Abort, TypeOK
<1>2. abort_now => cmd \notin Path!GrabBits
  BY DEF MayWrite, abort_done, abort_now, Path!GrabBits
<1> QED
  BY <1>1, <1>2 DEF FlagsStep, ReadoutFlagStep, AbortOrder, abort_grab_cmd, TypeOK

LEMMA StatusTypes ==
  ASSUME TypeOK
  PROVE  {grab_active, grab_pending, readout, abort_now} \subseteq BOOLEAN
BY DEF TypeOK, abort_now

LEMMA StatusOf ==
  /\ grabPath = Path!Stat(grab_active, grab_pending, readout, abort_now, phase)
  /\ grabPath' = Path!Stat(grab_active', grab_pending', readout', abort_now', phase')
BY DEF grabPath, Path!Stat

\* The clock at the end of a FOT.
LEMMA FotEndClock ==
  ASSUME IInv, NEW cmd, NEW ext_trig, NEW exposure, NEW fot, NEW done, NEW dma_idle,
         Clock(cmd, ext_trig, exposure, fot, done, dma_idle), EO_FOT, TypeOK'
  PROVE  grabPath' \in Path!Soon(Written(grabPath, Bit(cmd)))
<1>1. TypeOK /\ Managers /\ AbortOrder /\ ReadoutFlag /\ GrabsQueued
  BY DEF IInv, Control, Types
<1>2. /\ curr_grab_mngr_state = "wait_eo_fot" /\ curr_timer_mngr_state = "idle"
      /\ ~abort_seq /\ readout /\ ~readout_cntr2_end /\ grab_active
  BY <1>1, GrabTriggered DEF Managers, Exposing, ReadoutFlag, GrabsQueued
<1>3. /\ MayWrite(cmd) /\ FlagsStep(cmd) /\ ReadoutFlagStep /\ GrabStep(cmd) /\ TrigStep(cmd)
      /\ AbortStep(cmd, abort_fifo_cmd_done, dma_idle)
  BY ClockSteps
<1>4. /\ curr_grab_abort_state \in {"idle", "abort_states"} /\ ~abort_grab_cmd
      /\ (abort_now' <=> Abort(cmd)) /\ readout'
  BY <1>1, <1>2, <1>3, FlagsOf DEF abort_grab_cmd, abort_now, ManagersIdle, TypeOK
<1>5. (grab_active' <=> NextGrab(cmd)) /\ ~grab_pending'
  BY <1>2, <1>3, <1>4 DEF FlagsStep, NextGrab
<1>6. phase = "fot"
  BY <1>2 DEF phase, EO_FOT
<1>7. phase' \in IF ChainGrab(cmd) THEN {"queued", "armed"} ELSE {"idle"}
  BY <1>2, <1>3, GrabFot DEF phase, ReadyState
<1>8. /\ {grab_active, grab_pending, readout, abort_now} \subseteq BOOLEAN
      /\ {grab_active', grab_pending', abort_now'} \subseteq BOOLEAN
  BY <1>1, StatusTypes DEF TypeOK, abort_now
<1>9. FotEnd(grab_active, grab_pending, abort_now, grab_active', grab_pending', abort_now',
             phase', Bit(cmd))
  <2>1. /\ grab_active' <=> grab_pending \/ Bit(cmd) = "GRAB_CMD"
        /\ abort_now' <=> abort_now \/ Bit(cmd) = "ABORT_GRAB"
    BY <1>4, <1>5, BitFacts DEF NextGrab, Abort
  <2>2. IF grab_active' /\ ~abort_now' THEN phase' \in {"queued", "armed"} ELSE phase' = "idle"
    BY <1>4, <1>5, <1>7 DEF ChainGrab
  <2> QED
    BY <1>2, <1>5, <1>8, <2>1, <2>2, BitFacts DEF FotEnd
<1>10. readout' = readout
  BY <1>2, <1>4, <1>1 DEF TypeOK
<1>11. grabPath = Path!Stat(grab_active, grab_pending, readout, abort_now, "fot")
  BY <1>6, StatusOf
<1>12. grabPath' = Path!Stat(grab_active', grab_pending', readout, abort_now', phase')
  BY <1>10, StatusOf
<1>13. Path!Stat(grab_active', grab_pending', readout, abort_now', phase')
         \in Path!Soon(Written(Path!Stat(grab_active, grab_pending, readout, abort_now, "fot"),
                              Bit(cmd)))
  BY <1>8, <1>9, FotEnds
<1> QED
  BY <1>11, <1>12, <1>13

\* In the FOT the flags follow the write.
FotKeeps(a, d, b, d2, b2, bit) ==
  /\ {a, d, b, d2, b2} \subseteq BOOLEAN /\ bit \in WriteBits
  /\ a /\ (d2 <=> d \/ bit = "GRAB_CMD") /\ (b2 <=> b \/ bit = "ABORT_GRAB")

LEMMA FotStays ==
  ASSUME NEW a, NEW d, NEW r, NEW b, NEW d2, NEW b2, NEW bit,
         r \in BOOLEAN, FotKeeps(a, d, b, d2, b2, bit)
  PROVE  Path!Stat(a, d2, r, b2, "fot") \in Path!Soon(Written(Path!Stat(a, d, r, b, "fot"), bit))
<1>0. /\ a \in BOOLEAN /\ d \in BOOLEAN /\ r \in BOOLEAN /\ b \in BOOLEAN
      /\ d2 \in BOOLEAN /\ b2 \in BOOLEAN /\ bit \in WriteBits
  BY DEF FotKeeps
<1>1. Written(Path!Stat(a, d, r, b, "fot"), bit) = Path!Stat(a, d2, r, b2, "fot")
  <2>1. CASE bit = "none"
    <3>1. d2 = d /\ b2 = b
      BY <1>0, <2>1 DEF FotKeeps
    <3> QED
      BY <2>1, <3>1, NoWrite
  <2>2. CASE bit = "GRAB_CMD"
    <3>1. b2 = b /\ Holds(a) /\ Holds(d2)
      BY <1>0, <2>2 DEF FotKeeps, Holds
    <3> QED
      BY <1>0, <2>2, <3>1, GrabWritten
  <2>3. CASE bit = "GRAB_SS"
    <3>1. d2 = d /\ b2 = b
      BY <1>0, <2>3 DEF FotKeeps
    <3> QED
      BY <1>0, <2>3, <3>1, SnapshotWritten
  <2>4. CASE bit = "ABORT_GRAB"
    <3>1. d2 = d /\ Holds(b2)
      BY <1>0, <2>4 DEF FotKeeps, Holds
    <3> QED
      BY <1>0, <2>4, <3>1, AbortWritten
  <2> QED
    BY <1>0, <2>1, <2>2, <2>3, <2>4 DEF WriteBits
<1> QED
  BY <1>1, SoonFacts

LEMMA FotManaged ==
  ASSUME TypeOK, Managers, FOT
  PROVE  curr_grab_mngr_state = "wait_eo_fot" /\ ~abort_seq
BY TimerAndTrig, GrabTriggered, GrabPhases
DEF TypeOK, TimerIn, TrigIn, Managers, Waiting, Delayed, Exposing, BetweenExposures, FOT, InLevel

\* The clock at the start of a FOT.
LEMMA FotStartClock ==
  ASSUME IInv, NEW cmd, NEW ext_trig, NEW exposure, NEW fot, NEW done, NEW dma_idle,
         Clock(cmd, ext_trig, exposure, fot, done, dma_idle), SO_FOT, TypeOK'
  PROVE  grabPath' \in Path!Soon(Written(grabPath, Bit(cmd)))
<1>1. TypeOK /\ Managers /\ AbortOrder /\ ReadoutFlag /\ GrabsQueued
  BY DEF IInv, Control, Types
<1>2. /\ curr_grab_mngr_state \in {"wait_so_fot", "wait_eo_fot"} /\ ~EO_FOT /\ ~abort_seq
      /\ ~readout /\ ~readout_cntr2_end /\ grab_active
  BY <1>1, GrabTriggered, ExposureTimed
  DEF ReadoutFlag, TrigIn, GrabsQueued, SO_FOT, EO_FOT
<1>3. /\ MayWrite(cmd) /\ FlagsStep(cmd) /\ ReadoutFlagStep /\ GrabStep(cmd) /\ TrigStep(cmd)
      /\ AbortStep(cmd, abort_fifo_cmd_done, dma_idle)
  BY ClockSteps
<1>4. /\ curr_grab_abort_state \in {"idle", "abort_states"} /\ ~abort_grab_cmd
      /\ (abort_now' <=> Abort(cmd)) /\ readout'
      /\ grab_active' /\ (grab_pending' <=> grab_pending \/ cmd = "GRAB_CMD")
  BY <1>1, <1>2, <1>3, FlagsOf DEF abort_grab_cmd, abort_now, ManagersIdle, TypeOK, SO_FOT
<1>5. phase = "exposing" /\ phase' = "fot"
  <2>1. curr_grab_mngr_state' = "wait_eo_fot"
    BY <1>2, <1>3, GrabLevel, GrabFot DEF InLevel
  <2>2. curr_trig_mngr_state' = "FOT_STATE"
    BY <1>3 DEF TrigStep, TrigMngr, TrigTo, SO_FOT
  <2> QED
    BY <1>2, <2>1, <2>2 DEF phase, SO_FOT
<1>6. /\ {grab_active, grab_pending, readout, abort_now} \subseteq BOOLEAN
      /\ {grab_pending', readout', abort_now'} \subseteq BOOLEAN
  BY <1>1, StatusTypes DEF TypeOK, abort_now
<1>7. FotStart(grab_active, grab_pending, readout, abort_now, grab_pending', readout',
               abort_now', Bit(cmd))
  <2>1. /\ grab_pending' <=> grab_pending \/ Bit(cmd) = "GRAB_CMD"
        /\ abort_now' <=> abort_now \/ Bit(cmd) = "ABORT_GRAB"
    BY <1>4, BitFacts DEF Abort
  <2> QED
    BY <1>2, <1>4, <1>6, <2>1, BitFacts DEF FotStart
<1>8. grab_active' = grab_active
  BY <1>1, <1>2, <1>4 DEF TypeOK
<1>9. grabPath = Path!Stat(grab_active, grab_pending, readout, abort_now, "exposing")
  BY <1>5, StatusOf
<1>10. grabPath' = Path!Stat(grab_active, grab_pending', readout', abort_now', "fot")
  BY <1>5, <1>8, StatusOf
<1> QED
  BY <1>7, <1>9, <1>10, FotStarts

\* In the FOT only a write shows.
LEMMA FotClock ==
  ASSUME IInv, NEW cmd, NEW ext_trig, NEW exposure, NEW fot, NEW done, NEW dma_idle,
         Clock(cmd, ext_trig, exposure, fot, done, dma_idle), FOT, TypeOK'
  PROVE  grabPath' \in Path!Soon(Written(grabPath, Bit(cmd)))
<1>1. TypeOK /\ Managers /\ AbortOrder /\ ReadoutFlag /\ GrabsQueued
  BY DEF IInv, Control, Types
<1>2. /\ curr_grab_mngr_state = "wait_eo_fot" /\ ~EO_FOT /\ ~SO_FOT /\ ~abort_seq
      /\ readout /\ ~readout_cntr2_end /\ grab_active
  BY <1>1, FotManaged DEF ReadoutFlag, GrabsQueued, SO_FOT, EO_FOT, FOT
<1>3. /\ MayWrite(cmd) /\ FlagsStep(cmd) /\ ReadoutFlagStep /\ GrabStep(cmd) /\ TrigStep(cmd)
      /\ AbortStep(cmd, abort_fifo_cmd_done, dma_idle)
  BY ClockSteps
<1>4. /\ curr_grab_abort_state \in {"idle", "abort_states"} /\ ~abort_grab_cmd
      /\ (abort_now' <=> Abort(cmd)) /\ readout'
      /\ grab_active' /\ (grab_pending' <=> grab_pending \/ cmd = "GRAB_CMD")
  BY <1>1, <1>2, <1>3, FlagsOf DEF abort_grab_cmd, abort_now, ManagersIdle, TypeOK
<1>5. phase = "fot" /\ phase' = "fot"
  <2>1. curr_grab_mngr_state' = "wait_eo_fot"
    BY <1>2, <1>3, GrabFot
  <2>2. curr_trig_mngr_state' \in {"FOT_STATE", "EO_FOT_STATE"}
    BY <1>3 DEF TrigStep, TrigMngr, TrigTo, FOT
  <2> QED
    BY <1>2, <2>1, <2>2 DEF phase, FOT
<1>6. /\ {grab_active, grab_pending, readout, abort_now} \subseteq BOOLEAN
      /\ {grab_active', grab_pending', readout', abort_now'} \subseteq BOOLEAN
  BY <1>1, StatusTypes DEF TypeOK, abort_now
<1>7. FotKeeps(grab_active, grab_pending, abort_now, grab_pending', abort_now', Bit(cmd))
  <2>1. /\ grab_pending' <=> grab_pending \/ Bit(cmd) = "GRAB_CMD"
        /\ abort_now' <=> abort_now \/ Bit(cmd) = "ABORT_GRAB"
    BY <1>4, BitFacts DEF Abort
  <2> QED
    BY <1>2, <1>6, <2>1, BitFacts DEF FotKeeps
<1>8. grab_active' = grab_active /\ readout' = readout
  BY <1>1, <1>2, <1>4 DEF TypeOK
<1>9. grabPath = Path!Stat(grab_active, grab_pending, readout, abort_now, "fot")
  BY <1>5, StatusOf
<1>10. grabPath' = Path!Stat(grab_active, grab_pending', readout, abort_now', "fot")
  BY <1>5, <1>8, StatusOf
<1> QED
  BY <1>6, <1>7, <1>9, <1>10, FotStays

\* The two clocks of an abort that show: the grabs are forgotten, the abort is done.
LEMMA AbortClock ==
  ASSUME IInv, NEW cmd, NEW ext_trig, NEW exposure, NEW fot, NEW done, NEW dma_idle,
         Clock(cmd, ext_trig, exposure, fot, done, dma_idle), TypeOK',
         curr_grab_abort_state \in {"abort_cmd_flags", "abort_irq"}
  PROVE  grabPath' \in Path!Soon(Written(grabPath, Bit(cmd)))
<1>1. TypeOK /\ AbortOrder /\ GrabsQueued
  BY DEF IInv, Control, Types
<1>2. /\ MayWrite(cmd) /\ FlagsStep(cmd) /\ ReadoutFlagStep /\ GrabStep(cmd)
      /\ TimerStep(cmd, busy) /\ TrigStep(cmd) /\ AbortStep(cmd, abort_fifo_cmd_done, dma_idle)
  BY ClockSteps
<1>3. abort_now /\ ManagersIdle /\ ~readout /\ cmd \notin Path!GrabBits
  BY <1>1, <1>2, FlagsOf DEF abort_now
<1>4. ManagersIdle'
  BY <1>2, <1>3, IdleKept
<1>5. phase = "idle" /\ phase' = "idle" /\ ~SO_FOT /\ ~EO_FOT
  BY <1>3, <1>4 DEF ManagersIdle, phase, SO_FOT, EO_FOT
<1>6. readout' = readout
  BY <1>1, <1>2, <1>3, <1>5, FlagsOf DEF TypeOK
<1>7. /\ {grab_active, grab_pending, readout, abort_now} \subseteq BOOLEAN
      /\ {grab_active', grab_pending', abort_now'} \subseteq BOOLEAN
  BY <1>1, StatusTypes DEF TypeOK, abort_now
<1>8. Written(grabPath, Bit(cmd)) = Path!Stat(grab_active, grab_pending, readout, abort_now, "idle")
  <2>1. Bit(cmd) = "none"
    BY <1>3 DEF Bit
  <2> QED
    BY <1>5, <2>1, NoWrite, StatusOf
<1>9. grabPath' = Path!Stat(grab_active', grab_pending', readout, abort_now', "idle")
  BY <1>5, <1>6, StatusOf
<1>10. CASE curr_grab_abort_state = "abort_cmd_flags"
  <2>1. abort_now' = abort_now
    BY <1>1, <1>2, <1>3, <1>7, <1>10, FlagsOf DEF Abort
  <2>2. Holds(abort_now) /\ ~Holds(readout) /\ ~Holds(grab_active') /\ ~Holds(grab_pending')
    BY <1>1, <1>2, <1>3, <1>10, FlagsOf DEF abort_grab_cmd, Holds
  <2>3. Path!Stat(grab_active', grab_pending', readout, abort_now, "idle")
          \in Path!Events(Path!Stat(grab_active, grab_pending, readout, abort_now, "idle"))
    BY <1>7, <2>2, AbortEvents
  <2> QED
    BY <1>8, <1>9, <2>1, <2>3, SoonFacts
<1>11. CASE curr_grab_abort_state = "abort_irq"
  <2>1. /\ Holds(abort_now) /\ ~Holds(readout) /\ ~Holds(abort_now')
        /\ ~Holds(grab_active) /\ ~Holds(grab_pending)
    BY <1>1, <1>2, <1>3, <1>11, FlagsOf DEF AbortOrder, GrabsQueued, Holds
  <2>2. grab_active' = grab_active /\ grab_pending' = grab_pending
    <3>1. /\ grab_active' <=> grab_active \/ cmd = "GRAB_CMD"
          /\ grab_pending' <=> grab_pending \/ (cmd = "GRAB_CMD" /\ grab_active)
      BY <1>1, <1>2, <1>5, <1>11, FlagsOf DEF abort_grab_cmd
    <3> QED
      BY <1>3, <1>7, <3>1 DEF Path!GrabBits
  <2>3. Path!Stat(grab_active, grab_pending, readout, abort_now', "idle")
          \in Path!Events(Path!Stat(grab_active, grab_pending, readout, abort_now, "idle"))
    BY <1>7, <2>1, AbortEvents
  <2> QED
    BY <1>8, <1>9, <2>2, <2>3, SoonFacts
<1> QED
  BY <1>10, <1>11

\* Outside of the FOT the grab manager moves to where its phase may go.
LEMMA PhaseMoves ==
  ASSUME TypeOK, TypeOK', Types, Managers, GrabManaged, NEW cmd, MayWrite(cmd), GrabStep(cmd),
         TrigStep(cmd), ~SO_FOT, ~FOT, ~EO_FOT,
         abort_now' <=> Abort(cmd)
  PROVE  /\ phase # "fot" /\ phase' # "fot"
         /\ PhaseMove(AfterWrite(grab_active, abort_now, phase, Bit(cmd)), phase', abort_now')
<1>1. curr_trig_mngr_state' \notin {"FOT_STATE", "EO_FOT_STATE"}
  BY DEF TrigStep, TrigMngr, TrigTo, SO_FOT, FOT, EO_FOT
<1>2. phase # "fot" /\ phase' # "fot"
  BY <1>1 DEF phase, FOT, EO_FOT
<1>3. CASE curr_grab_mngr_state = "idle"
  <2>1. phase = "idle" /\ (~abort_now => ~grab_active)
    BY <1>3 DEF phase, GrabManaged
  <2>2. CASE StartGrab(cmd)
    <3>1. curr_grab_mngr_state' \in {"sensor_reprog", "arm"}
      BY <1>3, <2>2 DEF GrabStep, GrabMngr, GrabTo, GrabIdle, GrabReprog, GrabArm, GrabReady,
         RdoWait, RdoEnd, RdoAbort, DeadEnd, DeadWait, DeadAbort, ArmWait, ArmTrig, ArmAbort,
         TrigSent, LevelWait, LevelRdo, LevelEnd, LevelRdoWait, LevelRdoEnd, SoFotWait, SoFotSeen,
         EoFotWait, EoFotAbort, EoFotLast, EoFotNext
    <3>2. phase' \in {"queued", "armed"}
      BY <3>1 DEF phase
    <3>3. Bit(cmd) = "GRAB_CMD" /\ ~abort_now
      BY <2>2, BitFacts DEF StartGrab, Abort
    <3> QED
      BY <1>2, <2>1, <3>2, <3>3 DEF PhaseMove, AfterWrite
  <2>3. CASE ~StartGrab(cmd)
    <3>1. curr_grab_mngr_state' = "idle"
      BY <1>3, <2>3, GrabBefore DEF BeforeTrigger
    <3>2. phase' = "idle"
      BY <3>1 DEF phase
    <3>3. Bit(cmd) = "GRAB_CMD" => abort_now
      BY <2>3, BitFacts DEF StartGrab, Abort
    <3> QED
      BY <1>2, <2>1, <3>2, <3>3 DEF PhaseMove, AfterWrite
  <2> QED
    BY <2>2, <2>3
<1>4. CASE curr_grab_mngr_state \in {"sensor_reprog", "wait_end_rdo", "wait_end_deadwindow"}
  <2>1. phase = "queued"
    BY <1>4 DEF phase
  <2>2. \/ curr_grab_mngr_state' \in {"wait_end_rdo", "wait_end_deadwindow", "arm"}
        \/ curr_grab_mngr_state' = "idle" /\ abort_now
    BY <1>4 DEF GrabStep, GrabMngr, GrabTo, GrabIdle, GrabReprog, GrabArm, GrabReady,
         RdoWait, RdoEnd, RdoAbort, DeadEnd, DeadWait, DeadAbort, ArmWait, ArmTrig, ArmAbort,
         TrigSent, LevelWait, LevelRdo, LevelEnd, LevelRdoWait, LevelRdoEnd, SoFotWait, SoFotSeen,
         EoFotWait, EoFotAbort, EoFotLast, EoFotNext, ReadyState
  <2>3. phase' \in {"queued", "armed"} \/ (phase' = "idle" /\ abort_now')
    BY <2>2 DEF phase, Abort
  <2> QED
    BY <1>2, <2>1, <2>3 DEF PhaseMove, AfterWrite
<1>5. CASE curr_grab_mngr_state = "arm"
  <2>1. phase = "armed"
    BY <1>5 DEF phase
  <2>2. \/ curr_grab_mngr_state' = "idle" /\ abort_now
        \/ curr_grab_mngr_state' = "arm" /\ ~TriggerSeen(cmd)
        \/ curr_grab_mngr_state' = "trig"
    BY <1>5 DEF GrabStep, GrabMngr, GrabTo, GrabIdle, GrabReprog, GrabArm, GrabReady,
         RdoWait, RdoEnd, RdoAbort, DeadEnd, DeadWait, DeadAbort, ArmWait, ArmTrig, ArmAbort,
         TrigSent, LevelWait, LevelRdo, LevelEnd, LevelRdoWait, LevelRdoEnd, SoFotWait, SoFotSeen,
         EoFotWait, EoFotAbort, EoFotLast, EoFotNext
  <2>3. \/ phase' = "idle" /\ abort_now'
        \/ phase' = "armed" /\ ~TriggerSeen(cmd)
        \/ phase' = "exposing"
    BY <2>2 DEF phase, Abort
  <2>4. Bit(cmd) = "GRAB_SS" => TriggerSeen(cmd)
    BY BitFacts DEF MayWrite, TriggerSeen, TypeOK
  <2> QED
    BY <1>2, <2>1, <2>3, <2>4 DEF PhaseMove, AfterWrite
<1>6. CASE curr_grab_mngr_state \notin
             {"idle", "sensor_reprog", "wait_end_rdo", "wait_end_deadwindow", "arm"}
  <2>1. phase = "exposing"
    BY <1>2, <1>6 DEF phase, FOT, EO_FOT
  <2>2. \/ curr_grab_mngr_state' \in {"wait_level", "wait_end_rdout", "wait_so_fot", "wait_eo_fot"}
        \/ curr_grab_mngr_state' = "idle" /\ abort_seq
    BY <1>6 DEF GrabStep, GrabMngr, GrabTo, GrabIdle, GrabReprog, GrabArm, GrabReady,
         RdoWait, RdoEnd, RdoAbort, DeadEnd, DeadWait, DeadAbort, ArmWait, ArmTrig, ArmAbort,
         TrigSent, LevelWait, LevelRdo, LevelEnd, LevelRdoWait, LevelRdoEnd, SoFotWait, SoFotSeen,
         EoFotWait, EoFotAbort, EoFotLast, EoFotNext
  <2>3. abort_seq => abort_now
    BY DEF Managers, Delayed
  <2>4. phase' = "exposing" \/ (phase' = "idle" /\ abort_now')
    BY <1>1, <2>2, <2>3 DEF phase, Abort
  <2> QED
    BY <1>2, <2>1, <2>4 DEF PhaseMove, AfterWrite
<1> QED
  BY <1>2, <1>3, <1>4, <1>5, <1>6

LEMMA BetweenClock ==
  ASSUME IInv, NEW cmd, NEW ext_trig, NEW exposure, NEW fot, NEW done, NEW dma_idle,
         Clock(cmd, ext_trig, exposure, fot, done, dma_idle), TypeOK',
         ~SO_FOT, ~FOT, ~EO_FOT, curr_grab_abort_state \notin {"abort_cmd_flags", "abort_irq"}
  PROVE  grabPath' \in Path!Soon(Written(grabPath, Bit(cmd)))
<1>1. TypeOK /\ Types /\ Managers /\ AbortOrder /\ GrabManaged
  BY DEF IInv, Control, Types
<1>2. /\ MayWrite(cmd) /\ FlagsStep(cmd) /\ ReadoutFlagStep /\ GrabStep(cmd) /\ TrigStep(cmd)
      /\ AbortStep(cmd, abort_fifo_cmd_done, dma_idle)
  BY ClockSteps
<1>3. /\ abort_now' <=> Abort(cmd)
      /\ grab_active' <=> grab_active \/ cmd = "GRAB_CMD"
      /\ grab_pending' <=> grab_pending \/ (cmd = "GRAB_CMD" /\ grab_active)
      /\ readout' => readout
  BY <1>1, <1>2, FlagsOf DEF abort_grab_cmd
<1>4. /\ {grab_active, grab_pending, readout, abort_now} \subseteq BOOLEAN
      /\ {grab_active', grab_pending', readout', abort_now'} \subseteq BOOLEAN
  BY <1>1, StatusTypes DEF TypeOK, abort_now
<1>5. FlagsMove(grab_active, grab_pending, readout, abort_now,
                grab_active', grab_pending', readout', abort_now', Bit(cmd))
  BY <1>3, <1>4, BitFacts DEF FlagsMove, Abort
<1>6. /\ phase # "fot" /\ phase' # "fot"
      /\ PhaseMove(AfterWrite(grab_active, abort_now, phase, Bit(cmd)), phase', abort_now')
  BY <1>1, <1>2, <1>3, PhaseMoves
<1> QED
  BY <1>5, <1>6, BetweenFots, StatusOf

-----------------------------------------------------------------------------
(* The refinement. *)

\* Every clock of the controller is one write of GRAB_CTRL and at most two events.
LEMMA ClockImplements ==
  ASSUME IInv, NEW cmd, NEW ext_trig, NEW exposure, NEW fot, NEW done, NEW dma_idle,
         Clock(cmd, ext_trig, exposure, fot, done, dma_idle), TypeOK'
  PROVE  grabPath' \in Path!Soon(Written(grabPath, Bit(cmd)))
<1>1. CASE EO_FOT
  BY <1>1, FotEndClock
<1>2. CASE SO_FOT
  BY <1>2, FotStartClock
<1>3. CASE FOT
  BY <1>3, FotClock
<1>4. CASE curr_grab_abort_state \in {"abort_cmd_flags", "abort_irq"}
  BY <1>4, AbortClock
<1>5. CASE /\ ~SO_FOT /\ ~FOT /\ ~EO_FOT
           /\ curr_grab_abort_state \notin {"abort_cmd_flags", "abort_irq"}
  BY <1>5, BetweenClock
<1> QED
  BY <1>1, <1>2, <1>3, <1>4, <1>5

\* The four FSMs do, clock by clock, only what GrabPath allows: at most one write of
\* GRAB_CTRL and two events of a grab, which is queued, armed, exposed and left at its
\* FOT in this order while the second waits behind it, and ABORT_DONE comes when nothing
\* is queued, exposed or read out (xgs_ctrl.vhd:650-669, 864-912, 1141-1259, 2357-2469).
THEOREM ControllerImplementsGrabPath == Spec => ImplementsGrabPath
<1>1. Init => Path!Init
  <2> SUFFICES ASSUME Init PROVE grabPath = Path!AtRest
    BY DEF Path!Init
  <2> QED
    BY DEF Init, CtrlInit, grabPath, phase, abort_now, Path!AtRest, Path!Stat
<1>2. IInv /\ IInv' /\ [Next]_vars => [Path!Next]_grabPath
  <2>1. ASSUME IInv, IInv', Next PROVE grabPath' = grabPath \/ Path!Next
    <3>1. PICK cmd \in Commands :
            \E ext_trig, exposure, fot, done, dma_idle \in BOOLEAN :
              Clock(cmd, ext_trig, exposure, fot, done, dma_idle)
      BY <2>1 DEF Next
    <3>2. TypeOK'
      BY <2>1 DEF IInv, Control, Types
    <3>3. grabPath' \in Path!Soon(Written(grabPath, Bit(cmd)))
      BY <2>1, <3>1, <3>2, ClockImplements
    <3>4. Bit(cmd) \in Path!GrabBits \cup {"none"}
      BY BitFacts
    <3> QED
      BY <3>3, <3>4 DEF Path!Next, Written
  <2>2. ASSUME UNCHANGED vars PROVE grabPath' = grabPath
    BY <2>2 DEF vars, ctrlVars, grabVars, trigVars, rdoVars, grabPath, phase, abort_now
  <2> QED
    BY <2>1, <2>2
<1> QED
  BY Invariance, <1>1, <1>2, PTL DEF Spec, ImplementsGrabPath, Path!Spec
================================================================================
