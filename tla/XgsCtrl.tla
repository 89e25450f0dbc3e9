--------------------------------- MODULE XgsCtrl --------------------------------
(***************************************************************************)
(* xgs_ctrl.vhd: the acquisition controller.  Four FSMs on sys_clk share   *)
(* one grab: the grab manager waits for the trigger, the timer manager     *)
(* delays it and follows the exposure, the trig manager drives the sensor  *)
(* trigger through exposure, FOT and readout, the abort FSM brings all of  *)
(* them home.  One grab may be active and one more pending.                *)
(*                                                                         *)
(* The registered outputs of a FSM are functions of its state and are      *)
(* written so.  The mode registers are programmed once; of the parameters   *)
(* of a grab, BUFFER_ID and the exposure time differ from grab to grab.     *)
(* The serial link (xgs_spi) is instantiated inside, as in the code.  Left  *)
(* out: the SFNC trigger source and its internal timer, strobe and exposure *)
(* outputs, interrupts, statistics.                                         *)
(***************************************************************************)
EXTENDS Integers, XgsSpi

CONSTANTS Modes,                 \* the programmings of the mode registers, as records
          TRIGGER_DELAY, FOT_LENGTH, READOUT_LENGTH,
          EXPOSURE_SS,           \* exposure time of each parameter set
          Sets,                  \* bound: number of parameter sets told apart
          ExposureCap,           \* bound: exposure_cntr stops here, past every exposure
          CntrMod                \* readout_cntr counts modulo this (2**29)

\* The mode registers, programmed before the first grab.
VARIABLES TRIGGER_SRC,           \* "CONTINUOUS", "HW" or "SW"
          LEVEL_MODE_EXP,        \* trigger level sets the exposure (HW only)
          TRIGGER_OVERLAP, TRIGGER_OVERLAP_BUFFn,
          EO_FOT_SEL             \* the end of FOT is counted, not seen

VARIABLES curr_grab_mngr_state, grab_mngr_trig_p1, grab_active, grab_pending,
          curr_trigger_src, hw_trig, ext_trig_p2, ext_trig_p3,
          curr_timer_mngr_state, timer_cntr, trig_delayed_p1,
          curr_trig_mngr_state, abort_seq, abort_delai, abort_pet,
          exposure_cntr,
          xgs_exposure, xgs_exposure_p1, xgs_FOT, xgs_FOT_p1, xgs_EO_FOT,
          readout_cntr, readout_cntr_FOT, readout_cntr_EO_FOT,
          readout_cntr2, readout_cntr2_armed, readout_cntr2_end, readout,
          curr_grab_abort_state,
          curr_exposure, curr_BUFFER_ID, curr_db_BUFFER_ID  \* parameter sets in use

ASSUME XgsCtrlAssumption ==
  /\ Modes \subseteq [TRIGGER_SRC : {"CONTINUOUS", "HW", "SW"},
                     LEVEL_MODE_EXP : BOOLEAN, TRIGGER_OVERLAP : BOOLEAN,
                     TRIGGER_OVERLAP_BUFFn : BOOLEAN, EO_FOT_SEL : BOOLEAN,
                     SENSOR_REG_UPDATE : BOOLEAN]
  /\ \A m \in Modes : m.LEVEL_MODE_EXP => m.TRIGGER_SRC = "HW"
  /\ Sets \in Nat \ {0}
  /\ {TRIGGER_DELAY, FOT_LENGTH, READOUT_LENGTH} \subseteq Nat
  /\ EXPOSURE_SS \in [0 .. Sets - 1 -> Nat \ {0}]
  /\ ExposureCap \in Nat /\ \A i \in 0 .. Sets - 1 : EXPOSURE_SS[i] < ExposureCap
  /\ CntrMod \in Nat
  /\ READOUT_LENGTH < CntrMod /\ FOT_LENGTH < CntrMod

grabVars  == <<curr_grab_mngr_state, grab_mngr_trig_p1, grab_active, grab_pending,
               curr_trigger_src, hw_trig, ext_trig_p2, ext_trig_p3>>
timerVars == <<curr_timer_mngr_state, timer_cntr, trig_delayed_p1>>
trigVars  == <<curr_trig_mngr_state, abort_seq, abort_delai, abort_pet, exposure_cntr>>
sensorVars == <<xgs_exposure, xgs_exposure_p1, xgs_FOT, xgs_FOT_p1, xgs_EO_FOT>>
rdoVars   == <<readout_cntr, readout_cntr_FOT, readout_cntr_EO_FOT, readout_cntr2,
               readout_cntr2_armed, readout_cntr2_end, readout>>
parVars   == <<curr_exposure, curr_BUFFER_ID, curr_db_BUFFER_ID>>
modeVars  == <<TRIGGER_SRC, LEVEL_MODE_EXP, TRIGGER_OVERLAP, TRIGGER_OVERLAP_BUFFn,
               EO_FOT_SEL, SENSOR_REG_UPDATE>>
ctrlVars  == <<grabVars, timerVars, trigVars, sensorVars, rdoVars, parVars,
               curr_grab_abort_state>>

\* Registered outputs of the four FSMs.
grab_mngr_trig     == curr_grab_mngr_state \in {"trig", "wait_level", "wait_end_rdout"}
grab_mngr_trig_rdy == curr_grab_mngr_state = "arm"
grab_mngr_sensor_reconf == curr_grab_mngr_state = "sensor_reprog"
trig_delayed  == \/ curr_timer_mngr_state \in {"trig", "level"}
                 \/ curr_timer_mngr_state = "exposure_monitor" /\ LEVEL_MODE_EXP
timer_cnt      == curr_timer_mngr_state = "delaying"
timer_exposure == curr_timer_mngr_state \in {"exposure", "level"}
curr_trig0     == curr_trig_mngr_state \in {"trigger", "wait_exp_start",
                                            "single_slope", "exp_level"}
readout_cnt    == curr_trig_mngr_state \in {"readout_state", "wait_pet"}
SO_FOT         == curr_trig_mngr_state = "SO_FOT_STATE"
FOT            == curr_trig_mngr_state = "FOT_STATE"
EO_FOT         == curr_trig_mngr_state = "EO_FOT_STATE"
abort_now      == curr_grab_abort_state # "idle"
abort_grab_cmd == curr_grab_abort_state = "abort_cmd_flags"
abort_fifo_cmd == curr_grab_abort_state = "abort_ser_fifo"
abort_done     == curr_grab_abort_state = "idle"

ManagersIdle == /\ curr_grab_mngr_state = "idle"
                /\ curr_timer_mngr_state = "idle"
                /\ curr_trig_mngr_state = "idle"

curr_exposure_ss == EXPOSURE_SS[curr_exposure]

\* Mutation: the trigger does not wait for the dead window.
DeadWindowIgnored == TRUE

\* An exposure started now ends after the readout in progress.
DeadWindowOver == curr_exposure_ss > readout_cntr

ModeInit == \E m \in Modes :
              /\ TRIGGER_SRC = m.TRIGGER_SRC
              /\ LEVEL_MODE_EXP = m.LEVEL_MODE_EXP
              /\ TRIGGER_OVERLAP = m.TRIGGER_OVERLAP
              /\ TRIGGER_OVERLAP_BUFFn = m.TRIGGER_OVERLAP_BUFFn
              /\ EO_FOT_SEL = m.EO_FOT_SEL
              /\ SENSOR_REG_UPDATE = m.SENSOR_REG_UPDATE

CtrlInit ==
  /\ curr_grab_mngr_state = "idle" /\ grab_mngr_trig_p1 = FALSE
  /\ grab_active = FALSE /\ grab_pending = FALSE
  /\ curr_trigger_src = "NONE" /\ hw_trig = FALSE
  /\ ext_trig_p2 = FALSE /\ ext_trig_p3 = FALSE
  /\ curr_timer_mngr_state = "idle" /\ timer_cntr = 0 /\ trig_delayed_p1 = FALSE
  /\ curr_trig_mngr_state = "idle"
  /\ abort_seq = FALSE /\ abort_delai = FALSE /\ abort_pet = FALSE
  /\ exposure_cntr = 0
  /\ xgs_exposure = FALSE /\ xgs_exposure_p1 = FALSE
  /\ xgs_FOT = FALSE /\ xgs_FOT_p1 = FALSE /\ xgs_EO_FOT = FALSE
  /\ readout_cntr = 0 /\ readout_cntr_FOT = FALSE /\ readout_cntr_EO_FOT = FALSE
  /\ readout_cntr2 = 0 /\ readout_cntr2_armed = FALSE
  /\ readout_cntr2_end = FALSE /\ readout = FALSE
  /\ curr_grab_abort_state = "idle"
  /\ curr_exposure = 0 /\ curr_BUFFER_ID = 0 /\ curr_db_BUFFER_ID = 0

(* cmd: the self-clearing bit of GRAB_CTRL that software writes on this     *)
(* clock: "GRAB_CMD", "GRAB_SS", "ABORT_GRAB" or another value for none.    *)

Abort(cmd)   == abort_now \/ cmd = "ABORT_GRAB"
NewGrab(cmd) == cmd = "GRAB_CMD" /\ ~grab_active      \* starts a grab at once
NextGrab(cmd)== grab_pending \/ cmd = "GRAB_CMD"      \* one follows the active one

--------------------------------------------------------------------------------
(* First step: the flags, the trigger input and the double-buffered          *)
(* parameters; reg is the parameter set in the register file.                *)

\* Mutation: a GRAB_CMD on the clock of EO_FOT is forgotten.
FlagsForgetful(cmd) ==
  /\ grab_active' = CASE abort_grab_cmd             -> FALSE
                      [] ~abort_grab_cmd /\ EO_FOT  -> grab_pending
                      [] OTHER                      -> grab_active \/ cmd = "GRAB_CMD"
  /\ grab_pending' = /\ ~abort_grab_cmd
                     /\ ~EO_FOT
                     /\ grab_pending \/ (cmd = "GRAB_CMD" /\ grab_active)

FlagsStep(cmd) ==
  /\ grab_active' = CASE abort_grab_cmd             -> FALSE
                      [] ~abort_grab_cmd /\ EO_FOT  ->
                             grab_pending \/ (cmd = "GRAB_CMD" /\ grab_active)
                      [] OTHER                      -> grab_active \/ cmd = "GRAB_CMD"
  /\ grab_pending' = /\ ~abort_grab_cmd
                     /\ ~EO_FOT
                     /\ grab_pending \/ (cmd = "GRAB_CMD" /\ grab_active)

\* Mutation: the parameters miss a GRAB_CMD on the clock of EO_FOT.
LoadPendingOnly(cmd) == NewGrab(cmd) \/ (EO_FOT /\ grab_pending)

LoadExposure(cmd) == NewGrab(cmd) \/ (EO_FOT /\ NextGrab(cmd))
LoadReadout(cmd)  == NewGrab(cmd) \/ EO_FOT

ParamsStep(cmd, reg) ==
  /\ curr_trigger_src' = CASE LoadExposure(cmd)                -> TRIGGER_SRC
                           [] ~LoadExposure(cmd) /\ abort_now  -> "NONE"
                           [] OTHER                            -> curr_trigger_src
  /\ curr_exposure'     = IF LoadExposure(cmd) THEN reg ELSE curr_exposure
  /\ curr_BUFFER_ID'    = IF LoadReadout(cmd) THEN reg ELSE curr_BUFFER_ID
  /\ curr_db_BUFFER_ID' = IF EO_FOT THEN curr_BUFFER_ID ELSE curr_db_BUFFER_ID

RisingTrig  == ext_trig_p2 /\ ~ext_trig_p3
FallingTrig == ~ext_trig_p2 /\ ext_trig_p3

\* Rising edge, or rising edge held to the falling one (LEVEL HI, trigger width).
HwTrigStep(ext_trig) ==
  /\ ext_trig_p2' = ext_trig
  /\ ext_trig_p3' = ext_trig_p2
  /\ hw_trig' = /\ curr_trigger_src = "HW"
                /\ \/ RisingTrig /\ grab_mngr_trig_rdy
                   \/ LEVEL_MODE_EXP /\ hw_trig /\ ~RisingTrig /\ ~FallingTrig

--------------------------------------------------------------------------------
(* Second step: the grab manager. *)

GrabTo(from, to) == curr_grab_mngr_state = from /\ curr_grab_mngr_state' = to

\* Mutation: the readout is not waited for with the overlap disabled.
ReadyAlways == "arm"

WaitReadout  == ~TRIGGER_OVERLAP
DeadWindow   == TRIGGER_OVERLAP /\ TRIGGER_OVERLAP_BUFFn /\ ~LEVEL_MODE_EXP
ReadyState   == IF WaitReadout THEN "wait_end_rdo"
                ELSE IF DeadWindow THEN "wait_end_deadwindow" ELSE "arm"

TriggerSeen(cmd) == \/ curr_trigger_src = "SW" /\ cmd = "GRAB_SS"
                    \/ curr_trigger_src = "HW" /\ hw_trig
                    \/ curr_trigger_src \in {"CONTINUOUS", "NONE"}
StartGrab(cmd)   == cmd = "GRAB_CMD" /\ ~Abort(cmd)
\* Mutation: a GRAB_CMD on the clock of EO_FOT does not chain.
ChainPending(cmd)== ~Abort(cmd) /\ grab_pending
ChainGrab(cmd)   == ~Abort(cmd) /\ NextGrab(cmd)

GrabIdle(cmd)   == GrabTo("idle", "idle") /\ ~StartGrab(cmd)
GrabReprog(cmd) == GrabTo("idle", "sensor_reprog") /\ StartGrab(cmd) /\ SENSOR_REG_UPDATE
GrabArm(cmd)    == GrabTo("idle", "arm") /\ StartGrab(cmd) /\ ~SENSOR_REG_UPDATE
GrabReady       == GrabTo("sensor_reprog", ReadyState)
RdoWait         == GrabTo("wait_end_rdo", "wait_end_rdo") /\ ~abort_now /\ readout
RdoEnd          == GrabTo("wait_end_rdo", "arm") /\ ~abort_now /\ ~readout
RdoAbort        == GrabTo("wait_end_rdo", "idle") /\ abort_now
DeadEnd         == /\ GrabTo("wait_end_deadwindow", "arm")
                   /\ ~abort_now
                   /\ readout_cnt => DeadWindowOver
DeadWait        == /\ GrabTo("wait_end_deadwindow", "wait_end_deadwindow")
                   /\ ~abort_now
                   /\ readout_cnt /\ ~DeadWindowOver
DeadAbort       == GrabTo("wait_end_deadwindow", "idle") /\ abort_now
ArmWait(cmd)    == GrabTo("arm", "arm") /\ ~abort_now /\ ~TriggerSeen(cmd)
ArmTrig(cmd)    == GrabTo("arm", "trig") /\ ~abort_now /\ TriggerSeen(cmd)
ArmAbort        == GrabTo("arm", "idle") /\ abort_now
TrigSent        == GrabTo("trig", IF LEVEL_MODE_EXP THEN "wait_level" ELSE "wait_eo_fot")
LevelWait       == GrabTo("wait_level", "wait_level") /\ hw_trig
LevelRdo        == GrabTo("wait_level", "wait_end_rdout") /\ ~hw_trig /\ readout
LevelEnd        == GrabTo("wait_level", "wait_so_fot") /\ ~hw_trig /\ ~readout
LevelRdoWait    == GrabTo("wait_end_rdout", "wait_end_rdout") /\ readout
LevelRdoEnd     == GrabTo("wait_end_rdout", "wait_so_fot") /\ ~readout
SoFotWait       == GrabTo("wait_so_fot", "wait_so_fot") /\ ~SO_FOT
SoFotSeen       == GrabTo("wait_so_fot", "wait_eo_fot") /\ SO_FOT
EoFotWait       == GrabTo("wait_eo_fot", "wait_eo_fot") /\ ~abort_seq /\ ~EO_FOT
EoFotAbort      == GrabTo("wait_eo_fot", "idle") /\ abort_seq
EoFotLast(cmd)  == /\ GrabTo("wait_eo_fot", "idle")
                   /\ ~abort_seq /\ EO_FOT /\ ~ChainGrab(cmd)
\* Mutation: the next grab starts when the FOT does.
FotNext(cmd)    == /\ GrabTo("wait_eo_fot", IF SENSOR_REG_UPDATE THEN "sensor_reprog" ELSE ReadyState)
                   /\ ~abort_seq /\ (FOT \/ EO_FOT) /\ ChainGrab(cmd)
EoFotNext(cmd)  == /\ GrabTo("wait_eo_fot", IF SENSOR_REG_UPDATE THEN "sensor_reprog" ELSE ReadyState)
                   /\ ~abort_seq /\ EO_FOT /\ ChainGrab(cmd)

GrabMngr(cmd) ==
  \/ GrabIdle(cmd) \/ GrabReprog(cmd) \/ GrabArm(cmd) \/ GrabReady
  \/ RdoWait \/ RdoEnd \/ RdoAbort \/ DeadEnd \/ DeadWait \/ DeadAbort
  \/ ArmWait(cmd) \/ ArmTrig(cmd) \/ ArmAbort \/ TrigSent
  \/ LevelWait \/ LevelRdo \/ LevelEnd \/ LevelRdoWait \/ LevelRdoEnd
  \/ SoFotWait \/ SoFotSeen \/ EoFotWait \/ EoFotAbort
  \/ EoFotLast(cmd) \/ EoFotNext(cmd)

GrabStep(cmd) == GrabMngr(cmd) /\ grab_mngr_trig_p1' = grab_mngr_trig

--------------------------------------------------------------------------------
(* Third step: the timer manager. *)

TimerTo(from, to) == curr_timer_mngr_state = from /\ curr_timer_mngr_state' = to

ExposureRises == xgs_exposure /\ ~xgs_exposure_p1
ExposureFalls == ~xgs_exposure /\ xgs_exposure_p1
DelayOver(cmd) == Abort(cmd) \/ timer_cntr = TRIGGER_DELAY

TimerMngr(cmd, sensor_reconf_busy) ==
  \/ TimerTo("idle", "idle") /\ ~(grab_mngr_trig /\ ~grab_mngr_trig_p1)
  \/ TimerTo("idle", "verify_reconf_busy") /\ grab_mngr_trig /\ ~grab_mngr_trig_p1
  \/ TimerTo("verify_reconf_busy", "verify_reconf_busy") /\ sensor_reconf_busy
  \/ TimerTo("verify_reconf_busy", "trig") /\ ~sensor_reconf_busy /\ LEVEL_MODE_EXP
  \/ TimerTo("verify_reconf_busy", "delaying") /\ ~sensor_reconf_busy /\ ~LEVEL_MODE_EXP
  \/ TimerTo("delaying", "trig") /\ DelayOver(cmd)
  \/ TimerTo("delaying", "delaying") /\ ~DelayOver(cmd)
  \/ TimerTo("trig", "exposure_monitor")
  \/ TimerTo("exposure_monitor", "exposure_end") /\ abort_seq
  \/ /\ TimerTo("exposure_monitor", IF LEVEL_MODE_EXP THEN "level" ELSE "exposure")
     /\ ~abort_seq /\ ExposureRises
  \/ TimerTo("exposure_monitor", "exposure_monitor") /\ ~abort_seq /\ ~ExposureRises
  \/ TimerTo("level", "exposure") /\ (~grab_mngr_trig \/ abort_seq)
  \/ TimerTo("level", "level") /\ grab_mngr_trig /\ ~abort_seq
  \/ TimerTo("exposure", "exposure_end") /\ (abort_seq \/ ExposureFalls)
  \/ TimerTo("exposure", "exposure") /\ ~abort_seq /\ ~ExposureFalls
  \/ TimerTo("exposure_end", "idle")

TimerStep(cmd, sensor_reconf_busy) ==
  /\ TimerMngr(cmd, sensor_reconf_busy)
  /\ trig_delayed_p1' = trig_delayed
  /\ timer_cntr' = IF timer_cnt THEN timer_cntr + 1 ELSE 0

--------------------------------------------------------------------------------
(* Fourth step: the trig manager. *)

TrigTo(from, to) == curr_trig_mngr_state = from /\ curr_trig_mngr_state' = to
Trigger(cmd) == trig_delayed /\ ~Abort(cmd)

TrigMngr(cmd) ==
  \/ TrigTo("idle", "trigger") /\ Trigger(cmd)
  \/ TrigTo("idle", "idle") /\ ~Trigger(cmd)
  \/ TrigTo("trigger", "wait_exp_start")
  \/ TrigTo("wait_exp_start", "exp_level") /\ LEVEL_MODE_EXP /\ xgs_exposure
  \/ TrigTo("wait_exp_start", "single_slope") /\ ~LEVEL_MODE_EXP /\ timer_exposure
  \/ /\ TrigTo("wait_exp_start", "wait_exp_start")
     /\ IF LEVEL_MODE_EXP THEN ~xgs_exposure ELSE ~timer_exposure
  \/ TrigTo("single_slope", "monitoring") /\ exposure_cntr = curr_exposure_ss
  \/ TrigTo("single_slope", "single_slope") /\ exposure_cntr # curr_exposure_ss
  \/ TrigTo("exp_level", "monitoring") /\ ~trig_delayed /\ trig_delayed_p1
  \/ TrigTo("exp_level", "exp_level") /\ ~(~trig_delayed /\ trig_delayed_p1)
  \/ TrigTo("monitoring", "SO_FOT_STATE") /\ xgs_FOT
  \/ TrigTo("monitoring", "monitoring") /\ ~xgs_FOT
  \/ TrigTo("SO_FOT_STATE", "FOT_STATE")
  \/ TrigTo("FOT_STATE", "EO_FOT_STATE") /\ xgs_EO_FOT
  \/ TrigTo("FOT_STATE", "FOT_STATE") /\ ~xgs_EO_FOT
  \/ TrigTo("EO_FOT_STATE", "readout_state")
  \/ /\ TrigTo("readout_state", IF LEVEL_MODE_EXP THEN "trigger" ELSE "wait_pet")
     /\ Trigger(cmd)
  \/ TrigTo("readout_state", "idle") /\ ~Trigger(cmd) /\ readout_cntr = 0
  \/ TrigTo("readout_state", "readout_state") /\ ~Trigger(cmd) /\ readout_cntr # 0
  \/ TrigTo("wait_pet", "readout_state") /\ Abort(cmd)
  \/ TrigTo("wait_pet", "trigger") /\ ~Abort(cmd) /\ DeadWindowOver
  \/ TrigTo("wait_pet", "wait_pet") /\ ~Abort(cmd) /\ ~DeadWindowOver

\* Mutation: an abort in the dead window does not cancel the grab.
AbortNotInPet(cmd) ==
  /\ abort_seq' = /\ Abort(cmd) /\ trig_delayed
                  /\ curr_trig_mngr_state \in {"idle", "readout_state"}
  /\ abort_delai' = \/ timer_cnt /\ Abort(cmd)
                    \/ abort_delai /\ ~abort_done
  /\ abort_pet'   = \/ curr_trig_mngr_state = "wait_pet" /\ Abort(cmd)
                    \/ abort_pet /\ ~abort_done

\* An abort before the sensor is triggered cancels the grab in the other FSMs.
AbortFlags(cmd) ==
  /\ abort_seq' = /\ Abort(cmd)
                  /\ \/ curr_trig_mngr_state \in {"idle", "readout_state"} /\ trig_delayed
                     \/ curr_trig_mngr_state = "wait_pet"
  /\ abort_delai' = \/ timer_cnt /\ Abort(cmd)
                    \/ abort_delai /\ ~abort_done
  /\ abort_pet'   = \/ curr_trig_mngr_state = "wait_pet" /\ Abort(cmd)
                    \/ abort_pet /\ ~abort_done

\* The exposure counter is only compared for equality.
ExposureCntrStep ==
  exposure_cntr' = CASE timer_exposure /\ exposure_cntr < ExposureCap -> exposure_cntr + 1
                     [] timer_exposure /\ exposure_cntr = ExposureCap -> exposure_cntr
                     [] ~timer_exposure                               -> 0

TrigStep(cmd) == TrigMngr(cmd) /\ AbortFlags(cmd) /\ ExposureCntrStep

--------------------------------------------------------------------------------
(* The sensor monitors and the readout counters. *)

MonitorStep(exposure, fot) ==
  /\ xgs_exposure' = exposure /\ xgs_exposure_p1' = xgs_exposure
  /\ xgs_FOT' = fot /\ xgs_FOT_p1' = xgs_FOT
  /\ xgs_EO_FOT' = IF EO_FOT_SEL THEN readout_cntr_EO_FOT ELSE xgs_FOT_p1 /\ ~xgs_FOT

Down(c) == (c - 1) % CntrMod

\* EO_FOT_SEL = 0: readout_cntr counts the readout down from EO_FOT.
CountReadout ==
  /\ readout_cntr' = CASE EO_FOT                 -> READOUT_LENGTH
                       [] ~EO_FOT /\ readout_cnt -> Down(readout_cntr)
                       [] OTHER                  -> readout_cntr
  /\ readout_cntr_FOT' = FALSE
  /\ readout_cntr_EO_FOT' = FALSE

\* EO_FOT_SEL = 1: it counts the FOT first, then the readout.
CountFotAndReadout ==
  LET start == xgs_FOT /\ ~xgs_FOT_p1
      over  == readout_cntr_FOT /\ readout_cntr = 0
      count == readout_cnt \/ readout_cntr_FOT
  IN /\ readout_cntr' =
          CASE start                                   -> FOT_LENGTH
            [] ~start /\ (over \/ readout_cntr_EO_FOT) -> READOUT_LENGTH
            [] ~start /\ ~over /\ ~readout_cntr_EO_FOT /\ count -> Down(readout_cntr)
            [] OTHER                                   -> readout_cntr
     /\ readout_cntr_FOT' = (start \/ (readout_cntr_FOT /\ ~over /\ ~readout_cntr_EO_FOT))
     /\ readout_cntr_EO_FOT' = (~start /\ over)

ReadoutCntrStep == IF EO_FOT_SEL THEN CountFotAndReadout ELSE CountReadout

\* The stand-in for the end of frame of the datapath, and the GRAB_READOUT flag.
ReadoutFlagStep ==
  LET over == readout_cntr2_armed /\ readout_cntr2 = 0
  IN /\ readout_cntr2' = CASE ~over /\ EO_FOT -> READOUT_LENGTH
                           [] ~over /\ ~EO_FOT /\ readout_cntr2_armed -> readout_cntr2 - 1
                           [] OTHER -> 0
     /\ readout_cntr2_armed' = (~over /\ (EO_FOT \/ readout_cntr2_armed))
     /\ readout_cntr2_end' = over
     /\ readout' = (~readout_cntr2_end /\ (SO_FOT \/ readout))

--------------------------------------------------------------------------------
(* The abort FSM. *)

AbortTo(from, to) == curr_grab_abort_state = from /\ curr_grab_abort_state' = to

\* Mutation: the abort does not clear the flags.
AbortKeepsFlags(cmd, fifo_done, dma_idle) ==
  \/ AbortTo("idle", "idle") /\ cmd # "ABORT_GRAB"
  \/ AbortTo("idle", "abort_states") /\ cmd = "ABORT_GRAB"
  \/ AbortTo("abort_states", "abort_states") /\ ~ManagersIdle
  \/ AbortTo("abort_states", "abort_ser_fifo") /\ ManagersIdle
  \/ AbortTo("abort_ser_fifo", "abort_ser_fifo") /\ ~fifo_done
  \/ AbortTo("abort_ser_fifo", "abort_dma") /\ fifo_done
  \/ AbortTo("abort_dma", "abort_dma") /\ ~dma_idle
  \/ AbortTo("abort_dma", "abort_irq") /\ dma_idle
  \/ AbortTo("abort_irq", "idle")

AbortStep(cmd, fifo_done, dma_idle) ==
  \/ AbortTo("idle", "idle") /\ cmd # "ABORT_GRAB"
  \/ AbortTo("idle", "abort_states") /\ cmd = "ABORT_GRAB"
  \/ AbortTo("abort_states", "abort_states") /\ ~ManagersIdle
  \/ AbortTo("abort_states", "abort_cmd_flags") /\ ManagersIdle
  \/ AbortTo("abort_cmd_flags", "abort_ser_fifo")
  \/ AbortTo("abort_ser_fifo", "abort_ser_fifo") /\ ~fifo_done
  \/ AbortTo("abort_ser_fifo", "abort_dma") /\ fifo_done
  \/ AbortTo("abort_dma", "abort_dma") /\ ~dma_idle
  \/ AbortTo("abort_dma", "abort_irq") /\ dma_idle
  \/ AbortTo("abort_irq", "idle")

\* One rising edge of sys_clk in xgs_ctrl.
CtrlClock(cmd, reg, ext_trig, sensor_reconf_busy, fifo_done, dma_idle, exposure, fot) ==
  /\ FlagsStep(cmd)
  /\ ParamsStep(cmd, reg)
  /\ HwTrigStep(ext_trig)
  /\ GrabStep(cmd)
  /\ TimerStep(cmd, sensor_reconf_busy)
  /\ TrigStep(cmd)
  /\ MonitorStep(exposure, fot)
  /\ ReadoutCntrStep
  /\ ReadoutFlagStep
  /\ AbortStep(cmd, fifo_done, dma_idle)
================================================================================
