------------------------------ MODULE XgsController ------------------------------
(***************************************************************************)
(* The acquisition controller closed by its surroundings: the software of  *)
(* XGS_Ctrl.cpp that queues grabs and aborts them, the image sensor, the   *)
(* trigger input and the DMA.  Software writes at most one register on a   *)
(* clock and never on two clocks in a row, as the register bus is slower.  *)
(***************************************************************************)
EXTENDS XgsCtrl

CONSTANTS Aborts,            \* software aborts grabs
          Temperature        \* software reads the sensor temperature

VARIABLES reg,               \* parameter set in the register file
          sw_ready,          \* it is written and not yet used by a GRAB_CMD
          bus_busy,          \* software wrote a register on the last clock
          grabs              \* history: the grabs accepted and not yet read out

ASSUME ControllerAssumption == Aborts \in BOOLEAN /\ Temperature \in BOOLEAN

swVars == <<reg, sw_ready, bus_busy, grabs>>
vars   == <<modeVars, ctrlVars, spiVars, swVars>>

Init == /\ ModeInit
        /\ CtrlInit
        /\ SpiInit
        /\ reg = 0 /\ sw_ready = FALSE /\ bus_busy = FALSE
        /\ grabs = <<>>

(* Software: SetGrabCMD waits for GRAB_PENDING = 0, writes the parameters    *)
(* and then GRAB_CMD; a snapshot waits for TRIGGER_RDY; GrabAbort writes     *)
(* ABORT_GRAB and returns when ABORT_DONE reads 1.                           *)

Commands == {"none", "PARAMS", "GRAB_CMD", "GRAB_SS", "ABORT_GRAB", "REFRESH_TEMP"}

MayWrite(cmd) ==
  /\ cmd # "none" => ~bus_busy /\ abort_done
  /\ cmd = "PARAMS" => ~sw_ready /\ ~grab_pending
  /\ cmd = "GRAB_CMD" => sw_ready
  /\ cmd = "GRAB_SS" => TRIGGER_SRC = "SW" /\ grab_mngr_trig_rdy
  /\ cmd = "ABORT_GRAB" => Aborts
  /\ cmd = "REFRESH_TEMP" => Temperature

SoftwareStep(cmd) ==
  /\ reg' = IF cmd = "PARAMS" THEN (reg + 1) % Sets ELSE reg
  /\ sw_ready' = CASE cmd = "PARAMS"   -> TRUE
                   [] cmd = "GRAB_CMD" -> FALSE
                   [] OTHER            -> sw_ready
  /\ bus_busy' = (cmd # "none")

\* A grab leaves with its EO_FOT; an abort that is done forgets the queued ones.
GrabsStep(cmd) ==
  LET left == IF EO_FOT /\ grabs # <<>> THEN Tail(grabs) ELSE grabs
  IN grabs' = CASE abort_grab_cmd                         -> <<>>
                [] ~abort_grab_cmd /\ cmd = "GRAB_CMD"    -> Append(left, reg)
                [] OTHER                                  -> left

(* The sensor: the exposure starts after the trigger rises, the FOT after it *)
(* falls, and the integration ends within the FOT (real integration); the    *)
(* FOT_LENGTH that software programs is longer than the integration in FOT.  *)

SensorStep(exposure, fot) ==
  /\ exposure /\ ~xgs_exposure => curr_trig0 /\ ~xgs_FOT
  /\ ~exposure /\ xgs_exposure => xgs_FOT
  /\ fot /\ ~xgs_FOT => xgs_exposure /\ ~curr_trig0
  /\ ~fot /\ xgs_FOT => ~xgs_exposure
  /\ readout_cntr_FOT /\ readout_cntr = 0 => ~exposure

Clock(cmd, ext_trig, exposure, fot, done, dma_idle) ==
  /\ MayWrite(cmd)
  /\ SensorStep(exposure, fot)
  /\ CtrlClock(cmd, reg, ext_trig, busy, abort_fifo_cmd_done, dma_idle, exposure, fot)
  /\ SpiClock(cmd = "GRAB_CMD", grab_mngr_sensor_reconf, cmd = "REFRESH_TEMP",
              abort_now, abort_fifo_cmd, done)
  /\ SoftwareStep(cmd)
  /\ GrabsStep(cmd)
  /\ UNCHANGED modeVars

\* Inputs nobody reads in this state are fixed, so that a step is counted once.
Next == \E cmd \in Commands, ext_trig, exposure, fot, done, dma_idle \in BOOLEAN :
          /\ ext_trig => TRIGGER_SRC = "HW"
          /\ done => S_currentState = "S_scanout"
          /\ dma_idle => curr_grab_abort_state = "abort_dma"
          /\ Clock(cmd, ext_trig, exposure, fot, done, dma_idle)

Spec == Init /\ [][Next]_vars

(* Fairness: the clock runs while no input changes; the sensor answers its   *)
(* trigger and finishes the FOT; the serial link shifts its word; the DMA    *)
(* drains.  A trigger input or a command of software may never come.         *)

Tick(exposure, fot, done, dma_idle) ==
  Clock("none", ext_trig_p2, exposure, fot, done, dma_idle)

Quiet       == Tick(xgs_exposure, xgs_FOT, FALSE, FALSE)
SensorMoves == \E exposure, fot \in BOOLEAN :
                 /\ <<exposure, fot>> # <<xgs_exposure, xgs_FOT>>
                 /\ Tick(exposure, fot, FALSE, FALSE)
LinkMoves   == /\ S_currentState = "S_scanout"
               /\ \E exposure, fot \in BOOLEAN : Tick(exposure, fot, TRUE, FALSE)
DmaDrains   == /\ curr_grab_abort_state = "abort_dma"
               /\ \E exposure, fot \in BOOLEAN : Tick(exposure, fot, FALSE, TRUE)

Fairness == /\ WF_vars(Quiet)
            /\ WF_vars(SensorMoves)
            /\ WF_vars(LinkMoves)
            /\ WF_vars(DmaDrains)

FairSpec == Spec /\ Fairness

--------------------------------------------------------------------------------
(* Properties. *)

TypeOK ==
  /\ curr_grab_mngr_state \in
       {"idle", "sensor_reprog", "wait_end_rdo", "wait_end_deadwindow", "arm", "trig",
        "wait_level", "wait_end_rdout", "wait_so_fot", "wait_eo_fot"}
  /\ curr_timer_mngr_state \in
       {"idle", "verify_reconf_busy", "delaying", "trig", "exposure_monitor",
        "exposure", "exposure_end", "level"}
  /\ curr_trig_mngr_state \in
       {"idle", "trigger", "wait_exp_start", "single_slope", "exp_level", "monitoring",
        "SO_FOT_STATE", "FOT_STATE", "EO_FOT_STATE", "readout_state", "wait_pet"}
  /\ curr_grab_abort_state \in
       {"idle", "abort_states", "abort_cmd_flags", "abort_ser_fifo", "abort_dma", "abort_irq"}
  /\ S_currentState \in
       {"S_idle", "S_wait_reconf", "S_readfifo1", "S_captureT", "S_scanout",
        "S_reconf_done", "S_abort_fifo_cmd", "S_abort_fifo_done"}
  /\ curr_trigger_src \in {"NONE", TRIGGER_SRC}
  /\ timer_cntr \in 0 .. TRIGGER_DELAY + 1
  /\ exposure_cntr \in 0 .. ExposureCap
  /\ readout_cntr \in 0 .. CntrMod - 1
  /\ readout_cntr2 \in 0 .. READOUT_LENGTH
  /\ {curr_exposure, curr_BUFFER_ID, curr_db_BUFFER_ID, reg} \subseteq 0 .. Sets - 1
  /\ reconf_WF_pipe \in 0 .. 3
  /\ {grab_active, grab_pending, hw_trig, readout, abort_seq, abort_delai, abort_pet,
      reconf_start, reconf_start_buff, sw_ready} \subseteq BOOLEAN

\* The two flags are the number of grabs software queued: software starts the next
\* grab on GRAB_PENDING = 0, so a flag that is off loses or repeats a frame.
FlagsCountGrabs == Len(grabs) = (IF grab_active THEN 1 ELSE 0) + (IF grab_pending THEN 1 ELSE 0)

\* A frame is exposed and stored with the parameters of the grab that asked for it,
\* whatever software writes in the register file meanwhile ("double buffer current
\* GRAB registers" and "DMA registers").
FrameParameters ==
  /\ curr_trig0 => grabs # <<>> /\ curr_exposure = Head(grabs)
  /\ EO_FOT => grabs # <<>> /\ curr_BUFFER_ID = Head(grabs)

\* A trigger handed from one FSM to the next is taken: the timer manager is idle
\* when the grab manager triggers it, the trig manager is ready for trig_delayed.
TriggerTaken ==
  /\ curr_grab_mngr_state = "trig" => curr_timer_mngr_state = "idle"
  /\ curr_timer_mngr_state = "trig" => curr_trig_mngr_state \in {"idle", "readout_state"}

\* The trigger of the sensor is not removed during the readout of the frame before
\* ("deassert trig during readout looks to be bugged in the sensor").
NoTrigFallInReadout == [][curr_trig0 /\ ~curr_trig0' => ~readout]_vars

\* GRAB_READOUT covers the FOT and the readout of every frame, though two frames may
\* overlap: the end of a readout never clears the flag of the frame after it.
ReadoutFlagged ==
  FOT \/ EO_FOT \/ readout_cntr2_armed => readout

\* What GrabAbort checks after ABORT_DONE: everything is idle and the flags, the
\* trigger and the serial FIFO are cleared; no reprogramming is left to wait for
\* commands that were thrown away.
AbortLeavesIdle ==
  curr_grab_abort_state = "abort_irq" =>
    /\ ManagersIdle /\ ~grab_active /\ ~grab_pending
    /\ ~readout /\ ~timer_exposure /\ fifo_empty
    /\ ~reconf_start /\ ~reconf_start_buff /\ S_currentState # "S_wait_reconf"

\* GRAB_STAT tells software the truth while grabs overlap and aborts come at any time:
\* the registers are in range, the flags count the grabs, GRAB_READOUT covers every
\* frame, and ABORT_DONE finds nothing left.
GrabStatusHolds == TypeOK /\ FlagsCountGrabs /\ ReadoutFlagged /\ AbortLeavesIdle

\* The registers of a grab are in the sensor before it is triggered: only the
\* commands of the grabs after it are left in the FIFO ("verify sensor
\* programmation end before delai").
ReprogrammedBeforeTrigger ==
  SENSOR_REG_UPDATE /\ curr_trig_mngr_state = "trigger" =>
    /\ ~reconf_start /\ ~reconf_start_buff /\ ~busy

\* A trigger received while a frame is read out waits for the dead window of that
\* readout and no longer ("Buffer the trigger received during the dead window in
\* PET mode and execute").
PetWithinReadout == curr_trig_mngr_state = "wait_pet" => readout_cntr <= READOUT_LENGTH

\* With the overlap disabled no exposure runs while a frame is read out.  Only the path
\* through sensor_reprog and wait_end_rdo makes sure of it: modes without the overlap
\* must set SENSOR_REG_UPDATE (xgs_ctrl.vhd:1144-1150 arms a grab directly otherwise).
NoOverlapWhenDisabled == ~TRIGGER_OVERLAP => ~(curr_trig0 /\ readout)

\* An abort ends: the FSMs get idle, the FIFO is emptied, ABORT_DONE is set again.
AbortCompletes == abort_now ~> abort_done

\* A grab ends: its frame leaves the FOT, or an abort takes it away.
GrabEnds == grab_active ~> (EO_FOT \/ abort_now)
================================================================================
