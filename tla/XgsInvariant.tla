------------------------------ MODULE XgsInvariant ------------------------------
(***************************************************************************)
(* The inductive invariant of the acquisition controller: the states the   *)
(* three managers of one grab may be in together, what they know of the    *)
(* sensor, the two readout counters of a frame, the queue of grabs and the *)
(* abort.  Parts that hold only for some programmings say so.              *)
(***************************************************************************)
EXTENDS XgsController

Level == LEVEL_MODE_EXP

\* The registers TypeOK leaves out.
Types ==
  /\ TypeOK
  /\ TRIGGER_SRC \in {"CONTINUOUS", "HW", "SW"}
  /\ {LEVEL_MODE_EXP, TRIGGER_OVERLAP, TRIGGER_OVERLAP_BUFFn, EO_FOT_SEL,
      SENSOR_REG_UPDATE} \subseteq BOOLEAN
  /\ {grab_mngr_trig_p1, ext_trig_p2, ext_trig_p3, trig_delayed_p1,
      xgs_exposure, xgs_exposure_p1, xgs_FOT, xgs_FOT_p1, xgs_EO_FOT,
      readout_cntr_FOT, readout_cntr_EO_FOT, readout_cntr2_armed, readout_cntr2_end,
      read_temp_start, read_temp_start_buff, read_temp_flag, bus_busy} \subseteq BOOLEAN
  /\ grabs \in Seq(0 .. Sets - 1)
  /\ curr_timer_mngr_state = "delaying" => timer_cntr <= TRIGGER_DELAY

-----------------------------------------------------------------------------
(* The grab, timer and trig managers on one grab. *)

\* The grab manager before its trigger; after it, when the level sets the exposure.
BeforeTrigger == curr_grab_mngr_state \in
                   {"idle", "sensor_reprog", "wait_end_rdo", "wait_end_deadwindow", "arm", "trig"}
InLevel       == curr_grab_mngr_state \in {"wait_level", "wait_end_rdout", "wait_so_fot"}

\* The trig manager between two exposures, where it takes the next trigger.
BetweenExposures == curr_trig_mngr_state \in {"idle", "readout_state"}
TimerIn(states)  == curr_timer_mngr_state \in states
TrigIn(states)   == curr_trig_mngr_state \in states

\* Nothing is exposed yet, nor any more.
Waiting ==
  BeforeTrigger =>
    /\ BetweenExposures
    /\ \/ curr_timer_mngr_state = "idle"
       \/ curr_timer_mngr_state = "exposure_end" /\ curr_grab_mngr_state = "idle"
    /\ curr_grab_mngr_state = "trig" => ~grab_mngr_trig_p1

\* A trigger is on its way through the delay, or was cancelled in it.
Delayed ==
  /\ TimerIn({"verify_reconf_busy", "delaying", "trig"}) => BetweenExposures /\ ~abort_seq
  /\ curr_timer_mngr_state = "delaying" => ~Level
  /\ curr_timer_mngr_state = "level" => Level
  /\ curr_timer_mngr_state = "exposure_monitor" =>
       IF BetweenExposures THEN abort_seq
       ELSE ~abort_seq /\ (TrigIn({"trigger", "wait_exp_start"})
                             \/ (~Level /\ TrigIn({"wait_pet"})))
  /\ abort_seq => abort_now

\* The grab is exposed, and its FOT follows.
Exposing ==
  /\ curr_grab_mngr_state = "wait_eo_fot" =>
       /\ Level => TrigIn({"FOT_STATE", "EO_FOT_STATE"})
       /\ curr_timer_mngr_state = "exposure" =>
            TrigIn({"wait_exp_start", "single_slope", "monitoring", "SO_FOT_STATE", "FOT_STATE"})
       /\ curr_timer_mngr_state = "exposure_end" => TrigIn({"FOT_STATE"})
       /\ curr_timer_mngr_state = "idle" => TrigIn({"FOT_STATE", "EO_FOT_STATE"})
       /\ curr_timer_mngr_state # "level"
       /\ curr_trig_mngr_state = "EO_FOT_STATE" => curr_timer_mngr_state = "idle"
       /\ curr_trig_mngr_state # "exp_level"
       /\ curr_timer_mngr_state # "exposure_monitor" => ~abort_seq
  /\ InLevel =>
       /\ Level
       /\ curr_timer_mngr_state = "level" => TrigIn({"exp_level"}) /\ ~abort_seq
       /\ curr_timer_mngr_state = "exposure" =>
            /\ curr_grab_mngr_state = "wait_so_fot" /\ ~abort_seq
            /\ TrigIn({"exp_level", "monitoring", "SO_FOT_STATE"})
            /\ curr_trig_mngr_state = "exp_level" => trig_delayed_p1
       /\ TimerIn({"exposure_end", "idle"}) => BetweenExposures /\ abort_now
       /\ curr_timer_mngr_state = "idle" /\ grab_mngr_trig => grab_mngr_trig_p1

Managers == Waiting /\ Delayed /\ Exposing

\* The abort FSM passes abort_states when the three managers are idle.
AbortOrder ==
  /\ abort_now /\ curr_grab_abort_state # "abort_states" => ManagersIdle /\ ~readout
  /\ curr_grab_abort_state \in {"abort_ser_fifo", "abort_dma", "abort_irq"} => ~grab_active
  /\ S_currentState \in {"S_abort_fifo_cmd", "S_abort_fifo_done"} =>
       curr_grab_abort_state = "abort_ser_fifo" /\ ~reconf_start_buff
  /\ S_currentState = "S_abort_fifo_done" => fifo_empty /\ ~reconf_start
  /\ curr_grab_abort_state \in {"abort_dma", "abort_irq"} =>
       /\ fifo_empty /\ ~reconf_start /\ ~reconf_start_buff
       /\ S_currentState \in {"S_idle", "S_captureT", "S_scanout"}

-----------------------------------------------------------------------------
(* The sensor. *)

\* The exposure the managers follow is the one the sensor is in.
ExposureSeen ==
  /\ xgs_exposure => TrigIn({"wait_exp_start", "single_slope", "exp_level", "monitoring",
                             "SO_FOT_STATE", "FOT_STATE"})
  /\ TrigIn({"single_slope", "exp_level", "monitoring"}) => xgs_exposure
  /\ curr_timer_mngr_state = "level" => xgs_exposure
  /\ curr_timer_mngr_state = "exposure" =>
       xgs_exposure_p1 /\ (curr_trig_mngr_state = "wait_exp_start" => xgs_exposure)
  /\ curr_timer_mngr_state = "exposure_monitor" => ~(xgs_exposure /\ xgs_exposure_p1)
  /\ TimerIn({"exposure_end", "idle"}) => ~xgs_exposure

\* So is the FOT, and its end comes after the end of the exposure.
FotSeen ==
  /\ xgs_FOT /\ ~xgs_FOT_p1 => curr_trig_mngr_state = "monitoring"
  /\ xgs_exposure /\ TrigIn({"wait_exp_start", "single_slope", "exp_level"}) => ~xgs_FOT
  /\ curr_trig_mngr_state = "SO_FOT_STATE" => xgs_FOT
  /\ curr_trig_mngr_state = "FOT_STATE" /\ ~xgs_FOT => ~xgs_exposure /\ ~xgs_exposure_p1
  /\ xgs_EO_FOT => curr_trig_mngr_state = "FOT_STATE" /\ ~xgs_exposure /\ ~xgs_exposure_p1
  /\ readout_cntr_EO_FOT => curr_trig_mngr_state = "FOT_STATE" /\ ~xgs_exposure
  /\ readout_cntr_FOT => TrigIn({"SO_FOT_STATE", "FOT_STATE"})
  /\ IF EO_FOT_SEL THEN ~(readout_cntr_FOT /\ readout_cntr_EO_FOT)
                        /\ (xgs_EO_FOT => ~readout_cntr_FOT /\ ~readout_cntr_EO_FOT)
     ELSE /\ ~readout_cntr_FOT /\ ~readout_cntr_EO_FOT
          /\ xgs_FOT => TrigIn({"monitoring", "SO_FOT_STATE", "FOT_STATE"})
          /\ xgs_FOT_p1 /\ ~xgs_FOT => curr_trig_mngr_state = "FOT_STATE"
          /\ xgs_EO_FOT => ~xgs_FOT /\ ~xgs_FOT_p1

-----------------------------------------------------------------------------
(* The readout. *)

\* GRAB_READOUT follows the counter of its frame from the FOT on.
ReadoutFlag ==
  /\ readout <=> readout_cntr2_armed \/ readout_cntr2_end \/ FOT \/ EO_FOT
  /\ ~(readout_cntr2_armed /\ readout_cntr2_end)
  /\ TrigIn({"monitoring", "SO_FOT_STATE"}) => ~readout
  /\ FOT \/ EO_FOT => ~readout_cntr2_armed /\ ~readout_cntr2_end
  /\ curr_trig_mngr_state = "idle" => ~readout_cntr2_armed
  /\ curr_grab_mngr_state = "wait_so_fot" => ~readout

\* The two counters of a readout agree while the trig manager follows it.
CountersAgree ==
  /\ EO_FOT_SEL /\ (xgs_EO_FOT \/ EO_FOT) => readout_cntr = READOUT_LENGTH
  /\ readout_cnt /\ readout_cntr2_armed => readout_cntr2 = readout_cntr

\* The exposure ends after the readout in progress: what is left of the readout is
\* shorter than what is left of the exposure.
EndsAfterReadout ==
  /\ ~TimerIn({"exposure", "exposure_end", "level"}) => exposure_cntr = 0
  /\ curr_trig_mngr_state = "single_slope" => curr_timer_mngr_state = "exposure"
  /\ ~Level /\ TrigIn({"trigger", "wait_exp_start", "single_slope"}) =>
       /\ readout_cntr2_armed => readout_cntr2 + exposure_cntr + 2 <= curr_exposure_ss
       /\ readout_cntr2_end => exposure_cntr + 1 <= curr_exposure_ss

\* With the overlap disabled and the sensor reprogrammed for each grab, every grab
\* waits for the end of the readout before it.
ReadoutAwaited ==
  ~TRIGGER_OVERLAP /\ SENSOR_REG_UPDATE
    /\ curr_grab_mngr_state \notin {"idle", "sensor_reprog", "wait_end_rdo"}
    /\ ~FOT /\ ~EO_FOT => ~readout

-----------------------------------------------------------------------------
(* The queue of grabs and their parameters. *)

Queued == (IF grab_active THEN 1 ELSE 0) + (IF grab_pending THEN 1 ELSE 0)

GrabsQueued ==
  /\ grab_pending => grab_active /\ ~sw_ready
  /\ curr_grab_mngr_state # "idle" => grab_active
  /\ Len(grabs) = Queued
  /\ grab_active => curr_exposure = grabs[1] /\ curr_BUFFER_ID = grabs[1]
  /\ grab_pending => grabs[2] = reg

\* A grab that was accepted has the grab manager on it until an abort takes it away.
GrabManaged == curr_grab_mngr_state = "idle" /\ grab_active => abort_now

-----------------------------------------------------------------------------
(* The serial link, when software does not read the temperature. *)

LinkDone == S_currentState = "S_idle" /\ ~reconf_start /\ ~reconf_start_buff

LinkFollows ==
  ~Temperature =>
    /\ ~read_temp_start /\ ~read_temp_start_buff /\ S_currentState # "S_captureT"
    /\ ~reconf_start_buff
    /\ curr_grab_mngr_state = "sensor_reprog" => ~abort_now
    /\ ~abort_now /\ curr_grab_mngr_state \in {"idle", "sensor_reprog"} => LinkDone
    /\ curr_grab_abort_state \in {"abort_dma", "abort_irq"} => LinkDone
    /\ ~BeforeTrigger =>
         /\ ~reconf_start
         /\ curr_timer_mngr_state # "verify_reconf_busy" => LinkDone

-----------------------------------------------------------------------------
Control == Types /\ Managers /\ AbortOrder /\ ExposureSeen /\ FotSeen

IInv == /\ Control
        /\ ReadoutFlag /\ CountersAgree /\ EndsAfterReadout /\ ReadoutAwaited
        /\ GrabsQueued /\ GrabManaged /\ LinkFollows
================================================================================
