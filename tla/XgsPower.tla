-------------------------------- MODULE XgsPower --------------------------------
(***************************************************************************)
(* xgs_power.vhd: the sequencer that starts the sensor (clock, then reset  *)
(* released, 5 ms after each) and stops it in the reverse order.  A clock  *)
(* on which nothing changes is no step; the 5 ms delay ends in one step.   *)
(* The command bits are self-clearing: a state that does not look at one   *)
(* loses it.  done_nok is never entered; the simulation delays are left    *)
(* out.                                                                    *)
(***************************************************************************)
EXTENDS Integers

VARIABLES curr_power_state, goto_power,
          xgs_osc_en_int, xgs_reset_n_int,
          xgs_power_good                      \* input

powerVars == <<curr_power_state, goto_power, xgs_osc_en_int, xgs_reset_n_int, xgs_power_good>>

PowerInit ==
  /\ curr_power_state = "idle" /\ goto_power = "none"
  /\ xgs_osc_en_int = FALSE /\ xgs_reset_n_int = FALSE
  /\ xgs_power_good \in BOOLEAN

SENSOR_POWERDOWN == curr_power_state = "idle"
SENSOR_POWERUP_DONE == curr_power_state = "done_ok"      \* and SENSOR_POWERUP_STAT

\* The registered outputs follow the next state.
Enter(next, osc_en, reset_n, goto) ==
  /\ curr_power_state' = next
  /\ xgs_osc_en_int' = osc_en /\ xgs_reset_n_int' = reset_n
  /\ goto_power' = goto

Hold(next) == Enter(next, xgs_osc_en_int, xgs_reset_n_int, goto_power)

\* The clock on which software writes SENSOR_CTRL.
PowerCommand(up, down) ==
  \/ curr_power_state = "idle" /\ up /\ xgs_power_good /\ Enter("eclk", TRUE, FALSE, "first")
  \/ curr_power_state = "done_ok" /\ down /\ Enter("dreset", TRUE, FALSE, "second")
  \/ /\ ~(curr_power_state = "idle" /\ up /\ xgs_power_good)
     /\ ~(curr_power_state = "done_ok" /\ down)
     /\ UNCHANGED <<curr_power_state, goto_power, xgs_osc_en_int, xgs_reset_n_int>>

\* goto_power "100" is the first half of the sequence up and the second one down.
PowerStep ==
  \/ curr_power_state \in {"eclk", "ereset"} /\ Hold("edelai")
  \/ curr_power_state = "edelai" /\ goto_power = "first" /\ Enter("ereset", TRUE, TRUE, "second")
  \/ curr_power_state = "edelai" /\ goto_power = "second" /\ Enter("done_ok", TRUE, TRUE, "none")
  \/ curr_power_state \in {"dreset", "dclk"} /\ Hold("ddelai")
  \/ curr_power_state = "ddelai" /\ goto_power = "second" /\ Enter("dclk", FALSE, FALSE, "first")
  \/ curr_power_state = "ddelai" /\ goto_power = "first" /\ Enter("idle", FALSE, FALSE, "none")

PowerSettled == curr_power_state \in {"idle", "done_ok"}
================================================================================
