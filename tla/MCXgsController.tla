---------------------------- MODULE MCXgsController ----------------------------
(***************************************************************************)
(* Model-checking instances of XgsController.  The exposure times of the   *)
(* parameter sets are one shorter and one longer than what is left of the  *)
(* readout when a trigger may come.  The modes are those the software      *)
(* programs for its four ways to grab, and two variants of them.           *)
(***************************************************************************)
EXTENDS ControllerRefinement

Exposures == [i \in 0 .. Sets - 1 |-> 2 + 4 * i]

Edge      == [TRIGGER_SRC |-> "HW", LEVEL_MODE_EXP |-> FALSE,
              TRIGGER_OVERLAP |-> TRUE, TRIGGER_OVERLAP_BUFFn |-> FALSE,
              EO_FOT_SEL |-> TRUE, SENSOR_REG_UPDATE |-> TRUE]
Level     == [Edge EXCEPT !.LEVEL_MODE_EXP = TRUE]
Continuous== [Edge EXCEPT !.TRIGGER_SRC = "CONTINUOUS"]
NoOverlap == [Continuous EXCEPT !.TRIGGER_OVERLAP = FALSE]
Snapshot  == [Edge EXCEPT !.TRIGGER_SRC = "SW", !.TRIGGER_OVERLAP_BUFFn = TRUE,
                          !.EO_FOT_SEL = FALSE, !.SENSOR_REG_UPDATE = FALSE]

LevelNoOverlap == [Level EXCEPT !.TRIGGER_OVERLAP = FALSE]
SafetyModes     == {Edge, Level, LevelNoOverlap, Continuous, NoOverlap, Snapshot}
EdgeModes       == {Edge}
LevelModes      == {Level}
ContinuousModes == {Continuous}
================================================================================
