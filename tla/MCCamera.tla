-------------------------------- MODULE MCCamera --------------------------------
(***************************************************************************)
(* Model-checking instances of Camera, in the modes of MCXgsController.    *)
(***************************************************************************)
EXTENDS Camera

Exposures == [i \in 0 .. Sets - 1 |-> 3]

Continuous == [TRIGGER_SRC |-> "CONTINUOUS", LEVEL_MODE_EXP |-> FALSE,
               TRIGGER_OVERLAP |-> TRUE, TRIGGER_OVERLAP_BUFFn |-> FALSE,
               EO_FOT_SEL |-> TRUE, SENSOR_REG_UPDATE |-> TRUE]
FixedRegs  == [Continuous EXCEPT !.SENSOR_REG_UPDATE = FALSE]
Software   == [FixedRegs EXCEPT !.TRIGGER_SRC = "SW"]

QueueModes      == {Continuous, FixedRegs, Software}
ContinuousModes == {Continuous}
================================================================================
