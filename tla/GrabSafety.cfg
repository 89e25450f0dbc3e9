SPECIFICATION Spec
CONSTANTS
  Modes <- SafetyModes
  TRIGGER_DELAY = 1
  FOT_LENGTH = 2
  READOUT_LENGTH = 12
  Sets = 2
  ExposureCap = 7
  CntrMod = 32
  Aborts = TRUE
  Temperature = FALSE
  EXPOSURE_SS <- Exposures
INVARIANTS GrabStatusHolds FrameParameters TriggerTaken ReprogrammedBeforeTrigger NoOverlapWhenDisabled
PROPERTIES NoTrigFallInReadout ImplementsGrabPath
