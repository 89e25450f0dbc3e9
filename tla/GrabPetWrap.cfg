SPECIFICATION Spec
CONSTANTS
  Modes <- EdgeModes
  TRIGGER_DELAY = 1
  FOT_LENGTH = 2
  READOUT_LENGTH = 14
  Sets = 2
  ExposureCap = 7
  CntrMod = 32
  Aborts = TRUE
  Temperature = FALSE
  EXPOSURE_SS <- Exposures
INVARIANT PetWithinReadout
