SPECIFICATION FairSpec
CONSTANTS
  Modes <- LevelModes
  TRIGGER_DELAY = 1
  FOT_LENGTH = 2
  READOUT_LENGTH = 6
  Sets = 1
  ExposureCap = 3
  CntrMod = 32
  Aborts = TRUE
  Temperature = FALSE
  EXPOSURE_SS <- Exposures
PROPERTY AbortCompletes
