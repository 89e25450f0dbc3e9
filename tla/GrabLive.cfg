SPECIFICATION FairSpec
CONSTANTS
  Modes <- ContinuousModes
  TRIGGER_DELAY = 1
  FOT_LENGTH = 2
  READOUT_LENGTH = 12
  Sets = 1
  ExposureCap = 3
  CntrMod = 16
  Aborts = TRUE
  Temperature = TRUE
  EXPOSURE_SS <- Exposures
PROPERTIES AbortCompletes GrabEnds
