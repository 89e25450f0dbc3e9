SPECIFICATION CameraSpec
CONSTANTS
  Modes <- QueueModes
  TRIGGER_DELAY = 0
  FOT_LENGTH = 2
  READOUT_LENGTH = 6
  Sets = 1
  ExposureCap = 4
  CntrMod = 16
  Aborts = TRUE
  Temperature = FALSE
  EXPOSURE_SS <- Exposures
  Contexts = 3
  FirstLine = 1
INVARIANT FrameContext
