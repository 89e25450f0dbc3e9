SPECIFICATION Spec
CONSTANTS
  Lanes = {l0, l1}
  Rois <- Regions
  DataClocks = 8
  MaxLines = 5
  MaxLate = 1
  LateLines = 0
  FifoWords = 9
INVARIANTS StreamInOrder FrameWhole PaceCountsRows LineHeld
PROPERTY FrameStreamed
