SPECIFICATION Spec
CONSTANTS
  Sectors = 3
  SectorPages = 2
  Values = {1, 2, 3, 4}
  Files <- Firmware
  Wbstar <- Stars
  GoldenImage <- Golden
  MaxRetry = 3
INVARIANTS GoldenKept SuccessMeansStored UpdateReachable RetryRecovers
PROPERTY FlashEnds
