SPECIFICATION FairSession
CONSTANTS
  AbortThreads = {"a1", "a2"}
  AbortSleep <- Sleeps
  DestroySleep = 15
  PollLimit = 10
  FrameTicks = 1
INVARIANTS CommandsOwn SnapshotTaken QuitIdle FrameLeftAlone MutexOutlivesThreads PowerUpFound
PROPERTIES LoopGoesOn QuitEnds
