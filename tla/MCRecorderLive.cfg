\* MCRecorderLive
CONSTANTS
  SnapshotTask = {s1}
  Capacity = 1
  BatchSize = 2
  DepthRows = 2
  RetryAttempts = 2
  MaxSeq = 2
  MaxCopies = 0
  Word = 4
SPECIFICATION FairSpec
PROPERTIES ShutdownReturns AcceptedIsStored DegradedIsTold
