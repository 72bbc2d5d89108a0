\* MCRecorderSnapshots
CONSTANTS
  SnapshotTask = {s1}
  Capacity = 2
  BatchSize = 2
  DepthRows = 2
  RetryAttempts = 2
  MaxSeq = 2
  MaxCopies = 1
  Word = 4
SPECIFICATION Spec
PROPERTIES FailedBatchesAreKept
