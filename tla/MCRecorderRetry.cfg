\* MCRecorderRetry
CONSTANTS
  SnapshotTask = {s1}
  Capacity = 1
  BatchSize = 2
  DepthRows = 2
  RetryAttempts = 2
  MaxSeq = 3
  MaxCopies = 1
  Word = 4
SPECIFICATION Spec
INVARIANTS RetryIsIdempotent
