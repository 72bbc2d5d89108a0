\* MCRecorder
CONSTANTS
  SnapshotTask = {s1}
  Capacity = 1
  BatchSize = 2
  DepthRows = 2
  RetryAttempts = 1
  MaxSeq = 3
  MaxCopies = 1
  Word = 4
SPECIFICATION Spec
INVARIANTS IInv Accounted CompletedIsComplete QueueLenSettles
PROPERTIES ImplementsLog
