\* MCDepthEngineStale
CONSTANTS
  l1 = l1
  l2 = l2
  Levels <- MCLevels
  BookAt <- MCBookAt
  Touched <- MCTouched
  MaxId = 2
  Task = {t1, t2}
  MaxAttempts = 1
  MaxConns = 2
  Faults = {"staleTask"}
SPECIFICATION Spec
INVARIANTS BookExact
