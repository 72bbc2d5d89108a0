\* MCDepthEngineLoss
CONSTANTS
  l1 = l1
  l2 = l2
  Levels <- MCLevels
  BookAt <- MCBookAt
  Touched <- MCTouched
  MaxId = 3
  Task = {t1}
  MaxAttempts = 1
  MaxConns = 1
  Faults = {"loss"}
SPECIFICATION Spec
INVARIANTS BookExact
