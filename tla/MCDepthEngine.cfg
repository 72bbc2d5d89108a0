\* MCDepthEngine
CONSTANTS
  l1 = l1
  l2 = l2
  Levels <- MCLevels
  BookAt <- MCBookAt
  Touched <- MCTouched
  MaxId = 3
  Task = {t1}
  MaxAttempts = 2
  MaxConns = 2
  Faults = {"rest", "badSnapshot", "close", "liveLoss"}
SPECIFICATION Spec
INVARIANTS IInv TypeOK BookExact SomeoneSynchronizes ShadowExact
PROPERTIES ImplementsFeed
