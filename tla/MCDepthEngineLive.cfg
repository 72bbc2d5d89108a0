\* MCDepthEngineLive
CONSTANTS
  l1 = l1
  l2 = l2
  Levels <- MCLevels
  BookAt <- MCBookAt
  Touched <- MCTouched
  MaxId = 2
  Task = {t1}
  MaxAttempts = 2
  MaxConns = 2
  Faults = {"rest", "badSnapshot", "badUpdate", "close", "liveLoss"}
SPECIFICATION FairSpec
PROPERTIES SyncSettles ShadowCatchesUp
