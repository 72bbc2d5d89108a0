CONSTANTS
  Prices = {1, 2, 3}
  Intervals = {2, 3}
  CellMs = 2
  RetentionMs = 4
  SnapshotMs = 3
  ImbalanceDepth = 1
  LargeQuantity = 2
  ClusterMs = 1
  ClusterRange = 1
  SweepMs = 2
  SweepLevels = 2
  SweepVolume = 3
  AbsorptionMs = 2
  AbsorptionVolume = 3
  AbsorptionTrades = 2
  AbsorptionExcursion = 1
  TickSize = 1
  ReplenishmentMs = 1
  Threshold = 50
  FrameRange = 1
  DefaultMid = 2
  Scenarios <- MCScenarios
SPECIFICATION Spec
INVARIANTS TypeOK FlowMatchesTape IntervalsAddUp LiquidityBalances ReplenishmentEvidence CellsMatchTape
  RestingMatchesChanges ClustersSplitTape AbsorptionEvidence ClientMatchesFrame
PROPERTIES SweepsAreReal
CHECK_DEADLOCK FALSE
