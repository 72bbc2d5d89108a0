CONSTANTS
  Window = 1
  TradeIds = {1, 2}
  SinkCapacity = 2
  MaxPayloads = 3
  MaxWaiting = 1
  MaxConnections = 2
  MaxDepthEvents = 1
  MaxRows = 1
SPECIFICATION FairSpec
INVARIANTS TypeOK TapeIsRecords PayloadsAccounted RowsAccounted ClosedIsComplete
PROPERTIES ImplementsTape TradesAreAnalysed ShutdownEnds
CHECK_DEADLOCK FALSE
