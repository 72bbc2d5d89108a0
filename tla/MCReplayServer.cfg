CONSTANTS
  l1 = l1
  l2 = l2
  c1 = c1
  c2 = c2
  Levels <- MCLevels
  MaxId = 4
  BookAt <- MCBookAt
  Touched <- MCTouched
  Window = 1
  TradeIds = {1, 2}
  Client <- MCClient
  MaxCommands = 2
  MaxLoads = 2
  MaxEvents = 7
  MaxServed = 2
  ServedEvents <- MCServedEvents
SPECIFICATION FairSpec
INVARIANTS TypeOK ReplayIsExact PauseIsObeyed
PROPERTIES CommandsServed
CHECK_DEADLOCK FALSE
