CONSTANTS
  MaxConns = 2
  Messages = {m1}
  Meta = Meta
  Capacity = 1
  MaxRetries = 1
  MaxBeats = 1
  DisableErrorChan = FALSE
  QuickDrops = {TRUE, FALSE}
SPECIFICATION FairSpec
INVARIANTS
  TypeOK
  OneReconnect
PROPERTIES
  SendersReturn
  Reconnects
  OnlyTheHeartbeatForgets
CHECK_DEADLOCK FALSE
