CONSTANTS
  MaxConns = 2
  Messages = {m1}
  Meta = Meta
  Capacity = 2
  MaxRetries = 1
  MaxBeats = 0
  DisableErrorChan = FALSE
  QuickDrops = {TRUE}
SPECIFICATION Spec
INVARIANTS
  NeverStranded
CHECK_DEADLOCK FALSE
