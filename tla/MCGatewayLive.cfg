CONSTANTS
  MaxConns = 5
  MaxSeq = 2
  MaxBreaks = 2
  Breaks = {"dial", "network", "reconnect", "invalid", "close"}
  Recovers = TRUE
  None = None
SPECIFICATION FairSpec
INVARIANTS
  TypeOK
  OneConnection
PROPERTIES
  ComesBack
  EventsAreHandled
CHECK_DEADLOCK FALSE
