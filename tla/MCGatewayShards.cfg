CONSTANTS
  MaxConns = 3
  MaxSeq = 3
  MaxBreaks = 2
  Breaks = {"dial", "network", "reconnect", "invalid", "timeout", "close", "banned", "write"}
  Recovers = FALSE
  None = None
SPECIFICATION Spec
INVARIANTS
  ResumeSkipsNothing
  StopsWhenBanned
CHECK_DEADLOCK FALSE
