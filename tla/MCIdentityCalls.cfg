CONSTANTS
  o1 = o1  o2 = o2
  OpenIds = {o1, o2}
  KeyOrder <- Two
  Counter = currentRow
  None = None
  MaxRow = 2
  Callers = {c1}
  Ops = {"store", "storeid", "bind", "resolve"}
  HashId = TRUE
  HashRows <- Narrow2
  Legacies <- OneLegacy
  BatchSize = 2
  OtherBuckets = {TRUE, FALSE}
  MaxCrashes = 1
SPECIFICATION Spec
INVARIANTS
  TypeOK
  NoIdentityLost
  ReverseConsistent
PROPERTIES
  EntriesStay
  OnlyBindsMove
CHECK_DEADLOCK FALSE
