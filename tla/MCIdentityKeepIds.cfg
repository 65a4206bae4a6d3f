CONSTANTS
  o1 = o1  o2 = o2
  OpenIds = {o1, o2}
  KeyOrder <- Two
  MaxRow = 3
  Counter = currentRow
  None = None
  Callers = {c1}
  Ops = {"store"}
  HashId = FALSE
  HashRows <- Colliding2
  Legacies <- CountLegacy1
  BatchSize = 2
  OtherBuckets = {TRUE}
  MaxCrashes = 0
SPECIFICATION Spec
INVARIANTS
  OneVirtualId
CHECK_DEADLOCK FALSE
