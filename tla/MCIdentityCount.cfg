CONSTANTS
  o1 = o1  o2 = o2
  OpenIds = {o1, o2}
  KeyOrder <- Two
  Counter = currentRow
  None = None
  MaxRow = 3
  Callers = {c1}
  Ops = {"store", "unbind"}
  HashId = FALSE
  HashRows <- Colliding2
  Legacies <- CountLegacy
  BatchSize = 2
  OtherBuckets = {TRUE, FALSE}
  MaxCrashes = 1
SPECIFICATION Spec
INVARIANTS
  DistinctIds
CHECK_DEADLOCK FALSE
