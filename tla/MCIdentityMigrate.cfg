CONSTANTS
  o1 = o1  o2 = o2
  OpenIds = {o1, o2}
  KeyOrder <- Two
  Counter = currentRow
  None = None
  MaxRow = 4
  Callers = {c1, c2}
  Ops = {"store", "resolve"}
  HashId = TRUE
  HashRows <- Distinct2
  Legacies <- MigrateLegacy
  BatchSize = 1
  OtherBuckets = {TRUE}
  MaxCrashes = 1
SPECIFICATION FairSpec
INVARIANTS
  OneVirtualId
  RoundTrip
PROPERTIES
  MigrationCompletes
CHECK_DEADLOCK FALSE
