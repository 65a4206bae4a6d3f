CONSTANTS
  c1 = c1
  c2 = c2
  c3 = c3
  o1 = o1
  o2 = o2
  Calls = {c1, c2, c3}
  GroupOf <- MCGroupOf
  Items <- MCItems
  WithUser = {c2, c3}
  WithEvent = {c2, c3}
  Quotes <- MCQuotes
  Old <- MCOld
  RetryCount = 2
  HttpRetries = 1
  Ids = {i1}
  None = None
  AtoPCount = 2
  MaxFailures = 1
  MaxCleanups = 1
SPECIFICATION MCSpec
INVARIANTS
  TypeOK
  SeqReuseExplained
  AnswersNameSent
PROPERTIES
  OnlyOverlapsLose
  CallsReturn
CHECK_DEADLOCK FALSE
