CONSTANTS
  n1 = n1  n2 = n2  n3 = n3  at = at
  Messages = {n1, n2, n3, at}
  Kinds <- OneKind
  Values = {TRUE, FALSE}
  Window = 2
  None = None
  MaxEvents = 4
  MaxCrashes = 1
  MaxDeletes = 1
SPECIFICATION Spec
INVARIANTS
  TypeOK
  WindowIsRecent
  BeliefMatchesDisk
  WindowAfterMention
  DeletedIsGone
PROPERTIES
  RevertsOnlyTorn
CHECK_DEADLOCK FALSE
