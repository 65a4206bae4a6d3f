CONSTANTS
  m1 = m1
  m2 = m2
  Messages = {m1, m2}
  Callers = {c1, c2}
  Cleaners = {echo, msgid}
  Attempts = 2
  Row <- MCRow
  MaxRow = 4
  Keep = 2
  MaxTime = 6
  MaxRestarts = 1
  None = None
SPECIFICATION Spec
INVARIANTS
  TypeOK
  NeverMisdirected
  ResolvableUnlessTorn
  OnlyDoublesAreFatal
  ResolvesWhileFresh
CHECK_DEADLOCK FALSE
