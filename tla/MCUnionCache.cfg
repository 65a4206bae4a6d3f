CONSTANTS
  Ids = {i1, i2, i3}
  Unions = {u1, u2, u3}
  Threads = {t1, t2}
  Nothing = Nothing
  Nobody = Nobody
SPECIFICATION Spec
INVARIANTS
  TypeOK
  MutualInverse
  OneToOneForReaders
PROPERTIES
  AtomicBinding
