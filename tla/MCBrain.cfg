SPECIFICATION Spec

CONSTANTS
  Syscalls = {s1, s2, s3}
  Tests = {t1, t2}
  Strays = {x1}
  InclH = InclH
  OtherH = OtherH
  None = None
  Capacity = 2
  Detached = {t1}
  MaxWrites = 1

SYMMETRY Symmetry
CHECK_DEADLOCK FALSE

INVARIANTS TypeOK CountedOnce RunsOwnBinary
