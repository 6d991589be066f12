SPECIFICATION Spec
CONSTANTS
  Syscalls = {s1, s2}
  Tests = {t1, t2}
  Strays = {}
  InclH = InclH
  OtherH = OtherH
  None = None
  Capacity = 2
  Detached = {t1}
  MaxWrites = 2
CHECK_DEADLOCK FALSE
INVARIANT NoFalsePass
