SPECIFICATION FairSpec

CONSTANTS
  Syscalls = {s1, s2}
  Tests = {t1, t2}
  Strays = {x1}
  InclH = InclH
  OtherH = OtherH
  None = None
  Capacity = 2
  Detached = {}
  MaxWrites = 1

CHECK_DEADLOCK FALSE

INVARIANTS NoFalsePass SuccessCounted
PROPERTIES ImplementsTally Completes
