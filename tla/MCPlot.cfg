SPECIFICATION Spec
CONSTANTS
  Syscalls = {s1, s2, s3, s4}
  HostSyscalls = {s1, s2, s3, s4}
  Triples <- AllTriples
  SameOrder = TRUE
  Columns = 2
  PerColumn = 2
CHECK_DEADLOCK FALSE
INVARIANTS TypeOK InStep UnportedLast BestFirst AllDrawn TotalRight StopsOnlyIf
