SPECIFICATION Spec
CONSTANTS
  Syscalls = {s1, s2, s3, s4}
  HostSyscalls = {s1, s2, s3, s4}
  Triples <- PlainTriples
  SameOrder = FALSE
  Columns = 2
  PerColumn = 2
CHECK_DEADLOCK FALSE
INVARIANT LabelsTrue
