SPECIFICATION Spec
CONSTANTS
  Tests = {t1, t2}
  Verdicts = {"pass", "fail", "nobin", "bin"}
  None = None
  Empty = Empty
  MaxRev = 1
  MaxRuns = 2
CHECK_DEADLOCK FALSE
INVARIANT FreshReport
