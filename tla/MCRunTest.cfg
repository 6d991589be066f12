SPECIFICATION Spec
CONSTANTS
  Tests = {t1, t2, t3}
  Verdicts = {"pass", "fail"}
  None = None
  Empty = Empty
  MaxRev = 1
  MaxRuns = 2
CHECK_DEADLOCK FALSE
INVARIANTS TypeOK NoErrorLost FreshIfBuilt ReadsOwnOutput
