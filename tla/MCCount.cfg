SPECIFICATION Spec
CONSTANTS
  Apps = {a1, a2, a3, a4}
  Sizes = {0, 1, 2}
CHECK_DEADLOCK FALSE
INVARIANTS TypeOK Paired ReportSorted TotalCorrect
