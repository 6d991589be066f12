SPECIFICATION Spec2
CONSTANTS
  MaxInput = 5
  MaxTurns = 2
  Folders = {e1, e2}
  Files = {x1, mk}
  DotC = {x1}
  DotH = {}
  None = None
  AOut = aout
  MaxRuns = 2
SYMMETRY Symmetry
CHECK_DEADLOCK FALSE
INVARIANTS NoPartialFile Mirrors ResultClean ResetCleans
