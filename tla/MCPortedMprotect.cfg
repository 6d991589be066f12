SPECIFICATION FairSpec
CONSTANTS
  Programs = {"mprotect02"}
  Many = 2
  NChild = 2
  MaxProcs = 3
INVARIANT OutputsIfWorks
CHECK_DEADLOCK FALSE
