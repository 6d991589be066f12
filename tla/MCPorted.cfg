SPECIFICATION FairSpec
CONSTANTS
  Programs <- AllTests
  Many = 2
  NChild = 2
  MaxProcs = 6
INVARIANTS
  TypeOK
  SuccessMeansWorks
  WorksMeansSuccess
PROPERTIES
  NoLateSuccess
  AllEnd
  ImplementsTestEnv
CHECK_DEADLOCK FALSE
