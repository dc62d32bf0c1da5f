CONSTANTS
  CountryFiles = {"p1", "p2", "p3"}
  Empty = {"p3"}
  ParallelMayFail = TRUE
  CircuitFiles = {"c1", "c2"}
  OtherEntries = {3}
  PipeMayFail = TRUE
  Interrupts = {"group", "main"}
  Workloads <- Mixed
SPECIFICATION FairSpec
INVARIANT NothingHalfDone
INVARIANT OnlyTheBatchIsLost
INVARIANT ReportIsHonest
INVARIANT ParentsEndLast
PROPERTY ServedSpec
PROPERTY FilesAreServed
PROPERTY InterruptEnds
CHECK_DEADLOCK FALSE
