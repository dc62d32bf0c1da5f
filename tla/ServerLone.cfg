CONSTANTS
  CountryFiles = {"p1"}
  Empty = {}
  ParallelMayFail = FALSE
  CircuitFiles = {"c1"}
  OtherEntries = {2}
  PipeMayFail = FALSE
  Interrupts = {}
  Workloads <- Lone
SPECIFICATION FairSpec
PROPERTY EveryCircuitIsSolved
CHECK_DEADLOCK FALSE
