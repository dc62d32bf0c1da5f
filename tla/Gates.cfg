CONSTANTS
  Names <- GateNames
  QtyFiles = 3
  Batches <- Three
  MaxFaults = 2
SPECIFICATION FairSpec
INVARIANT TypeOK
INVARIANT SavedIsRight
INVARIANT EveryRoundWorks
PROPERTY SolvingSpec
PROPERTY BatchEnds
PROPERTY GatesEnds
