CONSTANTS
  Tables <- Many
  Taken <- TakenSets
  MaxFaults = 1
SPECIFICATION FairSpec
INVARIANT OnePlaceEach
INVARIANT NoStragglers
INVARIANT AsksByTheRules
PROPERTY RoundSpec
PROPERTY GroupEnds
