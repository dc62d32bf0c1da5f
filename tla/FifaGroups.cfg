CONSTANTS
  N = 6
  GroupSize = 3
  Tables <- Mixed
  MayTimeOut = TRUE
  MaxFaults = 1
SPECIFICATION FairSpec
INVARIANT GroupsDisjoint
INVARIANT NobodyIsLeftWaiting
INVARIANT FixtureIsTheGroup
INVARIANT FreeCountryRemains
INVARIANT IInv
INVARIANT NoSolutionIsHonest
PROPERTY DrawSpec
PROPERTY Reports
CHECK_DEADLOCK FALSE
