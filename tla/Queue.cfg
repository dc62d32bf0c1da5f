CONSTANTS
  N = 3
  Dialogues <- Both
  Rooms = {1, 5}
  MaxFaults = 1
SPECIFICATION FairSpec
INVARIANT TypeOK
INVARIANT NothingIsLost
INVARIANT NoDeadlock
PROPERTY ChannelSpec
PROPERTY AllEnds
CHECK_DEADLOCK FALSE
