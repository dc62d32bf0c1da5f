CONSTANTS
  Size = 3
  Talks <- Wrapping
SPECIFICATION FairSpec
PROPERTY EveryTalkEnds
CHECK_DEADLOCK FALSE
