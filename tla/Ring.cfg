CONSTANTS
  Size = 3
  Talks <- Talkative
SPECIFICATION FairSpec
INVARIANT TypeOK
INVARIANT OffsetsTell
INVARIANT WaitsForAByte
PROPERTY ChannelSpec
PROPERTY TalkEnds
CHECK_DEADLOCK FALSE
