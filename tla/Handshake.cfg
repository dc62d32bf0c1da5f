CONSTANTS
  N = 3
  Transports <- All
  Buckets <- Shares
  MaxFaults = 3
SPECIFICATION FairSpec
INVARIANT HandshakeInv
PROPERTY BarrierSpec
PROPERTY EverybodyStartsApart
CHECK_DEADLOCK FALSE
