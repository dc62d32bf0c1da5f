CONSTANTS
  N = 2
  Transports <- Pipes
  Buckets <- Shared
  MaxFaults = 0
SPECIFICATION FairSpec
PROPERTY EverybodyStarts
CHECK_DEADLOCK FALSE
