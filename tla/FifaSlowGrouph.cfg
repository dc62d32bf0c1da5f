CONSTANTS
  N = 6
  GroupSize = 3
  Tables <- Slow
  MayTimeOut = TRUE
  MaxFaults = 0
SPECIFICATION FairSpec
PROPERTY SlowReports
CHECK_DEADLOCK FALSE
