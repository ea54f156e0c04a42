CONSTANTS
  Bar = 15
  MaxCycle = 4
  WatchEvery = 5
  GraceMinutes = 10
  StaleMinutes = 20
  RetryAfter = 5
  RetryCount = 2
  ResetThreshold = 3
  GiveupThreshold = 5
  HandleFaults = {"heals", "refuses"}
  FreezingLegs = {"control", "macro"}
  MaxFaults = 2
SPECIFICATION FairSpec
PROPERTIES
  WorkingControlSpared
  ControlRecovers
CHECK_DEADLOCK FALSE
