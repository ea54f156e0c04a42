CONSTANTS
  Dirs = {long, short}
  Bar = 3
  TrendingCooldown = 6
  RangingCooldown = 1
  AntiStack = 6
  MaxConcurrent = 1
  MaxTime = 6
  MaxDay = 1
  MaxFaults = 1
SPECIFICATION Spec
SYMMETRY DirsSymmetry
PROPERTY
  DecisionIsRecent
CHECK_DEADLOCK FALSE
