CONSTANTS
  Risk = 2
  TrailActivate = 50
  TrailDistance = 50
  RegimeActivate = 100
  RegimeDistance = 50
  MaxTracked = 3
  DealIsPosition = TRUE
  MaxOpen = 2
  MaxPrice = 6
  MaxTickets = 2
SPECIFICATION TrailSpec
INVARIANT
  StopFollowsRegime
