SPECIFICATION MCSpec
CONSTANTS
  ConsecLimit = 3
  Pnls <- MCPnls
  TornWrites = FALSE
  MaxDay = 2
  MaxTrades = 5
  MaxResets = 1
  LossLimit = 3
  PnlLimit <- MCPnlLimit
  BreakerPnls <- MCBreakerPnls
  BreakerTorn = FALSE
  BreakerMaxDay = 2
  BreakerMaxTrades = 5
  BreakerMaxResets = 1
  Risk = 2
  TrailActivate = 50
  TrailDistance = 100
  RegimeActivate = 100
  RegimeDistance = 50
  MaxTracked = 3
  DealIsPosition = FALSE
  MaxOpen = 2
  MaxPrice = 6
  MaxTickets = 2
INVARIANTS TrippedIffLosingRun TrippedIffLimitReached StopFollows
PROPERTIES ImplementsDailyLatch BreakerIsDailyLatch StopOnlyTightens
CHECK_DEADLOCK FALSE
