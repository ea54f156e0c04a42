SPECIFICATION Spec
CONSTANTS
  ConsecLimit = 2
  Pnls <- MCLosses
  StartBalance = 1000
  MaxDailyLossPct = 3
  MaxDrawdownPct = 10
  DealsDuringCycle = FALSE
  Interruptions = FALSE
  FetchMayFail = FALSE
  InfoMayFail = FALSE
  LongOutages = FALSE
  MaxDeals = 2
  MaxDay = 1
  MaxFaults = 0
INVARIANTS DailyHaltIsTodays
CHECK_DEADLOCK FALSE
