SPECIFICATION FairSpec
CONSTANTS
  ConsecLimit = 2
  Pnls <- MCLosses
  StartBalance = 1000
  MaxDailyLossPct = 3
  MaxDrawdownPct = 10
  DealsDuringCycle = TRUE
  Interruptions = TRUE
  FetchMayFail = FALSE
  InfoMayFail = TRUE
  LongOutages = FALSE
  MaxDeals = 2
  MaxDay = 1
  MaxFaults = 2
INVARIANTS NothingSkipped CountedOnce
PROPERTIES EventuallyBooked
CHECK_DEADLOCK FALSE
