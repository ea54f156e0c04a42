SPECIFICATION MCSpec
CONSTANTS
  MinBuffer = 1
  SyntheticZones = TRUE
  CooldownBars = 8
  CooldownBarsV2 = 4
  MacroBias <- MCMacroBias
  Bars <- MCBars
  Markets <- MCMarkets
  Runs <- MCRuns
  N = 5
  Chunk = 2
  InitialBalance = 100
  Spread = 1
  Slippage = 1
  Commission = 1
  MaxConcurrent = 3
  WallClock = 1000
INVARIANTS BooksBalance ActiveZonesAreOpenTrades ReportAgrees StopOnLossSide
