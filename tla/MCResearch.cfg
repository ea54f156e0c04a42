SPECIFICATION MCSpec
CONSTANTS
 DataStarts <- MCDataStarts
 DataEnd <- MCDataEnd
 Holes <- MCHoles
 Outcomes <- MCOutcomes
 Periods = 4
 Scripts <- MCScripts
 MaxLines = 1
 MaxNum = 4
 MinBuffer = 1
 Shapes <- MCShapes
 Rows <- MCRows
 Lookback = 3
 MaxBars = 4
 MinDistance = 2
 Tolerance = 2
 DayBars = 2
 WeekBars = 2
 Sessions <- MCSessions
 VwapPeriod = 2
 RoundStep = 3
 RoundWindow = 6
 HalfWidth = 1
 Apart = 1
 Months = 3
 PerMonth = 2
 Offered <- MCOffered
 Requests <- MCRequests
 EndInclusive = TRUE
 MaxJobs = 2
INVARIANTS TestedOnce SingleMatchesGate SwingsAreSignificant OfferedZonesAreIntact SyntheticZonesAreApart QueryIsComplete
PROPERTIES OnlyEdgesLoseBars ManifestFollowsFiles
CHECK_DEADLOCK FALSE
