SPECIFICATION MCSpec
CONSTANTS
 MinBuffer = 2
 Lookback48 = 3
 RouterBars <- MCRouterBars
 Symbol = "XAUUSD"
 Legs <- MCLegs
 LegSettings <- MCLegSettings
 Scenes <- MCScenes
 HourAt <- MCHourAt
 Cooldown = 2
 SmaBars = 2
 SmaLag = 1
 MaxNow = 3
 MaxRestarts = 2
 MaxFailures = 1
 Prices <- MCPrices
 Orders <- MCOrders
 TrailingSl = 2
 MaxTickets = 2
 MaxFaults = 1
 Processes <- MCProcesses
 LegOf <- MCLegOf
 MaxInit = 2
 RemovesOpenFile = FALSE
 MaxStarts = 5
 Senders <- MCSenders
 Margin <- MCMargin
 Cap = 4
 MaxAttempts = 2
 DayLen = 2
 ReportEvery = 6
 ReportLag = 2
 ContextTtl = 2
 HasFredKey = TRUE
 Reachable <- MCReachable
 MacroEnd = 8
 RefreshEvery = 3
 MacroFreeCap = 50
 AiEnd = 8
 D1 = 12
 H4 = 4
 HourLen = 2
 DataEnd = 29
 Lookback = 12
 MaxAsked = 3
INVARIANTS OverlayIsCurrent AnalysisIsAccountedFor CachesSeeThePast RouterNarrows LimitsSurviveRestarts RangeStopOnLossSide EveryCloseIsKnown OneInstance ExposureBounded
PROPERTIES StopsOnlyTighten
CHECK_DEADLOCK FALSE
