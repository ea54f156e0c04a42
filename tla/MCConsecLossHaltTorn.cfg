SPECIFICATION Spec
CONSTANTS
  ConsecLimit = 3
  Pnls <- MCPnls
  TornWrites = TRUE
  MaxDay = 1
  MaxTrades = 5
  MaxResets = 0
PROPERTIES HaltSurvives
CHECK_DEADLOCK FALSE
