SPECIFICATION MarketSpec
CONSTANTS
  Modes <- MCModes
  Quotes <- MCDbQuotes
  Core <- MCSound
  Pauses <- MCPauses
  DbQuotes <- MCDbQuotes
  LabelWindow = 2
  MinOneTick = 1
  MaxBatches = 1
  MaxBuffer = 1
  MaxRows = 3
  MaxDbRows = 1
INVARIANT PanelMatchesReport
CHECK_DEADLOCK FALSE
