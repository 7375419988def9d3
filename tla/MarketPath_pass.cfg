SPECIFICATION MarketSpec
CONSTANTS
  Modes <- MCModes
  Quotes <- MCQuotes
  Core <- MCCore
  Pauses <- MCPauses
  DbQuotes <- MCDbQuotes
  LabelWindow = 2
  MinOneTick = 1
  MaxBatches = 2
  MaxBuffer = 3
  MaxRows = 4
  MaxDbRows = 4
INVARIANTS
  VectorisedMatchesPairwise
  LiveMatchesReport
  OneTickCountsAgree
  ReportTables
  StoredInOrder
  EventsAccounted
CHECK_DEADLOCK FALSE
