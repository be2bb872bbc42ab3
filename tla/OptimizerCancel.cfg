SPECIFICATION FairRunsSpec
CONSTANTS
  r1 = r1
  r2 = r2
  p1 = p1
  p2 = p2
  SymbolOf <- OneSymbol
  RowsNameBroker = TRUE
  c2 = c2
  c1 = c1
  NoRun = NoRun
  Runs = {r1, r2}
  Rows = {p1}
  Clients = {c1, c2}
  MaxRestarts = 0
  MaxCancels = 1
  PipeSize = 2
  MaxLost = 0
PROPERTY CancelStops
CHECK_DEADLOCK FALSE
