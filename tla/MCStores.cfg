SPECIFICATION StoreSpec
CONSTANTS
  Units = {u1}
  Aims = {a1, a2}
  None = None
  Idle = Idle
  Stuck = 2
  StaleAge = 1
  DedupeWindow = 2
  Exclusive = TRUE
  Modes = {"override", "disabled"}
  MaxOrders = 2
  MaxTime = 3
  MaxLines = 2
  MaxBackups = 2
  MaxRow = 7
  MaxFaults = 2
  MaxStarts = 2
  Procs = {p1, p2}
  RecordLines = 3
  RecordBackups = 2
  MaxRecord = 8
  MaxOpens = 3
  DbProcs = {p1, p2}
  DbFree = None
  DbResults <- MCDbResults
  MaxDbFaults = 2
  MaxDbOpens = 3
INVARIANTS
  OneOrderPerUnit
  TelemetryIsKept
  
PROPERTIES
  
  OrdersToLostUnitsLeave
  
CHECK_DEADLOCK FALSE
