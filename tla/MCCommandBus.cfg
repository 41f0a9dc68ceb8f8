SPECIFICATION FairBusSpec
CONSTANTS
  Procs = {p1, p2}
  None = None
  Malformed = Malformed
  Commands <- RetriedCommands
  Duration = 1
  ClockMayStepBack = FALSE
  MaxFence = 2
  MaxTime = 1
  MaxCrashes = 1
  MaxPublish = 2
  MaxGameTick = 1
  MaxFaults = 1
INVARIANTS
  DrainsAreComplete
PROPERTIES
  ImplementsOnceOnly
  
CHECK_DEADLOCK FALSE
