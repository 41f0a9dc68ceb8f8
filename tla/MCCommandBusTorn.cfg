SPECIFICATION BusSpec
CONSTANTS
  Procs = {p1, p2}
  None = None
  Malformed = Malformed
  Commands <- TwoCommands
  Duration = 1
  ClockMayStepBack = FALSE
  MaxFence = 2
  MaxTime = 1
  MaxCrashes = 0
  MaxPublish = 2
  MaxGameTick = 0
  MaxFaults = 1
INVARIANTS
  TornTailIsSkipped
CHECK_DEADLOCK FALSE
