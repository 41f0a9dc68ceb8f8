SPECIFICATION SessionSpec
CONSTANTS
  Procs = {p1, p2}
  None = None
  Duration = 2
  ClockMayStepBack = FALSE
  MaxFence = 2
  MaxTime = 3
  MaxCrashes = 1
INVARIANTS
  OkMeansLoopFinished
