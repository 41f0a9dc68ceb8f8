SPECIFICATION SupervisedSpec
CONSTANTS
  Procs = {p1, p2}
  None = None
  Duration = 2
  ClockMayStepBack = TRUE
  MaxFence = 3
  MaxTime = 2
  MaxCrashes = 1
INVARIANTS
  OneSubmitter
  AtMostOneActive
PROPERTIES
  FenceMovesBetweenSessions
  ImplementsAuthority
  LeaseIsHandedOn
