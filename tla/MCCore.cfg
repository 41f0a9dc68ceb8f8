SPECIFICATION BothSpec
CONSTANTS
  Procs = {p1, p2}
  None = None
  Duration = 1
  ClockMayStepBack = FALSE
  MaxFence = 2
  MaxTime = 2
  MaxCrashes = 1
  HeartbeatTtl = 1
  MaxOperations = 1
  MaxRevision = 2
  MaxCores = 2
  Damageable = {"legs"}
  Config <- MCConfig
  ImminentCooldown = 4
  Plots <- MCPlots
  MaxTick = 7
  Haven <- MCHaven
  MoveTicks = 2
  DetectionDistance = 4
  BarrenTicks = 3
  BarrenCooldown = 2
  BarrenDistance = 2
  StuckTicks = 3
  TrapConfirm = 2
  StarvationTicks = 5
  LowYieldTicks = 4
  DeadlockTicks = 3
  RecoveryWorkers = 2
  EnemyFleeRadius = 3
  RouteRadius = 8
  RouteBudget = 100
SYMMETRY Conductors
INVARIANTS
  PlanIsConducted
  ColonyRecovers
  
PROPERTIES
  PlanIsFenced
CHECK_DEADLOCK FALSE
