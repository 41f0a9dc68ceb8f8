SPECIFICATION UnitsSpec
CONSTANTS
  MaxTick = 4
  SearchTicks = 10
  Workers = {1, 2}
  Guards = {3}
  Core <- MCCore
  Mine <- MCMine
  Post <- MCPost
  Worlds <- MCWorlds
  Starts <- MCStarts
  CarryLimit = 30
  Overrides = FALSE
  StickyTicks = 5
  RecallDistance = 5
  RecallRoutes = 1
  SanctuaryRadius = 3
  FleeRadius = 2
  Lookahead = 8
  RouteRadius = 4
  RouteBudget = 40
  BlockedStreak = 3
  BlockedPause = 2
  LoopWindow = 6
  LoopMinUnique = 3
  LoopBox = 3
  LoopStatic = 4
  LoopCooldown = 5
  TrailKeep = 3
  DepositStall = 6
  DepositStreak = 3
  SpinTicks = 8
  SpinBudget = 4
  SpinDistance = 3
  StuckTicks = 8
  StuckRadius = 2
  Config <- MCConfig
  ImminentCooldown = 4
  Battles <- MCBattles
  MinObservations = 2
  MaxDistance = 5
  MinFighters = 3
INVARIANTS
  AssignmentIsSound
  
  
  ForcesAreWellUsed
PROPERTIES
  ExplorationIsSound
  
  HomeGuardsStay
CHECK_DEADLOCK FALSE
