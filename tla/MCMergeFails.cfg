SPECIFICATION AllianceSpec
CONSTANTS
  None = None
  t1 = t1
  t2 = t2
  castle = castle
  raider = raider
  Tenants <- MCTenants
  Enemies <- MCEnemies
  KindOf <- MCKindOf
  TypeOf <- MCTypeOf
  OwnerOf <- MCOwnerOf
  PlacesOf <- MCPlacesOf
  StartOf <- MCStartOf
  Homes <- MCHomes
  Stock <- MCStock
  RankOf <- MCRankOf
  Sight = 6
  MaxOutbox = 1
  MaxTick = 3
  MaxRepeats = 1
  CoreSpatialGate = 8
  UnitTau = 6
  CoreTau = 96
  RecentUniqueWindow = 300
  LiveWindow = 1
  FreshWindow = 1
  ThreatFieldRadius = 2
  CoreRaidRadius = 24
  fort = fort
  keep = keep
  Allies <- MCAllies
  CorePlaces <- MCCorePlaces
  Strengths = {0, 1, 4}
  FirstStrengths <- MCFirstStrengths
  Purses = {3, 8}
  EnemyCores <- MCEnemyCores
  HuntedPlaces <- MCHuntedPlaces
  Tasks <- MCTasks
  Capacities <- MCCapacities
  Audits <- MCAudits
  News <- MCNews
  MaxEvents = 3
  ReinforceRange = 10
  ClusterDist = 5
  PocketRadius = 8
  TightMax = 8
  LooseMax = 20
  LowResourceWarn = 10
  NoCombatCoreRadius = 6
  HeatThreshold = 50
  HeatNearChunks = 1
  ChunkSize = 16
  ApproachRadius = 12
  ProximityRadius = 8
  StaleAfter = 1
  ThreatCap = 2
  AdviceLimit = 4
CHECK_DEADLOCK FALSE
INVARIANTS
  LoadSucceeds
