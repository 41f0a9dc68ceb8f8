--------------------------- MODULE SafetyPlanner ---------------------------
(* The baseline of every tick (strategies/safety_planner.py): what the core spends on   *)
(* and what each unit does when nothing else wants it. A snapshot s is a record          *)
(*   [tick, state, core, health, shield, resources, capacity, population,                *)
(*    units, enemies, obstacles, beacon, mines]                                          *)
(* with units a sequence of [id, role, at, cargo, health], enemies a set of              *)
(* [id, at, kind, role], beacon [status, carrier, at]; the core's id is CoreId. An order   *)
(* is a tuple, its first component the type.                                            *)
EXTENDS Tactics

CONSTANTS Config,              \* SafetyPlannerConfig: a record of thresholds
          ImminentCooldown     \* IMMINENT_SPAWN_COOLDOWN_TICKS
CoreId == 0

CoreMaxHp == 5
CoreMaxShield == 5
BeaconShieldCap == 10
Critical == [hp |-> 2, resources |-> 7]
ShieldRepairMin == 6
ThreatVanguard == [workers |-> 4, resources |-> 16]
Imminent == [workers |-> 2, distance |-> 3]
ThreatReserveDistance == 12

Wait == <<"WAIT">>
NoOrder == <<>>
Spawn(role) == <<"SPAWN", role>>
StepOrder(from, to) == <<"MOVE", StepToward(from, to)>>
UnitsOf(s, role) == SelectSeq(s.units, LAMBDA u : u.role = role)
WorkerCount(s) == Len(UnitsOf(s, "WORKER"))
Priced(s, role) == UnitPrice(role, s.population)

\* What the planner keeps between ticks. records maps a unit to [enemy, at, misses, until].
NoPlannerMemory == [records |-> <<>>, seen |-> <<>>, converging |-> {}, until |-> 0, claimed |-> FALSE]

-----------------------------------------------------------------------------
(* What is settled before deciding: last tick's predictive shots, who came closer.      *)
\* A shot is scored by whether the enemy it led still stands where it stood.
RefreshPredictiveFire(s, records) ==
  LET Led(u) == {e \in s.enemies : e.id = records[u].enemy}
      Stood(u) == \E e \in Led(u) : e.at = records[u].at
      misses(u) == IF Stood(u) THEN records[u].misses + 1 ELSE 0
  IN  [u \in {v \in DOMAIN records : Led(v) # {}} |->
         [records[u] EXCEPT !.misses = misses(u),
                            !.until = IF Stood(u) /\ misses(u) >= Config.missCap THEN s.tick + Config.missCooldown ELSE @]]
Converging(s, seen) ==
  {e.id : e \in {o \in s.enemies : o.id \in DOMAIN seen /\ Manhattan(seen[o.id], s.core) > Manhattan(o.at, s.core)}}
SettledMemory(s, m) ==
  [m EXCEPT !.records = RefreshPredictiveFire(s, @), !.claimed = FALSE, !.converging = Converging(s, m.seen),
            !.seen = [i \in {e.id : e \in s.enemies} |-> (CHOOSE e \in s.enemies : e.id = i).at]]

-----------------------------------------------------------------------------
(* The core: the first tier that applies. Two of them share an emergency cooldown; the   *)
(* last but two orders nothing, to save the price of the defender.                       *)
BeaconHeldByUs(s) == s.beacon.carrier \in {CoreId} \cup {s.units[i].id : i \in DOMAIN s.units}
NearestOf(s, enemies) == IF enemies = {} THEN 1000 ELSE NearestDistance(s.core, enemies)
Tier(when, order, emergency) == [when |-> when, order |-> order, emergency |-> emergency]
\* The next unit to spawn, as the plan of the colony has it.
NextUnit(s, workers) ==
  IF Config.massarmy THEN NextSpawnMassarmy(workers, Len(UnitsOf(s, "VANGUARD")), Len(UnitsOf(s, "RANGER")), s.population)
  ELSE NextSpawn(workers, Len(UnitsOf(s, "VANGUARD")), Len(UnitsOf(s, "RANGER")), Config.workerTarget, Config.ratio)
CoreTiers(s, workers, closing, rested, next) ==
  LET vanguard == s.resources >= Priced(s, "VANGUARD")
      forming == workers >= Imminent.workers /\ closing <= ThreatReserveDistance
  IN  <<Tier(s.state # "normal", NoOrder, FALSE),
        Tier(s.health <= Critical.hp /\ s.resources >= Critical.resources, <<"HEAL">>, FALSE),
        Tier(workers >= ThreatVanguard.workers /\ NearestOf(s, s.enemies) <= Config.threatDistance
               /\ s.resources >= ThreatVanguard.resources, Spawn("VANGUARD"), FALSE),
        Tier(workers >= Imminent.workers /\ closing <= Imminent.distance /\ vanguard /\ rested, Spawn("VANGUARD"), TRUE),
        Tier(forming /\ vanguard /\ rested, Spawn("VANGUARD"), TRUE),
        Tier(forming /\ ~vanguard, NoOrder, FALSE),
        Tier(s.resources >= Priced(s, next), Spawn(next), FALSE),
        Tier(s.health = CoreMaxHp /\ s.shield < (IF BeaconHeldByUs(s) THEN BeaconShieldCap ELSE CoreMaxShield)
               /\ s.resources >= ShieldRepairMin, <<"REPAIR_SHIELD">>, FALSE),
        Tier(TRUE, NoOrder, FALSE)>>
TierTaken(s, m, tier) == [order |-> tier.order, until |-> IF tier.emergency THEN s.tick + ImminentCooldown ELSE m.until]
DecideCore(s, m) ==
  TierTaken(s, m, FirstWhere(CoreTiers(s, WorkerCount(s), NearestOf(s, {e \in s.enemies : e.id \in m.converging}),
                                       s.tick >= m.until, NextUnit(s, WorkerCount(s))),
                             LAMBDA t : t.when, NoOrder))

-----------------------------------------------------------------------------
(* The units. Each decision is [order, m]: the shots and the beacon claim are remembered. *)
MilitaryIndex(s, unit) == Cardinality({i \in DOMAIN s.units : s.units[i].role # "WORKER"
                                         /\ \E j \in DOMAIN s.units : s.units[j] = unit /\ i < j})
WalkToPost(unit, at) == IF at \in {NoCell, unit.at} THEN Wait ELSE StepOrder(unit.at, at)
PostOrHome(s, index, post) == IF post = NoCell THEN HomeCell(s.core, s.obstacles, index) ELSE post
GuardAction(s, unit) ==
  LET index == MilitaryIndex(s, unit)
  IN  WalkToPost(unit, PostOrHome(s, index, DefensePost(s.core, s.enemies, s.obstacles, unit.role, index)))

\* forced_task_for, and the order it becomes.
ForcedTaskFor(s, unit) ==
  IF unit.cargo = 0 /\ s.beacon.status = "ground" /\ unit.at = s.beacon.at THEN "PICKUP_BEACON"
  ELSE IF unit.cargo > 0 THEN "DEPOSIT"
  ELSE IF unit.at \in s.mines THEN "HARVEST_CURRENT"
  ELSE IF unit.health <= 1 /\ unit.at # s.core THEN "RETURN_FOR_HEAL"
  ELSE "none"
DecideWorker(s, unit) ==
  LET task == ForcedTaskFor(s, unit)
  IN  CASE task = "DEPOSIT" /\ unit.at = s.core -> <<"DEPOSIT">>
        [] task \in {"DEPOSIT", "RETURN_FOR_HEAL"} /\ unit.at # s.core -> StepOrder(unit.at, s.core)
        [] task = "HARVEST_CURRENT" -> <<"HARVEST">>
        [] task = "PICKUP_BEACON" -> <<"PICKUP_BEACON">>
        [] OTHER -> Wait
DecideBeaconCarrier(s, unit) ==
  IF Manhattan(unit.at, s.core) <= Config.holdRadius THEN Wait ELSE StepOrder(unit.at, s.core)

\* One unit a tick walks to a beacon on the ground, when no enemy is in sight and it does not guard the core.
MayContest(s, m, unit) ==
  /\ s.beacon.status = "ground" /\ s.enemies = {} /\ ~m.claimed
  /\ s.population >= Config.contestPopulation /\ s.resources >= Config.contestResources
  /\ Manhattan(unit.at, s.core) > 1 /\ Manhattan(unit.at, s.beacon.at) <= Config.contestRange
DecideBeaconContest(s, unit) == IF unit.at = s.beacon.at THEN <<"PICKUP_BEACON">> ELSE StepOrder(unit.at, s.beacon.at)
GuardOrContest(s, m, unit) ==
  IF MayContest(s, m, unit) THEN [order |-> DecideBeaconContest(s, unit), m |-> [m EXCEPT !.claimed = TRUE]]
  ELSE [order |-> GuardAction(s, unit), m |-> m]

DecideVanguard(s, m, unit) ==
  LET beside == {e \in s.enemies : Manhattan(unit.at, e.at) = 1}
      first == LeastOf(beside, LAMBDA e : <<e.id>>)
  IN  IF beside = {} THEN GuardOrContest(s, m, unit)
      ELSE [order |-> <<"SWEEP", DirectionToAdjacent(unit.at, first.at)>>, m |-> m]

\* A shot at the next cell of the enemy that would be shot first, unless it has missed too often.
MayPredictAlways(s, record) == record.misses < Config.missCap
MayPredict(s, record) == record.until <= s.tick /\ record.misses < Config.missCap
NoShots == [enemy |-> CoreId, at |-> NoCell, misses |-> 0, until |-> 0]
LedShot(m, unit, enemy, cell, record) ==
  [order |-> <<"SHOOT", cell, "led">>,
   m |-> [m EXCEPT !.records = unit.id :> [record EXCEPT !.enemy = enemy.id, !.at = enemy.at] @@ @]]
LeadsAt(s, m, unit, enemy, cell, record) ==
  IF MayPredict(s, record) /\ cell # NoCell /\ CanShoot(unit.at, cell, s.obstacles) THEN LedShot(m, unit, enemy, cell, record)
  ELSE GuardOrContest(s, m, unit)
ShotsOf(m, unit) == IF unit.id \in DOMAIN m.records THEN m.records[unit.id] ELSE NoShots
ShootFirst(s, m, unit, ordered, direct) ==
  IF direct # <<>> THEN [order |-> <<"SHOOT", direct[1].at, "direct">>, m |-> m]
  ELSE IF Config.predictive /\ ordered # <<>>
  THEN LeadsAt(s, m, unit, ordered[1], PredictedEnemyCell(unit.at, ordered[1].at), ShotsOf(m, unit))
  ELSE GuardOrContest(s, m, unit)
ShootInOrder(s, m, unit, ordered) ==
  ShootFirst(s, m, unit, ordered, SelectSeq(ordered, LAMBDA e : CanShoot(unit.at, e.at, s.obstacles)))
DecideRanger(s, m, unit) == ShootInOrder(s, m, unit, DefensiveOrder(unit.at, s.enemies))

DecideUnit(s, m, unit) ==
  IF s.beacon.carrier = unit.id /\ ~(unit.role = "WORKER" /\ unit.cargo > 0) THEN [order |-> DecideBeaconCarrier(s, unit), m |-> m]
  ELSE CASE unit.role = "WORKER" -> [order |-> DecideWorker(s, unit), m |-> m]
         [] unit.role = "VANGUARD" -> DecideVanguard(s, m, unit)
         [] OTHER -> DecideRanger(s, m, unit)

\* Beyond the budget a unit waits.
Played(r, d) == [orders |-> Append(r.orders, d.order), m |-> d.m]
PlayUnit(s, r, unit, budget) ==
  Played(r, IF Len(r.orders) >= budget THEN [order |-> Wait, m |-> r.m] ELSE DecideUnit(s, r.m, unit))
PlayUnits(s, m, budget) == FoldLeft(LAMBDA r, unit : PlayUnit(s, r, unit, budget), [orders |-> <<>>, m |-> m], s.units)
WithCore(core, played) == [core |-> core, orders |-> played.orders, m |-> played.m]
AfterCore(s, m, core, budget) == WithCore(core.order, PlayUnits(s, [m EXCEPT !.until = core.until], budget))
AfterSettling(s, m, budget) == AfterCore(s, m, DecideCore(s, m), budget)
Decide(s, memory, budget) == AfterSettling(s, SettledMemory(s, memory), budget)
\* Guards patrol toward the sector of the threat; not wired into the decider.
ThreatWeightedDirection(index, sector) ==
  IF sector = -1 \/ index >= 4 THEN (index * 3 + 7) % 8 ELSE (sector + <<0, 1, -1, 2>>[index + 1] + 8) % 8
=============================================================================
