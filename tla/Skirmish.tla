------------------------------ MODULE Skirmish ------------------------------
(* The fighters over the ticks: the squads they are reconciled into                     *)
(* (strategies/tactical_squads.py), the raid on an enemy core that has been seen for     *)
(* long enough (strategies/raid_quota.py, the raid hook of strategies/composition.py),    *)
(* and the shots the planner leads. Around it a game in which fighters die and are born    *)
(* and enemies come in and out of sight.                                                   *)
EXTENDS SafetyPlanner

CONSTANTS Battles,           \* the games a behaviour may be played in, each with its bound of ticks
          MinObservations, MaxDistance, MinFighters   \* the raid's configuration

VARIABLES field, battle,     \* the snapshot, the game it is a turn of
          mind,              \* the planner's memory
          squads,            \* squad_by_unit
          stationary,        \* how many ticks in a row a cell has shown an enemy core
          raid, backlog, roles,
          orders,            \* what was decided, one per unit
          seen               \* what the properties speak of
skirmishVars == <<field, battle, mind, squads, stationary, raid, backlog, roles, orders, seen>>

-----------------------------------------------------------------------------
(* Squads. A squad is <<kind, index>>; of the kinds, HOME_DEFENSE is filled first, then    *)
(* the strikes, and what is left is mobile.                                                *)
Home == <<"HOME_DEFENSE", 0>>
Mobile == <<"MOBILE", 0>>
HomeCaps == [VANGUARD |-> 2, RANGER |-> 1]
\* How many strikes the fighters beyond the home squad make: three each, two for the last.
Fighters(units) == SelectSeq(units, LAMBDA u : u.role # "WORKER")
OfRole(units, role) == SelectSeq(units, LAMBDA u : u.role = role)
PartitionLocalFleets(units) ==
  LET v == Len(OfRole(units, "VANGUARD"))
      r == Len(OfRole(units, "RANGER"))
      rest == Larger(0, v - HomeCaps["VANGUARD"]) + Larger(0, r - HomeCaps["RANGER"])
  IN  IF v + r = 0 THEN <<>> ELSE <<Home>> \o [i \in 1..((rest + 1) \div 3) |-> <<"STRIKE", i - 1>>]
CanAdd(squad, members, unit) ==
  LET same == Len(OfRole(members, unit.role))
  IN  /\ unit.role # "WORKER"
      /\ IF squad = Home THEN same < HomeCaps[unit.role] ELSE Len(members) < 3 /\ same < 2
\* The units are given in id order; with no anchor that is the order of the home squad's pool too.
SquadPool(squad, units) == IF squad = Home THEN units ELSE OfRole(units, "VANGUARD") \o OfRole(units, "RANGER")
StaysNowhere(previous, unit, squad) == FALSE
Stays(previous, unit, squad) == unit.id \in DOMAIN previous /\ previous[unit.id] = squad
AddMember(squad, members, u) == IF Contains(members, u) \/ ~CanAdd(squad, members, u) THEN members ELSE Append(members, u)
Filled(of, squad, members) == of @@ [id \in {members[i].id : i \in DOMAIN members} |-> squad]
FillFrom(of, squad, free, previous) ==
  Filled(of, squad, FoldLeft(LAMBDA members, u : AddMember(squad, members, u), <<>>,
                             SelectSeq(free, LAMBDA u : Stays(previous, u, squad)) \o SquadPool(squad, free)))
FillSquad(of, squad, units, previous) == FillFrom(of, squad, SelectSeq(units, LAMBDA u : u.id \notin DOMAIN of), previous)
RestMobile(placed, ids) == placed @@ [id \in ids \ DOMAIN placed |-> Mobile]
ReconcileTacticalSquads(units, previous) ==
  IF Fighters(units) = <<>> THEN <<>>
  ELSE RestMobile(FoldLeft(LAMBDA of, squad : FillSquad(of, squad, units, previous), <<>>, PartitionLocalFleets(units)),
                  {units[i].id : i \in DOMAIN units})

-----------------------------------------------------------------------------
(* What was lost and not yet replaced, by role: per tick, and never less than nothing.     *)
ReconcileReplacementQueue(before, after, queue) ==
  [r \in Roles |-> Larger(0, queue[r] + Cardinality({id \in DOMAIN before \ DOMAIN after : before[id] = r})
                                     - Cardinality({id \in DOMAIN after \ DOMAIN before : after[id] = r}))]

-----------------------------------------------------------------------------
(* The raid.                                                                            *)
NoRaid == [enabled |-> FALSE, recall |-> FALSE, members |-> {}, at |-> NoCell]
RaidActive(r) == r.enabled /\ ~r.recall /\ r.members # {}
RecallRaid(r) == [r EXCEPT !.recall = TRUE, !.at = NoCell]
AcquireRaidTarget(r, c) == [r EXCEPT !.at = c]
RaidFightersReady(n) == n >= MinFighters
\* The cells that show an enemy which is no unit, and for how long: a cell that is out of sight starts again.
EnemyCores(snap) == snap.cores \ {e.at : e \in snap.enemies}
AdvanceStationaryForgiving(snap, before) ==
  [c \in EnemyCores(snap) \cup DOMAIN before |-> (IF c \in DOMAIN before THEN before[c] ELSE 0) + (IF c \in EnemyCores(snap) THEN 1 ELSE 0)]
AdvanceStationaryCores(snap, before) == [c \in EnemyCores(snap) |-> IF c \in DOMAIN before THEN before[c] + 1 ELSE 1]
RaidTargetConfirmed(c, shown) == c \in DOMAIN shown /\ shown[c] >= MinObservations
\* The nearest of them. Which of two as near is taken depends on the order of a set of strings: any of them.
PickRaidTarget(shown, core) ==
  LET near == {c \in DOMAIN shown : RaidTargetConfirmed(c, shown) /\ Manhattan(c, core) <= MaxDistance}
      nearest == {c \in near : \A d \in near : Manhattan(c, core) <= Manhattan(d, core)}
  IN  IF near = {} THEN {NoCell} ELSE nearest

CoreAssaultQuota(v, r, homeV, homeR) == [VANGUARD |-> Smaller(1, v - Smaller(homeV, v)), RANGER |-> Smaller(2, r - Smaller(homeR, r))]
StrikeGroupQuota(health, v, r) ==
  LET rangers == Smaller(Smaller(r, 2), Larger(1, r - 2))
  IN  [VANGUARD |-> Smaller(Smaller(v, Larger(0, health - rangers)), Larger(1, v - 2)), RANGER |-> rangers]
\* The last of each role, in id order.
Trailing(units, n) == {units[i].id : i \in (Len(units) - n + 1)..Len(units)}
SelectStrikeGroup(vanguards, rangers, quota) == Trailing(vanguards, quota["VANGUARD"]) \cup Trailing(rangers, quota["RANGER"])
RaidGuardsOfBefore(membership, before) == {id \in DOMAIN before : before[id] = Home}
RaidGuardIds(membership, before) == {id \in DOMAIN membership : membership[id] = Home}

ApplyRaidStrike(snap, unit, target, order) ==
  IF unit.role = "RANGER" THEN (IF CanShoot(unit.at, target, snap.obstacles) THEN <<"SHOOT", target, "raid">> ELSE StepOrder(unit.at, target))
  ELSE IF unit.at = target THEN order
  ELSE IF Manhattan(unit.at, target) = 1 THEN <<"SWEEP", StepToward(unit.at, target)>>
  ELSE StepOrder(unit.at, target)

\* The lifecycle: too few fighters recall the raid, a target that is no longer confirmed ends it, else a
\* confirmed one is engaged. strikes: the members have this tick's raid orders.
Kept(r) == [raid |-> r, strikes |-> FALSE]
RaidWith(snap, shown, target, strike, pursues) ==
  IF ~RaidFightersReady(Len(Fighters(snap.units))) THEN Kept(IF RaidActive(raid) THEN RecallRaid(raid) ELSE raid)
  ELSE IF pursues /\ RaidTargetConfirmed(raid.at, shown) /\ strike # {}
       THEN [raid |-> [raid EXCEPT !.members = strike], strikes |-> TRUE]
  ELSE IF pursues THEN Kept(NoRaid)
  ELSE IF target # NoCell /\ strike # {}
       THEN [raid |-> AcquireRaidTarget([raid EXCEPT !.enabled = TRUE, !.recall = FALSE, !.members = strike], target), strikes |-> TRUE]
  ELSE Kept(raid)
FreeOf(snap, role, guards) == SelectSeq(OfRole(snap.units, role), LAMBDA u : u.id \notin guards)
RaidBy(snap, shown, target, vanguards, rangers) ==
  RaidWith(snap, shown, target,
           SelectStrikeGroup(vanguards, rangers, CoreAssaultQuota(Len(vanguards), Len(rangers), 0, 0)),
           RaidActive(raid) /\ raid.at # NoCell)
RaidQuotaHook(snap, membership, shown, target) ==
  LET guards == RaidGuardIds(membership, squads)
  IN  RaidBy(snap, shown, target, FreeOf(snap, "VANGUARD", guards), FreeOf(snap, "RANGER", guards))

-----------------------------------------------------------------------------
(* The game.                                                                             *)
Roster(snap) == [id \in {snap.units[i].id : i \in DOMAIN snap.units} |-> (CHOOSE u \in ToSet(snap.units) : u.id = id).role]
IsLed(o) == o[1] = "SHOOT" /\ o[3] = "led"

\* What became of the shots a unit led at an enemy that stayed in sight: the ones missed in a row, and the pause owed.
Scored(snap, led) ==
  LET Seen(u) == {e \in snap.enemies : e.id = led[u].enemy}
      Stood(u) == \E e \in Seen(u) : e.at = led[u].at
      Missed(u) == IF ~Stood(u) THEN 0 ELSE IF led[u].shot THEN led[u].misses + 1 ELSE led[u].misses
  IN  [u \in {v \in DOMAIN led : Seen(v) # {}} |->
         [led[u] EXCEPT !.misses = Missed(u), !.shot = FALSE,
                        !.until = IF led[u].shot /\ Missed(u) >= Config.missCap THEN snap.tick + Config.missCooldown ELSE @]]
Noted(scored, snap, given, memory) ==
  LET Shot(i) == LET u == snap.units[i].id
                     r == memory.records[u]
                     old == IF u \in DOMAIN scored THEN scored[u] ELSE [enemy |-> r.enemy, misses |-> 0, until |-> 0]
                 IN  u :> [enemy |-> r.enemy, at |-> r.at, misses |-> IF old.enemy = r.enemy THEN old.misses ELSE 0, until |-> old.until, shot |-> TRUE]
  IN  FoldLeft(LAMBDA led, i : IF IsLed(given[i]) THEN Shot(i) @@ led ELSE led, scored, [i \in DOMAIN given |-> i])

RaidOrders(snap, given, hook) ==
  [i \in DOMAIN snap.units |->
     IF hook.strikes /\ snap.units[i].id \in hook.raid.members
     THEN ApplyRaidStrike(snap, snap.units[i], hook.raid.at, given[i]) ELSE given[i]]
FightersDecide(snap) ==
  \E d \in {Decide(snap, mind, 99)}, membership \in {ReconcileTacticalSquads(snap.units, squads)},
     shown \in {AdvanceStationaryCores(snap, stationary)} :
    \E target \in PickRaidTarget(shown, snap.core) : \E hook \in {RaidQuotaHook(snap, membership, shown, target)} :
      /\ mind' = d.m /\ squads' = membership /\ stationary' = shown /\ raid' = hook.raid
      /\ backlog' = ReconcileReplacementQueue(roles, Roster(snap), backlog) /\ roles' = Roster(snap)
      /\ orders' = RaidOrders(snap, d.orders, hook)
      /\ seen' = [shown |-> LastOf(Append(seen.shown, EnemyCores(snap)), MinObservations), strikes |-> hook.strikes,
                  led |-> Noted(Scored(snap, seen.led), snap, orders', d.m)]

\* One fighter may die or be born in a turn.
Changes(units) ==
  {units} \cup {SelectSeq(units, LAMBDA u : u.id # id) : id \in battle.mortal}
          \cup {SortSeq(Append(units, b), LAMBDA x, y : x.id < y.id) : b \in {u \in battle.born : \A i \in DOMAIN units : units[i].id # u.id}}
SkirmishTurn ==
  /\ field.tick < battle.ticks
  /\ \E units \in Changes(field.units), enemies \in battle.enemies, cores \in battle.cores :
       LET next == [field EXCEPT !.tick = @ + 1, !.units = units, !.population = Len(units), !.enemies = enemies, !.cores = cores]
       IN  field' = next /\ FightersDecide(next)
  /\ UNCHANGED battle

SkirmishInit ==
  /\ battle \in Battles
  /\ field = [tick |-> 0, state |-> "normal", core |-> <<0, 0>>, health |-> CoreMaxHp, shield |-> CoreMaxShield, resources |-> 0,
          capacity |-> CoreResourceCapacity(Len(battle.units)), population |-> Len(battle.units), units |-> battle.units,
          enemies |-> {}, cores |-> {}, obstacles |-> battle.walls, beacon |-> [status |-> "carried", carrier |-> -1, at |-> <<0, 0>>], mines |-> {}]
  /\ mind = NoPlannerMemory /\ squads = <<>> /\ stationary = <<>> /\ raid = NoRaid
  /\ backlog = [r \in Roles |-> 0] /\ roles = Roster(field) /\ orders = [i \in DOMAIN field.units |-> Wait]
  /\ seen = [shown |-> <<>>, strikes |-> FALSE, led |-> <<>>]
SkirmishSpec == SkirmishInit /\ [][SkirmishTurn]_skirmishVars

-----------------------------------------------------------------------------
\* Who guards the core goes on guarding it while it lives, whoever else dies or is born.
HomeGuardsStay ==
  [][\A id \in DOMAIN squads \cap DOMAIN squads' : squads[id] = Home => squads'[id] = Home]_skirmishVars

\* A raid takes nobody from the core's guard, and takes of a role only when the guard of this role is full.
RaidsLeaveTheGuard ==
  seen.strikes => LET guards == {id \in DOMAIN squads : squads[id] = Home}
                  IN  /\ raid.members \cap guards = {}
                      /\ \A role \in DOMAIN HomeCaps :
                           (\E id \in raid.members : roles[id] = role) => Cardinality({id \in guards : roles[id] = role}) = HomeCaps[role]

\* Fighters are sent only to a core that has been in sight, with nobody on its cell, for the last ticks in a row.
RaidsHitWhatStood ==
  seen.strikes => Len(seen.shown) = MinObservations /\ \A i \in DOMAIN seen.shown : raid.at \in seen.shown[i]

\* After missing an enemy that never moved as often as it may, a ranger leads no shot until the pause is over.
PauseAfterMisses ==
  \A i \in DOMAIN orders : IsLed(orders[i]) =>
    LET u == field.units[i].id IN u \in DOMAIN seen.led => seen.led[u].until <= field.tick
=============================================================================
