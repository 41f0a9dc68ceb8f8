----------------------------- MODULE CoreHooks -----------------------------
(* What the composed decider makes of the core's order (strategies/composition.py): the  *)
(* planner's order passes the budget, the expansion, the recovery after a respawn, the    *)
(* migration out of a barren region and the way out of a terrain trap, in this order, and  *)
(* each of them keeps counts over the ticks (strategies/respawn_recovery.py). Around it a   *)
(* small game: a core that moves, spawns, heals and respawns, workers that come and go with  *)
(* cargo, an enemy that approaches.                                                          *)
EXTENDS SafetyPlanner

CONSTANTS Plots,            \* the games a behaviour may be played in
          MaxTick,          \* bound
          Haven,            \* where a destroyed core comes back
          MoveTicks,        \* how long the core is moving
          DetectionDistance, BarrenTicks, BarrenCooldown, BarrenDistance, StuckTicks, TrapConfirm,
          StarvationTicks, LowYieldTicks, DeadlockTicks, RecoveryWorkers, EnemyFleeRadius,
          RouteRadius, RouteBudget

VARIABLES s,        \* the snapshot of this tick
          plot,     \* the game it is a turn of
          m, h,     \* the planner's memory and the hooks'
          order, culled,   \* what was decided: the core's order, the workers told to destroy themselves
          moving,   \* ticks of the core's move that are left, and where to
          past      \* counts the properties speak of
coreVars == <<s, plot, m, h, order, culled, moving, past>>

Never == -1
BarrenResets == 3
BarrenFails == 3
DepositHoldRadius == 1
LowYieldPopulation == 4
NoHookMemory ==
  [dead |-> 0, active |-> FALSE, core |-> NoCell, resources |-> Never, population |-> Never, stall |-> 0, harvested |-> {},
   barren |-> [since |-> Never, started |-> Never, resets |-> 0, fails |-> 0, latched |-> FALSE],
   stuck |-> [population |-> Never, since |-> Never], suspects |-> <<>>, starving |-> Never]

-----------------------------------------------------------------------------
(* What the hooks share.                                                                *)
Military(snap) == SelectSeq(snap.units, LAMBDA u : u.role # "WORKER")
OnCore(snap) == SelectSeq(snap.units, LAMBDA u : u.at = snap.core)
Total(units, Of(_)) == FoldLeft(LAMBDA sum, u : sum + Of(u), 0, units)
Projected(snap, reserve) ==
  ProjectedCoreResources(snap.resources, snap.capacity - snap.resources,
                         Total(SelectSeq(OnCore(snap), LAMBDA u : u.role = "WORKER"), LAMBDA u : u.cargo), reserve)
IsSurvival(o) == o # NoOrder /\ o[1] \in {"HEAL", "REPAIR_SHIELD"}
IsMilitarySpawn(o) == o # NoOrder /\ o[1] = "SPAWN" /\ o[2] # "WORKER"
SelfDestruct == <<"SELF_DESTRUCT">>
StartMove(d) == <<"START_MOVE", d>>
OccupiedCells(snap) == {snap.units[i].at : i \in DOMAIN snap.units} \cup {e.at : e \in snap.enemies}

-----------------------------------------------------------------------------
(* The economy.                                                                         *)
\* A spawn that the deposits of the tick, less the healing of the units on the core, do not pay for is skipped.
EconomyBudgetHook(snap, o) ==
  LET hurt == SelectSeq(OnCore(snap), LAMBDA u : u.health < UnitMaxHealth(u.role))
  IN  IF o = NoOrder \/ o[1] # "SPAWN" THEN o
      ELSE IF Projected(snap, HealReserve([i \in DOMAIN hurt |-> hurt[i].role])) >= Priced(snap, o[2]) THEN o ELSE Wait

\* Workers up to the target; and the way out when there is none and none can be paid for.
CountDeadlockStanding(snap, hooks) ==
  [hooks EXCEPT !.dead = IF snap.state # "normal" THEN @ ELSE IF WorkerCount(snap) = 0 THEN @ + 1 ELSE 0]
CountDeadlock(snap, hooks) == [hooks EXCEPT !.dead = IF WorkerCount(snap) = 0 THEN @ + 1 ELSE 0]
Expanded(snap, counted, o, threshold) ==
  LET due == counted.dead >= DeadlockTicks
      Reset == [counted EXCEPT !.dead = 0]
  IN  IF snap.state # "normal" THEN (IF due THEN <<Reset, SelfDestruct>> ELSE <<counted, o>>)
      ELSE IF IsSurvival(o) \/ IsMilitarySpawn(o) \/ WorkerCount(snap) >= Config.workerTarget THEN <<counted, o>>
      ELSE IF Projected(snap, 0) >= threshold THEN <<Reset, Spawn("WORKER")>>
      ELSE IF due /\ WorkerCount(snap) = 0 THEN <<Reset, SelfDestruct>>
      ELSE <<counted, Wait>>
EconomyExpansionHook(snap, hooks, o) ==
  Expanded(snap, CountDeadlock(snap, hooks), o,
           WorkerExpansionThreshold(WorkerCount(snap), Config.workerTarget, snap.capacity, snap.population, Config.workerTarget, 0, 0))

-----------------------------------------------------------------------------
(* Recovery: a core that jumped has been destroyed; until there are workers again it     *)
(* spawns nothing else.                                                                  *)
DetectRespawn(before, core) == before # NoCell /\ Manhattan(before, core) >= DetectionDistance
Jumped(snap, hooks) ==
  [hooks EXCEPT !.active = TRUE, !.harvested = {}, !.stuck = NoHookMemory.stuck,
                !.barren = [NoHookMemory.barren EXCEPT !.fails = hooks.barren.fails]]
Recovered(snap, seen, o) ==
  IF ~seen.active \/ o = SelfDestruct \/ snap.state # "normal" \/ IsSurvival(o)
     \/ (IsMilitarySpawn(o) /\ NearestOf(snap, snap.enemies) <= Config.threatDistance) THEN <<seen, o>>
  ELSE IF WorkerCount(snap) >= RecoveryWorkers THEN <<[seen EXCEPT !.active = FALSE], o>>
  ELSE <<seen, IF Projected(snap, 0) >= Priced(snap, "WORKER") THEN Spawn("WORKER") ELSE Wait>>
RespawnRecoveryHook(snap, hooks, o) ==
  Recovered(snap, [(IF DetectRespawn(hooks.core, snap.core) THEN Jumped(snap, hooks) ELSE hooks) EXCEPT !.core = snap.core], o)

-----------------------------------------------------------------------------
(* Migration out of a barren region.                                                     *)
Clamped(n) == Larger(n - 60, Smaller(n + 60, 0))
RoutedOr(routed, core, blocked) == IF routed # "none" THEN routed ELSE MigrationDirectionTowardOrigin(core, blocked)
MigrationStepTowardOrigin(core, blocked) ==
  IF core = <<0, 0>> THEN "none"
  ELSE RoutedOr(AStarNextStep(core, <<Clamped(core[1]), Clamped(core[2])>>, blocked, {}, RouteRadius, RouteBudget), core, blocked)
MigrationStepAwayFrom(core, enemy, blocked) ==
  LET free == SelectSeq(Compass, LAMBDA d : StepTo(core, d) \notin blocked)
  IN  IF free = <<>> THEN "none" ELSE LeastBy(free, LAMBDA d : -Manhattan(StepTo(core, d), enemy))

HasLocalYield(harvested, core) == \E c \in harvested : Manhattan(core, c) <= BarrenDistance
ObserveBarrenForgetful(b, visible, tick, earning) ==
  LET sighted == IF visible THEN [b EXCEPT !.latched = FALSE, !.resets = @ + 1] ELSE b
  IN  IF earning THEN <<[b EXCEPT !.latched = FALSE, !.resets = 0, !.since = Never, !.started = Never], FALSE>>
      ELSE IF visible /\ sighted.resets <= BarrenResets THEN <<[sighted EXCEPT !.since = Never, !.started = Never], FALSE>>
      ELSE IF sighted.latched THEN <<[sighted EXCEPT !.started = tick], TRUE>>
      ELSE IF sighted.since = Never THEN <<sighted, FALSE>>
      ELSE IF tick - sighted.since < BarrenTicks
              \/ (sighted.started # Never /\ tick - sighted.started < BarrenCooldown) THEN <<sighted, FALSE>>
      ELSE <<[sighted EXCEPT !.started = tick, !.since = tick, !.resets = 0, !.latched = TRUE], TRUE>>
\* BarrenMigrationState.observe: <<state, whether to take a step>>. Resources that keep coming into sight without
\* anything gained from them count as absent.
ObserveBarren(b, visible, tick, earning) ==
  LET sighted == IF visible THEN [b EXCEPT !.latched = FALSE, !.resets = @ + 1] ELSE b
  IN  IF earning THEN <<[b EXCEPT !.latched = FALSE, !.resets = 0, !.since = Never, !.started = Never], FALSE>>
      ELSE IF visible /\ sighted.resets <= BarrenResets THEN <<[sighted EXCEPT !.since = Never, !.started = Never], FALSE>>
      ELSE IF sighted.latched THEN <<[sighted EXCEPT !.started = tick], TRUE>>
      ELSE IF sighted.since = Never THEN <<[sighted EXCEPT !.since = tick], FALSE>>
      ELSE IF tick - sighted.since < BarrenTicks
              \/ (sighted.started # Never /\ tick - sighted.started < BarrenCooldown) THEN <<sighted, FALSE>>
      ELSE <<[sighted EXCEPT !.started = tick, !.since = tick, !.resets = 0, !.latched = TRUE], TRUE>>

\* The core stays poor although there are crumbs: no military, few units, never the price of a worker.
CountStall(snap, hooks) ==
  IF /\ snap.population <= LowYieldPopulation /\ Military(snap) = <<>>
     /\ ~(hooks.population # Never /\ snap.population > hooks.population) /\ snap.resources < Priced(snap, "WORKER")
  THEN Smaller(hooks.stall + 1, LowYieldTicks) ELSE 0
LoadedNearCore(snap) ==
  \E i \in DOMAIN snap.units : LET u == snap.units[i] IN u.role = "WORKER" /\ u.cargo > 0 /\ Manhattan(u.at, snap.core) <= DepositHoldRadius
BlockedByTerrain(snap) == snap.obstacles
BlockedForCore(snap) == snap.obstacles \cup OccupiedCells(snap)
\* The step the terrain alone would allow tells a core that is walled in from one that is only crowded.
Leaves(snap, counted, o, terrain, step, fails) ==
  <<[counted EXCEPT !.barren.fails = fails],
    IF terrain = "none" THEN (IF fails >= BarrenFails THEN SelfDestruct ELSE o)
    ELSE IF step = "none" THEN o ELSE StartMove(step)>>
SetsOut(snap, counted, o, terrain) ==
  Leaves(snap, counted, o, terrain, MigrationStepTowardOrigin(snap.core, BlockedForCore(snap)),
         IF terrain = "none" THEN counted.barren.fails + 1 ELSE 0)
AsObserved(snap, counted, o, observed) ==
  IF observed[2]
  THEN SetsOut(snap, [counted EXCEPT !.barren = observed[1]], o, MigrationStepTowardOrigin(snap.core, snap.obstacles))
  ELSE <<[counted EXCEPT !.barren = observed[1]], o>>
InReach(snap) == \E c \in snap.mines : Manhattan(snap.core, c) <= BarrenDistance
MigrateOrFlee(snap, counted, o, away, dead, earning) ==
  IF LoadedNearCore(snap) THEN <<counted, o>>
  ELSE IF away # "none" THEN <<counted, StartMove(away)>>
  ELSE AsObserved(snap, counted, o, ObserveBarren(counted.barren, InReach(snap) /\ ~dead, snap.tick, earning /\ ~dead))
Earning(snap, hooks) ==
  /\ hooks.resources # Never /\ (snap.resources > hooks.resources \/ snap.population > hooks.population)
  /\ HasLocalYield(hooks.harvested, snap.core)
FleeStep(snap, hooks) ==
  IF hooks.active /\ NearestOf(snap, snap.enemies) <= EnemyFleeRadius
  THEN MigrationStepAwayFrom(snap.core, LeastOf(snap.enemies, LAMBDA e : <<Manhattan(snap.core, e.at), e.id>>).at, BlockedForCore(snap))
  ELSE "none"
Stalled(snap, hooks, o, stall) ==
  MigrateOrFlee(snap, [hooks EXCEPT !.stall = stall, !.resources = snap.resources, !.population = snap.population], o,
                FleeStep(snap, hooks), stall >= LowYieldTicks, Earning(snap, hooks))
BarrenMigrationHook(snap, hooks, o) ==
  IF snap.state # "normal" \/ WorkerCount(snap) = 0 THEN <<hooks, o>> ELSE Stalled(snap, hooks, o, CountStall(snap, hooks))

-----------------------------------------------------------------------------
(* The terrain trap: a worker that sits on the core keeps it from spawning. And the core *)
(* that cannot pay for a worker for long gives itself up.                                *)
\* StuckWithResourcesState.observe: <<state, whether to sacrifice a worker>>
ObserveStuck(stuck, snap) ==
  IF stuck.population # snap.population THEN <<[population |-> snap.population, since |-> snap.tick], FALSE>>
  ELSE <<stuck, snap.resources > 0 /\ snap.tick - stuck.since >= StuckTicks>>
StarvationRespawnDueEarly(snap, hooks) == hooks.stuck.since # Never /\ snap.tick - hooks.stuck.since >= StarvationTicks
StarvationRespawnDue(snap, hooks) ==
  /\ hooks.starving # Never /\ snap.tick - hooks.starving >= StarvationTicks
  /\ hooks.stuck.since # Never /\ snap.tick - hooks.stuck.since >= StarvationTicks
Trapped(idle, tick, suspects) == SelectSeq(idle, LAMBDA u : tick - suspects[u.id] >= TrapConfirm)
TrapSeen(snap, seen, o, sacrifices, trapped) ==
  IF sacrifices /\ trapped # <<>> THEN <<seen, o, {trapped[1].id}>>
  ELSE <<seen, IF StarvationRespawnDue(snap, seen) THEN SelfDestruct ELSE o, {}>>
TrapObserved(snap, hooks, o, idle, suspects, stuck, pays) ==
  TrapSeen(snap, [hooks EXCEPT !.suspects = suspects, !.stuck = stuck[1],
                               !.starving = IF pays THEN Never ELSE IF @ = Never THEN snap.tick ELSE @],
           o, stuck[2] /\ pays, Trapped(idle, snap.tick, suspects))
TrapOf(snap, hooks, o, idle) ==
  TrapObserved(snap, hooks, o, idle,
               [id \in {idle[i].id : i \in DOMAIN idle} |-> IF id \in DOMAIN hooks.suspects THEN hooks.suspects[id] ELSE snap.tick],
               ObserveStuck(hooks.stuck, snap), snap.resources >= Priced(snap, "WORKER"))
TerrainTrapHook(snap, hooks, o) ==
  IF snap.state # "normal" THEN <<hooks, o, {}>>
  ELSE TrapOf(snap, hooks, o, SelectSeq(OnCore(snap), LAMBDA u : u.role = "WORKER" /\ u.cargo = 0))

-----------------------------------------------------------------------------
(* decide_snapshot, for the core.                                                        *)
Pruned(snap, hooks) ==
  LET live == {snap.units[i].id : i \in DOMAIN snap.units}
  IN  [hooks EXCEPT !.suspects = [id \in DOMAIN @ \cap live |-> @[id]]]
\* Each hook is given the hooks' memory and the order as the one before left them.
AfterExpansion(snap, r) == RespawnRecoveryHook(snap, r[1], r[2])
AfterRecovery(snap, r) == BarrenMigrationHook(snap, r[1], r[2])
AfterMigration(snap, r) == TerrainTrapHook(snap, r[1], r[2])
Ordered(snap, planner, r) == [m |-> planner, h |-> Pruned(snap, r[1]), order |-> r[2], culled |-> r[3]]
PassHooks(snap, settled, base, hooks) ==
  Ordered(snap, [settled EXCEPT !.until = base.until],
          AfterMigration(snap, AfterRecovery(snap, AfterExpansion(snap,
            EconomyExpansionHook(snap, hooks, EconomyBudgetHook(snap, base.order))))))
DecideSettled(snap, settled, hooks) == PassHooks(snap, settled, DecideCore(snap, settled), hooks)
DecideCoreOrder(snap, planner, hooks) == DecideSettled(snap, SettledMemory(snap, planner), hooks)
Decided(snap, planner, hooks) ==
  \E d \in {DecideCoreOrder(snap, planner, hooks)} : m' = d.m /\ h' = d.h /\ order' = d.order /\ culled' = d.culled

-----------------------------------------------------------------------------
(* The game.                                                                             *)
Unit(id, role, at) == [id |-> id, role |-> role, at |-> at, cargo |-> 0, health |-> UnitMaxHealth(role)]
Placed(snap) == [snap EXCEPT !.population = Len(snap.units), !.capacity = CoreResourceCapacity(Len(snap.units)),
                             !.resources = Smaller(@, CoreResourceCapacity(Len(snap.units)))]
Reborn(snap) ==
  [snap EXCEPT !.core = Haven, !.health = CoreMaxHp, !.shield = CoreMaxShield, !.resources = 5, !.state = "normal",
               !.units = <<Unit(1, "WORKER", Haven)>>, !.enemies = {}]
SparesRoom(snap) == Len(OnCore(snap)) = 0
FreshId(snap) == Min((1..(Len(snap.units) + 1)) \ {snap.units[i].id : i \in DOMAIN snap.units})
\* The core's order is carried out on what the units left.
PlayCore(snap) ==
  CASE snap.health <= 0 \/ order = SelfDestruct -> Reborn(snap)
    [] order # NoOrder /\ order[1] = "SPAWN" /\ SparesRoom(snap) /\ snap.resources >= Priced(snap, order[2]) ->
         [snap EXCEPT !.units = Append(@, Unit(FreshId(snap), order[2], snap.core)), !.resources = @ - Priced(snap, order[2])]
    [] order = <<"HEAL">> /\ snap.resources > 0 -> [snap EXCEPT !.health = Smaller(CoreMaxHp, @ + 1), !.resources = @ - 1]
    [] order = <<"REPAIR_SHIELD">> /\ snap.resources > 0 -> [snap EXCEPT !.shield = @ + 1, !.resources = @ - 1]
    [] OTHER -> snap
\* A move starts when the cell is free, takes MoveTicks ticks and ends when the cell still is.
FreeOf(snap, c) == c \notin snap.obstacles \cup OccupiedCells(snap)
PlayMoveTo(snap, to) ==
  CASE snap.core # s.core -> <<snap, [left |-> 0, to |-> NoCell]>>
    [] snap.core = s.core /\ moving.left > 1 -> <<snap, [moving EXCEPT !.left = @ - 1]>>
    [] snap.core = s.core /\ moving.left = 1 ->
         <<[snap EXCEPT !.state = "normal", !.core = IF FreeOf(snap, moving.to) THEN moving.to ELSE @], [left |-> 0, to |-> NoCell]>>
    [] snap.core = s.core /\ moving.left = 0 /\ to # NoCell /\ FreeOf(snap, to) ->
         <<[snap EXCEPT !.state = "moving"], [left |-> MoveTicks, to |-> to]>>
    [] OTHER -> <<snap, moving>>
PlayMove(snap) ==
  PlayMoveTo(snap, IF order # NoOrder /\ order[1] = "START_MOVE" THEN StepTo(snap.core, order[2]) ELSE NoCell)

Neighbourhood(c) == {StepTo(c, d) : d \in Direction}
\* Where the plot lets a unit be next; cargo is taken on at a mine and given up on a core that stands still.
Next1(u) == {[u EXCEPT !.at = c, !.cargo = k] : c \in {Plus(s.core, d) : d \in plot.places} \cup {u.at}, k \in {0, 1}}
Plays(u) ==
  IF u.role # "WORKER" \/ ~plot.walks THEN {u}
  ELSE {v \in Next1(u) : /\ v.cargo > u.cargo => v.at = u.at /\ v.at # s.core
                         /\ v.cargo < u.cargo => v.at = u.at /\ v.at = s.core /\ s.state = "normal" /\ s.resources < s.capacity
                         /\ v.at # u.at => v.at \notin s.obstacles /\ v.cargo = u.cargo}
EnemyPlays ==
  {{}} \cup {{e} : e \in UNION {{[o EXCEPT !.at = Plus(@, d)] : d \in plot.steps} : o \in s.enemies}}
           \cup (IF s.enemies = {} THEN {{[id |-> 9, at |-> Plus(s.core, d), kind |-> "UNIT", role |-> "VANGUARD"]} : d \in plot.comes} ELSE {})

Raided == plot.comes = {} \/ s.enemies # {}

\* The turn as it is played and then shown: what the workers gave up, who is left, the core's order and its move.
Gains(units) == Total(units, LAMBDA v : IF \E i \in DOMAIN s.units : s.units[i].id = v.id /\ s.units[i].cargo > v.cargo THEN 1 ELSE 0)
Dug(units) == {units[i].at : i \in {j \in DOMAIN units : units[j].cargo > s.units[j].cargo}}
Outcome(units, gone, enemies, hit) ==
  PlayMove(PlayCore([s EXCEPT !.units = SelectSeq(units, LAMBDA v : v.id \notin gone), !.enemies = enemies,
                              !.health = @ - hit, !.resources = Smaller(s.capacity, @ + Gains(units))]))
Shown(snap, mines) == [Placed(snap) EXCEPT !.tick = @ + 1, !.mines = {Plus(snap.core, c) : c \in mines}]
\* The counts of the properties.
StaysIdle(next) ==
  /\ next.state = "normal" /\ WorkerCount(next) > 0 /\ ~LoadedNearCore(next)
  /\ (order' = NoOrder \/ order'[1] # "START_MOVE")
  /\ next.resources <= s.resources /\ next.population <= s.population
  /\ ~\E c \in next.mines : Manhattan(next.core, c) <= BarrenDistance
  /\ MigrationStepTowardOrigin(next.core, BlockedForCore(next)) # "none"
Counted(next, reborn) ==
  [lone |-> IF WorkerCount(next) = 0 /\ ~IsSurvival(order') /\ ~IsMilitarySpawn(order') /\ ~reborn THEN past.lone + 1 ELSE 0,
   none |-> IF WorkerCount(next) = 0 THEN past.none + 1 ELSE 0,
   poor |-> IF next.resources < Priced(next, "WORKER") THEN past.poor + 1 ELSE 0,
   same |-> IF next.population = s.population /\ ~reborn THEN past.same + 1 ELSE 0,
   walled |-> IF Neighbourhood(next.core) \subseteq next.obstacles THEN past.walled + 1 ELSE 0,
   idle |-> IF StaysIdle(next) /\ ~reborn THEN past.idle + 1 ELSE 0]
Turn ==
  /\ s.tick < MaxTick
  /\ \E units \in {s.units} \cup UNION {{[s.units EXCEPT ![i] = u] : u \in Plays(s.units[i])} : i \in DOMAIN s.units},
        dies \in {{}} \cup {{s.units[i].id} : i \in {j \in DOMAIN s.units : plot.kills /\ Raided}},
        enemies \in EnemyPlays, hit \in (IF plot.hits /\ Raided THEN {0, 1} ELSE {0}), mines \in plot.mines :
       \E played \in {Outcome(units, dies \cup culled, enemies, hit)} : \E next \in {Shown(played[1], mines)} :
         /\ s' = next /\ moving' = played[2]
         /\ Decided(next, m, [h EXCEPT !.harvested = @ \cup Dug(units)])
         /\ past' = Counted(next, next.core = Haven /\ s.core # Haven)
  /\ UNCHANGED plot

NoPast == [lone |-> 0, none |-> 0, poor |-> 0, same |-> 0, walled |-> 0, idle |-> 0]
CoreInit ==
  /\ plot \in Plots
  /\ s = Placed([tick |-> 0, state |-> "normal", core |-> plot.core, health |-> plot.health, shield |-> CoreMaxShield,
                 resources |-> plot.resources, capacity |-> 0, population |-> 0, units |-> plot.units, enemies |-> {},
                 obstacles |-> plot.walls, beacon |-> [status |-> "carried", carrier |-> -1, at |-> <<0, 0>>], mines |-> {}])
  /\ \E d \in {DecideCoreOrder(s, NoPlannerMemory, NoHookMemory)} : m = d.m /\ h = d.h /\ order = d.order /\ culled = d.culled
  /\ moving = [left |-> 0, to |-> NoCell] /\ past = NoPast
CoreSpec == CoreInit /\ [][Turn]_coreVars

-----------------------------------------------------------------------------
\* A colony without workers is not left to itself: unless it heals or defends itself, it orders a worker
\* or gives itself up within the deadlock ticks, whether its core stands or moves.
DeadlockEnds == past.lone < DeadlockTicks \/ order \in {SelfDestruct, Spawn("WORKER")}

\* A core is given up only for a reason that lasted: no worker, nothing to buy one with while nobody came or
\* went, or terrain on every side.
SelfDestructIsJustified ==
  order = SelfDestruct => \/ past.none >= DeadlockTicks
                          \/ past.poor >= StarvationTicks /\ past.same >= StarvationTicks
                          \/ past.walled >= BarrenFails

\* The core never sets out into a cell that is taken, nor while a loaded worker is at its door.
MovesLeaveNobodyBehind ==
  order # NoOrder /\ order[1] = "START_MOVE"
    => /\ StepTo(s.core, order[2]) \notin s.obstacles \cup OccupiedCells(s)
       /\ \A i \in DOMAIN s.units : s.units[i].cargo > 0 => Manhattan(s.units[i].at, s.core) > DepositHoldRadius

\* A core with workers, out of reach of any resource and without income, sets out in time.
BarrenColonyMoves == past.idle <= BarrenTicks + BarrenCooldown

=============================================================================
