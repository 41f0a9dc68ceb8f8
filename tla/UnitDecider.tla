---------------------------- MODULE UnitDecider ----------------------------
(* The part of strategies/composition.py that decides what the units do, tick after   *)
(* tick: it learns the terrain from what the units see and from the moves the game      *)
(* rejected, turns the worker tasks into steps, and overrides them where a unit hangs,   *)
(* where an enemy comes near, where a unit stands in the core's way and, last, where a   *)
(* step leads into an obstacle it knows. The tasks themselves are WorkerAssignment's,    *)
(* the guards' steps the safety planner's: here a worker carries from one mine to the    *)
(* core and a guard goes to its post.                                                  *)
EXTENDS Grid

-----------------------------------------------------------------------------
(* What the decider remembers of the moves of one unit and how it breaks out of the   *)
(* places a unit hangs in (strategies/movement_guard.py, stuck_guard.py). Times are    *)
(* counted from the current tick: a pause, a cooldown or a stall is so many ticks, and  *)
(* counts that only matter up to a threshold stop there.                               *)
CONSTANTS BlockedStreak, BlockedPause,                       \* DEFAULT_BLOCKED_STREAK, DEFAULT_BLOCKED_PAUSE_TICKS
          LoopWindow, LoopMinUnique, LoopBox, LoopStatic,    \* DEFAULT_LOOP_*
          LoopCooldown, TrailKeep,
          DepositStall, DepositStreak,                       \* DEFAULT_DEPOSIT_*
          SpinTicks, SpinBudget, SpinDistance,               \* DEFAULT_CARGO_*
          StuckTicks, StuckRadius                            \* DEFAULT_STUCK_GUARD_*
ASSUME GuardAssumption == {BlockedStreak, BlockedPause, LoopWindow, LoopMinUnique, LoopStatic, LoopCooldown, TrailKeep,
                           DepositStall, DepositStreak, SpinTicks, SpinBudget, SpinDistance, StuckTicks, StuckRadius}
                          \subseteq Nat \ {0}

Less(n) == Larger(0, n - 1)
Extent(cells, axis) == Max({c[axis] : c \in cells}) - Min({c[axis] : c \in cells})

(* The short stop after consecutive rejected moves.                                   *)
NoBackoff == [streak |-> 0, pause |-> 0]
UpdateMoveBackoffForEver(state, moved, rejected) ==
  IF moved THEN NoBackoff
  ELSE IF ~rejected THEN state
  ELSE [streak |-> Smaller(BlockedStreak, state.streak + 1),
        pause |-> IF state.streak + 1 >= BlockedStreak THEN BlockedPause ELSE state.pause]
UpdateMoveBackoff(state, moved, rejected) ==
  LET streak == Smaller(BlockedStreak, state.streak + 1)
  IN  IF moved THEN NoBackoff
      ELSE IF ~rejected THEN [state EXCEPT !.pause = Less(@)]
      ELSE [streak |-> streak, pause |-> IF streak >= BlockedStreak THEN BlockedPause ELSE Less(state.pause)]
ShouldPauseMove(state) == state.pause > 0

(* The trail of a unit, and the loop it may be in.                                    *)
NoTrail == [history |-> <<>>, static |-> 0, cooldown |-> 0, side |-> 0]
ObserveLoopPosition(trail, at) ==
  [trail EXCEPT !.history = LastOf(Append(@, at), LoopWindow), !.cooldown = Less(@),
                !.static = IF trail.history # <<>> /\ Last(trail.history) = at THEN Smaller(LoopStatic, @ + 1) ELSE 1]
FootprintDiameter(cells) == Extent(cells, 1) + Extent(cells, 2)
Confined(history, target) ==
  /\ Len(history) >= Larger(4, LoopWindow \div 2)
  /\ Cardinality(ToSet(history)) <= LoopMinUnique
  /\ FootprintDiameter(ToSet(history)) <= LoopBox
  /\ target = <<>> \/ Manhattan(Head(history), target) - Manhattan(Last(history), target) < 2
DetectSpatialLoop(trail, target) ==
  trail.cooldown = 0 /\ (trail.static >= LoopStatic \/ Confined(trail.history, target))
SoftObstaclesFromTrail(trail, origin) ==
  (ToSet(LastOf(trail.history, TrailKeep)) \cup ({StepTo(origin, d) : d \in Direction} \cap ToSet(trail.history))) \ {origin}
MarkLoopRepath(trail) == [trail EXCEPT !.static = 0, !.cooldown = LoopCooldown, !.side = 1 - @]

(* The way home of a loaded worker.                                                   *)
NoProgress == [best |-> -1, stalled |-> 0, streak |-> 0]
RefreshDepositProgress(state, distance) ==
  IF state = NoProgress \/ distance < state.best THEN [best |-> distance, stalled |-> 0, streak |-> 0]
  ELSE IF distance > state.best + 2 THEN [state EXCEPT !.best = distance, !.stalled = 0]
  ELSE [state EXCEPT !.stalled = Smaller(DepositStall, @ + 1)]
DepositEscapeNeeded(state) == state.stalled >= DepositStall \/ state.streak >= DepositStreak
RecordDepositRepath(state, repathed) ==
  [state EXCEPT !.streak = IF repathed THEN Smaller(DepositStreak, @ + 1) ELSE Less(@)]

(* The escape step: off the axis that leads to the target, never further away when a  *)
(* step that is not is free, and never into an obstacle.                               *)
EscapeOrderFrom(primary, side) ==
  LET across == IF primary \in {"N", "S"} THEN <<"E", "W">> ELSE <<"S", "N">>
  IN  (IF side = 0 THEN across ELSE Reverse(across)) \o <<primary, Opposite(primary)>>
PrimaryStep(dx, dy) == IF dx # 0 /\ Abs(dx) >= Abs(dy) THEN XAxis(dx)[1] ELSE YAxis(dy)[1]
EscapeOrder(origin, target, side) == EscapeOrderFrom(PrimaryStep(target[1] - origin[1], target[2] - origin[2]), side)
EscapeKey(origin, target, far, across) ==
  (IF far > Manhattan(origin, target) THEN 20000 ELSE 0) + (IF across THEN 0 ELSE 10000) + far
FreeEscape(origin, target, order, free) ==
  IF free = {} THEN "none"
  ELSE LeastAmong(order, free,
                  LAMBDA d : EscapeKey(origin, target, Manhattan(StepTo(origin, d), target), d \in {order[1], order[2]}))
EscapeBy(origin, target, order, obstacles) ==
  FreeEscape(origin, target, order, {i \in DOMAIN order : StepTo(origin, order[i]) \notin obstacles})
ForcedEscapeStep(origin, target, obstacles, side) ==
  IF origin = target THEN "none" ELSE EscapeBy(origin, target, EscapeOrder(origin, target, side), obstacles)

(* A loaded worker that has been going round in a few cells far from the core; a unit *)
(* whose last positions fit in a small box.                                            *)
CargoSpinSelfHeal(positions, cargo, core) ==
  /\ cargo > 0 /\ Len(positions) = SpinTicks
  /\ Cardinality(ToSet(positions)) <= SpinBudget
  /\ Manhattan(core, Last(positions)) > SpinDistance
PositionsStuck(cells) == Extent(cells, 1) <= StuckRadius /\ Extent(cells, 2) <= StuckRadius
DetectStuckUnitIds(positions) ==
  {id \in DOMAIN positions : Len(positions[id]) = StuckTicks /\ PositionsStuck(ToSet(positions[id]))}

-----------------------------------------------------------------------------
(* The world the decider plays in and what it keeps.                                   *)
CONSTANTS Workers, Guards,        \* the units, numbers in id order
          Core, Mine, Post,       \* cells
          Worlds,                 \* the worlds a behaviour may be played in: walls, enemies and how far the units see
          Starts,                 \* the placements of the units at first
          Overrides,              \* whether another layer may replace a unit's order before it is submitted
          StickyTicks, RecallDistance, RecallRoutes, SanctuaryRadius, FleeRadius, Lookahead,
          RouteRadius, RouteBudget,
          CarryLimit              \* bound on the count of ticks a worker is loaded
Units == Workers \cup Guards
ASSUME DeciderAssumption ==
  /\ Workers \cap Guards = {} /\ Units \subseteq Nat /\ IsFiniteSet(Units) /\ Overrides \in BOOLEAN
  /\ {Core, Mine, Post} \subseteq Int \X Int /\ Lookahead \in Nat
  /\ Starts \subseteq [Units -> [pos : Int \X Int, cargo : {0, 1}]]

VARIABLES world,      \* walls, sight, enemies: what a behaviour is played in
          units,      \* where each unit stands and its cargo
          failures,   \* the moves the last turn rejected: unit -> reason
          plan,       \* the unit orders of the decider
          memory,     \* what the ComposedDecider object keeps between the ticks
          paused,     \* how many ticks in a row a unit has been held by a short stop
           loaded      \* how many ticks in a row it has carried cargo
vars == <<world, units, failures, plan, memory, paused, loaded>>

Act(type) == [type |-> type, dir |-> "none"]
Move(d) == [type |-> "MOVE", dir |-> d]
Task(type, target) == [type |-> type, target |-> target]
NoTask == Task("WAIT", NoCell)

-----------------------------------------------------------------------------
(* Learning the terrain.                                                               *)
\* A rejected move is paired with the direction the decider had planned for the unit.
InferBlockedCellsAnyReason(at, rejected, heading) ==
  {StepTo(at[id].pos, heading[id]) : id \in {u \in DOMAIN at : u \in DOMAIN rejected /\ u \in DOMAIN heading}}
InferBlockedCells(at, rejected, heading) ==
  {StepTo(at[id].pos, heading[id]) :
     id \in {u \in DOMAIN at : u \in DOMAIN rejected /\ rejected[u] = "MOVE_BLOCKED_TERRAIN" /\ u \in DOMAIN heading}}
RecordBlockedMove(terrain, cells) == terrain \cup cells   \* cell after cell
ObserveOnlyVisible(terrain, visible) == visible
Observe(terrain, visible) == terrain \cup visible
VisibleFrom(at) == {w \in world.walls : \E id \in Units : Chebyshev(w, at[id].pos) <= world.sight}

-----------------------------------------------------------------------------
(* The guards against stuck units.                                                     *)
StuckBlockedCells(recent, tasks) ==
  {tasks[id].target : id \in {u \in DetectStuckUnitIds(recent) \cap DOMAIN tasks : tasks[u].type = "GO_RESOURCE"}}

MovementTargetFor(task) ==
  IF task.type \in {"GO_RESOURCE", "DEPOSIT", "RETURN_FOR_HEAL", "PICKUP_BEACON"} THEN task.target ELSE NoCell
IsCoreReturn(task) == task.type \in {"DEPOSIT", "RETURN_FOR_HEAL"}

\* One unit: its records of the moves, and the escape step or the pause they call for. The records are seen:
\* [at, terrain, task, target, moved, still, backoff, trail, held], the held escape step included.
Escape(seen, trail, to) ==
  ForcedEscapeStep(seen.at, to, SoftObstaclesFromTrail(trail, seen.at) \cup seen.terrain, trail.side)
\* First the short stop, and after two rejected moves a step out of it; then the loop, or the way home that stalls.
Paused(seen) == seen.held.left = 0 /\ ShouldPauseMove(seen.backoff)
BackoffEscape(seen, pauses) ==
  IF seen.held.left = 0 /\ ~pauses /\ seen.backoff.streak >= 2
  THEN Escape(seen, seen.trail, IF seen.target = NoCell THEN Core ELSE seen.target) ELSE "none"
Guarded(seen, pauses, away, loops, trail, returns, was, progress, second) ==
  [backoff |-> seen.backoff, trail |-> trail,
   sticky |-> IF away # "none" THEN [dir |-> away, left |-> StickyTicks] ELSE seen.held,
   progress |-> IF returns THEN RecordDepositRepath(progress, DepositEscapeNeeded(progress)) ELSE was,
   escape |-> IF second # "none" THEN second ELSE IF seen.held.left > 0 THEN seen.held.dir ELSE away,
   pause |-> pauses,
   block |-> IF loops /\ seen.task.type = "GO_RESOURCE" THEN {seen.task.target} ELSE {}]
GuardReturn(seen, pauses, away, loops, trail, returns, was, progress) ==
  Guarded(seen, pauses, away, loops, trail, returns, was, progress,
          IF loops \/ (returns /\ DepositEscapeNeeded(progress))
          THEN Escape(seen, trail, IF loops THEN seen.target ELSE Core) ELSE "none")
GuardLoop(seen, was, pauses, away, loops) ==
  GuardReturn(seen, pauses, away, loops, IF loops THEN MarkLoopRepath(seen.trail) ELSE seen.trail,
              ~loops /\ seen.target # NoCell /\ IsCoreReturn(seen.task), was,
              RefreshDepositProgress(was, Manhattan(seen.at, Core)))
GuardSeen(seen, was, pauses) ==
  GuardLoop(seen, was, pauses, BackoffEscape(seen, pauses), seen.target # NoCell /\ DetectSpatialLoop(seen.trail, seen.target))
TargetOr(target, id) == IF target = NoCell /\ id \in Guards THEN Core ELSE target
SeenBy(m, id, at, terrain, moved, still) ==
  [at |-> at, terrain |-> terrain, task |-> m.tasks[id], target |-> TargetOr(MovementTargetFor(m.tasks[id]), id),
   backoff |-> UpdateMoveBackoff(m.backoff[id], moved /\ ~still, moved /\ still),
   trail |-> ObserveLoopPosition(m.trail[id], at),
   held |-> IF moved /\ still THEN [dir |-> "none", left |-> 0] ELSE [m.sticky[id] EXCEPT !.left = Less(@)]]
GuardKnown(seen, was) == GuardSeen(seen, was, Paused(seen))
GuardUnit(m, id, at, terrain) ==
  LET known == m.trail[id].history # <<>>
  IN  GuardKnown(SeenBy(m, id, at, terrain, m.moved[id] /\ known, known /\ Last(m.trail[id].history) = at), m.progress[id])
MovementGuardHook(m, at, terrain) == [id \in Units |-> GuardUnit(m, id, at[id].pos, terrain)]

\* The first loaded worker that spins far from the core draws the core toward it.
CargoHealDirection(target, terrain) ==
  LET primary == StepToward(Core, target)
      free == SelectSeq(<<"N", "E", "S", "W">>, LAMBDA d : StepTo(Core, d) \notin terrain)
  IN  IF StepTo(Core, primary) \notin terrain \/ free = <<>> THEN primary
      ELSE LeastBy(free, LAMBDA d : Manhattan(StepTo(Core, d), target))
CargoSpinCoreAction(spin, at, terrain) ==
  LET spinning == {id \in Workers : at[id].cargo > 0 /\ CargoSpinSelfHeal(spin[id], at[id].cargo, Core)}
  IN  IF spinning = {} THEN "none" ELSE CargoHealDirection(at[Min(spinning)].pos, terrain)

-----------------------------------------------------------------------------
(* Tasks to steps.                                                                     *)
RoutingObstacles(terrain) == terrain \cup {Core}
\* A*, then the first free direction toward the target, then a step that looks at nothing.
RouteDirectionBlind(at, target, obstacles, discouraged) == StepToward(at, target)
RouteDirection(at, target, obstacles, discouraged) ==
  LET routed == AStarNextStep(at, target, obstacles, discouraged, RouteRadius, RouteBudget)
  IN  IF routed # "none" THEN routed
      ELSE FirstWhere(TowardTarget(at, target), LAMBDA d : StepTo(at, d) \notin obstacles, StepToward(at, target))
\* The core's cell has one free place: who stands beside it waits while another unit is on it.
CoreReturnWaits(id, at) == Manhattan(at[id].pos, Core) = 1 /\ \E o \in Units \ {id} : at[o].pos = Core

\* Workers without a target fan out over sixteen directions, cut down to the four of a step.
DenseDeltas == <<<<1, 0>>, <<2, 1>>, <<1, 1>>, <<1, 2>>, <<0, 1>>, <<-1, 2>>, <<-1, 1>>, <<-2, 1>>,
                 <<-1, 0>>, <<-2, -1>>, <<-1, -1>>, <<-1, -2>>, <<0, -1>>, <<1, -2>>, <<1, -1>>, <<2, -1>>>>
WorkerDenseDirection(index) == IF index < 8 THEN 2 * ((index * 3 + 7) % 8) ELSE 2 * (((index - 8) * 3 + 7) % 8) + 1
DenseToCardinal(slot) ==
  LET dx == DenseDeltas[slot + 1][1]
      dy == DenseDeltas[slot + 1][2]
  IN  IF Abs(dx) >= Abs(dy) THEN XAxis(dx)[1] ELSE YAxis(dy)[1]
WorkerOrdinal(id) == Cardinality({w \in Workers : w < id})

\* What is left of the tasks after the ones that stand still: a step around the obstacles of the task.
TaskObstacles(task, m) ==
  IF task.type \in {"RETURN_FOR_HEAL", "GO_RESOURCE"} THEN RoutingObstacles(m.terrain) ELSE m.terrain
TaskStep(id, task, pos, m) ==
  Move(RouteDirection(pos, task.target, TaskObstacles(task, m), SoftObstaclesFromTrail(m.trail[id], pos)))
TaskAction(id, task, at, m) ==
  LET pos == at[id].pos
  IN  CASE task.type = "DEPOSIT" /\ pos = Core -> Act("DEPOSIT")
        [] task.type = "HARVEST_CURRENT" \/ (task.type = "GO_RESOURCE" /\ pos = task.target) -> Act("HARVEST")
        [] task.type = "WAIT" \/ (IsCoreReturn(task) /\ CoreReturnWaits(id, at)) -> Act("WAIT")
        [] task.type = "EXPLORE" /\ task.target = NoCell -> Move(DenseToCardinal(WorkerDenseDirection(WorkerOrdinal(id))))
        [] task.type = "EXPLORE" /\ pos = task.target -> Act("WAIT")
        [] OTHER -> TaskStep(id, task, pos, m)
MergeWorkerTasks(orders, tasks, at, m) ==
  [id \in Units |-> IF id \in Workers THEN TaskAction(id, tasks[id], at, m) ELSE orders[id]]

-----------------------------------------------------------------------------
(* The overrides, in the order of the code.                                            *)
Parking == [i \in 1..4 |-> StepTo(Core, <<"N", "E", "S", "W">>[i])]
OpenParking(terrain) == {i \in 1..4 : Parking[i] \notin terrain}
\* A step toward the nearest parking cell: routed for the first few of the tick, greedy for the others.
HomeStepTo(pos, parking, terrain, routed) ==
  LET way == IF routed THEN AStarNextStep(pos, parking, RoutingObstacles(terrain), {}, RouteRadius, RouteBudget) ELSE "none"
  IN  Move(IF way # "none" THEN way ELSE StepToward(pos, parking))
HomeStep(pos, terrain, routed) ==
  HomeStepTo(pos, LeastAmong(Parking, OpenParking(terrain), LAMBDA c : Manhattan(pos, c)), terrain, routed)

\* Idle workers left far from the core walk home, the farthest first.
RecallStrandedWorkers(orders, at, terrain) ==
  LET Far(id) == Manhattan(at[id].pos, Core)
      stranded == {id \in Workers : orders[id].type = "WAIT" /\ at[id].cargo = 0 /\ Far(id) > RecallDistance}
      first == {id \in stranded : Cardinality({o \in stranded : Far(o) > Far(id) \/ (Far(o) = Far(id) /\ o < id)}) < RecallRoutes}
  IN  IF OpenParking(terrain) = {} THEN orders
      ELSE [id \in Units |-> IF id \in stranded THEN HomeStep(at[id].pos, terrain, id \in first) ELSE orders[id]]

ApplyMovementOverrides(orders, guard) ==
  [id \in Units |-> IF orders[id].type # "MOVE" THEN orders[id]
                    ELSE IF guard[id].pause THEN Act("WAIT")
                    ELSE IF guard[id].escape # "none" THEN Move(guard[id].escape) ELSE orders[id]]

\* Workers without cargo do not walk on when an enemy is at the core's door, or near themselves.
WorkerThreatSanctuary(orders, at, enemies, terrain) ==
  LET door == \E e \in enemies : Manhattan(Core, e) <= SanctuaryRadius
      flees == {id \in Workers : /\ orders[id].type = "MOVE" /\ at[id].cargo = 0 /\ Manhattan(at[id].pos, Core) > 1
                                 /\ door \/ \E e \in enemies : Manhattan(at[id].pos, e) <= FleeRadius}
      first == {id \in flees : Cardinality({o \in flees : o < id}) < RecallRoutes}
  IN  IF enemies = {} \/ OpenParking(terrain) = {} THEN orders
      ELSE [id \in Units |-> IF id \in flees THEN HomeStep(at[id].pos, terrain, id \in first) ELSE orders[id]]

\* An idle worker on the core's cell takes the first step off it that has a free place.
VacateStep(at, enemies, terrain) ==
  FirstWhere(<<"E", "S", "N", "W">>,
             LAMBDA d : LET c == StepTo(Core, d)
                        IN  c \notin terrain /\ Cardinality({id \in Units : at[id].pos = c}) + Cardinality(enemies \cap {c}) < 2,
             "none")
Vacated(orders, at, off) ==
  [id \in Units |-> IF id \in Workers /\ at[id].cargo = 0 /\ at[id].pos = Core /\ orders[id].type = "WAIT" /\ off # "none"
                    THEN Move(off) ELSE orders[id]]
VacateCoreCellActions(orders, at, enemies, terrain) == Vacated(orders, at, VacateStep(at, enemies, terrain))

\* The last word: a step into a known obstacle becomes an escape along it. The other side is tried
\* when the unit has not moved since the last tick. A step off the core's cell is left alone.
SlidesWorkers(id, order, at, terrain) ==
  order.type = "MOVE" /\ id \in Workers /\ at[id].pos # Core /\ StepTo(at[id].pos, order.dir) \in terrain
Slides(id, order, at, terrain) ==
  order.type = "MOVE" /\ at[id].pos # Core /\ StepTo(at[id].pos, order.dir) \in terrain
SlideSide(m, id, pos) == IF id \in DOMAIN m.positions /\ m.positions[id] = pos THEN 1 - m.side[id] ELSE m.side[id]
Heading(pos, d) == <<pos[1] + Lookahead * Delta[d][1], pos[2] + Lookahead * Delta[d][2]>>
SlideBy(step) == IF step = "none" THEN Act("WAIT") ELSE Move(step)
SlideAroundKnownObstacles(orders, at, m) ==
  [id \in Units |->
     IF ~Slides(id, orders[id], at, m.terrain) THEN orders[id]
     ELSE SlideBy(ForcedEscapeStep(at[id].pos, Heading(at[id].pos, orders[id].dir), m.terrain, SlideSide(m, id, at[id].pos)))]

-----------------------------------------------------------------------------
(* decide_snapshot, for the units.                                                     *)
\* The safety planner's guards step toward their post without a look at the terrain.
Baseline(at) == [id \in Units |-> IF id \in Guards /\ at[id].pos # Post THEN Move(StepToward(at[id].pos, Post)) ELSE Act("WAIT")]
\* The assignment layer, for one mine: it is left alone while it is blocked or under an enemy.
TaskFor(unit, blocked, enemies) ==
  IF unit.cargo > 0 THEN Task("DEPOSIT", Core)
  ELSE IF unit.pos = Mine /\ Mine \notin enemies THEN Task("HARVEST_CURRENT", Mine)
  ELSE IF Mine \in blocked THEN Task("EXPLORE", NoCell)
  ELSE IF Mine \in enemies THEN NoTask
  ELSE Task("GO_RESOURCE", Mine)

Heard(m, at, rejected, visible) ==
  [m EXCEPT !.terrain = Observe(RecordBlockedMove(@, InferBlockedCells(at, rejected, m.heading)), visible),
            !.recent = [id \in Workers |-> LastOf(Append(@[id], at[id].pos), StuckTicks)],
            !.spin = [id \in Workers |-> LastOf(Append(@[id], at[id].pos), SpinTicks)]]

\* What the decider orders and what it remembers, from what it is shown.
Remembered(guarded, at, tasks, vacated, orders) ==
  [guarded EXCEPT !.tasks = tasks,
     !.side = [id \in Units |-> IF Slides(id, vacated[id], at, guarded.terrain) THEN SlideSide(guarded, id, at[id].pos) ELSE @[id]],
     !.moved = [id \in Units |-> orders[id].type = "MOVE"],
     !.heading = [id \in {u \in Units : orders[u].type = "MOVE"} |-> orders[id].dir],
     !.positions = [id \in Units |-> at[id].pos]]
Answer(guarded, guard, at, tasks, vacated, orders) ==
  [orders |-> orders, core |-> CargoSpinCoreAction(guarded.spin, at, guarded.terrain),
   paused |-> {id \in Units : guard[id].pause}, memory |-> Remembered(guarded, at, tasks, vacated, orders)]
SlideOrders(guarded, guard, at, tasks, vacated) ==
  Answer(guarded, guard, at, tasks, vacated, SlideAroundKnownObstacles(vacated, at, guarded))
\* The tasks as steps, and the overrides one after the other.
Overridden(guarded, guard, at, tasks, enemies) ==
  VacateCoreCellActions(
    WorkerThreatSanctuary(
      ApplyMovementOverrides(
        RecallStrandedWorkers(MergeWorkerTasks(Baseline(at), tasks, at, guarded), at, guarded.terrain), guard),
      at, enemies, guarded.terrain),
    at, enemies, guarded.terrain)
OrderTasks(guarded, guard, at, tasks, enemies) ==
  SlideOrders(guarded, guard, at, tasks, Overridden(guarded, guard, at, tasks, enemies))
TasksFor(at, blocked, enemies) == [id \in Units |-> IF id \in Workers THEN TaskFor(at[id], blocked, enemies) ELSE NoTask]
DecideGuarded(heard, guard, at, enemies) ==
  OrderTasks([heard EXCEPT !.trail = [id \in Units |-> guard[id].trail], !.backoff = [id \in Units |-> guard[id].backoff],
                           !.sticky = [id \in Units |-> guard[id].sticky], !.progress = [id \in Units |-> guard[id].progress]],
             guard, at,
             TasksFor(at, StuckBlockedCells(heard.recent, heard.tasks) \cup UNION {guard[id].block : id \in Units}, enemies),
             enemies)
DecideHeard(heard, at, enemies) == DecideGuarded(heard, MovementGuardHook(heard, at, heard.terrain), at, enemies)
\* What the decider orders and what it remembers, from what it is shown.
DecideSnapshot(m, at, rejected, visible, enemies) == DecideHeard(Heard(m, at, rejected, visible), at, enemies)

NoMemory ==
  [terrain |-> {}, recent |-> [id \in Workers |-> <<>>], spin |-> [id \in Workers |-> <<>>],
   trail |-> [id \in Units |-> NoTrail], backoff |-> [id \in Units |-> NoBackoff],
   sticky |-> [id \in Units |-> [dir |-> "none", left |-> 0]], progress |-> [id \in Units |-> NoProgress],
   tasks |-> [id \in Units |-> NoTask], side |-> [id \in Units |-> 0], moved |-> [id \in Units |-> FALSE],
   heading |-> <<>>, positions |-> <<>>]

-----------------------------------------------------------------------------
(* The turns: the game resolves the orders that were submitted, one unit after the    *)
(* other, and the decider answers what it is then shown.                               *)
Room(at, c) == Cardinality({id \in Units : at[id].pos = c}) + (IF c = Core THEN 1 ELSE 0) < 2
Fail(r, id, reason) ==
  [r EXCEPT !.rejected = [u \in {id} \cup DOMAIN @ |-> IF u = id THEN reason ELSE @[u]]]
MoveTo(r, id, to) ==
  IF to \in world.walls THEN Fail(r, id, "MOVE_BLOCKED_TERRAIN")
  ELSE IF ~Room(r.at, to) THEN Fail(r, id, "CELL_UNIT_LIMIT")
  ELSE [r EXCEPT !.at[id].pos = to]
Play(r, id, order) ==
  CASE order.type = "MOVE" -> MoveTo(r, id, StepTo(r.at[id].pos, order.dir))
    [] order.type = "DEPOSIT" -> [r EXCEPT !.at[id].cargo = 0]
    [] order.type = "HARVEST" -> [r EXCEPT !.at[id].cargo = 1]
    [] OTHER -> r
Resolve(orders) ==
  MapThenFoldSet(LAMBDA id, r : Play(r, id, orders[id]), [at |-> units, rejected |-> <<>>],
                 LAMBDA id : id, LAMBDA ids : Max(ids), Units)
\* A layer above the decider (a human order, the fallback of the tick loop) may replace an order it never hears of.
Submitted == {plan} \cup (IF Overrides THEN {[plan EXCEPT ![id] = Move(d)] : id \in Units, d \in Direction} ELSE {})

Decided(answer) == plan' = answer.orders /\ memory' = answer.memory
Init == /\ world \in Worlds
        /\ units \in Starts /\ failures = <<>>
        /\ \E answer \in {DecideSnapshot(NoMemory, units, <<>>, VisibleFrom(units), world.enemies)} :
             plan = answer.orders /\ memory = answer.memory
        /\ paused = [id \in Units |-> 0] /\ loaded = [id \in Units |-> 0]
Turn == \E orders \in Submitted : \E result \in {Resolve(orders)} :
          \E answer \in {DecideSnapshot(memory, result.at, result.rejected, VisibleFrom(result.at), world.enemies)} :
            /\ units' = result.at /\ failures' = result.rejected
            /\ Decided(answer)
            /\ paused' = [id \in Units |-> IF id \in answer.paused THEN paused[id] + 1 ELSE 0]
            /\ loaded' = [id \in Units |-> IF result.at[id].cargo > 0 THEN Smaller(CarryLimit + 1, loaded[id] + 1) ELSE 0]
            /\ UNCHANGED world
Next == Turn
Spec == Init /\ [][Next]_vars

-----------------------------------------------------------------------------
\* No unit is ordered into a cell the decider knows to be an obstacle, wherever the order comes from. The
\* steps off the core's cell are the exception the code makes.
NoStepIntoKnownObstacle ==
  \A id \in Units : plan[id].type = "MOVE" /\ units[id].pos # Core => StepTo(units[id].pos, plan[id].dir) \notin memory.terrain

\* A step the game rejected for the terrain is not ordered again from the same cell.
RejectedStepIsNotRepeated ==
  [][\A id \in Units : id \in DOMAIN failures' /\ failures'[id] = "MOVE_BLOCKED_TERRAIN" /\ units'[id].pos # Core
       => plan'[id] # plan[id]]_vars

\* "only the terrain reason is learned", composition.py:2363-2365: what the decider takes for an obstacle is one.
LearnedObstaclesAreTerrain == memory.terrain \subseteq world.walls

\* A short stop is short: no unit is held longer than the pause in a row.
PauseEnds == \A id \in Units : paused[id] <= BlockedPause

\* A loaded worker gets rid of its cargo in time: neither the guards against stuck units nor the other
\* units keep it from a core it can reach.
CargoIsDelivered == \A id \in Workers : loaded[id] <= CarryLimit

\* What the game rejected is known, and no order goes there.
ObstaclesAreLearned == NoStepIntoKnownObstacle /\ LearnedObstaclesAreTerrain

\* Nobody pauses for ever, and cargo gets home.
UnitsKeepMoving == PauseEnds /\ CargoIsDelivered
=============================================================================
