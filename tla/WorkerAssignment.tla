-------------------------- MODULE WorkerAssignment --------------------------
(* The worker task planner (planning/worker_assignment.py, task.py, mission.py and   *)
(* min_cost_assignment.py) and the ticks it runs in. Every tick it sees where the     *)
(* workers and the resource cells are, keeps the claims that still stand, forces the   *)
(* tasks that allow no choice and solves the rest as a minimum-cost assignment.        *)
(* Values are hundredths of the code's floats. Workers are numbers, in id order.       *)
EXTENDS Grid

CONSTANTS Workers, Cells, CorePosition,  \* the workers, the cells of the world that may hold a resource, the core
          Obstacles, MaxTick,            \* the cells no one enters, and the bound on the ticks explored
          Mission,                       \* MissionConfig: floor, distance, cap, burstFloor, visible, decay, lookahead, refill, overdue, switch
          StickyBonus, Congestion, ClaimTtl, PreemptPenalty,   \* WorkerTaskPlannerConfig
          Due,                           \* the refill predictions: a function on some of the cells
          RouteRadius, RouteBudget,
          Start                          \* where the workers may stand at first
\* What the constants must be.
PlannerAssumption == /\ Workers \subseteq Nat \ {0} /\ Start # {} /\ MaxTick \in Nat
                     /\ ClaimTtl \in Nat /\ PreemptPenalty \in Nat

VARIABLES tick, units, cells, enemies, burst,  \* what the planner is shown
          last                                 \* what it answered at this tick, its claims and tasks carried to the next
vars == <<tick, units, cells, enemies, burst, last>>

NoTask == [type |-> "WAIT", target |-> NoCell, key |-> NoCell]
TaskOf(type, target) == [type |-> type, target |-> target, key |-> NoCell]
TaskOn(type, cell) == [type |-> type, target |-> cell, key |-> cell]
Before(a, b) == a[1] < b[1] \/ (a[1] = b[1] /\ a[2] < b[2])
InOrder(set) == SetToSortSeq(set, LAMBDA a, b : a < b)

-----------------------------------------------------------------------------
(* The Hungarian method, on rows 1..n and columns 1..m of integer costs; column 0     *)
(* stands for the row being placed.                                                    *)
Infinite == 100000000
ReducedCostRaw(costs, s, row, j) == costs[row][j]
ReducedCost(costs, s, row, j) == costs[row][j] - s.u[row] - s.v[j]
\* The columns that a cheaper way leads to from the column reached last, j0.
Relaxed(costs, s, row, free) ==
  LET better == {j \in free : ReducedCost(costs, s, row, j) < s.minv[j]}
  IN  [s EXCEPT !.used = @ \cup {s.j0},
                !.minv = [j \in free |-> IF j \in better THEN ReducedCost(costs, s, row, j) ELSE @[j]],
                !.way = [j \in DOMAIN @ |-> IF j \in better THEN s.j0 ELSE @[j]]]
Shifted(s, delta) ==
  LET matched == {s.p[j] : j \in s.used}
  IN  [s EXCEPT !.minv = [j \in DOMAIN @ |-> @[j] - delta],
                !.u = [i \in DOMAIN @ |-> IF i \in matched THEN @[i] + delta ELSE @[i]],
                !.v = [j \in DOMAIN @ |-> IF j \in s.used THEN @[j] - delta ELSE @[j]],
                !.j0 = Min({j \in DOMAIN s.minv : s.minv[j] = delta})]
ShiftedLeast(s) == Shifted(s, Min({s.minv[j] : j \in DOMAIN s.minv}))
Reach(costs, s) == ShiftedLeast(Relaxed(costs, s, s.p[s.j0], DOMAIN costs[1] \ (s.used \cup {s.j0})))
Augment(s) == [s EXCEPT !.p[s.j0] = s.p[s.way[s.j0]], !.j0 = s.way[s.j0]]

\* The loop is entered once whatever p[0] holds, as p[0] = i is not 0.
Place(costs, cols, s, i) ==
  While(While([s EXCEPT !.p[0] = i, !.j0 = 0, !.used = {}, !.minv = [j \in 1..cols |-> Infinite]],
              LAMBDA t : t.p[t.j0] = 0, LAMBDA t : Reach(costs, t), cols + 1),
        LAMBDA t : t.j0 = 0, Augment, cols + 1)
Matching(costs, cols, none) ==
  FoldLeft(LAMBDA s, i : Place(costs, cols, s, i),
           [u |-> [i \in 1..Len(costs) |-> 0], v |-> none, p |-> none, way |-> none, j0 |-> 0, used |-> {}, minv |-> <<>>],
           [i \in 1..Len(costs) |-> i]).p
ColumnsOf(rows, p) == [i \in rows |-> CHOOSE j \in DOMAIN p \ {0} : p[j] = i]
MinimumCostAssignment(costs) ==
  ColumnsOf(1..Len(costs), Matching(costs, Len(costs[1]), [k \in 0..Len(costs[1]) |-> 0]))

-----------------------------------------------------------------------------
(* task.py and mission.py                                                              *)
\* No beacon lies on the ground in these worlds, so the first forced task of the code never applies.
CanReturnForHeal(unit) == CorePosition # NoCell /\ unit.pos # CorePosition
ForcedTask(unit, seen) ==
  IF unit.cargo > 0 /\ CorePosition # NoCell THEN TaskOf("DEPOSIT", CorePosition)
  ELSE IF unit.cargo = 0 /\ unit.pos \in DOMAIN seen.cells /\ seen.cells[unit.pos].visible
  THEN TaskOn("HARVEST_CURRENT", unit.pos)
  ELSE IF unit.health <= 1 /\ CanReturnForHeal(unit) THEN TaskOf("RETURN_FOR_HEAL", CorePosition)
  ELSE NoTask
Forced(unit, seen) == ForcedTask(unit, seen) # NoTask

TargetConfidence(cell, now) ==
  (IF cell.visible THEN Mission.visible ELSE 0)
  - (IF cell.seeded THEN Mission.decay * Larger(0, now - cell.lastSeen) ELSE 0)
RefillBonus(key) ==
  IF key \notin DOMAIN Due THEN 0
  ELSE IF Due[key] > Mission.lookahead \/ Due[key] < -Mission.overdue THEN 0 ELSE Mission.refill
IsCollectableAnywhere(score, unit, key, cell) ==
  /\ cell.visible \/ score >= Mission.floor
  /\ cell.visible \/ key \notin DOMAIN Due \/ Due[key] >= -Mission.overdue
IsCollectable(score, unit, key, cell) ==
  /\ cell.visible \/ score >= Mission.floor
  /\ cell.visible \/ key \notin DOMAIN Due \/ Due[key] >= -Mission.overdue
  /\ Manhattan(unit.pos, key) <= Mission.distance
SurveyorIds(ids, bursting, cap) ==
  LET required == IF bursting THEN Larger(Mission.burstFloor, cap) ELSE cap
  IN  {id \in ids : Cardinality({o \in ids : o < id}) < required}

-----------------------------------------------------------------------------
(* The value of a cell to a worker.                                                    *)
UnknownRoutePenalty == 800
MemoryMaxDistance == 40
ClaimBonus == 2000
ProgressDecayed(amount, distance) == (amount * 20) \div (20 + distance)
\* The bonus of the cell this worker was sent to last.
ApplySticky(id, key, previous, amount, distance) ==
  IF id \in DOMAIN previous /\ previous[id].target = key THEN ProgressDecayed(amount, distance) ELSE 0

\* A cell under an enemy, and a remembered cell too far away, have no value: "none".
Valued(unit, key, seen) ==
  /\ key \notin seen.enemies
  /\ seen.cells[key].visible \/ Manhattan(unit.pos, key) <= MemoryMaxDistance
Routes(from, seen, keys) == ShortestPathDistances(from, keys, Obstacles \cup seen.enemies, RouteRadius, RouteBudget)
\* A cell that no route reaches counts as far as it looks, and a penalty when anything is in the way.
Cost(routes, from, key, seen) ==
  IF Obstacles \cup seen.enemies = {} THEN 100 * Manhattan(from, key)
  ELSE IF key \in DOMAIN routes THEN 100 * routes[key]
  ELSE 100 * Manhattan(from, key) + UnknownRoutePenalty
NetValue(id, key, seen, previous, claimed, travels, returns) ==
  LET unit == seen.units[id]
      cell == seen.cells[key]
      travel == Cost(travels, unit.pos, key, seen)
      age == IF cell.visible THEN 0 ELSE Larger(0, seen.tick - cell.lastSeen)
      stale == IF cell.visible THEN 0 ELSE Smaller(800, 20 * age) + (IF cell.seeded THEN 200 ELSE 0)
  IN  100 + TargetConfidence(cell, seen.tick) + RefillBonus(key)
      - travel - Cost(returns, CorePosition, key, seen)
      - (IF key \in claimed THEN Congestion ELSE 0) - stale
      + ApplySticky(id, key, previous, StickyBonus, travel \div 100)
      + ApplySticky(id, key, previous, Mission.switch, travel \div 100)

-----------------------------------------------------------------------------
(* The claims: a worker that is under way to a cell reserves it, as long as it gets   *)
(* closer at least once in ClaimTtl ticks.                                             *)
Stands(key, claim, seen, forced, previous) ==
  /\ claim.unit \in DOMAIN seen.units \ forced
  /\ claim.unit \in DOMAIN previous /\ previous[claim.unit] = TaskOn("GO_RESOURCE", key)
  /\ key \in DOMAIN seen.cells /\ key \notin seen.enemies
  /\ seen.tick >= claim.progress /\ seen.tick - claim.progress < ClaimTtl
  /\ Manhattan(seen.units[claim.unit].pos, key) <= Mission.distance
  /\ seen.cells[key].visible \/ seen.units[claim.unit].pos # key
PruneClaims(held, seen, forced, previous) ==
  [key \in {k \in DOMAIN held : Stands(k, held[k], seen, forced, previous)} |-> held[key]]

\* What is renewed is the claim as it was before the pruning.
UpdateClaims(tasks, seen, held) ==
  LET sent == {id \in DOMAIN tasks : tasks[id].type = "GO_RESOURCE"}
      Renewed(key) ==
        LET id == CHOOSE i \in sent : tasks[i].key = key
            distance == Manhattan(seen.units[id].pos, key)
        IN  IF key \in DOMAIN held /\ held[key].unit = id
            THEN IF distance < held[key].distance THEN [held[key] EXCEPT !.progress = seen.tick, !.distance = distance]
                 ELSE held[key]
            ELSE [unit |-> id, since |-> seen.tick, progress |-> seen.tick, distance |-> distance]
  IN  [key \in {tasks[id].key : id \in sent} |-> Renewed(key)]

-----------------------------------------------------------------------------
(* One tick of the planner.                                                            *)
ForcedIds(seen) == {id \in DOMAIN seen.units : Forced(seen.units[id], seen)}
ClaimedCells(seen) == {ForcedTask(seen.units[id], seen).key : id \in ForcedIds(seen)} \ {NoCell}
\* Memory of a resource under a worker is not available: the worker would have seen it.
AvailableCells(seen, blocked) ==
  {key \in DOMAIN seen.cells \ (ClaimedCells(seen) \cup blocked) :
     seen.cells[key].visible \/ \A id \in DOMAIN seen.units : seen.units[id].pos # key}
\* During a survey burst the first workers explore; all but one of them when there is something to collect.
Preserved(free, available, bursting, cap) ==
  LET surveyors == SurveyorIds(free, TRUE, cap)
  IN  IF ~bursting THEN {}
      ELSE IF surveyors = free /\ free # {} /\ available # {} THEN free \ {Max(free)} ELSE surveyors

WaitCost(most) == most + 10000000
\* The costs of the pool's workers (rows) for the available cells, and then for waiting (columns).
Entry(id, key, seen, net, allowed, reserved, forbidden) ==
  IF <<id, key>> \notin allowed THEN forbidden
  ELSE IF key \in DOMAIN reserved /\ reserved[key] # id
  THEN IF PreemptPenalty > 0 THEN PreemptPenalty - net[id][key] ELSE forbidden
  ELSE IF ~IsCollectable(net[id][key], seen.units[id], key, seen.cells[key]) THEN forbidden
  ELSE -net[id][key] - (IF key \in DOMAIN reserved THEN ClaimBonus ELSE 0)
MatrixOf(order, keys, seen, net, allowed, reserved, wait) ==
  [i \in 1..Len(order) |->
     [j \in 1..Len(keys) |-> Entry(order[i], keys[j], seen, net, allowed, reserved, wait + 10000000)]
     \o [j \in 1..Len(order) |-> wait]]
Priced(pool, available, seen, net, allowed, reserved) ==
  MatrixOf(InOrder(pool), SetToSortSeq(available, Before), seen, net, allowed, reserved,
           WaitCost(IF allowed = {} THEN 0 ELSE Max({-net[p[1]][p[2]] : p \in allowed})))
Net(pool, available, seen, previous, travels, returns) ==
  [id \in pool |-> [key \in available |->
     NetValue(id, key, seen, previous, ClaimedCells(seen), travels[id], returns)]]
CostMatrix(pool, available, seen, previous, reserved) ==
  Priced(pool, available, seen,
         Net(pool, available, seen, previous, [id \in pool |-> Routes(seen.units[id].pos, seen, available)],
             Routes(CorePosition, seen, available)),
         {<<id, key>> \in pool \X available : Valued(seen.units[id], key, seen)}, reserved)

ExploreTask(id, targets) == IF id \in DOMAIN targets THEN TaskOf("EXPLORE", targets[id]) ELSE TaskOf("EXPLORE", NoCell)

\* The tasks a solved matrix stands for: a cell, or for those left on a waiting column exploration
\* (the first cap of them, and none in a burst, which has its surveyors already) or rest.
SolvedTasks(pool, available, columns, bursting, cap, targets) ==
  LET order == InOrder(pool)
      keys == SetToSortSeq(available, Before)
      ColumnOf(id) == columns[CHOOSE i \in DOMAIN order : order[i] = id]
      sent == {id \in pool : ColumnOf(id) <= Len(keys)}
      leftover == IF bursting THEN {} ELSE SurveyorIds(pool \ sent, FALSE, cap)
  IN  [id \in pool |-> IF id \in sent THEN TaskOn("GO_RESOURCE", keys[ColumnOf(id)])
                       ELSE IF id \in leftover THEN ExploreTask(id, targets) ELSE NoTask]

\* The answer, from the tasks and from what they were decided on (by).
Answered(seen, held, by, tasks) ==
  [tasks |-> tasks, claims |-> UpdateClaims(tasks, seen, held), reserved |-> by.reserved, available |-> by.available,
   matrix |-> by.matrix, columns |-> by.columns, surveyors |-> by.surveyors]
Merged(seen, by, solved, targets) ==
  [id \in DOMAIN seen.units |-> IF id \in DOMAIN solved THEN solved[id]
                                ELSE IF id \in by.surveyors THEN ExploreTask(id, targets) ELSE ForcedTask(seen.units[id], seen)]
Dealt(seen, held, bursting, targets, by) ==
  Answered(seen, held, by,
           Merged(seen, by, SolvedTasks(by.pool, by.available, by.columns, bursting, seen.cap, targets), targets))
Solved(pool, available, surveyors, reserved, matrix) ==
  [pool |-> pool, available |-> available, surveyors |-> surveyors, reserved |-> reserved, matrix |-> matrix,
   columns |-> IF pool = {} THEN <<>> ELSE MinimumCostAssignment(matrix)]
Matched(seen, previous, pool, available, surveyors, reserved) ==
  Solved(pool, available, surveyors, reserved, CostMatrix(pool, available, seen, previous, reserved))
ReservedBy(pool, standing) == [key \in {k \in DOMAIN standing : standing[k].unit \in pool} |-> standing[key].unit]
\* Who is not forced is preserved for surveying, or in the pool of the solver.
Pooled(seen, previous, standing, free, available, surveyors) ==
  Matched(seen, previous, free \ surveyors, available, surveyors, ReservedBy(free \ surveyors, standing))
Freed(seen, previous, held, bursting, free, available) ==
  Pooled(seen, previous, PruneClaims(held, seen, DOMAIN seen.units \ free, previous), free, available,
         Preserved(free, available, bursting, seen.cap))
AssignWorkerTasks(seen, previous, held, bursting, blocked, targets) ==
  Dealt(seen, held, bursting, targets,
        Freed(seen, previous, held, bursting, DOMAIN seen.units \ ForcedIds(seen), AvailableCells(seen, blocked)))

-----------------------------------------------------------------------------
(* The ticks. Between two calls of the planner the game moves each worker a step      *)
(* along its task or not at all; a cell's sight is lost or found again, an enemy comes  *)
(* or goes, a survey burst starts or ends.                                             *)
Seen == [tick |-> tick, units |-> units, cells |-> cells, enemies |-> enemies, cap |-> Mission.cap]

Stepped(unit, task) ==
  LET step == IF task.target = NoCell THEN "none"
              ELSE NextStepToward(unit.pos, task.target, Obstacles \cup enemies, RouteRadius, RouteBudget)
  IN  IF task.type = "HARVEST_CURRENT" THEN [unit EXCEPT !.cargo = 1]
      ELSE IF task.type = "DEPOSIT" /\ unit.pos = CorePosition THEN [unit EXCEPT !.cargo = 0]
      ELSE IF step = "none" THEN unit
      ELSE [unit EXCEPT !.pos = StepTo(unit.pos, step)]
Apart(at) == \A a, b \in Workers : a # b => at[a].pos # at[b].pos \/ at[a].pos = CorePosition

Init == /\ tick = 1 /\ burst = FALSE /\ enemies = {}
        /\ units \in [Workers -> [pos : Start, cargo : {0}, health : {2}]] /\ Apart(units)
        /\ cells \in [Cells -> [visible : {TRUE}, seeded : {FALSE}, lastSeen : {0}]]
        /\ last = AssignWorkerTasks(Seen, <<>>, <<>>, burst, {}, <<>>)

Moves == \E movers \in SUBSET Workers :
           /\ units' = [id \in Workers |-> IF id \in movers THEN Stepped(units[id], last.tasks[id]) ELSE units[id]]
           /\ Apart(units')
           /\ cells' = LET taken == {units[id].pos : id \in {m \in movers : last.tasks[m].type = "HARVEST_CURRENT"}}
                       IN  [key \in DOMAIN cells \ taken |-> cells[key]]
           /\ UNCHANGED <<enemies, burst>>
Changes == \/ /\ \E id \in Workers : units' = [units EXCEPT ![id].health = 3 - @]
              /\ UNCHANGED <<cells, enemies, burst>>
           \/ /\ \E key \in DOMAIN cells : cells' = [cells EXCEPT ![key].visible = ~@, ![key].lastSeen = tick]
              /\ UNCHANGED <<units, enemies, burst>>
           \/ /\ \E key \in Cells : enemies' = IF enemies = {} THEN {key} ELSE {}
              /\ UNCHANGED <<units, cells, burst>>
           \/ burst' = ~burst /\ UNCHANGED <<units, cells, enemies>>
\* The planner is called on what the tick shows, with its own last answer.
Tick == /\ tick < MaxTick /\ tick' = tick + 1
        /\ Moves \/ Changes
        /\ last' = AssignWorkerTasks(Seen', last.tasks, last.claims, burst', {}, <<>>)
Next == Tick
Spec == Init /\ [][Next]_vars

-----------------------------------------------------------------------------
Sent == {id \in Workers : last.tasks[id].type = "GO_RESOURCE"}
\* What a worker may be sent to: of value to it, open to collection, and not held by another one;
\* a preempted cell is only held to the first.
MaySend(id, key) ==
  LET unit == units[id]
      forced == ForcedIds(Seen)
      mine == key \notin DOMAIN last.reserved \/ last.reserved[key] = id
  IN  /\ Valued(unit, key, Seen)
      /\ mine => cells[key].visible \/ key \notin DOMAIN Due \/ Due[key] >= -Mission.overdue
      /\ mine => Manhattan(unit.pos, key) <= Mission.distance
      /\ mine \/ PreemptPenalty > 0

\* No two workers are sent to one cell, and none to a cell that another one is harvesting.
OneWorkerPerCell ==
  \A a \in Sent, b \in Workers : a # b => last.tasks[b].key # last.tasks[a].key

\* A worker is only sent where it may collect: the sentinel costs of the matrix never win over waiting.
NoForbiddenAssignment == \A id \in Sent : last.tasks[id].key \in last.available /\ MaySend(id, last.tasks[id].key)

\* No worker is left idle (waiting, or exploring outside a survey burst) while a cell it may be sent to
\* is left to nobody.
NoIdleBesideFreeCell ==
  \A id \in Workers \ (Sent \cup last.surveyors \cup ForcedIds(Seen)) :
    \A key \in last.available \ {last.tasks[s].key : s \in Sent} : ~MaySend(id, key)

\* The Hungarian method returns an assignment of least cost: no injection of the rows into the columns costs less.
AssignmentIsOptimal ==
  LET rows == DOMAIN last.columns
      Total(f) == FoldLeft(LAMBDA sum, i : sum + last.matrix[i][f[i]], 0, [i \in rows |-> i])
  IN  rows # {} =>
        \A f \in [rows -> DOMAIN last.matrix[1]] :
          (\A i, j \in rows : i # j => f[i] # f[j]) => Total(last.columns) <= Total(f)

=============================================================================
