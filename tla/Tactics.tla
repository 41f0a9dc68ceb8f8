------------------------------ MODULE Tactics ------------------------------
(* The stateless rules the core and the army go by. Prices, capacities and what the  *)
(* core may spend (domain/economy.py, strategies/economy_budget.py): amounts are      *)
(* whole resources; a price grows by three tenths per tier of five units above        *)
(* twenty, rounded once, half up. The helpers of the planner (safety_helpers.py) and   *)
(* the rally points of the squads (tactical_squads.py): what to spawn, where to stand, *)
(* where to yield, flee and kite, whom to shoot. An enemy is [id, at, kind, role] with *)
(* a numeric id; occupancy maps a cell to the number of things on it.                 *)
EXTENDS Grid

Roles == {"WORKER", "VANGUARD", "RANGER"}
BaseUnitCosts == [r \in Roles |-> CASE r = "WORKER" -> 5 [] r = "VANGUARD" -> 10 [] OTHER -> 12]
CoreResourceCapacity(population) == Larger(10, 5 * population)
PricingExponent(population) == IF population < 20 THEN 0 ELSE (population - 20) \div 5 + 1
UnitPrice(role, population) ==
  LET e == PricingExponent(population)
  IN  (2 * BaseUnitCosts[role] * 13 ^ e + 10 ^ e) \div (2 * 10 ^ e)

\* One tenant's economy, folded turn by turn. A turn is [seed, tick, resources, population].
EconomyAt(turn, before) ==
  [seed |-> turn.seed, tick |-> turn.tick, resources |-> turn.resources, population |-> turn.population,
   space |-> CoreResourceCapacity(turn.population) - turn.resources,
   delta |-> <<turn.resources - before.resources, turn.population - before.population>>]
ValidTurn(turn) == turn.resources <= CoreResourceCapacity(turn.population)
SameTurn(state, turn) == \A f \in DOMAIN turn : state[f] = turn[f]
\* Replaying the current turn changes nothing; anything else that is not a later turn of the same seed raises.
Raised == "raised"
Advance(state, turn) ==
  IF ~ValidTurn(turn) \/ turn.seed # state.seed \/ turn.tick < state.tick THEN Raised
  ELSE IF turn.tick = state.tick THEN (IF SameTurn(state, turn) THEN state ELSE Raised)
  ELSE EconomyAt(turn, state)

-----------------------------------------------------------------------------
(* What a tick can pay for.                                                          *)
UnitMaxHealth(role) == IF role = "VANGUARD" THEN 4 ELSE 2
HealReserve(roles) == FoldLeft(LAMBDA sum, r : sum + UnitMaxHealth(r) - 1, 0, roles)
ProjectedCoreResources(resources, space, cargo, reserve) == Larger(0, resources + Smaller(space, cargo) - reserve)
HealResourceReserve == 10
CanAffordHeal(resources, missing) == resources >= HealResourceReserve + missing

\* The worker threshold: reserve and price up to the base target, then the price of a stage of two.
WorkerExpansionThreshold(workers, target, capacity, population, base, reserve, lateReserve) ==
  LET stage == Smaller(target, base + 2 * ((workers - base) \div 2 + 1))
      prices == [i \in 0..(Larger(1, stage - workers) - 1) |-> UnitPrice("WORKER", population + i)]
  IN  IF workers < base THEN Smaller(reserve + UnitPrice("WORKER", population), capacity)
      ELSE lateReserve + MapThenSumSet(LAMBDA i : prices[i], DOMAIN prices)

-----------------------------------------------------------------------------
(* Full-capacity dispersal, spawn suspension and the way home. These routes are not  *)
(* wired into the decider yet.                                                       *)
SpawnClearTicks == 3
SpawnClearUntil(tick, until, limited) == IF limited THEN Larger(until, tick + SpawnClearTicks) ELSE until
SpawnSuspended(tick, until) == tick < until

HomePatrolOffsets == <<<<3, 0>>, <<3, 3>>, <<0, 3>>, <<-3, 3>>, <<-3, 0>>, <<-3, -3>>, <<0, -3>>, <<3, -3>>>>
Plus(a, b) == <<a[1] + b[1], a[2] + b[2]>>
Rotated(s, index) == [i \in DOMAIN s |-> s[((index + i - 1) % Len(s)) + 1]]
CountOf(occupancy, c) == IF c \in DOMAIN occupancy THEN occupancy[c] ELSE 0
NoStep == <<>>

\* The least occupied free neighbour, the first in rotated order on a tie.
VacateCoreStep(core, index, obstacles, occupancy, room) ==
  LET free == SelectSeq([i \in 1..4 |-> StepTo(core, Rotated(<<"N", "E", "S", "W">>, index)[i])],
                        LAMBDA c : c \notin obstacles /\ CountOf(occupancy, c) < room)
  IN  IF free = <<>> THEN NoStep ELSE LeastBy(free, LAMBDA c : CountOf(occupancy, c))
\* Unknown cells may be walked on.
SecondOn(way) == IF way.kind # "path" \/ Len(way.path) < 2 THEN NoStep ELSE way.path[2]
FirstStepAround(start, target, blocked, limits) ==
  SecondOn(ShortestPath([open |-> {}, blocked |-> blocked, inside |-> {}, bounded |-> FALSE], start, target, TRUE, limits))
FirstReached(at, goals, steps, first, reached) ==
  IF reached = 0 THEN [step |-> NoStep, goal |-> IF goals = <<>> THEN first ELSE Last(goals)]
  ELSE [step |-> steps[reached], goal |-> goals[reached]]
PatrolRoute(at, goals, steps, first) ==
  FirstReached(at, goals, steps, first, SelectInSeq([i \in DOMAIN goals |-> i], LAMBDA i : at = goals[i] \/ steps[i] # NoStep))
PatrolSteps(at, goals, blocked, limits) ==
  [i \in DOMAIN goals |-> IF at = goals[i] THEN NoStep ELSE FirstStepAround(at, goals[i], blocked, limits)]
Patrol(at, goals, blocked, limits, first) == PatrolRoute(at, goals, PatrolSteps(at, goals, blocked, limits), first)
FullCapacityWorkerRoute(core, at, index, obstacles, occupancy, room, limits) ==
  LET posts == [i \in 1..8 |-> Plus(core, Rotated(HomePatrolOffsets, index)[i])]
  IN  IF at = core THEN [step |-> VacateCoreStep(core, index, obstacles, occupancy, room), goal |-> posts[1]]
      ELSE Patrol(at, SelectSeq(posts, LAMBDA g : g \notin obstacles),
                  obstacles \cup {core} \cup {c \in DOMAIN occupancy : occupancy[c] >= room}, limits, posts[1])
\* A loaded worker walks through other units to the nearest open cell beside the core.
HomeStepToward(at, target, blocked, limits) ==
  [step |-> IF at = target THEN NoStep ELSE FirstStepAround(at, target, blocked, limits), target |-> target]
IgnoreOccupancyHomeStep(at, core, terrain, limits) ==
  LET open == SelectSeq([i \in 1..4 |-> StepTo(core, <<"E", "W", "S", "N">>[i])], LAMBDA c : c \notin terrain)
  IN  IF open = <<>> THEN [step |-> NoStep, target |-> core]
      ELSE HomeStepToward(at, LeastBy(open, LAMBDA c : Manhattan(at, c)), terrain \cup {core}, limits)

-----------------------------------------------------------------------------
(* Orders and neighbours.                                                            *)
\* cmp_to_key(...) and tuple keys: <<a, b>> sorts before <<c, d>>.
LessThan(a, b) == \E i \in DOMAIN a : a[i] < b[i] /\ \A j \in 1..(i - 1) : a[j] = b[j]
\* The element of a set with the least key; keys end in something that tells the elements apart.
LeastOf(S, Key(_)) == CHOOSE s \in S : \A o \in S : ~LessThan(Key(o), Key(s))
EnemyAt(c, enemies) == \E e \in enemies : e.at = c
NearestDistance(c, enemies) == Min({Manhattan(c, e.at) : e \in enemies})
OffsetsFrom(c, deltas) == [i \in DOMAIN deltas |-> Plus(c, deltas[i])]
Compass == <<"N", "E", "S", "W">>
Neighbours(c) == [i \in 1..4 |-> StepTo(c, Compass[i])]
Eight == <<<<1, 0>>, <<1, 1>>, <<0, 1>>, <<-1, 1>>, <<-1, 0>>, <<-1, -1>>, <<0, -1>>, <<1, -1>>>>

-----------------------------------------------------------------------------
(* What to spawn next. The ratio is a fraction <<num, den>>, or NoRatio.              *)
NoRatio == <<0, 0>>
NextMilitary(vanguards, rangers, ratio) ==
  LET target == (((vanguards + rangers + 1) * ratio[1]) + ratio[2] - 1) \div ratio[2]
  IN  IF (IF ratio = NoRatio THEN vanguards <= rangers ELSE vanguards < target) THEN "VANGUARD" ELSE "RANGER"
NextSpawn(workers, vanguards, rangers, target, ratio) ==
  IF workers < target THEN "WORKER" ELSE NextMilitary(vanguards, rangers, ratio)
MassarmyStages == <<<<10, 8, 1, 1>>, <<20, 12, 3, 4>>, <<32, 18, 6, 8>>>>
MassarmyStageTargets(population) == Tail(FirstWhere(MassarmyStages, LAMBDA s : population <= s[1], <<0, 18, 14, 16>>))
NextSpawnMassarmy(workers, vanguards, rangers, population) ==
  LET t == MassarmyStageTargets(population)
  IN  IF workers < t[1] THEN "WORKER" ELSE IF vanguards < t[2] THEN "VANGUARD" ELSE IF rangers < t[3] THEN "RANGER" ELSE "WORKER"

-----------------------------------------------------------------------------
(* Posts: the guards share out the axes that enemies approach on, the nearest first.  *)
AxisOfDelta(d) == IF Abs(d[1]) >= Abs(d[2]) THEN (IF d[1] >= 0 THEN "E" ELSE "W") ELSE (IF d[2] >= 0 THEN "S" ELSE "N")
GuardRadius(role) == IF role = "VANGUARD" THEN 3 ELSE 2
ThreatAxes(core, enemies) ==
  LET units == {e \in enemies : e.kind # "CORE"}
      Axis(e) == AxisOfDelta(<<e.at[1] - core[1], e.at[2] - core[2]>>)
      Near(a) == NearestDistance(core, {e \in units : Axis(e) = a})
  IN  SortSeq(SelectSeq(Compass, LAMBDA a : \E e \in units : Axis(e) = a),
              LAMBDA a, b : LessThan(<<Near(a), SelectInSeq(Compass, LAMBDA c : c = a)>>, <<Near(b), SelectInSeq(Compass, LAMBDA c : c = b)>>))
PostsOnAxis(core, d, radius) == [i \in 1..radius |-> <<core[1] + d[1] * (radius + 1 - i), core[2] + d[2] * (radius + 1 - i)>>]
PostOn(axes, core, enemies, obstacles, radius, index) ==
  IF axes = <<>> THEN NoCell
  ELSE FirstWhere(PostsOnAxis(core, Delta[axes[(index % Len(axes)) + 1]], radius),
                  LAMBDA c : c \notin obstacles /\ ~EnemyAt(c, enemies), NoCell)
DefensePost(core, enemies, obstacles, role, index) ==
  PostOn(ThreatAxes(core, enemies), core, enemies, obstacles, GuardRadius(role), index)

\* Where the unit on the core steps aside: an empty neighbour, else one that holds a single unit;
\* among them the one farthest from every enemy.
YieldAnchor(core, obstacles, occupancy, enemies) ==
  LET Holding(n) == SelectSeq(Neighbours(core), LAMBDA c : c \notin obstacles /\ CountOf(occupancy, c) = n)
      candidates == IF Holding(0) # <<>> THEN Holding(0) ELSE Holding(1)
  IN  IF candidates = <<>> THEN NoCell ELSE IF enemies = {} THEN candidates[1]
      ELSE LeastBy(candidates, LAMBDA c : -NearestDistance(c, enemies))
OccupancyCounts(core, at, units) ==   \* at: unit -> cell
  [c \in {core} \cup {at[u] : u \in units} |-> Cardinality({u \in units : at[u] = c}) + (IF c = core THEN 1 ELSE 0)]
HomeCell(core, obstacles, index) ==
  FirstWhere(OffsetsFrom(core, [i \in 1..4 |-> Delta[Rotated(Compass, index)[i]]]), LAMBDA c : c \notin obstacles, NoCell)

\* The rings of guard posts: corners first, then the axes, then the knight's steps, ring by ring.
Diagonals(r) == <<<<-r, -r>>, <<r, -r>>, <<-r, r>>, <<r, r>>>>
Axes(r) == <<<<-r, 0>>, <<r, 0>>, <<0, -r>>, <<0, r>>>>
Knights(r, s) == <<<<-r, -s>>, <<r, -s>>, <<-r, s>>, <<r, s>>, <<-s, -r>>, <<s, -r>>, <<-s, r>>, <<s, r>>>>
RingOrder == Diagonals(2) \o Axes(2) \o Diagonals(3) \o Axes(3) \o Diagonals(4) \o Axes(4) \o Knights(4, 2)
             \o Diagonals(5) \o Axes(5) \o Knights(5, 2)
Corners(r) == <<<<r, r>>, <<-r, r>>, <<r, -r>>, <<-r, -r>>>>
CornerAxes(r) == <<<<r, 0>>, <<0, r>>, <<-r, 0>>, <<0, -r>>>>
CornerKnights(r, s) == <<<<r, s>>, <<r, -s>>, <<-r, s>>, <<-r, -s>>, <<s, r>>, <<s, -r>>, <<-s, r>>, <<-s, -r>>>>
CornerRingOrder == Corners(3) \o Corners(4) \o Corners(5) \o CornerAxes(3) \o CornerAxes(4) \o CornerAxes(5)
                   \o CornerKnights(3, 1) \o CornerKnights(4, 2) \o CornerKnights(5, 2)
GuardHomeCell(core, obstacles, index, avoid, spaced) ==
  LET order == IF spaced THEN CornerRingOrder ELSE RingOrder
      post == FirstWhere(OffsetsFrom(core, Rotated(order, index)), LAMBDA c : c \notin obstacles \cup avoid, NoCell)
  IN  IF post # NoCell THEN post ELSE HomeCell(core, obstacles, index)

\* A cell with one open neighbour shelters the core; the entrance is that neighbour.
ShelterEntrance(c, obstacles) ==
  LET open == SelectSeq(Neighbours(c), LAMBDA n : n \notin obstacles) IN IF Len(open) = 1 THEN open[1] ELSE NoCell
CoreShelterTarget(core, obstacles, resources, radius) ==
  LET around == {Plus(core, <<dx, dy>>) : dx \in -radius..radius, dy \in -radius..radius} \ ({core} \cup obstacles \cup resources)
      shelters == {c \in around : ShelterEntrance(c, obstacles) \notin {NoCell} \cup resources}
      best == LeastOf(shelters, LAMBDA c : <<Manhattan(core, c), c[1], c[2]>>)
  IN  IF shelters = {} THEN NoCell ELSE <<best, ShelterEntrance(best, obstacles)>>

-----------------------------------------------------------------------------
(* Fleeing: the free neighbour whose nearest enemy is farthest, or, scored on several *)
(* targets, the one that takes least damage.                                          *)
ShootRange == 3
ProjectedDamageAt(c, enemy, obstacles) ==
  LET distance == Chebyshev(c, enemy.at)
  IN  IF enemy.kind = "CORE" THEN 0
      ELSE IF enemy.role = "RANGER" THEN (IF distance \in 1..ShootRange /\ ~ShotLineBlocked(c, enemy.at, obstacles) THEN 1 ELSE 0)
      ELSE (IF Manhattan(c, enemy.at) = 1 THEN 1 ELSE 0)
RetreatChoices(core, enemies, obstacles) ==
  SelectSeq(Compass, LAMBDA d : StepTo(core, d) \notin obstacles /\ ~EnemyAt(StepTo(core, d), enemies))
Distances(c, enemies) == SortSeq(SetToSeq({<<Manhattan(c, e.at), e.id>> : e \in enemies}), LessThan)
\* The key that the comparison prefers: less damage, farther enemies from the nearest on, a nearer beacon.
CompareRetreat(c, enemies, obstacles, beacon) ==
  <<MapThenSumSet(LAMBDA e : ProjectedDamageAt(c, e, obstacles), enemies)>>
    \o [i \in 1..Cardinality(enemies) |-> -Distances(c, enemies)[i][1]] \o <<Manhattan(c, beacon)>>
RetreatDirection(core, enemies, obstacles, beacon, scoring) ==
  LET choices == RetreatChoices(core, enemies, obstacles)
      Score(c) == IF scoring = "multi" THEN CompareRetreat(c, enemies, obstacles, beacon)
                  ELSE IF enemies = {} THEN <<>>
                  ELSE <<-(1000 * NearestDistance(c, enemies) + Manhattan(c, beacon))>>
      best == LeastOf(DOMAIN choices, LAMBDA i : Score(StepTo(core, choices[i])) \o <<i>>)
  IN  IF choices = <<>> THEN "none" ELSE choices[best]

-----------------------------------------------------------------------------
(* Shooting and kiting.                                                               *)
NearestEnemy(enemies, c) == LeastOf(enemies, LAMBDA e : <<Manhattan(c, e.at), e.id>>)
ShotTargetRank(e) == CASE e.kind = "CORE" -> 3 [] e.role = "WORKER" -> 0 [] e.role = "RANGER" -> 1 [] OTHER -> 2
DefensiveShotTargetRank(e) == CASE e.kind = "CORE" -> 3 [] e.role = "RANGER" -> 0 [] e.role = "VANGUARD" -> 1 [] OTHER -> 2
AggressiveOrder(enemies) == SetToSortSeq(enemies, LAMBDA a, b : LessThan(<<ShotTargetRank(a), a.id>>, <<ShotTargetRank(b), b.id>>))
DefensiveOrder(from, enemies) ==
  LET Key(e) == <<Manhattan(from, e.at), DefensiveShotTargetRank(e), e.id>>
  IN  SetToSortSeq(enemies, LAMBDA a, b : LessThan(Key(a), Key(b)))
Aligned(a, b) == a[1] = b[1] \/ a[2] = b[2] \/ Abs(a[1] - b[1]) = Abs(a[2] - b[2])
CanShoot(from, target, obstacles) ==
  Chebyshev(from, target) \in 1..ShootRange /\ Aligned(from, target) /\ ~ShotLineBlocked(from, target, obstacles)
\* One step of the enemy toward the shooter along the longer axis.
PredictedEnemyCell(actor, enemy) ==
  LET dx == enemy[1] - actor[1]
      dy == enemy[2] - actor[2]
  IN  IF dx = 0 /\ dy = 0 THEN NoCell
      ELSE IF Abs(dx) >= Abs(dy) THEN <<enemy[1] - Sign(dx), enemy[2]>> ELSE <<enemy[1], enemy[2] - Sign(dy)>>
KiteCell(from, threat, obstacles, occupancy, enemies) ==
  LET cells == {c \in ToSet(OffsetsFrom(from, Eight)) :
                  /\ c \notin obstacles /\ ~EnemyAt(c, enemies) /\ CountOf(occupancy, c) < 2
                  /\ Chebyshev(c, threat) \in 2..3 /\ CanShoot(c, threat, obstacles)}
      Safety(c) == Min({Chebyshev(c, threat)} \cup {Manhattan(c, e.at) : e \in enemies})
  IN  IF cells = {} THEN NoCell ELSE LeastOf(cells, LAMBDA c : <<-Safety(c), c[1], c[2]>>)

-----------------------------------------------------------------------------
(* Rally points: eight offsets around the target, the nearest to home first, and one  *)
(* of three rings for each member of a squad.                                         *)
RallySlotDistance == 5
RallyOffsets == <<<<1, 0>>, <<-1, 0>>, <<0, 1>>, <<0, -1>>, <<1, 1>>, <<1, -1>>, <<-1, 1>>, <<-1, -1>>>>
SortedRallyCandidates(target, home, distance) ==
  LET cells == [i \in 1..8 |-> <<target[1] + RallyOffsets[i][1] * distance, target[2] + RallyOffsets[i][2] * distance>>]
      order == SortSeq([i \in 1..8 |-> i], LAMBDA i, j : LessThan(<<Manhattan(cells[i], home), i>>, <<Manhattan(cells[j], home), j>>))
  IN  [i \in 1..8 |-> cells[order[i]]]
RallyPointFrom(target, home, closed, start, distance) ==
  FirstWhere(Rotated(SortedRallyCandidates(target, home, distance), start), LAMBDA c : c \notin closed, target)
RallySlotForSquad(index) == index % 8
RallyPointAtSlot(target, home, closed, slot) ==
  RallyPointFrom(target, home, closed, RallySlotForSquad(slot), RallySlotDistance)
RallyMemberSlot(squad, member) == (squad * 3 + member) % 24
RallyPointAtMemberSlot(target, home, closed, slot) ==
  RallyPointFrom(target, home, closed, slot % 8, RallySlotDistance + slot \div 8)
=============================================================================
