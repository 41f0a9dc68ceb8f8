------------------------------- MODULE MCUnits -------------------------------
(* The units of a colony, in four parts;  a behaviour is about one of them, *)
(* and the others stay where they start.                                    *)
(*   steps: two workers and a guard in seven small worlds;                  *)
(*   tasks: two workers and two resource cells over four ticks;             *)
(*   explore: two workers who look for mines in a walled place over ten     *)
(*          ticks, with one mishap;                                         *)
(*   army: a raid and a duel.                                               *)
EXTENDS UnitDecider, Skirmish, SafetyPlanner

MCCore == <<0, 0>>
MCMine == <<3, 0>>
MCPost == <<1, 1>>
World(walls, sight, enemies) == [walls |-> walls, sight |-> sight, enemies |-> enemies]
MCWorlds == {World({<<1, 0>>}, 0, {}), World({<<2, 0>>, <<2, 1>>}, 1, {}), World({<<1, 0>>, <<2, 1>>, <<2, -1>>}, 0, {}),
             World({<<1, 0>>, <<0, 1>>, <<0, -1>>}, 0, {}), World({<<2, 0>>}, 1, {<<3, 2>>}), World({<<1, 2>>, <<2, 1>>, <<2, 3>>}, 0, {}), World({<<2, 0>>, <<2, 1>>, <<2, -1>>, <<1, 1>>}, 1, {})}
MCStarts == {[id \in 1..3 |-> [pos |-> IF id = 1 THEN <<0, 0>> ELSE IF id = 2 THEN b ELSE <<2, 2>>, cargo |-> 0]] :
               b \in {<<4, 0>>, <<-1, 0>>}}

CONSTANTS MaxTick, SearchTicks
VARIABLES tick, workers, cells, threats, burst, last
taskVars == <<tick, workers, cells, threats, burst, last>>
MCMission == [floor |-> -100000, distance |-> 3, cap |-> 1, burstFloor |-> 2, visible |-> 0, decay |-> 0,
              lookahead |-> 1, refill |-> 100, overdue |-> 1, switch |-> 50]
MCCells == {<<1, 0>>, <<4, 0>>}
MCObstacles == {<<2, 0>>}
MCStart == {<<0, 0>>, <<3, 0>>}
MCDue == <<4, 0>> :> -2
Tasks == INSTANCE WorkerAssignment
           WITH CorePosition <- MCCore, Cells <- MCCells, Obstacles <- MCObstacles, Mission <- MCMission,
                StickyBonus <- 50, Congestion <- 100, ClaimTtl <- 2, PreemptPenalty <- 600, Due <- MCDue,
                RouteRadius <- 2, RouteBudget <- 30, Start <- MCStart, units <- workers, enemies <- threats
ASSUME TaskAssumption == Tasks!PlannerAssumption

VARIABLES book, mines, recovering, mishaps, targets
bookVars == <<book, mines, recovering, mishaps, targets>>
MCMines == {<<2, 0>>, <<3, 1>>, <<-2, 1>>}
MCFirstMines == {{<<2, 0>>, <<3, 1>>}}
MCWalls == {<<1, -1>>, <<0, 2>>, <<1, 1>>, <<-1, 0>>, <<0, -1>>, <<-2, -1>>, <<-1, -2>>}
MCThreats == {{<<0, -2>>}}
MCSearch == [floor |-> -100000, distance |-> 40, cap |-> 2, burstFloor |-> 0, visible |-> 0, decay |-> 0,
             lookahead |-> 1, refill |-> 0, overdue |-> 1, switch |-> 50]
Explore == INSTANCE Exploration
            WITH CorePosition <- MCCore, Cells <- MCMines, Obstacles <- MCWalls, Mission <- MCSearch,
                 StickyBonus <- 50, Congestion <- 100, ClaimTtl <- 2, PreemptPenalty <- 600, Due <- << >>,
                 RouteRadius <- 5, RouteBudget <- 80, Start <- {MCCore}, units <- workers, enemies <- threats,
                 MaxTick <- SearchTicks, ChunkSize <- 4, RefillTicks <- 3, HungerTicks <- 3,
                 SweepStep <- 2, SweepCount <- 1, HungerSweepCount <- 2,
                 FrontierRadius <- 3, BarrenRadius <- 4, FrontierBudget <- 100,
                 Sight <- 1, Threats <- MCThreats, FirstMines <- MCFirstMines, MaxMishaps <- 1
ASSUME ExploreAssumption == Explore!PlannerAssumption /\ Explore!ExplorationAssumption

MCConfig == [missCap |-> 2, missCooldown |-> 3, predictive |-> TRUE, massarmy |-> FALSE, workerTarget |-> 2, ratio |-> NoRatio,
             threatDistance |-> 5, contestPopulation |-> 6, contestResources |-> 10, contestRange |-> 15, holdRadius |-> 1]
Fighter(id, role, at) == [id |-> id, role |-> role, at |-> at, cargo |-> 0, health |-> 2]
Army == <<Fighter(1, "VANGUARD", <<0, 1>>), Fighter(2, "VANGUARD", <<1, 0>>), Fighter(3, "VANGUARD", <<2, 0>>),
          Fighter(4, "RANGER", <<0, -1>>), Fighter(5, "RANGER", <<1, 1>>)>>
Enemy(at) == [id |-> 9, at |-> at, kind |-> "UNIT", role |-> "VANGUARD"]
Raid == [units |-> Army, born |-> {Army[1], Army[4]}, mortal |-> {1, 3, 4}, ticks |-> 4, walls |-> {},
         enemies |-> {{}, {Enemy(<<3, 0>>)}}, cores |-> {{}, {<<3, 0>>}, {<<3, 0>>, <<0, 3>>}}]
Duel == [units |-> <<Army[1], Army[4]>>, born |-> {}, mortal |-> {}, ticks |-> 7, walls |-> {<<1, -1>>}, cores |-> {{}},
         enemies |-> {{}, {Enemy(<<0, -5>>)}, {Enemy(<<4, -1>>)}, {Enemy(<<0, -5>>), [Enemy(<<1, -5>>) EXCEPT !.id = 8]}}]
MCBattles == {Raid, Duel}

\* A strike takes nobody who is not there, leaves two of each role at home while there are three, and sends
\* no more vanguards than the target outlives the rangers (raid_quota.py:143-147).
ASSUME StrikesAreMeasured ==
  \A health \in 0..6 : \A v, r \in 0..5 :
    LET q == StrikeGroupQuota(health, v, r)
        Leaves(n, sent) == sent <= n /\ (n > 2 => n - sent >= 2)
    IN  Leaves(v, q.VANGUARD) /\ Leaves(r, q.RANGER) /\ q.VANGUARD <= Larger(0, health - q.RANGER)

VARIABLE part
unitVars == <<part, vars, taskVars, bookVars, skirmishVars>>

UnitsInit ==
  /\ part \in {"steps", "tasks", "explore", "army"}
  /\ IF part = "steps" THEN TRUE
     ELSE world = (CHOOSE w \in Worlds : TRUE) /\ units = (CHOOSE p \in Starts : TRUE)
  /\ IF part = "explore" THEN Explore!ExploreInit
     ELSE Tasks!Init /\ book = Explore!EmptyBook /\ mines = {} /\ recovering = FALSE /\ mishaps = 0 /\ targets = << >>
  /\ IF part \in {"tasks", "explore"} THEN TRUE
     ELSE workers = [id \in Workers |-> [pos |-> IF id = 1 THEN <<0, 0>> ELSE <<3, 0>>, cargo |-> 0, health |-> 2]]
  /\ IF part = "army" THEN TRUE ELSE battle = Raid
  /\ Init /\ SkirmishInit

UnitsNext ==
  \/ part = "steps" /\ Next /\ UNCHANGED <<part, taskVars, bookVars, skirmishVars>>
  \/ part = "tasks" /\ Tasks!Next /\ UNCHANGED <<part, vars, bookVars, skirmishVars>>
  \/ part = "explore" /\ Explore!ExploreNext /\ UNCHANGED <<part, vars, skirmishVars>>
  \/ part = "army" /\ SkirmishTurn /\ UNCHANGED <<part, vars, taskVars, bookVars>>

UnitsSpec == UnitsInit /\ [][UnitsNext]_unitVars

-----------------------------------------------------------------------------
\* See WorkerAssignment: the assignment is one to one, allowed, leaves nobody
\* idle beside a cell and is worth the most.
AssignmentIsSound ==
  part = "tasks" => /\ Tasks!OneWorkerPerCell /\ Tasks!NoForbiddenAssignment
                    /\ Tasks!NoIdleBesideFreeCell /\ Tasks!AssignmentIsOptimal

\* See Exploration: whoever looks for resources is sent where it can get to, alone
\* and for the first time; what was dug is on the books, and what ran dry is given
\* up without losing what is there.
ExplorationIsSound ==
  /\ [](part = "explore" => /\ Explore!TargetsAreSound /\ Explore!EmptyCellsAreGivenUp
                            /\ Explore!RefutedChunksAreEmpty)
  /\ [][part = "explore" => Explore!HarvestsAreBooked /\ Explore!MinesStayKnown]_unitVars

\* See Skirmish: a raid leaves the guard at home and strikes what stood, and a
\* ranger whose led shots miss stops leading them for a while.
ForcesAreWellUsed == RaidsLeaveTheGuard /\ RaidsHitWhatStood /\ PauseAfterMisses
-----------------------------------------------------------------------------
(* The pure helpers of the planner against what they are to compute, for every   *)
(* input of a small range: searches and lines on a board of five by five, posts,  *)
(* steps and shots in a few sieges. TLC evaluates the assumptions when it starts. *)
Centre == <<0, 0>>
Board == (-2..2) \X (-2..2)
Mazes == {{}, {<<1, 0>>}, {<<1, 0>>, <<0, 1>>, <<-1, 0>>, <<0, -1>>}, {<<1, y>> : y \in -2..2}, {<<1, y>> : y \in -2..1},
          {<<1, 1>>, <<1, -1>>, <<2, 0>>}, {<<1, 0>>, <<1, 1>>, <<0, -1>>, <<-1, -1>>, <<-1, 1>>},
          {<<-1, y>> : y \in -1..2} \cup {<<1, y>> : y \in -2..1}}
Everywhere == <<100, 2>>

-----------------------------------------------------------------------------
\* The navigation search finds a shortest way, and none only where there is none; short of
\* nodes or of radius it says so (domain/navigation.py, PathStatus).
Walk(grid, path) ==
  /\ \A i \in DOMAIN path : MayEnter(grid, path[i], FALSE)
  /\ \A i \in 2..Len(path) : Manhattan(path[i - 1], path[i]) = 1
ASSUME ShortestPathIsShortest ==
  \A walls \in Mazes :
    LET grid == [open |-> Board \ walls, blocked |-> walls, inside |-> Board, bounded |-> TRUE]
        near == {<<n, ReachableCells(grid, Centre, FALSE, n)>> : n \in 0..16}
    IN  \A to \in Board : \A limits \in {Everywhere, <<3, 2>>, <<100, 1>>} :
          LET way == ShortestPath(grid, Centre, to, FALSE, limits)
              rings == {r[1] : r \in {s \in near : to \in s[2]}}
              step == FirstStep(grid, Centre, to, FALSE, limits)
          IN  /\ way.kind = "path" => /\ Walk(grid, way.path) /\ Head(way.path) = Centre /\ Last(way.path) = to
                                      /\ Len(way.path) = 1 + Min(rings)
                                      /\ step # "none" => StepTo(Centre, step) = way.path[2]
              /\ way.kind = "unreachable" => rings = {}
              /\ limits = Everywhere => way.kind # "limit"

\* Both single-step searches take the first step of a cheapest way, or none when there is no way: the routing
\* search by length, the A* with four more for a discouraged cell.
Reached(walls, discouraged, from) ==   \* the cells that a cost of 0, 1, 2, ... reaches
  LET Grown(h) ==
        LET near(S) == {StepTo(c, d) : c \in S, d \in Direction} \cap (Board \ walls)
            late == IF Len(h) > Penalty THEN h[Len(h) - Penalty] ELSE {}
        IN  Append(h, Last(h) \cup (near(Last(h)) \ discouraged) \cup near(late))
      hist[n \in 0..40] == IF n = 0 THEN <<{from}>> ELSE LET h == hist[n - 1] IN Grown(h)
  IN  hist[40]
Cost(reached, c) == LET costs == {n \in DOMAIN reached : c \in reached[n]} IN IF costs = {} THEN 1000 ELSE Min(costs) - 1
ASSUME StepsAreOnCheapestWays ==
  \A walls \in Mazes : \A discouraged \in {{}, {<<0, 1>>, <<-1, 0>>}} :
    LET from == Reached(walls, discouraged, Centre)
        after == [d \in Direction |-> Reached(walls, discouraged, StepTo(Centre, d))]
        Cheapest(d, to) ==
          /\ StepTo(Centre, d) \notin walls
          /\ Cost(from, StepTo(Centre, d)) + Cost(after[d], to) = Cost(from, to)
    IN  \A to \in Board \ ({Centre} \cup walls) :
          LET a == AStarNextStep(Centre, to, walls, discouraged, 2, 100)
              b == NextStepToward(Centre, to, walls, 2, 100)
              distance == ShortestPathDistances(Centre, {to}, walls, 2, 100)
          IN  /\ IF a = "none" THEN Cost(from, to) = 1000 ELSE Cheapest(a, to)
              /\ discouraged = {} => IF b = "none" THEN distance = <<>> /\ Cost(from, to) = 1000
                                     ELSE Cheapest(b, to) /\ distance[to] = Cost(from, to)

\* A shot is blocked by the obstacles whose inside it passes, sight by those it touches as well; so sight goes
\* both ways, and what can be seen can be shot at. A corner is touched where 2 |cross| is the sum of the sides.
Crosses(a, b, c) == 2 * Abs((b[1] - a[1]) * (c[2] - a[2]) - (b[2] - a[2]) * (c[1] - a[1]))
InBox(a, b, c) == \A i \in {1, 2} : (a[i] <= c[i] /\ c[i] <= b[i]) \/ (b[i] <= c[i] /\ c[i] <= a[i])
Between(a, b) == {c \in Board \ {a, b} : InBox(a, b, c)}
ASSUME LinesAreLines ==
  \A a \in {<<-2, -2>>, <<-2, 1>>} : \A b \in Board \ {a} :
    LET reach == Manhattan(a, b)
    IN  \A obstacles \in {{c} : c \in Board} \cup {{}, {<<-1, -1>>, <<0, 0>>}, {<<-2, -1>>, <<-1, 1>>}} :
          /\ ShotLineBlocked(a, b, obstacles) = (\E c \in Between(a, b) \cap obstacles : Crosses(a, b, c) < reach)
          /\ VisionLineBlocked(a, b, obstacles) = (\E c \in Between(a, b) \cap obstacles : Crosses(a, b, c) <= reach)

-----------------------------------------------------------------------------
Foe(id, at, role) == [id |-> id, at |-> at, kind |-> "UNIT", role |-> role]
Sieges == {{Foe(7, <<3, 0>>, "RANGER")}, {Foe(7, <<0, -2>>, "VANGUARD"), Foe(8, <<2, 1>>, "WORKER")},
           {Foe(7, <<0, 2>>, "VANGUARD"), Foe(8, <<-2, 0>>, "RANGER"), [Foe(9, <<2, 2>>, "WORKER") EXCEPT !.kind = "CORE"]}}
Open(walls) == {d \in Direction : StepTo(Centre, d) \notin walls}

\* Posts are open cells; the ring of guard posts gives every guard one of its own, and where it has
\* no room the guard stands beside the core.
ASSUME PostsAreOpen ==
  \A walls \in Mazes :
    /\ \A i \in 0..40 : \A spaced \in BOOLEAN :
         LET post == GuardHomeCell(Centre, walls, i, {<<3, 3>>}, spaced)
         IN  post \notin walls \cup {<<3, 3>>} /\ Chebyshev(post, Centre) \in 2..5
    /\ LET home == HomeCell(Centre, walls, 2) IN IF Open(walls) = {} THEN home = NoCell ELSE home \in {StepTo(Centre, d) : d \in Open(walls)}
    /\ \A foes \in Sieges : \A role \in {"VANGUARD", "RANGER"} :
         LET post == DefensePost(Centre, foes, walls, role, 1)
         IN  post # NoCell => post \notin walls /\ ~EnemyAt(post, foes) /\ Manhattan(post, Centre) \in 1..GuardRadius(role)
ASSUME PostsAreDistinct ==
  \A order \in {RingOrder, CornerRingOrder} : Cardinality(ToSet(order)) = Len(order)

\* The shelter of a core is the nearest open cell with a single way in.
ASSUME ShelterIsNearest ==
  \A walls \in Mazes :
    LET shelters == {c \in Board \ (walls \cup {Centre}) : Cardinality({d \in Direction : StepTo(c, d) \notin walls}) = 1}
        found == CoreShelterTarget(Centre, walls, {}, 2)
    IN  IF shelters = {} THEN found = NoCell
        ELSE /\ found[1] \in shelters /\ found[2] \notin walls /\ Manhattan(found[1], found[2]) = 1
             /\ \A c \in shelters : Manhattan(Centre, found[1]) <= Manhattan(Centre, c)

\* Who steps aside, flees or kites stands on a free cell then, and on none that is worse by the helper's measure
\* than another it could have taken.
ASSUME EvasionIsBest ==
  \A walls \in Mazes : \A foes \in Sieges :
    LET away == RetreatDirection(Centre, foes, walls, <<2, 2>>, "single")
        least == RetreatDirection(Centre, foes, walls, <<2, 2>>, "multi")
        Free(d) == StepTo(Centre, d) \notin walls /\ ~EnemyAt(StepTo(Centre, d), foes)
        Damage(d) == Cardinality({e \in foes : ProjectedDamageAt(StepTo(Centre, d), e, walls) > 0})
        threat == NearestEnemy(foes, Centre)
        kite == KiteCell(Centre, threat.at, walls, <<0, 1>> :> 2, foes)
        anchor == YieldAnchor(Centre, walls, OccupancyCounts(Centre, [u \in 1..3 |-> IF u = 3 THEN <<1, 0>> ELSE <<0, 1>>], 1..3), foes)
    IN  /\ \A d \in Direction : Free(d) =>
             /\ away # "none" /\ NearestDistance(StepTo(Centre, d), foes) <= NearestDistance(StepTo(Centre, away), foes)
             /\ least # "none" /\ Damage(least) <= Damage(d)
        /\ away # "none" => Free(away)
        /\ kite # NoCell => /\ Chebyshev(kite, Centre) = 1 /\ kite \notin walls \cup {<<0, 1>>} /\ ~EnemyAt(kite, foes)
                            /\ CanShoot(kite, threat.at, walls) /\ Chebyshev(kite, threat.at) > 1
        /\ anchor # NoCell => /\ Manhattan(anchor, Centre) = 1 /\ anchor \notin walls \cup {<<0, 1>>}
                              /\ anchor = <<1, 0>> => Open(walls) \subseteq {"E", "S"}

\* The aggressive order shoots a worker first and a core last.
ASSUME WorkersAreShotFirst ==
  \A foes \in Sieges :
    LET order == AggressiveOrder(foes)
    IN  /\ ToSet(order) = foes /\ Len(order) = Cardinality(foes)
        /\ \A i, j \in DOMAIN order : i < j => order[j].role # "WORKER" \/ order[i].role = "WORKER" \/ order[j].kind = "CORE"

\* Eight squads of three have a rally point each, as long as none is closed.
ASSUME RallyPointsAreDistinct ==
  LET slots == {RallyMemberSlot(squad, member) : squad \in 0..7, member \in 0..2}
      Point(slot) == RallyPointAtMemberSlot(Centre, <<9, 4>>, {}, slot)
  IN  /\ Cardinality(slots) = 24 /\ Cardinality({Point(slot) : slot \in slots}) = 24
      /\ \A slot \in 0..7 : RallyPointAtSlot(Centre, <<9, 4>>, {}, slot) = Point(slot)

\* The guards' sectors lie around the threat for the first four, and all over for eight in a row after them.
ASSUME SectorsAreCovered ==
  /\ \A sector \in 0..7 :
       {ThreatWeightedDirection(i, sector) : i \in 0..3} = {(sector + k) % 8 : k \in {0, 1, 2, 7}}
  /\ \A first \in 4..8 : {ThreatWeightedDirection(i, 3) : i \in first..(first + 7)} = 0..7

\* At full capacity a worker on the core leaves it for a cell with room, one elsewhere walks toward an open patrol
\* point, and a loaded one toward an open cell beside the core.
ASSUME WorkersMakeRoom ==
  \A walls \in Mazes : \A index \in 0..3 :
    LET occupancy == <<1, 0>> :> 2 @@ <<0, 1>> :> 1
        at == <<-1, 0>>
        off == FullCapacityWorkerRoute(Centre, Centre, index, walls, occupancy, 2, <<200, 6>>)
        patrol == FullCapacityWorkerRoute(Centre, at, index, walls \ {at}, occupancy, 2, <<200, 6>>)
        home == IgnoreOccupancyHomeStep(<<-2, 0>>, Centre, walls, <<200, 6>>)
    IN  /\ IF Open(walls) \subseteq {"E"} THEN off.step = NoStep
           ELSE off.step \notin walls \cup {<<1, 0>>} /\ Manhattan(off.step, Centre) = 1
        /\ patrol.step # NoStep => Manhattan(patrol.step, at) = 1 /\ patrol.step \notin (walls \ {at}) \cup {Centre, <<1, 0>>}
        /\ patrol.goal \notin walls
        /\ home.step # NoStep => home.step \notin walls \cup {Centre} /\ Manhattan(home.step, <<-2, 0>>) = 1
        /\ Open(walls) # {} => Manhattan(home.target, Centre) = 1 /\ home.target \notin walls

\* A spawn that found its cell full holds the next ones back for SpawnClearTicks ticks; healing leaves the reserve
\* untouched; the rings of exploration grow from the base to five times the base and start again.
ASSUME ReservesAndRings ==
  /\ \A from \in 1..4 : {t \in from..20 : SpawnSuspended(t, SpawnClearUntil(from, 0, TRUE))} = from..(from + SpawnClearTicks - 1)
  /\ \A resources \in 0..20 : \A missing \in 1..4 : CanAffordHeal(resources, missing) <=> resources - missing >= HealResourceReserve
  /\ \A ring \in 0..9 : /\ ExploreRadiusForRing(6, ring) \in 6..30
                        /\ ring % 5 # 4 => ExploreRadiusForRing(6, ring + 1) = ExploreRadiusForRing(6, ring) + 6
=============================================================================
