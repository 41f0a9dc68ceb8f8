----------------------------- MODULE UnitsProofs -----------------------------
(***************************************************************************)
(* Proofs about the unit decider (UnitDecider), for any number of workers  *)
(* and guards, any walls, sights and enemies, and any settings of its      *)
(* guards against stuck units.                                             *)
(*                                                                         *)
(* The first sections show what the searches and the escape step return:   *)
(* a direction or none, and an escape never into an obstacle it was given. *)
(* Then the order of every unit is followed through the overrides, the     *)
(* slide along known obstacles last; and a turn of the game is shown to    *)
(* reject for the terrain only what leads into a wall.                     *)
(***************************************************************************)
EXTENDS UnitDecider, SequenceTheorems, FiniteSetTheorems, TLAPS

Place == Int \X Int
Steps == Direction \cup {"none"}

-----------------------------------------------------------------------------
\* Every set of numbers has a least one (the min(..., key=...) of the
\* decider): the intervals 1..n are well-founded under inclusion.
LEMMA LeastOfThem ==
  ASSUME NEW S, S \subseteq Nat, S # {}
  PROVE  \E n \in S : \A m \in S : n <= m
  <1> DEFINE Upto == {1..n : n \in S}
             Inclusion == StrictSubsetOrdering(Nat)
  <1>1. IsWellFoundedOn(Inclusion, FiniteSubsetsOf(Nat))
    BY FS_StrictSubsetOrderingWellFounded
  <1>2. Upto # {} /\ Upto \subseteq FiniteSubsetsOf(Nat)
    <2>1. \A n \in Nat : 1..n \subseteq Nat /\ IsFiniteSet(1..n)
      BY FS_Interval
    <2>2. QED
      BY <2>1 DEF FiniteSubsetsOf
  <1>3. PICK T \in Upto : \A U \in Upto : <<U, T>> \notin Inclusion
    BY <1>1, <1>2, WFMin
  <1>4. PICK n \in S : T = 1..n
    OBVIOUS
  <1>5. ASSUME NEW m \in S, m < n
        PROVE  FALSE
    <2>1. 1..m \subseteq 1..n /\ n \in 1..n /\ n \notin 1..m
      BY <1>5
    <2>2. <<1..m, 1..n>> \in Inclusion
      BY <2>1 DEF StrictSubsetOrdering
    <2>3. QED
      BY <1>3, <1>4, <2>2
  <1>6. QED
    BY <1>5

\* A set of numbers that has 0 and the successor of each of its own has them all
\* (the game resolves the orders of one unit after the other).
LEMMA ByInduction ==
  ASSUME NEW P, 0 \in P, \A n \in Nat : n \in P => n + 1 \in P
  PROVE  Nat \subseteq P
  <1> SUFFICES ASSUME Nat \ P # {} PROVE FALSE
    OBVIOUS
  <1>1. PICK n \in Nat \ P : \A m \in Nat \ P : n <= m
    BY LeastOfThem
  <1>2. n # 0 /\ n - 1 \in Nat /\ n - 1 \in P
    BY <1>1
  <1>3. QED
    BY <1>1, <1>2

\* The first place of the least key is one of the places (min over the open
\* parking cells, over the free directions of an escape).
LEMMA LeastIsAPlace ==
  ASSUME NEW places, places \subseteq Nat, places # {}, NEW key \in [places -> Nat]
  PROVE  Min({i \in places : \A j \in places : key[i] <= key[j]}) \in places
  <1> DEFINE Keys == {key[i] : i \in places}
             Least == {i \in places : \A j \in places : key[i] <= key[j]}
  <1>1. PICK k \in Keys : \A m \in Keys : k <= m
    <2>1. Keys \subseteq Nat /\ Keys # {}
      OBVIOUS
    <2>2. QED
      BY <2>1, LeastOfThem
  <1>2. Least # {} /\ Least \subseteq Nat
    <2>1. PICK i \in places : k = key[i]
      BY <1>1
    <2>2. \A j \in places : key[i] <= key[j]
      BY <1>1, <2>1
    <2>3. QED
      BY <2>2
  <1>3. PICK i \in Least : \A j \in Least : i <= j
    BY <1>2, LeastOfThem
  <1> HIDE DEF Least
  <1>4. Min(Least) \in Least
    BY <1>3 DEF Min
  <1>5. QED
    BY <1>4 DEF Least

-----------------------------------------------------------------------------
\* Steps and distances on the grid (domain/navigation.py, Coordinate.step).
LEMMA StepIsAPlace ==
  ASSUME NEW c \in Place, NEW d \in Direction
  PROVE  StepTo(c, d) \in Place
  BY DEF Place, Direction, Delta, StepTo

\* A distance on the grid is a natural number.
LEMMA DistanceIsNat ==
  ASSUME NEW a \in Place, NEW b \in Place
  PROVE  Manhattan(a, b) \in Nat
  BY DEF Place, Manhattan, Abs

\* A cell next to another is a step in one of the four directions away (direction_to).
LEMMA AdjacentIsADirection ==
  ASSUME NEW a, NEW b
  PROVE  DirectionToAdjacent(a, b) \in Direction
  BY DEF DirectionToAdjacent, Direction

\* The greedy step (step_toward) is one of the four.
LEMMA StepTowardIsADirection ==
  ASSUME NEW a \in Place, NEW b \in Place
  PROVE  StepToward(a, b) \in Direction
  BY DEF StepToward, XAxis, Place, Direction

\* The A* ends in a direction or without one (astar_next_step).
LEMMA SearchIsAStep ==
  ASSUME NEW start, NEW target, NEW blocked, NEW discouraged, NEW radius, NEW budget
  PROVE  AStarNextStep(start, target, blocked, discouraged, radius, budget) \in Steps
  BY AdjacentIsADirection DEF AStarNextStep, AStarToward, FirstFound, Steps

\* Completing directions by the ones that lack leaves directions.
LEMMA CompletedAreDirections ==
  ASSUME NEW s \in Seq(Direction)
  PROVE  Completed(s) \in Seq(Direction)
  <1>1. ASSUME NEW t \in Seq(Direction), NEW d \in Direction
        PROVE  WithDirection(t, d) \in Seq(Direction)
    BY DEF WithDirection
  <1>2. {"N", "E", "S", "W"} \subseteq Direction
    BY DEF Direction
  <1>3. WithDirection(s, "E") \in Seq(Direction)
    BY <1>1, <1>2
  <1>4. WithDirection(WithDirection(s, "E"), "S") \in Seq(Direction)
    BY <1>1, <1>2, <1>3
  <1>5. WithDirection(WithDirection(WithDirection(s, "E"), "S"), "W") \in Seq(Direction)
    BY <1>1, <1>2, <1>4
  <1>6. QED
    BY <1>1, <1>2, <1>5 DEF Completed

\* A position that SelectInSeq finds is one of the sequence: the least of a set
\* of positions that is not empty (next((x for x in ...), default)).
LEMMA FirstIsAPosition ==
  ASSUME NEW n \in Nat, NEW I, I \subseteq 1..n, I # {}
  PROVE  Min(I) \in 1..n
  <1>1. PICK i \in I : \A j \in I : i <= j
    <2>1. I \subseteq Nat
      OBVIOUS
    <2>2. QED
      BY <2>1, LeastOfThem
  <1>2. Min(I) \in I
    BY <1>1 DEF Min
  <1>3. QED
    BY <1>2

\* Routed, or the first free direction toward the target, or the greedy step
\* (_route_direction).
LEMMA RouteIsADirection ==
  ASSUME NEW at \in Place, NEW target \in Place, NEW obstacles, NEW discouraged
  PROVE  RouteDirection(at, target, obstacles, discouraged) \in Direction
  <1> DEFINE ways == TowardTarget(at, target)
             I == {i \in 1..Len(ways) : StepTo(at, ways[i]) \notin obstacles}
  <1>1. ways \in Seq(Direction) /\ Len(ways) \in Nat
    <2>1. <<>> \in Seq(Direction) /\ <<"E">> \in Seq(Direction) /\ <<"W">> \in Seq(Direction)
      BY DEF Direction
    <2>2. <<"S">> \in Seq(Direction) /\ <<"N">> \in Seq(Direction)
      BY DEF Direction
    <2>3. \A n : XAxis(n) \in Seq(Direction) /\ YAxis(n) \in Seq(Direction)
      BY <2>1, <2>2 DEF XAxis, YAxis
    <2>4. XAxis(target[1] - at[1]) \o YAxis(target[2] - at[2]) \in Seq(Direction)
      BY <2>3
    <2>5. TowardTarget(at, target) \in Seq(Direction)
      BY <2>4, CompletedAreDirections DEF TowardTarget
    <2>6. QED
      BY <2>5
  <1>2. I # {} => Min(I) \in 1..Len(ways)
    <2>1. I \subseteq 1..Len(ways)
      OBVIOUS
    <2> HIDE DEF I, ways
    <2>2. QED
      BY <1>1, <2>1, FirstIsAPosition
  <1>3. I # {} => ways[Min(I)] \in Direction /\ Min(I) # 0
    <2> HIDE DEF I, ways
    <2>1. QED
      BY <1>1, <1>2
  <1>4. FirstWhere(ways, LAMBDA d : StepTo(at, d) \notin obstacles, StepToward(at, target))
          = IF I = {} THEN StepToward(at, target) ELSE ways[Min(I)]
    BY <1>3 DEF FirstWhere, SelectInSeq
  <1> HIDE DEF I, ways
  <1>5. FirstWhere(ways, LAMBDA d : StepTo(at, d) \notin obstacles, StepToward(at, target)) \in Direction
    BY <1>3, <1>4, StepTowardIsADirection
  <1>6. QED
    BY <1>5, SearchIsAStep DEF RouteDirection, Steps, ways

-----------------------------------------------------------------------------
\* The escape step (forced_escape_step): one of four directions in some order,
\* and never a step into an obstacle it was given.
LEMMA EscapeOrderHasDirections ==
  ASSUME NEW origin \in Place, NEW target \in Place, origin # target, NEW side
  PROVE  /\ DOMAIN EscapeOrder(origin, target, side) = 1..4
         /\ \A i \in 1..4 : EscapeOrder(origin, target, side)[i] \in Direction
  <1> DEFINE primary == PrimaryStep(target[1] - origin[1], target[2] - origin[2])
             across == IF primary \in {"N", "S"} THEN <<"E", "W">> ELSE <<"S", "N">>
             first == IF side = 0 THEN across ELSE Reverse(across)
             rest == <<primary, Opposite(primary)>>
  <1>1. primary \in Direction
    BY DEF PrimaryStep, XAxis, YAxis, Abs, Place, Direction
  <1>2. Opposite(primary) \in Direction
    BY <1>1 DEF Opposite, Direction
  <1>3. rest \in Seq(Direction) /\ Len(rest) = 2
    BY <1>1, <1>2
  <1>4. across \in Seq(Direction) /\ Len(across) = 2
    <2>1. <<"E", "W">> \in Seq(Direction) /\ <<"S", "N">> \in Seq(Direction)
      BY DEF Direction
    <2>2. Len(<<"E", "W">>) = 2 /\ Len(<<"S", "N">>) = 2
      OBVIOUS
    <2>3. QED
      BY <2>1, <2>2
  <1> HIDE DEF across
  <1>5. Reverse(across) \in Seq(Direction) /\ Len(Reverse(across)) = 2
    <2>1. Reverse(across) = [i \in 1..2 |-> across[3 - i]]
      BY <1>4 DEF Reverse
    <2>2. ASSUME NEW i \in 1..2 PROVE across[3 - i] \in Direction
      <3>1. 3 - i \in 1..2 /\ \A j \in 1..2 : across[j] \in Direction
        BY <1>4
      <3>2. QED
        BY <3>1
    <2>3. QED
      BY <2>1, <2>2
  <1>6. first \in Seq(Direction) /\ Len(first) = 2
    BY <1>4, <1>5
  <1>7. EscapeOrder(origin, target, side) = first \o rest
    BY DEF EscapeOrder, EscapeOrderFrom, across
  <1> HIDE DEF first, rest
  <1>8. first \o rest \in Seq(Direction) /\ Len(first \o rest) = 4
    <2>1. first \o rest \in Seq(Direction) /\ Len(first \o rest) = Len(first) + Len(rest)
      BY <1>3, <1>6, ConcatProperties
    <2>2. QED
      BY <1>3, <1>6, <2>1
  <1>9. ASSUME NEW t \in Seq(Direction), Len(t) = 4
        PROVE  DOMAIN t = 1..4 /\ \A i \in 1..4 : t[i] \in Direction
    <2>1. DOMAIN t = 1..4
      BY <1>9, LenProperties
    <2>2. QED
      BY <1>9, <2>1, ElementOfSeq
  <1>10. QED
    BY <1>7, <1>8, <1>9

\* An escape (forced_escape_step) is into a cell that is no obstacle, or there is none.
LEMMA EscapeIsFree ==
  ASSUME NEW origin \in Place, NEW target \in Place, NEW obstacles, NEW side
  PROVE  LET step == ForcedEscapeStep(origin, target, obstacles, side)
         IN  step = "none" \/ (step \in Direction /\ StepTo(origin, step) \notin obstacles)
  <1> DEFINE order == EscapeOrder(origin, target, side)
             free == {i \in DOMAIN order : StepTo(origin, order[i]) \notin obstacles}
             key == [i \in free |-> EscapeKey(origin, target, Manhattan(StepTo(origin, order[i]), target),
                                              order[i] \in {order[1], order[2]})]
             least == {i \in free : \A j \in free : key[i] <= key[j]}
  <1> SUFFICES ASSUME origin # target, free # {}
               PROVE  /\ order[Min(least)] \in Direction
                      /\ StepTo(origin, order[Min(least)]) \notin obstacles
    <2>1. EscapeBy(origin, target, order, obstacles) = IF free = {} THEN "none" ELSE order[Min(least)]
      <3>1. least = {i \in free : \A j \in free :
                       EscapeKey(origin, target, Manhattan(StepTo(origin, order[i]), target), order[i] \in {order[1], order[2]})
                         <= EscapeKey(origin, target, Manhattan(StepTo(origin, order[j]), target), order[j] \in {order[1], order[2]})}
        OBVIOUS
      <3> HIDE DEF order, least
      <3>2. QED
        BY <3>1 DEF EscapeBy, FreeEscape, LeastAmong
    <2> HIDE DEF order, free, least
    <2>2. QED
      BY <2>1 DEF ForcedEscapeStep, order
  <1>1. DOMAIN order = 1..4 /\ \A i \in 1..4 : order[i] \in Direction
    BY EscapeOrderHasDirections
  <1> HIDE DEF order
  <1>2. free \subseteq Nat
    BY <1>1
  <1>3. key \in [free -> Nat]
    <2>1. ASSUME NEW i \in free
          PROVE  EscapeKey(origin, target, Manhattan(StepTo(origin, order[i]), target), order[i] \in {order[1], order[2]}) \in Nat
      <3>1. order[i] \in Direction
        BY <1>1
      <3>2. Manhattan(StepTo(origin, order[i]), target) \in Nat /\ Manhattan(origin, target) \in Nat
        BY <3>1, StepIsAPlace, DistanceIsNat
      <3>3. QED
        BY <3>2 DEF EscapeKey
    <2>2. QED
      BY <2>1
  <1>4. Min(least) \in free
    <2> HIDE DEF free, key
    <2>1. QED
      BY <1>2, <1>3, LeastIsAPlace
  <1>5. QED
    BY <1>1, <1>4

-----------------------------------------------------------------------------
\* Orders that move go one of the four ways; units stand on places; tasks that
\* are walked to have a place to go to.
Stepwise(order) == order.type = "MOVE" => order.dir \in Direction
AllStepwise(orders) == \A id \in Units : Stepwise(orders[id])
AllPlaced(at) == \A id \in Units : at[id].pos \in Place
TaskFits(task) ==
  /\ task.type \in {"WAIT", "EXPLORE", "DEPOSIT", "GO_RESOURCE", "HARVEST_CURRENT"}
  /\ task.type \in {"DEPOSIT", "GO_RESOURCE"} => task.target \in Place
  /\ task.type = "EXPLORE" => task.target = NoCell
TasksFit(tasks) == \A id \in Units : TaskFits(tasks[id])

\* The cells the constants name are places (models/coordinate).
LEMMA NamedPlaces ==
  Core \in Place /\ Mine \in Place /\ Post \in Place
  BY DeciderAssumption DEF Place

\* The safety planner's part: a guard steps toward its post.
LEMMA BaselineSteps ==
  ASSUME NEW at, AllPlaced(at)
  PROVE  AllStepwise(Baseline(at))
  <1> SUFFICES ASSUME NEW id \in Units PROVE Stepwise(Baseline(at)[id])
    BY DEF AllStepwise
  <1>1. StepToward(at[id].pos, Post) \in Direction
    BY NamedPlaces, StepTowardIsADirection DEF AllPlaced
  <1>2. QED
    BY <1>1 DEF Baseline, Stepwise, Move, Act

\* The tasks of a tick fit, whatever is blocked (_apply_worker_tasks).
LEMMA TasksForFit ==
  ASSUME NEW at, NEW blocked, NEW enemies
  PROVE  TasksFit(TasksFor(at, blocked, enemies))
  <1> SUFFICES ASSUME NEW id \in Units PROVE TaskFits(TasksFor(at, blocked, enemies)[id])
    BY DEF TasksFit
  <1>1. TaskFits(NoTask) /\ TaskFits(TaskFor(at[id], blocked, enemies))
    BY NamedPlaces DEF TaskFits, NoTask, Task, TaskFor
  <1>2. QED
    BY <1>1 DEF TasksFor

\* Workers without a target fan out in one of the four directions
\* (worker_dense_direction).
LEMMA DenseIsADirection ==
  ASSUME NEW id \in Units
  PROVE  DenseToCardinal(WorkerDenseDirection(WorkerOrdinal(id))) \in Direction
  <1>1. WorkerOrdinal(id) \in Nat
    <2>1. id \in Nat /\ IsFiniteSet(Units) /\ Workers \subseteq Units
      BY DeciderAssumption DEF Units
    <2>2. IsFiniteSet({w \in Workers : w < id})
      <3>1. {w \in Workers : w < id} \subseteq Units
        BY <2>1
      <3>2. QED
        BY <2>1, <3>1, FS_Subset
    <2>3. QED
      BY <2>2, FS_CardinalityType DEF WorkerOrdinal
  <1>2. WorkerDenseDirection(WorkerOrdinal(id)) \in 0..15
    BY <1>1 DEF WorkerDenseDirection
  <1>3. \A slot \in 0..15 : DenseToCardinal(slot) \in Direction
    <2> SUFFICES ASSUME NEW slot \in 0..15 PROVE DenseToCardinal(slot) \in Direction
      OBVIOUS
    <2>1. /\ DenseDeltas[slot + 1][1] \in Int /\ DenseDeltas[slot + 1][2] \in Int
          /\ DenseDeltas[slot + 1][1] # 0 \/ DenseDeltas[slot + 1][2] # 0
      BY DEF DenseDeltas
    <2>2. QED
      BY <2>1 DEF DenseToCardinal, XAxis, YAxis, Abs, Direction
  <1>4. QED
    BY <1>2, <1>3

\* A task as an order (_apply_worker_tasks): a step only where there is a place
\* to go to.
LEMMA TasksStep ==
  ASSUME NEW orders, AllStepwise(orders), NEW tasks, TasksFit(tasks), NEW at, AllPlaced(at), NEW m
  PROVE  AllStepwise(MergeWorkerTasks(orders, tasks, at, m))
  <1> SUFFICES ASSUME NEW id \in Units PROVE Stepwise(MergeWorkerTasks(orders, tasks, at, m)[id])
    BY DEF AllStepwise
  <1> DEFINE task == tasks[id]
  <1>1. Stepwise(orders[id]) /\ TaskFits(task) /\ at[id].pos \in Place
    BY DEF AllStepwise, TasksFit, AllPlaced
  <1>2. Stepwise(Act("DEPOSIT")) /\ Stepwise(Act("HARVEST")) /\ Stepwise(Act("WAIT"))
    BY DEF Stepwise, Act
  <1>3. Stepwise(Move(DenseToCardinal(WorkerDenseDirection(WorkerOrdinal(id)))))
    BY DenseIsADirection DEF Stepwise, Move
  <1>4. task.type \in {"DEPOSIT", "GO_RESOURCE"} => Stepwise(TaskStep(id, task, at[id].pos, m))
    <2>1. task.type \in {"DEPOSIT", "GO_RESOURCE"} =>
            RouteDirection(at[id].pos, task.target, TaskObstacles(task, m), SoftObstaclesFromTrail(m.trail[id], at[id].pos))
              \in Direction
      BY <1>1, RouteIsADirection DEF TaskFits
    <2>2. QED
      BY <2>1 DEF TaskStep, Stepwise, Move
  <1>5. Stepwise(TaskAction(id, task, at, m))
    BY <1>1, <1>2, <1>3, <1>4 DEF TaskAction, TaskFits
  <1>6. QED
    BY <1>1, <1>5 DEF MergeWorkerTasks

-----------------------------------------------------------------------------
\* The overrides keep the orders stepwise, whichever of them replaces an order.
\* A step home goes toward a parking cell (_worker_threat_sanctuary).
LEMMA HomeStepIsAStep ==
  ASSUME NEW pos \in Place, NEW terrain, OpenParking(terrain) # {}, NEW routed
  PROVE  Stepwise(HomeStep(pos, terrain, routed))
  <1> DEFINE open == OpenParking(terrain)
             key == [i \in open |-> Manhattan(pos, Parking[i])]
             least == {i \in open : \A j \in open : key[i] <= key[j]}
  <1>1. \A i \in 1..4 : Parking[i] \in Place
    <2>1. \A i \in 1..4 : <<"N", "E", "S", "W">>[i] \in Direction
      BY DEF Direction
    <2>2. QED
      BY <2>1, NamedPlaces, StepIsAPlace DEF Parking
  <1>2. open \subseteq 1..4
    BY DEF OpenParking
  <1>3. key \in [open -> Nat]
    BY <1>1, <1>2, DistanceIsNat
  <1>4. Min(least) \in open
    <2>1. open \subseteq Nat
      BY <1>2
    <2> HIDE DEF open, key
    <2>2. QED
      BY <1>3, <2>1, LeastIsAPlace DEF open
  <1>5. LeastAmong(Parking, open, LAMBDA c : Manhattan(pos, c)) = Parking[Min(least)]
    <2>1. least = {i \in open : \A j \in open : Manhattan(pos, Parking[i]) <= Manhattan(pos, Parking[j])}
      OBVIOUS
    <2> HIDE DEF open, least
    <2>2. QED
      BY <2>1 DEF LeastAmong
  <1>6. Parking[Min(least)] \in Place
    BY <1>1, <1>2, <1>4
  <1>7. ASSUME NEW parking \in Place
        PROVE  Stepwise(HomeStepTo(pos, parking, terrain, routed))
    <2>1. StepToward(pos, parking) \in Direction
      BY StepTowardIsADirection
    <2>2. AStarNextStep(pos, parking, RoutingObstacles(terrain), {}, RouteRadius, RouteBudget) \in Steps
      BY SearchIsAStep
    <2>3. QED
      BY <2>1, <2>2 DEF HomeStepTo, Stepwise, Move, Steps
  <1> HIDE DEF least, open
  <1>8. QED
    BY <1>5, <1>6, <1>7 DEF HomeStep, open

\* The recall of stranded workers replaces orders by steps home.
LEMMA RecallSteps ==
  ASSUME NEW orders, AllStepwise(orders), NEW at, AllPlaced(at), NEW terrain
  PROVE  AllStepwise(RecallStrandedWorkers(orders, at, terrain))
  <1> SUFFICES ASSUME NEW id \in Units PROVE Stepwise(RecallStrandedWorkers(orders, at, terrain)[id])
    BY DEF AllStepwise
  <1>1. Stepwise(orders[id]) /\ at[id].pos \in Place
    BY DEF AllStepwise, AllPlaced
  <1> DEFINE Far(u) == Manhattan(at[u].pos, Core)
             stranded == {u \in Workers : orders[u].type = "WAIT" /\ at[u].cargo = 0 /\ Far(u) > RecallDistance}
             first == {u \in stranded : Cardinality({o \in stranded : Far(o) > Far(u) \/ (Far(o) = Far(u) /\ o < u)}) < RecallRoutes}
  <1>2. RecallStrandedWorkers(orders, at, terrain)[id]
          = IF OpenParking(terrain) # {} /\ id \in stranded THEN HomeStep(at[id].pos, terrain, id \in first) ELSE orders[id]
    BY DEF RecallStrandedWorkers
  <1> HIDE DEF stranded, first
  <1>3. OpenParking(terrain) # {} => Stepwise(HomeStep(at[id].pos, terrain, id \in first))
    BY <1>1, HomeStepIsAStep
  <1>4. QED
    BY <1>1, <1>2, <1>3

\* So does the sanctuary of workers under threat, when there is one.
LEMMA SanctuarySteps ==
  ASSUME NEW orders, AllStepwise(orders), NEW at, AllPlaced(at), NEW enemies, NEW terrain
  PROVE  AllStepwise(WorkerThreatSanctuary(orders, at, enemies, terrain))
  <1> SUFFICES ASSUME NEW id \in Units PROVE Stepwise(WorkerThreatSanctuary(orders, at, enemies, terrain)[id])
    BY DEF AllStepwise
  <1>1. Stepwise(orders[id]) /\ at[id].pos \in Place
    BY DEF AllStepwise, AllPlaced
  <1> DEFINE door == \E e \in enemies : Manhattan(Core, e) <= SanctuaryRadius
             flees == {u \in Workers : /\ orders[u].type = "MOVE" /\ at[u].cargo = 0 /\ Manhattan(at[u].pos, Core) > 1
                                       /\ door \/ \E e \in enemies : Manhattan(at[u].pos, e) <= FleeRadius}
             first == {u \in flees : Cardinality({o \in flees : o < u}) < RecallRoutes}
             home == enemies # {} /\ OpenParking(terrain) # {} /\ id \in flees
  <1>2. WorkerThreatSanctuary(orders, at, enemies, terrain)[id]
          = IF home THEN HomeStep(at[id].pos, terrain, id \in first) ELSE orders[id]
    BY DEF WorkerThreatSanctuary
  <1> HIDE DEF flees, first
  <1>3. OpenParking(terrain) # {} => Stepwise(HomeStep(at[id].pos, terrain, id \in first))
    BY <1>1, HomeStepIsAStep
  <1>4. QED
    BY <1>1, <1>2, <1>3

\* A held escape step, the step out of a pause, and the pause itself
\* (_apply_movement_overrides).
LEMMA OverrideSteps ==
  ASSUME NEW orders, AllStepwise(orders), NEW guard, \A id \in Units : guard[id].escape \in Steps
  PROVE  AllStepwise(ApplyMovementOverrides(orders, guard))
  BY DEF AllStepwise, Stepwise, ApplyMovementOverrides, Move, Act, Steps

\* The step off the core's cell (_vacate_core_cell_actions).
LEMMA VacateSteps ==
  ASSUME NEW orders, AllStepwise(orders), NEW at, NEW enemies, NEW terrain
  PROVE  AllStepwise(VacateCoreCellActions(orders, at, enemies, terrain))
  <1> DEFINE off == VacateStep(at, enemies, terrain)
             ways == <<"E", "S", "N", "W">>
             I == {i \in 1..Len(ways) :
                     LET c == StepTo(Core, ways[i])
                     IN  c \notin terrain /\ Cardinality({id \in Units : at[id].pos = c}) + Cardinality(enemies \cap {c}) < 2}
  <1>1. off = IF I # {} /\ Min(I) # 0 THEN ways[Min(I)] ELSE "none"
    BY DEF VacateStep, FirstWhere, SelectInSeq
  <1>2. Len(ways) = 4 /\ \A i \in 1..4 : ways[i] \in Direction
    BY DEF Direction
  <1>3. I # {} => Min(I) \in 1..4
    <2>1. I \subseteq 1..4
      BY <1>2
    <2> HIDE DEF I
    <2>2. QED
      BY <2>1, FirstIsAPosition
  <1>4. off \in Steps
    <2> HIDE DEF I, ways, off
    <2>1. QED
      BY <1>1, <1>2, <1>3 DEF Steps
  <1> HIDE DEF off
  <1>5. AllStepwise(Vacated(orders, at, off))
    BY <1>4 DEF Vacated, AllStepwise, Stepwise, Move, Steps
  <1>6. QED
    BY <1>5 DEF VacateCoreCellActions, off

-----------------------------------------------------------------------------
\* The slide has the last word (slide_around_known_obstacles): what steps into an
\* obstacle it knows becomes a step into a free cell, or a wait.
LEMMA SlideIsFree ==
  ASSUME NEW orders, AllStepwise(orders), NEW at, AllPlaced(at), NEW m,
         NEW id \in Units
  PROVE  LET order == SlideAroundKnownObstacles(orders, at, m)[id]
         IN  /\ Stepwise(order)
             /\ order.type = "MOVE" /\ at[id].pos # Core => StepTo(at[id].pos, order.dir) \notin m.terrain
  <1> DEFINE pos == at[id].pos
             order == SlideAroundKnownObstacles(orders, at, m)[id]
             step == ForcedEscapeStep(pos, Heading(pos, orders[id].dir), m.terrain, SlideSide(m, id, pos))
  <1>1. pos \in Place /\ Stepwise(orders[id])
    BY DEF AllPlaced, AllStepwise
  <1>2. CASE ~Slides(id, orders[id], at, m.terrain)
    <2>1. order = orders[id]
      BY <1>2 DEF SlideAroundKnownObstacles
    <2>2. QED
      BY <1>1, <1>2, <2>1 DEF Slides
  <1>3. CASE Slides(id, orders[id], at, m.terrain)
    <2>1. order = SlideBy(step)
      BY <1>3 DEF SlideAroundKnownObstacles
    <2>2. orders[id].dir \in Direction
      BY <1>1, <1>3 DEF Slides, Stepwise
    <2>3. Heading(pos, orders[id].dir) \in Place
      <3>1. Lookahead \in Int
        BY DeciderAssumption
      <3>2. Delta[orders[id].dir][1] \in {-1, 0, 1} /\ Delta[orders[id].dir][2] \in {-1, 0, 1}
        BY <2>2 DEF Delta, Direction
      <3>3. QED
        BY <1>1, <3>1, <3>2 DEF Heading, Place
    <2>4. step = "none" \/ (step \in Direction /\ StepTo(pos, step) \notin m.terrain)
      BY <1>1, <2>3, EscapeIsFree
    <2> HIDE DEF step
    <2>5. QED
      BY <2>1, <2>4 DEF SlideBy, Stepwise, Move, Act
  <1>4. QED
    BY <1>2, <1>3

-----------------------------------------------------------------------------
\* The guards against stuck units (_movement_guard_hook) escape in a direction
\* or not at all, and hold on to what they escaped in.
HoldFits(held) == DOMAIN held = {"dir", "left"} /\ held.dir \in Steps
SeenFits(seen) == seen.at \in Place /\ seen.target \in Place \cup {NoCell} /\ HoldFits(seen.held)

\* Each of the guards escapes so.
LEMMA GuardedSteps ==
  ASSUME NEW seen, SeenFits(seen), NEW was, NEW pauses
  PROVE  LET guard == GuardSeen(seen, was, pauses)
         IN  guard.escape \in Steps /\ HoldFits(guard.sticky)
  <1> DEFINE away == BackoffEscape(seen, pauses)
             loops == seen.target # NoCell /\ DetectSpatialLoop(seen.trail, seen.target)
             trail == IF loops THEN MarkLoopRepath(seen.trail) ELSE seen.trail
             returns == ~loops /\ seen.target # NoCell /\ IsCoreReturn(seen.task)
             progress == RefreshDepositProgress(was, Manhattan(seen.at, Core))
             second == IF loops \/ (returns /\ DepositEscapeNeeded(progress))
                       THEN Escape(seen, trail, IF loops THEN seen.target ELSE Core) ELSE "none"
  <1>1. ASSUME NEW of, NEW to \in Place
        PROVE  Escape(seen, of, to) \in Steps
    BY EscapeIsFree DEF Escape, SeenFits, Steps
  <1>2. away \in Steps
    <2>1. (IF seen.target = NoCell THEN Core ELSE seen.target) \in Place
      BY NamedPlaces DEF SeenFits
    <2>2. QED
      BY <1>1, <2>1 DEF BackoffEscape, Steps
  <1>3. second \in Steps
    <2>1. (IF loops THEN seen.target ELSE Core) \in Place
      BY NamedPlaces DEF SeenFits
    <2> HIDE DEF loops, trail, returns, progress
    <2>2. Escape(seen, trail, IF loops THEN seen.target ELSE Core) \in Steps
      BY <1>1, <2>1
    <2>3. QED
      BY <2>2 DEF Steps
  <1>4. GuardSeen(seen, was, pauses) = Guarded(seen, pauses, away, loops, trail, returns, was, progress, second)
    BY DEF GuardSeen, GuardLoop, GuardReturn
  <1> HIDE DEF away, loops, trail, returns, progress, second
  <1>5. QED
    BY <1>2, <1>3, <1>4 DEF Guarded, SeenFits, HoldFits, Steps

\* And the hook, for every unit.
LEMMA GuardHookSteps ==
  ASSUME NEW m, TasksFit(m.tasks), \A id \in Units : HoldFits(m.sticky[id]),
         NEW at, AllPlaced(at), NEW terrain, NEW id \in Units
  PROVE  LET guard == MovementGuardHook(m, at, terrain)[id]
         IN  guard.escape \in Steps /\ HoldFits(guard.sticky)
  <1> DEFINE known == m.trail[id].history # <<>>
             still == known /\ Last(m.trail[id].history) = at[id].pos
             moved == m.moved[id] /\ known
             seen == SeenBy(m, id, at[id].pos, terrain, moved, still)
  <1>1. ASSUME NEW go, NEW stay
        PROVE  SeenFits(SeenBy(m, id, at[id].pos, terrain, go, stay))
    <2>1. TargetOr(MovementTargetFor(m.tasks[id]), id) \in Place \cup {NoCell}
      BY NamedPlaces DEF TasksFit, TaskFits, MovementTargetFor, TargetOr
    <2>2. HoldFits(IF go /\ stay THEN [dir |-> "none", left |-> 0] ELSE [m.sticky[id] EXCEPT !.left = Less(@)])
      <3>1. HoldFits([dir |-> "none", left |-> 0])
        BY DEF HoldFits, Steps
      <3>2. HoldFits([m.sticky[id] EXCEPT !.left = Less(@)])
        BY DEF HoldFits
      <3>3. QED
        BY <3>1, <3>2
    <2>3. QED
      BY <2>1, <2>2 DEF SeenBy, SeenFits, AllPlaced
  <1>2. MovementGuardHook(m, at, terrain)[id] = GuardKnown(seen, m.progress[id])
    BY DEF MovementGuardHook, GuardUnit
  <1>3. SeenFits(seen)
    BY <1>1
  <1> HIDE DEF seen
  <1>4. QED
    BY <1>2, <1>3, GuardedSteps DEF GuardKnown

-----------------------------------------------------------------------------
\* What the decider keeps between the ticks, as far as its orders depend on it.
MemoryFits(m) ==
  /\ DOMAIN m = DOMAIN NoMemory
  /\ TasksFit(m.tasks)
  /\ \A id \in Units : HoldFits(m.sticky[id])

\* The headings it keeps are those of the orders that move (composition.py
\* remembers them to pair a rejected move with its cell).
HeadingsOf(orders) == [id \in {u \in Units : orders[u].type = "MOVE"} |-> orders[id].dir]

\* What it has learned by a tick: what it knew, what was rejected for the
\* terrain, what is in sight.
Learned(m, at, rejected, visible) == m.terrain \cup InferBlockedCells(at, rejected, m.heading) \cup visible

\* The decision of a tick (decide_snapshot): stepwise orders, none of which steps
\* into what is known by then, and a memory that fits again.
LEMMA DecisionIsSound ==
  ASSUME NEW m, MemoryFits(m), NEW at, AllPlaced(at), NEW rejected, NEW visible, NEW enemies
  PROVE  LET answer == DecideSnapshot(m, at, rejected, visible, enemies)
         IN  /\ DOMAIN answer.orders = Units /\ AllStepwise(answer.orders)
             /\ MemoryFits(answer.memory)
             /\ answer.memory.terrain = Learned(m, at, rejected, visible)
             /\ answer.memory.heading = HeadingsOf(answer.orders)
             /\ \A id \in Units :
                  answer.orders[id].type = "MOVE" /\ at[id].pos # Core
                    => StepTo(at[id].pos, answer.orders[id].dir) \notin answer.memory.terrain
  <1> DEFINE heard == Heard(m, at, rejected, visible)
             guard == MovementGuardHook(heard, at, heard.terrain)
             guarded == [heard EXCEPT !.trail = [id \in Units |-> guard[id].trail], !.backoff = [id \in Units |-> guard[id].backoff],
                                      !.sticky = [id \in Units |-> guard[id].sticky], !.progress = [id \in Units |-> guard[id].progress]]
             blocked == StuckBlockedCells(heard.recent, heard.tasks) \cup UNION {guard[id].block : id \in Units}
             tasks == TasksFor(at, blocked, enemies)
             vacated == Overridden(guarded, guard, at, tasks, enemies)
             orders == SlideAroundKnownObstacles(vacated, at, guarded)
             answer == DecideSnapshot(m, at, rejected, visible, enemies)
  <1>1. /\ DOMAIN heard = DOMAIN NoMemory /\ heard.tasks = m.tasks /\ heard.sticky = m.sticky
        /\ heard.terrain = Learned(m, at, rejected, visible)
    BY DEF Heard, MemoryFits, NoMemory, Observe, RecordBlockedMove, Learned
  <1>2. \A id \in Units : guard[id].escape \in Steps /\ HoldFits(guard[id].sticky)
    <2> HIDE DEF heard
    <2>1. QED
      BY <1>1, GuardHookSteps DEF MemoryFits
  <1> HIDE DEF heard, guard
  <1>3. DOMAIN guarded = DOMAIN NoMemory /\ guarded.terrain = heard.terrain
        /\ guarded.sticky = [id \in Units |-> guard[id].sticky]
    BY <1>1 DEF NoMemory
  <1>4. answer = Answer(guarded, guard, at, tasks, vacated, orders)
    BY DEF DecideSnapshot, DecideHeard, DecideGuarded, OrderTasks, SlideOrders, heard, guard
  <1>5. TasksFit(tasks)
    BY TasksForFit
  <1> HIDE DEF guarded, tasks, blocked
  <1>6. AllStepwise(vacated)
    <2> DEFINE merged == MergeWorkerTasks(Baseline(at), tasks, at, guarded)
               recalled == RecallStrandedWorkers(merged, at, guarded.terrain)
               moving == ApplyMovementOverrides(recalled, guard)
               sheltered == WorkerThreatSanctuary(moving, at, enemies, guarded.terrain)
    <2>1. AllStepwise(merged)
      BY <1>5, BaselineSteps, TasksStep
    <2> HIDE DEF merged
    <2>2. AllStepwise(recalled)
      BY <2>1, RecallSteps
    <2> HIDE DEF recalled
    <2>3. AllStepwise(moving)
      BY <1>2, <2>2, OverrideSteps
    <2> HIDE DEF moving
    <2>4. AllStepwise(sheltered)
      BY <2>3, SanctuarySteps
    <2> HIDE DEF sheltered
    <2>5. AllStepwise(VacateCoreCellActions(sheltered, at, enemies, guarded.terrain))
      BY <2>4, VacateSteps
    <2>6. QED
      BY <2>5 DEF Overridden, merged, recalled, moving, sheltered
  <1> HIDE DEF vacated
  <1>7. \A id \in Units : /\ Stepwise(orders[id])
                          /\ orders[id].type = "MOVE" /\ at[id].pos # Core => StepTo(at[id].pos, orders[id].dir) \notin guarded.terrain
    BY <1>6, SlideIsFree
  <1>8. DOMAIN orders = Units
    BY DEF SlideAroundKnownObstacles
  <1> HIDE DEF orders, answer
  <1>9. answer.orders = orders /\ answer.memory = Remembered(guarded, at, tasks, vacated, orders)
    BY <1>4 DEF Answer
  <1>10. /\ DOMAIN answer.memory = DOMAIN NoMemory /\ answer.memory.tasks = tasks
        /\ answer.memory.sticky = guarded.sticky /\ answer.memory.terrain = guarded.terrain
        /\ answer.memory.heading = HeadingsOf(orders)
    BY <1>3, <1>9 DEF Remembered, NoMemory, HeadingsOf
  <1>11. MemoryFits(answer.memory)
    BY <1>2, <1>3, <1>5, <1>10 DEF MemoryFits
  <1>12. QED
    BY <1>1, <1>3, <1>7, <1>8, <1>9, <1>10, <1>11 DEF AllStepwise, answer

-----------------------------------------------------------------------------
\* The game plays the units in the order of their ids: of some units there is a
\* last one.
LEMMA LastUnit ==
  ASSUME NEW S, S \subseteq Nat, IsFiniteSet(S), S # {}
  PROVE  Max(S) \in S
  <1> DEFINE Has(T) == \E m \in T : \A k \in T : k <= m
             P == {n \in Nat : \A T \in SUBSET Nat : IsFiniteSet(T) /\ Cardinality(T) = n /\ T # {} => Has(T)}
  <1>1. 0 \in P
    BY FS_EmptySet
  <1>2. ASSUME NEW n \in Nat, n \in P PROVE n + 1 \in P
    <2> SUFFICES ASSUME NEW T \in SUBSET Nat, IsFiniteSet(T), Cardinality(T) = n + 1, T # {}
                 PROVE  Has(T)
      OBVIOUS
    <2>1. PICK x \in T : TRUE
      OBVIOUS
    <2>2. IsFiniteSet(T \ {x}) /\ Cardinality(T \ {x}) = n
      <3>1. IsFiniteSet(T \ {x}) /\ Cardinality(T \ {x}) = Cardinality(T) - 1
        BY FS_RemoveElement
      <3>2. QED
        BY <3>1
    <2>3. CASE T \ {x} = {}
      <3>1. \A k \in T : k <= x
        BY <2>3
      <3>2. QED
        BY <3>1
    <2>4. CASE T \ {x} # {}
      <3>1. PICK m \in T \ {x} : \A k \in T \ {x} : k <= m
        BY <1>2, <2>2, <2>4
      <3>2. CASE x <= m
        BY <3>1, <3>2
      <3>3. CASE m < x
        <4>1. \A k \in T : k <= x
          BY <3>1, <3>3
        <4>2. QED
          BY <4>1
      <3>4. QED
        BY <3>2, <3>3
    <2>5. QED
      BY <2>3, <2>4
  <1>3. Cardinality(S) \in P
    <2>1. Nat \subseteq P
      <3> HIDE DEF P
      <3>1. QED
        BY <1>1, <1>2, ByInduction
    <2>2. QED
      BY <2>1, FS_CardinalityType
  <1>4. PICK m \in S : \A k \in S : k <= m
    BY <1>3
  <1>5. QED
    BY <1>4 DEF Max

\* The turn as a fold over sets of at most n units: there is one for every n.
Parties(n) == {S \in SUBSET Units : Cardinality(S) <= n}
Turns(g, orders, start, parties) ==
  g = [S \in parties |-> IF S = {} THEN start ELSE Play(g[S \ {Max(S)}], Max(S), orders[Max(S)])]

\* Without its last unit a party is smaller.
LEMMA PartyShrinks ==
  ASSUME NEW S \in SUBSET Units, S # {}
  PROVE  /\ Max(S) \in S /\ S \ {Max(S)} \in SUBSET Units
         /\ Cardinality(S) \in Nat /\ Cardinality(S \ {Max(S)}) = Cardinality(S) - 1
  <1>1. IsFiniteSet(S) /\ S \subseteq Nat
    BY DeciderAssumption, FS_Subset
  <1>2. Max(S) \in S
    BY <1>1, LastUnit
  <1>3. QED
    BY <1>1, <1>2, FS_RemoveElement, FS_CardinalityType

\* By induction over the size.
LEMMA TurnExists ==
  ASSUME NEW orders, NEW start
  PROVE  \A n \in Nat : \E g : Turns(g, orders, start, Parties(n))
  <1> DEFINE P == {n \in Nat : \E g : Turns(g, orders, start, Parties(n))}
  <1>1. 0 \in P
    <2> DEFINE g == [S \in Parties(0) |-> start]
    <2>1. ASSUME NEW S \in Parties(0) PROVE S = {}
      <3>1. IsFiniteSet(S) /\ Cardinality(S) <= 0
        BY DeciderAssumption, FS_Subset DEF Parties
      <3>2. Cardinality(S) = 0
        BY <3>1, FS_CardinalityType
      <3>3. QED
        BY <3>1, <3>2, FS_EmptySet
    <2>2. Turns(g, orders, start, Parties(0))
      BY <2>1 DEF Turns
    <2>3. QED
      BY <2>2
  <1>2. ASSUME NEW n \in Nat, n \in P PROVE n + 1 \in P
    <2>1. PICK g : Turns(g, orders, start, Parties(n))
      BY <1>2
    <2> DEFINE h == [S \in Parties(n + 1) |->
                       IF S = {} THEN start ELSE Play(g[S \ {Max(S)}], Max(S), orders[Max(S)])]
    <2>2. ASSUME NEW S \in Parties(n) PROVE h[S] = g[S]
      <3>1. Cardinality(S) \in Nat
        BY DeciderAssumption, FS_Subset, FS_CardinalityType DEF Parties
      <3>2. S \in Parties(n + 1)
        BY <3>1 DEF Parties
      <3>3. QED
        BY <2>1, <3>2 DEF Turns
    <2>3. ASSUME NEW S \in Parties(n + 1), S # {} PROVE S \ {Max(S)} \in Parties(n)
      BY <2>3, PartyShrinks DEF Parties
    <2>4. h = [S \in Parties(n + 1) |-> IF S = {} THEN start ELSE Play(h[S \ {Max(S)}], Max(S), orders[Max(S)])]
      <3>1. \A S \in Parties(n + 1) : S # {} => h[S \ {Max(S)}] = g[S \ {Max(S)}]
        BY <2>2, <2>3
      <3>2. QED
        BY <3>1
    <2> HIDE DEF h
    <2>5. QED
      BY <2>4 DEF Turns
  <1>3. QED
    <2> HIDE DEF P
    <2>1. Nat \subseteq P
      BY <1>1, <1>2, ByInduction
    <2>2. QED
      BY <2>1 DEF P

\* So the turn is played unit after unit.
LEMMA TurnUnfolds ==
  ASSUME NEW orders
  PROVE  \E g : /\ Turns(g, orders, [at |-> units, rejected |-> <<>>], SUBSET Units)
                /\ Resolve(orders) = g[Units]
  <1> DEFINE start == [at |-> units, rejected |-> <<>>]
             g == CHOOSE f : Turns(f, orders, start, SUBSET Units)
  <1>1. \E f : Turns(f, orders, start, SUBSET Units)
    <2>1. Cardinality(Units) \in Nat /\ \A S \in SUBSET Units : Cardinality(S) <= Cardinality(Units)
      BY DeciderAssumption, FS_CardinalityType, FS_Subset
    <2>2. Parties(Cardinality(Units)) = SUBSET Units
      BY <2>1 DEF Parties
    <2> HIDE DEF start
    <2>3. \A n \in Nat : \E f : Turns(f, orders, start, Parties(n))
      BY TurnExists
    <2>4. \E f : Turns(f, orders, start, Parties(Cardinality(Units)))
      BY <2>1, <2>3
    <2>5. QED
      BY <2>2, <2>4
  <1>2. Turns(g, orders, start, SUBSET Units)
    <2> HIDE DEF start
    <2>1. QED
      BY <1>1
  <1>3. Resolve(orders) = g[Units]
    BY DEF Resolve, MapThenFoldSet, Turns
  <1> HIDE DEF g
  <1>4. QED
    BY <1>2, <1>3

-----------------------------------------------------------------------------
\* What a turn has done once some of the units have been played: units stand on
\* places, and what was rejected for the terrain was a step into a wall.
UnitsFit(at) == DOMAIN at = Units /\ \A id \in Units : DOMAIN at[id] = {"pos", "cargo"} /\ at[id].pos \in Place
RejectedAtWalls(r, orders) ==
  \A id \in DOMAIN r.rejected : r.rejected[id] = "MOVE_BLOCKED_TERRAIN" =>
    orders[id].type = "MOVE" /\ StepTo(r.at[id].pos, orders[id].dir) \in world.walls
Played(r, S, orders) ==
  /\ DOMAIN r = {"at", "rejected"}
  /\ UnitsFit(r.at)
  /\ DOMAIN r.rejected \subseteq S
  /\ RejectedAtWalls(r, orders)

\* One more unit plays: it stands somewhere, and is refused at a wall only when it
\* steps into one.
LEMMA PlayKeeps ==
  ASSUME NEW orders, AllStepwise(orders), NEW S \in SUBSET Units, NEW id \in Units, id \notin S,
         NEW r, Played(r, S, orders)
  PROVE  Played(Play(r, id, orders[id]), S \cup {id}, orders)
  <1> DEFINE order == orders[id]
             to == StepTo(r.at[id].pos, order.dir)
  <1>1. /\ DOMAIN r = {"at", "rejected"} /\ DOMAIN r.at = Units
        /\ DOMAIN r.at[id] = {"pos", "cargo"} /\ r.at[id].pos \in Place
        /\ \A u \in Units : DOMAIN r.at[u] = {"pos", "cargo"} /\ r.at[u].pos \in Place
        /\ DOMAIN r.rejected \subseteq S /\ RejectedAtWalls(r, orders)
    BY DEF Played, UnitsFit
  <1>2. ASSUME order.type = "MOVE", NEW reason, reason = "MOVE_BLOCKED_TERRAIN" => to \in world.walls
        PROVE  Played(Fail(r, id, reason), S \cup {id}, orders)
    <2> DEFINE f == Fail(r, id, reason)
    <2>1. /\ DOMAIN f = {"at", "rejected"} /\ f.at = r.at
          /\ f.rejected = [u \in {id} \cup DOMAIN r.rejected |-> IF u = id THEN reason ELSE r.rejected[u]]
      BY <1>1 DEF Fail
    <2> HIDE DEF f
    <2>2. DOMAIN f.rejected \subseteq S \cup {id}
      BY <1>1, <2>1
    <2>3. RejectedAtWalls(f, orders)
      BY <1>1, <1>2, <2>1 DEF RejectedAtWalls
    <2>4. QED
      BY <1>1, <2>1, <2>2, <2>3 DEF Played, UnitsFit, f
  <1>3. ASSUME NEW next, DOMAIN next = {"pos", "cargo"}, next.pos \in Place,
               NEW q, q = [r EXCEPT !.at = [r.at EXCEPT ![id] = next]]
        PROVE  Played(q, S \cup {id}, orders)
    <2>1. DOMAIN q = {"at", "rejected"} /\ q.rejected = r.rejected /\ q.at = [r.at EXCEPT ![id] = next]
      BY <1>1, <1>3
    <2>2. UnitsFit(q.at)
      BY <1>1, <1>3, <2>1 DEF UnitsFit
    <2>3. \A u \in S : q.at[u] = r.at[u]
      BY <1>1, <2>1
    <2>4. RejectedAtWalls(q, orders)
      BY <1>1, <2>1, <2>3 DEF RejectedAtWalls
    <2>5. QED
      BY <1>1, <2>1, <2>2, <2>4 DEF Played
  <1>4. Played(r, S \cup {id}, orders)
    BY DEF Played
  <1>5. CASE order.type = "MOVE"
    <2>1. to \in Place
      BY <1>1, <1>5, StepIsAPlace DEF AllStepwise, Stepwise
    <2>2. Played([r EXCEPT !.at[id].pos = to], S \cup {id}, orders)
      <3> DEFINE next == [r.at[id] EXCEPT !.pos = to]
      <3>1. DOMAIN next = {"pos", "cargo"} /\ next.pos = to
        BY <1>1
      <3>2. [r EXCEPT !.at[id].pos = to] = [r EXCEPT !.at = [r.at EXCEPT ![id] = next]]
        OBVIOUS
      <3> HIDE DEF next
      <3>3. QED
        BY <1>3, <2>1, <3>1, <3>2
    <2>3. Play(r, id, order) = MoveTo(r, id, to)
      BY <1>5 DEF Play
    <2>4. QED
      BY <1>2, <1>5, <2>2, <2>3 DEF MoveTo
  <1>6. CASE order.type = "DEPOSIT"
    <2> DEFINE next == [r.at[id] EXCEPT !.cargo = 0]
    <2>1. DOMAIN next = {"pos", "cargo"} /\ next.pos = r.at[id].pos
      BY <1>1
    <2>2. Play(r, id, order) = [r EXCEPT !.at = [r.at EXCEPT ![id] = next]]
      BY <1>6 DEF Play
    <2> HIDE DEF next
    <2>3. QED
      BY <1>1, <1>3, <2>1, <2>2
  <1>7. CASE order.type = "HARVEST"
    <2> DEFINE next == [r.at[id] EXCEPT !.cargo = 1]
    <2>1. DOMAIN next = {"pos", "cargo"} /\ next.pos = r.at[id].pos
      BY <1>1
    <2>2. Play(r, id, order) = [r EXCEPT !.at = [r.at EXCEPT ![id] = next]]
      BY <1>7 DEF Play
    <2> HIDE DEF next
    <2>3. QED
      BY <1>1, <1>3, <2>1, <2>2
  <1>8. CASE order.type \notin {"MOVE", "DEPOSIT", "HARVEST"}
    <2>1. Play(r, id, order) = r
      BY <1>8 DEF Play
    <2>2. QED
      BY <1>4, <2>1
  <1>9. QED
    BY <1>5, <1>6, <1>7, <1>8

\* The turn that the game plays from where the units stand.
LEMMA TurnIsPlayed ==
  ASSUME NEW orders, AllStepwise(orders), UnitsFit(units)
  PROVE  Played(Resolve(orders), Units, orders)
  <1> DEFINE start == [at |-> units, rejected |-> <<>>]
  <1>1. PICK g : Turns(g, orders, start, SUBSET Units) /\ Resolve(orders) = g[Units]
    BY TurnUnfolds
  <1>2. g[{}] = start
    BY <1>1 DEF Turns
  <1>3. \A S \in SUBSET Units : S # {} => g[S] = Play(g[S \ {Max(S)}], Max(S), orders[Max(S)])
    BY <1>1 DEF Turns
  <1>4. Played(start, {}, orders)
    <2>1. DOMAIN start = {"at", "rejected"} /\ start.at = units /\ DOMAIN start.rejected = {}
      OBVIOUS
    <2> HIDE DEF start
    <2>2. QED
      BY <2>1 DEF Played, RejectedAtWalls
  <1> HIDE DEF start
  <1> DEFINE P == {n \in Nat : \A S \in SUBSET Units : Cardinality(S) = n => Played(g[S], S, orders)}
  <1>5. 0 \in P
    <2> SUFFICES ASSUME NEW S \in SUBSET Units, Cardinality(S) = 0 PROVE Played(g[S], S, orders)
      OBVIOUS
    <2>1. S = {}
      BY DeciderAssumption, FS_Subset, FS_EmptySet
    <2>2. QED
      BY <1>2, <1>4, <2>1
  <1>6. ASSUME NEW n \in Nat, n \in P PROVE n + 1 \in P
    <2> SUFFICES ASSUME NEW S \in SUBSET Units, Cardinality(S) = n + 1 PROVE Played(g[S], S, orders)
      OBVIOUS
    <2> DEFINE id == Max(S)
    <2>1. S # {}
      BY FS_EmptySet
    <2>2. id \in S /\ S \ {id} \in SUBSET Units /\ Cardinality(S \ {id}) = n
      <3>1. id \in S /\ S \ {id} \in SUBSET Units /\ Cardinality(S \ {id}) = Cardinality(S) - 1
        BY <2>1, PartyShrinks
      <3>2. QED
        BY <3>1
    <2>3. Played(g[S \ {id}], S \ {id}, orders)
      BY <1>6, <2>2
    <2>4. g[S] = Play(g[S \ {id}], id, orders[id])
      BY <1>3, <2>1
    <2> HIDE DEF id, P
    <2>5. Played(Play(g[S \ {id}], id, orders[id]), (S \ {id}) \cup {id}, orders)
      BY <2>2, <2>3, PlayKeeps
    <2>6. (S \ {id}) \cup {id} = S
      BY <2>2
    <2>7. QED
      BY <2>4, <2>5, <2>6
  <1>7. Nat \subseteq P
    <2> HIDE DEF P
    <2>1. QED
      BY <1>5, <1>6, ByInduction
  <1>8. Cardinality(Units) \in P
    BY <1>7, DeciderAssumption, FS_CardinalityType
  <1>9. QED
    BY <1>1, <1>8

-----------------------------------------------------------------------------
\* What is inductive of the decider, whatever another layer orders instead of it.
DeciderInv ==
  /\ UnitsFit(units)
  /\ DOMAIN plan = Units /\ AllStepwise(plan)
  /\ MemoryFits(memory)
  /\ NoStepIntoKnownObstacle

\* And of what it learns, when what it orders is what is submitted.
LearningInv ==
  /\ memory.heading = HeadingsOf(plan)
  /\ LearnedObstaclesAreTerrain

\* Units that fit stand somewhere.
LEMMA FitIsPlaced ==
  ASSUME NEW at, UnitsFit(at)
  PROVE  AllPlaced(at)
  BY DEF UnitsFit, AllPlaced

\* A decider that knows nothing yet.
LEMMA NewDeciderFits ==
  MemoryFits(NoMemory)
  <1>1. TaskFits(NoTask) /\ HoldFits([dir |-> "none", left |-> 0])
    BY DEF TaskFits, NoTask, Task, HoldFits, Steps
  <1>2. NoMemory.tasks = [id \in Units |-> NoTask]
    BY DEF NoMemory
  <1>3. NoMemory.sticky = [id \in Units |-> [dir |-> "none", left |-> 0]]
    BY DEF NoMemory
  <1>4. QED
    BY <1>1, <1>2, <1>3 DEF MemoryFits, TasksFit

\* The first decision (decide_snapshot) is made without memory.
LEMMA DeciderStarts == Init => DeciderInv
  <1> SUFFICES ASSUME Init PROVE DeciderInv
    OBVIOUS
  <1> DEFINE answer == DecideSnapshot(NoMemory, units, <<>>, VisibleFrom(units), world.enemies)
  <1>1. UnitsFit(units)
    BY DeciderAssumption DEF Init, UnitsFit, Place
  <1>2. plan = answer.orders /\ memory = answer.memory
    BY DEF Init
  <1> HIDE DEF answer
  <1>3. /\ DOMAIN answer.orders = Units /\ AllStepwise(answer.orders) /\ MemoryFits(answer.memory)
        /\ \A id \in Units : answer.orders[id].type = "MOVE" /\ units[id].pos # Core
             => StepTo(units[id].pos, answer.orders[id].dir) \notin answer.memory.terrain
    BY <1>1, NewDeciderFits, FitIsPlaced, DecisionIsSound DEF answer
  <1>4. QED
    BY <1>1, <1>2, <1>3 DEF DeciderInv, NoStepIntoKnownObstacle

\* And nothing is learned before it.
LEMMA LearningStarts == Init => LearningInv
  <1> SUFFICES ASSUME Init PROVE LearningInv
    OBVIOUS
  <1> DEFINE answer == DecideSnapshot(NoMemory, units, <<>>, VisibleFrom(units), world.enemies)
  <1>1. UnitsFit(units)
    BY DeciderAssumption DEF Init, UnitsFit, Place
  <1>2. plan = answer.orders /\ memory = answer.memory
    BY DEF Init
  <1> HIDE DEF answer
  <1>3. /\ answer.memory.terrain = Learned(NoMemory, units, <<>>, VisibleFrom(units))
        /\ answer.memory.heading = HeadingsOf(answer.orders)
    BY <1>1, NewDeciderFits, FitIsPlaced, DecisionIsSound DEF answer
  <1>4. Learned(NoMemory, units, <<>>, VisibleFrom(units)) \subseteq world.walls
    <2>1. InferBlockedCells(units, <<>>, NoMemory.heading) = {}
      BY DEF InferBlockedCells
    <2>2. NoMemory.terrain = {} /\ VisibleFrom(units) \subseteq world.walls
      BY DEF NoMemory, VisibleFrom
    <2>3. QED
      BY <2>1, <2>2 DEF Learned
  <1>5. QED
    BY <1>2, <1>3, <1>4 DEF LearningInv, LearnedObstaclesAreTerrain

\* What is submitted in place of a plan is stepwise as well.
LEMMA SubmittedSteps ==
  ASSUME DeciderInv, NEW orders \in Submitted
  PROVE  AllStepwise(orders)
  BY DEF DeciderInv, Submitted, AllStepwise, Stepwise, Move, Units

\* A turn: units stay on places, and the answer to what they are then shown is
\* stepwise and steps into no obstacle that is known by then.
LEMMA DeciderKeeps ==
  ASSUME DeciderInv, Next
  PROVE  DeciderInv'
  <1>1. PICK orders \in Submitted :
          LET result == Resolve(orders)
              answer == DecideSnapshot(memory, result.at, result.rejected, VisibleFrom(result.at), world.enemies)
          IN  units' = result.at /\ Decided(answer)
    BY DEF Next, Turn
  <1> DEFINE result == Resolve(orders)
             answer == DecideSnapshot(memory, result.at, result.rejected, VisibleFrom(result.at), world.enemies)
  <1>2. units' = result.at /\ plan' = answer.orders /\ memory' = answer.memory
    BY <1>1 DEF Decided
  <1>3. UnitsFit(result.at)
    BY SubmittedSteps, TurnIsPlayed DEF DeciderInv, Played
  <1> HIDE DEF result
  <1>4. /\ DOMAIN answer.orders = Units /\ AllStepwise(answer.orders) /\ MemoryFits(answer.memory)
        /\ \A id \in Units : answer.orders[id].type = "MOVE" /\ result.at[id].pos # Core
             => StepTo(result.at[id].pos, answer.orders[id].dir) \notin answer.memory.terrain
    BY <1>3, FitIsPlaced, DecisionIsSound DEF DeciderInv
  <1> HIDE DEF answer
  <1>5. UnitsFit(units)' /\ (DOMAIN plan = Units)' /\ AllStepwise(plan)' /\ MemoryFits(memory)'
    <2>1. UnitsFit(units') /\ DOMAIN plan' = Units /\ AllStepwise(plan') /\ MemoryFits(memory')
      BY <1>2, <1>3, <1>4
    <2>2. QED
      BY <2>1 DEF UnitsFit, AllStepwise, Stepwise, MemoryFits, TasksFit, TaskFits, HoldFits
  <1>6. NoStepIntoKnownObstacle'
    BY <1>2, <1>4 DEF NoStepIntoKnownObstacle
  <1>7. QED
    BY <1>5, <1>6 DEF DeciderInv

\* What is rejected for the terrain was a step of the plan into a wall, and
\* becomes known ("only the terrain reason is learned").
LEMMA RejectionsAreLearned ==
  ASSUME Overrides = FALSE, DeciderInv, LearningInv, Next
  PROVE  /\ LearningInv'
         /\ \A id \in Units : id \in DOMAIN failures' /\ failures'[id] = "MOVE_BLOCKED_TERRAIN"
              => plan[id].type = "MOVE" /\ StepTo(units'[id].pos, plan[id].dir) \in memory'.terrain
  <1> DEFINE result == Resolve(plan)
             answer == DecideSnapshot(memory, result.at, result.rejected, VisibleFrom(result.at), world.enemies)
  <1>1. /\ units' = result.at /\ failures' = result.rejected /\ plan' = answer.orders /\ memory' = answer.memory
        /\ world' = world
    <2>1. Submitted = {plan}
      BY DEF Submitted
    <2>2. QED
      BY <2>1 DEF Next, Turn, Decided
  <1>2. Played(result, Units, plan)
    BY TurnIsPlayed DEF DeciderInv
  <1> HIDE DEF result
  <1>3. /\ answer.memory.terrain = Learned(memory, result.at, result.rejected, VisibleFrom(result.at))
        /\ answer.memory.heading = HeadingsOf(answer.orders)
    BY <1>2, FitIsPlaced, DecisionIsSound DEF DeciderInv, Played
  <1> HIDE DEF answer
  <1>4. memory.heading = HeadingsOf(plan) /\ memory.terrain \subseteq world.walls
    BY DEF LearningInv, LearnedObstaclesAreTerrain
  <1>5. UnitsFit(result.at) /\ DOMAIN result.rejected \subseteq Units /\ RejectedAtWalls(result, plan)
    BY <1>2 DEF Played
  <1>6. InferBlockedCells(result.at, result.rejected, memory.heading) \subseteq world.walls
    BY <1>4, <1>5 DEF InferBlockedCells, HeadingsOf, RejectedAtWalls
  <1>7. Learned(memory, result.at, result.rejected, VisibleFrom(result.at)) \subseteq world.walls
    BY <1>4, <1>6 DEF Learned, VisibleFrom
  <1>8. LearningInv'
    <2>1. memory'.heading = HeadingsOf(plan') /\ memory'.terrain \subseteq world'.walls
      BY <1>1, <1>3, <1>7 DEF LearningInv
    <2>2. QED
      BY <2>1 DEF LearningInv, HeadingsOf, LearnedObstaclesAreTerrain
  <1>9. ASSUME NEW id \in Units, id \in DOMAIN result.rejected, result.rejected[id] = "MOVE_BLOCKED_TERRAIN"
        PROVE  plan[id].type = "MOVE" /\ StepTo(result.at[id].pos, plan[id].dir) \in memory'.terrain
    <2>1. plan[id].type = "MOVE"
      BY <1>5, <1>9 DEF RejectedAtWalls
    <2>2. id \in DOMAIN memory.heading /\ memory.heading[id] = plan[id].dir
      BY <1>4, <2>1 DEF HeadingsOf
    <2>3. StepTo(result.at[id].pos, plan[id].dir) \in InferBlockedCells(result.at, result.rejected, memory.heading)
      BY <1>5, <1>9, <2>2 DEF InferBlockedCells, UnitsFit
    <2>4. QED
      BY <1>1, <1>3, <2>1, <2>3 DEF Learned
  <1>10. QED
    BY <1>1, <1>8, <1>9

\* A step that changes nothing of the decider.
LEMMA DeciderRests ==
  ASSUME UNCHANGED vars
  PROVE  (DeciderInv => DeciderInv') /\ (LearningInv => LearningInv')
  BY DEF vars, DeciderInv, LearningInv, UnitsFit, AllStepwise, Stepwise, MemoryFits, TasksFit, TaskFits, HoldFits,
         NoStepIntoKnownObstacle, HeadingsOf, LearnedObstaclesAreTerrain

-----------------------------------------------------------------------------
\* Whatever another layer orders instead of the decider (a human order, the
\* fallback of the tick loop), and whatever it has learned from that: it orders
\* no unit that is off the core's cell into an obstacle that it knows
\* (slide_around_known_obstacles comes last).
THEOREM KnownObstaclesAreAvoided == Spec => []NoStepIntoKnownObstacle
  <1>1. DeciderInv /\ [Next]_vars => DeciderInv'
    BY DeciderKeeps, DeciderRests
  <1>2. DeciderInv => NoStepIntoKnownObstacle
    BY DEF DeciderInv
  <1>3. QED
    BY DeciderStarts, <1>1, <1>2, PTL DEF Spec

\* Where the decider's orders are the ones that are played, what it takes for an
\* obstacle is one as well (infer_blocked_cells, TerrainMap).
THEOREM ObstaclesStayLearned ==
  ASSUME Overrides = FALSE
  PROVE  Spec => []ObstaclesAreLearned
  <1>1. DeciderInv /\ LearningInv /\ [Next]_vars => DeciderInv' /\ LearningInv'
    BY DeciderKeeps, RejectionsAreLearned, DeciderRests
  <1>2. DeciderInv /\ LearningInv => ObstaclesAreLearned
    BY DEF DeciderInv, LearningInv, ObstaclesAreLearned
  <1>3. QED
    BY DeciderStarts, LearningStarts, <1>1, <1>2, PTL DEF Spec

\* And a step that the game rejected for the terrain is not ordered again from
\* where it was rejected, unless from the core's cell.
THEOREM RejectedStepsAreNotRepeated ==
  ASSUME Overrides = FALSE
  PROVE  Spec => RejectedStepIsNotRepeated
  <1> DEFINE NotAgain == \A id \in Units :
               id \in DOMAIN failures' /\ failures'[id] = "MOVE_BLOCKED_TERRAIN" /\ units'[id].pos # Core => plan'[id] # plan[id]
  <1>1. DeciderInv /\ LearningInv /\ [Next]_vars => DeciderInv' /\ LearningInv'
    BY DeciderKeeps, RejectionsAreLearned, DeciderRests
  <1>2. DeciderInv /\ LearningInv /\ [Next]_vars => [NotAgain]_vars
    <2> SUFFICES ASSUME DeciderInv, LearningInv, Next PROVE NotAgain
      OBVIOUS
    <2>1. NoStepIntoKnownObstacle'
      BY DeciderKeeps DEF DeciderInv
    <2>2. QED
      BY <2>1, RejectionsAreLearned DEF NoStepIntoKnownObstacle
  <1>3. QED
    BY DeciderStarts, LearningStarts, <1>1, <1>2, PTL DEF Spec, RejectedStepIsNotRepeated
=============================================================================
