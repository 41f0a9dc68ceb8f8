-------------------------------- MODULE Grid --------------------------------
(* Cells, distances, steps and the searches of the planner on the four-way grid:    *)
(* the routing breadth-first search (planning/worker_assignment.py), the first-step  *)
(* A* (strategies/astar_pathfinder.py), the three-state navigation grid and the      *)
(* lines of sight and fire (domain/navigation.py), and the steps the strategies fall *)
(* back to. A cell is <<x, y>>; east adds to x, south to y; "none" is no direction.   *)
EXTENDS Integers, SequencesExt

Direction == {"N", "E", "S", "W"}
Delta == [d \in Direction |-> CASE d = "N" -> <<0, -1>> [] d = "E" -> <<1, 0>>
                                [] d = "S" -> <<0, 1>>  [] OTHER -> <<-1, 0>>]
StepTo(c, d) == <<c[1] + Delta[d][1], c[2] + Delta[d][2]>>
Opposite(d) == CASE d = "N" -> "S" [] d = "S" -> "N" [] d = "E" -> "W" [] OTHER -> "E"

NoCell == <<>>
Abs(n) == IF n < 0 THEN -n ELSE n
Sign(n) == IF n > 0 THEN 1 ELSE IF n < 0 THEN -1 ELSE 0
Larger(a, b) == IF a > b THEN a ELSE b
Smaller(a, b) == IF a < b THEN a ELSE b
LastOf(s, n) == SubSeq(s, Larger(1, Len(s) - n + 1), Len(s))
Manhattan(a, b) == Abs(a[1] - b[1]) + Abs(a[2] - b[2])
Chebyshev(a, b) == Larger(Abs(a[1] - b[1]), Abs(a[2] - b[2]))
\* From a cell to the one beside it; the code refuses any other.
DirectionToAdjacent(a, b) ==
  IF b[1] - a[1] = 1 THEN "E" ELSE IF b[1] - a[1] = -1 THEN "W" ELSE IF b[2] - a[2] = 1 THEN "S" ELSE "N"

\* The order in which the searches open the neighbours of a cell, and the axes toward a target.
PathOrder == <<"E", "S", "W", "N">>
XAxis(dx) == IF dx = 0 THEN <<>> ELSE IF dx > 0 THEN <<"E">> ELSE <<"W">>
YAxis(dy) == IF dy = 0 THEN <<>> ELSE IF dy > 0 THEN <<"S">> ELSE <<"N">>
\* A preferred sequence completed by the directions it lacks, in the order of PathOrder.
WithDirection(s, d) == IF Contains(s, d) THEN s ELSE Append(s, d)
Completed(preferred) ==
  WithDirection(WithDirection(WithDirection(WithDirection(preferred, "E"), "S"), "W"), "N")

\* min(..., key=...): the first element of a sequence with the least key, at all its places or at some of them.
LeastAmong(s, places, Key(_)) == s[Min({i \in places : \A j \in places : Key(s[i]) <= Key(s[j])})]
LeastBy(s, Key(_)) == LeastAmong(s, DOMAIN s, Key)
\* while not Done(s): s = Step(s), at least fuel steps of it, in blocks so that no evaluation is deep.
While(s, Done(_), Step(_), fuel) ==
  LET Block(from) ==
        LET run[n \in 0..16] == IF n = 0 THEN from ELSE LET t == run[n - 1] IN IF Done(t) THEN t ELSE Step(t)
        IN  run[16]
      block[n \in 0..(fuel \div 16 + 1)] ==
        IF n = 0 THEN s ELSE LET t == block[n - 1] IN IF Done(t) THEN t ELSE Block(t)
  IN  block[fuel \div 16 + 1]
\* next((x for x in s if ...), default)
FirstWhere(s, Keep(_), default) == LET i == SelectInSeq(s, Keep) IN IF i = 0 THEN default ELSE s[i]

\* The strategies' single step: the longer axis first, the horizontal one on a tie, and
\* WAIT turned into a step north when the unit is already there.
OrderedDirections(a, b) ==
  LET dx == b[1] - a[1]
      dy == b[2] - a[2]
      axes == IF Abs(dx) >= Abs(dy) THEN XAxis(dx) \o YAxis(dy) ELSE YAxis(dy) \o XAxis(dx)
  IN  Completed(axes)

-----------------------------------------------------------------------------
(* Breadth-first search, one for the three that the code writes out: a queue, the    *)
(* parent and depth of every cell seen and the number of cells opened. Order gives   *)
(* the neighbours of a cell in opening order; the search stops once every stop is     *)
(* seen, which no caller can tell from going on.                                      *)
Opened(s, CanEnter(_), Order(_)) ==
  LET current == Head(s.queue)
      next == SelectSeq([i \in 1..4 |-> StepTo(current, Order(current)[i])],
                        LAMBDA c : c \notin DOMAIN s.seen /\ CanEnter(c))
      found == [parent |-> current, depth |-> s.seen[current].depth + 1]
  IN  [queue |-> Tail(s.queue) \o next, opened |-> s.opened + 1, order |-> s.order \o next,
       seen |-> IF next = <<>> THEN s.seen ELSE [c \in ToSet(next) |-> found] @@ s.seen]

Search(start, stops, CanEnter(_), Order(_), budget) ==
  LET from == [queue |-> <<start>>, opened |-> 0, order |-> <<>>, seen |-> start :> [parent |-> start, depth |-> 0]]
      Done(s) == s.queue = <<>> \/ s.opened >= budget \/ (stops # {} /\ stops \subseteq DOMAIN s.seen)
  IN  While(from, Done, LAMBDA s : Opened(s, CanEnter, Order), budget)

\* The first cell of the way from start to a cell that was seen.
FirstCell(seen, start, found) ==
  LET back[c \in DOMAIN seen] == IF seen[c].parent = start THEN c ELSE back[seen[c].parent] IN back[found]

\* Unknown cells may be walked on, obstacles may not; the radius is a square around the start.
Routed(start, stops, blocked, radius, budget) ==
  Search(start, stops, LAMBDA c : Chebyshev(c, start) <= radius /\ c \notin blocked, LAMBDA c : PathOrder, budget)
Depths(seen, targets) == [t \in targets \cap DOMAIN seen |-> seen[t].depth]
ShortestPathDistances(start, targets, blocked, radius, budget) ==
  Depths(Routed(start, targets, blocked, radius, budget).seen, targets)
FirstToward(seen, start, target) ==
  IF start = target \/ target \notin DOMAIN seen THEN "none"
  ELSE DirectionToAdjacent(start, FirstCell(seen, start, target))
NextStepToward(start, target, blocked, radius, budget) ==
  IF target \in blocked THEN "none"
  ELSE FirstToward(Routed(start, {target}, blocked, radius, budget).seen, start, target)

-----------------------------------------------------------------------------
(* A*: the heap holds <<f, sequence, g, cell>>, popped by f and then by insertion;   *)
(* an entry whose cost is not the best known of its cell is stale and only dropped.   *)
(* A discouraged cell costs four more. A target in an obstacle is replaced by its     *)
(* open neighbours.                                                                   *)
Penalty == 4
Goals(target, blocked) ==
  IF target \in blocked THEN {StepTo(target, d) : d \in Direction} \ blocked ELSE {target}

\* What a search is for: goals, blocked, discouraged, start and radius.
H(c, goals) == Min({Manhattan(c, g) : g \in goals})
BestEntry(heap) == CHOOSE e \in heap : \A o \in heap : e[1] < o[1] \/ (e[1] = o[1] /\ e[2] <= o[2])
StepCost(e, c, for) == e[3] + 1 + (IF c \in for.discouraged THEN Penalty ELSE 0)
CheaperNeighbours(s, e, for) ==
  SelectSeq([i \in 1..4 |-> StepTo(e[4], PathOrder[i])],
            LAMBDA c : /\ c \notin for.blocked /\ Chebyshev(for.start, c) <= for.radius
                       /\ c \notin DOMAIN s.g \/ StepCost(e, c, for) < s.g[c])
Pushed(s, e, next, for) ==
  [heap |-> s.heap \cup {<<StepCost(e, next[i], for) + H(next[i], for.goals), s.seq + i, StepCost(e, next[i], for), next[i]>> :
                           i \in DOMAIN next},
   seq |-> s.seq + Len(next), opened |-> s.opened + 1, found |-> s.found,
   g |-> [c \in ToSet(next) |-> StepCost(e, c, for)] @@ s.g,
   from |-> [c \in ToSet(next) |-> [parent |-> e[4]]] @@ s.from]
Popped(s, e, for) ==
  IF e[3] # s.g[e[4]] THEN s
  ELSE IF e[4] \in for.goals THEN [s EXCEPT !.found = e[4]]
  ELSE Pushed(s, e, CheaperNeighbours(s, e, for), for)
PopOf(s, e, for) == Popped([s EXCEPT !.heap = @ \ {e}], e, for)

\* Four pushes for each cell that is opened at most.
AStarSearch(for, budget) ==
  While([heap |-> {<<H(for.start, for.goals), 0, 0, for.start>>}, seq |-> 0, opened |-> 0, found |-> for.start,
         g |-> for.start :> 0, from |-> for.start :> [parent |-> for.start]],
        LAMBDA s : s.found # for.start \/ s.heap = {} \/ s.opened >= budget,
        LAMBDA s : PopOf(s, BestEntry(s.heap), for), 4 * budget + 1)
FirstFound(end, start) ==
  IF end.found = start THEN "none" ELSE DirectionToAdjacent(start, FirstCell(end.from, start, end.found))
AStarToward(start, goals, blocked, discouraged, radius, budget) ==
  IF goals = {} \/ start \in goals THEN "none"
  ELSE FirstFound(AStarSearch([start |-> start, goals |-> goals, blocked |-> blocked, discouraged |-> discouraged,
                               radius |-> radius], budget), start)
AStarNextStep(start, target, blocked, discouraged, radius, budget) ==
  IF start = target THEN "none"
  ELSE AStarToward(start, Goals(target, blocked), blocked, discouraged, radius, budget)

-----------------------------------------------------------------------------
(* The navigation grid: open, blocked and unknown cells inside optional bounds. A    *)
(* search ends in a path, in "unreachable" (proved) or in "limit": the node budget    *)
(* ran out, or the radius kept the search from a cell it could have entered.          *)
NavGrid == [open : SUBSET (Int \X Int), blocked : SUBSET (Int \X Int), inside : SUBSET (Int \X Int), bounded : BOOLEAN]
InBounds(grid, c) == ~grid.bounded \/ c \in grid.inside
MayEnter(grid, c, allowUnknown) ==
  InBounds(grid, c) /\ c \notin grid.blocked /\ (c \in grid.open \/ allowUnknown)

\* limits is <<node budget, radius>>.
Within(c, start, limits) == Chebyshev(c, start) <= limits[2]
WayTo(seen, start, target) ==
  LET way[c \in DOMAIN seen] == IF c = start THEN <<c>> ELSE Append(way[seen[c].parent], c) IN way[target]
CutShort(grid, opened, start, limits) ==
  \E next \in {StepTo(c, d) : c \in opened, d \in Direction} :
    ~Within(next, start, limits) /\ InBounds(grid, next) /\ next \notin grid.blocked
PathFound(grid, s, start, target, limits) ==
  IF target \in DOMAIN s.seen THEN [kind |-> "path", path |-> WayTo(s.seen, start, target)]
  ELSE IF s.queue # <<>> \/ CutShort(grid, DOMAIN s.seen \ ToSet(s.queue), start, limits) THEN [kind |-> "limit", path |-> <<>>]
  ELSE [kind |-> "unreachable", path |-> <<>>]
ShortestPath(grid, start, target, allowUnknown, limits) ==
  IF ~MayEnter(grid, start, allowUnknown) \/ ~MayEnter(grid, target, allowUnknown) THEN [kind |-> "unreachable", path |-> <<>>]
  ELSE IF ~Within(target, start, limits) THEN [kind |-> "limit", path |-> <<>>]
  ELSE PathFound(grid, Search(start, {target}, LAMBDA c : Within(c, start, limits) /\ MayEnter(grid, c, allowUnknown),
                              LAMBDA c : OrderedDirections(c, target), limits[1]),
                 start, target, limits)
StepOnWay(way, start) ==
  IF way.kind # "path" \/ Len(way.path) < 2 THEN "none" ELSE DirectionToAdjacent(start, way.path[2])
FirstStep(grid, start, target, allowUnknown, limits) == StepOnWay(ShortestPath(grid, start, target, allowUnknown, limits), start)
ReachableCells(grid, start, allowUnknown, distance) ==
  LET grow[n \in 0..distance] ==
        IF n = 0 THEN {start}
        ELSE LET g == grow[n - 1] IN g \cup {c \in {StepTo(b, d) : b \in g, d \in Direction} : MayEnter(grid, c, allowUnknown)}
  IN  grow[distance]

(* The supercover walk between two cells: the side crossed next is the one whose      *)
(* midpoint comes first; on a tie the walk goes through the corner, and sight (not a   *)
(* shot) is also stopped by the two cells beside it.                                   *)
LineOf(origin, target) ==
  [origin |-> origin, target |-> target, n |-> <<Abs(target[1] - origin[1]), Abs(target[2] - origin[2])>>,
   sign |-> <<Sign(target[1] - origin[1]), Sign(target[2] - origin[2])>>]
OnLine(line, i, j) == <<line.origin[1] + line.sign[1] * i, line.origin[2] + line.sign[2] * j>>
\* Negative when the next side is a vertical one, positive when it is a horizontal one, 0 at a corner.
NextSide(line, p) == Sign((2 * p[1] + 1) * line.n[2] - (2 * p[2] + 1) * line.n[1])
Arrived(line, cell, corner, obstacles) ==   \* <<blocked, done>>
  IF corner \cap obstacles # {} THEN <<TRUE, TRUE>>
  ELSE IF cell = line.target THEN <<FALSE, TRUE>>
  ELSE <<cell \in obstacles, cell \in obstacles>>
Beside(line, p, side) == IF side # 0 THEN {} ELSE {OnLine(line, p[1] + 1, p[2]), OnLine(line, p[1], p[2] + 1)} \ {line.target}
Crossed(line, i, j, corner, obstacles) == <<i, j>> \o Arrived(line, OnLine(line, i, j), corner, obstacles)
CrossSide(line, p, side, obstacles, cornerSides) ==   \* p is <<i, j, blocked, done>>
  IF p[4] \/ (p[1] >= line.n[1] /\ p[2] >= line.n[2]) THEN p
  ELSE Crossed(line, p[1] + (IF side <= 0 THEN 1 ELSE 0), p[2] + (IF side >= 0 THEN 1 ELSE 0),
               IF cornerSides THEN Beside(line, p, side) ELSE {}, obstacles)
WalkBlocked(line, obstacles, cornerSides) ==
  LET at[n \in 0..(line.n[1] + line.n[2])] ==
        IF n = 0 THEN <<0, 0, FALSE, FALSE>>
        ELSE LET p == at[n - 1] IN CrossSide(line, p, NextSide(line, p), obstacles, cornerSides)
  IN  at[line.n[1] + line.n[2]][3]
LineBlocked(origin, target, obstacles, cornerSides) == WalkBlocked(LineOf(origin, target), obstacles, cornerSides)
VisionLineBlocked(origin, target, obstacles) == LineBlocked(origin, target, obstacles, TRUE)
ShotLineBlocked(origin, target, obstacles) == LineBlocked(origin, target, obstacles, FALSE)
ExploreRadiusForRing(base, ring) == base * ((ring % 5) + 1)

-----------------------------------------------------------------------------
(* The steps the strategies take without a search.                                    *)
StepToward(a, b) == IF b[1] # a[1] THEN XAxis(b[1] - a[1])[1] ELSE IF b[2] > a[2] THEN "S" ELSE "N"
TowardTarget(a, b) == Completed(XAxis(b[1] - a[1]) \o YAxis(b[2] - a[2]))

\* Toward the origin on the longer axis, on the other one when that is blocked.
MigrationDirectionTowardOrigin(core, blocked) ==
  LET x == XAxis(-core[1])
      y == YAxis(-core[2])
      axes == IF Abs(core[1]) >= Abs(core[2]) THEN x \o y ELSE y \o x
  IN  FirstWhere(axes, LAMBDA d : StepTo(core, d) \notin blocked, "none")
=============================================================================
