---------------------------- MODULE AllianceProofs ----------------------------
(***************************************************************************)
(* Proofs about what the alliance knows and decides (MCAlliance), for any  *)
(* members, enemies, places and sights, any tasks and capacities, and any  *)
(* losses, repeats and failures of the reports on their way.               *)
(*                                                                         *)
(* Survey.  A report is a fold of upserts over the enemy cores it names.   *)
(* The first sections show that there is such a fold, and what it makes of *)
(* the rows: the cells it names are there, each with a window widened to   *)
(* the tick of the report and no further.  So what a database remembers is *)
(* a function of the set of reports it took over, and a report taken over  *)
(* again, or half of one, changes nothing of it.                           *)
(* Market.  The tasks are dealt in the one order of their urgency; what is *)
(* dealt up to a task does not depend on those after it.                   *)
(* Picture.  Cases, reports and rows speak of enemies that stood there.    *)
(* So do the observations the view takes from them, and a merge of true    *)
(* sightings is true; what is classified by its age is read alike by both  *)
(* readers, and a sector is warned of for what is recent only.             *)
(***************************************************************************)
EXTENDS MCAlliance, SequenceTheorems, FiniteSetTheorems, TLAPS

-----------------------------------------------------------------------------
\* Induction over the numbers, for the set of those that have a property
\* (survey_db.py loops over the cells of a report; the library states induction
\* for an operator).  Every set of numbers has a least one, because the
\* intervals 1..n are well-founded under inclusion.
LEMMA LeastOfThem ==
  ASSUME NEW S, S \subseteq Nat, S # {}
  PROVE  \E n \in S : \A m \in S : n <= m
  <1> DEFINE Upto == {1..n : n \in S}
             Inclusion == StrictSubsetOrdering(Nat)
  <1>1. IsWellFoundedOn(Inclusion, FiniteSubsetsOf(Nat))
    BY FS_StrictSubsetOrderingWellFounded
  <1>2. Upto # {} /\ Upto \subseteq FiniteSubsetsOf(Nat)
    <2>1. \A n \in Nat : 1..n \subseteq Nat /\ IsFiniteSet(1..n)
      BY FS_Interval
    <2>2. QED
      BY <2>1 DEF FiniteSubsetsOf
  <1>3. PICK T \in Upto : \A U \in Upto : <<U, T>> \notin Inclusion
    BY <1>1, <1>2, WFMin
  <1>4. PICK n \in S : T = 1..n
    OBVIOUS
  <1>5. ASSUME NEW m \in S, m < n
        PROVE  FALSE
    <2>1. 1..m \subseteq 1..n /\ n \in 1..n /\ n \notin 1..m
      BY <1>5
    <2>2. <<1..m, 1..n>> \in Inclusion
      BY <2>1 DEF StrictSubsetOrdering
    <2>3. QED
      BY <1>3, <1>4, <2>2
  <1>6. QED
    BY <1>5

\* A set of numbers that has 0 and the successor of each of its own has them all.
LEMMA ByInduction ==
  ASSUME NEW P, 0 \in P, \A n \in Nat : n \in P => n + 1 \in P
  PROVE  Nat \subseteq P
  <1> SUFFICES ASSUME Nat \ P # {} PROVE FALSE
    OBVIOUS
  <1>1. PICK n \in Nat \ P : \A m \in Nat \ P : n <= m
    BY LeastOfThem
  <1>2. n # 0 /\ n - 1 \in Nat /\ n - 1 \in P
    BY <1>1
  <1>3. QED
    BY <1>1, <1>2

-----------------------------------------------------------------------------
\* The fold of a report's upserts.  FoldLeft chooses a function on the sets of
\* positions: Hunts says that there is one for the first n.
Hunts(rows, cores, tick, n) ==
  \E g : g = [S \in SUBSET (1..n) |->
                IF S = {} THEN rows
                ELSE CoreHuntUpsert(g[S \ {Max(S)}], cores[Max(S)], tick)]

\* The largest of the first n + 1 positions, where the last is among them.
LEMMA LastIsMax ==
  ASSUME NEW n \in Nat, NEW S \in SUBSET (1..n+1), n + 1 \in S
  PROVE  Max(S) = n + 1
  <1>1. \A x \in S : x <= n + 1 /\ x \in Nat
    OBVIOUS
  <1>2. \A x \in S : (\A y \in S : x >= y) => x = n + 1
    BY <1>1
  <1>3. QED
    BY <1>1, <1>2 DEF Max

\* The fold exists for any number of positions: one more is one more upsert.
LEMMA FoldExists ==
  ASSUME NEW rows, NEW cores, NEW tick
  PROVE  \A n \in Nat : Hunts(rows, cores, tick, n)
  <1> DEFINE P == {n \in Nat : Hunts(rows, cores, tick, n)}
  <1>1. 0 \in P
    <2> DEFINE g == [S \in SUBSET (1..0) |-> rows]
    <2>1. g = [S \in SUBSET (1..0) |->
                IF S = {} THEN rows
                ELSE CoreHuntUpsert(g[S \ {Max(S)}], cores[Max(S)], tick)]
      OBVIOUS
    <2> HIDE DEF g
    <2>2. QED
      BY <2>1 DEF Hunts
  <1>2. ASSUME NEW n \in Nat, n \in P
        PROVE  n + 1 \in P
    <2>1. PICK g : g = [S \in SUBSET (1..n) |->
                IF S = {} THEN rows
                ELSE CoreHuntUpsert(g[S \ {Max(S)}], cores[Max(S)], tick)]
      BY <1>2 DEF Hunts
    <2> DEFINE h == [S \in SUBSET (1..n+1) |->
                       IF n + 1 \in S
                       THEN CoreHuntUpsert(g[S \ {n + 1}], cores[n + 1], tick)
                       ELSE g[S]]
    <2>2. ASSUME NEW S \in SUBSET (1..n+1)
          PROVE  h[S] = IF S = {} THEN rows
                ELSE CoreHuntUpsert(h[S \ {Max(S)}], cores[Max(S)], tick)
      <3>1. CASE n + 1 \in S
        <4>1. Max(S) = n + 1
          BY <3>1, LastIsMax
        <4>2. h[S \ {n + 1}] = g[S \ {n + 1}]
          OBVIOUS
        <4>3. h[S] = CoreHuntUpsert(g[S \ {n + 1}], cores[n + 1], tick)
          BY <3>1
        <4> HIDE DEF h
        <4>4. QED
          BY <3>1, <4>1, <4>2, <4>3
      <3>2. CASE n + 1 \notin S
        <4> DEFINE m == Max(S)
        <4>1. S \in SUBSET (1..n) /\ S \ {m} \in SUBSET (1..n)
          <5>1. \A x \in 1..n+1 : x # n + 1 => x \in 1..n
            OBVIOUS
          <5>2. QED
            BY <3>2, <5>1
        <4>2. h[S] = g[S] /\ h[S \ {m}] = g[S \ {m}]
          BY <3>2
        <4>3. g[S] = IF S = {} THEN rows
                     ELSE CoreHuntUpsert(g[S \ {m}], cores[m], tick)
          BY <2>1, <4>1
        <4> HIDE DEF h
        <4>4. QED
          BY <4>2, <4>3
      <3>3. QED
        BY <3>1, <3>2
    <2>3. h = [S \in SUBSET (1..n+1) |->
                IF S = {} THEN rows
                ELSE CoreHuntUpsert(h[S \ {Max(S)}], cores[Max(S)], tick)]
      <3>1. h = [S \in SUBSET (1..n+1) |-> h[S]]
        OBVIOUS
      <3> HIDE DEF h
      <3>2. QED
        BY <2>2, <3>1
    <2> HIDE DEF h
    <2>4. Hunts(rows, cores, tick, n + 1)
      BY <2>3 DEF Hunts
    <2>5. QED
      BY <2>4
  <1>3. QED
    <2> HIDE DEF P
    <2>1. Nat \subseteq P
      BY <1>1, <1>2, ByInduction
    <2>2. QED
      BY <2>1 DEF P

\* The rows of the enemy cores after a report (_apply_mapping_upserts).
HuntsAfter(rows, cores, tick) ==
  FoldLeft(LAMBDA r, c : CoreHuntUpsert(r, c, tick), rows, cores)

\* What a report makes of the rows is reached upsert by upsert, in its order.
LEMMA HuntsFolded ==
  ASSUME NEW rows, NEW tick, NEW X, NEW cores \in Seq(X)
  PROVE  \E h : /\ h[0] = rows
                /\ \A k \in 1..Len(cores) : h[k] = CoreHuntUpsert(h[k - 1], cores[k], tick)
                /\ HuntsAfter(rows, cores, tick) = h[Len(cores)]
  <1> DEFINE n == Len(cores)
             Iter(g) == g = [S \in SUBSET (1..n) |->
                               IF S = {} THEN rows
                               ELSE CoreHuntUpsert(g[S \ {Max(S)}], cores[Max(S)], tick)]
             it == CHOOSE g : Iter(g)
             h == [k \in 0..n |-> it[1..k]]
  <1>1. n \in Nat /\ DOMAIN cores = 1..n
    OBVIOUS
  <1>2. HuntsAfter(rows, cores, tick) = it[1..n]
    <2>1. HuntsAfter(rows, cores, tick) =
            (CHOOSE g : g = [S \in SUBSET DOMAIN cores |->
                               IF S = {} THEN rows
                               ELSE CoreHuntUpsert(g[S \ {Max(S)}], cores[Max(S)], tick)])[DOMAIN cores]
      BY DEF HuntsAfter, FoldLeft, MapThenFoldSet
    <2> HIDE DEF n
    <2>2. QED
      BY <1>1, <2>1
  <1> HIDE DEF n
  <1>3. Iter(it)
    <2>1. \E g : Iter(g)
      <3>1. Hunts(rows, cores, tick, n)
        BY <1>1, FoldExists
      <3>2. QED
        BY <3>1 DEF Hunts
    <2> HIDE DEF Iter
    <2>2. QED
      BY <2>1
  <1> HIDE DEF it
  <1>4. h[0] = rows
    <2>1. 1..0 = {}
      OBVIOUS
    <2>2. QED
      BY <1>1, <1>3, <2>1
  <1>5. ASSUME NEW k \in 1..n
        PROVE  h[k] = CoreHuntUpsert(h[k - 1], cores[k], tick)
    <2>1. 1..k \in SUBSET (1..n) /\ 1..k # {} /\ (1..k) \ {k} = 1..(k - 1)
      BY <1>1
    <2>2. Max(1..k) = k
      <3>1. k - 1 \in Nat /\ (k - 1) + 1 = k /\ k \in 1..k
        BY <1>1
      <3>2. QED
        BY <3>1, LastIsMax
    <2>3. h[k] = it[1..k] /\ h[k - 1] = it[1..(k - 1)]
      BY <1>1
    <2>4. it[1..k] = CoreHuntUpsert(it[(1..k) \ {Max(1..k)}], cores[Max(1..k)], tick)
      BY <1>3, <2>1
    <2> HIDE DEF h, Iter
    <2>5. QED
      BY <2>1, <2>2, <2>3, <2>4
  <1>6. h[n] = it[1..n]
    BY <1>1
  <1> HIDE DEF h
  <1>7. QED
    BY <1>2, <1>4, <1>5, <1>6 DEF n

\* A cell is among the first n of a report.
InReport(cores, n, cell) == \E i \in 1..n : cores[i].cell = cell

\* A window runs from a first tick to a last one.
Windows(rows) ==
  \A c \in DOMAIN rows :
    rows[c].first \in Nat /\ rows[c].last \in Nat /\ rows[c].first <= rows[c].last

\* What the first n cores of a report make of the rows.
WidenedAt(old, new, cores, tick, n, c) ==
  IF InReport(cores, n, c)
  THEN /\ new[c].first = IF c \in DOMAIN old /\ old[c].first < tick THEN old[c].first ELSE tick
       /\ new[c].last = IF c \in DOMAIN old /\ tick < old[c].last THEN old[c].last ELSE tick
  ELSE new[c].first = old[c].first /\ new[c].last = old[c].last

\* The rows there were before and those of the report, no other, each so widened.
Widened(old, new, cores, tick, n) ==
  /\ \A c : c \in DOMAIN new <=> c \in DOMAIN old \/ InReport(cores, n, c)
  /\ \A c : c \in DOMAIN new => WidenedAt(old, new, cores, tick, n, c)

\* One more upsert (the ON CONFLICT of enemy_core_hunts) widens one more cell;
\* a cell that a report names twice is widened to the same tick.
LEMMA UpsertWidens ==
  ASSUME NEW old, NEW rows, NEW tick \in Nat, NEW cores, NEW n \in Nat, Windows(old),
         Widened(old, rows, cores, tick, n)
  PROVE  Widened(old, CoreHuntUpsert(rows, cores[n + 1], tick), cores, tick, n + 1)
  <1> DEFINE new == CoreHuntUpsert(rows, cores[n + 1], tick)
             cell == cores[n + 1].cell
  <1>1. \A c : InReport(cores, n + 1, c) <=> InReport(cores, n, c) \/ c = cell
    BY DEF InReport
  <1>2. DOMAIN new = DOMAIN rows \cup {cell} /\ \A c \in DOMAIN rows : c # cell => new[c] = rows[c]
    BY DEF CoreHuntUpsert, PutRow
  <1>3. cell \in DOMAIN rows =>
          /\ new[cell].first = MinOf(rows[cell].first, tick)
          /\ new[cell].last = MaxOf(rows[cell].last, tick)
    BY DEF CoreHuntUpsert, PutRow
  <1>4. cell \notin DOMAIN rows => new[cell].first = tick /\ new[cell].last = tick
    BY DEF CoreHuntUpsert, PutRow
  <1> HIDE DEF new, cell
  <1>5. \A c : c \in DOMAIN new <=> c \in DOMAIN old \/ InReport(cores, n + 1, c)
    BY <1>1, <1>2 DEF Widened
  <1>6. ASSUME NEW c, c \in DOMAIN new, c # cell
        PROVE  WidenedAt(old, new, cores, tick, n + 1, c)
    <2>1. c \in DOMAIN rows /\ new[c] = rows[c] /\ (InReport(cores, n + 1, c) <=> InReport(cores, n, c))
      BY <1>1, <1>2, <1>6
    <2>2. QED
      BY <2>1 DEF Widened, WidenedAt
  <1>7. InReport(cores, n + 1, cell)
    BY <1>1
  <1>8. ASSUME cell \notin DOMAIN rows
        PROVE  WidenedAt(old, new, cores, tick, n + 1, cell)
    <2>1. cell \notin DOMAIN old
      BY <1>8 DEF Widened
    <2>2. new[cell].first = tick /\ new[cell].last = tick
      BY <1>4, <1>8
    <2>3. QED
      BY <1>7, <2>1, <2>2 DEF WidenedAt
  <1>9. ASSUME cell \in DOMAIN rows
        PROVE  WidenedAt(old, new, cores, tick, n + 1, cell)
    <2> DEFINE first == IF cell \in DOMAIN old /\ old[cell].first < tick THEN old[cell].first ELSE tick
               last == IF cell \in DOMAIN old /\ tick < old[cell].last THEN old[cell].last ELSE tick
    <2>1. cell \in DOMAIN old => old[cell].first \in Nat /\ old[cell].last \in Nat
                                  /\ old[cell].first <= old[cell].last
      BY DEF Windows
    <2>2. IF InReport(cores, n, cell)
          THEN rows[cell].first = first /\ rows[cell].last = last
          ELSE cell \in DOMAIN old /\ rows[cell].first = old[cell].first /\ rows[cell].last = old[cell].last
      BY <1>9 DEF Widened, WidenedAt
    <2>3. new[cell].first = first /\ new[cell].last = last
      BY <1>3, <1>9, <2>1, <2>2 DEF MinOf, MaxOf
    <2>4. QED
      BY <1>7, <2>3 DEF WidenedAt
  <1>10. WidenedAt(old, new, cores, tick, n + 1, cell)
    BY <1>8, <1>9
  <1>11. Widened(old, new, cores, tick, n + 1)
    BY <1>5, <1>6, <1>10 DEF Widened
  <1>12. QED
    BY <1>11 DEF new

\* A whole report widens the windows of the cells it names.
LEMMA ReportWidens ==
  ASSUME NEW rows, NEW tick \in Nat, NEW X, NEW cores \in Seq(X), Windows(rows)
  PROVE  Widened(rows, HuntsAfter(rows, cores, tick), cores, tick, Len(cores))
  <1>1. PICK h : /\ h[0] = rows
                 /\ \A k \in 1..Len(cores) : h[k] = CoreHuntUpsert(h[k - 1], cores[k], tick)
                 /\ HuntsAfter(rows, cores, tick) = h[Len(cores)]
    BY HuntsFolded
  <1> DEFINE P == {n \in Nat : n <= Len(cores) => Widened(rows, h[n], cores, tick, n)}
  <1>2. 0 \in P
    BY <1>1 DEF Widened, WidenedAt, InReport
  <1>3. ASSUME NEW n \in Nat, n \in P
        PROVE  n + 1 \in P
    <2> SUFFICES ASSUME n + 1 <= Len(cores)
                 PROVE  Widened(rows, h[n + 1], cores, tick, n + 1)
      OBVIOUS
    <2>1. Len(cores) \in Nat /\ n + 1 \in 1..Len(cores) /\ (n + 1) - 1 = n
      OBVIOUS
    <2>2. Widened(rows, h[n], cores, tick, n)
      BY <1>3, <2>1
    <2>3. h[n + 1] = CoreHuntUpsert(h[n], cores[n + 1], tick)
      BY <1>1, <2>1
    <2>4. QED
      BY <2>2, <2>3, UpsertWidens
  <1>4. Len(cores) \in P
    <2> HIDE DEF P
    <2>1. QED
      BY <1>2, <1>3, ByInduction
  <1>5. QED
    BY <1>1, <1>4

-----------------------------------------------------------------------------
\* The invariant.  What a member can report: ticks are numbers, and what it saw
\* stands in the places enemies can be in.
Places == EnemyPlaces
CoreRows == [cell : Places, owner : {OwnerOf[e] : e \in Enemies}]
UnitRows == [cell : Places, type : {TypeOf[e] : e \in Enemies}, controlled : {FALSE}]
AgentReports ==
  [instance : Members, event : {"tick_summary"}, tick : Nat,
   resources : {Stock[t] : t \in Members}, core : {Homes[t] : t \in Members},
   visible : Nat, mode : {None}, at : Nat, resourceCells : {<< >>}, obstacleCells : {<< >>},
   unitsSeen : Seq(UnitRows), enemyCores : Seq(CoreRows)]

\* The ticks of the reports that saw an enemy core in a cell, and the windows
\* that fit them.
TicksIn(reports, cell) ==
  {e.tick : e \in {r \in reports : \E i \in DOMAIN r.enemyCores : r.enemyCores[i].cell = cell}}

WindowsFit(hunts, reports) ==
  /\ DOMAIN hunts \subseteq Places
  /\ \A cell \in Places : cell \in DOMAIN hunts <=> TicksIn(reports, cell) # {}
  /\ \A cell \in DOMAIN hunts :
       /\ hunts[cell].first \in TicksIn(reports, cell)
       /\ hunts[cell].last \in TicksIn(reports, cell)
       /\ \A n \in TicksIn(reports, cell) : hunts[cell].first <= n /\ n <= hunts[cell].last

\* The part of the state the databases' windows depend on.
SurveyTypeOK ==
  /\ clock \in Nat \ {0}
  /\ trail \in [Enemies -> Seq(Places)] /\ \A e \in Enemies : Len(trail[e]) = clock
  /\ outbox \in [Members -> Seq(AgentReports)]
  /\ applied \in [Members -> SUBSET AgentReports]
  /\ DOMAIN survey = Members
  /\ \A t \in Members : DOMAIN survey[t] = DOMAIN SurveyDbSchema

\* Each database's windows fit the reports it took over.
SurveyInv ==
  /\ SurveyTypeOK
  /\ \A t \in Members : WindowsFit(survey[t].coreHunts, applied[t])

-----------------------------------------------------------------------------
\* What a member reports.

\* A set put in some order is a sequence of its elements.
LEMMA SequenceOfSet ==
  ASSUME NEW S, IsFiniteSet(S)
  PROVE  SetToSeq(S) \in Seq(S)
  <1>1. Cardinality(S) \in Nat /\ ExistsBijection(1..Cardinality(S), S)
    BY FS_CardinalityType
  <1>2. \E f \in [1..Cardinality(S) -> S] : IsInjective(f)
    BY <1>1 DEF ExistsBijection, Bijection, Injection
  <1>3. SetToSeq(S) \in [1..Cardinality(S) -> S]
    BY <1>2 DEF SetToSeq
  <1>4. QED
    BY <1>1, <1>3

\* The summary of a tick (Record) is such a report.
LEMMA SummaryIsReport ==
  ASSUME SurveyTypeOK, NEW t \in Members
  PROVE  TickSummary(t, InSight(t)) \in AgentReports
  <1> DEFINE seen == InSight(t)
  <1>1. IsFiniteSet(Enemies)
    BY EnemiesAssumption
  <1>2. \A e \in Enemies : trail[e][clock] \in Places
    BY DEF SurveyTypeOK
  <1>3. \A S \in SUBSET Enemies : IsFiniteSet(S) /\ Cardinality(S) \in Nat
    BY <1>1, FS_Subset, FS_CardinalityType
  <1>4. seen \in SUBSET Enemies
    BY DEF InSight
  <1>5. SeenCores(seen) \in Seq(CoreRows)
    <2> DEFINE X == {x \in seen : KindOf[x] = "CORE"}
               T == {[cell |-> trail[e][clock], owner |-> OwnerOf[e]] : e \in X}
    <2>1. IsFiniteSet(T)
      <3>1. [e \in X |-> [cell |-> trail[e][clock], owner |-> OwnerOf[e]]] \in Surjection(X, T)
        BY DEF Surjection
      <3>2. QED
        BY <1>3, <1>4, <3>1, FS_Surjection
    <2>2. SetToSeq(T) \in Seq(T)
      BY <2>1, SequenceOfSet
    <2>3. T \subseteq CoreRows
      BY <1>2, <1>4 DEF CoreRows
    <2>4. QED
      BY <2>2, <2>3 DEF SeenCores
  <1>6. SeenUnits(seen) \in Seq(UnitRows)
    <2> DEFINE X == {x \in seen : KindOf[x] = "UNIT"}
               T == {[cell |-> trail[e][clock], type |-> TypeOf[e], controlled |-> FALSE] : e \in X}
    <2>1. IsFiniteSet(T)
      <3>1. [e \in X |-> [cell |-> trail[e][clock], type |-> TypeOf[e], controlled |-> FALSE]]
              \in Surjection(X, T)
        BY DEF Surjection
      <3>2. QED
        BY <1>3, <1>4, <3>1, FS_Surjection
    <2>2. SetToSeq(T) \in Seq(T)
      BY <2>1, SequenceOfSet
    <2>3. T \subseteq UnitRows
      <3>1. ASSUME NEW e \in X
            PROVE  [cell |-> trail[e][clock], type |-> TypeOf[e], controlled |-> FALSE] \in UnitRows
        <4>1. trail[e][clock] \in Places /\ TypeOf[e] \in {TypeOf[x] : x \in Enemies}
          BY <1>2, <1>4
        <4>2. QED
          BY <4>1 DEF UnitRows
      <3>2. QED
        BY <3>1
    <2>4. QED
      BY <2>2, <2>3 DEF SeenUnits
  <1>7. Cardinality(seen) \in Nat
    BY <1>3, <1>4
  <1> HIDE DEF seen
  <1>8. TickSummary(t, seen) \in AgentReports
    BY <1>5, <1>6, <1>7 DEF TickSummary, AgentReports, SurveyTypeOK
  <1>9. QED
    BY <1>8 DEF seen

-----------------------------------------------------------------------------
\* What a database makes of it.

\* The row of the event itself, all that a half-applied event leaves, is in
\* another table.
LEMMA RowKeepsHunts ==
  ASSUME NEW db, NEW e, DOMAIN db = DOMAIN SurveyDbSchema
  PROVE  LET new == ApplyAgentRow(db, e)
         IN  DOMAIN new = DOMAIN SurveyDbSchema /\ new.coreHunts = db.coreHunts
  BY DEF ApplyAgentRow, SurveyDbSchema

\* The rest of the event is the upserts of its cells.
LEMMA MappingFoldsHunts ==
  ASSUME NEW db, NEW e, DOMAIN db = DOMAIN SurveyDbSchema
  PROVE  LET new == ApplyMappingUpserts(db, e)
         IN  /\ DOMAIN new = DOMAIN SurveyDbSchema
             /\ new.coreHunts = HuntsAfter(db.coreHunts, e.enemyCores, e.tick)
  BY DEF ApplyMappingUpserts, SurveyDbSchema, HuntsAfter,
         FoldLeft, MapThenFoldSet

\* A tick summary taken over whole (apply_agent_event) does both.
LEMMA EventFoldsHunts ==
  ASSUME NEW db, NEW e \in AgentReports,
         DOMAIN db = DOMAIN SurveyDbSchema
  PROVE  LET new == ApplyAgentEvent(db, e)
         IN  /\ DOMAIN new = DOMAIN SurveyDbSchema
             /\ new.coreHunts = HuntsAfter(db.coreHunts, e.enemyCores, e.tick)
  <1>1. HasMapping(e)
    BY NoneIsNoTick DEF HasMapping, AgentReports
  <1>2. QED
    BY <1>1, RowKeepsHunts, MappingFoldsHunts DEF ApplyAgentEvent

\* Windows that fit some reports are windows.
LEMMA FittingWindows ==
  ASSUME NEW reports \in SUBSET AgentReports, NEW hunts, WindowsFit(hunts, reports)
  PROVE  Windows(hunts)
  <1>1. \A cell : TicksIn(reports, cell) \subseteq Nat
    BY DEF TicksIn, AgentReports
  <1>2. QED
    BY <1>1 DEF WindowsFit, Windows

\* A report widens the windows of what it saw, to its own tick at most; one
\* that was taken over before changes nothing.
LEMMA ReportFits ==
  ASSUME NEW reports \in SUBSET AgentReports, NEW e \in AgentReports, NEW hunts,
         WindowsFit(hunts, reports)
  PROVE  WindowsFit(HuntsAfter(hunts, e.enemyCores, e.tick), reports \cup {e})
  <1> DEFINE new == HuntsAfter(hunts, e.enemyCores, e.tick)
             n == Len(e.enemyCores)
             Now(c) == TicksIn(reports, c)
             Then(c) == TicksIn(reports \cup {e}, c)
  <1>1. e.tick \in Nat /\ e.enemyCores \in Seq(CoreRows)
    BY DEF AgentReports
  <1>2. Widened(hunts, new, e.enemyCores, e.tick, n)
    BY <1>1, ReportWidens, FittingWindows
  <1>3. \A c : Then(c) = Now(c) \cup (IF InReport(e.enemyCores, n, c) THEN {e.tick} ELSE {})
    BY <1>1 DEF TicksIn, InReport
  <1>4. \A c : Now(c) \subseteq Nat
    BY DEF TicksIn, AgentReports
  <1>5. \A c : InReport(e.enemyCores, n, c) => c \in Places
    <2>1. \A i \in 1..n : e.enemyCores[i] \in CoreRows
      BY <1>1
    <2>2. \A r \in CoreRows : r.cell \in Places
      BY DEF CoreRows
    <2>3. QED
      BY <2>1, <2>2 DEF InReport
  <1> HIDE DEF new, n, Now, Then
  <1>6. DOMAIN new \subseteq Places
    BY <1>2, <1>5 DEF Widened, WindowsFit
  <1>7. ASSUME NEW c \in Places
        PROVE  c \in DOMAIN new <=> Then(c) # {}
    BY <1>2, <1>3 DEF Widened, WindowsFit, Now
  <1>8. ASSUME NEW c \in DOMAIN new
        PROVE  /\ new[c].first \in Then(c) /\ new[c].last \in Then(c)
               /\ \A m \in Then(c) : new[c].first <= m /\ m <= new[c].last
    <2>1. c \in Places /\ WidenedAt(hunts, new, e.enemyCores, e.tick, n, c)
      BY <1>2, <1>6 DEF Widened
    <2>2. c \in DOMAIN hunts =>
            /\ hunts[c].first \in Now(c) /\ hunts[c].last \in Now(c)
            /\ \A m \in Now(c) : hunts[c].first <= m /\ m <= hunts[c].last
      BY DEF WindowsFit, Now
    <2>3. c \notin DOMAIN hunts => Now(c) = {}
      BY <2>1 DEF WindowsFit, Now
    <2>4. CASE ~InReport(e.enemyCores, n, c)
      <3>1. c \in DOMAIN hunts /\ Then(c) = Now(c)
        BY <1>2, <1>3, <2>4 DEF Widened
      <3>2. QED
        BY <2>1, <2>2, <2>4, <3>1 DEF WidenedAt
    <2>5. CASE InReport(e.enemyCores, n, c)
      <3>1. Then(c) = Now(c) \cup {e.tick}
        BY <1>3, <2>5
      <3>2. /\ new[c].first = IF c \in DOMAIN hunts /\ hunts[c].first < e.tick THEN hunts[c].first ELSE e.tick
            /\ new[c].last = IF c \in DOMAIN hunts /\ e.tick < hunts[c].last THEN hunts[c].last ELSE e.tick
        BY <2>1, <2>5 DEF WidenedAt
      <3>3. CASE c \in DOMAIN hunts
        BY <1>1, <1>4, <2>2, <3>1, <3>2, <3>3
      <3>4. CASE c \notin DOMAIN hunts
        BY <1>1, <2>3, <3>1, <3>2, <3>4
      <3>5. QED
        BY <3>3, <3>4
    <2>6. QED
      BY <2>4, <2>5
  <1>9. QED
    BY <1>6, <1>7, <1>8 DEF WindowsFit, new, Then

-----------------------------------------------------------------------------
\* The steps.

\* Nothing that a database remembers changes.
LEMMA SurveysRest ==
  ASSUME SurveyInv, SurveyTypeOK', applied' = applied,
         \A t \in Members : survey'[t].coreHunts = survey[t].coreHunts
  PROVE  SurveyInv'
  BY DEF SurveyInv

\* One database takes over a report.
LEMMA SurveyTakesOver ==
  ASSUME SurveyInv, NEW t \in Members, NEW e \in AgentReports,
         survey' = [survey EXCEPT ![t] = ApplyAgentEvent(@, e)],
         applied' = [applied EXCEPT ![t] = @ \cup {e}],
         clock' = clock, trail' = trail, outbox' \in [Members -> Seq(AgentReports)]
  PROVE  SurveyInv'
  <1> USE DEF SurveyInv
  <1>1. /\ DOMAIN survey = Members /\ DOMAIN survey[t] = DOMAIN SurveyDbSchema
        /\ applied \in [Members -> SUBSET AgentReports]
    BY DEF SurveyTypeOK
  <1>2. survey'[t] = ApplyAgentEvent(survey[t], e) /\ DOMAIN survey' = Members
        /\ \A s \in Members : s # t => survey'[s] = survey[s]
    BY <1>1
  <1>3. /\ DOMAIN survey'[t] = DOMAIN SurveyDbSchema
        /\ survey'[t].coreHunts = HuntsAfter(survey[t].coreHunts, e.enemyCores, e.tick)
    BY <1>1, <1>2, EventFoldsHunts
  <1>4. SurveyTypeOK'
    BY <1>1, <1>2, <1>3 DEF SurveyTypeOK
  <1>5. WindowsFit(survey'[t].coreHunts, applied'[t])
    <2>1. applied'[t] = applied[t] \cup {e} /\ applied[t] \in SUBSET AgentReports
      BY <1>1
    <2>2. WindowsFit(survey[t].coreHunts, applied[t])
      OBVIOUS
    <2>3. WindowsFit(HuntsAfter(survey[t].coreHunts, e.enemyCores, e.tick), applied[t] \cup {e})
      BY <2>1, <2>2, ReportFits
    <2>4. QED
      BY <1>3, <2>1, <2>3
  <1>6. QED
    BY <1>1, <1>2, <1>4, <1>5

\* A report comes in, comes in again, comes in half or is lost; the enemies move
\* and members report meanwhile.
LEMMA SurveyStays ==
  ASSUME SurveyInv, Next \/ UNCHANGED vars
  PROVE  SurveyInv'
  <1> USE DEF SurveyInv
  <1>0. \A t \in Members : outbox[t] \in Seq(AgentReports) /\ applied[t] \subseteq AgentReports
    BY DEF SurveyTypeOK
  <1>1. CASE UNCHANGED vars
    <2>1. SurveyTypeOK'
      BY <1>1 DEF vars, SurveyTypeOK
    <2>2. QED
      BY <1>1, <2>1, SurveysRest DEF vars
  <1>2. CASE Advance
    <2>1. trail' \in [Enemies -> Seq(Places)] /\ \A e \in Enemies : Len(trail'[e]) = clock'
      <3>1. PICK move \in [Enemies -> Places] : trail' = [e \in Enemies |-> Append(trail[e], move[e])]
        BY <1>2 DEF Advance, Places
      <3>2. \A e \in Enemies : trail[e] \in Seq(Places) /\ move[e] \in Places /\ Len(trail[e]) = clock
        BY DEF SurveyTypeOK
      <3>3. \A e \in Enemies : Append(trail[e], move[e]) \in Seq(Places)
                               /\ Len(Append(trail[e], move[e])) = clock + 1
        BY <3>2, AppendProperties
      <3>4. QED
        BY <1>2, <3>1, <3>3 DEF Advance
    <2>2. SurveyTypeOK'
      BY <1>2, <2>1 DEF Advance, SurveyTypeOK
    <2>3. QED
      BY <1>2, <2>2, SurveysRest DEF Advance
  <1>3. ASSUME NEW t \in Members, Record(t)
        PROVE  SurveyInv'
    <2>1. outbox'[t] \in Seq(AgentReports)
      BY <1>0, <1>3, SummaryIsReport, AppendProperties DEF Record, SurveyTypeOK
    <2>2. SurveyTypeOK'
      BY <1>3, <2>1 DEF Record, SurveyTypeOK
    <2>3. QED
      BY <1>3, <2>2, SurveysRest DEF Record
  <1>4. ASSUME NEW t \in Members, outbox[t] # << >>
        PROVE  Head(outbox[t]) \in AgentReports /\ Tail(outbox[t]) \in Seq(AgentReports)
    BY <1>0, <1>4, HeadTailProperties
  <1>5. ASSUME NEW t \in Members, Ingest(t)
        PROVE  SurveyInv'
    <2>1. outbox' \in [Members -> Seq(AgentReports)]
      BY <1>4, <1>5 DEF Ingest, SurveyTypeOK
    <2>2. QED
      BY <1>4, <1>5, <2>1, SurveyTakesOver DEF Ingest
  <1>6. ASSUME NEW t \in Members, IngestAgain(t)
        PROVE  SurveyInv'
    <2>1. PICK e \in applied[t] : survey' = [survey EXCEPT ![t] = ApplyAgentEvent(@, e)]
      BY <1>6 DEF IngestAgain
    <2>2. applied' = [applied EXCEPT ![t] = @ \cup {e}]
      BY <1>6, <2>1 DEF IngestAgain, SurveyTypeOK
    <2>3. QED
      BY <1>0, <1>6, <2>1, <2>2, SurveyTakesOver DEF IngestAgain, SurveyTypeOK
  <1>7. ASSUME NEW t \in Members, IngestHalf(t)
        PROVE  SurveyInv'
    <2>1. DOMAIN survey = Members /\ DOMAIN survey[t] = DOMAIN SurveyDbSchema
      BY DEF SurveyTypeOK
    <2>2. DOMAIN survey'[t] = DOMAIN SurveyDbSchema /\ survey'[t].coreHunts = survey[t].coreHunts
          /\ DOMAIN survey' = Members /\ \A s \in Members : s # t => survey'[s] = survey[s]
      BY <1>7, <2>1, RowKeepsHunts DEF IngestHalf
    <2>3. SurveyTypeOK'
      BY <1>7, <2>2 DEF IngestHalf, SurveyTypeOK
    <2>4. QED
      BY <1>7, <2>2, <2>3, SurveysRest DEF IngestHalf
  <1>8. ASSUME NEW t \in Members, LoseReport(t)
        PROVE  SurveyInv'
    <2>1. SurveyTypeOK'
      BY <1>4, <1>8 DEF LoseReport, SurveyTypeOK
    <2>2. QED
      BY <1>8, <2>1, SurveysRest DEF LoseReport
  <1>9. QED
    BY <1>1, <1>2, <1>3, <1>5, <1>6, <1>7, <1>8 DEF Next

\* The databases start with no rows and no reports.
LEMMA SurveyStarts ==
  ASSUME Init
  PROVE  SurveyInv
  <1>1. \A e \in Enemies : StartOf[e] \in Places
    BY EnemiesAssumption DEF Places, EnemyPlaces
  <1>2. SurveyTypeOK
    BY <1>1 DEF Init, SurveyTypeOK
  <1>3. ASSUME NEW t \in Members
        PROVE  WindowsFit(survey[t].coreHunts, applied[t])
    <2>1. survey[t].coreHunts = << >> /\ DOMAIN survey[t].coreHunts = {}
      BY DEF Init, SurveyDbSchema
    <2>2. \A c : TicksIn(applied[t], c) = {}
      BY DEF Init, TicksIn
    <2>3. QED
      BY <2>1, <2>2 DEF WindowsFit
  <1>4. QED
    BY <1>2, <1>3 DEF SurveyInv

\* However often an event of a tick is taken over, in whole or in half
\* (apply_agent_event, called again after a failure, survey_db.py), and whichever
\* are lost, a database's windows of the enemy cores depend on the set of reports
\* it took over alone: a core is known in a cell exactly when a report saw one
\* there, and its window runs from the first such tick to the last.
THEOREM SurveysStayConverged == AllianceSpec => []SurveysConverge
  <1>1. AllianceInit => SurveyInv
    BY SurveyStarts DEF AllianceInit
  <1>2. SurveyInv /\ [AllianceNext]_allianceVars => SurveyInv'
    BY SurveyStays DEF AllianceNext, allianceVars, vars
  <1>3. SurveyInv => SurveysConverge
    <2> SUFFICES ASSUME SurveyInv, NEW t \in Members
                 PROVE  LET hunts == survey[t].coreHunts
                        IN  /\ \A cell \in Places : cell \in DOMAIN hunts <=> Reports(t, cell) # {}
                            /\ \A cell \in DOMAIN hunts :
                                 /\ {hunts[cell].first, hunts[cell].last} \subseteq Reports(t, cell)
                                 /\ \A n \in Reports(t, cell) : n \in hunts[cell].first..hunts[cell].last
      BY DEF SurveysConverge, SurveyConverges, Places
    <2>1. \A cell : Reports(t, cell) = TicksIn(applied[t], cell)
                     /\ Reports(t, cell) \subseteq Nat
      BY DEF SurveyInv, SurveyTypeOK, Reports, TicksIn, AgentReports
    <2>2. QED
      BY <2>1 DEF SurveyInv, WindowsFit
  <1>4. QED
    BY <1>1, <1>2, <1>3, PTL DEF AllianceSpec

-----------------------------------------------------------------------------
\* The market (alliance/task_market.py).  The order of the tasks is a strict and
\* total one, so that of some of them one is handled last.
MarketTasks == {x \in Tasks : WellFormedTask(x)}

\* No task comes before itself, and of two different ones one comes before the other
\* (the sort key of assign_tasks).
LEMMA OrderIsStrict ==
  ASSUME NEW x \in MarketTasks, NEW y \in MarketTasks
  PROVE  /\ ComesBefore(x, y) => ~ComesBefore(y, x)
         /\ x # y => ComesBefore(x, y) \/ ComesBefore(y, x)
  <1>1. /\ x.id \in Nat /\ x.priority \in Int /\ x.deadline \in Nat \cup {None}
        /\ y.id \in Nat /\ y.priority \in Int /\ y.deadline \in Nat \cup {None}
        /\ x.id = y.id => x = y
        /\ None \notin Nat
    BY MarketAssumption, NoneIsNoTick DEF MarketTasks
  <1>2. QED
    BY <1>1 DEF ComesBefore

\* And the order is one (assign_tasks sorts by it).
LEMMA OrderIsTransitive ==
  ASSUME NEW x \in MarketTasks, NEW y \in MarketTasks, NEW z \in MarketTasks,
         ComesBefore(x, y), ComesBefore(y, z)
  PROVE  ComesBefore(x, z)
  <1>1. /\ x.id \in Nat /\ x.priority \in Int /\ x.deadline \in Nat \cup {None}
        /\ y.id \in Nat /\ y.priority \in Int /\ y.deadline \in Nat \cup {None}
        /\ z.id \in Nat /\ z.priority \in Int /\ z.deadline \in Nat \cup {None}
        /\ None \notin Nat
    BY MarketAssumption, NoneIsNoTick DEF MarketTasks
  <1>2. QED
    BY <1>1 DEF ComesBefore

IsLast(x, S) == x \in S /\ \A y \in S \ {x} : ComesBefore(y, x)
LastTask(S) == CHOOSE x \in S : \A y \in S \ {x} : ComesBefore(y, x)

\* Some tasks have a last one in that order (assign_tasks).
LEMMA LastTaskIsLast ==
  ASSUME NEW S \in SUBSET MarketTasks, S # {}
  PROVE  IsLast(LastTask(S), S)
  <1> DEFINE P == {n \in Nat : \A T \in SUBSET MarketTasks :
                                 Cardinality(T) = n /\ T # {} => \E x : IsLast(x, T)}
  <1>0. \A T \in SUBSET MarketTasks : IsFiniteSet(T) /\ Cardinality(T) \in Nat
    <2>1. \A T \in SUBSET MarketTasks : T \in SUBSET Tasks
      BY DEF MarketTasks
    <2>2. QED
      BY <2>1, MarketAssumption, FS_Subset, FS_CardinalityType
  <1>1. 0 \in P
    BY <1>0, FS_EmptySet
  <1>2. ASSUME NEW n \in Nat, n \in P PROVE n + 1 \in P
    <2> SUFFICES ASSUME NEW T \in SUBSET MarketTasks, Cardinality(T) = n + 1, T # {}
                 PROVE  \E x : IsLast(x, T)
      OBVIOUS
    <2>1. PICK x \in T : TRUE
      OBVIOUS
    <2>2. Cardinality(T \ {x}) = n /\ T \ {x} \in SUBSET MarketTasks
      <3>1. Cardinality(T \ {x}) = Cardinality(T) - 1
        BY <1>0, FS_RemoveElement
      <3>2. QED
        BY <3>1
    <2>3. CASE T \ {x} = {}
      BY <2>3 DEF IsLast
    <2>4. CASE T \ {x} # {}
      <3>1. PICK z : IsLast(z, T \ {x})
        BY <1>2, <2>2, <2>4
      <3>2. z \in T /\ z # x /\ \A y \in T : y # x /\ y # z => ComesBefore(y, z)
        BY <3>1 DEF IsLast
      <3>3. CASE ComesBefore(x, z)
        BY <3>2, <3>3 DEF IsLast
      <3>4. CASE ComesBefore(z, x)
        <4>1. \A y \in T : y # x => ComesBefore(y, x)
          BY <3>2, <3>4, OrderIsTransitive
        <4>2. QED
          BY <4>1 DEF IsLast
      <3>5. QED
        BY <3>2, <3>3, <3>4, OrderIsStrict
    <2>5. QED
      BY <2>3, <2>4
  <1>3. Nat \subseteq P
    <2> HIDE DEF P
    <2>1. QED
      BY <1>1, <1>2, ByInduction
  <1>4. \E x : IsLast(x, S)
    BY <1>0, <1>3
  <1>5. QED
    BY <1>4 DEF IsLast, LastTask

\* There is only one.
LEMMA OneIsLast ==
  ASSUME NEW S \in SUBSET MarketTasks, NEW x, NEW y, IsLast(x, S), IsLast(y, S)
  PROVE  x = y
  BY OrderIsStrict DEF IsLast

-----------------------------------------------------------------------------
\* What the market makes of a set of tasks: the tasks before its last one are
\* dealt, and then the last one.  It is a function on the finitely many sets.
FullMarket == [remaining |-> Capacities, assigned |-> {}, rejected |-> {}]
Deals(g, hands) ==
  g = [S \in hands |-> IF S = {} THEN FullMarket
                       ELSE AssignOne(g[S \ {LastTask(S)}], LastTask(S))]
Hands(n) == {S \in SUBSET MarketTasks : Cardinality(S) <= n}

\* Without its last task a hand is smaller.
LEMMA HandShrinks ==
  ASSUME NEW S \in SUBSET MarketTasks
  PROVE  /\ IsFiniteSet(S) /\ Cardinality(S) \in Nat /\ (S # {} => Cardinality(S) # 0)
         /\ S # {} => /\ LastTask(S) \in S /\ S \ {LastTask(S)} \in SUBSET MarketTasks
                      /\ Cardinality(S \ {LastTask(S)}) = Cardinality(S) - 1
  <1>1. S \in SUBSET Tasks
    BY DEF MarketTasks
  <1>2. IsFiniteSet(S) /\ Cardinality(S) \in Nat
    BY <1>1, MarketAssumption, FS_Subset, FS_CardinalityType
  <1>3. S # {} => LastTask(S) \in S
    BY LastTaskIsLast DEF IsLast
  <1>4. QED
    BY <1>2, <1>3, FS_RemoveElement, FS_EmptySet

\* There is a deal of every hand up to a size, by induction over the size (the loop
\* of assign_tasks).
LEMMA DealExists == \A n \in Nat : \E g : Deals(g, Hands(n))
  <1> DEFINE P == {n \in Nat : \E g : Deals(g, Hands(n))}
  <1>1. 0 \in P
    <2> DEFINE g == [S \in Hands(0) |-> FullMarket]
    <2>1. ASSUME NEW S \in Hands(0) PROVE S = {}
      <3>1. S \in SUBSET MarketTasks /\ Cardinality(S) <= 0
        BY DEF Hands
      <3>2. Cardinality(S) \in Nat /\ (S # {} => Cardinality(S) # 0)
        BY <3>1, HandShrinks
      <3>3. QED
        BY <3>1, <3>2
    <2>2. Deals(g, Hands(0))
      BY <2>1 DEF Deals
    <2>3. QED
      BY <2>2
  <1>2. ASSUME NEW n \in Nat, n \in P PROVE n + 1 \in P
    <2>1. PICK g : Deals(g, Hands(n))
      BY <1>2
    <2> DEFINE h == [S \in Hands(n + 1) |->
                       IF S = {} THEN FullMarket
                       ELSE AssignOne(g[S \ {LastTask(S)}], LastTask(S))]
    <2>2. ASSUME NEW S \in Hands(n) PROVE h[S] = g[S]
      <3>1. S \in Hands(n + 1)
        <4>1. S \in SUBSET MarketTasks /\ Cardinality(S) <= n
          BY DEF Hands
        <4>2. Cardinality(S) \in Nat
          BY <4>1, HandShrinks
        <4>3. QED
          BY <4>1, <4>2 DEF Hands
      <3>2. QED
        BY <2>1, <3>1 DEF Deals
    <2>3. ASSUME NEW S \in Hands(n + 1), S # {} PROVE S \ {LastTask(S)} \in Hands(n)
      BY <2>3, HandShrinks DEF Hands
    <2>4. h = [S \in Hands(n + 1) |->
                 IF S = {} THEN FullMarket ELSE AssignOne(h[S \ {LastTask(S)}], LastTask(S))]
      <3>1. \A S \in Hands(n + 1) : S # {} => h[S \ {LastTask(S)}] = g[S \ {LastTask(S)}]
        BY <2>2, <2>3
      <3>2. QED
        BY <3>1
    <2> HIDE DEF h
    <2>5. QED
      BY <2>4 DEF Deals
  <1>3. QED
    <2> HIDE DEF P
    <2>1. Nat \subseteq P
      BY <1>1, <1>2, ByInduction
    <2>2. QED
      BY <2>1 DEF P

DealOf == CHOOSE g : Deals(g, SUBSET MarketTasks)

\* What is dealt of a hand is what is dealt without its last task, and then that one
\* (an iteration of assign_tasks).
LEMMA DealUnfolds ==
  /\ DealOf[{}] = FullMarket
  /\ \A S \in SUBSET MarketTasks : S # {} =>
       DealOf[S] = AssignOne(DealOf[S \ {LastTask(S)}], LastTask(S))
  <1>1. \E g : Deals(g, SUBSET MarketTasks)
    <2>1. Cardinality(MarketTasks) \in Nat /\ IsFiniteSet(MarketTasks)
      BY HandShrinks
    <2>2. \A S \in SUBSET MarketTasks : Cardinality(S) <= Cardinality(MarketTasks)
      BY <2>1, FS_Subset
    <2>3. Hands(Cardinality(MarketTasks)) = SUBSET MarketTasks
      BY <2>2 DEF Hands
    <2>4. \E g : Deals(g, Hands(Cardinality(MarketTasks)))
      BY <2>1, DealExists
    <2>5. QED
      BY <2>3, <2>4
  <1>2. Deals(DealOf, SUBSET MarketTasks)
    BY <1>1 DEF DealOf
  <1>3. QED
    BY <1>2 DEF Deals

\* Tasks offered in some order, none of them twice.
NoRepeats(s) == \A i, j \in DOMAIN s : s[i] = s[j] => i = j
TasksAt(s, I) == {s[i] : i \in I}

\* The position handled last is that of the last task.
LEMMA LastPosition ==
  ASSUME NEW s \in Seq(MarketTasks), NoRepeats(s), NEW I \in SUBSET DOMAIN s, I # {}
  PROVE  LET l == LastInOrder(s, I)
         IN  /\ l \in I /\ s[l] = LastTask(TasksAt(s, I))
             /\ TasksAt(s, I \ {l}) = TasksAt(s, I) \ {s[l]}
  <1> DEFINE S == TasksAt(s, I)
             Handled(i) == \A j \in I \ {i} :
               ComesBefore(s[j], s[i]) \/ (~ComesBefore(s[i], s[j]) /\ j < i)
             l == CHOOSE i \in I : Handled(i)
  <1>1. S \in SUBSET MarketTasks /\ S # {} /\ \A i \in I : s[i] \in S
    BY DEF TasksAt
  <1>2. IsLast(LastTask(S), S)
    BY <1>1, LastTaskIsLast
  <1>3. \A i, j \in I : i # j => s[i] # s[j]
    BY DEF NoRepeats
  <1>4. \E i \in I : Handled(i)
    <2>1. PICK i \in I : s[i] = LastTask(S)
      BY <1>2 DEF IsLast, TasksAt
    <2>2. Handled(i)
      BY <1>1, <1>2, <1>3, <2>1 DEF IsLast
    <2>3. QED
      BY <2>2
  <1>5. l \in I /\ Handled(l)
    <2> HIDE DEF Handled
    <2>1. QED
      BY <1>4
  <1>6. LastInOrder(s, I) = l
    BY DEF LastInOrder
  <1> HIDE DEF l
  <1>7. IsLast(s[l], S)
    <2>1. ASSUME NEW y \in S \ {s[l]}
          PROVE  ComesBefore(y, s[l])
      <3>1. PICK j \in I : y = s[j]
        BY DEF TasksAt
      <3>2. y \in MarketTasks /\ s[l] \in MarketTasks /\ j # l
        BY <1>1, <1>5, <2>1, <3>1
      <3>3. QED
        BY <1>5, <3>1, <3>2, OrderIsStrict
    <2>2. QED
      BY <1>1, <1>5, <2>1 DEF IsLast
  <1>8. s[l] = LastTask(S)
    BY <1>1, <1>2, <1>7, OneIsLast
  <1>9. TasksAt(s, I \ {l}) = S \ {s[l]}
    BY <1>3, <1>5 DEF TasksAt
  <1>10. QED
    BY <1>5, <1>6, <1>8, <1>9

\* assign_tasks deals the set of the tasks, in whatever order they were offered.
Rounds(g, s) ==
  g = [I \in SUBSET DOMAIN s |->
         IF I = {} THEN FullMarket
         ELSE AssignOne(g[I \ {LastInOrder(s, I)}], s[LastInOrder(s, I)])]

\* The fold over the sorted list deals as many rounds as it has tasks.
LEMMA RoundsDeal ==
  ASSUME NEW s \in Seq(MarketTasks), NoRepeats(s), NEW g, Rounds(g, s)
  PROVE  g[DOMAIN s] = DealOf[ToSet(s)]
  <1> DEFINE P == {n \in Nat : \A I \in SUBSET DOMAIN s :
                                 Cardinality(I) = n => g[I] = DealOf[TasksAt(s, I)]}
  <1>0. \A I \in SUBSET DOMAIN s : IsFiniteSet(I) /\ Cardinality(I) \in Nat
    <2>1. DOMAIN s = 1..Len(s) /\ Len(s) \in Nat
      OBVIOUS
    <2>2. IsFiniteSet(DOMAIN s)
      BY <2>1, FS_Interval
    <2>3. QED
      BY <2>2, FS_Subset, FS_CardinalityType
  <1>1. ASSUME NEW I \in SUBSET DOMAIN s, I = {}
        PROVE  g[I] = DealOf[TasksAt(s, I)]
    <2>1. g[I] = FullMarket
      BY <1>1 DEF Rounds
    <2>2. TasksAt(s, I) = {}
      BY <1>1 DEF TasksAt
    <2>3. QED
      BY <2>1, <2>2, DealUnfolds
  <1>2. 0 \in P
    BY <1>0, <1>1, FS_EmptySet
  <1>3. ASSUME NEW n \in Nat, n \in P PROVE n + 1 \in P
    <2> SUFFICES ASSUME NEW I \in SUBSET DOMAIN s, Cardinality(I) = n + 1
                 PROVE  g[I] = DealOf[TasksAt(s, I)]
      OBVIOUS
    <2> DEFINE l == LastInOrder(s, I)
               S == TasksAt(s, I)
    <2>1. CASE I # {}
      <3>1. l \in I /\ s[l] = LastTask(S) /\ TasksAt(s, I \ {l}) = S \ {s[l]}
        BY <2>1, LastPosition
      <3>2. Cardinality(I \ {l}) = n /\ I \ {l} \in SUBSET DOMAIN s
        <4>1. Cardinality(I \ {l}) = Cardinality(I) - 1
          BY <1>0, <3>1, FS_RemoveElement
        <4>2. QED
          BY <4>1
      <3>3. g[I \ {l}] = DealOf[S \ {s[l]}]
        BY <1>3, <3>1, <3>2
      <3>4. g[I] = AssignOne(g[I \ {l}], s[l])
        BY <2>1 DEF Rounds
      <3>5. S \in SUBSET MarketTasks /\ S # {}
        BY <2>1 DEF TasksAt
      <3>6. DealOf[S] = AssignOne(DealOf[S \ {LastTask(S)}], LastTask(S))
        BY <3>5, DealUnfolds
      <3> HIDE DEF l, S
      <3>7. g[I] = DealOf[S]
        BY <3>1, <3>3, <3>4, <3>6
      <3>8. QED
        BY <3>7 DEF S
    <2>2. QED
      BY <1>1, <2>1
  <1>4. Nat \subseteq P
    <2> HIDE DEF P
    <2>1. QED
      BY <1>2, <1>3, ByInduction
  <1>5. g[DOMAIN s] = DealOf[TasksAt(s, DOMAIN s)]
    BY <1>0, <1>4
  <1>6. TasksAt(s, DOMAIN s) = ToSet(s)
    BY DEF TasksAt, ToSet
  <1>7. QED
    BY <1>5, <1>6

\* Rounds are there, because the deal gives them.
LEMMA RoundsExist ==
  ASSUME NEW s \in Seq(MarketTasks), NoRepeats(s)
  PROVE  \E g : Rounds(g, s)
  <1> DEFINE g == [I \in SUBSET DOMAIN s |-> DealOf[TasksAt(s, I)]]
  <1>1. ASSUME NEW I \in SUBSET DOMAIN s
        PROVE  g[I] = IF I = {} THEN FullMarket
                      ELSE AssignOne(g[I \ {LastInOrder(s, I)}], s[LastInOrder(s, I)])
    <2> DEFINE l == LastInOrder(s, I)
               S == TasksAt(s, I)
    <2>1. CASE I = {}
      <3>1. TasksAt(s, I) = {}
        BY <2>1 DEF TasksAt
      <3>2. QED
        BY <2>1, <3>1, DealUnfolds
    <2>2. CASE I # {}
      <3>1. l \in I /\ s[l] = LastTask(S) /\ TasksAt(s, I \ {l}) = S \ {s[l]}
        BY <2>2, LastPosition
      <3>2. S \in SUBSET MarketTasks /\ S # {}
        BY <2>2 DEF TasksAt
      <3>3. g[I] = DealOf[S] /\ g[I \ {l}] = DealOf[TasksAt(s, I \ {l})]
        OBVIOUS
      <3>4. DealOf[S] = AssignOne(DealOf[S \ {LastTask(S)}], LastTask(S))
        BY <3>2, DealUnfolds
      <3> HIDE DEF g, S, l
      <3>5. g[I] = AssignOne(g[I \ {l}], s[l])
        BY <3>1, <3>3, <3>4
      <3>6. QED
        BY <2>2, <3>5 DEF l
    <2>3. QED
      BY <2>1, <2>2
  <1>2. g = [I \in SUBSET DOMAIN s |-> g[I]]
    OBVIOUS
  <1> HIDE DEF g
  <1>3. Rounds(g, s)
    BY <1>1, <1>2 DEF Rounds
  <1>4. QED
    BY <1>3

\* Different tasks have different ids, so that none is given twice.
LEMMA IdsAreDifferent ==
  ASSUME NEW s \in Seq(MarketTasks), NoRepeats(s)
  PROVE  Cardinality({s[i].id : i \in DOMAIN s}) = Len(s)
  <1> DEFINE T == {s[i].id : i \in DOMAIN s}
             f == [i \in 1..Len(s) |-> s[i].id]
  <1>1. Len(s) \in Nat /\ DOMAIN s = 1..Len(s) /\ \A i \in DOMAIN s : s[i] \in Tasks
    BY DEF MarketTasks
  <1>2. f \in Bijection(1..Len(s), T)
    <2>1. \A i, j \in 1..Len(s) : f[i] = f[j] => i = j
      BY <1>1, MarketAssumption DEF NoRepeats
    <2>2. QED
      BY <1>1, <2>1 DEF Bijection, Injection, Surjection, IsInjective
  <1>3. IsFiniteSet(1..Len(s)) /\ Cardinality(1..Len(s)) = Len(s)
    BY <1>1, FS_Interval
  <1> HIDE DEF T, f
  <1>4. Cardinality(T) = Cardinality(1..Len(s))
    BY <1>2, <1>3, FS_Bijection DEF ExistsBijection
  <1>5. QED
    BY <1>3, <1>4 DEF T

Dealt(T) ==
  [assigned |-> DealOf[T].assigned, rejected |-> DealOf[T].rejected,
   remaining |-> DealOf[T].remaining, ok |-> TRUE]

\* What assign_tasks gives for a list of tasks is the deal of the set of them.
LEMMA MarketDeals ==
  ASSUME NEW s \in Seq(MarketTasks), NoRepeats(s)
  PROVE  AssignTasks(s, Capacities) = Dealt(ToSet(s))
  <1> DEFINE g == CHOOSE f : Rounds(f, s)
             r == g[DOMAIN s]
  <1>1. AssignTasks(s, Capacities) =
          [assigned |-> r.assigned, rejected |-> r.rejected, remaining |-> r.remaining,
           ok |-> Cardinality({s[i].id : i \in DOMAIN s}) = Len(s)]
    BY DEF AssignTasks, MapThenFoldSet, Rounds, FullMarket
  <1>2. Rounds(g, s)
    BY RoundsExist
  <1> HIDE DEF g
  <1>3. r = DealOf[ToSet(s)]
    BY <1>2, RoundsDeal
  <1> HIDE DEF r
  <1>4. (Cardinality({s[i].id : i \in DOMAIN s}) = Len(s)) = TRUE
    BY IdsAreDifferent
  <1>5. QED
    BY <1>1, <1>3, <1>4 DEF Dealt

-----------------------------------------------------------------------------
\* One task: a member takes it that has room for it, or none it may go to has.
IsMarket(m) ==
  DOMAIN m = {"remaining", "assigned", "rejected"} /\ m.remaining \in [DOMAIN Capacities -> Nat]
Taken(m, n, x, t) ==
  /\ t \in DOMAIN Capacities /\ m.remaining[t] >= x.weight
  /\ n.remaining = [m.remaining EXCEPT ![t] = @ - x.weight]
  /\ n.assigned = m.assigned \cup {<<x.id, t>>} /\ n.rejected = m.rejected
TurnedAway(m, n, x) ==
  /\ \A t \in CandidateTenants(x, DOMAIN Capacities) : m.remaining[t] < x.weight
  /\ n.remaining = m.remaining /\ n.assigned = m.assigned
  /\ \E why : n.rejected = m.rejected \cup {<<x.id, why>>}

\* A task handled by assign_tasks is taken by one member or turned away.
LEMMA OneIsDealt ==
  ASSUME NEW m, IsMarket(m), NEW x \in MarketTasks
  PROVE  /\ IsMarket(AssignOne(m, x))
         /\ TurnedAway(m, AssignOne(m, x), x) \/ \E t : Taken(m, AssignOne(m, x), x, t)
  <1> DEFINE n == AssignOne(m, x)
             able == {t \in CandidateTenants(x, DOMAIN m.remaining) : m.remaining[t] >= x.weight}
             t == ChosenTenant(x, m.remaining)
  <1>1. /\ DOMAIN m.remaining = DOMAIN Capacities /\ DOMAIN Capacities \subseteq Nat
        /\ \A u \in DOMAIN Capacities : m.remaining[u] \in Nat
        /\ x.weight \in Int /\ x.weight >= 1 /\ None \notin Nat
    BY MarketAssumption, NoneIsNoTick DEF IsMarket, MarketTasks, WellFormedTask
  <1>2. CandidateTenants(x, DOMAIN m.remaining) \subseteq DOMAIN Capacities
    BY <1>1 DEF CandidateTenants
  <1>3. CASE able = {}
    <2>1. t = None
      BY <1>3 DEF ChosenTenant
    <2>2. n = [m EXCEPT !.rejected = @ \cup {<<x.id, RejectionReason(x, m.remaining)>>}]
      BY <2>1 DEF AssignOne
    <2>3. /\ DOMAIN n = DOMAIN m /\ n.remaining = m.remaining /\ n.assigned = m.assigned
          /\ n.rejected = m.rejected \cup {<<x.id, RejectionReason(x, m.remaining)>>}
      BY <2>2 DEF IsMarket
    <2>4. \A u \in CandidateTenants(x, DOMAIN Capacities) : m.remaining[u] < x.weight
      BY <1>1, <1>2, <1>3
    <2> HIDE DEF n
    <2>5. TurnedAway(m, n, x)
      BY <2>3, <2>4 DEF TurnedAway
    <2>6. IsMarket(n)
      BY <2>3 DEF IsMarket
    <2>7. QED
      BY <2>5, <2>6 DEF n
  <1>4. CASE able # {}
    <2>1. \E u \in able : \A v \in able : u <= v
      <3>1. able \subseteq Nat
        BY <1>1, <1>2
      <3> HIDE DEF able
      <3>2. QED
        BY <1>4, <3>1, LeastOfThem
    <2>2. t \in able
      <3>1. t = CHOOSE u \in able : \A v \in able : u <= v
        BY <1>4 DEF ChosenTenant
      <3> HIDE DEF able, t
      <3>2. QED
        BY <2>1, <3>1
    <2>3. t \in DOMAIN Capacities /\ m.remaining[t] >= x.weight /\ t # None
      BY <1>1, <1>2, <2>2
    <2>4. n = [m EXCEPT !.remaining[t] = @ - x.weight, !.assigned = @ \cup {<<x.id, t>>}]
      BY <2>3 DEF AssignOne
    <2> HIDE DEF t
    <2>5. /\ DOMAIN n = DOMAIN m
          /\ n.remaining = [m.remaining EXCEPT ![t] = @ - x.weight]
          /\ n.assigned = m.assigned \cup {<<x.id, t>>} /\ n.rejected = m.rejected
      BY <2>4 DEF IsMarket
    <2> HIDE DEF n
    <2>6. Taken(m, n, x, t)
      BY <2>3, <2>5 DEF Taken
    <2>7. n.remaining \in [DOMAIN Capacities -> Nat]
      <3>1. m.remaining[t] - x.weight \in Nat
        BY <1>1, <2>3
      <3>2. QED
        BY <2>5, <3>1 DEF IsMarket
    <2>8. IsMarket(n)
      BY <2>5, <2>7 DEF IsMarket
    <2>9. QED
      BY <2>6, <2>8 DEF n
  <1>5. QED
    BY <1>3, <1>4

\* What holds of the tasks that have been dealt: they alone are on the market's
\* lists, each on one of the two, and those that were turned away could not be
\* taken now.
Fits(m, S) ==
  /\ IsMarket(m)
  /\ \A a \in m.assigned : \E x \in S : a[1] = x.id
  /\ \A r \in m.rejected : \E x \in S : r[1] = x.id
  /\ \A x \in S : /\ (TenantOf(m, x) = {}) <=> (\E r \in m.rejected : r[1] = x.id)
                  /\ TenantOf(m, x) = {} =>
                       \A t \in CandidateTenants(x, DOMAIN Capacities) : m.remaining[t] < x.weight

\* One more task dealt (assign_tasks) keeps the market in order.
LEMMA DealingFits ==
  ASSUME NEW S \in SUBSET MarketTasks, NEW x \in MarketTasks \ S, NEW m, Fits(m, S)
  PROVE  Fits(AssignOne(m, x), S \cup {x})
  <1> DEFINE n == AssignOne(m, x)
             T == S \cup {x}
  <1>1. IsMarket(m) /\ IsMarket(n)
    BY OneIsDealt DEF Fits
  <1>2. x.weight \in Int /\ x.weight >= 1
    BY MarketAssumption DEF MarketTasks, WellFormedTask
  <1>3. \A y \in S : y.id # x.id
    BY MarketAssumption DEF MarketTasks
  <1>4. TenantOf(m, x) = {} /\ ~\E r \in m.rejected : r[1] = x.id
    <2>1. \A a \in m.assigned : a[1] # x.id
      BY <1>3 DEF Fits
    <2>2. \A r \in m.rejected : r[1] # x.id
      BY <1>3 DEF Fits
    <2>3. QED
      BY <2>1, <2>2 DEF TenantOf
  <1>5. CandidateTenants(x, DOMAIN Capacities) \subseteq DOMAIN Capacities
        /\ \A y \in S : CandidateTenants(y, DOMAIN Capacities) \subseteq DOMAIN Capacities
    BY DEF CandidateTenants
  <1>6. CASE TurnedAway(m, n, x)
    <2> HIDE DEF n
    <2>1. PICK why : n.rejected = m.rejected \cup {<<x.id, why>>}
      BY <1>6 DEF TurnedAway
    <2>2. n.assigned = m.assigned /\ n.remaining = m.remaining
      BY <1>6 DEF TurnedAway
    <2>3. \A y : TenantOf(n, y) = TenantOf(m, y)
      BY <2>2 DEF TenantOf
    <2>4. \A a \in n.assigned : \E y \in T : a[1] = y.id
      BY <2>2 DEF Fits
    <2>5. \A r \in n.rejected : \E y \in T : r[1] = y.id
      BY <2>1 DEF Fits
    <2>6. ASSUME NEW y \in S
          PROVE  (TenantOf(n, y) = {}) <=> (\E r \in n.rejected : r[1] = y.id)
      <3>1. (\E r \in n.rejected : r[1] = y.id) <=> (\E r \in m.rejected : r[1] = y.id)
        BY <1>3, <2>1
      <3>2. QED
        BY <2>3, <3>1 DEF Fits
    <2>7. ASSUME NEW y \in S, TenantOf(n, y) = {}
          PROVE  \A t \in CandidateTenants(y, DOMAIN Capacities) : n.remaining[t] < y.weight
      BY <2>2, <2>3, <2>7 DEF Fits
    <2>8. TenantOf(n, x) = {} /\ \E r \in n.rejected : r[1] = x.id
      <3>1. TenantOf(n, x) = {}
        BY <1>4, <2>3
      <3>2. <<x.id, why>> \in n.rejected
        BY <2>1
      <3>3. QED
        BY <3>1, <3>2
    <2>9. \A t \in CandidateTenants(x, DOMAIN Capacities) : n.remaining[t] < x.weight
      BY <1>6, <2>2 DEF TurnedAway
    <2>10. QED
      BY <1>1, <2>4, <2>5, <2>6, <2>7, <2>8, <2>9 DEF Fits, n
  <1>7. ASSUME NEW t, Taken(m, n, x, t)
        PROVE  Fits(n, T)
    <2> HIDE DEF n
    <2>1. /\ n.assigned = m.assigned \cup {<<x.id, t>>} /\ n.rejected = m.rejected
          /\ t \in DOMAIN Capacities /\ n.remaining = [m.remaining EXCEPT ![t] = @ - x.weight]
      BY <1>7 DEF Taken
    <2>2. \A u \in DOMAIN Capacities : n.remaining[u] <= m.remaining[u]
                                       /\ n.remaining[u] \in Nat /\ m.remaining[u] \in Nat
      <3>1. \A u \in DOMAIN Capacities : n.remaining[u] = IF u = t THEN m.remaining[u] - x.weight ELSE m.remaining[u]
        BY <1>1, <2>1 DEF IsMarket
      <3>2. \A u \in DOMAIN Capacities : n.remaining[u] \in Nat /\ m.remaining[u] \in Nat
        BY <1>1 DEF IsMarket
      <3>3. QED
        BY <1>2, <3>1, <3>2
    <2>3. \A y \in S : TenantOf(n, y) = TenantOf(m, y)
      <3>1. ASSUME NEW y \in S
            PROVE  {b \in n.assigned : b[1] = y.id} = {b \in m.assigned : b[1] = y.id}
        BY <1>3, <2>1
      <3>2. QED
        BY <3>1 DEF TenantOf
    <2>4. \A a \in n.assigned : \E y \in T : a[1] = y.id
      BY <2>1 DEF Fits
    <2>5. \A r \in n.rejected : \E y \in T : r[1] = y.id
      BY <2>1 DEF Fits
    <2>6. ASSUME NEW y \in S
          PROVE  (TenantOf(n, y) = {}) <=> (\E r \in n.rejected : r[1] = y.id)
      BY <2>1, <2>3 DEF Fits
    <2>7. ASSUME NEW y \in S, TenantOf(n, y) = {}, NEW u \in CandidateTenants(y, DOMAIN Capacities)
          PROVE  n.remaining[u] < y.weight
      <3>1. m.remaining[u] < y.weight /\ u \in DOMAIN Capacities /\ y.weight \in Int
        BY <1>5, <2>3, <2>7, MarketAssumption DEF Fits, MarketTasks
      <3>2. QED
        BY <2>2, <3>1
    <2>8. TenantOf(n, x) # {} /\ ~\E r \in n.rejected : r[1] = x.id
      <3>1. <<x.id, t>> \in {b \in n.assigned : b[1] = x.id}
        BY <2>1
      <3>2. <<x.id, t>>[2] \in TenantOf(n, x)
        BY <3>1 DEF TenantOf
      <3>3. QED
        BY <1>4, <2>1, <3>2
    <2>9. QED
      BY <1>1, <2>4, <2>5, <2>6, <2>7, <2>8 DEF Fits
  <1>8. QED
    BY <1>1, <1>6, <1>7, OneIsDealt

\* An argument about the deals of all sets of tasks goes up one task at a time.
LEMMA TasksByInduction ==
  ASSUME NEW Q \in SUBSET SUBSET MarketTasks, {} \in Q,
         \A S \in SUBSET MarketTasks : S # {} /\ S \ {LastTask(S)} \in Q => S \in Q
  PROVE  Q = SUBSET MarketTasks
  <1> DEFINE P == {n \in Nat : \A S \in SUBSET MarketTasks : Cardinality(S) = n => S \in Q}
  <1>1. 0 \in P
    BY HandShrinks
  <1>2. ASSUME NEW n \in Nat, n \in P PROVE n + 1 \in P
    <2> SUFFICES ASSUME NEW S \in SUBSET MarketTasks, Cardinality(S) = n + 1, S # {}
                 PROVE  S \in Q
      OBVIOUS
    <2>1. Cardinality(S \ {LastTask(S)}) = n /\ S \ {LastTask(S)} \in SUBSET MarketTasks
      <3>1. Cardinality(S \ {LastTask(S)}) = Cardinality(S) - 1
        BY HandShrinks
      <3>2. QED
        BY <3>1
    <2>2. QED
      BY <1>2, <2>1
  <1>3. Nat \subseteq P
    <2> HIDE DEF P
    <2>1. QED
      BY <1>1, <1>2, ByInduction
  <1>4. \A S \in SUBSET MarketTasks : S \in Q
    BY <1>3, HandShrinks
  <1>5. QED
    BY <1>4

\* So every deal is in order (assign_tasks).
LEMMA DealFits ==
  ASSUME NEW S \in SUBSET MarketTasks
  PROVE  Fits(DealOf[S], S)
  <1> DEFINE Q == {T \in SUBSET MarketTasks : Fits(DealOf[T], T)}
  <1>1. {} \in Q
    <2>1. FullMarket.remaining = Capacities /\ FullMarket.assigned = {} /\ FullMarket.rejected = {}
          /\ IsMarket(FullMarket)
      BY MarketAssumption DEF FullMarket, IsMarket
    <2>2. QED
      BY <2>1, DealUnfolds DEF Fits
  <1>2. ASSUME NEW T \in SUBSET MarketTasks, T # {}, T \ {LastTask(T)} \in Q
        PROVE  T \in Q
    <2> DEFINE x == LastTask(T)
    <2>1. x \in T
      BY <1>2, HandShrinks
    <2>2. DealOf[T] = AssignOne(DealOf[T \ {x}], x)
      BY <1>2, DealUnfolds
    <2> HIDE DEF x
    <2>3. Fits(DealOf[T \ {x}], T \ {x})
      BY <1>2 DEF x
    <2>4. x \in MarketTasks \ (T \ {x}) /\ (T \ {x}) \cup {x} = T
      BY <2>1
    <2>5. Fits(AssignOne(DealOf[T \ {x}], x), (T \ {x}) \cup {x})
      BY <2>3, <2>4, DealingFits
    <2>6. QED
      BY <2>2, <2>4, <2>5
  <1>3. Q = SUBSET MarketTasks
    <2> HIDE DEF Q
    <2>1. Q \in SUBSET SUBSET MarketTasks
      BY DEF Q
    <2>2. QED
      BY <1>1, <1>2, <2>1, TasksByInduction
  <1>4. QED
    BY <1>3

\* Where the others go does not depend on the task that is dealt.
LEMMA OthersStay ==
  ASSUME NEW m, IsMarket(m), NEW x \in MarketTasks, NEW y \in MarketTasks, x # y
  PROVE  TenantOf(AssignOne(m, x), y) = TenantOf(m, y)
  <1> DEFINE n == AssignOne(m, x)
  <1>1. TurnedAway(m, n, x) \/ \E t : Taken(m, n, x, t)
    BY OneIsDealt
  <1>2. x.id # y.id
    BY MarketAssumption DEF MarketTasks
  <1> HIDE DEF n
  <1>3. {b \in n.assigned : b[1] = y.id} = {b \in m.assigned : b[1] = y.id}
    <2>1. n.assigned = m.assigned \/ \E t : n.assigned = m.assigned \cup {<<x.id, t>>}
      BY <1>1 DEF Taken, TurnedAway
    <2>2. QED
      BY <1>2, <2>1
  <1>4. QED
    BY <1>3 DEF TenantOf, n

\* A task that comes before another goes where it would go without the other.
LEMMA LaterIsIrrelevant ==
  ASSUME NEW S \in SUBSET MarketTasks, NEW x \in S, NEW y \in S, ComesBefore(y, x)
  PROVE  TenantOf(DealOf[S], y) = TenantOf(DealOf[S \ {x}], y)
  <1> DEFINE Q == {T \in SUBSET MarketTasks : x \in T /\ y \in T =>
                     TenantOf(DealOf[T], y) = TenantOf(DealOf[T \ {x}], y)}
  <1>0. x # y
    BY OrderIsStrict
  <1>1. {} \in Q
    OBVIOUS
  <1>2. ASSUME NEW T \in SUBSET MarketTasks, T # {}, T \ {LastTask(T)} \in Q
        PROVE  T \in Q
    <2> SUFFICES ASSUME x \in T, y \in T
                 PROVE  TenantOf(DealOf[T], y) = TenantOf(DealOf[T \ {x}], y)
      OBVIOUS
    <2> DEFINE l == LastTask(T)
    <2>1. IsLast(l, T) /\ DealOf[T] = AssignOne(DealOf[T \ {l}], l)
      BY LastTaskIsLast, DealUnfolds
    <2>2. l # y /\ l \in MarketTasks
      BY <1>0, <2>1, OrderIsStrict DEF IsLast
    <2>3. IsMarket(DealOf[T \ {l}])
      BY DealFits DEF Fits
    <2>4. TenantOf(DealOf[T], y) = TenantOf(DealOf[T \ {l}], y)
      BY <2>1, <2>2, <2>3, OthersStay
    <2>5. CASE l = x
      BY <2>4, <2>5
    <2>6. CASE l # x
      <3> DEFINE U == T \ {x}
      <3>1. U \in SUBSET MarketTasks /\ U # {} /\ IsLast(l, U)
        BY <1>0, <2>1, <2>6 DEF IsLast
      <3>2. LastTask(U) = l
        BY <3>1, LastTaskIsLast, OneIsLast
      <3>3. DealOf[U] = AssignOne(DealOf[U \ {l}], l)
        BY <3>1, <3>2, DealUnfolds
      <3>4. IsMarket(DealOf[U \ {l}])
        BY <3>1, DealFits DEF Fits
      <3>5. TenantOf(DealOf[U], y) = TenantOf(DealOf[U \ {l}], y)
        BY <2>2, <3>3, <3>4, OthersStay
      <3>6. U \ {l} = (T \ {l}) \ {x}
        OBVIOUS
      <3>7. TenantOf(DealOf[T \ {l}], y) = TenantOf(DealOf[(T \ {l}) \ {x}], y)
        BY <1>2, <2>2, <2>6
      <3>8. QED
        BY <2>4, <3>5, <3>6, <3>7
    <2>7. QED
      BY <2>5, <2>6
  <1>3. Q = SUBSET MarketTasks
    <2> HIDE DEF Q
    <2>1. Q \in SUBSET SUBSET MarketTasks
      BY DEF Q
    <2>2. QED
      BY <1>1, <1>2, <2>1, TasksByInduction
  <1>4. QED
    BY <1>3

-----------------------------------------------------------------------------
\* The weights of some of the tasks of a list, added to what is left: a fold,
\* as the upserts of a report are one.
Weight(T, x) == IF x \in T THEN x.weight ELSE 0
AddsUp(g, left, T, s, n) ==
  g = [S \in SUBSET (1..n) |->
         IF S = {} THEN left ELSE g[S \ {Max(S)}] + Weight(T, s[Max(S)])]
LeftAndTaken(left, T, s) ==
  FoldLeft(LAMBDA n, x : n + (IF x \in T THEN x.weight ELSE 0), left, s)

\* There is such a fold for every length of the list.
LEMMA AddingUpExists ==
  ASSUME NEW left, NEW T, NEW s
  PROVE  \A n \in Nat : \E g : AddsUp(g, left, T, s, n)
  <1> DEFINE P == {n \in Nat : \E g : AddsUp(g, left, T, s, n)}
  <1>1. 0 \in P
    <2> DEFINE g == [S \in SUBSET (1..0) |-> left]
    <2>1. AddsUp(g, left, T, s, 0)
      BY DEF AddsUp
    <2>2. QED
      BY <2>1
  <1>2. ASSUME NEW n \in Nat, n \in P
        PROVE  n + 1 \in P
    <2>1. PICK g : AddsUp(g, left, T, s, n)
      BY <1>2
    <2> DEFINE h == [S \in SUBSET (1..n+1) |->
                       IF n + 1 \in S THEN g[S \ {n + 1}] + Weight(T, s[n + 1]) ELSE g[S]]
    <2>2. ASSUME NEW S \in SUBSET (1..n+1)
          PROVE  h[S] = IF S = {} THEN left ELSE h[S \ {Max(S)}] + Weight(T, s[Max(S)])
      <3>1. CASE n + 1 \in S
        <4>1. Max(S) = n + 1
          BY <3>1, LastIsMax
        <4>2. h[S \ {n + 1}] = g[S \ {n + 1}]
          OBVIOUS
        <4>3. h[S] = g[S \ {n + 1}] + Weight(T, s[n + 1])
          BY <3>1
        <4> HIDE DEF h
        <4>4. QED
          BY <3>1, <4>1, <4>2, <4>3
      <3>2. CASE n + 1 \notin S
        <4> DEFINE m == Max(S)
        <4>1. S \in SUBSET (1..n) /\ S \ {m} \in SUBSET (1..n)
          <5>1. \A x \in 1..n+1 : x # n + 1 => x \in 1..n
            OBVIOUS
          <5>2. QED
            BY <3>2, <5>1
        <4>2. h[S] = g[S] /\ h[S \ {m}] = g[S \ {m}]
          BY <3>2
        <4>3. g[S] = IF S = {} THEN left ELSE g[S \ {m}] + Weight(T, s[m])
          BY <2>1, <4>1 DEF AddsUp
        <4> HIDE DEF h
        <4>4. QED
          BY <4>2, <4>3
      <3>3. QED
        BY <3>1, <3>2
    <2>3. h = [S \in SUBSET (1..n+1) |-> h[S]]
      OBVIOUS
    <2> HIDE DEF h
    <2>4. AddsUp(h, left, T, s, n + 1)
      BY <2>2, <2>3 DEF AddsUp
    <2>5. QED
      BY <2>4
  <1>3. QED
    <2> HIDE DEF P
    <2>1. Nat \subseteq P
      BY <1>1, <1>2, ByInduction
    <2>2. QED
      BY <2>1 DEF P

\* What is added up of a list is added task by task, in its order.
LEMMA AddedUp ==
  ASSUME NEW left, NEW T, NEW X, NEW s \in Seq(X)
  PROVE  \E h : /\ h[0] = left
                /\ \A k \in 1..Len(s) : h[k] = h[k - 1] + Weight(T, s[k])
                /\ LeftAndTaken(left, T, s) = h[Len(s)]
  <1> DEFINE n == Len(s)
             it == CHOOSE g : AddsUp(g, left, T, s, n)
             h == [k \in 0..n |-> it[1..k]]
  <1>1. n \in Nat /\ DOMAIN s = 1..n
    OBVIOUS
  <1>2. LeftAndTaken(left, T, s) = it[1..n]
    <2>1. LeftAndTaken(left, T, s) =
            (CHOOSE g : g = [S \in SUBSET DOMAIN s |->
                               IF S = {} THEN left
                               ELSE g[S \ {Max(S)}]
                                    + (IF s[Max(S)] \in T THEN s[Max(S)].weight ELSE 0)])[DOMAIN s]
      BY DEF LeftAndTaken, FoldLeft, MapThenFoldSet
    <2> HIDE DEF n
    <2>2. QED
      BY <1>1, <2>1 DEF AddsUp, Weight
  <1> HIDE DEF n
  <1>3. AddsUp(it, left, T, s, n)
    BY <1>1, AddingUpExists
  <1> HIDE DEF it
  <1>4. h[0] = left
    <2>1. 1..0 = {}
      OBVIOUS
    <2>2. QED
      BY <1>1, <1>3, <2>1 DEF AddsUp
  <1>5. ASSUME NEW k \in 1..n
        PROVE  h[k] = h[k - 1] + Weight(T, s[k])
    <2>1. 1..k \in SUBSET (1..n) /\ 1..k # {} /\ (1..k) \ {k} = 1..(k - 1)
      BY <1>1
    <2>2. Max(1..k) = k
      <3>1. k - 1 \in Nat /\ (k - 1) + 1 = k /\ k \in 1..k
        BY <1>1
      <3>2. QED
        BY <3>1, LastIsMax
    <2>3. h[k] = it[1..k] /\ h[k - 1] = it[1..(k - 1)]
      BY <1>1
    <2>4. it[1..k] = it[(1..k) \ {Max(1..k)}] + Weight(T, s[Max(1..k)])
      BY <1>3, <2>1 DEF AddsUp
    <2> HIDE DEF h
    <2>5. QED
      BY <2>1, <2>2, <2>3, <2>4
  <1>6. h[n] = it[1..n]
    BY <1>1
  <1> HIDE DEF h
  <1>7. QED
    BY <1>2, <1>4, <1>5, <1>6 DEF n

\* With no task taken, what is left is what there was.
LEMMA NothingTaken ==
  ASSUME NEW left \in Int, NEW s \in Seq(MarketTasks)
  PROVE  LeftAndTaken(left, {}, s) = left
  <1>1. PICK h : /\ h[0] = left
                 /\ \A k \in 1..Len(s) : h[k] = h[k - 1] + Weight({}, s[k])
                 /\ LeftAndTaken(left, {}, s) = h[Len(s)]
    BY AddedUp
  <1> DEFINE P == {k \in Nat : k <= Len(s) => h[k] = left}
  <1>2. 0 \in P
    BY <1>1
  <1>3. ASSUME NEW k \in Nat, k \in P PROVE k + 1 \in P
    <2> SUFFICES ASSUME k + 1 <= Len(s) PROVE h[k + 1] = left
      OBVIOUS
    <2>1. k + 1 \in 1..Len(s) /\ (k + 1) - 1 = k /\ h[k] = left
      BY <1>3
    <2>2. QED
      BY <1>1, <2>1 DEF Weight
  <1>4. Nat \subseteq P
    <2> HIDE DEF P
    <2>1. QED
      BY <1>2, <1>3, ByInduction
  <1>5. QED
    BY <1>1, <1>4

\* One task of the list is taken, and its weight is no longer left.
LEMMA OneMoreTaken ==
  ASSUME NEW s \in Seq(MarketTasks), NoRepeats(s), NEW left \in Int, NEW T,
         NEW x \in ToSet(s), x \notin T
  PROVE  LeftAndTaken(left - x.weight, T \cup {x}, s) = LeftAndTaken(left, T, s)
  <1>1. PICK g : /\ g[0] = left
                 /\ \A k \in 1..Len(s) : g[k] = g[k - 1] + Weight(T, s[k])
                 /\ LeftAndTaken(left, T, s) = g[Len(s)]
    BY AddedUp
  <1>2. PICK h : /\ h[0] = left - x.weight
                 /\ \A k \in 1..Len(s) : h[k] = h[k - 1] + Weight(T \cup {x}, s[k])
                 /\ LeftAndTaken(left - x.weight, T \cup {x}, s) = h[Len(s)]
    BY AddedUp
  <1>3. DOMAIN s = 1..Len(s) /\ Len(s) \in Nat /\ x.weight \in Int
        /\ \A k \in 1..Len(s) : s[k].weight \in Int
    BY MarketAssumption DEF MarketTasks, ToSet
  <1>4. PICK p \in 1..Len(s) : s[p] = x
    BY <1>3 DEF ToSet
  <1>5. \A k \in 1..Len(s) : k # p => s[k] # x
    BY <1>3, <1>4 DEF NoRepeats
  <1> DEFINE P == {k \in Nat : k <= Len(s) =>
                     g[k] \in Int /\ h[k] = IF k < p THEN g[k] - x.weight ELSE g[k]}
  <1>6. 0 \in P
    BY <1>1, <1>2, <1>4
  <1>7. ASSUME NEW k \in Nat, k \in P PROVE k + 1 \in P
    <2> SUFFICES ASSUME k + 1 <= Len(s)
                 PROVE  /\ g[k + 1] \in Int
                        /\ h[k + 1] = IF k + 1 < p THEN g[k + 1] - x.weight ELSE g[k + 1]
      OBVIOUS
    <2>1. /\ k + 1 \in 1..Len(s) /\ (k + 1) - 1 = k
          /\ g[k] \in Int /\ h[k] = IF k < p THEN g[k] - x.weight ELSE g[k]
      BY <1>3, <1>7
    <2> DEFINE w == Weight(T, s[k + 1])
               v == Weight(T \cup {x}, s[k + 1])
    <2>2. g[k + 1] = g[k] + w /\ h[k + 1] = h[k] + v
      BY <1>1, <1>2, <2>1
    <2>3. w \in Int /\ v = IF k + 1 = p THEN x.weight ELSE w
      BY <1>3, <1>4, <1>5, <2>1 DEF Weight
    <2>4. k + 1 = p => w = 0
      BY <1>4 DEF Weight
    <2> HIDE DEF w, v
    <2>5. QED
      BY <1>3, <1>4, <2>1, <2>2, <2>3, <2>4
  <1>8. Nat \subseteq P
    <2> HIDE DEF P
    <2>1. QED
      BY <1>6, <1>7, ByInduction
  <1>9. h[Len(s)] = g[Len(s)]
    BY <1>3, <1>4, <1>8
  <1>10. QED
    BY <1>1, <1>2, <1>9

\* A member's capacity is what it has left and the weights of what it took.
TakenBy(m, S, t) == {x \in S : <<x.id, t>> \in m.assigned}
TakesOne(m, n, S, x, t) ==
  \/ /\ TakenBy(n, S \cup {x}, t) = TakenBy(m, S, t)
     /\ n.remaining[t] = m.remaining[t]
  \/ /\ TakenBy(n, S \cup {x}, t) = TakenBy(m, S, t) \cup {x}
     /\ n.remaining[t] = m.remaining[t] - x.weight

\* One more task (assign_tasks) is taken by the member, by another or by none.
LEMMA OneMoreDealt ==
  ASSUME NEW S \in SUBSET MarketTasks, NEW x \in MarketTasks \ S, NEW m, Fits(m, S),
         NEW t \in DOMAIN Capacities
  PROVE  TakesOne(m, AssignOne(m, x), S, x, t)
  <1> DEFINE n == AssignOne(m, x)
  <1>1. IsMarket(m) /\ (TurnedAway(m, n, x) \/ \E u : Taken(m, n, x, u))
    BY OneIsDealt DEF Fits
  <1>2. \A y \in S : y.id # x.id
    BY MarketAssumption DEF MarketTasks
  <1>3. <<x.id, t>> \notin m.assigned
    BY <1>2 DEF Fits
  <1> HIDE DEF n
  <1>4. CASE TurnedAway(m, n, x)
    <2>1. n.assigned = m.assigned /\ n.remaining = m.remaining
      BY <1>4 DEF TurnedAway
    <2>2. TakenBy(n, S \cup {x}, t) = TakenBy(m, S, t)
      BY <1>3, <2>1 DEF TakenBy
    <2>3. QED
      BY <2>1, <2>2 DEF TakesOne, n
  <1>5. ASSUME NEW u, Taken(m, n, x, u)
        PROVE  TakesOne(m, n, S, x, t)
    <2>1. /\ n.assigned = m.assigned \cup {<<x.id, u>>} /\ u \in DOMAIN Capacities
          /\ n.remaining = [m.remaining EXCEPT ![u] = @ - x.weight]
          /\ DOMAIN m.remaining = DOMAIN Capacities
      BY <1>1, <1>5 DEF Taken, IsMarket
    <2>2. \A y \in S : <<y.id, t>> \in n.assigned <=> <<y.id, t>> \in m.assigned
      BY <1>2, <2>1
    <2>3. <<x.id, t>> \in n.assigned <=> u = t
      BY <1>3, <2>1
    <2>4. CASE u = t
      <3>1. TakenBy(n, S \cup {x}, t) = TakenBy(m, S, t) \cup {x}
        BY <2>2, <2>3, <2>4 DEF TakenBy
      <3>2. QED
        BY <2>1, <2>4, <3>1 DEF TakesOne
    <2>5. CASE u # t
      <3>1. TakenBy(n, S \cup {x}, t) = TakenBy(m, S, t)
        BY <2>2, <2>3, <2>5 DEF TakenBy
      <3>2. QED
        BY <2>1, <2>5, <3>1 DEF TakesOne
    <2>6. QED
      BY <2>4, <2>5
  <1>6. QED
    BY <1>1, <1>4, <1>5 DEF n

\* And so what a member has left and what it took make up its capacity (assign_tasks).
LEMMA CapacityIsUsed ==
  ASSUME NEW s \in Seq(MarketTasks), NoRepeats(s), NEW t \in DOMAIN Capacities
  PROVE  LeftAndTaken(DealOf[ToSet(s)].remaining[t],
                      TakenBy(DealOf[ToSet(s)], ToSet(s), t), s) = Capacities[t]
  <1> DEFINE Used(S) == LeftAndTaken(DealOf[S].remaining[t], TakenBy(DealOf[S], S, t), s)
             Q == {S \in SUBSET MarketTasks : S \subseteq ToSet(s) => Used(S) = Capacities[t]}
  <1>1. {} \in Q
    <2>1. DealOf[{}].remaining[t] = Capacities[t] /\ TakenBy(DealOf[{}], {}, t) = {}
      BY DealUnfolds DEF FullMarket, TakenBy
    <2>2. Capacities[t] \in Int
      BY MarketAssumption
    <2>3. QED
      BY <2>1, <2>2, NothingTaken
  <1>2. ASSUME NEW S \in SUBSET MarketTasks, S # {}, S \ {LastTask(S)} \in Q
        PROVE  S \in Q
    <2> SUFFICES ASSUME S \subseteq ToSet(s) PROVE Used(S) = Capacities[t]
      OBVIOUS
    <2> DEFINE x == LastTask(S)
               U == S \ {x}
               m == DealOf[U]
               n == DealOf[S]
    <2>1. x \in S /\ U \in SUBSET MarketTasks /\ n = AssignOne(m, x)
      BY <1>2, HandShrinks, DealUnfolds
    <2>2. LeftAndTaken(m.remaining[t], TakenBy(m, U, t), s) = Capacities[t]
      BY <1>2
    <2>3. Fits(m, U)
      BY <2>1, DealFits
    <2> HIDE DEF x, m, n
    <2>4. x \in MarketTasks \ U /\ U \cup {x} = S /\ x \in ToSet(s)
      BY <2>1
    <2>5. x \notin TakenBy(m, U, t)
      BY DEF TakenBy
    <2>6. m.remaining[t] \in Int
      BY <2>3 DEF Fits, IsMarket
    <2>7. \/ TakenBy(n, S, t) = TakenBy(m, U, t) /\ n.remaining[t] = m.remaining[t]
          \/ /\ TakenBy(n, S, t) = TakenBy(m, U, t) \cup {x}
             /\ n.remaining[t] = m.remaining[t] - x.weight
      <3> HIDE DEF U
      <3>1. U \in SUBSET MarketTasks /\ x \in MarketTasks \ U /\ Fits(m, U)
        BY <2>1, <2>3, <2>4
      <3>2. n = AssignOne(m, x) /\ U \cup {x} = S
        BY <2>1, <2>4
      <3>3. TakesOne(m, n, U, x, t)
        BY <3>1, <3>2, OneMoreDealt
      <3>4. QED
        BY <3>2, <3>3 DEF TakesOne
    <2>8. LeftAndTaken(n.remaining[t], TakenBy(n, S, t), s) = Capacities[t]
      <3> HIDE DEF U
      <3>1. QED
        BY <2>2, <2>4, <2>5, <2>6, <2>7, OneMoreTaken
    <2>9. QED
      BY <2>8 DEF n
  <1>3. Q = SUBSET MarketTasks
    <2> HIDE DEF Q
    <2>1. Q \in SUBSET SUBSET MarketTasks
      BY DEF Q
    <2>2. QED
      BY <1>1, <1>2, <2>1, TasksByInduction
  <1>4. ToSet(s) \in SUBSET MarketTasks
    BY DEF ToSet
  <1>5. QED
    BY <1>3, <1>4

-----------------------------------------------------------------------------
\* The tasks that are offered are on a list, none of them twice.
OffersInv == offers \in Seq(MarketTasks) /\ NoRepeats(offers)

\* The list turned round, or without one of its places.
LEMMA OffersReversed ==
  ASSUME NEW s \in Seq(MarketTasks), NoRepeats(s)
  PROVE  /\ Reverse(s) \in Seq(MarketTasks) /\ NoRepeats(Reverse(s))
         /\ ToSet(Reverse(s)) = ToSet(s)
  <1> DEFINE n == Len(s)
             r == [i \in 1..n |-> s[(n - i) + 1]]
  <1>1. n \in Nat /\ DOMAIN s = 1..n /\ \A i \in 1..n : s[i] \in MarketTasks
    OBVIOUS
  <1>2. Reverse(s) = r
    BY DEF Reverse
  <1> HIDE DEF n
  <1>3. \A i \in 1..n : (n - i) + 1 \in 1..n /\ (n - ((n - i) + 1)) + 1 = i
    BY <1>1
  <1>4. r \in [1..n -> MarketTasks]
    BY <1>1, <1>3
  <1>5. r \in Seq(MarketTasks)
    BY <1>1, <1>4
  <1>6. NoRepeats(r)
    <2>1. ASSUME NEW i \in 1..n, NEW j \in 1..n, r[i] = r[j]
          PROVE  i = j
      <3>1. s[(n - i) + 1] = s[(n - j) + 1]
        BY <2>1
      <3>2. (n - i) + 1 = (n - j) + 1
        BY <1>1, <1>3, <3>1 DEF NoRepeats
      <3>3. QED
        BY <1>1, <3>2
    <2>2. QED
      BY <2>1 DEF NoRepeats
  <1>7. ToSet(r) = ToSet(s)
    <2>1. \A i \in 1..n : r[i] \in ToSet(s)
      BY <1>1, <1>3 DEF ToSet
    <2>2. ASSUME NEW i \in 1..n PROVE s[i] \in ToSet(r)
      <3>1. r[(n - i) + 1] = s[i]
        BY <1>3
      <3>2. QED
        BY <1>3, <3>1 DEF ToSet
    <2>3. QED
      BY <1>1, <2>1, <2>2 DEF ToSet
  <1>8. QED
    BY <1>2, <1>5, <1>6, <1>7

\* A list without one of its entries has the others, each once (TaskIsWithdrawn).
LEMMA OfferRemoved ==
  ASSUME NEW s \in Seq(MarketTasks), NoRepeats(s), NEW i \in DOMAIN s
  PROVE  /\ RemoveAt(s, i) \in Seq(MarketTasks) /\ NoRepeats(RemoveAt(s, i))
         /\ ToSet(RemoveAt(s, i)) = ToSet(s) \ {s[i]}
  <1> DEFINE n == Len(s)
             r == RemoveAt(s, i)
             from == [k \in 1..(n - 1) |-> IF k < i THEN k ELSE k + 1]
  <1>1. n \in Nat /\ DOMAIN s = 1..n /\ i \in 1..n /\ \A k \in 1..n : s[k] \in MarketTasks
    OBVIOUS
  <1>2. r \in Seq(MarketTasks) /\ Len(r) = n - 1 /\ \A k \in 1..(n - 1) : r[k] = s[from[k]]
    <2> DEFINE a == SubSeq(s, 1, i - 1)
               b == SubSeq(s, i + 1, n)
    <2>1. a \in Seq(MarketTasks) /\ Len(a) = i - 1 /\ \A k \in 1..(i - 1) : a[k] = s[k]
      BY <1>1, SubSeqProperties
    <2>2. b \in Seq(MarketTasks) /\ Len(b) = n - i /\ \A k \in 1..(n - i) : b[k] = s[i + k]
      BY <1>1, SubSeqProperties
    <2>3. r = a \o b
      BY DEF RemoveAt
    <2> HIDE DEF a, b, r, n
    <2>4. r \in Seq(MarketTasks) /\ Len(r) = n - 1
      <3>1. r \in Seq(MarketTasks) /\ Len(r) = Len(a) + Len(b)
        BY <2>1, <2>2, <2>3, ConcatProperties
      <3>2. QED
        BY <1>1, <2>1, <2>2, <3>1
    <2>5. ASSUME NEW k \in 1..(n - 1) PROVE r[k] = s[from[k]]
      <3>1. r[k] = IF k <= Len(a) THEN a[k] ELSE b[k - Len(a)]
        BY <1>1, <2>1, <2>2, <2>3, <2>4, ConcatProperties
      <3>2. CASE k < i
        BY <1>1, <2>1, <3>1, <3>2
      <3>3. CASE ~(k < i)
        <4>1. k - (i - 1) \in 1..(n - i) /\ i + (k - (i - 1)) = k + 1
          BY <1>1, <3>3
        <4>2. QED
          BY <1>1, <2>1, <2>2, <3>1, <3>3, <4>1
      <3>4. QED
        BY <3>2, <3>3
    <2>6. QED
      BY <2>4, <2>5
  <1> HIDE DEF r, n
  <1>3. DOMAIN r = 1..(n - 1)
    BY <1>2
  <1>4. \A k \in 1..(n - 1) : from[k] \in 1..n /\ from[k] # i
    BY <1>1
  <1>5. \A k, l \in 1..(n - 1) : from[k] = from[l] => k = l
    BY <1>1
  <1>6. ASSUME NEW j \in 1..n, j # i PROVE \E k \in 1..(n - 1) : from[k] = j
    <2>1. CASE j < i
      BY <1>1, <2>1
    <2>2. CASE i < j
      <3>1. j - 1 \in 1..(n - 1) /\ from[j - 1] = j
        BY <1>1, <2>2
      <3>2. QED
        BY <3>1
    <2>3. QED
      BY <1>1, <1>6, <2>1, <2>2
  <1> HIDE DEF from
  <1>7. \A j, k \in 1..n : s[j] = s[k] => j = k
    BY <1>1 DEF NoRepeats
  <1>8. NoRepeats(r)
    BY <1>2, <1>3, <1>4, <1>5, <1>7 DEF NoRepeats
  <1>9. \A k \in 1..(n - 1) : r[k] \in ToSet(s) /\ r[k] # s[i]
    BY <1>1, <1>2, <1>4, <1>7 DEF ToSet
  <1>10. \A j \in 1..n : j # i => s[j] \in ToSet(r)
    BY <1>2, <1>3, <1>6 DEF ToSet
  <1>11. ToSet(r) = ToSet(s) \ {s[i]}
    BY <1>1, <1>3, <1>9, <1>10 DEF ToSet
  <1>12. QED
    BY <1>2, <1>8, <1>11 DEF r

\* No tasks are offered at first.
LEMMA OffersStart ==
  ASSUME CouncilInit
  PROVE  OffersInv
  <1>1. << >> \in Seq(MarketTasks) /\ DOMAIN << >> = {}
    OBVIOUS
  <1>2. QED
    BY <1>1 DEF CouncilInit, OffersInv, NoRepeats

\* A task is offered once at a time; one is withdrawn, whichever it is.
LEMMA OffersStay ==
  ASSUME OffersInv, CouncilNext \/ UNCHANGED councilVars
  PROVE  OffersInv'
  <1>1. CASE offers' = offers
    BY <1>1 DEF OffersInv
  <1>2. CASE TaskIsOffered
    <2>1. PICK x \in Tasks \ ToSet(offers) : WellFormedTask(x) /\ offers' = Append(offers, x)
      BY <1>2 DEF TaskIsOffered
    <2> DEFINE n == Len(offers)
               s == Append(offers, x)
    <2>2. x \in MarketTasks /\ n \in Nat /\ DOMAIN offers = 1..n
          /\ \A i \in 1..n : offers[i] # x
      BY <2>1 DEF MarketTasks, OffersInv, ToSet
    <2>3. /\ s \in Seq(MarketTasks) /\ Len(s) = n + 1 /\ s[n + 1] = x
          /\ \A i \in 1..n : s[i] = offers[i]
      BY <2>2, AppendProperties DEF OffersInv
    <2>4. DOMAIN s = 1..(n + 1)
      BY <2>3
    <2> HIDE DEF s, n
    <2>5. \A i, j \in 1..(n + 1) : s[i] = s[j] => i = j
      <3>1. \A i \in 1..(n + 1) : i \in 1..n \/ i = n + 1
        BY <2>2
      <3>2. \A i, j \in 1..n : offers[i] = offers[j] => i = j
        BY <2>2 DEF OffersInv, NoRepeats
      <3>3. QED
        BY <2>2, <2>3, <3>1, <3>2
    <2>6. NoRepeats(s)
      BY <2>4, <2>5 DEF NoRepeats
    <2>7. QED
      BY <2>1, <2>3, <2>6 DEF OffersInv, s
  <1>3. CASE TaskIsWithdrawn
    BY <1>3, OfferRemoved DEF TaskIsWithdrawn, OffersInv
  <1>4. QED
    BY <1>1, <1>2, <1>3 DEF CouncilNext, councilVars, MemberReports, AuditChanges, EnemyIsSeen, NewsArrives

\* Such a list is dealt fairly.
LEMMA OffersAreDealtFairly ==
  ASSUME OffersInv
  PROVE  MarketIsFair
  <1> DEFINE T == ToSet(offers)
             d == DealOf[T]
             m == Market
             taken(t) == {x \in T : <<x.id, t>> \in m.assigned}
  <1>0. offers \in Seq(MarketTasks) /\ NoRepeats(offers) /\ T \in SUBSET MarketTasks
    BY DEF OffersInv, ToSet
  <1>1. m = Dealt(T)
    BY <1>0, MarketDeals DEF Market
  <1>2. m.assigned = d.assigned /\ m.rejected = d.rejected /\ m.remaining = d.remaining /\ m.ok
    BY <1>1 DEF Dealt
  <1>3. m = AssignTasks(Reverse(offers), Capacities)
    BY <1>0, <1>1, OffersReversed, MarketDeals
  <1>4. Fits(d, T)
    BY <1>0, DealFits
  <1>5. \A y : TenantOf(m, y) = TenantOf(d, y)
    BY <1>2 DEF TenantOf
  <1> HIDE DEF d
  <1>6. ASSUME NEW x \in T
        PROVE  /\ (TenantOf(m, x) = {}) <=> (\E r \in m.rejected : r[1] = x.id)
               /\ TenantOf(m, x) = {} =>
                    \A t \in CandidateTenants(x, DOMAIN Capacities) : m.remaining[t] < x.weight
    BY <1>2, <1>4, <1>5 DEF Fits
  <1>7. ASSUME NEW i \in DOMAIN offers, NEW y \in T, ComesBefore(y, offers[i])
        PROVE  TenantOf(m, y) = TenantOf(AssignTasks(RemoveAt(offers, i), Capacities), y)
    <2>1. AssignTasks(RemoveAt(offers, i), Capacities) = Dealt(T \ {offers[i]})
      BY <1>0, OfferRemoved, MarketDeals
    <2>2. TenantOf(Dealt(T \ {offers[i]}), y) = TenantOf(DealOf[T \ {offers[i]}], y)
      BY DEF TenantOf, Dealt
    <2>3. offers[i] \in T
      BY DEF ToSet
    <2>4. TenantOf(d, y) = TenantOf(DealOf[T \ {offers[i]}], y)
      BY <1>0, <1>7, <2>3, LaterIsIrrelevant DEF d
    <2>5. QED
      BY <1>5, <2>1, <2>2, <2>4
  <1>8. ASSUME NEW t \in DOMAIN Capacities
        PROVE  m.remaining[t] >= 0 /\ LeftAndTaken(m.remaining[t], taken(t), offers) = Capacities[t]
    <2>1. m.remaining[t] >= 0
      BY <1>2, <1>4 DEF Fits, IsMarket
    <2>2. taken(t) = TakenBy(d, T, t)
      BY <1>2 DEF TakenBy
    <2>3. LeftAndTaken(d.remaining[t], TakenBy(d, T, t), offers) = Capacities[t]
      BY <1>0, CapacityIsUsed DEF d
    <2>4. QED
      BY <1>2, <2>1, <2>2, <2>3
  <1>9. \A t \in DOMAIN Capacities :
          LeftAndTaken(m.remaining[t], taken(t), offers)
            = FoldLeft(LAMBDA n, x : n + (IF x \in taken(t) THEN x.weight ELSE 0),
                       m.remaining[t], offers)
    BY DEF LeftAndTaken, FoldLeft, MapThenFoldSet
  <1> HIDE DEF T, m
  <1>10. QED
    BY <1>2, <1>3, <1>6, <1>7, <1>8, <1>9
       DEF MarketIsFair, MarketIsFairAs, LeftAndTaken, FoldLeft, MapThenFoldSet, T, m

\* Whatever is offered and withdrawn in whatever order, assign_tasks
\* (alliance/task_market.py) deals the same tasks the same way, never beyond a
\* member's capacity, turns no task away that a member it may go to has room
\* for, and gives a task to the member it would have without the less urgent
\* ones.
THEOREM TasksStayDealtFairly == AllianceSpec => []TasksAreDealtFairly
  <1>1. AllianceInit => OffersInv
    BY OffersStart DEF AllianceInit
  <1>2. OffersInv /\ [AllianceNext]_allianceVars => OffersInv'
    BY OffersStay DEF AllianceNext, allianceVars
  <1>3. OffersInv => TasksAreDealtFairly
    BY OffersAreDealtFairly DEF TasksAreDealtFairly
  <1>4. QED
    BY <1>1, <1>2, <1>3, PTL DEF AllianceSpec

-----------------------------------------------------------------------------
\* The merged picture (alliance/snapshot.py,
\* command_center/projections/alliance_snapshot.py).  First, that what it is
\* merged from is a list: rows can be put in the order of their ticks, and the
\* members' lists can be joined.
LEMMA NewestFirst ==
  ASSUME NEW S, IsFiniteSet(S), \A r \in S : r.tick \in Nat
  PROVE  \E s \in [1..Cardinality(S) -> S] :
           IsInjective(s) /\ \A i, j \in DOMAIN s : i < j => s[i].tick >= s[j].tick
  <1> DEFINE Ordered(T, n) == \E s \in [1..n -> T] :
               IsInjective(s) /\ \A i, j \in DOMAIN s : i < j => s[i].tick >= s[j].tick
             P == {n \in Nat : \A T \in SUBSET S : Cardinality(T) = n => Ordered(T, n)}
  <1>0. \A T \in SUBSET S : IsFiniteSet(T) /\ Cardinality(T) \in Nat
    BY FS_Subset, FS_CardinalityType
  <1>1. 0 \in P
    <2> SUFFICES ASSUME NEW T \in SUBSET S, Cardinality(T) = 0 PROVE Ordered(T, 0)
      OBVIOUS
    <2> DEFINE s == [i \in 1..0 |-> i]
    <2>1. s \in [1..0 -> T] /\ IsInjective(s) /\ \A i, j \in DOMAIN s : i < j => s[i].tick >= s[j].tick
      BY DEF IsInjective
    <2> HIDE DEF s
    <2>2. QED
      BY <2>1
  <1>2. ASSUME NEW n \in Nat, n \in P PROVE n + 1 \in P
    <2> SUFFICES ASSUME NEW T \in SUBSET S, Cardinality(T) = n + 1 PROVE Ordered(T, n + 1)
      OBVIOUS
    <2>1. T # {}
      BY FS_EmptySet
    <2>2. PICK x \in T : \A y \in T : x.tick <= y.tick
      <3> DEFINE ticks == {y.tick : y \in T}
      <3>1. ticks \subseteq Nat /\ ticks # {}
        BY <2>1
      <3>2. PICK m \in ticks : \A k \in ticks : m <= k
        <4> HIDE DEF ticks
        <4>1. QED
          BY <3>1, LeastOfThem
      <3>3. QED
        BY <3>2
    <2>3. Cardinality(T \ {x}) = n /\ T \ {x} \in SUBSET S
      <3>1. Cardinality(T \ {x}) = Cardinality(T) - 1
        BY <1>0, FS_RemoveElement
      <3>2. QED
        BY <3>1
    <2>4. PICK s \in [1..n -> T \ {x}] :
            IsInjective(s) /\ \A i, j \in DOMAIN s : i < j => s[i].tick >= s[j].tick
      BY <1>2, <2>3
    <2> DEFINE r == [i \in 1..(n + 1) |-> IF i = n + 1 THEN x ELSE s[i]]
    <2>5. \A i \in 1..(n + 1) : i # n + 1 => i \in 1..n
      OBVIOUS
    <2>6. r \in [1..(n + 1) -> T]
      BY <2>4, <2>5
    <2>7. \A i, j \in 1..(n + 1) : r[i] = r[j] => i = j
      <3>1. \A i, j \in 1..n : s[i] = s[j] => i = j
        BY <2>4 DEF IsInjective
      <3>2. \A i \in 1..n : s[i] # x
        BY <2>4
      <3>3. QED
        BY <2>5, <3>1, <3>2
    <2>8. \A i, j \in 1..(n + 1) : i < j => r[i].tick >= r[j].tick
      <3>1. SUFFICES ASSUME NEW i \in 1..(n + 1), NEW j \in 1..(n + 1), i < j
                     PROVE  r[i].tick >= r[j].tick
        OBVIOUS
      <3>2. i \in 1..n /\ r[i] = s[i] /\ s[i] \in T
        BY <2>4, <3>1
      <3>3. CASE j = n + 1
        BY <2>2, <3>2, <3>3
      <3>4. CASE j # n + 1
        BY <2>4, <2>5, <3>1, <3>2, <3>4
      <3>5. QED
        BY <3>3, <3>4
    <2> HIDE DEF r
    <2>9. QED
      BY <2>6, <2>7, <2>8 DEF IsInjective
  <1>3. Nat \subseteq P
    <2> HIDE DEF P
    <2>1. QED
      BY <1>1, <1>2, ByInduction
  <1>4. QED
    BY <1>0, <1>3

\* The remembered cores, newest first (_core_observations_from_survey), are a list.
LEMMA RecencyIsASequence ==
  ASSUME NEW db, IsFiniteSet(DOMAIN db.coreHunts), \A c \in DOMAIN db.coreHunts : db.coreHunts[c].last \in Nat
  PROVE  CoreHuntsByRecency(db) \in
           Seq({[cell |-> c, owner |-> db.coreHunts[c].owner, tick |-> db.coreHunts[c].last] :
                  c \in DOMAIN db.coreHunts})
  <1> DEFINE row(c) == [cell |-> c, owner |-> db.coreHunts[c].owner, tick |-> db.coreHunts[c].last]
             S == {row(c) : c \in DOMAIN db.coreHunts}
             r == CHOOSE s \in [1..Cardinality(S) -> S] :
                    IsInjective(s) /\ \A i, j \in DOMAIN s : i < j => s[i].tick >= s[j].tick
  <1>1. IsFiniteSet(S) /\ Cardinality(S) \in Nat
    <2>1. [c \in DOMAIN db.coreHunts |-> row(c)] \in Surjection(DOMAIN db.coreHunts, S)
      BY DEF Surjection
    <2>2. IsFiniteSet(S)
      <3> HIDE DEF S
      <3>1. QED
        BY <2>1, FS_Surjection
    <2>3. QED
      BY <2>2, FS_CardinalityType
  <1>2. \A s \in S : s.tick \in Nat
    OBVIOUS
  <1>3. CoreHuntsByRecency(db) = r
    BY DEF CoreHuntsByRecency
  <1> HIDE DEF S
  <1>4. r \in [1..Cardinality(S) -> S]
    BY <1>1, <1>2, NewestFirst
  <1> HIDE DEF r
  <1>5. r \in Seq(S)
    BY <1>1, <1>4
  <1>6. QED
    BY <1>3, <1>5 DEF S

Joins(f, seqs, n) == f = [i \in 1..n |-> IF i = 1 THEN seqs[i] ELSE f[i - 1] \o seqs[i]]

\* FlattenSeq joins the lists one after the other: there is such a join for every number
\* of lists (load_alliance_snapshot).
LEMMA JoinExists ==
  ASSUME NEW seqs
  PROVE  \A n \in Nat : \E f : Joins(f, seqs, n)
  <1> DEFINE P == {n \in Nat : \E f : Joins(f, seqs, n)}
  <1>1. 0 \in P
    <2> DEFINE f == [i \in 1..0 |-> seqs[i]]
    <2>1. Joins(f, seqs, 0)
      BY DEF Joins
    <2>2. QED
      BY <2>1
  <1>2. ASSUME NEW n \in Nat, n \in P PROVE n + 1 \in P
    <2>1. PICK f : Joins(f, seqs, n)
      BY <1>2
    <2> DEFINE g == [i \in 1..(n + 1) |-> IF i = n + 1 THEN (IF n = 0 THEN seqs[1] ELSE f[n] \o seqs[n + 1])
                                          ELSE f[i]]
    <2>2. ASSUME NEW i \in 1..(n + 1)
          PROVE  g[i] = IF i = 1 THEN seqs[i] ELSE g[i - 1] \o seqs[i]
      <3>1. CASE i = n + 1 /\ n = 0
        BY <3>1
      <3>2. CASE i = n + 1 /\ n # 0
        <4>1. n \in 1..(n + 1) /\ i - 1 = n /\ n # n + 1
          BY <3>2
        <4>2. g[n] = f[n] /\ g[i] = f[n] \o seqs[n + 1]
          BY <3>2, <4>1
        <4> HIDE DEF g
        <4>3. i # 1 /\ seqs[i] = seqs[n + 1] /\ g[i - 1] = f[n]
          BY <3>2, <4>1, <4>2
        <4>4. QED
          BY <4>2, <4>3
      <3>3. CASE i # n + 1
        <4>1. i \in 1..n /\ g[i] = f[i] /\ (i # 1 => i - 1 \in 1..(n + 1) /\ i - 1 # n + 1)
          BY <3>3
        <4>2. i # 1 => g[i - 1] = f[i - 1]
          BY <4>1
        <4>3. f[i] = IF i = 1 THEN seqs[i] ELSE f[i - 1] \o seqs[i]
          BY <2>1, <4>1 DEF Joins
        <4> HIDE DEF g
        <4>4. QED
          BY <4>1, <4>2, <4>3
      <3>4. QED
        BY <3>1, <3>2, <3>3
    <2>3. g = [i \in 1..(n + 1) |-> g[i]]
      OBVIOUS
    <2> HIDE DEF g
    <2>4. Joins(g, seqs, n + 1)
      BY <2>2, <2>3 DEF Joins
    <2>5. QED
      BY <2>4
  <1>3. QED
    <2> HIDE DEF P
    <2>1. Nat \subseteq P
      BY <1>1, <1>2, ByInduction
    <2>2. QED
      BY <2>1 DEF P

\* And it is a list of what they hold.
LEMMA ListsJoin ==
  ASSUME NEW X, NEW seqs \in Seq(Seq(X))
  PROVE  FlattenSeq(seqs) \in Seq(X)
  <1> DEFINE n == Len(seqs)
             f == CHOOSE g : Joins(g, seqs, n)
  <1>1. n \in Nat /\ \A i \in 1..n : seqs[i] \in Seq(X)
    OBVIOUS
  <1>2. FlattenSeq(seqs) = IF n = 0 THEN seqs ELSE f[n]
    BY DEF FlattenSeq, Joins
  <1>3. CASE n = 0
    <2>1. seqs = << >>
      BY <1>3, EmptySeq
    <2>2. QED
      BY <1>2, <1>3, <2>1
  <1>4. CASE n # 0
    <2> HIDE DEF n
    <2>1. Joins(f, seqs, n)
      BY <1>1, JoinExists
    <2> HIDE DEF f
    <2> DEFINE P == {k \in Nat : k + 1 <= n => f[k + 1] \in Seq(X)}
    <2>2. 0 \in P
      BY <1>1, <1>4, <2>1 DEF Joins
    <2>3. ASSUME NEW k \in Nat, k \in P PROVE k + 1 \in P
      <3> SUFFICES ASSUME (k + 1) + 1 <= n PROVE f[(k + 1) + 1] \in Seq(X)
        OBVIOUS
      <3>1. (k + 1) + 1 \in 1..n /\ k + 1 \in 1..n /\ ((k + 1) + 1) - 1 = k + 1 /\ (k + 1) + 1 # 1
        BY <1>1
      <3>2. f[k + 1] \in Seq(X) /\ seqs[(k + 1) + 1] \in Seq(X)
        BY <1>1, <2>3, <3>1
      <3>3. f[(k + 1) + 1] = f[k + 1] \o seqs[(k + 1) + 1]
        BY <2>1, <3>1 DEF Joins
      <3>4. QED
        BY <3>2, <3>3, ConcatProperties
    <2>4. Nat \subseteq P
      <3> HIDE DEF P
      <3>1. QED
        BY <2>2, <2>3, ByInduction
    <2>5. n - 1 \in Nat /\ (n - 1) + 1 = n
      BY <1>1, <1>4
    <2>6. f[n] \in Seq(X)
      BY <2>4, <2>5
    <2>7. QED
      BY <1>2, <1>4, <2>6
  <1>5. QED
    BY <1>3, <1>4

-----------------------------------------------------------------------------
\* observations_to_sightings merges the observations one by one, in their order:
\* a fold, as the upserts of a report are one.
NoPicture == [ok |-> TRUE, byKey |-> << >>]
MergeStep(acc, o, newest) == IF o.controlled THEN acc ELSE MergeOne(acc, o, newest)
Merges(g, obs, newest, n) ==
  g = [S \in SUBSET (1..n) |->
         IF S = {} THEN NoPicture ELSE MergeStep(g[S \ {Max(S)}], obs[Max(S)], newest)]

\* There is such a fold for every number of observations.
LEMMA MergeExists ==
  ASSUME NEW obs, NEW newest
  PROVE  \A n \in Nat : \E g : Merges(g, obs, newest, n)
  <1> DEFINE P == {n \in Nat : \E g : Merges(g, obs, newest, n)}
  <1>1. 0 \in P
    <2> DEFINE g == [S \in SUBSET (1..0) |-> NoPicture]
    <2>1. Merges(g, obs, newest, 0)
      BY DEF Merges
    <2>2. QED
      BY <2>1
  <1>2. ASSUME NEW n \in Nat, n \in P
        PROVE  n + 1 \in P
    <2>1. PICK g : Merges(g, obs, newest, n)
      BY <1>2
    <2> DEFINE h == [S \in SUBSET (1..n+1) |->
                       IF n + 1 \in S THEN MergeStep(g[S \ {n + 1}], obs[n + 1], newest) ELSE g[S]]
    <2>2. ASSUME NEW S \in SUBSET (1..n+1)
          PROVE  h[S] = IF S = {} THEN NoPicture ELSE MergeStep(h[S \ {Max(S)}], obs[Max(S)], newest)
      <3>1. CASE n + 1 \in S
        <4>1. Max(S) = n + 1
          BY <3>1, LastIsMax
        <4>2. h[S \ {n + 1}] = g[S \ {n + 1}]
          OBVIOUS
        <4>3. h[S] = MergeStep(g[S \ {n + 1}], obs[n + 1], newest)
          BY <3>1
        <4> HIDE DEF h
        <4>4. QED
          BY <3>1, <4>1, <4>2, <4>3
      <3>2. CASE n + 1 \notin S
        <4> DEFINE m == Max(S)
        <4>1. S \in SUBSET (1..n) /\ S \ {m} \in SUBSET (1..n)
          <5>1. \A x \in 1..n+1 : x # n + 1 => x \in 1..n
            OBVIOUS
          <5>2. QED
            BY <3>2, <5>1
        <4>2. h[S] = g[S] /\ h[S \ {m}] = g[S \ {m}]
          BY <3>2
        <4>3. g[S] = IF S = {} THEN NoPicture ELSE MergeStep(g[S \ {m}], obs[m], newest)
          BY <2>1, <4>1 DEF Merges
        <4> HIDE DEF h
        <4>4. QED
          BY <4>2, <4>3
      <3>3. QED
        BY <3>1, <3>2
    <2>3. h = [S \in SUBSET (1..n+1) |-> h[S]]
      OBVIOUS
    <2> HIDE DEF h
    <2>4. Merges(h, obs, newest, n + 1)
      BY <2>2, <2>3 DEF Merges
    <2>5. QED
      BY <2>4
  <1>3. QED
    <2> HIDE DEF P
    <2>1. Nat \subseteq P
      BY <1>1, <1>2, ByInduction
    <2>2. QED
      BY <2>1 DEF P

\* What is made of the observations is reached by merging one after the other.
LEMMA PictureIsMerged ==
  ASSUME NEW newest, NEW X, NEW obs \in Seq(X)
  PROVE  \E h : /\ h[0] = NoPicture
                /\ \A k \in 1..Len(obs) : h[k] = MergeStep(h[k - 1], obs[k], newest)
                /\ ObservationsToSightings(obs, newest) = h[Len(obs)]
  <1> DEFINE n == Len(obs)
             it == CHOOSE g : Merges(g, obs, newest, n)
             h == [k \in 0..n |-> it[1..k]]
  <1>1. n \in Nat /\ DOMAIN obs = 1..n
    OBVIOUS
  <1>2. ObservationsToSightings(obs, newest) = it[1..n]
    <2>1. ObservationsToSightings(obs, newest) =
            (CHOOSE g : g = [S \in SUBSET DOMAIN obs |->
                               IF S = {} THEN NoPicture
                               ELSE IF obs[Max(S)].controlled THEN g[S \ {Max(S)}]
                                    ELSE MergeOne(g[S \ {Max(S)}], obs[Max(S)], newest)])[DOMAIN obs]
      BY DEF ObservationsToSightings, NoPicture, FoldLeft, MapThenFoldSet
    <2> HIDE DEF n
    <2>2. QED
      BY <1>1, <2>1 DEF Merges, MergeStep
  <1> HIDE DEF n
  <1>3. Merges(it, obs, newest, n)
    BY <1>1, MergeExists
  <1> HIDE DEF it
  <1>4. h[0] = NoPicture
    <2>1. 1..0 = {}
      OBVIOUS
    <2>2. QED
      BY <1>1, <1>3, <2>1 DEF Merges
  <1>5. ASSUME NEW k \in 1..n
        PROVE  h[k] = MergeStep(h[k - 1], obs[k], newest)
    <2>1. 1..k \in SUBSET (1..n) /\ 1..k # {} /\ (1..k) \ {k} = 1..(k - 1)
      BY <1>1
    <2>2. Max(1..k) = k
      <3>1. k - 1 \in Nat /\ (k - 1) + 1 = k /\ k \in 1..k
        BY <1>1
      <3>2. QED
        BY <3>1, LastIsMax
    <2>3. h[k] = it[1..k] /\ h[k - 1] = it[1..(k - 1)]
      BY <1>1
    <2>4. it[1..k] = MergeStep(it[(1..k) \ {Max(1..k)}], obs[Max(1..k)], newest)
      BY <1>3, <2>1 DEF Merges
    <2> HIDE DEF h
    <2>5. QED
      BY <2>1, <2>2, <2>3, <2>4
  <1>6. h[n] = it[1..n]
    BY <1>1
  <1> HIDE DEF h
  <1>7. QED
    BY <1>2, <1>4, <1>5, <1>6 DEF n

\* What is true of an entity at a place and a tick: one of the enemies stood there
\* then, the one that is named, or, of a core without a name, one of its owner's.
Stood(kind, id, owner, pos, tick) ==
  \E e \in Enemies :
    /\ tick \in DOMAIN trail[e] /\ trail[e][tick] = pos /\ KindOf[e] = kind
    /\ id # None => id = e
    /\ id = None => kind = "CORE" /\ owner = OwnerOf[e]

\* The observations of what is true, of ticks up to the one of the view.
TrueObservations(newest) ==
  {o \in [tenant : Members, tick : Nat, kind : SightingKinds, id : Enemies \cup {None},
          owner : {OwnerOf[e] : e \in Enemies} \cup {None},
          type : {TypeOf[e] : e \in Enemies} \cup {None}, controlled : {FALSE},
          pos : Places, evidence : {"LIVE", "CALIBRATION"}] :
     o.tick <= newest /\ Stood(o.kind, o.id, o.owner, o.pos, o.tick)}

\* The sightings merged from them: each is of an entity that stood where it says,
\* under the key of that entity.
SightingFields ==
  {"key", "kind", "type", "id", "owner", "pos", "tenant", "first", "last", "visible",
   "confidence", "evidence"}
TrueSighting(k, s, newest) ==
  /\ DOMAIN s = SightingFields
  /\ s.key = k /\ s.last \in Nat /\ s.last <= newest /\ s.confidence \in Int /\ s.visible \in BOOLEAN
  /\ Stood(s.kind, s.id, s.owner, s.pos, s.last)
  /\ s.id # None => k = <<s.kind, s.id>>
  /\ s.id = None => k = <<"CORE", s.owner>> \/ \E p : k = <<"CORE", s.owner, p>>

\* A confidence (_confidence_at) is a number.
LEMMA ConfidenceIsANumber ==
  ASSUME NEW age \in Nat, NEW kind, NEW type
  PROVE  ConfidenceAt(age, TauFor(kind, type)) \in Int
  <1>1. TauFor(kind, type) \in Nat \ {0}
    BY WindowsAssumption DEF TauFor
  <1> DEFINE tau == TauFor(kind, type)
  <1> HIDE DEF tau
  <1>2. (One * tau) \in Int /\ tau + age \in Nat \ {0}
    BY <1>1 DEF tau, One
  <1>3. (One * tau) \div (tau + age) \in Int
    BY <1>2
  <1>4. QED
    BY <1>3 DEF ConfidenceAt, Larger, ConfidenceFloor, tau

\* The key of an owner's core in general and that of one of its cores are
\* different (_merge_key, normalize_sighting).
LEMMA KeysDiffer ==
  ASSUME NEW a, NEW b, NEW c, NEW d, NEW e
  PROVE  <<a, b>> # <<c, d, e>>
  OBVIOUS

\* A true observation makes a true sighting (_fresh_sighting).
LEMMA FreshSightingIsTrue ==
  ASSUME NEW newest \in Nat, NEW o \in TrueObservations(newest), NEW k,
         o.id # None => k = <<o.kind, o.id>>,
         o.id = None => k = <<"CORE", o.owner>> \/ \E p : k = <<"CORE", o.owner, p>>
  PROVE  TrueSighting(k, FreshSighting(k, o, newest), newest)
  <1> DEFINE s == FreshSighting(k, o, newest)
  <1>1. DOMAIN s = SightingFields
    BY DEF FreshSighting, SightingFields
  <1>2. /\ s.key = k /\ s.kind = o.kind /\ s.id = o.id /\ s.owner = o.owner /\ s.pos = o.pos
        /\ s.last = o.tick /\ s.visible = (o.tick = newest) /\ s.confidence = One
    BY DEF FreshSighting
  <1>3. o.tick \in Nat /\ o.tick <= newest /\ Stood(o.kind, o.id, o.owner, o.pos, o.tick)
    BY DEF TrueObservations
  <1> HIDE DEF s
  <1>4. s.confidence \in Int /\ s.visible \in BOOLEAN
    BY <1>2 DEF One
  <1>5. TrueSighting(k, s, newest)
    BY <1>1, <1>2, <1>3, <1>4 DEF TrueSighting
  <1>6. QED
    BY <1>5 DEF s

\* A true sighting moved to what a true observation of the same entity says
\* (_move_sighting) is one.
LEMMA MovedSightingIsTrue ==
  ASSUME NEW newest \in Nat, NEW o \in TrueObservations(newest), NEW k, NEW old, TrueSighting(k, old, newest),
         old.kind = o.kind, old.id = o.id, o.id = None => old.owner = o.owner, NEW evidence
  PROVE  TrueSighting(k, MoveSighting(old, o, newest, old.key, evidence), newest)
  <1> DEFINE s == MoveSighting(old, o, newest, old.key, evidence)
  <1>1. DOMAIN old = SightingFields /\ old.key = k
    BY DEF TrueSighting
  <1>2. DOMAIN s = SightingFields
    BY <1>1 DEF MoveSighting
  <1>3. /\ s.key = k /\ s.kind = old.kind /\ s.id = old.id /\ s.owner = old.owner /\ s.pos = o.pos
        /\ s.last = o.tick /\ s.visible = (o.tick = newest) /\ s.confidence = MergedConfidence(old, o, newest)
    BY <1>1 DEF MoveSighting, SightingFields
  <1>4. o.tick \in Nat /\ o.tick <= newest /\ Stood(o.kind, o.id, o.owner, o.pos, o.tick)
    BY DEF TrueObservations
  <1>5. MergedConfidence(old, o, newest) \in Int
    <2>1. Larger(0, newest - o.tick) \in Nat
      BY <1>4 DEF Larger
    <2>2. QED
      BY <2>1, ConfidenceIsANumber DEF MergedConfidence, One
  <1> HIDE DEF s
  <1>6. Stood(s.kind, s.id, s.owner, s.pos, s.last)
    BY <1>3, <1>4 DEF Stood
  <1>7. TrueSighting(k, s, newest)
    BY <1>2, <1>3, <1>4, <1>5, <1>6 DEF TrueSighting
  <1>8. QED
    BY <1>7 DEF s

\* So does one more observation merged into a true picture: an observation under a
\* key that is known is of the entity the sighting there is of, because a name is
\* no owner's and a core's owner is never missing; one of an owner's core too far
\* from the other opens a key of its own (normalize_sighting).
PictureIsTrue(acc, newest) == \A k \in DOMAIN acc.byKey : TrueSighting(k, acc.byKey[k], newest)

\* One step of merge_sightings keeps the picture true.
LEMMA MergeKeepsPictureTrue ==
  ASSUME NEW newest \in Nat, NEW o \in TrueObservations(newest), NEW acc, PictureIsTrue(acc, newest)
  PROVE  PictureIsTrue(MergeStep(acc, o, newest), newest)
  <1> DEFINE k == MergeKey(o)
             merged == IF k \in DOMAIN acc.byKey THEN NormalizeSighting(o, acc.byKey[k], newest)
                       ELSE FreshSighting(k, o, newest)
  <1>1. /\ o.controlled = FALSE /\ o.id \in Enemies \cup {None} /\ None \notin Enemies
        /\ o.kind \in SightingKinds
    BY EnemiesAssumption DEF TrueObservations
  <1>2. o.id = None => o.kind = "CORE" /\ o.owner \notin Enemies \cup {None}
    BY EnemiesAssumption DEF TrueObservations, Stood
  <1>3. k = IF o.id # None THEN <<o.kind, o.id>> ELSE <<"CORE", o.owner>>
    BY <1>2 DEF MergeKey
  <1>4. TrueSighting(k, FreshSighting(k, o, newest), newest)
    BY <1>3, FreshSightingIsTrue
  <1>5. \E key : TrueSighting(key, merged, newest)
    <2>1. CASE k \notin DOMAIN acc.byKey
      BY <1>4, <2>1
    <2>2. CASE k \in DOMAIN acc.byKey
      <3> DEFINE old == acc.byKey[k]
      <3>1. TrueSighting(k, old, newest)
        BY <2>2 DEF PictureIsTrue
      <3>2. merged = NormalizeSighting(o, old, newest)
        BY <2>2
      <3> HIDE DEF old, merged, k
      <3>3. old.kind = o.kind /\ old.id = o.id /\ (o.id = None => old.owner = o.owner)
        <4>1. /\ old.id # None => k = <<old.kind, old.id>> /\ old.id \in Enemies
              /\ old.id = None => /\ old.kind = "CORE" /\ old.owner \notin Enemies
                                  /\ k = <<"CORE", old.owner>> \/ \E p : k = <<"CORE", old.owner, p>>
          BY <3>1, EnemiesAssumption DEF TrueSighting, Stood
        <4>2. old.id = None => k = <<"CORE", old.owner>>
          <5>1. \A p : k # <<"CORE", old.owner, p>>
            BY <1>3, KeysDiffer
          <5>2. QED
            BY <4>1, <5>1
        <4>3. QED
          BY <1>1, <1>2, <1>3, <4>1, <4>2
      <3>4. CASE SameNamelessCore(old, o) /\ Manhattan(old.pos, o.pos) > CoreSpatialGate
        <4>1. o.id = None
          BY <3>4 DEF SameNamelessCore
        <4>2. TrueSighting(<<"CORE", o.owner, o.pos>>, FreshSighting(<<"CORE", o.owner, o.pos>>, o, newest), newest)
          BY <4>1, FreshSightingIsTrue
        <4>3. merged = FreshSighting(<<"CORE", o.owner, o.pos>>, o, newest)
          BY <3>2, <3>4 DEF NormalizeSighting
        <4>4. QED
          BY <4>2, <4>3
      <3>5. CASE ~(SameNamelessCore(old, o) /\ Manhattan(old.pos, o.pos) > CoreSpatialGate)
        <4> DEFINE evidence == IF o.evidence = "LEADERBOARD" /\ old.evidence # "LEADERBOARD"
                               THEN old.evidence ELSE o.evidence
        <4>1. merged = MoveSighting(old, o, newest, old.key, evidence)
          BY <3>2, <3>5 DEF NormalizeSighting
        <4> HIDE DEF evidence
        <4>2. TrueSighting(k, MoveSighting(old, o, newest, old.key, evidence), newest)
          BY <3>1, <3>3, MovedSightingIsTrue
        <4>3. QED
          BY <4>1, <4>2
      <3>6. QED
        BY <3>4, <3>5
    <2>3. QED
      BY <2>1, <2>2
  <1>6. MergeStep(acc, o, newest) = IF ~acc.ok THEN acc
          ELSE [ok |-> Constructible(merged), byKey |-> PutRow(acc.byKey, merged.key, merged)]
    BY <1>1 DEF MergeStep, MergeOne
  <1> HIDE DEF merged, k
  <1>7. TrueSighting(merged.key, merged, newest)
    BY <1>5 DEF TrueSighting
  <1>8. PictureIsTrue([ok |-> Constructible(merged), byKey |-> PutRow(acc.byKey, merged.key, merged)], newest)
    BY <1>7 DEF PictureIsTrue, PutRow
  <1>9. QED
    BY <1>6, <1>8

\* What is merged from true observations is true.
LEMMA MergedPictureIsTrue ==
  ASSUME NEW newest \in Nat, NEW obs \in Seq(TrueObservations(newest))
  PROVE  PictureIsTrue(ObservationsToSightings(obs, newest), newest)
  <1>1. PICK h : /\ h[0] = NoPicture
                 /\ \A k \in 1..Len(obs) : h[k] = MergeStep(h[k - 1], obs[k], newest)
                 /\ ObservationsToSightings(obs, newest) = h[Len(obs)]
    BY PictureIsMerged
  <1> DEFINE P == {k \in Nat : k <= Len(obs) => PictureIsTrue(h[k], newest)}
  <1>2. 0 \in P
    <2>1. DOMAIN NoPicture.byKey = {}
      BY DEF NoPicture
    <2>2. QED
      BY <1>1, <2>1 DEF PictureIsTrue
  <1>3. ASSUME NEW k \in Nat, k \in P PROVE k + 1 \in P
    <2> SUFFICES ASSUME k + 1 <= Len(obs) PROVE PictureIsTrue(h[k + 1], newest)
      OBVIOUS
    <2>1. k + 1 \in 1..Len(obs) /\ (k + 1) - 1 = k /\ PictureIsTrue(h[k], newest)
      BY <1>3
    <2>2. h[k + 1] = MergeStep(h[k], obs[k + 1], newest) /\ obs[k + 1] \in TrueObservations(newest)
      BY <1>1, <2>1
    <2>3. QED
      BY <2>1, <2>2, MergeKeepsPictureTrue
  <1>4. Nat \subseteq P
    <2> HIDE DEF P
    <2>1. QED
      BY <1>2, <1>3, ByInduction
  <1>5. QED
    BY <1>1, <1>4

-----------------------------------------------------------------------------
\* What the members' cases, the reports on their way and the databases hold is
\* true.  The rows of the remembered cores first: each has the owner of a core
\* that can stand there.
TrueRows(rows) ==
  /\ IsFiniteSet(DOMAIN rows)
  /\ \A c \in DOMAIN rows : \E e \in Enemies :
       KindOf[e] = "CORE" /\ c \in PlacesOf[e] /\ rows[c].owner = OwnerOf[e]

\* A report (_apply_mapping_upserts) keeps them so.
LEMMA ReportKeepsRowsTrue ==
  ASSUME NEW rows, TrueRows(rows), NEW X, NEW cores \in Seq(X), NEW tick,
         \A i \in DOMAIN cores : \E e \in Enemies :
           KindOf[e] = "CORE" /\ cores[i].cell \in PlacesOf[e] /\ cores[i].owner = OwnerOf[e]
  PROVE  TrueRows(HuntsAfter(rows, cores, tick))
  <1>1. PICK h : /\ h[0] = rows
                 /\ \A k \in 1..Len(cores) : h[k] = CoreHuntUpsert(h[k - 1], cores[k], tick)
                 /\ HuntsAfter(rows, cores, tick) = h[Len(cores)]
    BY HuntsFolded
  <1> DEFINE P == {k \in Nat : k <= Len(cores) => TrueRows(h[k])}
  <1>2. 0 \in P
    BY <1>1
  <1>3. ASSUME NEW k \in Nat, k \in P PROVE k + 1 \in P
    <2> SUFFICES ASSUME k + 1 <= Len(cores) PROVE TrueRows(h[k + 1])
      OBVIOUS
    <2> DEFINE old == h[k]
               core == cores[k + 1]
    <2>1. k + 1 \in 1..Len(cores) /\ (k + 1) - 1 = k /\ TrueRows(old) /\ k + 1 \in DOMAIN cores
      BY <1>3
    <2>2. h[k + 1] = CoreHuntUpsert(old, core, tick)
      BY <1>1, <2>1
    <2>3. PICK e \in Enemies : KindOf[e] = "CORE" /\ core.cell \in PlacesOf[e] /\ core.owner = OwnerOf[e]
      BY <2>1
    <2> HIDE DEF old, core
    <2>4. /\ DOMAIN h[k + 1] = DOMAIN old \cup {core.cell}
          /\ \A c \in DOMAIN old : c # core.cell => h[k + 1][c] = old[c]
      BY <2>2 DEF CoreHuntUpsert, PutRow
    <2>5. h[k + 1][core.cell].owner = core.owner
      <3>1. core.owner # None
        BY <2>3, EnemiesAssumption
      <3>2. QED
        BY <2>2, <3>1 DEF CoreHuntUpsert, PutRow, Coalesce
    <2>6. IsFiniteSet(DOMAIN h[k + 1])
      <3>1. IsFiniteSet(DOMAIN old)
        BY <2>1 DEF TrueRows
      <3>2. IsFiniteSet(DOMAIN old \cup {core.cell})
        BY <3>1, FS_AddElement
      <3>3. QED
        BY <2>4, <3>2
    <2>7. QED
      BY <2>1, <2>3, <2>4, <2>5, <2>6 DEF TrueRows
  <1>4. Nat \subseteq P
    <2> HIDE DEF P
    <2>1. QED
      BY <1>2, <1>3, ByInduction
  <1>5. QED
    BY <1>1, <1>4

\* A report of a member names the owners of the cores that stood in its cells at
\* its tick, and its newest case is of that tick or a later one.
TrueReport(r, w, newest, past) ==
  /\ r.tick \in 1..newest /\ w # None /\ r.tick <= w.tick
  /\ \A i \in DOMAIN r.enemyCores : \E e \in Enemies :
       /\ KindOf[e] = "CORE" /\ r.enemyCores[i].cell = past[e][r.tick]
       /\ r.enemyCores[i].owner = OwnerOf[e]

\* A case has the enemies that were seen where they stood at its tick.
TrueCase(w, newest, past) ==
  /\ w \in Cases /\ w.tick \in 1..newest /\ IsFiniteSet(w.objects)
  /\ \A o \in w.objects : ~o.controlled =>
       \E e \in Enemies : /\ o.kind = KindOf[e] /\ o.type = TypeOf[e] /\ o.id = e
                          /\ o.owner = OwnerOf[e] /\ o.pos = past[e][w.tick]

PictureInv ==
  /\ SurveyInv
  /\ \A e \in Enemies : \A n \in 1..clock : trail[e][n] \in PlacesOf[e]
  /\ DOMAIN worlds = Members
  /\ \A t \in Members :
       /\ worlds[t] # None => TrueCase(worlds[t], clock, trail)
       /\ \A r \in applied[t] : TrueReport(r, worlds[t], clock, trail)
       /\ \A i \in DOMAIN outbox[t] : TrueReport(outbox[t][i], worlds[t], clock, trail)
       /\ TrueRows(survey[t].coreHunts)

\* What was true of the past stays so (Advance appends to the trail, Record puts a
\* newer case in place of an older).
Later ==
  /\ clock' \in Nat /\ clock <= clock'
  /\ \A e \in Enemies : \A n \in 1..clock : trail'[e][n] = trail[e][n]
  /\ \A t \in Members : worlds[t] # None =>
       worlds'[t] # None /\ worlds'[t].tick \in Nat /\ worlds[t].tick <= worlds'[t].tick

\* A true report stays true when the game goes on and newer cases are written.
LEMMA TrueReportsStay ==
  ASSUME PictureInv, Later, NEW t \in Members, NEW r, TrueReport(r, worlds[t], clock, trail)
  PROVE  TrueReport(r, worlds'[t], clock', trail')
  <1>1. worlds[t].tick \in Nat /\ clock \in Nat
    BY DEF PictureInv, TrueCase, TrueReport, SurveyInv, SurveyTypeOK
  <1>2. r.tick \in 1..clock /\ r.tick \in 1..clock'
    BY <1>1 DEF TrueReport, Later
  <1>3. worlds'[t] # None /\ r.tick <= worlds'[t].tick
    BY <1>1, <1>2 DEF TrueReport, Later
  <1>4. ASSUME NEW i \in DOMAIN r.enemyCores
        PROVE  \E e \in Enemies : /\ KindOf[e] = "CORE" /\ r.enemyCores[i].cell = trail'[e][r.tick]
                                  /\ r.enemyCores[i].owner = OwnerOf[e]
    BY <1>2, <1>4 DEF TrueReport, Later
  <1>5. QED
    BY <1>2, <1>3, <1>4 DEF TrueReport

\* So does a true case.
LEMMA TrueCasesStay ==
  ASSUME PictureInv, Later, NEW w, TrueCase(w, clock, trail)
  PROVE  TrueCase(w, clock', trail')
  <1>1. clock \in Nat /\ w.tick \in 1..clock /\ w.tick \in 1..clock'
    BY DEF PictureInv, TrueCase, SurveyInv, SurveyTypeOK, Later
  <1>2. \A e \in Enemies : trail'[e][w.tick] = trail[e][w.tick]
    BY <1>1 DEF Later
  <1>3. QED
    BY <1>1, <1>2 DEF TrueCase

\* A case (WorldObjects) has the enemies where they stand.
LEMMA NewCaseIsTrue ==
  ASSUME PictureInv, NEW t \in Members
  PROVE  TrueCase([tick |-> clock, active |-> TRUE, resources |-> Stock[t],
                   objects |-> WorldObjects(t, InSight(t))], clock, trail)
  <1> DEFINE seen == InSight(t)
             own == [kind |-> "CORE", type |-> None, id |-> t, owner |-> t, pos |-> Homes[t],
                     controlled |-> TRUE]
             object(e) == [kind |-> KindOf[e], type |-> TypeOf[e], id |-> e, owner |-> OwnerOf[e],
                           pos |-> trail[e][clock], controlled |-> FALSE]
             w == [tick |-> clock, active |-> TRUE, resources |-> Stock[t],
                   objects |-> WorldObjects(t, seen)]
  <1>1. w.objects = {own} \cup {object(e) : e \in seen}
    BY DEF WorldObjects
  <1>2. clock \in Nat /\ clock \in 1..clock
    BY DEF PictureInv, SurveyInv, SurveyTypeOK
  <1>3. seen \subseteq Enemies /\ IsFiniteSet(seen)
    BY EnemiesAssumption, FS_Subset DEF InSight
  <1>4. own \in CaseObjects
    BY DEF CaseObjects, SightingKinds
  <1>5. ASSUME NEW e \in seen PROVE object(e) \in CaseObjects
    <2>1. trail[e][clock] \in EnemyPlaces
      BY <1>2, <1>3 DEF PictureInv, EnemyPlaces
    <2>2. KindOf[e] \in SightingKinds /\ TypeOf[e] \in UnitTypes \cup {None}
      BY <1>3, EnemiesAssumption
    <2>3. QED
      BY <1>3, <2>1, <2>2 DEF CaseObjects
  <1>6. IsFiniteSet(w.objects)
    <2>1. [e \in seen |-> object(e)] \in Surjection(seen, {object(e) : e \in seen})
      BY DEF Surjection
    <2> DEFINE T == {object(e) : e \in seen}
    <2>2. IsFiniteSet(T)
      <3> HIDE DEF T, seen
      <3>1. QED
        BY <1>3, <2>1, FS_Surjection DEF T
    <2>3. IsFiniteSet(T \cup {own})
      <3> HIDE DEF T
      <3>1. QED
        BY <2>2, FS_AddElement
    <2>4. w.objects = T \cup {own}
      BY <1>1
    <2>5. QED
      BY <2>3, <2>4
  <1>7. w.tick = clock /\ w \in Cases
    <2>1. w.objects \subseteq CaseObjects
      BY <1>1, <1>4, <1>5
    <2>2. QED
      BY <1>2, <2>1 DEF Cases
  <1>8. \A o \in w.objects : ~o.controlled =>
          \E e \in Enemies : /\ o.kind = KindOf[e] /\ o.type = TypeOf[e] /\ o.id = e
                             /\ o.owner = OwnerOf[e] /\ o.pos = trail[e][clock]
    BY <1>1, <1>3
  <1> HIDE DEF w
  <1>9. TrueCase(w, clock, trail)
    BY <1>2, <1>6, <1>7, <1>8 DEF TrueCase
  <1>10. QED
    BY <1>9 DEF w

\* And the summary names the cores it saw.
LEMMA SeenCoresAreTrue ==
  ASSUME PictureInv, NEW t \in Members, NEW i \in DOMAIN SeenCores(InSight(t))
  PROVE  \E e \in Enemies : /\ KindOf[e] = "CORE" /\ SeenCores(InSight(t))[i].cell = trail[e][clock]
                            /\ SeenCores(InSight(t))[i].owner = OwnerOf[e]
  <1> DEFINE X == {x \in InSight(t) : KindOf[x] = "CORE"}
             T == {[cell |-> trail[e][clock], owner |-> OwnerOf[e]] : e \in X}
  <1>1. X \subseteq Enemies /\ IsFiniteSet(X)
    BY EnemiesAssumption, FS_Subset DEF InSight
  <1>2. IsFiniteSet(T)
    <2>1. [e \in X |-> [cell |-> trail[e][clock], owner |-> OwnerOf[e]]] \in Surjection(X, T)
      BY DEF Surjection
    <2> HIDE DEF X, T
    <2>2. QED
      BY <1>1, <2>1, FS_Surjection
  <1>3. SeenCores(InSight(t)) = SetToSeq(T)
    BY DEF SeenCores
  <1>4. SeenCores(InSight(t)) \in Seq(T)
    <2> HIDE DEF T
    <2>1. QED
      BY <1>2, <1>3, SequenceOfSet
  <1>5. SeenCores(InSight(t))[i] \in T
    <2> HIDE DEF T
    <2>1. QED
      BY <1>4
  <1>6. QED
    BY <1>1, <1>5

\* One database takes over a true report.
LEMMA TakenOverStaysTrue ==
  ASSUME PictureInv, NEW t \in Members, NEW e \in AgentReports, TrueReport(e, worlds[t], clock, trail),
         survey' = [survey EXCEPT ![t] = ApplyAgentEvent(@, e)]
  PROVE  \A s \in Members : TrueRows(survey'[s].coreHunts)
  <1>1. /\ DOMAIN survey = Members /\ DOMAIN survey[t] = DOMAIN SurveyDbSchema
        /\ \A s \in Members : TrueRows(survey[s].coreHunts)
    BY DEF PictureInv, SurveyInv, SurveyTypeOK
  <1>2. survey'[t] = ApplyAgentEvent(survey[t], e) /\ \A s \in Members : s # t => survey'[s] = survey[s]
    BY <1>1
  <1>3. survey'[t].coreHunts = HuntsAfter(survey[t].coreHunts, e.enemyCores, e.tick)
    BY <1>1, <1>2, EventFoldsHunts
  <1>4. \A i \in DOMAIN e.enemyCores : \E x \in Enemies :
          KindOf[x] = "CORE" /\ e.enemyCores[i].cell \in PlacesOf[x] /\ e.enemyCores[i].owner = OwnerOf[x]
    BY DEF TrueReport, PictureInv
  <1>5. e.enemyCores \in Seq(CoreRows)
    BY DEF AgentReports
  <1>6. TrueRows(HuntsAfter(survey[t].coreHunts, e.enemyCores, e.tick))
    BY <1>1, <1>4, <1>5, ReportKeepsRowsTrue
  <1>7. QED
    BY <1>1, <1>2, <1>3, <1>6

\* What is true before a step of the members and the ingest is true after it: the
\* reports lost, applied again and applied in half are true ones.
LEMMA PictureStays ==
  ASSUME PictureInv, Next \/ UNCHANGED vars
  PROVE  PictureInv'
  <1>1. /\ SurveyTypeOK /\ SurveyInv
        /\ \A t \in Members : outbox[t] \in Seq(AgentReports) /\ applied[t] \subseteq AgentReports
    BY DEF PictureInv, SurveyInv, SurveyTypeOK
  <1>2. SurveyInv'
    BY <1>1, SurveyStays
  <1>3. clock \in Nat /\ \A t \in Members : worlds[t] # None => worlds[t].tick \in Nat /\ worlds[t].tick <= clock
    BY <1>1 DEF PictureInv, TrueCase, SurveyTypeOK
  <1>4. ASSUME worlds' = worlds, clock' = clock, trail' = trail
        PROVE  Later
    BY <1>3, <1>4 DEF Later
  <1>5. ASSUME Later, worlds' = worlds, survey' = survey, applied' = applied, outbox' = outbox,
               \A e \in Enemies : \A n \in 1..clock' : trail'[e][n] \in PlacesOf[e]
        PROVE  PictureInv'
    <2>1. ASSUME NEW t \in Members
          PROVE  /\ worlds'[t] # None => TrueCase(worlds'[t], clock', trail')
                 /\ \A r \in applied'[t] : TrueReport(r, worlds'[t], clock', trail')
                 /\ \A i \in DOMAIN outbox'[t] : TrueReport(outbox'[t][i], worlds'[t], clock', trail')
                 /\ TrueRows(survey'[t].coreHunts)
      BY <1>5, TrueCasesStay, TrueReportsStay DEF PictureInv
    <2>2. QED
      BY <1>2, <1>5, <2>1 DEF PictureInv
  <1>6. CASE UNCHANGED vars
    <2>1. \A e \in Enemies : \A n \in 1..clock' : trail'[e][n] \in PlacesOf[e]
      BY <1>6 DEF vars, PictureInv
    <2>2. QED
      BY <1>4, <1>5, <1>6, <2>1 DEF vars
  <1>7. CASE Advance
    <2>1. PICK move \in [Enemies -> EnemyPlaces] :
            /\ \A e \in Enemies : move[e] \in PlacesOf[e]
            /\ trail' = [e \in Enemies |-> Append(trail[e], move[e])]
      BY <1>7 DEF Advance
    <2>2. clock' = clock + 1
      BY <1>7 DEF Advance
    <2>3. ASSUME NEW e \in Enemies
          PROVE  /\ \A n \in 1..clock : trail'[e][n] = trail[e][n]
                 /\ \A n \in 1..clock' : trail'[e][n] \in PlacesOf[e]
      <3>1. trail[e] \in Seq(Places) /\ Len(trail[e]) = clock /\ move[e] \in Places
        BY <1>1, <2>1 DEF SurveyTypeOK, Places
      <3>2. trail'[e] = Append(trail[e], move[e])
        BY <2>1
      <3>3. \A n \in 1..clock : trail'[e][n] = trail[e][n]
        BY <3>1, <3>2, AppendProperties
      <3>4. trail'[e][clock + 1] = move[e]
        BY <3>1, <3>2, AppendProperties
      <3>5. ASSUME NEW n \in 1..clock' PROVE trail'[e][n] \in PlacesOf[e]
        <4>1. n \in 1..clock \/ n = clock + 1
          BY <1>3, <2>2
        <4>2. QED
          BY <2>1, <3>3, <3>4, <4>1 DEF PictureInv
      <3>6. QED
        BY <3>3, <3>5
    <2>4. Later
      <3>1. clock' \in Nat /\ clock <= clock' /\ worlds' = worlds
        BY <1>3, <1>7, <2>2 DEF Advance
      <3>2. \A t \in Members : worlds[t] # None =>
              worlds'[t] # None /\ worlds'[t].tick \in Nat /\ worlds[t].tick <= worlds'[t].tick
        BY <1>3, <3>1
      <3>3. QED
        BY <2>3, <3>1, <3>2 DEF Later
    <2>5. QED
      BY <1>5, <1>7, <2>3, <2>4 DEF Advance
  <1>8. ASSUME worlds' = worlds, clock' = clock, trail' = trail,
               \A t \in Members :
                 /\ \A r \in applied'[t] : TrueReport(r, worlds[t], clock, trail)
                 /\ \A i \in DOMAIN outbox'[t] : TrueReport(outbox'[t][i], worlds[t], clock, trail)
                 /\ TrueRows(survey'[t].coreHunts)
        PROVE  PictureInv'
    <2>1. Later
      BY <1>4, <1>8
    <2>2. ASSUME NEW t \in Members
          PROVE  /\ worlds'[t] # None => TrueCase(worlds'[t], clock', trail')
                 /\ \A r \in applied'[t] : TrueReport(r, worlds'[t], clock', trail')
                 /\ \A i \in DOMAIN outbox'[t] : TrueReport(outbox'[t][i], worlds'[t], clock', trail')
                 /\ TrueRows(survey'[t].coreHunts)
      BY <1>8, <2>1, TrueCasesStay, TrueReportsStay DEF PictureInv
    <2>3. QED
      BY <1>2, <1>8, <2>2 DEF PictureInv
  <1>9. ASSUME NEW t \in Members, outbox[t] # << >>
        PROVE  /\ Head(outbox[t]) \in AgentReports /\ TrueReport(Head(outbox[t]), worlds[t], clock, trail)
               /\ \A i \in DOMAIN Tail(outbox[t]) : TrueReport(Tail(outbox[t])[i], worlds[t], clock, trail)
    <2>1. outbox[t] \in Seq(AgentReports) /\ Len(outbox[t]) \in Nat \ {0}
      BY <1>1, <1>9, EmptySeq
    <2>2. Head(outbox[t]) = outbox[t][1] /\ 1 \in DOMAIN outbox[t] /\ Head(outbox[t]) \in AgentReports
      BY <2>1
    <2>3. \A i \in DOMAIN Tail(outbox[t]) : i + 1 \in DOMAIN outbox[t] /\ Tail(outbox[t])[i] = outbox[t][i + 1]
      BY <1>9, <2>1, HeadTailProperties
    <2>4. QED
      BY <2>2, <2>3 DEF PictureInv
  <1>10. ASSUME NEW t \in Members, Record(t)
         PROVE  PictureInv'
    <2> DEFINE w == [tick |-> clock, active |-> TRUE, resources |-> Stock[t],
                     objects |-> WorldObjects(t, InSight(t))]
               r == TickSummary(t, InSight(t))
    <2>1. /\ worlds' = [worlds EXCEPT ![t] = w] /\ outbox' = [outbox EXCEPT ![t] = Append(@, r)]
          /\ UNCHANGED <<clock, trail, survey, applied>>
      BY <1>10 DEF Record
    <2>2. TrueCase(w, clock, trail) /\ w.tick = clock
      BY NewCaseIsTrue
    <2>3. r \in AgentReports /\ r.tick = clock /\ r.enemyCores = SeenCores(InSight(t))
      BY <1>1, SummaryIsReport DEF TickSummary
    <2> HIDE DEF w, r
    <2>4. w # None
      BY <2>2, NoneIsNoCase DEF TrueCase
    <2>5. worlds'[t] = w /\ DOMAIN worlds' = Members /\ \A s \in Members : s # t => worlds'[s] = worlds[s]
      BY <2>1 DEF PictureInv
    <2>6. Later
      BY <1>3, <2>1, <2>2, <2>4, <2>5 DEF Later
    <2>7. TrueCase(w, clock', trail')
      BY <2>2, <2>6, TrueCasesStay
    <2>8. TrueReport(r, worlds'[t], clock', trail')
      <3>1. \A i \in DOMAIN r.enemyCores : \E e \in Enemies :
              /\ KindOf[e] = "CORE" /\ r.enemyCores[i].cell = trail[e][clock]
              /\ r.enemyCores[i].owner = OwnerOf[e]
        BY <2>3, SeenCoresAreTrue
      <3>2. clock \in 1..clock
        BY <1>1 DEF SurveyTypeOK
      <3>3. QED
        BY <2>1, <2>2, <2>3, <2>4, <2>5, <3>1, <3>2 DEF TrueReport
    <2>9. ASSUME NEW s \in Members
          PROVE  /\ worlds'[s] # None => TrueCase(worlds'[s], clock', trail')
                 /\ \A x \in applied'[s] : TrueReport(x, worlds'[s], clock', trail')
                 /\ TrueRows(survey'[s].coreHunts)
      <3>1. worlds'[s] # None => TrueCase(worlds'[s], clock', trail')
        BY <2>5, <2>6, <2>7, TrueCasesStay DEF PictureInv
      <3>2. QED
        BY <2>1, <2>6, <3>1, TrueReportsStay DEF PictureInv
    <2>10. ASSUME NEW s \in Members, NEW i \in DOMAIN outbox'[s]
           PROVE  TrueReport(outbox'[s][i], worlds'[s], clock', trail')
      <3>1. CASE s # t
        <4>1. outbox'[s] = outbox[s]
          BY <2>1, <3>1
        <4>2. QED
          BY <2>6, <2>10, <4>1, TrueReportsStay DEF PictureInv
      <3>2. CASE s = t
        <4>1. outbox'[t] = Append(outbox[t], r) /\ outbox[t] \in Seq(AgentReports)
          BY <1>1, <2>1 DEF SurveyTypeOK
        <4>2. \/ i \in DOMAIN outbox[t] /\ outbox'[t][i] = outbox[t][i]
              \/ outbox'[t][i] = r
          BY <2>3, <2>10, <3>2, <4>1, AppendProperties
        <4>3. QED
          BY <2>6, <2>8, <3>2, <4>2, TrueReportsStay DEF PictureInv
      <3>3. QED
        BY <3>1, <3>2
    <2>11. QED
      BY <1>2, <2>1, <2>5, <2>9, <2>10 DEF PictureInv
  <1>11. ASSUME NEW t \in Members, Ingest(t)
         PROVE  PictureInv'
    <2>1. outbox[t] # << >> /\ UNCHANGED <<clock, trail, worlds>>
      BY <1>11 DEF Ingest
    <2>2. \A s \in Members : TrueRows(survey'[s].coreHunts)
      BY <1>9, <1>11, TakenOverStaysTrue DEF Ingest
    <2>3. ASSUME NEW s \in Members
          PROVE  /\ \A r \in applied'[s] : TrueReport(r, worlds[s], clock, trail)
                 /\ \A i \in DOMAIN outbox'[s] : TrueReport(outbox'[s][i], worlds[s], clock, trail)
      BY <1>1, <1>9, <1>11, <2>1 DEF Ingest, PictureInv, SurveyTypeOK
    <2>4. QED
      BY <1>8, <2>1, <2>2, <2>3
  <1>12. ASSUME NEW t \in Members, IngestAgain(t)
         PROVE  PictureInv'
    <2>1. PICK e \in applied[t] : survey' = [survey EXCEPT ![t] = ApplyAgentEvent(@, e)]
      BY <1>12 DEF IngestAgain
    <2>2. UNCHANGED <<clock, trail, worlds, outbox, applied>>
      BY <1>12 DEF IngestAgain
    <2>3. e \in AgentReports /\ TrueReport(e, worlds[t], clock, trail)
      BY <1>1 DEF PictureInv
    <2>4. \A s \in Members : TrueRows(survey'[s].coreHunts)
      BY <2>1, <2>3, TakenOverStaysTrue
    <2>5. QED
      BY <1>8, <2>2, <2>4 DEF PictureInv
  <1>13. ASSUME NEW t \in Members, IngestHalf(t)
         PROVE  PictureInv'
    <2>1. DOMAIN survey = Members /\ DOMAIN survey[t] = DOMAIN SurveyDbSchema
      BY <1>1 DEF SurveyTypeOK
    <2>2. \A s \in Members : survey'[s].coreHunts = survey[s].coreHunts
      BY <1>13, <2>1, RowKeepsHunts DEF IngestHalf
    <2>3. UNCHANGED <<clock, trail, worlds, outbox, applied>>
      BY <1>13 DEF IngestHalf
    <2>4. QED
      BY <1>8, <2>2, <2>3 DEF PictureInv
  <1>14. ASSUME NEW t \in Members, LoseReport(t)
         PROVE  PictureInv'
    <2>1. outbox[t] # << >> /\ UNCHANGED <<clock, trail, worlds, survey, applied>>
      BY <1>14 DEF LoseReport
    <2>2. ASSUME NEW s \in Members, NEW i \in DOMAIN outbox'[s]
          PROVE  TrueReport(outbox'[s][i], worlds[s], clock, trail)
      BY <1>1, <1>9, <1>14, <2>1, <2>2 DEF LoseReport, PictureInv, SurveyTypeOK
    <2>3. QED
      BY <1>8, <2>1, <2>2 DEF PictureInv
  <1>15. QED
    BY <1>6, <1>7, <1>10, <1>11, <1>12, <1>13, <1>14 DEF Next

\* It starts with nothing recorded.
LEMMA PictureStarts ==
  ASSUME Init
  PROVE  PictureInv
  <1>1. SurveyInv
    BY SurveyStarts
  <1>2. \A e \in Enemies : \A n \in 1..clock : trail[e][n] \in PlacesOf[e]
    <2>1. clock = 1 /\ \A e \in Enemies : trail[e] = <<StartOf[e]>> /\ StartOf[e] \in PlacesOf[e]
      BY EnemiesAssumption DEF Init
    <2>2. \A n \in 1..clock : n = 1
      BY <2>1
    <2>3. QED
      BY <2>1, <2>2
  <1>3. ASSUME NEW t \in Members
        PROVE  /\ worlds[t] = None /\ applied[t] = {} /\ DOMAIN outbox[t] = {}
               /\ TrueRows(survey[t].coreHunts)
    <2>1. survey[t].coreHunts = << >> /\ DOMAIN survey[t].coreHunts = {}
      BY DEF Init, SurveyDbSchema
    <2>2. TrueRows(survey[t].coreHunts)
      BY <2>1, FS_EmptySet DEF TrueRows
    <2>3. QED
      BY <2>2 DEF Init
  <1>4. DOMAIN worlds = Members
    BY DEF Init
  <1>5. QED
    BY <1>1, <1>2, <1>3, <1>4 DEF PictureInv

-----------------------------------------------------------------------------
\* What a view is loaded from.

\* A number of a set that none of it exceeds, when something bounds the set.
LEMMA GreatestOfThem ==
  ASSUME NEW S, S \subseteq Nat, S # {}, NEW bound \in Nat, \A n \in S : n <= bound
  PROVE  \E n \in S : \A m \in S : m <= n
  <1> DEFINE T == {bound - n : n \in S}
  <1>1. T \subseteq Nat /\ T # {}
    <2>1. \A n \in S : bound - n \in Nat
      OBVIOUS
    <2>2. QED
      BY <2>1
  <1>2. PICK k \in T : \A j \in T : k <= j
    <2> HIDE DEF T
    <2>1. QED
      BY <1>1, LeastOfThem
  <1>3. PICK n \in S : k = bound - n
    BY <1>2
  <1>4. ASSUME NEW m \in S PROVE m <= n
    <2>1. bound - n <= bound - m
      BY <1>2, <1>3
    <2>2. QED
      BY <2>1
  <1>5. QED
    BY <1>3, <1>4

\* The tick of the view is that of the newest case (load_alliance_snapshot).
LEMMA CurrentTickIsNewest ==
  ASSUME PictureInv
  PROVE  /\ CurrentTick \in Nat
         /\ \A t \in Members : worlds[t] # None => worlds[t].tick <= CurrentTick
  <1> DEFINE S == {worlds[t].tick : t \in Recorded}
  <1>1. clock \in Nat /\ S \subseteq Nat /\ \A n \in S : n <= clock
    BY DEF PictureInv, SurveyInv, SurveyTypeOK, TrueCase, Recorded
  <1>2. CASE Recorded = {}
    BY <1>2 DEF CurrentTick, Recorded
  <1>3. CASE Recorded # {}
    <2>1. S # {}
      BY <1>3
    <2> HIDE DEF S
    <2>2. \E n \in S : \A m \in S : m <= n
      BY <1>1, <2>1, GreatestOfThem
    <2>3. CurrentTick = CHOOSE n \in S : \A t \in Recorded : worlds[t].tick <= n
      BY <1>3 DEF CurrentTick, S
    <2>4. \E n \in S : \A t \in Recorded : worlds[t].tick <= n
      BY <2>2 DEF S
    <2>5. CurrentTick \in S /\ \A t \in Recorded : worlds[t].tick <= CurrentTick
      BY <2>3, <2>4
    <2>6. QED
      BY <1>1, <2>5 DEF Recorded
  <1>4. QED
    BY <1>2, <1>3

\* Two cores that can stand in one place are of one owner.  Without it a core that
\* a late or repeated report puts in a cell has the tick of another's newer report
\* (survey_db.py:579-584: the newer of the ticks, but the owner of the report that
\* came last).
CoresApart ==
  \A e, f \in {x \in Enemies : KindOf[x] = "CORE"} :
    PlacesOf[e] \cap PlacesOf[f] # {} => OwnerOf[e] = OwnerOf[f]

\* A row of the database is of a core that stood there at its last tick
\* (_core_observations_from_survey).
LEMMA RememberedCoresAreTrue ==
  ASSUME CoresApart, PictureInv, NEW t \in Members, NEW c \in DOMAIN survey[t].coreHunts
  PROVE  LET row == survey[t].coreHunts[c]
         IN  row.last \in Nat /\ row.last <= CurrentTick /\ Stood("CORE", None, row.owner, c, row.last)
             /\ row.owner \in {OwnerOf[e] : e \in Enemies} /\ c \in Places
  <1> DEFINE row == survey[t].coreHunts[c]
  <1>1. row.last \in TicksIn(applied[t], c) /\ c \in Places
    BY DEF PictureInv, SurveyInv, WindowsFit
  <1>2. PICK r \in applied[t] : r.tick = row.last /\ \E i \in DOMAIN r.enemyCores : r.enemyCores[i].cell = c
    BY <1>1 DEF TicksIn
  <1>3. TrueReport(r, worlds[t], clock, trail)
    BY DEF PictureInv
  <1>4. PICK e \in Enemies : KindOf[e] = "CORE" /\ c = trail[e][r.tick]
    BY <1>2, <1>3 DEF TrueReport
  <1>5. PICK f \in Enemies : KindOf[f] = "CORE" /\ c \in PlacesOf[f] /\ row.owner = OwnerOf[f]
    BY DEF PictureInv, TrueRows
  <1>6. r.tick \in 1..clock /\ clock \in Nat /\ trail[e] \in Seq(Places) /\ Len(trail[e]) = clock
    BY <1>3 DEF PictureInv, SurveyInv, SurveyTypeOK, TrueReport
  <1>7. c \in PlacesOf[e]
    BY <1>4, <1>6 DEF PictureInv
  <1>8. OwnerOf[e] = OwnerOf[f]
    BY <1>4, <1>5, <1>7 DEF CoresApart
  <1>9. worlds[t] # None /\ worlds[t].tick \in Nat /\ r.tick <= worlds[t].tick
    BY <1>3, <1>6 DEF TrueReport, PictureInv, TrueCase
  <1>10. row.last \in Nat /\ row.last <= CurrentTick
    BY <1>2, <1>6, <1>9, CurrentTickIsNewest
  <1>11. row.last \in DOMAIN trail[e]
    BY <1>2, <1>6
  <1> HIDE DEF row
  <1>12. Stood("CORE", None, row.owner, c, row.last)
    BY <1>2, <1>4, <1>5, <1>8, <1>11 DEF Stood
  <1>13. QED
    BY <1>1, <1>5, <1>10, <1>12 DEF row

\* The observations of a case (_live_enemy_observations_from_world) are true.
LEMMA LiveObservationsAreTrue ==
  ASSUME PictureInv, NEW t \in Members
  PROVE  LiveObservations(t) \in Seq(TrueObservations(CurrentTick))
  <1> DEFINE toObs(o) == [tenant |-> t, tick |-> worlds[t].tick, kind |-> o.kind, id |-> o.id,
                          owner |-> IF o.kind = "CORE" THEN o.owner ELSE None, type |-> o.type,
                          controlled |-> FALSE, pos |-> o.pos, evidence |-> "LIVE"]
             X == {x \in worlds[t].objects : ~x.controlled}
             T == {toObs(o) : o \in X}
  <1>1. LiveObservations(t) = IF worlds[t] = None THEN << >> ELSE SetToSeq(T)
    BY DEF LiveObservations
  <1>2. CASE worlds[t] = None
    BY <1>1, <1>2
  <1>3. CASE worlds[t] # None
    <2>1. TrueCase(worlds[t], clock, trail)
      BY <1>3 DEF PictureInv
    <2>2. /\ worlds[t].tick \in 1..clock /\ clock \in Nat /\ worlds[t].tick \in Nat
          /\ worlds[t].tick <= CurrentTick
      BY <1>3, <2>1, CurrentTickIsNewest DEF TrueCase, PictureInv, SurveyInv, SurveyTypeOK
    <2>3. IsFiniteSet(T)
      <3>1. IsFiniteSet(X)
        BY <2>1, FS_Subset DEF TrueCase
      <3>2. [o \in X |-> toObs(o)] \in Surjection(X, T)
        BY DEF Surjection
      <3> HIDE DEF X, T
      <3>3. QED
        BY <3>1, <3>2, FS_Surjection
    <2>4. ASSUME NEW o \in X PROVE toObs(o) \in TrueObservations(CurrentTick)
      <3>1. PICK e \in Enemies : /\ o.kind = KindOf[e] /\ o.type = TypeOf[e] /\ o.id = e
                                 /\ o.owner = OwnerOf[e] /\ o.pos = trail[e][worlds[t].tick]
        BY <2>1, <2>4 DEF TrueCase
      <3>2. e # None /\ KindOf[e] \in SightingKinds
        BY EnemiesAssumption
      <3>3. trail[e] \in Seq(Places) /\ Len(trail[e]) = clock
        BY DEF PictureInv, SurveyInv, SurveyTypeOK
      <3>4. worlds[t].tick \in DOMAIN trail[e] /\ o.pos \in Places
        BY <2>2, <3>1, <3>3
      <3> DEFINE b == toObs(o)
      <3>5. /\ b.kind = o.kind /\ b.id = o.id /\ b.pos = o.pos /\ b.tick = worlds[t].tick
            /\ b.owner = IF o.kind = "CORE" THEN o.owner ELSE None
        OBVIOUS
      <3>6. Stood(b.kind, b.id, b.owner, b.pos, b.tick)
        <4> HIDE DEF b, X
        <4>1. QED
          BY <3>1, <3>2, <3>4, <3>5 DEF Stood
      <3>7. b \in [tenant : Members, tick : Nat, kind : SightingKinds, id : Enemies \cup {None},
                   owner : {OwnerOf[x] : x \in Enemies} \cup {None},
                   type : {TypeOf[x] : x \in Enemies} \cup {None}, controlled : {FALSE},
                   pos : Places, evidence : {"LIVE", "CALIBRATION"}]
        BY <2>2, <3>1, <3>2, <3>4
      <3> HIDE DEF b
      <3>8. b \in TrueObservations(CurrentTick)
        BY <2>2, <3>5, <3>6, <3>7 DEF TrueObservations
      <3>9. QED
        BY <3>8 DEF b
    <2>5. T \subseteq TrueObservations(CurrentTick)
      BY <2>4
    <2> HIDE DEF T
    <2>6. SetToSeq(T) \in Seq(T)
      BY <2>3, SequenceOfSet
    <2>7. QED
      BY <1>1, <1>3, <2>5, <2>6
  <1>4. QED
    BY <1>2, <1>3

\* So are those of a database.
LEMMA CoreObservationsAreTrue ==
  ASSUME CoresApart, PictureInv, NEW t \in Members
  PROVE  CoreObservations(t) \in Seq(TrueObservations(CurrentTick))
  <1> DEFINE hunts == survey[t].coreHunts
             rows == CoreHuntsByRecency(survey[t])
             R == {[cell |-> c, owner |-> survey[t].coreHunts[c].owner, tick |-> survey[t].coreHunts[c].last] :
                     c \in DOMAIN survey[t].coreHunts}
             b(r) == [tenant |-> t, tick |-> r.tick, kind |-> "CORE", id |-> None,
                      owner |-> r.owner, type |-> None, controlled |-> FALSE,
                      pos |-> r.cell, evidence |-> "CALIBRATION"]
  <1>1. rows \in Seq(R)
    <2>1. IsFiniteSet(DOMAIN survey[t].coreHunts)
      BY DEF PictureInv, TrueRows
    <2>2. \A c \in DOMAIN survey[t].coreHunts : survey[t].coreHunts[c].last \in Nat
      BY RememberedCoresAreTrue
    <2>3. QED
      BY <2>1, <2>2, RecencyIsASequence
  <1>2. ASSUME NEW r \in R PROVE b(r) \in TrueObservations(CurrentTick)
    <2>1. /\ r.tick \in Nat /\ r.tick <= CurrentTick /\ Stood("CORE", None, r.owner, r.cell, r.tick)
          /\ r.owner \in {OwnerOf[e] : e \in Enemies} /\ r.cell \in Places
      BY <1>2, RememberedCoresAreTrue
    <2> HIDE DEF R
    <2> DEFINE o == b(r)
    <2>2. o \in [tenant : Members, tick : Nat, kind : SightingKinds, id : Enemies \cup {None},
                 owner : {OwnerOf[x] : x \in Enemies} \cup {None},
                 type : {TypeOf[x] : x \in Enemies} \cup {None}, controlled : {FALSE},
                 pos : Places, evidence : {"LIVE", "CALIBRATION"}]
      BY <2>1 DEF SightingKinds
    <2>3. o.kind = "CORE" /\ o.id = None /\ o.owner = r.owner /\ o.pos = r.cell /\ o.tick = r.tick
      OBVIOUS
    <2> HIDE DEF o
    <2>4. o \in TrueObservations(CurrentTick)
      BY <2>1, <2>2, <2>3 DEF TrueObservations
    <2>5. QED
      BY <2>4 DEF o
  <1>3. CoreObservations(t) = [i \in DOMAIN rows |-> b(rows[i])]
    BY DEF CoreObservations
  <1> HIDE DEF rows, R, b
  <1>4. \A i \in 1..Len(rows) : b(rows[i]) \in TrueObservations(CurrentTick)
    BY <1>1, <1>2
  <1>5. QED
    BY <1>1, <1>3, <1>4

\* And those of all the members, in whatever order the loader takes them.
LEMMA ObservationsAreTrue ==
  ASSUME CoresApart, PictureInv
  PROVE  Observations \in Seq(TrueObservations(CurrentTick))
  <1> DEFINE list == [i \in DOMAIN Tenants |-> CoreObservations(Tenants[i]) \o LiveObservations(Tenants[i])]
             O == TrueObservations(CurrentTick)
  <1>1. Tenants \in Seq(Members) /\ \A i \in DOMAIN Tenants : Tenants[i] \in Members
    BY TenantsAssumption DEF Members
  <1>2. \A i \in DOMAIN Tenants : list[i] \in Seq(O)
    <2>1. ASSUME NEW i \in DOMAIN Tenants PROVE list[i] \in Seq(O)
      <3>1. CoreObservations(Tenants[i]) \in Seq(O) /\ LiveObservations(Tenants[i]) \in Seq(O)
        BY <1>1, CoreObservationsAreTrue, LiveObservationsAreTrue
      <3> HIDE DEF O
      <3>2. CoreObservations(Tenants[i]) \o LiveObservations(Tenants[i]) \in Seq(O)
        BY <3>1, ConcatProperties
      <3>3. QED
        BY <3>2
    <2>2. QED
      BY <2>1
  <1>3. list \in Seq(Seq(O))
    <2> HIDE DEF O
    <2>1. DOMAIN Tenants = 1..Len(Tenants) /\ Len(Tenants) \in Nat
      BY <1>1
    <2>2. list \in [1..Len(Tenants) -> Seq(O)]
      BY <1>2, <2>1
    <2> HIDE DEF list
    <2>3. QED
      BY <2>1, <2>2
  <1>4. FlattenSeq(list) \in Seq(O)
    <2> HIDE DEF O, list
    <2>1. QED
      BY <1>3, ListsJoin
  <1>5. QED
    BY <1>4 DEF Observations

-----------------------------------------------------------------------------
\* The view.  What is loaded is true and of one sighting for each key; the decay
\* of a confidence changes nothing but that.
LEMMA LoadedPictureIsTrue ==
  ASSUME CoresApart, PictureInv
  PROVE  /\ Load.now \in Nat
         /\ \A s \in Load.sightings : TrueSighting(s.key, s, Load.now)
         /\ \A r, s \in Load.sightings : r.key = s.key => r = s
  <1> DEFINE newest == CurrentTick
             rows == ObservationsToSightings(Observations, newest).byKey
             decayed(k) == WithDecayedConfidence(rows[k], newest)
  <1>1. Load.now = newest /\ Load.sightings = {decayed(k) : k \in DOMAIN rows}
    BY DEF Load
  <1>2. newest \in Nat
    BY CurrentTickIsNewest
  <1>3. \A k \in DOMAIN rows : TrueSighting(k, rows[k], newest)
    BY <1>2, ObservationsAreTrue, MergedPictureIsTrue DEF PictureIsTrue
  <1> HIDE DEF newest, rows
  <1>4. ASSUME NEW k \in DOMAIN rows
        PROVE  TrueSighting(k, decayed(k), newest)
    <2> DEFINE s == rows[k]
    <2>1. TrueSighting(k, s, newest)
      BY <1>3
    <2>2. decayed(k) = IF s.last >= newest THEN s ELSE [s EXCEPT !.confidence = CurrentConfidence(s, newest)]
      BY DEF WithDecayedConfidence
    <2> HIDE DEF s, decayed
    <2>3. CurrentConfidence(s, newest) \in Int
      <3>1. AgeOf(s, newest) \in Nat
        BY <1>2, <2>1 DEF TrueSighting, AgeOf, Larger
      <3>2. QED
        BY <3>1, ConfidenceIsANumber DEF CurrentConfidence, One
    <2> DEFINE r == [s EXCEPT !.confidence = CurrentConfidence(s, newest)]
    <2>4. TrueSighting(k, r, newest)
      <3>1. DOMAIN s = SightingFields
        BY <2>1 DEF TrueSighting
      <3>2. DOMAIN r = SightingFields
        BY <3>1
      <3>3. /\ r.key = s.key /\ r.kind = s.kind /\ r.id = s.id /\ r.owner = s.owner /\ r.pos = s.pos
            /\ r.last = s.last /\ r.visible = s.visible /\ r.confidence = CurrentConfidence(s, newest)
        BY <3>1 DEF SightingFields
      <3> HIDE DEF r
      <3>4. QED
        BY <2>1, <2>3, <3>2, <3>3 DEF TrueSighting
    <2>5. QED
      BY <2>1, <2>2, <2>4
  <1> HIDE DEF decayed
  <1>5. ASSUME NEW s \in Load.sightings
        PROVE  s.key \in DOMAIN rows /\ s = decayed(s.key) /\ TrueSighting(s.key, s, newest)
    <2>1. PICK k \in DOMAIN rows : s = decayed(k)
      BY <1>1
    <2>2. TrueSighting(k, s, newest)
      BY <1>4, <2>1
    <2>3. s.key = k
      BY <2>2 DEF TrueSighting
    <2>4. QED
      BY <2>1, <2>2, <2>3
  <1>6. QED
    BY <1>1, <1>2, <1>5

\* It is of what was there.
LEMMA PicturesAreTrue ==
  ASSUME CoresApart, PictureInv
  PROVE  SightingsAreTrue
  <1>1. \A s \in Load.sightings : TrueSighting(s.key, s, Load.now)
    BY LoadedPictureIsTrue
  <1>2. ASSUME NEW s \in Load.sightings PROVE StoodThere(s)
    BY <1>1 DEF TrueSighting, Stood, StoodThere
  <1>3. QED
    BY <1>2 DEF SightingsAreTrue

\* Nothing outranks itself (_winner_compare), and so one sighting speaks for itself.
LEMMA OneSightingWins ==
  ASSUME NEW s, s.last \in Int, s.confidence \in Int
  PROVE  WinnerOf({s}) = s
  <1>1. ~Outranks(s, s)
    <2>1. EvidenceRank(s.evidence) \in Int
      BY DEF EvidenceRank
    <2>2. \A i \in 1..4 : WinnerRank(s)[i] \in Int
      BY <2>1 DEF WinnerRank
    <2>3. QED
      BY <2>2 DEF Outranks
  <1>2. QED
    BY <1>1 DEF WinnerOf

\* The two readers sort it alike (_classify_freshness, freshness_of).
LEMMA ReadersAgree ==
  ASSUME CoresApart, PictureInv
  PROVE  IntelAgreesWithSnapshot
  <1> DEFINE newest == Load.now
             kept == NotAlly(Load.sightings, AllyEntityIds)
             Fused(k) == LET bucket == {s \in kept : s.key = k}
                             w == WinnerOf(bucket)
                         IN  [sighting |-> w, sources |-> {s.tenant : s \in bucket}, age |-> AgeOf(w, newest),
                              freshness |-> IntelFreshness(w, AgeOf(w, newest))]
             intel == Intel(Load)
             snapshot == Snapshot(Load)
  <1>1. /\ \A s \in kept : s.last \in Int /\ s.confidence \in Int
        /\ \A r, s \in kept : r.key = s.key => r = s
    BY LoadedPictureIsTrue DEF TrueSighting, NotAlly
  <1>2. /\ intel.known = {Fused(k) : k \in {s.key : s \in kept}}
        /\ intel.recent = {f \in intel.known : f.freshness # "HISTORICAL"}
    BY DEF Intel, AggregateAllianceIntel, IntelTiers, FuseEntitySightings
  <1>3. /\ snapshot.freshness = [k \in {s.key : s \in kept} |->
                                   Freshness(CHOOSE s \in kept : s.key = k, newest)]
        /\ snapshot.stale = {s.key : s \in {r \in kept : Freshness(r, newest) = "HISTORICAL"}}
    BY DEF Snapshot, BuildSnapshot
  <1> HIDE DEF kept, newest, intel, snapshot
  <1>4. ASSUME NEW s \in kept
        PROVE  /\ Fused(s.key).sighting = s /\ Fused(s.key).freshness = Freshness(s, newest)
               /\ snapshot.freshness[s.key] = Freshness(s, newest)
               /\ s.key \in snapshot.stale <=> Freshness(s, newest) = "HISTORICAL"
    <2>1. {r \in kept : r.key = s.key} = {s}
      BY <1>1
    <2>2. WinnerOf({s}) = s
      BY <1>1, OneSightingWins
    <2>3. Fused(s.key).sighting = s /\ Fused(s.key).freshness = IntelFreshness(s, AgeOf(s, newest))
      BY <2>1, <2>2
    <2>4. IntelFreshness(s, AgeOf(s, newest)) = Freshness(s, newest)
      BY DEF IntelFreshness, Freshness
    <2>5. (CHOOSE r \in kept : r.key = s.key) = s
      BY <1>1
    <2>6. QED
      BY <1>1, <1>3, <2>3, <2>4, <2>5
  <1> HIDE DEF Fused
  <1>5. {f.sighting.key : f \in intel.known} = DOMAIN snapshot.freshness
    BY <1>2, <1>3, <1>4
  <1>6. ASSUME NEW f \in intel.known
        PROVE  /\ f.freshness = snapshot.freshness[f.sighting.key]
               /\ f \notin intel.recent <=> f.sighting.key \in snapshot.stale
    <2>1. PICK s \in kept : f = Fused(s.key)
      BY <1>2
    <2>2. QED
      BY <1>2, <1>4, <2>1
  <1>7. Agree(intel, snapshot)
    BY <1>5, <1>6 DEF Agree
  <1>8. QED
    BY <1>7 DEF IntelAgreesWithSnapshot, intel, snapshot

\* A sector of the threat summary (build_threat_summaries_from_snapshot) is of what
\* is not historical, and so of what stood there within the freshness window.
LEMMA SectorsStayRecent ==
  ASSUME CoresApart, PictureInv
  PROVE  StaleNeverThreatens
  <1> DEFINE newest == Load.now
             kept == NotAlly(Load.sightings, AllyEntityIds)
  <1>1. newest \in Nat /\ kept \subseteq Load.sightings
    BY LoadedPictureIsTrue DEF NotAlly
  <1> HIDE DEF kept
  <1>2. ASSUME NEW s \in kept, Freshness(s, newest) # "HISTORICAL"
        PROVE  \E e \in Enemies, n \in (newest - FreshWindow)..newest :
                 n \in DOMAIN trail[e] /\ trail[e][n] = s.pos
    <2>1. TrueSighting(s.key, s, newest)
      BY <1>1, <1>2, LoadedPictureIsTrue
    <2>2. s.last \in Nat /\ s.last <= newest
      BY <2>1 DEF TrueSighting
    <2>3. AgeOf(s, newest) <= FreshWindow /\ FreshWindow \in Nat
      <3>1. AgeOf(s, newest) \in Nat
        BY <1>1, <2>2 DEF AgeOf, Larger
      <3>2. QED
        BY <1>2, <3>1, WindowsAssumption DEF Freshness
    <2>4. s.last \in (newest - FreshWindow)..newest
      BY <1>1, <2>2, <2>3 DEF AgeOf, Larger
    <2>5. QED
      BY <2>1, <2>4 DEF TrueSighting, Stood
  <1>3. ASSUME NEW m, NEW d \in Range(Directions), NEW k \in Summary(Load, m).sectors[d].keys
        PROVE  \E s \in kept : s.key = k /\ Freshness(s, newest) # "HISTORICAL"
    <2> DEFINE fresh == {s \in kept : Freshness(s, newest) # "HISTORICAL"}
    <2>1. Summary(Load, m) = BuildTenantThreat(m.core, fresh)
      BY DEF Summary, ThreatSummary, kept
    <2> HIDE DEF fresh
    <2>2. Summary(Load, m).sectors[d] =
            IF m.core = None THEN [keys |-> {}, score |-> 0, nearest |-> None]
            ELSE ThreatSector(m.core, fresh, d)
      BY <2>1 DEF BuildTenantThreat
    <2>3. k \in {s.key : s \in SectorOf(m.core, fresh, d)}
      <3>1. ThreatSector(m.core, fresh, d).keys = {s.key : s \in SectorOf(m.core, fresh, d)}
        BY DEF ThreatSector
      <3>2. m.core = None => Summary(Load, m).sectors[d].keys = {}
        BY <2>2
      <3>3. QED
        BY <1>3, <2>2, <3>1, <3>2
    <2>4. QED
      BY <2>3 DEF SectorOf, fresh
  <1>4. ASSUME NEW m \in Load.members
        PROVE  SectorsAreRecent(Load, Summary(Load, m).sectors)
    <2>1. ASSUME NEW d \in Range(Directions), NEW k \in Summary(Load, m).sectors[d].keys
          PROVE  \E s \in Load.sightings : s.key = k /\
                   \E e \in Enemies, n \in (newest - FreshWindow)..newest :
                     n \in DOMAIN trail[e] /\ trail[e][n] = s.pos
      BY <1>1, <1>2, <1>3
    <2>2. QED
      BY <2>1 DEF SectorsAreRecent, StoodLately
  <1>5. QED
    BY <1>4 DEF StaleNeverThreatens

\* What the members make of their observations (merge_sightings, shared_intel.py,
\* threat.py) is true in any run of the alliance, with any reports lost, applied
\* again or applied in half: each sighting is of an entity that stood there at that
\* tick, both of its readers agree on how fresh it is, and a member is only warned of
\* what was recorded within the freshness window.
THEOREM PictureStaysSound == ASSUME CoresApart PROVE AllianceSpec => []PictureIsSound
  <1>1. AllianceInit => PictureInv
    BY PictureStarts DEF AllianceInit
  <1>2. PictureInv /\ [AllianceNext]_allianceVars => PictureInv'
    BY PictureStays DEF AllianceNext, allianceVars, vars
  <1>3. PictureInv => PictureIsSound
    BY PicturesAreTrue, ReadersAgree, SectorsStayRecent DEF PictureIsSound
  <1>4. QED
    BY <1>1, <1>2, <1>3, PTL DEF AllianceSpec
=============================================================================
