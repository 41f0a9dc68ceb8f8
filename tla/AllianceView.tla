----------------------------- MODULE AllianceView -----------------------------
(***************************************************************************)
(* How the alliance's view comes about.  The game moves the enemies; each  *)
(* member records what it sees of a tick as a calibration case and reports *)
(* it to its survey database, through an ingest that may lag behind, apply *)
(* a report twice, or apply half of it.  A view is loaded from the newest  *)
(* case of every member and from all survey databases                      *)
(* (command_center/projections/alliance_snapshot.py).  Loading changes     *)
(* nothing: it is the operator Load, and the properties hold of what Load  *)
(* gives in every reachable state.                                         *)
(***************************************************************************)
EXTENDS AllianceIntel

CONSTANTS
  Tenants,        \* TENANTS, in the order the loader takes them
  Enemies,        \* the entities of the other players
  KindOf, TypeOf, OwnerOf,
  PlacesOf,       \* where each of them can stand
  StartOf,        \* and where it starts
  Homes,          \* where each member's core stands
  Sight,          \* how far a member sees
  MaxTick,        \* bound: ticks of the game
  MaxOutbox,      \* bound: reports of a member on their way
  MaxRepeats,     \* bound: reports applied twice
  Stock,          \* resources of each member's core
  RankOf          \* the owners' ranks on the damage board

ASSUME EnemiesAssumption ==
  /\ IsFiniteSet(Enemies)
  /\ \A e \in Enemies : /\ KindOf[e] \in SightingKinds
                        /\ TypeOf[e] = None \/ TypeOf[e] \in UnitTypes
                        /\ StartOf[e] \in PlacesOf[e]
  /\ None \notin Enemies
  /\ \A e \in Enemies : KindOf[e] = "CORE" => OwnerOf[e] \notin Enemies \cup {None}
ASSUME TenantsAssumption == Tenants \in Seq(Range(Tenants))
ASSUME NoneIsNoTick == None \notin Nat

VARIABLES
  clock,      \* the tick of the game
  trail,      \* for each enemy, where it stood at each tick so far
  worlds,     \* for each member, its newest case, or None
  outbox,     \* for each member, the reports on their way to its database
  survey,     \* for each member, its survey database
  applied,    \* for each member, the reports its database has taken over whole
  repeats     \* reports applied again so far

vars == <<clock, trail, worlds, outbox, survey, applied, repeats>>

Members == Range(Tenants)
EnemyPlaces == UNION {PlacesOf[e] : e \in Enemies}

\* The cases there can be: a member without one has None.
CaseObjects ==
  [kind : SightingKinds, type : UnitTypes \cup {None}, id : Enemies \cup Members,
   owner : {OwnerOf[e] : e \in Enemies} \cup Members,
   pos : EnemyPlaces \cup {Homes[t] : t \in Members}, controlled : BOOLEAN]
Cases == [tick : Nat, active : {TRUE}, resources : {Stock[t] : t \in Members},
          objects : SUBSET CaseObjects]
ASSUME NoneIsNoCase == None \notin Cases

-----------------------------------------------------------------------------
(* What a member writes down. *)

\* The objects of a case: the member's own core, and the enemies it saw.
WorldObjects(t, seen) ==
  {[kind |-> "CORE", type |-> None, id |-> t, owner |-> t, pos |-> Homes[t],
    controlled |-> TRUE]}
  \cup {[kind |-> KindOf[e], type |-> TypeOf[e], id |-> e, owner |-> OwnerOf[e],
         pos |-> trail[e][clock], controlled |-> FALSE] : e \in seen}

SeenCores(seen) ==
  SetToSeq({[cell |-> trail[e][clock], owner |-> OwnerOf[e]] :
              e \in {x \in seen : KindOf[x] = "CORE"}})
SeenUnits(seen) ==
  SetToSeq({[cell |-> trail[e][clock], type |-> TypeOf[e], controlled |-> FALSE] :
              e \in {x \in seen : KindOf[x] = "UNIT"}})

\* The tick summary the member's agent posts.
TickSummary(t, seen) ==
  [instance |-> t, event |-> "tick_summary", tick |-> clock, resources |-> Stock[t],
   core |-> Homes[t], visible |-> Cardinality(seen), mode |-> None, at |-> clock,
   resourceCells |-> << >>, obstacleCells |-> << >>,
   unitsSeen |-> SeenUnits(seen), enemyCores |-> SeenCores(seen)]

-----------------------------------------------------------------------------
(* Loading the view. *)

\* _live_enemy_observations_from_world.
LiveObservations(t) ==
  LET toObs(o) == [tenant |-> t, tick |-> worlds[t].tick, kind |-> o.kind, id |-> o.id,
                   owner |-> IF o.kind = "CORE" THEN o.owner ELSE None, type |-> o.type,
                   controlled |-> FALSE, pos |-> o.pos, evidence |-> "LIVE"]
  IN  IF worlds[t] = None THEN << >>
      ELSE SetToSeq({toObs(o) : o \in {x \in worlds[t].objects : ~x.controlled}})

\* _core_observations_from_survey: the remembered cores, newest first.
CoreObservations(t) ==
  LET rows == CoreHuntsByRecency(survey[t])
  IN  [i \in DOMAIN rows |->
         [tenant |-> t, tick |-> rows[i].tick, kind |-> "CORE", id |-> None,
          owner |-> rows[i].owner, type |-> None, controlled |-> FALSE,
          pos |-> rows[i].cell, evidence |-> "CALIBRATION"]]

Observations == FlattenSeq([i \in DOMAIN Tenants |->
                  CoreObservations(Tenants[i]) \o LiveObservations(Tenants[i])])

Recorded == {t \in Members : worlds[t] # None}

\* The tick of the view: the newest case of any member.
CurrentTick ==
  IF Recorded = {} THEN 0
  ELSE CHOOSE n \in {worlds[t].tick : t \in Recorded} : \A t \in Recorded : worlds[t].tick <= n

\* _ally_entity_ids_from_worlds.
AllyEntityIds ==
  UNION {{o.id : o \in {x \in worlds[t].objects : x.controlled}} : t \in Recorded}

\* _member_state_from_world.
MemberState(t) ==
  [tenant |-> t, tick |-> worlds[t].tick, resources |-> worlds[t].resources,
   core |-> (CHOOSE o \in worlds[t].objects : o.kind = "CORE" /\ o.controlled).pos,
   status |-> IF worlds[t].active THEN "READY" ELSE "DEGRADED"]

\* _treasury_of: the richest member, the first one on ties.
TreasuryOf(members) ==
  IF members = {} THEN None
  ELSE Tenants[CHOOSE i \in DOMAIN Tenants :
         \E m \in members : /\ m.tenant = Tenants[i]
                            /\ \A n \in members : n.resources <= m.resources
                            /\ \A j \in 1..(i - 1) : \A n \in members :
                                 n.tenant = Tenants[j] => n.resources < m.resources]

\* _leaderboard_aggression, by rank on the damage board.
AggressionOfRank(rank) == IF rank \in 1..10 THEN 900 ELSE IF rank <= 30 THEN 600 ELSE 200

\* The cells the threat is asked for, and an order of them.
Cells == EnemyPlaces \cup Range(Homes)
Precedes(p, q) == p[1] < q[1] \/ (p[1] = q[1] /\ p[2] < q[2])

\* load_alliance_snapshot: the sightings everything else is computed from.
Load ==
  LET now == CurrentTick
      merged == ObservationsToSightings(Observations, now)
  IN  [ok |-> merged.ok, now |-> now,
       sightings |-> {WithDecayedConfidence(merged.byKey[k], now) : k \in DOMAIN merged.byKey},
       members |-> {MemberState(t) : t \in Recorded}]

\* build_alliance_snapshot_payload, part by part.
Snapshot(view) == BuildSnapshot(view.sightings, AllyEntityIds, view.now)
Treasury(view) == TreasuryOf(view.members)
Intel(view) == AggregateAllianceIntel(view.sightings, AllyEntityIds, view.now)
Field(view) ==
  [c \in Cells |-> AdjustedThreatAt(NotAlly(view.sightings, AllyEntityIds), c, view.now,
                     [o \in DOMAIN RankOf |-> AggressionOfRank(RankOf[o])])]
TopCell(view) == MaxDirect(NotAlly(view.sightings, AllyEntityIds), Cells, view.now, Precedes)
Summary(view, m) == ThreatSummary(m.core, NotAlly(view.sightings, AllyEntityIds), view.now)

-----------------------------------------------------------------------------
(* The game, the members and the ingest. *)

Init ==
  /\ clock = 1
  /\ trail = [e \in Enemies |-> <<StartOf[e]>>]
  /\ worlds = [t \in Members |-> None]
  /\ outbox = [t \in Members |-> << >>]
  /\ survey = [t \in Members |-> SurveyDbSchema]
  /\ applied = [t \in Members |-> {}]
  /\ repeats = 0

\* The game goes on: every enemy stands somewhere.
Advance ==
  /\ clock < MaxTick
  /\ clock' = clock + 1
  /\ \E move \in [Enemies -> EnemyPlaces] :
       /\ \A e \in Enemies : move[e] \in PlacesOf[e]
       /\ trail' = [e \in Enemies |-> Append(trail[e], move[e])]
  /\ UNCHANGED <<worlds, outbox, survey, applied, repeats>>

\* A member writes the case of this tick and reports it; it may skip ticks.
InSight(t) == {e \in Enemies : Manhattan(Homes[t], trail[e][clock]) <= Sight}
LastCase(t) == IF worlds[t] = None THEN 0 ELSE worlds[t].tick
Record(t) ==
  /\ LastCase(t) < clock /\ Len(outbox[t]) < MaxOutbox
  /\ worlds' = [worlds EXCEPT ![t] = [tick |-> clock, active |-> TRUE,
                                      resources |-> Stock[t], objects |-> WorldObjects(t, InSight(t))]]
  /\ outbox' = [outbox EXCEPT ![t] = Append(@, TickSummary(t, InSight(t)))]
  /\ UNCHANGED <<clock, trail, survey, applied, repeats>>

\* The report at the head is applied and acknowledged.
Ingest(t) ==
  /\ outbox[t] # << >>
  /\ survey' = [survey EXCEPT ![t] = ApplyAgentEvent(@, Head(outbox[t]))]
  /\ applied' = [applied EXCEPT ![t] = @ \cup {Head(outbox[t])}]
  /\ outbox' = [outbox EXCEPT ![t] = Tail(@)]
  /\ UNCHANGED <<clock, trail, worlds, repeats>>

\* A report is applied again, whenever its retry arrives.
IngestAgain(t) ==
  /\ repeats < MaxRepeats
  /\ \E e \in applied[t] : survey' = [survey EXCEPT ![t] = ApplyAgentEvent(@, e)]
  /\ repeats' = repeats + 1
  /\ UNCHANGED <<clock, trail, worlds, outbox, applied>>

\* The second transaction fails: the agent's row stays, the call raises and
\* the sender keeps the report.
IngestHalf(t) ==
  /\ outbox[t] # << >> /\ repeats < MaxRepeats
  /\ survey' = [survey EXCEPT ![t] = ApplyAgentRow(@, Head(outbox[t]))]
  /\ repeats' = repeats + 1
  /\ UNCHANGED <<clock, trail, worlds, outbox, applied>>

\* A report that never arrives.
LoseReport(t) ==
  /\ outbox[t] # << >>
  /\ outbox' = [outbox EXCEPT ![t] = Tail(@)]
  /\ UNCHANGED <<clock, trail, worlds, survey, applied, repeats>>

Next ==
  \/ Advance
  \/ \E t \in Members :
       \/ Record(t)
       \/ Ingest(t)
       \/ IngestAgain(t)
       \/ IngestHalf(t)
       \/ LoseReport(t)

Spec == Init /\ [][Next]_vars

-----------------------------------------------------------------------------
(* Properties. *)

\* Whether the entity of a sighting stood where the sighting says, when it says.
StoodThere(s) ==
  \E e \in Enemies :
    /\ s.last \in DOMAIN trail[e] /\ trail[e][s.last] = s.pos /\ KindOf[e] = s.kind
    /\ (s.id # None => s.id = e) /\ (s.id = None => s.owner = OwnerOf[e])

\* A sighting of the view joins the place and the tick of one report: the
\* entity it names stood at that place at that tick, whatever was merged into
\* it, from whichever member, through the database or not.
SightingsAreTrue ==
  \E view \in {Load} : view.ok => \A s \in view.sightings : StoodThere(s)

\* Two modules sort sightings into live, recent and historical, one for the
\* counts and the threat, one for the fused view: they agree on every entity,
\* and the fused view's tiers count what the snapshot lists.
Agree(intel, snapshot) ==
  /\ {f.sighting.key : f \in intel.known} = DOMAIN snapshot.freshness
  /\ \A f \in intel.known :
       /\ f.freshness = snapshot.freshness[f.sighting.key]
       /\ f \notin intel.recent <=> f.sighting.key \in snapshot.stale
IntelAgreesWithSnapshot ==
  \E view \in {Load} : view.ok => Agree(Intel(view), Snapshot(view))

\* A member is only warned of what was recorded lately: behind every entity of
\* a threat sector there is an enemy that stood there within the freshness
\* window, and so there is one near every cell that units threaten; at the cell
\* of the most direct threat an enemy stood in the newest case.
StoodLately(now, Near(_)) ==
  \E e \in Enemies, n \in (now - FreshWindow)..now :
    n \in DOMAIN trail[e] /\ Near(trail[e][n])
SectorsAreRecent(view, sectors) ==
  \A d \in Range(Directions) : \A k \in sectors[d].keys :
    \E s \in view.sightings : s.key = k /\ StoodLately(view.now, LAMBDA p : p = s.pos)
FieldIsRecent(view, field, top) ==
  /\ \A c \in Cells :
       field[c].direct + field[c].projected > 0 =>
         StoodLately(view.now, LAMBDA p : Manhattan(p, c) <= ThreatFieldRadius)
  /\ field[top].direct > 0 => \E e \in Enemies : trail[e][view.now] = top
StaleNeverThreatens ==
  \E view \in {Load} : view.ok =>
    \A m \in view.members : SectorsAreRecent(view, Summary(view, m).sectors)
ThreatFieldIsRecent ==
  \E view \in {Load} : view.ok => FieldIsRecent(view, Field(view), TopCell(view))

\* What a database remembers of an enemy core depends on the reports it took
\* over, not on how often each was applied or which half failed first: the
\* window of a cell runs from the first to the last of them.
Reports(t, cell) == {e.tick : e \in {r \in applied[t] :
                       \E i \in DOMAIN r.enemyCores : r.enemyCores[i].cell = cell}}
SurveyConverges ==
  \A t \in Members :
    LET hunts == survey[t].coreHunts
    IN  /\ \A cell \in EnemyPlaces : cell \in DOMAIN hunts <=> Reports(t, cell) # {}
        /\ \A cell \in DOMAIN hunts :
             /\ {hunts[cell].first, hunts[cell].last} \subseteq Reports(t, cell)
             /\ \A n \in Reports(t, cell) : n \in hunts[cell].first..hunts[cell].last

\* A sighting is only built with its last tick at or after its first one
\* (alliance/snapshot.py:180): loading never fails on a legal history.
LoadSucceeds == Load.ok
=============================================================================
