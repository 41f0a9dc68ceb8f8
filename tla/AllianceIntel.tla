---------------------------- MODULE AllianceIntel ----------------------------
(***************************************************************************)
(* What the alliance makes of its members' observations: sightings merged  *)
(* by entity (alliance/snapshot.py), the fused view of shared_intel.py,    *)
(* the threat field and the threat summaries of threat.py.                 *)
(*                                                                         *)
(* An observation is a record of one member's report of one entity.  Its   *)
(* id and its owner are None when the report does not have them.  Numbers  *)
(* the code keeps as fractions are integers in thousandths here.  The      *)
(* exponential decay of a confidence is kept as a hyperbola with the same  *)
(* ends: 1 at age 0, never growing, never below the floor.                 *)
(***************************************************************************)
EXTENDS FiniteSets, SurveyDb

CONSTANTS
  CoreSpatialGate,       \* CORE_SPATIAL_GATE
  UnitTau, CoreTau,      \* UNIT_TAU, CORE_TAU
  RecentUniqueWindow,    \* RECENT_UNIQUE_WINDOW
  LiveWindow,            \* DEFAULT_LIVE_WINDOW_TICKS
  FreshWindow,           \* DEFAULT_FRESHNESS_WINDOW_TICKS
  ThreatFieldRadius,     \* THREAT_FIELD_RADIUS
  CoreRaidRadius         \* CORE_RAID_RADIUS

\* Confidences decay over some time; what is live is fresh (FreshnessWindow).
ASSUME WindowsAssumption ==
  /\ UnitTau \in Nat \ {0} /\ CoreTau \in Nat \ {0}
  /\ LiveWindow \in Nat /\ FreshWindow \in Nat /\ LiveWindow <= FreshWindow

\* The fractions of the code, in thousandths.
One == 1000
ConfidenceFloor == 50

SightingKinds == {"CORE", "UNIT", "RESOURCE"}
UnitTypes == {"WORKER", "VANGUARD", "RANGER"}

IsCombatUnit(type) == type \in {"VANGUARD", "RANGER"}

Larger(a, b) == IF a < b THEN b ELSE a
Smaller(a, b) == IF a < b THEN a ELSE b
SumOver(seq, val(_)) == FoldLeft(LAMBDA acc, s : acc + val(s), 0, seq)

-----------------------------------------------------------------------------
(* Confidence. *)

TauFor(kind, type) ==
  CASE kind = "CORE" -> CoreTau
    [] kind = "UNIT" -> IF IsCombatUnit(type) THEN UnitTau ELSE 2 * UnitTau
    [] OTHER -> UnitTau

ConfidenceAt(age, tau) == Larger(ConfidenceFloor, (One * tau) \div (tau + age))

AgeOf(s, now) == Larger(0, now - s.last)

CurrentConfidence(s, now) ==
  IF s.visible THEN One ELSE ConfidenceAt(AgeOf(s, now), TauFor(s.kind, s.type))

\* _with_decayed_confidence, for sightings older than the tick of the view.
WithDecayedConfidence(s, now) ==
  IF s.last >= now THEN s ELSE [s EXCEPT !.confidence = CurrentConfidence(s, now)]

-----------------------------------------------------------------------------
(* Merging observations by entity. *)

MergeKey(raw) ==
  IF raw.id # None THEN <<raw.kind, raw.id>>
  ELSE IF raw.kind = "CORE" /\ raw.owner # None THEN <<"CORE", raw.owner>>
  ELSE IF raw.kind = "UNIT" THEN <<"UNIT", raw.tenant, raw.tick, raw.pos>>
  ELSE <<raw.kind, raw.tenant, raw.pos>>

FreshSighting(key, raw, now) ==
  [key |-> key, kind |-> raw.kind, type |-> raw.type, id |-> raw.id,
   owner |-> raw.owner, pos |-> raw.pos, tenant |-> raw.tenant,
   first |-> raw.tick, last |-> raw.tick, visible |-> (raw.tick = now),
   confidence |-> One, evidence |-> raw.evidence]

\* Cores without an id and with one owner: the only ones the gate is about.
SameNamelessCore(old, raw) ==
  /\ old.kind = "CORE" /\ raw.kind = "CORE"
  /\ old.owner # None /\ old.owner = raw.owner
  /\ old.id = None /\ raw.id = None

MergedConfidence(old, raw, now) ==
  IF raw.tick = now THEN One
  ELSE ConfidenceAt(Larger(0, now - raw.tick), TauFor(old.kind, old.type))

MoveSightingInTime(old, raw, now, key, evidence) ==
  [old EXCEPT !.key = key, !.last = raw.tick, !.visible = (raw.tick = now),
              !.confidence = MergedConfidence(old, raw, now), !.evidence = evidence]

\* The sighting of one key, moved to what the newer report says.  It is the
\* report merged last that is believed, not the one with the newest tick.
MoveSighting(old, raw, now, key, evidence) ==
  [old EXCEPT !.key = key, !.pos = raw.pos, !.last = raw.tick,
              !.visible = (raw.tick = now),
              !.confidence = MergedConfidence(old, raw, now),
              !.evidence = evidence]

\* normalize_sighting for a key seen before.
NormalizeSighting(raw, old, now) ==
  IF SameNamelessCore(old, raw) /\ Manhattan(old.pos, raw.pos) > CoreSpatialGate
    THEN FreshSighting(<<"CORE", raw.owner, raw.pos>>, raw, now)
    ELSE MoveSighting(old, raw, now, old.key,
                      IF raw.evidence = "LEADERBOARD" /\ old.evidence # "LEADERBOARD"
                        THEN old.evidence ELSE raw.evidence)

\* EntitySighting.__post_init__: a sighting whose last tick precedes its first
\* is refused with a ValueError.
Constructible(s) == s.first <= s.last

MergeOne(acc, raw, now) ==
  LET key == MergeKey(raw)
      merged == IF key \in DOMAIN acc.byKey
                  THEN NormalizeSighting(raw, acc.byKey[key], now)
                  ELSE FreshSighting(key, raw, now)
  IN  IF ~acc.ok THEN acc
      ELSE [ok |-> Constructible(merged), byKey |-> PutRow(acc.byKey, merged.key, merged)]

\* observations_to_sightings: the alliance's own entities are left out, the others
\* are merged (merge_sightings) from no sighting: the result, or the error of a
\* refused one.
ObservationsToSightings(observations, now) ==
  FoldLeft(LAMBDA acc, o : IF o.controlled THEN acc ELSE MergeOne(acc, o, now),
           [ok |-> TRUE, byKey |-> << >>], observations)

-----------------------------------------------------------------------------
(* Freshness and counts.  Sightings are a set here: no two have one key.   *)

IsCurrentlyVisible(s, now) == s.visible \/ s.last = now
IsCombatSighting(s) == s.kind = "UNIT" /\ IsCombatUnit(s.type)

Freshness(s, now) ==
  IF s.visible /\ AgeOf(s, now) <= LiveWindow THEN "LIVE"
  ELSE IF AgeOf(s, now) <= FreshWindow THEN "RECENT" ELSE "HISTORICAL"

CurrentVisibleCombat(ss, now) ==
  Cardinality({s \in ss : IsCombatSighting(s) /\ IsCurrentlyVisible(s, now)})
RecentUniqueCombat(ss, now) ==
  Cardinality({s.key : s \in {r \in ss : IsCombatSighting(r)
                                         /\ now - r.last <= RecentUniqueWindow}})
HistoricalSightingCount(ss) == Cardinality({s \in ss : IsCombatSighting(s)})
EstimatedForce(ss, now) ==
  SumOver(SetToSeq({s \in ss : IsCombatSighting(s)}), LAMBDA s : CurrentConfidence(s, now))

ComputeForceCounts(ss, now) ==
  [visible |-> CurrentVisibleCombat(ss, now), recent |-> RecentUniqueCombat(ss, now),
   historical |-> HistoricalSightingCount(ss), force |-> EstimatedForce(ss, now)]

\* The filter both views start with: nothing the members control.
NotAlly(ss, ally) == {s \in ss : s.key \notin ally /\ (s.id = None \/ s.id \notin ally)}

-----------------------------------------------------------------------------
(* The threat field: a cell's threat is the sum over the sightings around. *)

ProximityWeight(d) == One \div (1 + d)

Projects(s) == s.kind = "CORE" \/ IsCombatSighting(s)

\* What one sighting adds to a cell.
Projection(s, cell, now) ==
  LET d == Manhattan(s.pos, cell)
      seen == IsCurrentlyVisible(s, now)
      near == d <= (IF s.kind = "CORE" THEN CoreRaidRadius ELSE ThreatFieldRadius)
      decayed == (CurrentConfidence(s, now) * ProximityWeight(d)) \div One
  IN  [direct    |-> IF near /\ s.kind = "UNIT" /\ seen THEN ProximityWeight(d) ELSE 0,
       projected |-> IF near /\ s.kind = "UNIT" /\ ~seen THEN decayed ELSE 0,
       raid      |-> IF near /\ s.kind = "CORE" THEN decayed ELSE 0,
       uncertainty |-> IF near THEN One - CurrentConfidence(s, now) ELSE 0]

NoThreat == [direct |-> 0, projected |-> 0, raid |-> 0, uncertainty |-> 0]

AddThreat(a, b) ==
  [direct |-> a.direct + b.direct, projected |-> a.projected + b.projected,
   raid |-> a.raid + b.raid, uncertainty |-> Larger(a.uncertainty, b.uncertainty)]

\* The field with what is stale left in.
ThreatAtOfAll(ss, cell, now) ==
  FoldLeft(LAMBDA acc, s : AddThreat(acc, Projection(s, cell, now)),
           NoThreat, SetToSeq({s \in ss : Projects(s)}))

\* project_threat_field at a cell: stale sightings are left out.
ThreatAt(ss, cell, now) ==
  LET active == {s \in ss : Freshness(s, now) # "HISTORICAL" /\ Projects(s)}
  IN  FoldLeft(LAMBDA acc, s : AddThreat(acc, Projection(s, cell, now)),
               NoThreat, SetToSeq(active))

\* adjust_with_leaderboard_prior at a cell: the owners' aggression adds to the
\* raid threat around every core sighting, of whatever age.
PriorStrength == 300
PriorAt(ss, cell, aggression) ==
  SumOver(SetToSeq({s \in ss : /\ s.kind = "CORE" /\ s.owner # None
                               /\ Manhattan(s.pos, cell) <= CoreRaidRadius}),
          LAMBDA s : (aggression[s.owner] * PriorStrength
                        * ProximityWeight(Manhattan(s.pos, cell))) \div (One * One))

AdjustedThreatAt(ss, cell, now, aggression) ==
  LET t == ThreatAt(ss, cell, now)
  IN  [t EXCEPT !.raid = @ + PriorAt(ss, cell, aggression)]

\* max_direct: the cell with the most direct threat, the smallest on ties.
MaxDirect(ss, cells, now, precedes(_, _)) ==
  CHOOSE c \in cells : \A d \in cells \ {c} :
     LET tc == ThreatAt(ss, c, now).direct
         td == ThreatAt(ss, d, now).direct
     IN  tc > td \/ (tc = td /\ precedes(c, d))

-----------------------------------------------------------------------------
(* Threat summaries: what comes at one core, by direction. *)

Directions == <<"N", "NE", "E", "SE", "S", "SW", "W", "NW">>

\* threat_direction: north is where y grows.
ThreatDirection(core, target) ==
  LET dx == target[1] - core[1]
      dy == target[2] - core[2]
  IN  CASE dx = 0 -> IF dy >= 0 THEN "N" ELSE "S"
        [] dy = 0 -> IF dx > 0 THEN "E" ELSE "W"
        [] dx > 0 -> IF dy > 0 THEN "NE" ELSE "SE"
        [] OTHER  -> IF dy < 0 THEN "SW" ELSE "NW"

\* ThreatSummaryConfig, in thousandths.
CoreWeight == 4
UnitWeight == 1
DistanceScale == 16
MaxDistance == 96
HighScore == 550
MaxSectorScore == 16 * One

Contribution(kind, confidence, d) ==
  IF d > MaxDistance THEN 0
  ELSE ((IF kind = "CORE" THEN CoreWeight ELSE UnitWeight) * confidence * DistanceScale)
         \div (DistanceScale + d)

\* The sightings of a direction that score at all.
SectorOf(core, ss, dir) ==
  {s \in ss : /\ s.kind \in {"CORE", "UNIT"}
              /\ Contribution(s.kind, s.confidence, Manhattan(core, s.pos)) > 0
              /\ ThreatDirection(core, s.pos) = dir}

\* One sector: the sum of its scores, capped as it grows.
ThreatSector(core, ss, dir) ==
  LET mine == SectorOf(core, ss, dir)
  IN  [keys |-> {s.key : s \in mine},
       score |-> FoldLeft(LAMBDA acc, s : Smaller(MaxSectorScore,
                            acc + Contribution(s.kind, s.confidence, Manhattan(core, s.pos))),
                          0, SetToSeq(mine)),
       nearest |-> IF mine = {} THEN None
                   ELSE CHOOSE d \in {Manhattan(core, s.pos) : s \in mine} :
                          \A s \in mine : d <= Manhattan(core, s.pos)]

\* Two high directions that are not next to each other on the compass.
NonAdjacentHighPressure(high) ==
  \E i, j \in DOMAIN Directions :
    /\ i < j /\ {Directions[i], Directions[j]} \subseteq high
    /\ Smaller(j - i, 8 - (j - i)) >= 2

BuildTenantThreat(core, ss) ==
  LET sector == [d \in Range(Directions) |->
                   IF core = None THEN [keys |-> {}, score |-> 0, nearest |-> None]
                   ELSE ThreatSector(core, ss, d)]
      high == {d \in Range(Directions) : sector[d].score >= HighScore}
  IN  [sectors |-> sector, high |-> high,
       multi |-> NonAdjacentHighPressure(high),
       total |-> SumOver(Directions, LAMBDA d : sector[d].score)]

ThreatSummaryOfAll(core, ss, now) == BuildTenantThreat(core, ss)

\* build_threat_summaries_from_snapshot, for one member.
ThreatSummary(core, ss, now) ==
  BuildTenantThreat(core, {s \in ss : Freshness(s, now) # "HISTORICAL"})

-----------------------------------------------------------------------------
(* The fused view of shared_intel.py: several sightings of one key may come *)
(* from several members; one of them speaks for the entity.                 *)

EvidenceRank(e) ==
  CASE e = "LIVE" -> 4 [] e = "CALIBRATION" -> 3 [] e = "LEADERBOARD" -> 2 [] OTHER -> 1

\* _winner_compare: newest, then visible, then evidence, then confidence; a
\* tie beyond that is settled by the names of tenants and owners.
WinnerRank(s) == <<s.last, IF s.visible THEN 1 ELSE 0, EvidenceRank(s.evidence), s.confidence>>
Outranks(a, b) ==
  LET x == WinnerRank(a)
      y == WinnerRank(b)
  IN  \E i \in 1..4 : x[i] > y[i] /\ \A j \in 1..(i - 1) : x[j] = y[j]

WinnerOf(bucket) == CHOOSE s \in bucket : \A r \in bucket : ~Outranks(r, s)

IntelFreshnessByAge(winner, age) ==
  IF age <= LiveWindow THEN "LIVE" ELSE IF age <= FreshWindow THEN "RECENT" ELSE "HISTORICAL"

\* _classify_freshness: the tiers of the fused view, from its own windows.
IntelFreshness(winner, age) ==
  IF winner.visible /\ age <= LiveWindow THEN "LIVE"
  ELSE IF age <= FreshWindow THEN "RECENT" ELSE "HISTORICAL"

FuseEntitySightings(ss, now) ==
  {LET bucket == {s \in ss : s.key = k}
       w == WinnerOf(bucket)
   IN  [sighting |-> w, sources |-> {s.tenant : s \in bucket}, age |-> AgeOf(w, now),
        freshness |-> IntelFreshness(w, AgeOf(w, now))] : k \in {s.key : s \in ss}}

\* aggregate_alliance_intel: three nested tiers and their counts.
IntelTiers(known) ==
  LET live   == {f \in known : f.freshness = "LIVE"}
      recent == {f \in known : f.freshness # "HISTORICAL"}
      count(fs, kind) == Cardinality({f \in fs : f.sighting.kind = kind})
  IN  [live |-> live, recent |-> recent, known |-> known,
       units |-> <<count(live, "UNIT"), count(recent, "UNIT"), count(known, "UNIT")>>,
       cores |-> <<count(live, "CORE"), count(recent, "CORE"), count(known, "CORE")>>]
AggregateAllianceIntel(ss, ally, now) == IntelTiers(FuseEntitySightings(NotAlly(ss, ally), now))

-----------------------------------------------------------------------------
(* The snapshot: build_alliance_snapshot_from_sightings. *)

BuildSnapshot(ss, ally, now) ==
  LET kept == NotAlly(ss, ally)
  IN  [sightings |-> kept,
       counts    |-> ComputeForceCounts(kept, now),
       freshness |-> [k \in {s.key : s \in kept} |->
                        Freshness(CHOOSE s \in kept : s.key = k, now)],
       stale     |-> {s.key : s \in {r \in kept : Freshness(r, now) = "HISTORICAL"}},
       window    |-> IF kept = {} THEN <<now, now>>
                     ELSE <<CHOOSE f \in {s.first : s \in kept} :
                              \A s \in kept : f <= s.first, now>>]
=============================================================================
