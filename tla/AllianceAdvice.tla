--------------------------- MODULE AllianceAdvice ---------------------------
(***************************************************************************)
(* The alliance's advice panel (alliance/advice.py): eleven sources, each  *)
(* a list of advice, are put together, sorted by severity and weight,      *)
(* freed of duplicates and cut to the first AdviceLimit.                   *)
(*                                                                         *)
(* An advice is [severity, category, tenant, title, weight]. A title is a  *)
(* topic and the values that are printed in it; the detail, the action, the*)
(* confidence and the evidence are left out. Rates are percentages.        *)
(*                                                                         *)
(* What the panel is computed from is one record, the feed:                *)
(*   members   a list of [tenant, core, resources, military, tick]         *)
(*   sightings a list of [kind, owner, tenant, pos, seen]                  *)
(*   now       the snapshot's tick                                         *)
(*   heat      a list of [bx, by, combat]                                  *)
(*   sectors   a list of [tenant, high, total], the threat summaries       *)
(*   profiles  a list of [username, tier], the leaderboard                 *)
(*   overlaps  a list of cells two members have both found a mine in       *)
(*   audit     for each tenant [visible, never, delta, stall, rejected,    *)
(*             assigned, stale, harvested, open, gold]                     *)
(*   resurvey  a list of [tenant, key, stale]                              *)
(*   trails    for each tenant a list of [username, trail], a trail a list *)
(*             of [pos, tick]                                              *)
(***************************************************************************)
EXTENDS AllianceDefense

CONSTANTS
  LowResourceWarn,        \* LOW_RESOURCE_WARN
  NoCombatCoreRadius,     \* NO_COMBAT_CORE_RADIUS
  HeatThreshold,          \* HEAT_COMBAT_THRESHOLD
  HeatNearChunks,         \* HEAT_NEAR_CHUNKS
  ChunkSize,              \* 16, the side of a chunk
  ApproachRadius,         \* DEFAULT_APPROACH_RADIUS
  ProximityRadius,        \* DEFAULT_PROXIMITY_RADIUS
  StaleAfter,             \* DEFAULT_STALE_AFTER_TICKS
  ThreatCap,              \* PER_TENANT_THREAT_CAP
  AdviceLimit             \* ADVICE_LIMIT

MineOpportunityResource == 15
SightingIsRecent == 500
ResurveyIsUrgent == 5000

Advice(severity, category, tenant, title, weight) ==
  [severity |-> severity, category |-> category, tenant |-> tenant,
   title |-> title, weight |-> weight]

ChunkOf(p) == <<p[1] \div ChunkSize, p[2] \div ChunkSize>>

\* For each element of s that has the property, the advice made of it.
AdviceFor(s, Has(_), Make(_)) ==
  LET hit == SelectSeq(s, Has) IN [i \in DOMAIN hit |-> Make(hit[i])]

HasCore(m) == m.core # None

-----------------------------------------------------------------------------
(* 1, 2, 2.5, 3: the members' cores and what is near them. *)

EconomyAdvice(feed) ==
  AdviceFor(feed.members,
    LAMBDA m : m.resources < LowResourceWarn,
    LAMBDA m : Advice(IF m.resources < 5 THEN "CRITICAL" ELSE "HIGH", "ECONOMY",
                      m.tenant, <<"low", m.resources>>, -m.resources))

CoresNear(feed, m) ==
  SelectSeq(feed.sightings,
            LAMBDA s : s.kind = "CORE" /\ Manhattan(s.pos, m.core) <= NoCombatCoreRadius)

MilitaryAdvice(feed) ==
  AdviceFor(feed.members,
    LAMBDA m : m.military = 0 /\ HasCore(m) /\ CoresNear(feed, m) # << >>,
    LAMBDA m : Advice("CRITICAL", "MILITARY", m.tenant, <<"unarmed">>, -Len(CoresNear(feed, m))))

HotChunks(feed, m) ==
  {b \in ToSet(feed.heat) : b.combat >= HeatThreshold
                            /\ Chebyshev(<<b.bx, b.by>>, ChunkOf(m.core)) <= HeatNearChunks}

HeatAdvice(feed) ==
  AdviceFor(feed.members,
    LAMBDA m : HasCore(m) /\ HotChunks(feed, m) # {},
    LAMBDA m : Advice("HIGH", "THREAT", m.tenant, <<"heat">>,
                      LeastOf({-b.combat : b \in HotChunks(feed, m)})))

SectorAdvice(feed) ==
  AdviceFor(feed.sectors,
    LAMBDA t : t.high # {},
    LAMBDA t : Advice(IF t.total > 10 THEN "HIGH" ELSE "MEDIUM", "THREAT", t.tenant,
                      <<"sectors", t.high, t.total>>, -t.total))

-----------------------------------------------------------------------------
(* 4, 5, 6, 7: the leaderboard, the shared survey, the active mines. *)

\* The tier of a player: the last profile with the name, "" when none has it.
TierOf(feed, username) ==
  LET named == SelectSeq(feed.profiles, LAMBDA p : p.username = username)
  IN  IF named = << >> THEN "" ELSE Last(named).tier

AggressorAdvice(feed) ==
  AdviceFor(feed.sightings,
    LAMBDA s : /\ s.kind = "CORE" /\ s.owner # None
               /\ TierOf(feed, s.owner) \in {"ELITE_AGGRESSOR", "AGGRESSOR"}
               /\ feed.now - s.seen <= SightingIsRecent,
    LAMBDA s : Advice(IF TierOf(feed, s.owner) = "ELITE_AGGRESSOR" THEN "HIGH" ELSE "MEDIUM",
                      "INTEL", s.tenant, <<"aggressor", s.owner, feed.now - s.seen>>,
                      feed.now - s.seen))

OverlapAdvice(feed) ==
  AdviceFor(feed.overlaps, LAMBDA c : TRUE,
            LAMBDA c : Advice("MEDIUM", "CONFLICT", None, <<"overlap", c>>, 0))

EliteAdvice(feed) ==
  LET elite == SelectSeq(feed.profiles, LAMBDA p : p.tier = "ELITE_AGGRESSOR")
  IN  IF elite = << >> THEN << >>
      ELSE <<Advice("INFO", "INTEL", None, <<"elite", Lesser(5, Len(elite))>>, 0)>>

MineAdvice(feed) ==
  AdviceFor(feed.members,
    LAMBDA m : feed.audit[m.tenant].visible > 0 /\ m.resources < MineOpportunityResource,
    LAMBDA m : Advice("INFO", "ECONOMY", m.tenant, <<"mines", feed.audit[m.tenant].visible>>,
                      -feed.audit[m.tenant].visible))

-----------------------------------------------------------------------------
(* 8: the audit of each member's play. *)

NeverMinedAdvice(feed) ==
  AdviceFor(feed.members,
    LAMBDA m : feed.audit[m.tenant].never >= 10,
    LAMBDA m : Advice("HIGH", "ECONOMY", m.tenant, <<"never", feed.audit[m.tenant].never>>,
                      -feed.audit[m.tenant].never))

\* Both come from the last window of the member's trend, when there is one.
TrendAdvice(feed) ==
  LET shrinks(m) ==
        LET d == feed.audit[m.tenant].delta
        IN  IF d = None \/ d >= 0 THEN << >>
            ELSE <<Advice("HIGH", "ECONOMY", m.tenant, <<"shrinks", d>>, -d)>>
      stalls(m) ==
        LET r == feed.audit[m.tenant].stall
        IN  IF feed.audit[m.tenant].delta = None \/ r = None \/ r < 90 THEN << >>
            ELSE <<Advice("MEDIUM", "ECONOMY", m.tenant, <<"stalls", r>>, r)>>
  IN  FoldLeft(LAMBDA out, m : out \o shrinks(m) \o stalls(m), << >>, feed.members)

RejectedAdvice(feed) ==
  AdviceFor(feed.members,
    LAMBDA m : feed.audit[m.tenant].rejected >= 30,
    LAMBDA m : Advice("MEDIUM", "CONFLICT", m.tenant,
                      <<"rejected", feed.audit[m.tenant].rejected>>,
                      feed.audit[m.tenant].rejected))

\* Mines that were assigned: none of them harvested and some gone stale, none
\* harvested and some still open, or some harvested.
EffectivenessAdvice(feed) ==
  LET a(m) == feed.audit[m.tenant]
      make(m) ==
        CASE a(m).stale > 0 /\ a(m).harvested = 0 ->
               Advice("HIGH", "ECONOMY", m.tenant, <<"failed", a(m).assigned, a(m).stale>>,
                      a(m).assigned)
          [] a(m).open > 0 /\ a(m).harvested = 0 ->
               Advice("MEDIUM", "ECONOMY", m.tenant, <<"pending", a(m).assigned, a(m).open>>,
                      a(m).assigned)
          [] OTHER ->
               Advice("INFO", "ECONOMY", m.tenant,
                      <<"harvested", a(m).harvested, a(m).assigned>>, -a(m).harvested)
  IN  AdviceFor(feed.members,
        LAMBDA m : a(m).assigned >= 5 /\ (a(m).stale > 0 \/ a(m).open > 0 \/ a(m).harvested > 0),
        make)

-----------------------------------------------------------------------------
(* 9, 10: chunks to look at again, mines worth keeping. *)

\* build_resurvey_advice: for each tenant of a target, its stalest three.
BuildResurveyAdvice(targets) ==
  LET tenants == FoldLeft(LAMBDA seen, t : IF t.tenant \in ToSet(seen) THEN seen
                                           ELSE Append(seen, t.tenant), << >>, targets)
      stale(n) == {t.stale : t \in {u \in ToSet(targets) : u.tenant = n}}
      most(n) == CHOOSE s \in stale(n) : \A u \in stale(n) : u <= s
      count(n) == Lesser(3, Len(SelectSeq(targets, LAMBDA t : t.tenant = n)))
  IN  [i \in DOMAIN tenants |->
         LET n == tenants[i]
         IN  Advice(IF most(n) >= ResurveyIsUrgent THEN "MEDIUM" ELSE "INFO", "INTEL", n,
                    <<"resurvey", count(n), most(n)>>, -most(n))]

\* build_gold_mine_advice; gold is None or [cell, amount].
BuildGoldMineAdvice(feed) ==
  AdviceFor(feed.members,
    LAMBDA m : feed.audit[m.tenant].gold # None /\ feed.audit[m.tenant].gold.amount > 0,
    LAMBDA m : LET g == feed.audit[m.tenant].gold
               IN  Advice("MEDIUM", "INTEL", m.tenant, <<"gold", g.cell, g.amount>>,
                          -(g.amount * 100 + 1000)))

-----------------------------------------------------------------------------
(* 11: enemy cores that come near. *)

\* compute_core_movement: where the last two points of the trail are heading.
ComputeCoreMovement(trail, core) ==
  LET before == Chebyshev(trail[Len(trail) - 1].pos, core)
      after == Chebyshev(trail[Len(trail)].pos, core)
  IN  CASE Len(trail) < 2 -> "unknown"
        [] after < before -> "approaching"
        [] after > before -> "retreating"
        [] OTHER          -> "stationary"

\* collect_core_threats: the nearest first, of one distance the stale ones.
CollectCoreThreats(trails, core, now) ==
  LET threat(t) ==
        [username |-> t.username,
         approaching |-> ComputeCoreMovement(t.trail, core) = "approaching",
         dist |-> Chebyshev(Last(t.trail).pos, core),
         stale |-> now > 0 /\ now - Last(t.trail).tick > StaleAfter]
      near(t) == t.trail # << >>
                 /\ threat(t).dist <= (IF threat(t).approaching THEN ApproachRadius
                                       ELSE ProximityRadius)
  IN  SortSeq(AdviceFor(trails, near, threat),
              LAMBDA s, t : s.dist < t.dist \/ (s.dist = t.dist /\ s.stale /\ ~t.stale))

ThreatSeverity(t) ==
  CASE t.approaching -> IF t.dist < 30 THEN "HIGH" ELSE "MEDIUM"
    [] t.stale -> "INFO"
    [] OTHER -> IF t.dist < 15 THEN "HIGH" ELSE IF t.dist < 25 THEN "MEDIUM" ELSE "INFO"

\* The panel's order, by severity and weight; ties keep their places.
IsMoreUrgent(a, b) ==
  \/ SevOrder[a.severity] < SevOrder[b.severity]
  \/ a.severity = b.severity /\ a.weight < b.weight

Ranked(advice) ==
  LET order == SortSeq([i \in DOMAIN advice |-> i],
                       LAMBDA i, j : \/ IsMoreUrgent(advice[i], advice[j])
                                     \/ ~IsMoreUrgent(advice[j], advice[i]) /\ i < j)
  IN  [k \in DOMAIN order |-> advice[order[k]]]

FirstOf(s, n) == SubSeq(s, 1, Lesser(n, Len(s)))

ThreatAdvice(m, threats) ==
  [i \in DOMAIN threats |->
     Advice(ThreatSeverity(threats[i]), "THREAT", m.tenant,
            <<IF threats[i].approaching THEN "approach" ELSE "proximity",
              threats[i].username, threats[i].dist>>, -threats[i].dist)]

\* The first ThreatCap of a member's threats, by severity and weight.
CoreThreatAdvice(feed) ==
  FoldLeft(LAMBDA out, m :
             out \o (IF HasCore(m)
                       THEN FirstOf(Ranked(ThreatAdvice(m,
                              CollectCoreThreats(feed.trails[m.tenant], m.core, m.tick))), ThreatCap)
                       ELSE << >>),
           << >>, feed.members)

-----------------------------------------------------------------------------
(* build_alliance_advice_payload. *)

AllAdvice(feed) ==
  EconomyAdvice(feed) \o MilitaryAdvice(feed) \o HeatAdvice(feed) \o SectorAdvice(feed)
  \o AggressorAdvice(feed) \o OverlapAdvice(feed) \o EliteAdvice(feed) \o MineAdvice(feed)
  \o NeverMinedAdvice(feed) \o TrendAdvice(feed) \o RejectedAdvice(feed)
  \o EffectivenessAdvice(feed) \o BuildResurveyAdvice(feed.resurvey)
  \o BuildGoldMineAdvice(feed) \o CoreThreatAdvice(feed)

DedupKey(a) == <<a.category, a.tenant, a.title>>

Deduped(advice) ==
  FoldLeft(LAMBDA out, a : IF \E b \in ToSet(out) : DedupKey(b) = DedupKey(a)
                             THEN out ELSE Append(out, a), << >>, advice)

\* What the panel says when this is kept of all advice and this is shown.
PanelOf(all, kept, shown) ==
  [advice |-> shown, dedupCount |-> Len(all) - Len(kept),
   summary |-> [s \in DOMAIN SevOrder |-> Len(SelectSeq(kept, LAMBDA a : a.severity = s))]]

\* A panel that is cut before it is sorted.
PanelCutFirst(all) ==
  PanelOf(all, Deduped(all), Ranked(FirstOf(Deduped(all), AdviceLimit)))

PanelRanked(all) ==
  PanelOf(all, Deduped(Ranked(all)), FirstOf(Deduped(Ranked(all)), AdviceLimit))

AdvicePayload(feed) == PanelRanked(AllAdvice(feed))
=============================================================================
