--------------------------- MODULE AllianceDefense ---------------------------
(***************************************************************************)
(* What the alliance advises its members for their defence                 *)
(* (alliance/defense.py, command_center/projections/alliance_defense.py):  *)
(* who is endangered, who can come to help and with what, how tight the    *)
(* members stand, and which groups of enemy cores threaten several of them.*)
(* The texts of the advice are left out; what they are about is kept.  The *)
(* task market comes first.                                                *)
(*                                                                         *)
(* A member is [tenant, core, military, status, threat, dirs, enemies],    *)
(* its core a cell or None; an enemy core is [key, owner, pos].            *)
(***************************************************************************)
EXTENDS AlliancePlane, Sequences, FiniteSets, SequencesExt

-----------------------------------------------------------------------------
(* The alliance's task market (alliance/task_market.py): tasks go, the     *)
(* most urgent first, to the first member that may take them and has the   *)
(* capacity left; the others are rejected.                                 *)
(*                                                                         *)
(* A task is [id, priority, deadline, weight, eligible, required]; deadline*)
(* and required may be None, eligible is a set, empty for everyone.        *)
(* Members and tasks are numbered in the order of their ids.               *)

\* MarketTask.__post_init__: what the market refuses to look at.
WellFormedTask(t) ==
  /\ t.priority >= 0 /\ t.weight >= 1
  /\ t.required # None /\ t.eligible # {} => t.required \in t.eligible

\* The order without the id that settles ties.
ComesBeforeWithTies(a, b) ==
  \/ a.priority > b.priority
  \/ a.priority = b.priority /\ a.deadline # None /\ (b.deadline = None \/ a.deadline < b.deadline)

\* order_key: priority, then deadline, no deadline last, then the id.
ComesBefore(a, b) ==
  \/ a.priority > b.priority
  \/ /\ a.priority = b.priority
     /\ \/ a.deadline # None /\ b.deadline = None
        \/ a.deadline # None /\ b.deadline # None /\ a.deadline < b.deadline
        \/ a.deadline = b.deadline /\ a.id < b.id

\* _candidate_tenants.
CandidateTenants(task, market) ==
  CASE task.required # None -> {task.required} \cap market
    [] task.eligible # {}   -> task.eligible \cap market
    [] OTHER                -> market

\* The candidate of the smallest id with enough capacity left, or None.
ChosenTenant(task, remaining) ==
  LET able == {t \in CandidateTenants(task, DOMAIN remaining) : remaining[t] >= task.weight}
  IN  IF able = {} THEN None ELSE CHOOSE t \in able : \A u \in able : t <= u

\* _rejection_reason.
RejectionReason(task, remaining) ==
  CASE task.required # None ->
         IF task.required \in DOMAIN remaining THEN "required is full" ELSE "required is absent"
    [] task.eligible # {} /\ \A t \in task.eligible \cap DOMAIN remaining :
                               remaining[t] < task.weight -> "eligible are full"
    [] OTHER -> "all are full"

AssignOne(m, task) ==
  LET t == ChosenTenant(task, m.remaining)
  IN  IF t = None
        THEN [m EXCEPT !.rejected = @ \cup {<<task.id, RejectionReason(task, m.remaining)>>}]
        ELSE [m EXCEPT !.remaining[t] = @ - task.weight, !.assigned = @ \cup {<<task.id, t>>}]

\* Which of some of the tasks is handled last; of tasks that tie, the one that
\* was offered last.
LastInOrder(tasks, S) ==
  CHOOSE i \in S : \A j \in S \ {i} :
    ComesBefore(tasks[j], tasks[i]) \/ (~ComesBefore(tasks[i], tasks[j]) /\ j < i)

\* assign_tasks; ok says whether AssignmentResult can be built from what it
\* found, which fails when an id was given twice.
AssignTasks(tasks, capacities) ==
  LET result == MapThenFoldSet(LAMBDA i, m : AssignOne(m, tasks[i]),
                               [remaining |-> capacities, assigned |-> {}, rejected |-> {}],
                               LAMBDA i : i, LAMBDA S : LastInOrder(tasks, S), DOMAIN tasks)
  IN  [assigned |-> result.assigned, rejected |-> result.rejected,
       remaining |-> result.remaining,
       ok |-> Cardinality({tasks[i].id : i \in DOMAIN tasks}) = Len(tasks)]

-----------------------------------------------------------------------------
(* The defence.                                                            *)
CONSTANTS
  ReinforceRange,        \* REINFORCE_RANGE
  ClusterDist,           \* DEFAULT_POCKET_CLUSTER_DIST
  PocketRadius,          \* DEFAULT_POCKET_THREAT_RADIUS
  TightMax, LooseMax     \* FORMATION_TIGHT_MAX, FORMATION_LOOSE_MAX

EndangeredCombatMax == 1
EndangeredThreatMin == 6
ReinforceCombatMin == 2

Greater(a, b) == IF a < b THEN b ELSE a
Lesser(a, b) == IF a < b THEN a ELSE b
Chebyshev(p, q) == Greater(AbsOf(p[1] - q[1]), AbsOf(p[2] - q[2]))
LeastOf(S) == CHOOSE n \in S : \A m \in S : n <= m

\* A severity comes before another on the panel.
SevOrder == [CRITICAL |-> 0, HIGH |-> 1, MEDIUM |-> 2, INFO |-> 3]

DefenseAdvice(category, severity, tenant, related, what) ==
  [category |-> category, severity |-> severity, tenant |-> tenant,
   related |-> related, what |-> what]

\* direction_of: C when b is within 3 cells of a both ways.
DirectionOf(a, b) ==
  LET dx == b[1] - a[1]
      dy == b[2] - a[2]
      ax == AbsOf(dx)
      ay == AbsOf(dy)
  IN  CASE ax < 3 /\ ay < 3 -> "C"
        [] 2 * ax < ay -> IF dy > 0 THEN "N" ELSE "S"
        [] 2 * ay < ax -> IF dx > 0 THEN "E" ELSE "W"
        [] dx > 0 -> IF dy > 0 THEN "NE" ELSE "SE"
        [] OTHER -> IF dx < 0 /\ dy < 0 THEN "SW" ELSE "NW"

-----------------------------------------------------------------------------
(* Endangered members. *)

\* endangered_of: the reason, or None.
EndangeredOf(m) ==
  CASE m.status = "RESPAWNING" -> "respawn"
    [] m.military = 0 -> "zero"
    [] m.military <= EndangeredCombatMax /\ m.threat >= EndangeredThreatMin -> "weak"
    [] OTHER -> None

EndangeredSeverity(m) ==
  CASE EndangeredOf(m) = "respawn" -> "CRITICAL"
    [] EndangeredOf(m) = "zero" -> IF m.threat >= EndangeredThreatMin THEN "CRITICAL" ELSE "HIGH"
    [] OTHER -> IF m.threat >= 10 THEN "CRITICAL" ELSE "HIGH"

Endangered(members) == SelectSeq(members, LAMBDA m : EndangeredOf(m) # None)

EndangeredAdvice(m) ==
  DefenseAdvice("ENDANGERED", EndangeredSeverity(m), m.tenant, << >>, EndangeredOf(m))

-----------------------------------------------------------------------------
(* Reinforcement. *)

\* suggested_raid_force: <<vanguards, rangers>> to send, or None.
SuggestedRaidForce(enemies, surplus) ==
  LET want == Greater(2, (3 * enemies + 1) \div 2)
      send == Lesser(want, surplus)
      rangers == IF send >= 5 THEN Lesser(2, send \div 3) ELSE 0
  IN  IF surplus <= 0 THEN None ELSE <<send - rangers, rangers>>

CanHelp(n, m) ==
  /\ n.tenant # m.tenant /\ EndangeredOf(n) = None
  /\ n.military >= ReinforceCombatMin /\ n.core # None
  /\ Chebyshev(m.core, n.core) <= ReinforceRange

\* The nearest member that can help, the first in the list on ties.
NearestHelper(members, m) ==
  LET able == {i \in DOMAIN members : CanHelp(members[i], m)}
      dist(i) == Chebyshev(m.core, members[i].core)
      first == CHOOSE i \in able : \A j \in able : dist(i) < dist(j) \/ (dist(i) = dist(j) /\ i <= j)
  IN  IF able = {} THEN None ELSE members[first]

\* Advice to send everyone.
ReinforceWithAll(helper, m) ==
  LET side == DirectionOf(m.core, helper.core)
  IN  DefenseAdvice("REINFORCE", "HIGH", helper.tenant, <<m.tenant>>,
        [force |-> SuggestedRaidForce(m.enemies, helper.military),
         side |-> side, onFlank |-> side # "C" /\ side \in m.dirs])

\* The advice to a helper: what to send, from where, and whether that side is
\* where the threat is.
ReinforceAdvice(helper, m) ==
  LET side == DirectionOf(m.core, helper.core)
  IN  DefenseAdvice("REINFORCE", "HIGH", helper.tenant, <<m.tenant>>,
        [force |-> SuggestedRaidForce(m.enemies, Greater(0, helper.military - 1)),
         side |-> side, onFlank |-> side # "C" /\ side \in m.dirs])

Reinforcements(members) ==
  LET helped == SelectSeq(Endangered(members),
                          LAMBDA m : m.core # None /\ NearestHelper(members, m) # None)
  IN  [i \in DOMAIN helped |-> ReinforceAdvice(NearestHelper(members, helped[i]), helped[i])]

-----------------------------------------------------------------------------
(* Formation: the median of the distances between the members' cores. *)

PairDistances(cores) ==
  LET pairs == SetToSeq({p \in (DOMAIN cores) \X (DOMAIN cores) : p[1] < p[2]})
      dists == [k \in DOMAIN pairs |-> Chebyshev(cores[pairs[k][1]], cores[pairs[k][2]])]
  IN  SortSeq(dists, LAMBDA a, b : a < b)

FormationAdvice(members) ==
  LET placed == SelectSeq(members, LAMBDA m : m.core # None)
      dists == PairDistances([i \in DOMAIN placed |-> placed[i].core])
      median == dists[(Len(dists) \div 2) + 1]
      label == IF median < TightMax THEN "tight" ELSE IF median < LooseMax THEN "loose" ELSE "scattered"
  IN  IF Len(placed) < 3 THEN << >>
      ELSE <<DefenseAdvice("FORMATION", IF median < LooseMax THEN "INFO" ELSE "MEDIUM",
                           placed[1].tenant, [i \in DOMAIN placed |-> placed[i].tenant], label)>>

\* The panel's order: by severity; the ids that settle ties are left out, the
\* advice of one severity keeps the order it was given in.
SortBySeverity(advice) ==
  FlattenSeq([i \in 1..4 |-> SelectSeq(advice, LAMBDA a : SevOrder[a.severity] = i - 1)])

\* build_defense_coordination.
BuildDefenseCoordination(members) ==
  LET hurt == Endangered(members)
  IN  SortBySeverity([i \in DOMAIN hurt |-> EndangeredAdvice(hurt[i])]
                     \o Reinforcements(members) \o FormationAdvice(members))

-----------------------------------------------------------------------------
(* Pockets: groups of enemy cores between several members. *)

\* A core joins the first group it is near to; a core that is near to two
\* groups does not join them.
JoinsGroup(group, core) == \E i \in DOMAIN group : Chebyshev(group[i].pos, core.pos) <= ClusterDist

AddToGroups(groups, core) ==
  LET near == {g \in DOMAIN groups : JoinsGroup(groups[g], core)}
  IN  IF near = {} THEN Append(groups, <<core>>)
      ELSE [groups EXCEPT ![LeastOf(near)] = Append(@, core)]

PocketGroups(cores) == FoldLeft(AddToGroups, << >>, cores)

DistToGroup(m, group) == LeastOf({Chebyshev(m.core, group[i].pos) : i \in DOMAIN group})

Threatened(members, group) ==
  SelectSeq(members, LAMBDA m : m.core # None /\ DistToGroup(m, group) <= PocketRadius)

\* build_defense_pockets: at least two cores that threaten at least two members.
BuildDefensePockets(members, cores) ==
  LET groups == SelectSeq(PocketGroups(cores),
                          LAMBDA g : Len(g) >= 2 /\ Len(Threatened(members, g)) >= 2)
  IN  [i \in DOMAIN groups |->
         [cores |-> groups[i], threatened |-> Threatened(members, groups[i]),
          distance |-> LeastOf({DistToGroup(m, groups[i]) :
                                  m \in ToSet(Threatened(members, groups[i]))})]]

\* build_defense_pocket_advice.
PocketAdvice(pocket) ==
  LET tenants == [i \in DOMAIN pocket.threatened |-> pocket.threatened[i].tenant]
  IN  DefenseAdvice("POCKET", "MEDIUM", tenants[1], tenants, {c.key : c \in ToSet(pocket.cores)})

\* build_alliance_defense_payload: coordination and pockets on one panel.
DefensePanel(coordination, endangered, pockets) ==
  [advice |-> SortBySeverity(coordination \o [i \in DOMAIN pockets |-> PocketAdvice(pockets[i])]),
   endangered |-> endangered, pockets |-> pockets]
DefensePayload(members, cores) ==
  DefensePanel(BuildDefenseCoordination(members), Endangered(members),
               BuildDefensePockets(members, cores))
=============================================================================
