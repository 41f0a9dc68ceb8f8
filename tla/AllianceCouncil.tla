--------------------------- MODULE AllianceCouncil ---------------------------
(***************************************************************************)
(* The alliance's council: what the members report, the trails of the enemy*)
(* cores they hunt, the audits and the news change one at a time, tasks are*)
(* offered and withdrawn, and the three read models - the market, the      *)
(* defence panel and the advice panel - are computed anew from what there  *)
(* is (command_center/projections/alliance_defense.py, alliance_advice.py).*)
(***************************************************************************)
EXTENDS AllianceAdvice

CONSTANTS
  Allies,         \* the members, 1..n in the order of their ids
  CorePlaces,     \* for each member, the cells its core may stand on
  Strengths,      \* the numbers of combat units a member may have
  FirstStrengths, \* and how many each may have at the start
  Purses,         \* the resources its core may hold
  EnemyCores,     \* the enemy cores that are hunted, in the order of their keys
  HuntedPlaces,   \* where they are seen
  Tasks,          \* the tasks that may be offered
  Capacities,     \* for each member, its capacity for tasks
  Audits,         \* what the audit of a member may say
  News,           \* the heat, sectors, profiles, overlaps and chunks to resurvey
  MaxEvents       \* bound: changes of the council's inputs

\* Tasks are told apart by their ids; a capacity is a number, none is negative.
ASSUME MarketAssumption ==
  /\ IsFiniteSet(Tasks) /\ None \notin Int
  /\ \A x \in Tasks : /\ x.id \in Nat /\ x.priority \in Int /\ x.weight \in Int
                      /\ x.deadline \in Nat \cup {None}
  /\ \A x, y \in Tasks : x.id = y.id => x = y
  /\ DOMAIN Capacities \subseteq Nat /\ Capacities \in [DOMAIN Capacities -> Nat]

VARIABLES
  members,        \* for each member, [core, military, resources, status]
  trails,         \* for each enemy core, its last two points
  audits,         \* for each member, its audit
  news,           \* the rest of the feed
  offers,         \* the tasks offered, in the order they came
  now             \* the tick, one per change

councilVars == <<members, trails, audits, news, offers, now>>

QuietAudit == [visible |-> 0, never |-> 0, delta |-> None, stall |-> None, rejected |-> 0,
               assigned |-> 0, stale |-> 0, harvested |-> 0, open |-> 0, gold |-> None]
NoNews == [heat |-> << >>, sectors |-> << >>, profiles |-> << >>, overlaps |-> << >>,
           resurvey |-> << >>]

-----------------------------------------------------------------------------
(* What the panels are computed from. *)

Hunted == SelectSeq(EnemyCores, LAMBDA e : trails[e] # << >>)

ThreatOf(t) ==
  LET mine == SelectSeq(news.sectors, LAMBDA s : s.tenant = t)
  IN  IF mine = << >> THEN [high |-> {}, total |-> 0, count |-> 0] ELSE Last(mine)

\* _defense_member_from_payload: the threat summary is joined by tenant.
DefenseMembers ==
  [i \in DOMAIN Allies |->
     LET t == Allies[i]
     IN  [tenant |-> t, core |-> members[t].core, military |-> members[t].military,
          status |-> members[t].status, threat |-> ThreatOf(t).total,
          dirs |-> ThreatOf(t).high, enemies |-> ThreatOf(t).count]]

\* _pocket_cores_from_sightings.
PocketCores ==
  [i \in DOMAIN Hunted |-> [key |-> Hunted[i], pos |-> Last(trails[Hunted[i]]).pos]]

\* load_alliance_advice: everything the advice is made of.
CouncilFeed ==
  news @@
  [members |-> [i \in DOMAIN Allies |-> [tenant |-> Allies[i], tick |-> now] @@ members[Allies[i]]],
   sightings |-> [i \in DOMAIN Hunted |->
                    [kind |-> "CORE", owner |-> Hunted[i], tenant |-> Allies[1],
                     pos |-> Last(trails[Hunted[i]]).pos, seen |-> Last(trails[Hunted[i]]).tick]],
   now |-> now, audit |-> audits,
   trails |-> [t \in DOMAIN members |->
                 [i \in DOMAIN Hunted |-> [username |-> Hunted[i], trail |-> trails[Hunted[i]]]]]]

Defense == DefensePayload(DefenseMembers, PocketCores)
Panel == AdvicePayload(CouncilFeed)
Market == AssignTasks(offers, Capacities)

-----------------------------------------------------------------------------
(* What changes. *)

CouncilInit ==
  /\ \E strength \in FirstStrengths :
       members = [t \in ToSet(Allies) |->
                    [core |-> CHOOSE p \in CorePlaces[t] : TRUE, military |-> strength[t],
                     resources |-> 20, status |-> "READY"]]
  /\ trails = [e \in ToSet(EnemyCores) |-> << >>]
  /\ audits = [t \in ToSet(Allies) |-> QuietAudit]
  /\ news = NoNews
  /\ offers = << >>
  /\ now = 1

\* A member's units, its resources or its core are not what they were.
MemberReports(t) ==
  /\ \/ \E n \in Strengths : members' = [members EXCEPT ![t].military = n]
     \/ \E n \in Purses : members' = [members EXCEPT ![t].resources = n]
     \/ \E p \in CorePlaces[t] : members' = [members EXCEPT ![t].core = p, ![t].status = "READY"]
     \/ members' = [members EXCEPT ![t].core = None, ![t].status = "RESPAWNING"]
  /\ UNCHANGED <<trails, audits, news, offers>>

EnemyIsSeen(e) ==
  /\ \E p \in HuntedPlaces :
       trails' = [trails EXCEPT ![e] = Append(IF Len(@) = 2 THEN Tail(@) ELSE @,
                                              [pos |-> p, tick |-> now])]
  /\ UNCHANGED <<members, audits, news, offers>>

AuditChanges(t) ==
  /\ \E a \in Audits : audits' = [audits EXCEPT ![t] = a]
  /\ UNCHANGED <<members, trails, news, offers>>

NewsArrives ==
  /\ news' \in News
  /\ UNCHANGED <<members, trails, audits, offers>>

TaskIsOffered ==
  /\ \E t \in Tasks \ ToSet(offers) : WellFormedTask(t) /\ offers' = Append(offers, t)
  /\ UNCHANGED <<members, trails, audits, news>>

TaskIsWithdrawn ==
  /\ \E i \in DOMAIN offers : offers' = RemoveAt(offers, i)
  /\ UNCHANGED <<members, trails, audits, news>>

CouncilNext ==
  /\ now <= MaxEvents
  /\ now' = now + 1
  /\ \/ \E t \in ToSet(Allies) : MemberReports(t) \/ AuditChanges(t)
     \/ \E e \in ToSet(EnemyCores) : EnemyIsSeen(e)
     \/ NewsArrives
     \/ TaskIsOffered
     \/ TaskIsWithdrawn

CouncilSpec == CouncilInit /\ [][CouncilNext]_councilVars

-----------------------------------------------------------------------------
(* Properties. *)

TenantOf(market, task) ==
  {a[2] : a \in {b \in market.assigned : b[1] = task.id}}

\* The market does not depend on the order in which tasks were offered; a
\* member's capacity is what it has left and the weights it took; no task is
\* turned away that a member it may go to could still take; and a task changes
\* nothing for the tasks that come before it.
MarketIsFairAs(m) ==
  LET taken(t) == {x \in ToSet(offers) : <<x.id, t>> \in m.assigned}
  IN  /\ m.ok /\ m = AssignTasks(Reverse(offers), Capacities)
      /\ \A x \in ToSet(offers) :
           /\ (TenantOf(m, x) = {}) <=> (\E r \in m.rejected : r[1] = x.id)
           /\ TenantOf(m, x) = {} =>
                \A t \in CandidateTenants(x, DOMAIN Capacities) : m.remaining[t] < x.weight
      /\ \A i \in DOMAIN offers :
           LET less == AssignTasks(RemoveAt(offers, i), Capacities)
           IN  \A y \in ToSet(offers) : ComesBefore(y, offers[i]) => TenantOf(m, y) = TenantOf(less, y)
      /\ \A t \in DOMAIN Capacities :
           /\ m.remaining[t] >= 0
           /\ FoldLeft(LAMBDA n, x : n + (IF x \in taken(t) THEN x.weight ELSE 0),
                       m.remaining[t], offers) = Capacities[t]
MarketIsFair == MarketIsFairAs(Market)

\* Whoever is asked to help is not in need of help, is asked by a member that
\* is, is the nearest that could, and keeps a unit at home; every enemy core is
\* in at most one pocket, every core of a pocket is near another one of it, and
\* every member that is told of a pocket is within its reach.
HelpIsSoundOn(panel) ==
  LET inNeed == {m.tenant : m \in ToSet(panel.endangered)}
  IN  /\ \A a \in {x \in ToSet(panel.advice) : x.category = "REINFORCE"} :
           /\ a.tenant \notin inNeed /\ ToSet(a.related) \subseteq inNeed
           /\ a.what.force[1] + a.what.force[2] \in 1..(members[a.tenant].military - 1)
           /\ \A t \in ToSet(Allies) \ inNeed : \A u \in ToSet(a.related) :
                members[t].core # None /\ members[t].military > 1 =>
                  Chebyshev(members[u].core, members[a.tenant].core)
                    <= Chebyshev(members[u].core, members[t].core)
      /\ \A i \in DOMAIN panel.pockets :
           LET cores == panel.pockets[i].cores
           IN  /\ \A j \in DOMAIN cores : \E k \in DOMAIN cores \ {j} :
                    Chebyshev(cores[j].pos, cores[k].pos) <= ClusterDist
               /\ \A h \in DOMAIN panel.pockets \ {i} :
                    ToSet(cores) \cap ToSet(panel.pockets[h].cores) = {}
               /\ \A m \in ToSet(panel.pockets[i].threatened) : \E j \in DOMAIN cores :
                    Chebyshev(m.core, cores[j].pos) <= PocketRadius
HelpIsSound == HelpIsSoundOn(Defense)

\* What the advice panel leaves out is never more urgent than what it shows,
\* what is left out is counted, and nothing is said twice; a member that has no
\* unit and an enemy core next to it is told so on both panels, and on the
\* advice panel nothing that is not critical stands before it.
Helpless ==
  {t \in ToSet(Allies) :
     /\ members[t].military = 0 /\ members[t].core # None
     /\ \E e \in ToSet(Hunted) :
          Manhattan(Last(trails[e]).pos, members[t].core) <= NoCombatCoreRadius}
UrgentIsShownOn(panel, all) ==
  LET shown == ToSet(panel.advice)
      counted == FoldLeft(LAMBDA n, s : n + panel.summary[s], panel.dedupCount,
                          SetToSeq(DOMAIN panel.summary))
  IN  /\ counted = Len(all)
      /\ \A i, j \in DOMAIN panel.advice : i < j =>
           /\ ~IsMoreUrgent(panel.advice[j], panel.advice[i])
           /\ DedupKey(panel.advice[i]) # DedupKey(panel.advice[j])
      /\ \A a \in ToSet(all) : \/ \E b \in shown : DedupKey(a) = DedupKey(b)
                               \/ /\ Cardinality(shown) = AdviceLimit
                                  /\ \A b \in shown : ~IsMoreUrgent(a, b)
      /\ \A t \in Helpless :
           /\ \E m \in ToSet(Defense.endangered) : m.tenant = t
           /\ \/ \E i \in DOMAIN panel.advice :
                   /\ panel.advice[i].category = "MILITARY" /\ panel.advice[i].tenant = t
                   /\ \A j \in 1..i : panel.advice[j].severity = "CRITICAL"
              \/ \A a \in shown : a.severity = "CRITICAL"
UrgentIsShown == UrgentIsShownOn(Panel, AllAdvice(CouncilFeed))

=============================================================================
