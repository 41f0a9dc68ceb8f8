----------------------------- MODULE HumanOrders -----------------------------
(***************************************************************************)
(* The orders a human gives to single units of one tenant, and the one     *)
(* file they live in, data/runtime/human-commands/<tenant>.json.           *)
(*                                                                         *)
(*   editors      the write routes of the Command Center: read the file,   *)
(*                change it, rename a new one over it (command_center/     *)
(*                human_store.py, goal_store.py; the routes themselves are *)
(*                documented but not part of the package)                  *)
(*   reconciler   reconcile_human_store: the same read-modify-write, which *)
(*                drops the orders the agent's last outcome row settles    *)
(*   agent        reads the file once a tick, lays the orders over its     *)
(*                plan (human_override.py) and reports what became of them *)
(*                                                                         *)
(* What an order asks for is not modelled, only what the agent reports.    *)
(* A unit's action, and whether an order is valid or a goal is reached, is *)
(* up to the world: any outcome may come in any tick.                      *)
(***************************************************************************)
EXTENDS Naturals, Sequences, FiniteSets

CONSTANTS
  Units,         \* units (and the core) a human can address
  Aims,          \* what a goal can ask for: a kind and a target
  None, Idle,    \* nothing read or reported; between two ticks
  Stuck,         \* STUCK_TICKS
  StaleAge,      \* STALE_OVERRIDE_MAX_AGE_MS, in clock ticks
  DedupeWindow,  \* dedupe_window_ms, in clock ticks
  Exclusive,     \* whether a read-modify-write of the file excludes the others
  Modes,         \* the modes a human sets: "override", "disabled"
  MaxOrders,     \* bound: orders given
  MaxTime        \* bound: last value of the clock

ASSUME Sizes ==
  /\ Stuck \in Nat \ {0} /\ StaleAge \in Nat /\ DedupeWindow \in Nat
  /\ MaxOrders \in Nat /\ MaxTime \in Nat \ {0}
ASSUME ExclusiveFlag == Exclusive \in BOOLEAN
ASSUME ModesAreModes == Modes \subseteq {"override", "disabled"}

VARIABLES
  now,      \* the wall clock all of them read
  file,     \* the store file; updated 0 while it does not exist
  edit,     \* store a write route has read and not yet written back, or None
  recon,    \* what the reconciler has read so far, or None
  report,   \* result the agent computed and has not yet recorded, or None
  row,      \* humanOverride of the last outcome row, None when it has none
  cases,    \* action types of the last Stuck recorded ticks, newest first
  alive,    \* units that exist
  orders,   \* orders given so far, by number
  tried     \* history: orders the agent read in a store it did not ignore

vars == <<now, file, edit, recon, report, row, cases, alive, orders, tried>>

Time == 0 .. MaxTime
Ids == 1 .. MaxOrders
Command == [id : Ids, unit : Units, created : Time]
Goal == [id : Ids, unit : Units, aim : Aims, created : Time]
Store == [mode : {"override", "disabled"}, commands : SUBSET Command,
          goals : SUBSET Goal, updated : Time]
Report == [applied : SUBSET Units, satisfied : SUBSET Units,
           unknown : SUBSET Units, updated : Time]
Action == {"WAIT", "MOVE", "none"}

OrdersTypeOK ==
  /\ now \in Time
  /\ file \in Store
  /\ edit \in Store \cup {None}
  /\ recon = None \/ recon.read \in Store
  /\ report \in Report \cup {None, Idle}
  /\ row \in Report \cup {None}
  /\ cases \in Seq([Units -> Action]) /\ Len(cases) <= Stuck
  /\ alive \subseteq Units
  /\ orders \in 0 .. MaxOrders
  /\ tried \subseteq Ids

UnitsOf(s) == {o.unit : o \in s}
IdsOf(s) == {o.id : o \in s}
All(store) == IdsOf(store.commands) \cup IdsOf(store.goals)

\* empty_store
EmptyStore == [mode |-> "override", commands |-> {}, goals |-> {}, updated |-> 0]

Init ==
  /\ now = 1
  /\ file = EmptyStore
  /\ edit = None /\ recon = None
  /\ report = Idle /\ row = None
  /\ cases = <<>>
  /\ alive = Units
  /\ orders = 0
  /\ tried = {}

-----------------------------------------------------------------------------
(* The write routes *)

\* read_human_store
BeginEdit ==
  /\ edit = None
  /\ Exclusive => recon = None
  /\ edit' = file
  /\ UNCHANGED <<now, file, recon, report, row, cases, alive, orders, tried>>

\* write_human_store
Write(store) == file' = [store EXCEPT !.updated = now]

\* A human's edit never falls in the millisecond of the write before it.
Edited(store) == now > file.updated /\ Write(store)

\* POST /api/command: one command per unit, the newer replaces the older.
PutCommand(u) ==
  /\ edit # None
  /\ orders < MaxOrders
  /\ orders' = orders + 1
  /\ LET old == {c \in edit.commands : c.unit = u}
     IN Edited([edit EXCEPT !.commands = (@ \ old) \cup
                 {[id |-> orders', unit |-> u, created |-> now]}])
  /\ edit' = None
  /\ UNCHANGED <<now, recon, report, row, cases, alive, tried>>

\* Mutant: an older goal of the unit is kept when it asks for something else.
ReplacedMutSameAim(goals, u, a) == {g \in goals : g.unit = u /\ g.aim = a}
Replaced(goals, u, a) == {g \in goals : g.unit = u}

\* The same goal, still inside the window: the caller does not write.
Deduped(goals, u, a) ==
  \E g \in goals : /\ g.unit = u /\ g.aim = a
                   /\ now >= g.created /\ now - g.created < DedupeWindow

\* POST /api/command/goal: apply_goal_mutation, then a write unless deduped.
PutGoal(u, a) ==
  /\ edit # None
  /\ edit' = None
  /\ IF Deduped(edit.goals, u, a)
     THEN UNCHANGED <<file, orders>>
     ELSE /\ orders < MaxOrders
          /\ orders' = orders + 1
          /\ LET old == Replaced(edit.goals, u, a)
             IN Edited([edit EXCEPT !.goals = (@ \ old) \cup
                         {[id |-> orders', unit |-> u, aim |-> a, created |-> now]}])
  /\ UNCHANGED <<now, recon, report, row, cases, alive, tried>>

\* POST /api/command/clear, /mode
ClearOrders ==
  /\ edit # None
  /\ edit' = None
  /\ Edited([edit EXCEPT !.commands = {}, !.goals = {}])
  /\ UNCHANGED <<now, recon, report, row, cases, alive, orders, tried>>

SetMode(m) ==
  /\ edit # None
  /\ edit' = None
  /\ edit.mode # m
  /\ Edited([edit EXCEPT !.mode = m])
  /\ UNCHANGED <<now, recon, report, row, cases, alive, orders, tried>>

\* The write raises, or the process dies: the file is as it was.
AbandonEdit ==
  /\ edit # None
  /\ edit' = None
  /\ UNCHANGED <<now, file, recon, report, row, cases, alive, orders, tried>>

-----------------------------------------------------------------------------
(* reconcile_human_store *)

\* It reads the store; an empty one is left alone.
BeginReconcile ==
  /\ recon = None
  /\ Exclusive => edit = None
  /\ file.commands # {} \/ file.goals # {}
  /\ recon' = [read |-> file, settled |-> None, stuck |-> {}]
  /\ UNCHANGED <<now, file, edit, report, row, cases, alive, orders, tried>>

\* Mutant: the timing guard is missing.
WithinMutAlways(o, r) == TRUE
\* within: the order is no newer than the store the report is about.
Within(o, r) == o.created <= r.updated

\* Orders of store s that report r settles.
SettledGoals(s, r) == {g \in s.goals : g.unit \in r.satisfied \cup r.unknown /\ Within(g, r)}
SettledCommands(s, r) == {c \in s.commands : c.unit \in r.applied \cup r.unknown /\ Within(c, r)}

\* A unit that did nothing but WAIT in the last Stuck cases, one of which may
\* say nothing about it.
IsStuck(u) ==
  /\ Len(cases) = Stuck
  /\ \A i \in 1 .. Stuck : cases[i][u] # "MOVE"
  /\ Cardinality({i \in 1 .. Stuck : cases[i][u] = "WAIT"}) >= Stuck - 1

\* Mutant: lost units settle nothing.
TelemetryMutUnknown == row # None /\ row.satisfied \cup row.applied # {}
\* latest_human_override says something that can settle an order.
Telemetry == row # None /\ row.satisfied \cup row.applied \cup row.unknown # {}

\* Then the last outcome row and the latest cases, and works out what to drop.
\* A row that settles nothing ends the call.
ReadTelemetry ==
  /\ recon # None /\ recon.settled = None
  /\ IF ~Telemetry THEN recon' = None
     ELSE LET s == recon.read
              dropped == IdsOf(SettledGoals(s, row)) \cup IdsOf(SettledCommands(s, row))
              stuck == {g \in s.goals : /\ g.unit \in row.applied /\ g.id \notin dropped
                                        /\ IsStuck(g.unit)}
          IN recon' = [recon EXCEPT !.settled = dropped, !.stuck = IdsOf(stuck)]
  /\ UNCHANGED <<now, file, edit, report, row, cases, alive, orders, tried>>

\* Write the store back without them, if there were any.
FinishReconcile ==
  /\ recon # None /\ recon.settled # None
  /\ recon' = None
  /\ LET s == recon.read
         dropped == recon.settled \cup recon.stuck
     IN IF dropped = {} THEN UNCHANGED file
        ELSE Write([s EXCEPT !.commands = {c \in @ : c.id \notin dropped},
                             !.goals = {g \in @ : g.id \notin dropped}])
  /\ UNCHANGED <<now, edit, report, row, cases, alive, orders, tried>>

\* The write raises: what was dropped comes back at the next attempt.
AbandonReconcile ==
  /\ recon # None /\ recon.settled # None
  /\ recon' = None
  /\ UNCHANGED <<now, file, edit, report, row, cases, alive, orders, tried>>

-----------------------------------------------------------------------------
(* The agent *)

\* is_stale_override
IsStale(s) == s.mode = "override" /\ s.updated # 0 /\ now - s.updated > StaleAge

Ignored(s) == IsStale(s) \/ s.mode # "override" \/ (s.commands = {} /\ s.goals = {})

\* Units whose command got past action_from_wire and basic_check.
Overridden(passed, s) == passed \cap UnitsOf(s.commands) \cap alive

\* apply_human_overrides.  The world decides which commands are well formed,
\* which goals are reached and which actions survive validate_plan.
Apply(s, passed, reached, valid) ==
  LET byCommand == Overridden(passed, s)
      pursued == (UnitsOf(s.goals) \cap alive) \ byCommand
  IN [applied |-> (byCommand \cup (pursued \ reached)) \cap valid,
      satisfied |-> pursued \cap reached,
      unknown |-> (UnitsOf(s.commands) \cup UnitsOf(s.goals)) \ alive,
      updated |-> s.updated]

\* read_and_apply_human_overrides: the file as it is now, nothing of a store
\* that is ignored.
AgentReads ==
  /\ report = Idle
  /\ IF Ignored(file)
     THEN report' = None /\ UNCHANGED tried
     ELSE \E passed, reached, valid \in SUBSET Units :
            /\ report' = Apply(file, passed, reached, valid)
            /\ tried' = tried \cup All(file)
  /\ UNCHANGED <<now, file, edit, recon, row, cases, alive, orders>>

\* The last Stuck cases, all that cancel_stuck_goals looks at.
Latest(all) == SubSeq(all, 1, IF Len(all) <= Stuck THEN Len(all) ELSE Stuck)

\* The tick is over: its outcome row and its case are written.
AgentRecords ==
  /\ report # Idle
  /\ report' = Idle
  /\ row' = report
  /\ \E case \in [Units -> Action] :
       /\ \A u \in Units \ alive : case[u] = "none"
       /\ cases' = Latest(<<case>> \o cases)
  /\ UNCHANGED <<now, file, edit, recon, alive, orders, tried>>

UnitIsLost(u) ==
  /\ u \in alive
  /\ alive' = alive \ {u}
  /\ UNCHANGED <<now, file, edit, recon, report, row, cases, orders, tried>>

TimePasses ==
  /\ now < MaxTime
  /\ now' = now + 1
  /\ UNCHANGED <<file, edit, recon, report, row, cases, alive, orders, tried>>

Next ==
  \/ BeginEdit
  \/ \E u \in Units : PutCommand(u) \/ UnitIsLost(u) \/ \E a \in Aims : PutGoal(u, a)
  \/ ClearOrders \/ \E m \in Modes : SetMode(m)
  \/ AbandonEdit
  \/ BeginReconcile \/ ReadTelemetry \/ FinishReconcile \/ AbandonReconcile
  \/ AgentReads \/ AgentRecords
  \/ TimePasses

Spec == Init /\ [][Next]_vars

\* Requests end, the reconciler is called again and again and now and then
\* gets its turn and its write through, and the agent plays on.
Fairness ==
  /\ WF_vars(AbandonEdit)
  /\ SF_vars(BeginReconcile) /\ WF_vars(ReadTelemetry) /\ SF_vars(FinishReconcile)
  /\ WF_vars(AgentReads) /\ WF_vars(AgentRecords)

FairSpec == Spec /\ Fairness

-----------------------------------------------------------------------------
(* Properties *)

OneEach(store) ==
  /\ \A c, d \in store.commands : c.unit = d.unit => c = d
  /\ \A g, h \in store.goals : g.unit = h.unit => g = h

\* However edits and reconciliations interleave, the file never asks two
\* things of a unit at once (goal_store.py: replace per unit).
OneOrderPerUnit == OneEach(file)

\* Reconciliation settles an order only after the agent has read it: a report
\* about an older order of the unit leaves the newer one alone
\* (human_store.py:14, the timing guard).
SettledWereTried ==
  [][recon # None /\ recon' = None /\ file' # file => recon.settled \subseteq tried]_vars

\* Orders for a unit that no longer exists leave the file, unless the store
\* is ignored (human_store.py:16, unknown_unit entries are cleaned).
OrdersToLostUnitsLeave ==
  \A u \in Units :
    (u \notin alive /\ u \in UnitsOf(file.commands) \cup UnitsOf(file.goals))
      ~> \/ u \notin UnitsOf(file.commands) \cup UnitsOf(file.goals)
         \/ Ignored(file)
=============================================================================
