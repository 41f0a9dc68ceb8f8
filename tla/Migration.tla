----------------------------- MODULE Migration ------------------------------
(***************************************************************************)
(* The relocation of a tenant's core (package migration): the state        *)
(* machine, the plan file and the gate the runtime asks before each move.  *)
(*                                                                         *)
(* A conductor is a process that holds the tenant's writer lease, and the  *)
(* lease is the one of FileLeases, crashes and expiry included.  It keeps  *)
(* the plan in memory, applies the events of the game to it and writes it  *)
(* under its fence; the fence of a plan is its epoch.  write_plan and      *)
(* delete_plan look at the lease first and touch the file afterwards, two  *)
(* steps for everybody else.  The package has no conductor: which event    *)
(* comes, and when the plan is written, is external.                       *)
(*                                                                         *)
(* Positions, legs, pacing and roles do not occur: a plan is its identity, *)
(* its state, its core and the end of its validity.                        *)
(***************************************************************************)
EXTENDS FileLeases, FiniteSets

CONSTANTS
  HeartbeatTtl,   \* how long a written plan is fresh, in clock ticks
  MaxOperations,  \* bound: operations begun
  MaxRevision,    \* bound: replans of one operation
  MaxCores,       \* bound: cores the tenant has one after the other
  Damageable      \* bound: sections of the plan file that may get spoilt

ASSUME MigrationBounds ==
  HeartbeatTtl \in Nat /\ MaxOperations \in Nat /\ MaxRevision \in Nat \ {0} /\ MaxCores \in Nat \ {0}

VARIABLES
  file,        \* <tenant>.json: NoFile or a plan with the section that is damaged, if any
  memory,      \* the plan each conductor works on, or NoPlan
  writing,     \* what each conductor is doing to the file: "none", "write" or "delete"
  view,        \* the plan the runtime read for its next move, or NoPlan
  core,        \* identity of the tenant's core; a new one after each destruction
  operations,  \* operations begun so far
  audited      \* history: <<operation, revision>> whose corridor audit was accepted

migrationVars == <<file, memory, writing, view, core, operations, audited>>
conductingVars == <<vars, migrationVars>>

-----------------------------------------------------------------------------
(* The state machine (state_machine.py).                                   *)

ActivePhases == {"PLAN", "LEG_MOVE", "LEG_SETTLE", "DEFENSIVE_HOLD"}

MigrationState == ActivePhases \cup {"IDLE", "RECOVERY_ABORT", "ARRIVED", "ABORT"}

MigrationEventType ==
  {"INTENT_ACCEPTED", "PLAN_AUDITED", "PLAN_REJECTED", "LEG_BURST_DONE",
   "LEG_SETTLE_DONE", "CORE_DAMAGED", "THREAT_CLEARED", "THREAT_ESCALATED",
   "REPLAN_REQUESTED", "CORE_DESTROYED", "CORE_GENERATION_CHANGED", "CANCEL",
   "ARRIVED_SETTLE_DONE", "CLEANED", "RECOVERY_DONE"}

\* The transitions of the phases; a loss of the core and CANCEL come first.
Edges ==
  {<<"IDLE", "INTENT_ACCEPTED", "PLAN">>,
   <<"PLAN", "PLAN_AUDITED", "LEG_MOVE">>, <<"PLAN", "PLAN_REJECTED", "ABORT">>,
   <<"LEG_MOVE", "LEG_BURST_DONE", "LEG_SETTLE">>,
   <<"LEG_MOVE", "CORE_DAMAGED", "DEFENSIVE_HOLD">>,
   <<"LEG_SETTLE", "LEG_SETTLE_DONE", "LEG_MOVE">>,
   <<"LEG_SETTLE", "CORE_DAMAGED", "DEFENSIVE_HOLD">>,
   <<"LEG_SETTLE", "REPLAN_REQUESTED", "PLAN">>,
   <<"LEG_SETTLE", "THREAT_ESCALATED", "ABORT">>,
   <<"DEFENSIVE_HOLD", "THREAT_CLEARED", "LEG_SETTLE">>,
   <<"DEFENSIVE_HOLD", "THREAT_ESCALATED", "ABORT">>,
   <<"DEFENSIVE_HOLD", "REPLAN_REQUESTED", "PLAN">>,
   <<"ARRIVED", "ARRIVED_SETTLE_DONE", "IDLE">>,
   <<"ABORT", "CLEANED", "IDLE">>,
   <<"RECOVERY_ABORT", "RECOVERY_DONE", "IDLE">>}

\* Mutant: a replan asked for during a hold goes on without a new audit.
TransitionMutHold(state, event, lastLeg) ==
  IF state = "DEFENSIVE_HOLD" /\ event = "REPLAN_REQUESTED" THEN "LEG_MOVE"
  ELSE IF event = "CORE_DESTROYED" /\ state \in ActivePhases THEN "RECOVERY_ABORT"
  ELSE IF \E e \in Edges : e[1] = state /\ e[2] = event
  THEN (CHOOSE e \in Edges : e[1] = state /\ e[2] = event)[3]
  ELSE state

\* transition: an event that does not fit the state changes nothing.
Transition(state, event, lastLeg) ==
  IF event \in {"CORE_DESTROYED", "CORE_GENERATION_CHANGED"}
  THEN IF state \in ActivePhases THEN "RECOVERY_ABORT" ELSE state
  ELSE IF event = "CANCEL"
  THEN IF state \in ActivePhases THEN "ABORT" ELSE state
  ELSE IF state = "LEG_SETTLE" /\ event = "LEG_SETTLE_DONE" /\ lastLeg
  THEN "ARRIVED"
  ELSE IF \E e \in Edges : e[1] = state /\ e[2] = event
  THEN (CHOOSE e \in Edges : e[1] = state /\ e[2] = event)[3]
  ELSE state

-----------------------------------------------------------------------------
(* The plan and its file (plan.py).                                        *)

\* MigrationPlanV1, what is left of it.
Plan ==
  [operation : 1 .. MaxOperations, revision : 1 .. MaxRevision, epoch : Nat \ {0},
   state : MigrationState, core : 1 .. MaxCores, until : Nat]

NoPlan == [operation |-> 0]
NoFile == [plan |-> NoPlan, damaged |-> "no file"]

\* Sections every plan must have, each of its type and in its range.
RequiredSections ==
  {"schema", "operationId", "revision", "conductorEpoch", "tenant", "mode", "state",
   "core", "lease", "target", "path", "legs", "legProgress", "pace", "roles",
   "conductor", "updatedAt"}

\* Sections a plan may leave out, but not spoil.
OptionalSections == {"clearRequests", "assist", "replenish"}
ASSUME DamagesAreSections == Damageable \subseteq RequiredSections \cup OptionalSections

\* to_json_object: the sections are written as the data classes hold them.
ToJson(p) == [plan |-> p, damaged |-> "none"]

\* parse_migration_plan: any defect rejects the whole plan.
Parses(f) == f.damaged \notin RequiredSections \cup OptionalSections

-----------------------------------------------------------------------------
(* The gates (enactment.py, store.py).                                     *)

\* The heartbeat is written with the plan, so one bound stands for both.
LeaseIsFresh(p) == p.until >= now

ConductorEpochMatches(p, expected) == p.epoch = expected
CoreGenerationMatches(p, observedCore) == p.core = observedCore

\* Mutant: the epoch of the plan is not compared.
MayStartMoveMutEpoch(p, expected, observedCore) ==
  /\ LeaseIsFresh(p)
  /\ CoreGenerationMatches(p, observedCore)

MayStartMove(p, expected, observedCore) ==
  /\ LeaseIsFresh(p)
  /\ ConductorEpochMatches(p, expected)
  /\ CoreGenerationMatches(p, observedCore)

FenceHoldsTenant(c) == Active(c)
FenceAuthorizesPlan(c, p) == FenceHoldsTenant(c) /\ handle[c].fence = p.epoch

RecoveryBlocksResume(p) == p.state = "RECOVERY_ABORT"

ResumeContinuationAllowed(p, operation, revision, epoch) ==
  p.operation = operation /\ p.revision = revision /\ p.epoch = epoch

EvaluateRecovery(p, operation, revision, epoch) ==
  /\ p # NoPlan
  /\ LeaseIsFresh(p)
  /\ ~RecoveryBlocksResume(p)
  /\ ResumeContinuationAllowed(p, operation, revision, epoch)

-----------------------------------------------------------------------------
MigrationTypeOK ==
  /\ TypeOK
  /\ \/ file \in [plan : Plan, damaged : {"none"}]
     \/ file \in [plan : {NoPlan}, damaged : RequiredSections \cup OptionalSections \cup {"no file"}]
  /\ memory \in [Procs -> Plan \cup {NoPlan}]
  /\ writing \in [Procs -> {"none", "write", "delete"}]
  /\ view \in Plan \cup {NoPlan}
  /\ core \in 1 .. MaxCores
  /\ operations \in 0 .. MaxOperations
  /\ audited \subseteq (1 .. MaxOperations) \X (1 .. MaxRevision)

MigrationInit ==
  /\ Init
  /\ file = NoFile
  /\ memory = [c \in Procs |-> NoPlan]
  /\ writing = [c \in Procs |-> "none"]
  /\ view = NoPlan
  /\ core = 1
  /\ operations = 0
  /\ audited = {}

\* acquire_conductor_fence, take_over_conductor_fence, and the life of the lease.
Conduct(c) ==
  /\ \/ AcquireWriter(c) \/ ReplaceWriter(c)
     \/ ObserveWriterLease(c) /\ handle[c].stored # "ACTIVE"
     \/ Renew(c) \/ RenewTooLate(c)
  /\ UNCHANGED migrationVars

\* It gives the lease back, between two writes, and is done with its plan.
Resign(c) ==
  /\ writing[c] = "none"
  /\ Release(c)
  /\ memory' = [memory EXCEPT ![c] = NoPlan]
  /\ UNCHANGED <<file, writing, view, core, operations, audited>>

ConductorDies(c) ==
  /\ Crash(c)
  /\ memory' = [memory EXCEPT ![c] = NoPlan]
  /\ writing' = [writing EXCEPT ![c] = "none"]
  /\ UNCHANGED <<file, view, core, operations, audited>>

Idle(c) == memory[c] = NoPlan /\ writing[c] = "none"

\* write_plan up to the lease check; a refusal raises and ends the operation.
BeginWrite(c, p) ==
  /\ writing[c] = "none"
  /\ IF FenceAuthorizesPlan(c, p)
     THEN /\ writing' = [writing EXCEPT ![c] = "write"]
          /\ memory' = [memory EXCEPT ![c] = [p EXCEPT !.until = now + HeartbeatTtl]]
     ELSE /\ memory' = [memory EXCEPT ![c] = NoPlan]
          /\ UNCHANGED writing
  /\ UNCHANGED <<vars, file, view, core>>

\* A new operation, for the core there is now, under the conductor's fence.
AcceptIntent(c) ==
  /\ Idle(c) /\ Active(c) /\ file = NoFile
  /\ operations < MaxOperations
  /\ operations' = operations + 1
  /\ BeginWrite(c, [operation |-> operations', revision |-> 1, epoch |-> handle[c].fence,
                    state |-> Transition("IDLE", "INTENT_ACCEPTED", FALSE), core |-> core,
                    until |-> now])
  /\ UNCHANGED audited

\* A restarted conductor reads the plan its predecessor left under the fence it
\* replaced.  What it may continue it continues under its own fence.  A damaged
\* plan raises and is left as it is.
Resume(c, revision) ==
  /\ Idle(c) /\ Active(c) /\ Parses(file)
  /\ \E epoch \in {handle[c].fence, handle[c].fence - 1} :
       EvaluateRecovery(file.plan, operations, revision, epoch)
  /\ BeginWrite(c, [file.plan EXCEPT !.epoch = handle[c].fence])
  /\ UNCHANGED <<operations, audited>>

\* One event applied to the plan in memory and written before the next one, by
\* a conductor that was not told yet that its lease is gone.  A replan begins a
\* new revision.
HandleEvent(c, event, lastLeg) ==
  LET p == memory[c]
      next == Transition(p.state, event, lastLeg)
      replanned == event = "REPLAN_REQUESTED"
  IN
  /\ p # NoPlan /\ handle[c].stored = "ACTIVE"
  /\ next # p.state
  /\ replanned => p.revision < MaxRevision
  /\ BeginWrite(c, [p EXCEPT !.state = next,
                             !.revision = IF replanned THEN @ + 1 ELSE @])
  /\ audited' = IF event = "PLAN_AUDITED"
                THEN audited \cup {<<p.operation, p.revision>>} ELSE audited
  /\ UNCHANGED operations

\* The plan is written again, unchanged, to stay fresh.
Heartbeat(c) ==
  /\ memory[c] # NoPlan
  /\ BeginWrite(c, memory[c])
  /\ UNCHANGED <<operations, audited>>

\* The rest of write_plan: a temporary file, renamed over the plan.
FinishWrite(c) ==
  /\ writing[c] = "write"
  /\ file' = ToJson(memory[c])
  /\ writing' = [writing EXCEPT ![c] = "none"]
  /\ UNCHANGED <<vars, memory, view, core, operations, audited>>

\* delete_plan: the end of an operation, or a plan that may not be resumed.
BeginDelete(c) ==
  /\ writing[c] = "none" /\ file # NoFile
  /\ FenceHoldsTenant(c)
  /\ memory[c] # NoPlan => memory[c].state \in {"IDLE", "ABORT", "RECOVERY_ABORT"}
  /\ writing' = [writing EXCEPT ![c] = "delete"]
  /\ memory' = [memory EXCEPT ![c] = NoPlan]
  /\ UNCHANGED <<vars, file, view, core, operations, audited>>

FinishDelete(c) ==
  /\ writing[c] = "delete"
  /\ file' = NoFile
  /\ writing' = [writing EXCEPT ![c] = "none"]
  /\ UNCHANGED <<vars, memory, view, core, operations, audited>>

\* A hand edit or a bad disk spoils one section of the plan on disk; nothing
\* else of it is ever read again.
Damage(section) ==
  /\ file # NoFile /\ file.damaged = "none"
  /\ file' = [plan |-> NoPlan, damaged |-> section]
  /\ UNCHANGED <<vars, memory, writing, view, core, operations, audited>>

\* read_plan by the runtime, which has something to do in LEG_MOVE only.  A
\* damaged plan raises, and the old view stands.
ReadPlan ==
  /\ file = NoFile \/ Parses(file)
  /\ view' = IF file # NoFile /\ file.plan.state = "LEG_MOVE" THEN file.plan ELSE NoPlan
  /\ UNCHANGED <<vars, file, memory, writing, core, operations, audited>>

\* may_start_move, in a later tick: lease record and core are looked at now.
OrderMove ==
  /\ view # NoPlan
  /\ MayStartMove(view, record.fence, core)
  /\ view' = NoPlan
  /\ UNCHANGED <<vars, file, memory, writing, core, operations, audited>>

\* The core is destroyed and respawns; a conductor may be told later, or never.
CoreRespawns ==
  /\ core < MaxCores
  /\ core' = core + 1
  /\ UNCHANGED <<vars, file, memory, writing, view, operations, audited>>

TimePasses == Tick /\ UNCHANGED migrationVars

MigrationNext ==
  \/ \E c \in Procs :
       \/ Conduct(c) \/ Resign(c) \/ ConductorDies(c) \/ AcceptIntent(c)
       \/ \E revision \in 1 .. MaxRevision : Resume(c, revision)
       \/ \E event \in MigrationEventType, lastLeg \in BOOLEAN : HandleEvent(c, event, lastLeg)
       \/ Heartbeat(c) \/ FinishWrite(c) \/ BeginDelete(c) \/ FinishDelete(c)
  \/ \E section \in Damageable : Damage(section)
  \/ ReadPlan \/ OrderMove \/ CoreRespawns \/ TimePasses

MigrationSpec == MigrationInit /\ [][MigrationNext]_conductingVars

-----------------------------------------------------------------------------
(* Properties *)

\* The plan on disk never falls back to an earlier conductor's (store.py: a
\* plan can never be written with a stale lease), although the lease is looked
\* at before the file is replaced and may expire in between.
PlanEpochNeverGoesBack ==
  [][file.plan # NoPlan /\ file'.plan # NoPlan => file'.plan.epoch >= file.plan.epoch]_conductingVars

\* Nothing of a conductor that was replaced reaches the disk: a conductor that
\* is about to change the file still shuts the others out.
WriterIsTheConductor ==
  \A c \in Procs : writing[c] # "none" => lock = c /\ record.fence = handle[c].fence

\* Every leg belongs to a corridor that was audited for this revision of the
\* operation: on disk, in every conductor's memory and in what the runtime
\* reads, through holds, replans, crashes and resumption.
LegsAreAudited ==
  \A p \in {file.plan, view} \cup {memory[c] : c \in Procs} :
    p # NoPlan /\ p.state \in {"LEG_MOVE", "LEG_SETTLE", "DEFENSIVE_HOLD", "ARRIVED"}
      => <<p.operation, p.revision>> \in audited

\* A move is only started for the core that stands and under the newest fence:
\* not for a plan that a conductor left behind when it was replaced, even where
\* the runtime has read it already.
MovesAreAuthorized ==
  [][OrderMove =>
       /\ view.core = core
       /\ \A c \in Procs : Active(c) => handle[c].fence = view.epoch]_conductingVars

\* Who writes the plan conducts it, and every leg is audited.
PlanIsConducted == MigrationTypeOK /\ WriterIsTheConductor /\ LegsAreAudited

\* The plan is never put back to an older conductor's, and a
\* core moves only as the conductor of its plan may order.
PlanIsFenced == PlanEpochNeverGoesBack /\ MovesAreAuthorized
=============================================================================
