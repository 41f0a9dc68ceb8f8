----------------------------- MODULE LiveSession -----------------------------
(***************************************************************************)
(* The live command (cli/main.py, _execute_live and _run_live_loop): one   *)
(* process that becomes the tenant's writer, runs the tick loop that       *)
(* submits orders to the game, and renews its lease beside it.             *)
(*                                                                         *)
(* Two asyncio tasks of a process interleave at their awaits, and          *)
(* processes interleave freely.  A process whose event loop is held up (a  *)
(* slow decision, a suspended machine) is one that takes no step while     *)
(* the clock moves on.                                                     *)
(*                                                                         *)
(*   idle       not started, or exited: see exit                           *)
(*   observed   acquire_writer refused, the lease record was read          *)
(*   setup      holds the lease, builds client, recorder and telemetry     *)
(*   running    _run_live_loop: runtime task and renew task                *)
(*   closing    the loop is over, recorder, sink, source and client close  *)
(***************************************************************************)
EXTENDS FileLeases

VARIABLES
  phase,
  runtime,   \* the runtime task: "off", "ticking", "submitting", "done"
  ended,     \* how it ended: "none", "itself", "error", "cancelled"
  renewer,   \* the renew task: "off", "renewing", "lost", "raised"
  outcome,   \* completed, cancelled, lease_lost of _execute_live
  exit       \* last exit code

session == <<phase, runtime, ended, renewer, outcome, exit>>
liveVars == <<vars, session>>

SessionTypeOK ==
  /\ TypeOK
  /\ phase \in [Procs -> {"idle", "observed", "setup", "running", "closing"}]
  /\ runtime \in [Procs -> {"off", "ticking", "submitting", "done"}]
  /\ ended \in [Procs -> {"none", "itself", "error", "cancelled"}]
  /\ renewer \in [Procs -> {"off", "renewing", "lost", "raised"}]
  /\ outcome \in [Procs -> {"none", "completed", "cancelled", "lease_lost", "failed"}]
  /\ exit \in [Procs -> {"none", "OK", "ERROR", "SIGNAL"}]

SessionInit ==
  /\ Init
  /\ phase = [p \in Procs |-> "idle"]
  /\ runtime = [p \in Procs |-> "off"]
  /\ ended = [p \in Procs |-> "none"]
  /\ renewer = [p \in Procs |-> "off"]
  /\ outcome = [p \in Procs |-> "none"]
  /\ exit = [p \in Procs |-> "none"]

-----------------------------------------------------------------------------
(* _acquire_live_writer: acquire, else observe and replace.                *)

BecomeWriter(p, from) ==
  /\ phase[p] = from
  /\ phase' = [phase EXCEPT ![p] = "setup"]
  /\ outcome' = [outcome EXCEPT ![p] = "none"]
  /\ exit' = [exit EXCEPT ![p] = "none"]
  /\ ended' = [ended EXCEPT ![p] = "none"]
  /\ UNCHANGED <<runtime, renewer>>

AcquireAtStart(p) == AcquireWriter(p) /\ BecomeWriter(p, "idle")

ObserveAtStart(p) ==
  /\ phase[p] = "idle"
  /\ ~MayAcquire(p)
  /\ ObserveWriterLease(p)
  /\ phase' = [phase EXCEPT ![p] = "observed"]
  /\ exit' = [exit EXCEPT ![p] = "none"]
  /\ ended' = [ended EXCEPT ![p] = "none"]
  /\ UNCHANGED <<runtime, renewer, outcome>>

ReplaceAtStart(p) == ReplaceWriter(p) /\ BecomeWriter(p, "observed")

\* Neither succeeded: the command exits with an error.  (So it does here when
\* the tokens of the model are spent.)
Refused(p) ==
  /\ phase[p] = "observed"
  /\ ~MayReplace(p) \/ observed[p] = MaxFence
  /\ phase' = [phase EXCEPT ![p] = "idle"]
  /\ exit' = [exit EXCEPT ![p] = "ERROR"]
  /\ UNCHANGED <<vars, runtime, ended, renewer, outcome>>

-----------------------------------------------------------------------------
(* The session.                                                            *)

\* Bad strategy configuration, or recorder or telemetry cannot be opened.
SetupFails(p) ==
  /\ phase[p] = "setup"
  /\ phase' = [phase EXCEPT ![p] = "closing"]
  /\ outcome' = [outcome EXCEPT ![p] = "failed"]
  /\ UNCHANGED <<vars, runtime, ended, renewer, exit>>

StartLoop(p) ==
  /\ phase[p] = "setup"
  /\ phase' = [phase EXCEPT ![p] = "running"]
  /\ runtime' = [runtime EXCEPT ![p] = "ticking"]
  /\ renewer' = [renewer EXCEPT ![p] = "renewing"]
  /\ UNCHANGED <<vars, ended, outcome, exit>>

\* LiveSubmitter.__call__: the orders go out; nothing looks at the lease.
BeginSubmit(p) ==
  /\ phase[p] = "running"
  /\ runtime[p] = "ticking"
  /\ runtime' = [runtime EXCEPT ![p] = "submitting"]
  /\ UNCHANGED <<vars, phase, ended, renewer, outcome, exit>>

\* The answer, an error, or the submit timeout.
EndSubmit(p) ==
  /\ runtime[p] = "submitting"
  /\ runtime' = [runtime EXCEPT ![p] = "ticking"]
  /\ UNCHANGED <<vars, phase, ended, renewer, outcome, exit>>

\* The tick loop stops for a reason of its own, or raises.
RuntimeEnds(p) ==
  /\ runtime[p] = "ticking"
  /\ runtime' = [runtime EXCEPT ![p] = "done"]
  /\ \E how \in {"itself", "error"} : ended' = [ended EXCEPT ![p] = how]
  /\ UNCHANGED <<vars, phase, renewer, outcome, exit>>

\* Mutant: a refused renewal is only tried again.
RenewWakesMutRetry(p) ==
  /\ phase[p] = "running"
  /\ renewer[p] = "renewing"
  /\ \/ Renew(p) /\ UNCHANGED renewer
     \/ RenewWriteFails(p) /\ renewer' = [renewer EXCEPT ![p] = "raised"]
     \/ RenewTooLate(p) /\ UNCHANGED renewer
  /\ UNCHANGED <<phase, runtime, ended, outcome, exit>>

\* renew_loop, one interval.
RenewWakes(p) ==
  /\ phase[p] = "running"
  /\ renewer[p] = "renewing"
  /\ \/ Renew(p) /\ UNCHANGED renewer
     \/ RenewWriteFails(p) /\ renewer' = [renewer EXCEPT ![p] = "raised"]
     \/ RenewTooLate(p) /\ renewer' = [renewer EXCEPT ![p] = "lost"]
  /\ UNCHANGED <<phase, runtime, ended, outcome, exit>>

\* Mutant: the runtime task is cancelled by nobody.
LeaveLoopMutRuntime(p, result) ==
  /\ phase' = [phase EXCEPT ![p] = "closing"]
  /\ renewer' = [renewer EXCEPT ![p] = "off"]
  /\ outcome' = [outcome EXCEPT ![p] = result]
  /\ UNCHANGED <<runtime, ended>>

\* Leave _run_live_loop for good: both tasks are stopped and awaited first.
LeaveLoop(p, result) ==
  /\ phase' = [phase EXCEPT ![p] = "closing"]
  /\ runtime' = [runtime EXCEPT ![p] = "off"]
  /\ renewer' = [renewer EXCEPT ![p] = "off"]
  /\ outcome' = [outcome EXCEPT ![p] = result]
  /\ ended' = IF runtime[p] = "done" THEN ended
              ELSE [ended EXCEPT ![p] = "cancelled"]

\* asyncio.wait(FIRST_COMPLETED) returns with the renew task alone.
RenewerStopsLoop(p) ==
  /\ phase[p] = "running"
  /\ renewer[p] \in {"lost", "raised"}
  /\ runtime[p] # "done"
  /\ LeaveLoop(p, IF renewer[p] = "lost" THEN "lease_lost" ELSE "completed")
  /\ UNCHANGED <<vars, exit>>

\* Mutant: the lease goes with the runtime task, before the cleanup.
RuntimeStopsLoopMutEarlyRelease(p) ==
  /\ phase[p] = "running"
  /\ runtime[p] = "done"
  /\ LeaveLoop(p, IF ended[p] = "itself" THEN "completed" ELSE "failed")
  /\ Release(p)
  /\ UNCHANGED exit

\* It returns with the runtime task, alone or not.
RuntimeStopsLoop(p) ==
  /\ phase[p] = "running"
  /\ runtime[p] = "done"
  /\ LeaveLoop(p, IF ended[p] = "itself" THEN "completed" ELSE "failed")
  /\ UNCHANGED <<vars, exit>>

\* SIGINT or SIGTERM, while the loop runs or while it is cleaned up after.
Signal(p) ==
  /\ \/ phase[p] = "running" /\ LeaveLoop(p, "cancelled")
     \/ /\ phase[p] = "closing"
        /\ outcome' = [outcome EXCEPT ![p] = "cancelled"]
        /\ UNCHANGED <<phase, runtime, renewer, ended>>
  /\ UNCHANGED <<vars, exit>>

ExitCode(result) ==
  CASE result = "completed" -> "OK"
    [] result = "cancelled" -> "SIGNAL"
    [] OTHER -> "ERROR"

\* The outer finally.  A release that fails is suppressed; the process exits
\* all the same and the OS frees its lock.
ExitSession(p) ==
  /\ phase[p] = "closing"
  /\ \/ Release(p)
     \/ /\ handle' = [handle EXCEPT ![p] = NoHandle]
        /\ lock' = None
        /\ UNCHANGED <<now, record, observed, crashes>>
  /\ phase' = [phase EXCEPT ![p] = "idle"]
  /\ exit' = [exit EXCEPT ![p] = ExitCode(outcome[p])]
  /\ outcome' = [outcome EXCEPT ![p] = "none"]
  /\ UNCHANGED <<runtime, ended, renewer>>

\* The process is killed.
Die(p) ==
  /\ Crash(p) \/ (phase[p] \in {"idle", "observed"} /\ CrashWhileIssuing(p))
  /\ phase' = [phase EXCEPT ![p] = "idle"]
  /\ runtime' = [runtime EXCEPT ![p] = "off"]
  /\ ended' = [ended EXCEPT ![p] = "none"]
  /\ renewer' = [renewer EXCEPT ![p] = "off"]
  /\ outcome' = [outcome EXCEPT ![p] = "none"]
  /\ exit' = [exit EXCEPT ![p] = "none"]

Clock == (Tick \/ StepBack) /\ UNCHANGED session

SessionStep(p) ==
  \/ AcquireAtStart(p) \/ ObserveAtStart(p) \/ ReplaceAtStart(p) \/ Refused(p)
  \/ SetupFails(p) \/ StartLoop(p)
  \/ BeginSubmit(p) \/ EndSubmit(p) \/ RuntimeEnds(p)
  \/ RenewWakes(p) \/ RenewerStopsLoop(p) \/ RuntimeStopsLoop(p)
  \/ Signal(p) \/ ExitSession(p) \/ Die(p)

SessionNext == (\E p \in Procs : SessionStep(p)) \/ Clock

SessionSpec == SessionInit /\ [][SessionNext]_liveVars

\* The event loop of a live process keeps scheduling its tasks: submissions
\* end (the submit timeout of ten seconds), the renew task wakes at every
\* interval, cleanup is bounded.  Nothing obliges the runtime task to end.
SessionFairness ==
  /\ WF_liveVars(Tick /\ UNCHANGED session)
  /\ \A p \in Procs :
       /\ WF_liveVars(EndSubmit(p))
       /\ WF_liveVars(RenewWakes(p))
       /\ WF_liveVars(RenewerStopsLoop(p) \/ RuntimeStopsLoop(p))
       /\ WF_liveVars(SetupFails(p) \/ StartLoop(p) \/ ExitSession(p))

FairSessionSpec == SessionSpec /\ SessionFairness

\* A supervisor starts the command again when it has ended, so a process that
\* could become the writer tries.
SupervisedSpec ==
  /\ FairSessionSpec
  /\ \A p \in Procs : WF_liveVars(AcquireAtStart(p) \/ ObserveAtStart(p) \/ ReplaceAtStart(p))

-----------------------------------------------------------------------------
(* Properties *)

\* Orders of a tenant leave one process at a time: a process with a runtime
\* task holds the OS lock, so the task is gone before the lock is given up.
OneSubmitter ==
  /\ SessionTypeOK
  /\ \A p \in Procs : runtime[p] # "off" => lock = p

\* A lost lease stops the session with an error, and the lock is let go: an
\* expired holder that lives on would shut every other process out for good.
\* (It holds the lock until it lets it go, and an expired handle stays expired.)
ExpiredSessionLetsGo ==
  (\E p \in Procs : phase[p] = "running" /\ handle[p].stored = "EXPIRED")
    ~> (lock = None \/ handle[lock].stored # "EXPIRED")

\* The lease a process crashed out of is taken over by a process that runs, and
\* a session that lost its lease lets the tenant go.
LeaseIsHandedOn == ExpiredSessionLetsGo /\ CrashedLeaseIsTakenOver

\* A new fence is issued only between sessions: from setup to the end of the
\* cleanup nobody else can become the writer, expired or not.
FenceMovesBetweenSessions ==
  [][record'.fence # record.fence
       => \A p \in Procs : phase[p] \in {"idle", "observed"}]_liveVars

\* Claimed by _run_live_loop: "Returns normally when the loop finishes on its
\* own", which is what the exit code OK stands for.
OkMeansLoopFinished ==
  \A p \in Procs : exit[p] = "OK" => ended[p] = "itself"
=============================================================================
