--------------------------- MODULE TenantRuntime ---------------------------
(***************************************************************************)
(* TenantRuntime (application/runtime.py): the tick loop with a recorder   *)
(* and a telemetry sink beside it, and the health it reports meanwhile.    *)
(* Recorder calls are synchronous, sink calls are awaited; each of them    *)
(* may fail at any time.  A recorder or sink that is not configured is one *)
(* that never fails.                                                       *)
(***************************************************************************)
EXTENDS TickLoop

VARIABLES
  phase,     \* where _run is: see Phases
  status,    \* RuntimeStatus
  health,    \* ComponentHealth.healthy per component
  lost       \* history: a record of the last finalized tick was not written

runtimeVars == <<phase, status, health, lost>>
allVars == <<loopVars, runtimeVars>>

Phases == {"not_run", "loop", "emit_tick", "emit_loop", "flush", "close", "over"}
Components == {"source", "recorder", "telemetry"}
Serving == {"READY", "DEGRADED"}

RuntimeTypeOK ==
  /\ LoopTypeOK
  /\ phase \in Phases
  /\ status \in {"NOT_STARTED", "STOPPING", "STOPPED"} \cup Serving
  /\ health \in [Components -> BOOLEAN]
  /\ lost \in BOOLEAN

RuntimeInit ==
  /\ LoopInit
  /\ phase = "not_run"
  /\ status = "NOT_STARTED"
  /\ health = [c \in Components |-> c # "source"]
  /\ lost = FALSE

-----------------------------------------------------------------------------
TargetStatus(h) == IF \A c \in Components : h[c] THEN "READY" ELSE "DEGRADED"

\* _set_component: while serving, the status follows at once.
SetComponent(c, healthy) ==
  /\ health' = [health EXCEPT ![c] = healthy]
  /\ status' = IF status \in Serving THEN TargetStatus(health') ELSE status

\* _is_ready: telemetry does not count.
Ready == status \in Serving /\ health["source"] /\ health["recorder"]

\* read_loop of the recorder, then the loop starts.
Start(ok) ==
  /\ phase = "not_run"
  /\ phase' = "loop"
  /\ health' = [health EXCEPT !["recorder"] = ok, !["source"] = TRUE]
  /\ status' = TargetStatus(health')
  /\ UNCHANGED <<loopVars, lost>>

LoopRuns ==
  /\ phase = "loop"
  /\ \/ SourceAnswers
     \/ AnswerSubmit \/ SubmitTimesOut \/ SubmitRaises
     \/ BackOff \/ Reopen \/ ReopenFails \/ FinalClose
  /\ UNCHANGED runtimeVars

\* on_tick, up to its await.
RecordTick(ok) ==
  /\ phase = "loop" /\ pc = "notify_tick"
  /\ phase' = "emit_tick"
  /\ SetComponent("recorder", ok)
  /\ lost' = ~ok
  /\ UNCHANGED loopVars

\* Mutant: an exception of the sink leaves the observer.
EmitTickMutRaises(ok) ==
  /\ phase = "emit_tick"
  /\ phase' = "loop"
  /\ SetComponent("telemetry", ok)
  /\ IF ok THEN NotifyTick
     ELSE /\ Leave("raised")
          /\ UNCHANGED <<config, result, lastTick, counts, reconnects, outcomes,
                         submissions, yielded>>
  /\ UNCHANGED lost

EmitTick(ok) ==
  /\ phase = "emit_tick"
  /\ phase' = "loop"
  /\ SetComponent("telemetry", ok)
  /\ NotifyTick
  /\ UNCHANGED lost

\* Mutant: the second record overwrites what the first one said.
RecordTickStateMutMasks(ok) ==
  /\ phase = "loop"
  /\ NotifyObserved
  /\ SetComponent("recorder", ok)
  /\ lost' = (lost \/ ~ok)
  /\ UNCHANGED phase

\* on_tick_observed: a failure is noted, a success is not.
RecordTickState(ok) ==
  /\ phase = "loop"
  /\ NotifyObserved
  /\ SetComponent("recorder", health["recorder"] /\ ok)
  /\ lost' = (lost \/ ~ok)
  /\ UNCHANGED phase

LoopReturns(ok) ==
  /\ phase = "loop" /\ pc = "ended" /\ verdict \in StoppedReasons
  /\ phase' = "emit_loop"
  /\ status' = "STOPPING"
  /\ health' = [health EXCEPT !["recorder"] = ok]
  /\ UNCHANGED <<loopVars, lost>>

LoopRaises ==
  /\ phase = "loop" /\ pc = "ended" /\ verdict \in Raised
  /\ phase' = "over"
  /\ status' = "STOPPED"
  /\ health' = [health EXCEPT !["source"] = FALSE]
  /\ UNCHANGED <<loopVars, lost>>

\* emit_loop and flush note failure and success, close only failure.
FinishSink(from, to, ok) ==
  /\ phase = from
  /\ phase' = to
  /\ SetComponent("telemetry", ok)
  /\ UNCHANGED <<loopVars, lost>>

EmitLoop(ok) == FinishSink("emit_loop", "flush", ok)
Flush(ok) == FinishSink("flush", "close", ok)
CloseSink(ok) ==
  /\ phase = "close"
  /\ phase' = "over"
  /\ health' = [health EXCEPT !["telemetry"] = health["telemetry"] /\ ok]
  /\ status' = "STOPPED"
  /\ UNCHANGED <<loopVars, lost>>

\* The cancellation lands in the loop, its observers included, or in the sink
\* calls after it: then the runtime never gets to STOPPED.
CancelRun ==
  \/ /\ phase \in {"loop", "emit_tick"}
     /\ Cancel
     /\ phase' = "loop"
     /\ UNCHANGED <<status, health, lost>>
  \/ /\ phase \in {"emit_loop", "flush", "close"}
     /\ phase' = "over"
     /\ UNCHANGED <<loopVars, status, health, lost>>

RuntimeNext ==
  \/ LoopRuns
  \/ \E ok \in BOOLEAN :
       \/ Start(ok) \/ RecordTick(ok) \/ EmitTick(ok) \/ RecordTickState(ok)
       \/ LoopReturns(ok) \/ EmitLoop(ok) \/ Flush(ok) \/ CloseSink(ok)
  \/ LoopRaises
  \/ CancelRun

RuntimeSpec == RuntimeInit /\ [][RuntimeNext]_allVars

\* What LoopFairness obliges the loop to, and the runtime with it.
LoopMoves ==
  /\ phase = "loop"
  /\ \/ SourceAnswers \/ SubmitTimesOut
     \/ BackOff \/ Reopen \/ ReopenFails \/ FinalClose
  /\ UNCHANGED runtimeVars

RuntimeFairness ==
  /\ WF_allVars(LoopMoves)
  /\ WF_allVars(\E ok \in BOOLEAN :
       Start(ok) \/ RecordTick(ok) \/ EmitTick(ok) \/ RecordTickState(ok))

FairRuntimeSpec == RuntimeSpec /\ RuntimeFairness

-----------------------------------------------------------------------------
(* Properties *)

\* "Recorder and telemetry failures never change the returned TickLoopResult":
\* with them the loop still behaves like the loop alone.
LoopIsUnaffected == LoopSpec

\* "Critical recorder failures surface as not ready": while the loop awaits
\* its next turn, a tick of which any record is missing keeps the runtime from
\* reporting ready.
LostRecordIsNotReady ==
  /\ RuntimeTypeOK
  /\ (phase = "loop" /\ pc = "next" /\ lost) => ~Ready
=============================================================================
