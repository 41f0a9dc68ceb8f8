------------------------------ MODULE TickLoop ------------------------------
(***************************************************************************)
(* SingleTenantTickLoop.run (application/tick_loop.py): one tenant's loop  *)
(* over a reopenable stream of turns, one decision and at most one         *)
(* submission per tick.                                                    *)
(*                                                                         *)
(* A step is the code between two awaits.  The source, the decider, the    *)
(* submitter and whoever cancels the task are the environment: a stream    *)
(* may replay, skip, end or fail, a submission may be answered late, never *)
(* or with an exception, and the cancellation lands at any await.          *)
(*                                                                         *)
(*   next            awaits stream.__anext__                               *)
(*   backoff         sleeps before the source is reopened                  *)
(*   close_old       closes the stream that ended or failed                *)
(*   submit          awaits the submission                                 *)
(*   notify_tick     awaits the on_tick observer                           *)
(*   notify_observed awaits the on_tick_observed observer                  *)
(*   final_close     the finally: closes the active stream                 *)
(*   ended           returned or raised, see verdict                       *)
(***************************************************************************)
EXTENDS Naturals, Sequences

CONSTANTS
  Configs,        \* the configurations (TickLoopConfig, decider) considered
  MaxTick,        \* bound: game ticks
  MaxYield        \* bound: turns the streams yield in a run

ASSUME ConfigsAreConfigs ==
  Configs \subseteq
    [max_reconnects : Nat, budget : {"some", "none"},
     continue_on_gap : BOOLEAN, continue_on_selection_timeout : BOOLEAN,
     continue_on_stream_ended : BOOLEAN, submit_timeout : BOOLEAN,
     stop_on_reject : BOOLEAN, fallback : BOOLEAN]
ASSUME LoopBounds == MaxTick \in Nat \ {0} /\ MaxYield \in Nat

VARIABLES
  config,      \* TickLoopConfig, and whether the decider has a fallback
  pc,
  result,      \* the TickResult being made
  lastTick,    \* last_tick
  counts,      \* processed, duplicate, out_of_order, gap
  reconnects,  \* reconnect_count
  outcomes,
  closes,      \* per stream opened, how often aclose was called on it
  verdict,     \* how the run ends
  submissions, \* every call of the submitter: tick and kind
  yielded      \* turns yielded so far

loopVars == <<config, pc, result, lastTick, counts, reconnects, outcomes, closes,
              verdict, submissions, yielded>>

Ticks == 1 .. MaxTick
Points == {"next", "backoff", "close_old", "submit", "notify_tick",
           "notify_observed", "final_close", "ended"}
Deadlines == {"candidate", "soft_deadline", "selection_timeout"}
Submitted == {"accepted", "rejected", "not_submitted"}
Results == [tick : Ticks, deadline : Deadlines, submit : Submitted]
StoppedReasons == {"stream_ended", "soft_deadline", "selection_timeout", "gap",
                   "submit_failure"}
Raised == {"raised", "reconnect_limit", "cancelled"}

NoResult == [tick |-> 1, deadline |-> "candidate", submit |-> "not_submitted"]

LoopTypeOK ==
  /\ config \in Configs
  /\ pc \in Points
  /\ result \in Results
  /\ lastTick \in 0 .. MaxTick
  /\ DOMAIN counts = {"processed", "duplicate", "out_of_order", "gap"}
  /\ \A k \in DOMAIN counts : counts[k] \in 0 .. MaxYield
  /\ reconnects \in 0 .. config.max_reconnects
  /\ outcomes \in Seq(Results)
  /\ closes \in Seq(Nat) /\ Len(closes) \in 1 .. reconnects + 1
  /\ verdict \in {"running"} \cup StoppedReasons \cup Raised
  /\ submissions \in Seq([tick : Ticks, kind : {"decision", "fallback"}])
  /\ yielded \in 0 .. MaxYield

LoopInit ==
  /\ config \in Configs
  /\ pc = "next"
  /\ result = NoResult
  /\ lastTick = 0
  /\ counts = [k \in {"processed", "duplicate", "out_of_order", "gap"} |-> 0]
  /\ reconnects = 0
  /\ outcomes = <<>>
  /\ closes = <<0>>
  /\ verdict = "running"
  /\ submissions = <<>>
  /\ yielded = 0

-----------------------------------------------------------------------------
CloseCalled == [closes EXCEPT ![Len(closes)] = @ + 1]

\* break, or an exception: the finally closes the active stream.
Leave(how) ==
  /\ pc' = "final_close"
  /\ closes' = CloseCalled
  /\ verdict' = how

Yield ==
  /\ pc = "next"
  /\ yielded < MaxYield
  /\ yielded' = yielded + 1

\* Mutant: a replayed turn is dropped without a trace.
SkipTickMutSilent(t) ==
  /\ Yield
  /\ t <= lastTick
  /\ counts' = IF t = lastTick THEN counts ELSE [counts EXCEPT !.out_of_order = @ + 1]
  /\ UNCHANGED <<config, pc, result, lastTick, reconnects, outcomes, closes,
                 verdict, submissions>>

\* A turn that is not newer than the last tick is only counted.
SkipTick(t) ==
  /\ Yield
  /\ t <= lastTick
  /\ counts' = IF t = lastTick
               THEN [counts EXCEPT !.duplicate = @ + 1]
               ELSE [counts EXCEPT !.out_of_order = @ + 1]
  /\ UNCHANGED <<config, pc, result, lastTick, reconnects, outcomes, closes,
                 verdict, submissions>>

IsGap(t) == t > lastTick + 1

CountGap(t) ==
  counts' = IF IsGap(t) THEN [counts EXCEPT !.gap = @ + 1] ELSE counts

\* A newer turn that is not refused as a gap.
Fresh(t) ==
  /\ Yield
  /\ t > lastTick
  /\ IsGap(t) => config.continue_on_gap
  /\ CountGap(t)

StopOnGap(t) ==
  /\ Yield
  /\ IsGap(t)
  /\ ~config.continue_on_gap
  /\ CountGap(t)
  /\ Leave("gap")
  /\ UNCHANGED <<config, result, lastTick, reconnects, outcomes, submissions>>

\* Append the result and go on to the observers.
Finalize(r) ==
  /\ result' = r
  /\ outcomes' = Append(outcomes, r)
  /\ pc' = "notify_tick"

NoBudget(t) ==
  /\ Fresh(t)
  /\ config.budget = "none"
  /\ Finalize([tick |-> t, deadline |-> "soft_deadline", submit |-> "not_submitted"])
  /\ UNCHANGED <<config, lastTick, reconnects, closes, verdict, submissions>>

BeginSubmit(t, deadline, kind) ==
  /\ result' = [tick |-> t, deadline |-> deadline, submit |-> "not_submitted"]
  /\ submissions' = Append(submissions, [tick |-> t, kind |-> kind])
  /\ pc' = "submit"
  /\ UNCHANGED <<config, lastTick, reconnects, outcomes, closes, verdict>>

DecideInTime(t) ==
  /\ Fresh(t)
  /\ config.budget = "some"
  /\ BeginSubmit(t, "candidate", "decision")

\* The decider spent the budget.  With a fallback that one is submitted,
\* without it nothing is.
FallBack(t) ==
  /\ Fresh(t)
  /\ config.budget = "some"
  /\ config.fallback
  /\ BeginSubmit(t, "selection_timeout", "fallback")

DropLateDecision(t) ==
  /\ Fresh(t)
  /\ config.budget = "some"
  /\ ~config.fallback
  /\ Finalize([tick |-> t, deadline |-> "selection_timeout",
               submit |-> "not_submitted"])
  /\ UNCHANGED <<config, lastTick, reconnects, closes, verdict, submissions>>

DeciderRaises(t) ==
  /\ Fresh(t)
  /\ config.budget = "some"
  /\ Leave("raised")
  /\ UNCHANGED <<config, result, lastTick, reconnects, outcomes, submissions>>

-----------------------------------------------------------------------------
\* Mutant: a submission that was not accepted counts as none.
AnswerSubmitMutForgotten ==
  /\ pc = "submit"
  /\ \E answer \in {"accepted", "not_submitted"} : Finalize([result EXCEPT !.submit = answer])
  /\ UNCHANGED <<config, lastTick, counts, reconnects, closes, verdict,
                 submissions, yielded>>

AnswerSubmit ==
  /\ pc = "submit"
  /\ \E answer \in {"accepted", "rejected"} : Finalize([result EXCEPT !.submit = answer])
  /\ UNCHANGED <<config, lastTick, counts, reconnects, closes, verdict,
                 submissions, yielded>>

\* Mutant: the bound is on the other path.
SubmitTimesOutMutSwapped ==
  /\ pc = "submit"
  /\ config.submit_timeout
  /\ result.deadline # "candidate"
  /\ Finalize([result EXCEPT !.submit = "rejected"])
  /\ UNCHANGED <<config, lastTick, counts, reconnects, closes, verdict,
                 submissions, yielded>>

\* The loop-level bound, on the normal path only.
SubmitTimesOut ==
  /\ pc = "submit"
  /\ config.submit_timeout
  /\ result.deadline = "candidate"
  /\ Finalize([result EXCEPT !.submit = "rejected"])
  /\ UNCHANGED <<config, lastTick, counts, reconnects, closes, verdict,
                 submissions, yielded>>

SubmitRaises ==
  /\ pc = "submit"
  /\ Leave("raised")
  /\ UNCHANGED <<config, result, lastTick, counts, reconnects, outcomes,
                 submissions, yielded>>

NotifyTick ==
  /\ pc = "notify_tick"
  /\ pc' = "notify_observed"
  /\ UNCHANGED <<config, result, lastTick, counts, reconnects, outcomes, closes,
                 verdict, submissions, yielded>>

StopsOn(r) ==
  CASE r.deadline = "soft_deadline" -> {"soft_deadline"}
    [] r.submit = "rejected" /\ config.stop_on_reject -> {"submit_failure"}
    [] r.deadline = "selection_timeout" /\ ~config.continue_on_selection_timeout
         -> {"selection_timeout"}
    [] OTHER -> {}

\* Mutant: a tick counts as done only when it was accepted.
AdvancesMutAccepted(r) == r.submit = "accepted"

\* A submitted tick is done, whatever came of it; one dropped late is done
\* when the loop goes on.
Advances(r) == r.submit # "not_submitted" \/ StopsOn(r) = {}

\* After the observers: account for the tick, then stop or take the next.
NotifyObserved ==
  /\ pc = "notify_observed"
  /\ lastTick' = IF Advances(result) THEN result.tick ELSE lastTick
  /\ counts' = IF result.submit = "not_submitted" THEN counts
               ELSE [counts EXCEPT !.processed = @ + 1]
  /\ IF StopsOn(result) = {}
     THEN pc' = "next" /\ UNCHANGED <<closes, verdict>>
     ELSE \E reason \in StopsOn(result) : Leave(reason)
  /\ UNCHANGED <<config, result, reconnects, outcomes, submissions, yielded>>

-----------------------------------------------------------------------------
Reopens ==
  /\ pc' = "backoff"
  /\ reconnects' = reconnects + 1
  /\ UNCHANGED <<closes, verdict>>

MayReopen == reconnects < config.max_reconnects

\* StopAsyncIteration
StreamEnds ==
  /\ pc = "next"
  /\ \/ config.continue_on_stream_ended /\ MayReopen /\ Reopens
     \/ /\ ~(config.continue_on_stream_ended /\ MayReopen)
        /\ Leave("stream_ended")
        /\ UNCHANGED reconnects
  /\ UNCHANGED <<config, result, lastTick, counts, outcomes, submissions, yielded>>

StreamFails ==
  /\ pc = "next"
  /\ \/ MayReopen /\ Reopens
     \/ /\ ~MayReopen
        /\ Leave("reconnect_limit")
        /\ UNCHANGED reconnects
  /\ UNCHANGED <<config, result, lastTick, counts, outcomes, submissions, yielded>>

\* Mutant: the old stream is left to the garbage collector.
BackOffMutNoClose ==
  /\ pc = "backoff"
  /\ pc' = "close_old"
  /\ UNCHANGED <<config, result, lastTick, counts, reconnects, outcomes, closes,
                 verdict, submissions, yielded>>

BackOff ==
  /\ pc = "backoff"
  /\ pc' = "close_old"
  /\ closes' = CloseCalled
  /\ UNCHANGED <<config, result, lastTick, counts, reconnects, outcomes, verdict,
                 submissions, yielded>>

Reopen ==
  /\ pc = "close_old"
  /\ pc' = "next"
  /\ closes' = Append(closes, 0)
  /\ UNCHANGED <<config, result, lastTick, counts, reconnects, outcomes, verdict,
                 submissions, yielded>>

\* aclose of the old stream raises, or the source is closed meanwhile.
ReopenFails ==
  /\ pc = "close_old"
  /\ Leave("raised")
  /\ UNCHANGED <<config, result, lastTick, counts, reconnects, outcomes,
                 submissions, yielded>>

FinalClose ==
  /\ pc = "final_close"
  /\ pc' = "ended"
  /\ verdict' \in {verdict, "raised"}
  /\ UNCHANGED <<config, result, lastTick, counts, reconnects, outcomes, closes,
                 submissions, yielded>>

Cancel ==
  /\ \/ pc \notin {"final_close", "ended"} /\ Leave("cancelled")
     \/ /\ pc = "final_close"
        /\ pc' = "ended"
        /\ verdict' = "cancelled"
        /\ UNCHANGED closes
  /\ UNCHANGED <<config, result, lastTick, counts, reconnects, outcomes,
                 submissions, yielded>>

Observe(t) ==
  \/ SkipTick(t) \/ StopOnGap(t) \/ NoBudget(t)
  \/ DecideInTime(t) \/ FallBack(t) \/ DropLateDecision(t) \/ DeciderRaises(t)

SourceAnswers == StreamEnds \/ StreamFails \/ \E t \in Ticks : Observe(t)

LoopNext ==
  \/ SourceAnswers
  \/ AnswerSubmit \/ SubmitTimesOut \/ SubmitRaises
  \/ NotifyTick \/ NotifyObserved
  \/ BackOff \/ Reopen \/ ReopenFails \/ FinalClose
  \/ Cancel

LoopSpec == LoopInit /\ [][LoopNext]_loopVars

\* asyncio keeps the task going: timers fire, observers and aclose return, the
\* source answers in the end.  A submission need never be answered.
LoopFairness ==
  /\ WF_loopVars(SourceAnswers)
  /\ WF_loopVars(SubmitTimesOut)
  /\ WF_loopVars(NotifyTick) /\ WF_loopVars(NotifyObserved)
  /\ WF_loopVars(BackOff) /\ WF_loopVars(Reopen \/ ReopenFails)
  /\ WF_loopVars(FinalClose)

FairLoopSpec == LoopSpec /\ LoopFairness

-----------------------------------------------------------------------------
(* Properties *)

\* At most one submission per tick, in tick order, whatever a reopened stream
\* replays: a submission that timed out or was refused may still have been
\* executed by the game.
OneSubmissionPerTick ==
  \A i, j \in DOMAIN submissions :
    i < j => submissions[i].tick < submissions[j].tick

\* The record a run leaves says what was submitted, no less and no more and in
\* order; only the last submission, awaited still or given up by an exception,
\* may have no outcome.
Told(i) ==
  \E k \in DOMAIN outcomes :
    outcomes[k].tick = submissions[i].tick /\ outcomes[k].submit # "not_submitted"
Awaited(i) ==
  /\ i = Len(submissions)
  /\ submissions[i].tick = result.tick
  /\ pc = "submit" \/ verdict \in Raised
OutcomesTellSubmissions ==
  /\ \A i \in DOMAIN submissions : Told(i) \/ Awaited(i)
  /\ \A k \in DOMAIN outcomes :
       outcomes[k].submit # "not_submitted"
         => \E i \in DOMAIN submissions : submissions[i].tick = outcomes[k].tick
  /\ \A j, k \in DOMAIN outcomes : j < k => outcomes[j].tick < outcomes[k].tick

\* Every turn the streams yielded is accounted for exactly once.
TurnsAreAccountedFor ==
  LET taken == IF pc = "submit" THEN 1 ELSE 0
  IN  verdict \in {"running", "stream_ended", "submit_failure", "soft_deadline",
                   "selection_timeout"}
        => yielded = Len(outcomes) + counts.duplicate + counts.out_of_order + taken

\* No stream outlives the run, and none its successor.
NoStreamIsLeft ==
  \A i \in DOMAIN closes :
    (i < Len(closes) \/ pc = "ended") => closes[i] > 0

\* The loop's result tells what happened: its outcomes are what the submitter
\* was told, every turn is counted, and no stream stays open.
RunIsAccountedFor ==
  LoopTypeOK /\ OutcomesTellSubmissions /\ TurnsAreAccountedFor /\ NoStreamIsLeft

\* Under the submit timeout the loop comes to its end with any source that
\* yields finitely many turns, however often it ends or fails.  (A fallback
\* submission is not bounded by the loop.)
LoopEnds == (config.submit_timeout /\ ~config.fallback) => <>(pc = "ended")

\* Claimed by the module: "a hung network submit must never stall the live
\* writer" once submit_timeout_seconds is set.
SubmitNeverStalls ==
  config.submit_timeout => (pc = "submit" ~> pc # "submit")
=============================================================================
