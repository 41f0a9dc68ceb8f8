------------------------- MODULE TenantRuntimeProofs -------------------------
(***************************************************************************)
(* Proofs about TickLoop and TenantRuntime, for any set of configurations, *)
(* any number of ticks, turns and reconnections.                           *)
(*                                                                         *)
(* A tick is submitted once because lastTick is ahead of every submission  *)
(* whenever the loop asks for a turn, and the turn in hand ahead of        *)
(* lastTick until it is accounted for; a run that stops may leave its last *)
(* submission unaccounted for, but never asks again.                       *)
(***************************************************************************)
EXTENDS TenantRuntime, TLAPS

Between == {"next", "backoff", "close_old"}
InTurn == {"submit", "notify_tick", "notify_observed"}
Left == {"final_close", "ended"}

Pending == IF pc \in InTurn THEN 1 ELSE 0

CountsAreOfTurns ==
  /\ counts.processed + Pending <= yielded
  /\ counts.duplicate <= yielded
  /\ counts.out_of_order <= yielded
  /\ counts.gap <= yielded

\* A stream that is given up is not counted as reopened before it is.
StreamsAreOfReconnects ==
  pc \in {"backoff", "close_old"} => Len(closes) <= reconnects

RunningUntilLeft == pc \notin Left => verdict = "running"

TicksAreBehind(last) ==
  /\ \A i \in DOMAIN submissions : submissions[i].tick <= last
  /\ \A k \in DOMAIN outcomes : outcomes[k].tick <= last

\* Between turns everything is behind the last tick; in a turn, behind that.
TurnIsAhead ==
  /\ pc \in Between => TicksAreBehind(lastTick)
  /\ pc \in InTurn => result.tick > lastTick /\ TicksAreBehind(result.tick)
  /\ pc = "submit" =>
       /\ result.submit = "not_submitted"
       /\ Len(submissions) > 0 /\ submissions[Len(submissions)].tick = result.tick
       /\ \A k \in DOMAIN outcomes : outcomes[k].tick < result.tick

StreamsAreClosed ==
  \A i \in DOMAIN closes :
    (i < Len(closes) \/ pc \in Left \cup {"close_old"}) => closes[i] > 0

LInv ==
  /\ LoopTypeOK
  /\ CountsAreOfTurns
  /\ StreamsAreOfReconnects
  /\ RunningUntilLeft
  /\ TurnIsAhead
  /\ OneSubmissionPerTick
  /\ OutcomesTellSubmissions
  /\ TurnsAreAccountedFor
  /\ StreamsAreClosed

-----------------------------------------------------------------------------
(* The steps of the loop, by what they do to the record of the run.        *)

\* It leaves: the active stream is closed, and nothing more is recorded.
Leaves ==
  /\ pc \notin Left
  /\ \E how \in StoppedReasons \cup Raised : Leave(how)
  /\ UNCHANGED <<config, result, reconnects, outcomes, submissions>>

\* It breaks off: no result is given in this step.
BreaksOff ==
  /\ Leaves
  /\ \/ verdict' \in Raised
     \/ pc = "next" /\ verdict' = "gap"
     \/ pc = "next" /\ verdict' = "stream_ended" /\ UNCHANGED yielded
  /\ UNCHANGED lastTick
  /\ counts'.processed = counts.processed /\ counts'.duplicate = counts.duplicate
  /\ counts'.out_of_order = counts.out_of_order
  /\ yielded' = yielded \/ (yielded < MaxYield /\ yielded' = yielded + 1)

ReopensStream ==
  /\ pc = "next" /\ MayReopen /\ Reopens
  /\ UNCHANGED <<config, result, lastTick, counts, outcomes, submissions, yielded>>

\* A turn without a submission is recorded.
RecordsIdle(t) ==
  /\ Fresh(t)
  /\ \E d \in Deadlines : Finalize([tick |-> t, deadline |-> d, submit |-> "not_submitted"])
  /\ UNCHANGED <<config, lastTick, reconnects, closes, verdict, submissions>>

SubmitsTurn(t) ==
  /\ Fresh(t)
  /\ \E d \in Deadlines, k \in {"decision", "fallback"} : BeginSubmit(t, d, k)

\* A submission is answered, or given up in time.
RecordsSubmission ==
  /\ pc = "submit"
  /\ \E answer \in {"accepted", "rejected"} : Finalize([result EXCEPT !.submit = answer])
  /\ UNCHANGED <<config, lastTick, counts, reconnects, closes, verdict,
                 submissions, yielded>>

GoesOn == NotifyObserved /\ StopsOn(result) = {}
StopsAfterTurn == NotifyObserved /\ Leaves /\ StopsOn(result) # {}
Closed == FinalClose \/ (Cancel /\ pc = "final_close")

LEMMA StopsAre == \A r : StopsOn(r) \subseteq {"soft_deadline", "submit_failure", "selection_timeout"}
  BY DEF StopsOn

LEMMA LoopSteps ==
  ASSUME LInv, [LoopNext]_loopVars
  PROVE  \/ \E t \in Ticks : SkipTick(t) \/ RecordsIdle(t) \/ SubmitsTurn(t)
         \/ RecordsSubmission \/ NotifyTick \/ GoesOn \/ StopsAfterTurn
         \/ BreaksOff \/ ReopensStream \/ BackOff \/ Reopen \/ Closed
         \/ UNCHANGED loopVars
  <1> USE DEF LInv, LoopTypeOK
  <1>1. ASSUME NEW t \in Ticks, StopOnGap(t) \/ DeciderRaises(t)
        PROVE  BreaksOff
    <2>1. \E how \in {"gap", "raised"} : Leave(how)
      BY <1>1 DEF StopOnGap, DeciderRaises
    <2>2. pc = "next" /\ yielded < MaxYield /\ yielded' = yielded + 1
      BY <1>1 DEF StopOnGap, DeciderRaises, Fresh, Yield
    <2>3. /\ UNCHANGED <<config, result, lastTick, reconnects, outcomes, submissions>>
          /\ counts'.processed = counts.processed /\ counts'.duplicate = counts.duplicate
          /\ counts'.out_of_order = counts.out_of_order
      BY <1>1 DEF StopOnGap, DeciderRaises, Fresh, CountGap
    <2>4. QED
      BY <2>1, <2>2, <2>3 DEF BreaksOff, Leaves, Leave, Left, StoppedReasons, Raised
  <1>2. ASSUME NEW t \in Ticks, NoBudget(t) \/ DropLateDecision(t)
        PROVE  RecordsIdle(t)
    BY <1>2 DEF NoBudget, DropLateDecision, RecordsIdle, Deadlines
  <1>3. ASSUME NEW t \in Ticks, DecideInTime(t) \/ FallBack(t)
        PROVE  SubmitsTurn(t)
    BY <1>3 DEF DecideInTime, FallBack, SubmitsTurn, Deadlines
  <1>4. ASSUME SubmitRaises \/ ReopenFails \/ (Cancel /\ pc # "final_close")
        PROVE  BreaksOff
    <2>1. pc \notin Left /\ \E how \in {"raised", "cancelled"} : Leave(how)
      BY <1>4 DEF SubmitRaises, ReopenFails, Cancel, Left
    <2>2. UNCHANGED <<config, result, lastTick, counts, reconnects, outcomes,
                      submissions, yielded>>
      BY <1>4 DEF SubmitRaises, ReopenFails, Cancel
    <2>3. QED
      BY <2>1, <2>2 DEF BreaksOff, Leaves, Leave, StoppedReasons, Raised
  <1>5. ASSUME StreamEnds \/ StreamFails
        PROVE  BreaksOff \/ ReopensStream
    <2>1. /\ pc = "next"
          /\ UNCHANGED <<config, result, lastTick, counts, outcomes, submissions, yielded>>
          /\ \/ MayReopen /\ Reopens
             \/ /\ \E how \in {"stream_ended", "reconnect_limit"} : Leave(how)
                /\ UNCHANGED reconnects
      BY <1>5 DEF StreamEnds, StreamFails
    <2>2. CASE MayReopen /\ Reopens
      BY <2>1, <2>2 DEF ReopensStream
    <2>3. CASE UNCHANGED reconnects /\ \E how \in {"stream_ended", "reconnect_limit"} : Leave(how)
      BY <2>1, <2>3 DEF BreaksOff, Leaves, Leave, Left, StoppedReasons, Raised
    <2>4. QED
      BY <2>1, <2>2, <2>3
  <1>6. ASSUME AnswerSubmit \/ SubmitTimesOut
        PROVE  RecordsSubmission
    BY <1>6 DEF AnswerSubmit, SubmitTimesOut, RecordsSubmission
  <1>7. ASSUME NotifyObserved
        PROVE  GoesOn \/ StopsAfterTurn
    BY <1>7, StopsAre DEF NotifyObserved, GoesOn, StopsAfterTurn, Leaves, Left, StoppedReasons
  <1>8. ASSUME NEW t \in Ticks, Observe(t)
        PROVE  SkipTick(t) \/ RecordsIdle(t) \/ SubmitsTurn(t) \/ BreaksOff
    BY <1>1, <1>2, <1>3, <1>8 DEF Observe
  <1>9. CASE SourceAnswers
    BY <1>5, <1>8, <1>9 DEF SourceAnswers
  <1>10. QED
    BY <1>4, <1>6, <1>7, <1>9 DEF LoopNext, Closed

-----------------------------------------------------------------------------
(* The loop's type invariant, one group of its variables at a time.        *)

CountKinds == {"processed", "duplicate", "out_of_order", "gap"}
CountsOK == DOMAIN counts = CountKinds /\ \A k \in CountKinds : counts[k] \in 0 .. MaxYield
StreamsOK ==
  /\ reconnects \in 0 .. config.max_reconnects
  /\ closes \in Seq(Nat) /\ Len(closes) \in 1 .. reconnects + 1
ControlOK ==
  /\ config \in Configs
  /\ pc \in Points
  /\ verdict \in {"running"} \cup StoppedReasons \cup Raised
  /\ yielded \in 0 .. MaxYield
RecordOK ==
  /\ result \in Results
  /\ lastTick \in 0 .. MaxTick
  /\ outcomes \in Seq(Results)
  /\ submissions \in Seq([tick : Ticks, kind : {"decision", "fallback"}])

LEMMA TypeIsItsParts ==
  /\ LoopTypeOK <=> CountsOK /\ StreamsOK /\ ControlOK /\ RecordOK
  /\ LoopTypeOK' <=> CountsOK' /\ StreamsOK' /\ ControlOK' /\ RecordOK'
  BY DEF LoopTypeOK, CountsOK, CountKinds, StreamsOK, ControlOK, RecordOK

\* What counting one more turn of a kind does to the counters.
LEMMA CountOne ==
  ASSUME DOMAIN counts = CountKinds, NEW k \in CountKinds,
         counts' = [counts EXCEPT ![k] = @ + 1]
  PROVE  /\ DOMAIN counts' = CountKinds
         /\ counts'[k] = counts[k] + 1
         /\ \A j \in CountKinds : j # k => counts'[j] = counts[j]
  OBVIOUS

LEMMA CountsPreserved ==
  ASSUME LInv, [LoopNext]_loopVars
  PROVE  CountsOK' /\ CountsAreOfTurns'
  <1> USE LoopBounds DEF CountKinds
  <1>0. CountsOK /\ CountsAreOfTurns /\ yielded \in Nat /\ yielded <= MaxYield
    BY TypeIsItsParts DEF LInv, ControlOK
  <1>1. ASSUME NEW t \in Ticks, SkipTick(t)
        PROVE  CountsOK' /\ CountsAreOfTurns'
    <2>1. CASE t = lastTick
      <3>1. counts' = [counts EXCEPT !["duplicate"] = @ + 1]
        BY <1>1, <2>1 DEF SkipTick
      <3>2. QED
        BY <1>0, <1>1, <3>1, CountOne
           DEF CountsOK, CountsAreOfTurns, Pending, InTurn, SkipTick, Yield
    <2>2. CASE t # lastTick
      <3>1. counts' = [counts EXCEPT !["out_of_order"] = @ + 1]
        BY <1>1, <2>2 DEF SkipTick
      <3>2. QED
        BY <1>0, <1>1, <3>1, CountOne
           DEF CountsOK, CountsAreOfTurns, Pending, InTurn, SkipTick, Yield
    <2>3. QED
      BY <2>1, <2>2
  <1>2. ASSUME NEW t \in Ticks, Fresh(t), pc' \in {"notify_tick", "submit"}
        PROVE  CountsOK' /\ CountsAreOfTurns'
    <2>1. CASE IsGap(t)
      <3>1. counts' = [counts EXCEPT !["gap"] = @ + 1]
        BY <1>2, <2>1 DEF Fresh, CountGap
      <3>2. QED
        BY <1>0, <1>2, <3>1, CountOne
           DEF CountsOK, CountsAreOfTurns, Pending, InTurn, Fresh, Yield
    <2>2. CASE ~IsGap(t)
      BY <1>0, <1>2, <2>2
         DEF CountsOK, CountsAreOfTurns, Pending, InTurn, Fresh, Yield, CountGap
    <2>3. QED
      BY <2>1, <2>2
  <1>3. ASSUME NEW t \in Ticks, StopOnGap(t) \/ DeciderRaises(t)
        PROVE  CountsOK' /\ CountsAreOfTurns'
    <2>1. CASE IsGap(t)
      <3>1. counts' = [counts EXCEPT !["gap"] = @ + 1]
        BY <1>3, <2>1 DEF StopOnGap, DeciderRaises, Fresh, CountGap
      <3>2. QED
        BY <1>0, <1>3, <3>1, CountOne
           DEF CountsOK, CountsAreOfTurns, Pending, InTurn, StopOnGap, DeciderRaises, Fresh,
               Yield, Leave
    <2>2. CASE ~IsGap(t)
      BY <1>0, <1>3, <2>2
         DEF CountsOK, CountsAreOfTurns, Pending, InTurn, StopOnGap, DeciderRaises, Fresh,
             Yield, Leave, CountGap
    <2>3. QED
      BY <2>1, <2>2
  <1>4. CASE NotifyObserved
    <2>1. CASE result.submit = "not_submitted"
      BY <1>0, <1>4, <2>1
         DEF CountsOK, CountsAreOfTurns, Pending, InTurn, NotifyObserved, Leave
    <2>2. CASE result.submit # "not_submitted"
      <3>1. counts' = [counts EXCEPT !["processed"] = @ + 1]
        BY <1>4, <2>2 DEF NotifyObserved
      <3>2. pc' \notin InTurn /\ pc \in InTurn /\ yielded' = yielded
        BY <1>4 DEF NotifyObserved, Leave, InTurn
      <3>3. QED
        BY <1>0, <3>1, <3>2, CountOne DEF CountsOK, CountsAreOfTurns, Pending
    <2>3. QED
      BY <2>1, <2>2
  <1>5. CASE AnswerSubmit \/ SubmitTimesOut \/ NotifyTick
    BY <1>0, <1>5 DEF CountsOK, CountsAreOfTurns, Pending, InTurn, AnswerSubmit, SubmitTimesOut,
              NotifyTick, Finalize
  <1>6. CASE SubmitRaises \/ BackOff \/ Reopen \/ ReopenFails \/ FinalClose \/ Cancel
             \/ StreamEnds \/ StreamFails
    <2>1. pc' \notin InTurn /\ UNCHANGED <<counts, yielded>>
      BY <1>6 DEF SubmitRaises, BackOff, Reopen, ReopenFails, FinalClose, Cancel, StreamEnds,
                  StreamFails, Leave, Reopens, InTurn
    <2>2. QED
      BY <1>0, <2>1 DEF CountsOK, CountsAreOfTurns, Pending
  <1>7. CASE UNCHANGED loopVars
    BY <1>0, <1>7 DEF CountsOK, CountsAreOfTurns, Pending, loopVars
  <1>8. ASSUME NEW t \in Ticks, Observe(t)
        PROVE  CountsOK' /\ CountsAreOfTurns'
    <2>1. CASE NoBudget(t) \/ DecideInTime(t) \/ FallBack(t) \/ DropLateDecision(t)
      BY <1>2, <2>1 DEF NoBudget, DecideInTime, FallBack, DropLateDecision, BeginSubmit, Finalize
    <2>2. QED
      BY <1>1, <1>3, <1>8, <2>1 DEF Observe
  <1>9. QED
    BY <1>4, <1>5, <1>6, <1>7, <1>8 DEF LoopNext, SourceAnswers
LEMMA StreamsPreserved ==
  ASSUME LInv, [LoopNext]_loopVars
  PROVE  StreamsOK' /\ StreamsAreOfReconnects'
  <1> USE DEF LInv
  <1>0. StreamsOK /\ StreamsAreOfReconnects /\ config.max_reconnects \in Nat
    BY TypeIsItsParts, ConfigsAreConfigs DEF ControlOK
  <1>1. ASSUME UNCHANGED <<config, reconnects, closes>>, pc' \notin {"backoff", "close_old"}
        PROVE  StreamsOK' /\ StreamsAreOfReconnects'
    BY <1>0, <1>1 DEF StreamsOK, StreamsAreOfReconnects
  <1>2. ASSUME UNCHANGED <<config, reconnects>>, pc' = "final_close", closes' = CloseCalled
        PROVE  StreamsOK' /\ StreamsAreOfReconnects'
    BY <1>0, <1>2 DEF StreamsOK, StreamsAreOfReconnects, CloseCalled
  <1>3. ASSUME NEW t \in Ticks, SkipTick(t) \/ RecordsIdle(t) \/ SubmitsTurn(t)
        PROVE  StreamsOK' /\ StreamsAreOfReconnects'
    BY <1>1, <1>3 DEF SkipTick, RecordsIdle, SubmitsTurn, Finalize, BeginSubmit, Yield
  <1>4. CASE RecordsSubmission \/ NotifyTick \/ GoesOn \/ Closed
    BY <1>1, <1>4 DEF RecordsSubmission, Finalize, NotifyTick, GoesOn, NotifyObserved, Closed,
              FinalClose, Cancel
  <1>5. CASE StopsAfterTurn \/ BreaksOff
    BY <1>2, <1>5 DEF StopsAfterTurn, BreaksOff, Leaves, Leave
  <1>6. CASE ReopensStream
    BY <1>0, <1>6 DEF StreamsOK, StreamsAreOfReconnects, ReopensStream, MayReopen, Reopens
  <1>7. CASE BackOff
    BY <1>0, <1>7 DEF StreamsOK, StreamsAreOfReconnects, BackOff, CloseCalled
  <1>8. CASE Reopen
    BY <1>0, <1>8 DEF StreamsOK, StreamsAreOfReconnects, Reopen
  <1>9. CASE UNCHANGED loopVars
    BY <1>0, <1>9 DEF StreamsOK, StreamsAreOfReconnects, loopVars
  <1>10. QED
    BY LoopSteps, <1>3, <1>4, <1>5, <1>6, <1>7, <1>8, <1>9

LEMMA ControlPreserved ==
  ASSUME LInv, [LoopNext]_loopVars
  PROVE  ControlOK' /\ RunningUntilLeft'
  <1> USE LoopBounds
  <1>0. ControlOK /\ RunningUntilLeft
    BY TypeIsItsParts DEF LInv
  <1> USE DEF ControlOK, RunningUntilLeft, Left, Points
  <1>1. ASSUME NEW t \in Ticks, SkipTick(t) \/ RecordsIdle(t) \/ SubmitsTurn(t)
        PROVE  ControlOK' /\ RunningUntilLeft'
    <2>1. pc = "next" /\ yielded' \in 0 .. MaxYield /\ UNCHANGED <<config, verdict>>
      BY <1>0, <1>1 DEF SkipTick, RecordsIdle, SubmitsTurn, Finalize, BeginSubmit, Fresh, Yield
    <2>2. pc' \in {"next", "notify_tick", "submit"}
      BY <1>1, <2>1 DEF SkipTick, RecordsIdle, SubmitsTurn, Finalize, BeginSubmit
    <2>3. QED
      BY <1>0, <2>1, <2>2
  <1>2. CASE RecordsSubmission \/ NotifyTick \/ GoesOn
    BY <1>0, <1>2 DEF RecordsSubmission, Finalize, NotifyTick, GoesOn, NotifyObserved
  <1>3. CASE StopsAfterTurn
    BY <1>0, <1>3 DEF StopsAfterTurn, NotifyObserved, Leaves, Leave
  <1>4. CASE BreaksOff
    <2>1. pc' = "final_close" /\ verdict' \in StoppedReasons \cup Raised /\ config' = config
      BY <1>4 DEF BreaksOff, Leaves, Leave
    <2>2. yielded' \in 0 .. MaxYield
      BY <1>0, <1>4 DEF BreaksOff
    <2>3. QED
      BY <1>0, <2>1, <2>2
  <1>5. CASE ReopensStream \/ BackOff \/ Reopen
    BY <1>0, <1>5 DEF ReopensStream, Reopens, BackOff, Reopen
  <1>6. CASE Closed
    BY <1>0, <1>6 DEF Closed, FinalClose, Cancel, Raised
  <1>7. CASE UNCHANGED loopVars
    BY <1>0, <1>7 DEF loopVars
  <1>8. QED
    BY LoopSteps, <1>1, <1>2, <1>3, <1>4, <1>5, <1>6, <1>7

LEMMA RecordPreserved ==
  ASSUME LInv, [LoopNext]_loopVars
  PROVE  RecordOK'
  <1> USE LoopBounds
  <1>0. RecordOK
    BY TypeIsItsParts DEF LInv
  <1>1. ASSUME NEW t \in Ticks, SkipTick(t)
        PROVE  RecordOK'
    BY <1>0, <1>1 DEF SkipTick, RecordOK
  <1>2. ASSUME NEW t \in Ticks, RecordsIdle(t)
        PROVE  RecordOK'
    BY <1>0, <1>2 DEF RecordsIdle, Finalize, Results, Submitted, RecordOK
  <1>3. ASSUME NEW t \in Ticks, SubmitsTurn(t)
        PROVE  RecordOK'
    BY <1>0, <1>3 DEF SubmitsTurn, BeginSubmit, Results, Submitted, RecordOK
  <1>4. CASE RecordsSubmission
    BY <1>0, <1>4 DEF RecordsSubmission, Finalize, Results, Submitted, RecordOK
  <1>5. CASE NotifyTick \/ ReopensStream \/ BackOff \/ Reopen \/ Closed \/ BreaksOff
             \/ UNCHANGED loopVars
    BY <1>0, <1>5 DEF RecordOK, NotifyTick, ReopensStream, BackOff, Reopen, Closed, FinalClose,
              Cancel, BreaksOff, Leaves, loopVars
  <1>6. CASE GoesOn \/ StopsAfterTurn
    BY <1>0, <1>6 DEF RecordOK, GoesOn, StopsAfterTurn, NotifyObserved, Results, Ticks
  <1>7. QED
    BY LoopSteps, <1>1, <1>2, <1>3, <1>4, <1>5, <1>6
-----------------------------------------------------------------------------
(* The rest of the inductive invariant, one conjunct at a time.            *)

LEMMA StreamsStayClosed ==
  ASSUME LInv, [LoopNext]_loopVars
  PROVE  StreamsAreClosed'
  <1>0. StreamsOK /\ StreamsAreClosed
    BY TypeIsItsParts DEF LInv
  <1> USE DEF StreamsOK, StreamsAreClosed, Left
  <1>1. ASSUME NEW t \in Ticks, SkipTick(t) \/ RecordsIdle(t) \/ SubmitsTurn(t)
        PROVE  StreamsAreClosed'
    BY <1>0, <1>1 DEF SkipTick, RecordsIdle, SubmitsTurn, Finalize, BeginSubmit, Fresh, Yield
  <1>2. CASE RecordsSubmission \/ NotifyTick \/ GoesOn \/ ReopensStream \/ Closed
             \/ UNCHANGED loopVars
    BY <1>0, <1>2 DEF RecordsSubmission, Finalize, NotifyTick, GoesOn, NotifyObserved,
              ReopensStream, Reopens, Closed, FinalClose, Cancel, loopVars
  <1>3. CASE StopsAfterTurn \/ BreaksOff
    BY <1>0, <1>3 DEF StopsAfterTurn, BreaksOff, Leaves, Leave, CloseCalled
  <1>4. CASE BackOff
    BY <1>0, <1>4 DEF BackOff, CloseCalled
  <1>5. CASE Reopen
    BY <1>0, <1>5 DEF Reopen
  <1>6. QED
    BY LoopSteps, <1>1, <1>2, <1>3, <1>4, <1>5

LEMMA ElementsOfSeq ==
  ASSUME NEW S, NEW s \in Seq(S)
  PROVE  \A i \in DOMAIN s : s[i] \in S
  OBVIOUS

LEMMA TicksAreNumbers ==
  ASSUME RecordOK
  PROVE  /\ lastTick \in Nat /\ result.tick \in Nat
         /\ \A k \in DOMAIN outcomes : outcomes[k].tick \in Nat
         /\ \A i \in DOMAIN submissions : submissions[i].tick \in Nat
  <1>1. Ticks \subseteq Nat /\ lastTick \in Nat
    BY LoopBounds DEF RecordOK, Ticks
  <1>2. result \in Results /\ \A k \in DOMAIN outcomes : outcomes[k] \in Results
    BY DEF RecordOK
  <1>3. \A i \in DOMAIN submissions :
          submissions[i] \in [tick : Ticks, kind : {"decision", "fallback"}]
    BY ElementsOfSeq DEF RecordOK
  <1>4. QED
    BY <1>1, <1>2, <1>3 DEF Results

LEMMA AppendAdds ==
  ASSUME NEW S, NEW s \in Seq(S), NEW e
  PROVE  /\ DOMAIN Append(s, e) = DOMAIN s \cup {Len(s) + 1}
         /\ Len(Append(s, e)) = Len(s) + 1
         /\ Append(s, e)[Len(s) + 1] = e
         /\ \A i \in DOMAIN s : Append(s, e)[i] = s[i] /\ i < Len(s) + 1
         /\ Len(s) \in Nat
  OBVIOUS

LEMMA TurnStaysAhead ==
  ASSUME LInv, [LoopNext]_loopVars
  PROVE  TurnIsAhead'
  <1>0. RecordOK /\ TurnIsAhead
    BY TypeIsItsParts DEF LInv
  <1> USE LoopBounds DEF TurnIsAhead, TicksAreBehind, RecordOK, Between, InTurn, Ticks
  <1>1. ASSUME NEW t \in Ticks, SkipTick(t)
        PROVE  TurnIsAhead'
    BY <1>0, <1>1 DEF SkipTick, Yield
  <1>2. ASSUME NEW t \in Ticks, RecordsIdle(t)
        PROVE  TurnIsAhead'
    <2>1. pc = "next" /\ t > lastTick /\ pc' = "notify_tick"
      BY <1>2 DEF RecordsIdle, Fresh, Yield, Finalize
    <2>2. result'.tick = t /\ lastTick' = lastTick /\ submissions' = submissions
          /\ outcomes' = Append(outcomes, result')
      BY <1>2 DEF RecordsIdle, Finalize
    <2>3. TicksAreBehind(lastTick)
      BY <1>0, <2>1
    <2>4. QED
      BY <1>0, <2>1, <2>2, <2>3, TicksAreNumbers, AppendAdds, SMTT(30)
  <1>3. ASSUME NEW t \in Ticks, SubmitsTurn(t)
        PROVE  TurnIsAhead'
    <2>1. pc = "next" /\ t > lastTick /\ pc' = "submit"
      BY <1>3 DEF SubmitsTurn, Fresh, Yield, BeginSubmit
    <2>2. /\ result'.tick = t /\ result'.submit = "not_submitted"
          /\ lastTick' = lastTick /\ outcomes' = outcomes
          /\ \E k \in {"decision", "fallback"} :
               submissions' = Append(submissions, [tick |-> t, kind |-> k])
      BY <1>3 DEF SubmitsTurn, BeginSubmit
    <2>3. /\ \A k \in DOMAIN outcomes : outcomes[k].tick < t
          /\ \A i \in DOMAIN submissions : submissions[i].tick < t
      BY <1>0, <2>1, TicksAreNumbers
    <2>4. PICK k \in {"decision", "fallback"} :
            submissions' = Append(submissions, [tick |-> t, kind |-> k])
      BY <2>2
    <2>5. QED
      BY <1>0, <2>1, <2>2, <2>3, <2>4, TicksAreNumbers, AppendAdds, SMTT(30)
  <1>4. CASE RecordsSubmission
    <2>1. /\ pc = "submit" /\ pc' = "notify_tick" /\ result'.tick = result.tick
          /\ outcomes' = Append(outcomes, result')
          /\ UNCHANGED <<lastTick, submissions>>
      BY <1>0, <1>4 DEF RecordsSubmission, Finalize, Results
    <2>2. QED
      BY <1>0, <2>1, SMTT(30) DEF Results
  <1>5. CASE NotifyTick
    BY <1>0, <1>5 DEF NotifyTick
  <1>6. CASE GoesOn
    BY <1>0, <1>6 DEF GoesOn, NotifyObserved, Advances
  <1>7. CASE StopsAfterTurn \/ BreaksOff \/ Closed
    <2>1. pc' \notin Between \cup InTurn
      BY <1>7 DEF StopsAfterTurn, BreaksOff, Leaves, Leave, Closed, FinalClose, Cancel
    <2>2. QED
      BY <2>1
  <1>8. CASE ReopensStream \/ BackOff \/ Reopen \/ UNCHANGED loopVars
    BY <1>0, <1>8 DEF ReopensStream, Reopens, BackOff, Reopen, loopVars
  <1>9. QED
    BY LoopSteps, <1>1, <1>2, <1>3, <1>4, <1>5, <1>6, <1>7, <1>8

LEMMA SubmissionsStayApart ==
  ASSUME LInv, [LoopNext]_loopVars
  PROVE  OneSubmissionPerTick'
  <1>0. RecordOK /\ TurnIsAhead /\ OneSubmissionPerTick
    BY TypeIsItsParts DEF LInv
  <1>1. ASSUME NEW t \in Ticks, SubmitsTurn(t)
        PROVE  OneSubmissionPerTick'
    <2>1. \A i \in DOMAIN submissions : submissions[i].tick < t
      BY <1>0, <1>1, TicksAreNumbers
         DEF TurnIsAhead, TicksAreBehind, Between, SubmitsTurn, Fresh, Yield, Ticks
    <2>2. \E k \in {"decision", "fallback"} :
            submissions' = Append(submissions, [tick |-> t, kind |-> k])
      BY <1>1 DEF SubmitsTurn, BeginSubmit
    <2>3. QED
      BY <1>0, <2>1, <2>2 DEF OneSubmissionPerTick, RecordOK
  <1>2. CASE UNCHANGED submissions
    BY <1>0, <1>2 DEF OneSubmissionPerTick
  <1>3. QED
    BY LoopSteps, <1>1, <1>2
       DEF SkipTick, RecordsIdle, RecordsSubmission, NotifyTick, GoesOn, NotifyObserved,
           StopsAfterTurn, BreaksOff, Leaves, ReopensStream, BackOff, Reopen, Closed,
           FinalClose, Cancel, loopVars
LEMMA SumsRegroup ==
  \A a, b, c \in Nat : a + b + c = a + (b + c)
  OBVIOUS

LEMMA TurnsStayAccountedFor ==
  ASSUME LInv, [LoopNext]_loopVars
  PROVE  TurnsAreAccountedFor'
  <1>0. /\ CountsOK /\ RecordOK /\ ControlOK /\ RunningUntilLeft /\ TurnsAreAccountedFor
        /\ LoopBounds
    BY TypeIsItsParts, LoopBounds DEF LInv
  <1>1. /\ counts.duplicate \in Nat /\ counts.out_of_order \in Nat
        /\ counts'.duplicate \in Nat /\ counts'.out_of_order \in Nat
        /\ yielded \in Nat /\ Len(outcomes) \in Nat
    BY <1>0, CountsPreserved DEF CountsOK, CountKinds, RecordOK, ControlOK
  <1> DEFINE Tallied == counts.duplicate + counts.out_of_order
  <1>2. ASSUME pc \notin Left
        PROVE  yielded = Len(outcomes) + Tallied + (IF pc = "submit" THEN 1 ELSE 0)
    BY <1>0, <1>1, <1>2 DEF TurnsAreAccountedFor, RunningUntilLeft
  <1>3. ASSUME NEW t \in Ticks, SkipTick(t)
        PROVE  TurnsAreAccountedFor'
    <2>1. pc = "next" /\ pc' = "next" /\ yielded' = yielded + 1 /\ outcomes' = outcomes
      BY <1>3 DEF SkipTick, Yield
    <2>2. Tallied' = Tallied + 1
      <3>1. CASE t = lastTick
        <4>1. counts' = [counts EXCEPT !["duplicate"] = @ + 1]
          BY <1>3, <3>1 DEF SkipTick
        <4>2. QED
          BY <1>0, <1>1, <4>1, CountOne DEF CountsOK, CountKinds
      <3>2. CASE t # lastTick
        <4>1. counts' = [counts EXCEPT !["out_of_order"] = @ + 1]
          BY <1>3, <3>2 DEF SkipTick
        <4>2. QED
          BY <1>0, <1>1, <4>1, CountOne DEF CountsOK, CountKinds
      <3>3. QED
        BY <3>1, <3>2
    <2>3. yielded = Len(outcomes) + Tallied
      BY <1>1, <1>2, <2>1 DEF Left
    <2>4. counts'.duplicate + counts'.out_of_order
            = counts.duplicate + counts.out_of_order + 1
      BY <2>2
    <2>5. yielded + 1 = Len(outcomes) + (counts'.duplicate + counts'.out_of_order)
      BY <1>1, <2>3, <2>4
    <2>6. yielded' = Len(outcomes') + counts'.duplicate + counts'.out_of_order
      BY <1>1, <2>1, <2>5, SumsRegroup
    <2>7. QED
      BY <1>1, <2>1, <2>6 DEF TurnsAreAccountedFor
  <1>4. ASSUME NEW t \in Ticks, Fresh(t)
        PROVE  Tallied' = Tallied
    BY <1>0, <1>4 DEF Fresh, CountGap, CountsOK, CountKinds
  <1>5. ASSUME NEW t \in Ticks, RecordsIdle(t) \/ SubmitsTurn(t)
        PROVE  TurnsAreAccountedFor'
    <2>1. pc = "next" /\ yielded' = yielded + 1 /\ Tallied' = Tallied
      BY <1>4, <1>5 DEF RecordsIdle, SubmitsTurn, Fresh, Yield
    <2>2. \/ pc' = "notify_tick" /\ Len(outcomes') = Len(outcomes) + 1
          \/ pc' = "submit" /\ outcomes' = outcomes
      BY <1>0, <1>5, AppendAdds DEF RecordsIdle, SubmitsTurn, Finalize, BeginSubmit, RecordOK
    <2>3. yielded = Len(outcomes) + Tallied
      BY <1>1, <1>2, <2>1 DEF Left
    <2>4. CASE pc' = "notify_tick" /\ Len(outcomes') = Len(outcomes) + 1
      <3>1. Len(outcomes') \in Nat /\ Len(outcomes') = Len(outcomes) + 1
        BY <1>1, <2>4
      <3>2. counts'.duplicate + counts'.out_of_order = counts.duplicate + counts.out_of_order
        BY <2>1
      <3>3. yielded + 1 = Len(outcomes') + (counts'.duplicate + counts'.out_of_order)
        BY <1>1, <2>3, <3>1, <3>2
      <3>4. yielded' = Len(outcomes') + counts'.duplicate + counts'.out_of_order
        BY <1>1, <2>1, <3>1, <3>3, SumsRegroup
      <3>5. QED
        BY <1>1, <2>4, <3>1, <3>4 DEF TurnsAreAccountedFor
    <2>5. CASE pc' = "submit" /\ outcomes' = outcomes
      <3>1. yielded' = Len(outcomes') + counts'.duplicate + counts'.out_of_order + 1
        BY <1>1, <2>1, <2>3, <2>5
      <3>2. QED
        BY <1>1, <2>5, <3>1 DEF TurnsAreAccountedFor
    <2>6. QED
      BY <2>2, <2>4, <2>5
  <1>6. CASE RecordsSubmission
    <2>1. /\ pc = "submit" /\ pc' = "notify_tick" /\ Len(outcomes') = Len(outcomes) + 1
          /\ UNCHANGED <<counts, yielded>>
      BY <1>0, <1>6 DEF RecordsSubmission, Finalize, RecordOK
    <2>2. QED
      BY <1>1, <1>2, <2>1 DEF TurnsAreAccountedFor, Left
  <1>7. CASE NotifyObserved
    <2>1. /\ pc = "notify_observed" /\ pc' \in {"next", "final_close"}
          /\ UNCHANGED <<outcomes, yielded>>
      BY <1>7 DEF NotifyObserved, Leave
    <2>2. Tallied' = Tallied
      BY <1>0, <1>7 DEF NotifyObserved, CountsOK, CountKinds
    <2>3. QED
      BY <1>1, <1>2, <2>1, <2>2 DEF TurnsAreAccountedFor, Left
  <1>8. CASE NotifyTick \/ ReopensStream \/ BackOff \/ Reopen
    <2>1. pc \notin Left \cup {"submit"} /\ pc' # "submit" /\ UNCHANGED <<counts, outcomes, yielded>>
      BY <1>8 DEF NotifyTick, ReopensStream, Reopens, BackOff, Reopen, Left
    <2>2. QED
      BY <1>1, <1>2, <2>1 DEF TurnsAreAccountedFor
  <1>9. CASE BreaksOff
    <2>1. pc' = "final_close" /\ outcomes' = outcomes /\ Tallied' = Tallied
      BY <1>9 DEF BreaksOff, Leaves, Leave
    <2>2. CASE verdict' \in Raised \cup {"gap"}
      BY <2>2 DEF TurnsAreAccountedFor, Raised
    <2>3. CASE pc = "next" /\ UNCHANGED yielded
      BY <1>1, <1>2, <2>1, <2>3 DEF TurnsAreAccountedFor, Left
    <2>4. QED
      BY <1>9, <2>2, <2>3 DEF BreaksOff
  <1>10. CASE Closed \/ UNCHANGED loopVars
    <2>1. /\ verdict' \in {verdict, "raised", "cancelled"} /\ UNCHANGED <<counts, outcomes, yielded>>
          /\ (pc = "submit" <=> pc' = "submit")
      BY <1>10 DEF Closed, FinalClose, Cancel, loopVars
    <2>2. QED
      BY <1>0, <1>1, <2>1 DEF TurnsAreAccountedFor
  <1>11. QED
    BY LoopSteps, <1>3, <1>5, <1>6, <1>7, <1>8, <1>9, <1>10 DEF GoesOn, StopsAfterTurn

LEMMA OutcomesStayTold ==
  ASSUME LInv, [LoopNext]_loopVars
  PROVE  OutcomesTellSubmissions'
  <1>0. /\ RecordOK /\ ControlOK /\ RunningUntilLeft /\ TurnIsAhead /\ OneSubmissionPerTick
        /\ OutcomesTellSubmissions
    BY TypeIsItsParts DEF LInv
  <1>1. ASSUME pc \notin Left \cup {"submit"}, NEW i \in DOMAIN submissions
        PROVE  Told(i)
    BY <1>0, <1>1 DEF OutcomesTellSubmissions, Awaited, RunningUntilLeft, Raised
  \* A submission that was told of stays told of.
  <1>2. ASSUME pc \notin Left \cup {"submit"}, UNCHANGED <<outcomes, submissions>>
        PROVE  OutcomesTellSubmissions'
    BY <1>0, <1>1, <1>2 DEF OutcomesTellSubmissions, Told
  <1>3. ASSUME NEW t \in Ticks, RecordsIdle(t)
        PROVE  OutcomesTellSubmissions'
    <2>1. /\ pc = "next" /\ t > lastTick /\ submissions' = submissions
          /\ outcomes' = Append(outcomes, result')
          /\ result'.tick = t /\ result'.submit = "not_submitted"
      BY <1>3 DEF RecordsIdle, Fresh, Yield, Finalize
    <2>2. \A k \in DOMAIN outcomes : outcomes[k].tick < t
      BY <1>0, <2>1, TicksAreNumbers DEF TurnIsAhead, TicksAreBehind, Between, Ticks
    <2>3. \A i \in DOMAIN submissions : Told(i)
      BY <1>1, <2>1 DEF Left
    <2>4. /\ DOMAIN outcomes' = DOMAIN outcomes \cup {Len(outcomes) + 1}
          /\ outcomes'[Len(outcomes) + 1] = result'
          /\ \A k \in DOMAIN outcomes : outcomes'[k] = outcomes[k] /\ k < Len(outcomes) + 1
      BY <1>0, <2>1, AppendAdds DEF RecordOK
    <2>5. \A i \in DOMAIN submissions' : Told(i)'
      BY <2>1, <2>3, <2>4 DEF Told
    <2>6. \A k \in DOMAIN outcomes' : outcomes'[k].submit # "not_submitted"
             => \E i \in DOMAIN submissions' : submissions'[i].tick = outcomes'[k].tick
      BY <1>0, <2>1, <2>4 DEF OutcomesTellSubmissions
    <2>7. \A j, k \in DOMAIN outcomes' : j < k => outcomes'[j].tick < outcomes'[k].tick
      BY <1>0, <2>1, <2>2, <2>4 DEF OutcomesTellSubmissions, RecordOK
    <2>8. QED
      BY <2>5, <2>6, <2>7 DEF OutcomesTellSubmissions
  <1>4. ASSUME NEW t \in Ticks, SubmitsTurn(t)
        PROVE  OutcomesTellSubmissions'
    <2>1. /\ pc = "next" /\ pc' = "submit" /\ outcomes' = outcomes /\ result'.tick = t
          /\ \E k \in {"decision", "fallback"} :
               submissions' = Append(submissions, [tick |-> t, kind |-> k])
      BY <1>4 DEF SubmitsTurn, Fresh, Yield, BeginSubmit
    <2>2. PICK k \in {"decision", "fallback"} :
            submissions' = Append(submissions, [tick |-> t, kind |-> k])
      BY <2>1
    <2>3. \A i \in DOMAIN submissions : Told(i)
      BY <1>1, <2>1 DEF Left
    <2>4. \A i \in DOMAIN submissions' : Told(i)' \/ Awaited(i)'
      <3>1. /\ DOMAIN submissions' = DOMAIN submissions \cup {Len(submissions')}
            /\ submissions'[Len(submissions')].tick = t
            /\ \A i \in DOMAIN submissions : submissions'[i] = submissions[i]
        BY <1>0, <2>2, AppendAdds DEF RecordOK
      <3>2. \A i \in DOMAIN submissions : Told(i)'
        BY <2>1, <2>3, <3>1 DEF Told
      <3>3. \A i \in DOMAIN submissions' : i = Len(submissions') => Awaited(i)'
        BY <2>1, <3>1 DEF Awaited
      <3>4. QED
        BY <3>1, <3>2, <3>3
    <2>5. \A k2 \in DOMAIN outcomes : outcomes[k2].submit # "not_submitted"
             => \E i \in DOMAIN submissions' : submissions'[i].tick = outcomes[k2].tick
      <3>1. /\ DOMAIN submissions \subseteq DOMAIN submissions'
            /\ \A i \in DOMAIN submissions : submissions'[i] = submissions[i]
        BY <1>0, <2>2, AppendAdds DEF RecordOK
      <3>2. QED
        BY <1>0, <3>1 DEF OutcomesTellSubmissions
    <2>6. QED
      BY <1>0, <2>1, <2>4, <2>5 DEF OutcomesTellSubmissions
  <1>5. CASE RecordsSubmission
    <2>1. /\ pc = "submit" /\ submissions' = submissions
          /\ outcomes' = Append(outcomes, result')
          /\ result'.tick = result.tick /\ result'.submit # "not_submitted"
      BY <1>0, <1>5 DEF RecordsSubmission, Finalize, RecordOK, Results
    <2>2. /\ Len(submissions) \in DOMAIN submissions
          /\ submissions[Len(submissions)].tick = result.tick
          /\ \A k \in DOMAIN outcomes : outcomes[k].tick < result.tick
      BY <1>0, <2>1 DEF TurnIsAhead, RecordOK
    <2>3. /\ DOMAIN outcomes' = DOMAIN outcomes \cup {Len(outcomes) + 1}
          /\ outcomes'[Len(outcomes) + 1] = result'
          /\ \A k \in DOMAIN outcomes : outcomes'[k] = outcomes[k] /\ k < Len(outcomes) + 1
      BY <1>0, <2>1, AppendAdds DEF RecordOK
    <2>4. ASSUME NEW i \in DOMAIN submissions'
          PROVE  Told(i)'
      <3>1. CASE Told(i)
        BY <2>1, <2>3, <3>1 DEF Told
      <3>2. CASE Awaited(i)
        BY <2>1, <2>3, <3>2 DEF Told, Awaited
      <3>3. QED
        BY <1>0, <2>1, <3>1, <3>2 DEF OutcomesTellSubmissions
    <2>5. \A k \in DOMAIN outcomes' : outcomes'[k].submit # "not_submitted"
             => \E i \in DOMAIN submissions' : submissions'[i].tick = outcomes'[k].tick
      BY <1>0, <2>1, <2>2, <2>3 DEF OutcomesTellSubmissions
    <2>6. \A j, k \in DOMAIN outcomes' : j < k => outcomes'[j].tick < outcomes'[k].tick
      BY <1>0, <2>1, <2>2, <2>3 DEF OutcomesTellSubmissions, RecordOK
    <2>7. QED
      BY <2>4, <2>5, <2>6 DEF OutcomesTellSubmissions
  <1>6. ASSUME NEW t \in Ticks, SkipTick(t)
        PROVE  OutcomesTellSubmissions'
    BY <1>2, <1>6 DEF SkipTick, Yield, Left
  <1>7. CASE NotifyTick \/ NotifyObserved \/ ReopensStream \/ BackOff \/ Reopen
    BY <1>2, <1>7 DEF NotifyTick, NotifyObserved, ReopensStream, BackOff, Reopen, Left
  <1>8. CASE BreaksOff
    <2>1. pc \notin Left /\ UNCHANGED <<result, outcomes, submissions>>
      BY <1>8 DEF BreaksOff, Leaves
    <2>2. CASE pc # "submit"
      BY <1>2, <2>1, <2>2
    <2>3. CASE verdict' \in Raised
      BY <1>0, <2>1, <2>3 DEF OutcomesTellSubmissions, Told, Awaited
    <2>4. QED
      BY <1>8, <2>2, <2>3 DEF BreaksOff
  <1>9. CASE Closed \/ UNCHANGED loopVars
    <2>1. /\ verdict' \in {verdict, "raised", "cancelled"}
          /\ (pc = "submit" => pc' = "submit") /\ UNCHANGED <<result, outcomes, submissions>>
      BY <1>9 DEF Closed, FinalClose, Cancel, loopVars
    <2>2. QED
      BY <1>0, <2>1 DEF OutcomesTellSubmissions, Told, Awaited, Raised
  <1>10. QED
    BY LoopSteps, <1>3, <1>4, <1>5, <1>6, <1>7, <1>8, <1>9 DEF GoesOn, StopsAfterTurn
-----------------------------------------------------------------------------
(* The theorems about the loop alone.                                      *)

LEMMA LoopStarts == LoopInit => LInv
  <1> SUFFICES ASSUME LoopInit
               PROVE  LInv
    OBVIOUS
  <1>1. CountsOK /\ CountsAreOfTurns
    BY LoopBounds DEF LoopInit, CountsOK, CountKinds, CountsAreOfTurns, Pending, InTurn
  <1>2. StreamsOK /\ StreamsAreOfReconnects /\ StreamsAreClosed
    BY ConfigsAreConfigs DEF LoopInit, StreamsOK, StreamsAreOfReconnects, StreamsAreClosed, Left
  <1>3. ControlOK /\ RunningUntilLeft
    BY LoopBounds DEF LoopInit, ControlOK, Points, RunningUntilLeft
  <1>4. RecordOK
    BY LoopBounds DEF LoopInit, RecordOK, NoResult, Results, Ticks, Deadlines, Submitted
  <1>5. TurnIsAhead /\ OneSubmissionPerTick /\ OutcomesTellSubmissions
    BY DEF LoopInit, TurnIsAhead, TicksAreBehind, InTurn, OneSubmissionPerTick,
           OutcomesTellSubmissions
  <1>6. TurnsAreAccountedFor
    BY DEF LoopInit, TurnsAreAccountedFor
  <1>7. QED
    BY <1>1, <1>2, <1>3, <1>4, <1>5, <1>6, TypeIsItsParts DEF LInv

LEMMA LoopStays == LInv /\ [LoopNext]_loopVars => LInv'
  <1> SUFFICES ASSUME LInv, [LoopNext]_loopVars
               PROVE  LInv'
    OBVIOUS
  <1>1. LoopTypeOK'
    BY TypeIsItsParts, CountsPreserved, StreamsPreserved, ControlPreserved, RecordPreserved
  <1>2. QED
    BY <1>1, CountsPreserved, StreamsPreserved, ControlPreserved, TurnStaysAhead,
       SubmissionsStayApart, OutcomesStayTold, TurnsStayAccountedFor, StreamsStayClosed
       DEF LInv

\* What LInv is for.
LEMMA LInvSuffices == LInv => OneSubmissionPerTick /\ RunIsAccountedFor
  BY DEF LInv, RunIsAccountedFor, NoStreamIsLeft, StreamsAreClosed, Left

LEMMA LInvHolds == LoopSpec => []LInv
  BY LoopStarts, LoopStays, PTL DEF LoopSpec

\* The loop submits at most once per tick and in tick order, over any number
\* of replays, gaps and reopened streams (run, tick_loop.py).
THEOREM LoopSubmitsOncePerTick == LoopSpec => []OneSubmissionPerTick
  BY LInvHolds, LInvSuffices, PTL

\* The loop's result accounts for every turn and every submission, and it
\* leaves no stream open.
THEOREM LoopIsAccountedFor == LoopSpec => []RunIsAccountedFor
  BY LInvHolds, LInvSuffices, PTL

-----------------------------------------------------------------------------
(* TenantRuntime: the recorder and the telemetry sink beside the loop.     *)

\* Every step of the runtime is one of the loop, or leaves the loop alone.
LEMMA RuntimeStepsAreLoopSteps == [RuntimeNext]_allVars => [LoopNext]_loopVars
  <1> SUFFICES ASSUME RuntimeNext \/ UNCHANGED allVars
               PROVE  LoopNext \/ UNCHANGED loopVars
    OBVIOUS
  <1>1. CASE UNCHANGED allVars
    BY <1>1 DEF allVars
  <1>2. CASE LoopRuns
    BY <1>2 DEF LoopRuns, LoopNext
  <1>3. ASSUME NEW ok \in BOOLEAN, EmitTick(ok) \/ RecordTickState(ok)
        PROVE  LoopNext
    BY <1>3 DEF EmitTick, RecordTickState, LoopNext
  <1>4. ASSUME NEW ok \in BOOLEAN,
               Start(ok) \/ RecordTick(ok) \/ LoopReturns(ok) \/ EmitLoop(ok) \/ Flush(ok)
                 \/ CloseSink(ok) \/ LoopRaises
        PROVE  UNCHANGED loopVars
    BY <1>4 DEF Start, RecordTick, LoopReturns, EmitLoop, Flush, FinishSink, CloseSink, LoopRaises
  <1>5. CASE CancelRun
    BY <1>5 DEF CancelRun, LoopNext
  <1>6. QED
    BY <1>1, <1>2, <1>3, <1>4, <1>5 DEF RuntimeNext

\* "Recorder and telemetry failures never change the returned TickLoopResult"
\* (TenantRuntime, runtime.py): with them the loop behaves like the loop alone.
THEOREM RuntimeImplementsLoop == RuntimeSpec => LoopIsUnaffected
  <1>1. RuntimeInit => LoopInit
    BY DEF RuntimeInit
  <1>2. QED
    BY <1>1, RuntimeStepsAreLoopSteps, PTL DEF RuntimeSpec, LoopIsUnaffected, LoopSpec

\* So everything that was proved of the loop holds of the runtime's loop too.
THEOREM RuntimeSubmitsOncePerTick == RuntimeSpec => []OneSubmissionPerTick
  BY RuntimeImplementsLoop, LoopSubmitsOncePerTick, PTL DEF LoopIsUnaffected

THEOREM RuntimeIsAccountedFor == RuntimeSpec => []RunIsAccountedFor
  BY RuntimeImplementsLoop, LoopIsAccountedFor, PTL DEF LoopIsUnaffected

\* A tick is recorded as lost only once the loop runs, and until the next tick
\* is recorded the recorder's health says so.
LossShows ==
  /\ phase = "not_run" => ~lost
  /\ phase \in {"loop", "emit_tick"} /\ lost => ~health["recorder"]

\* The part of RuntimeTypeOK that is the runtime's own.
OwnTypeOK ==
  /\ phase \in Phases
  /\ status \in {"NOT_STARTED", "STOPPING", "STOPPED"} \cup Serving
  /\ health \in [Components -> BOOLEAN]
  /\ lost \in BOOLEAN

LEMMA SetComponentKeeps ==
  ASSUME OwnTypeOK, NEW c \in Components, NEW healthy \in BOOLEAN, SetComponent(c, healthy)
  PROVE  /\ health' \in [Components -> BOOLEAN]
         /\ status' \in {"NOT_STARTED", "STOPPING", "STOPPED"} \cup Serving
         /\ health'[c] = healthy
         /\ \A d \in Components : d # c => health'[d] = health[d]
  BY DEF OwnTypeOK, SetComponent, TargetStatus, Serving

LEMMA RuntimeStays ==
  ASSUME OwnTypeOK, LossShows, [RuntimeNext]_allVars
  PROVE  OwnTypeOK' /\ LossShows'
  <1> USE DEF Phases, Components
  <1>1. CASE UNCHANGED runtimeVars
    BY <1>1 DEF runtimeVars, OwnTypeOK, LossShows
  <1>2. ASSUME NEW ok \in BOOLEAN, Start(ok)
        PROVE  OwnTypeOK' /\ LossShows'
    BY <1>2 DEF Start, TargetStatus, Serving, OwnTypeOK, LossShows
  <1>3. ASSUME NEW ok \in BOOLEAN, RecordTick(ok)
        PROVE  OwnTypeOK' /\ LossShows'
    BY <1>3, SetComponentKeeps DEF RecordTick, OwnTypeOK, LossShows
  <1>4. ASSUME NEW ok \in BOOLEAN, EmitTick(ok)
        PROVE  OwnTypeOK' /\ LossShows'
    BY <1>4, SetComponentKeeps DEF EmitTick, OwnTypeOK, LossShows
  <1>5. ASSUME NEW ok \in BOOLEAN, RecordTickState(ok)
        PROVE  OwnTypeOK' /\ LossShows'
    <2>1. (health["recorder"] /\ ok) \in BOOLEAN
      OBVIOUS
    <2>2. /\ phase = "loop" /\ phase' = phase /\ lost' = (lost \/ ~ok)
          /\ SetComponent("recorder", health["recorder"] /\ ok)
      BY <1>5 DEF RecordTickState
    <2>3. QED
      BY <2>1, <2>2, SetComponentKeeps DEF OwnTypeOK, LossShows
  <1>6. ASSUME NEW ok \in BOOLEAN, LoopReturns(ok) \/ CloseSink(ok) \/ LoopRaises
        PROVE  OwnTypeOK' /\ LossShows'
    BY <1>6 DEF LoopReturns, CloseSink, LoopRaises, OwnTypeOK, LossShows
  <1>7. ASSUME NEW ok \in BOOLEAN, EmitLoop(ok) \/ Flush(ok)
        PROVE  OwnTypeOK' /\ LossShows'
    BY <1>7, SetComponentKeeps DEF EmitLoop, Flush, FinishSink, OwnTypeOK, LossShows
  <1>8. CASE CancelRun
    BY <1>8 DEF CancelRun, OwnTypeOK, LossShows
  <1>9. QED
    BY <1>1, <1>2, <1>3, <1>4, <1>5, <1>6, <1>7, <1>8
       DEF RuntimeNext, LoopRuns, allVars, runtimeVars

\* "Critical recorder failures surface as not ready" (runtime.py): between
\* turns, a tick of which any record is missing keeps the runtime from ready.
THEOREM LossesAreNotReady == RuntimeSpec => []LostRecordIsNotReady
  <1>1. RuntimeInit => OwnTypeOK /\ LossShows
    BY DEF RuntimeInit, OwnTypeOK, LossShows, Phases, Components, Serving
  <1>2. OwnTypeOK /\ LossShows /\ [RuntimeNext]_allVars => (OwnTypeOK /\ LossShows)'
    BY RuntimeStays
  <1>3. RuntimeSpec => [](OwnTypeOK /\ LossShows)
    BY <1>1, <1>2, PTL DEF RuntimeSpec
  <1>4. RunIsAccountedFor /\ OwnTypeOK /\ LossShows => LostRecordIsNotReady
    BY DEF RunIsAccountedFor, OwnTypeOK, LossShows, LostRecordIsNotReady, RuntimeTypeOK, Ready
  <1>5. QED
    BY <1>3, <1>4, RuntimeIsAccountedFor, PTL
=============================================================================
