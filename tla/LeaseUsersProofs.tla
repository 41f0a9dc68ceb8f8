--------------------------- MODULE LeaseUsersProofs ---------------------------
(***************************************************************************)
(* Proofs about those who hold the file lease of a tenant: live sessions   *)
(* (LiveSession), the drains of its commands (CommandBus) and the          *)
(* conductors of its migration (Migration), for any number of processes,   *)
(* any commands, operations, replans, cores and faults.                    *)
(*                                                                         *)
(* All of them move the lease by steps of its coordinator, but for the     *)
(* exit of a session whose release failed, so the inductive invariant of   *)
(* FileLeases carries over to each.                                        *)
(***************************************************************************)
EXTENDS LiveSession, CommandBus, Migration, FileLeasesProofs

-----------------------------------------------------------------------------
(***************************************************************************)
(* Live sessions.                                                          *)
(*                                                                         *)
(* A session that was granted the lease owns its handle, expired or not,   *)
(* until it has been cleaned up after, and only a running one has tasks.   *)
(***************************************************************************)

Live == {"ACTIVE", "EXPIRED"}
Granted == {"setup", "running", "closing"}

SessionsOwnTheirHandle ==
  \A p \in Procs : phase[p] \in Granted => handle[p].stored \in Live

OnlyRunningSessionsHaveTasks ==
  \A p \in Procs : runtime[p] # "off" \/ renewer[p] # "off" => phase[p] = "running"

SInv ==
  /\ IInv
  /\ SessionTypeOK
  /\ SessionsOwnTheirHandle
  /\ OnlyRunningSessionsHaveTasks

\* The one step that is not the coordinator's: the release failed and the
\* process exits.
ExitsUnreleased(p) ==
  /\ handle' = [handle EXCEPT ![p] = NoHandle]
  /\ lock' = None
  /\ UNCHANGED <<now, record, observed, crashes>>

LEMMA SessionInitEstablishes == SessionInit => SInv
  <1> SUFFICES ASSUME SessionInit PROVE SInv
    OBVIOUS
  <1>1. IInv
    BY InitEstablishes DEF SessionInit
  <1>2. QED
    BY <1>1 DEF SessionInit, SInv, IInv, SessionTypeOK, SessionsOwnTheirHandle, Granted,
                OnlyRunningSessionsHaveTasks

\* What a step of a session does to the lease.
LEMMA SessionStepOnLease ==
  ASSUME SessionNext
  PROVE  \/ [Next]_vars
         \/ \E p \in Procs : phase[p] = "closing" /\ ExitsUnreleased(p)
  <1>1. ASSUME NEW p \in Procs, SessionStep(p)
        PROVE  \/ [Next]_vars
               \/ phase[p] = "closing" /\ ExitsUnreleased(p)
    <2>1. CASE AcquireAtStart(p) \/ ObserveAtStart(p) \/ ReplaceAtStart(p)
      BY <2>1 DEF AcquireAtStart, ObserveAtStart, ReplaceAtStart, Next
    <2>2. CASE Refused(p) \/ SetupFails(p) \/ StartLoop(p)
      BY <2>2 DEF Refused, SetupFails, StartLoop
    <2>3. CASE BeginSubmit(p) \/ EndSubmit(p) \/ RuntimeEnds(p)
      BY <2>3 DEF BeginSubmit, EndSubmit, RuntimeEnds
    <2>4. CASE RenewWakes(p)
      BY <2>4 DEF RenewWakes, Next
    <2>5. CASE RenewerStopsLoop(p) \/ RuntimeStopsLoop(p) \/ Signal(p)
      BY <2>5 DEF RenewerStopsLoop, RuntimeStopsLoop, Signal
    <2>6. CASE ExitSession(p)
      BY <2>6 DEF ExitSession, ExitsUnreleased, Next
    <2>7. CASE Die(p)
      BY <2>7 DEF Die, Next
    <2>8. QED
      BY <1>1, <2>1, <2>2, <2>3, <2>4, <2>5, <2>6, <2>7 DEF SessionStep
  <1>2. ASSUME Clock PROVE [Next]_vars
    BY <1>2 DEF Clock, Next
  <1>3. QED
    BY <1>1, <1>2 DEF SessionNext

LEMMA ExitPreservesLease ==
  ASSUME IInv, NEW p \in Procs, handle[p].stored \in Live, ExitsUnreleased(p)
  PROVE  IInv'
  <1> USE NoneIsNoProcess DEF IInv, TypeOK
  <1>1. NoHandle \in Handle /\ NoHandle.stored = "none"
    BY DEF NoHandle, Handle
  <1>2. lock = p
    BY DEF HandleBackedByLockAndRecord, Live
  <1>3. \A q \in Procs : q # p => handle[q].stored \notin Live
    BY <1>2 DEF HandleBackedByLockAndRecord, Live
  <1>4. \A q \in Procs : handle'[q] = IF q = p THEN NoHandle ELSE handle[q]
    BY DEF ExitsUnreleased
  <1>5. TypeOK'
    BY <1>1 DEF ExitsUnreleased
  <1>6. QED
    BY <1>1, <1>3, <1>4, <1>5
    DEF ExitsUnreleased, HandleBackedByLockAndRecord, LockBacksAHandle,
        IssuedFencesArePositive, Live

LEMMA SessionPreservesLease == SInv /\ [SessionNext]_liveVars => IInv'
  <1> SUFFICES ASSUME SInv, [SessionNext]_liveVars PROVE IInv'
    OBVIOUS
  <1>1. CASE [Next]_vars
    BY <1>1, StepPreserves DEF SInv
  <1>2. ASSUME NEW p \in Procs, phase[p] = "closing", ExitsUnreleased(p) PROVE IInv'
    BY <1>2, ExitPreservesLease DEF SInv, SessionsOwnTheirHandle, Granted
  <1>3. CASE UNCHANGED liveVars
    BY <1>3, <1>1 DEF liveVars
  <1>4. QED
    BY <1>1, <1>2, <1>3, SessionStepOnLease

LEMMA SessionTypes == SInv /\ [SessionNext]_liveVars => SessionTypeOK'
  <1> SUFFICES ASSUME SInv, [SessionNext]_liveVars PROVE SessionTypeOK'
    OBVIOUS
  <1>1. TypeOK'
    BY SessionPreservesLease DEF IInv
  <1> USE <1>1 DEF SInv, SessionTypeOK
  <1>2. ASSUME NEW p \in Procs, SessionStep(p) PROVE SessionTypeOK'
    <2>1. CASE AcquireAtStart(p) \/ ObserveAtStart(p) \/ ReplaceAtStart(p)
      BY <2>1 DEF AcquireAtStart, ObserveAtStart, ReplaceAtStart, BecomeWriter
    <2>2. CASE Refused(p) \/ SetupFails(p) \/ StartLoop(p)
      BY <2>2 DEF Refused, SetupFails, StartLoop
    <2>3. CASE BeginSubmit(p) \/ EndSubmit(p) \/ RuntimeEnds(p)
      BY <2>3 DEF BeginSubmit, EndSubmit, RuntimeEnds
    <2>4. CASE RenewWakes(p)
      BY <2>4 DEF RenewWakes
    <2>5. CASE RenewerStopsLoop(p) \/ RuntimeStopsLoop(p)
      BY <2>5 DEF RenewerStopsLoop, RuntimeStopsLoop, LeaveLoop
    <2>6. CASE Signal(p)
      BY <2>6 DEF Signal, LeaveLoop
    <2>7. CASE ExitSession(p)
      BY <2>7 DEF ExitSession, ExitCode
    <2>8. CASE Die(p)
      BY <2>8 DEF Die
    <2>9. QED
      BY <1>2, <2>1, <2>2, <2>3, <2>4, <2>5, <2>6, <2>7, <2>8 DEF SessionStep
  <1>3. CASE Clock
    BY <1>3 DEF Clock, session
  <1>4. CASE UNCHANGED liveVars
    BY <1>4 DEF liveVars, session
  <1>5. QED
    BY <1>2, <1>3, <1>4 DEF SessionNext

\* Whatever comes of a renewal, a handle that is not released stays so.
LEMMA RenewalKeepsLiveHandles ==
  ASSUME TypeOK, NEW p \in Procs, Renew(p) \/ RenewWriteFails(p) \/ RenewTooLate(p),
         NEW q \in Procs, handle[q].stored \in Live
  PROVE  handle'[q].stored \in Live
  <1> USE DEF TypeOK, Handle, Live
  <1>1. CASE Renew(p) \/ RenewWriteFails(p)
    BY <1>1 DEF Renew, RenewWriteFails
  <1>2. CASE RenewTooLate(p)
    BY <1>2 DEF RenewTooLate
  <1>3. QED
    BY <1>1, <1>2

LEMMA SessionPreservesHandles ==
  SInv /\ [SessionNext]_liveVars => SessionsOwnTheirHandle' /\ OnlyRunningSessionsHaveTasks'
  <1> SUFFICES ASSUME SInv, [SessionNext]_liveVars
               PROVE  SessionsOwnTheirHandle' /\ OnlyRunningSessionsHaveTasks'
    OBVIOUS
  <1> USE NoneIsNoProcess
      DEF SInv, IInv, TypeOK, SessionTypeOK, SessionsOwnTheirHandle,
          OnlyRunningSessionsHaveTasks, Granted, Live
  <1>1. ASSUME NEW p \in Procs, AcquireAtStart(p) \/ ReplaceAtStart(p)
        PROVE  SessionsOwnTheirHandle' /\ OnlyRunningSessionsHaveTasks'
    <2>1. handle'[p].stored = "ACTIVE" /\ \A q \in Procs : q # p => handle'[q] = handle[q]
      BY <1>1 DEF AcquireAtStart, ReplaceAtStart, AcquireWriter, ReplaceWriter, Issue
    <2>2. phase[p] \in {"idle", "observed"} /\ phase' = [phase EXCEPT ![p] = "setup"]
      BY <1>1 DEF AcquireAtStart, ReplaceAtStart, BecomeWriter
    <2>3. UNCHANGED <<runtime, renewer>>
      BY <1>1 DEF AcquireAtStart, ReplaceAtStart, BecomeWriter
    <2>4. QED
      BY <2>1, <2>2, <2>3
  <1>2. ASSUME NEW p \in Procs, ObserveAtStart(p) \/ Refused(p)
        PROVE  SessionsOwnTheirHandle' /\ OnlyRunningSessionsHaveTasks'
    BY <1>2 DEF ObserveAtStart, ObserveWriterLease, Refused, vars
  <1>3. ASSUME NEW p \in Procs, SetupFails(p) \/ StartLoop(p)
        PROVE  SessionsOwnTheirHandle' /\ OnlyRunningSessionsHaveTasks'
    BY <1>3 DEF SetupFails, StartLoop, vars
  <1>4. ASSUME NEW p \in Procs, BeginSubmit(p) \/ EndSubmit(p) \/ RuntimeEnds(p)
        PROVE  SessionsOwnTheirHandle' /\ OnlyRunningSessionsHaveTasks'
    BY <1>4 DEF BeginSubmit, EndSubmit, RuntimeEnds, vars
  <1>5. ASSUME NEW p \in Procs, RenewWakes(p)
        PROVE  SessionsOwnTheirHandle' /\ OnlyRunningSessionsHaveTasks'
    <2>1. \A q \in Procs : handle[q].stored \in Live => handle'[q].stored \in Live
      BY <1>5, RenewalKeepsLiveHandles DEF RenewWakes
    <2>2. QED
      BY <1>5, <2>1 DEF RenewWakes
  <1>6. ASSUME NEW p \in Procs, RenewerStopsLoop(p) \/ RuntimeStopsLoop(p) \/ Signal(p)
        PROVE  SessionsOwnTheirHandle' /\ OnlyRunningSessionsHaveTasks'
    BY <1>6 DEF RenewerStopsLoop, RuntimeStopsLoop, Signal, LeaveLoop, vars
  <1>7. ASSUME NEW p \in Procs, ExitSession(p) \/ Die(p)
        PROVE  SessionsOwnTheirHandle' /\ OnlyRunningSessionsHaveTasks'
    <2>1. \A q \in Procs : q # p => handle'[q] = handle[q]
      BY <1>7 DEF ExitSession, Die, Release, Crash, CrashWhileIssuing
    <2>2. phase' = [phase EXCEPT ![p] = "idle"]
      BY <1>7 DEF ExitSession, Die
    <2>3. runtime'[p] = "off" /\ renewer'[p] = "off"
      BY <1>7 DEF ExitSession, Die
    <2>4. \A q \in Procs : q # p => runtime'[q] = runtime[q] /\ renewer'[q] = renewer[q]
      BY <1>7 DEF ExitSession, Die
    <2>5. QED
      BY <2>1, <2>2, <2>3, <2>4
  <1>8. ASSUME Clock \/ UNCHANGED liveVars
        PROVE  SessionsOwnTheirHandle' /\ OnlyRunningSessionsHaveTasks'
    BY <1>8 DEF Clock, Tick, StepBack, session, liveVars, vars
  <1>9. QED
    BY <1>1, <1>2, <1>3, <1>4, <1>5, <1>6, <1>7, <1>8 DEF SessionNext, SessionStep

\* The inductive invariant of the sessions holds in every reachable state.
THEOREM SInvHolds == SessionSpec => []SInv
  <1>1. SInv /\ [SessionNext]_liveVars => SInv'
    BY SessionPreservesLease, SessionTypes, SessionPreservesHandles DEF SInv
  <1>2. QED
    BY <1>1, SessionInitEstablishes, PTL DEF SessionSpec

\* Orders of a tenant leave one process at a time: whoever has a runtime task
\* holds the lock of the tenant.
THEOREM OrdersLeaveOneProcess == SessionSpec => []OneSubmitter
  <1>1. SInv => OneSubmitter
    BY DEF SInv, IInv, OneSubmitter, HandleBackedByLockAndRecord, SessionsOwnTheirHandle,
           OnlyRunningSessionsHaveTasks, Granted, Live
  <1>2. QED
    BY <1>1, SInvHolds, PTL

\* Two processes are never both active, with their sessions, signals and exits
\* around the leases, releases that fail included.
THEOREM SessionsExcludeEachOther == SessionSpec => []AtMostOneActive
  <1>1. SInv => AtMostOneActive
    BY DEF SInv, IInv, HandleBackedByLockAndRecord, AtMostOneActive, Active, Disposition
  <1>2. QED
    BY <1>1, SInvHolds, PTL

\* A token is only issued while the lock is free.
LEMMA StepOnLock ==
  ASSUME IInv, [Next]_vars, record'.fence # record.fence
  PROVE  lock = None
  <1> USE DEF IInv, TypeOK, HandleBackedByLockAndRecord
  <1>1. ASSUME NEW p \in Procs, AcquireWriter(p) \/ ReplaceWriter(p) \/ CrashWhileIssuing(p)
        PROVE  lock = None
    BY <1>1 DEF AcquireWriter, ReplaceWriter, CrashWhileIssuing, MayAcquire, MayReplace
  <1>2. ASSUME NEW p \in Procs, Renew(p) \/ Release(p)
        PROVE  FALSE
    BY <1>2 DEF Renew, Release
  <1>3. ASSUME NEW p \in Procs,
               ObserveWriterLease(p) \/ RenewWriteFails(p) \/ RenewTooLate(p) \/ Crash(p)
        PROVE  FALSE
    BY <1>3 DEF ObserveWriterLease, RenewWriteFails, RenewTooLate, Crash
  <1>4. ASSUME Tick \/ StepBack \/ UNCHANGED vars
        PROVE  FALSE
    BY <1>4 DEF Tick, StepBack, vars
  <1>5. QED
    BY <1>1, <1>2, <1>3, <1>4 DEF Next

\* Nobody is granted the tenant between the start of a session and the end of
\* its cleanup, expired or not.
THEOREM FencesMoveBetweenSessions == SessionSpec => FenceMovesBetweenSessions
  <1>1. ASSUME SInv, [SessionNext]_liveVars, record'.fence # record.fence
        PROVE  \A p \in Procs : phase[p] \in {"idle", "observed"}
    <2>1. CASE [Next]_vars
      <3>1. IInv
        BY <1>1 DEF SInv
      <3>2. lock = None
        BY <1>1, <2>1, <3>1, StepOnLock
      <3>3. QED
        BY <1>1, <3>2, NoneIsNoProcess
        DEF SInv, IInv, SessionTypeOK, SessionsOwnTheirHandle, HandleBackedByLockAndRecord,
            Granted, Live
    <2>2. QED
      BY <1>1, <2>1, SessionStepOnLease DEF ExitsUnreleased, liveVars, vars
  <1>2. QED
    BY <1>1, SInvHolds, PTL DEF SessionSpec, FenceMovesBetweenSessions

\* With the sessions, signals and exits around the leases, releases that fail
\* included, the tenant's authority moves as the lease ports promise.
THEOREM SessionsImplementAuthority == SessionSpec => ImplementsAuthority
  <1>1. SessionInit => Authority!Init
    BY AuthorityInit DEF SessionInit
  <1>2. ASSUME SInv, [SessionNext]_liveVars PROVE Authority!Next
    <2>1. IInv /\ IInv'
      BY <1>2, SessionPreservesLease DEF SInv
    <2>2. CASE [Next]_vars
      BY <2>1, <2>2, StepOnAuthority, AuthorityFollows
    <2>3. ASSUME NEW p \in Procs, phase[p] = "closing", ExitsUnreleased(p)
          PROVE  Authority!Next
      <3>1. lock = p
        BY <1>2, <2>3 DEF SInv, IInv, SessionsOwnTheirHandle, HandleBackedByLockAndRecord,
                          Granted, Live
      <3>2. lock' = None /\ record'.fence = record.fence
        BY <2>3 DEF ExitsUnreleased
      <3>3. ~Someone'
        BY <2>1, <3>2, NoneIsNoProcess
        DEF IInv, HandleBackedByLockAndRecord, Someone, Active, Disposition
      <3>4. QED
        BY <2>1, <3>2, <3>3, AuthorityFollows
    <2>4. QED
      BY <1>2, <2>2, <2>3, SessionStepOnLease DEF liveVars
  <1>3. SInv /\ [SessionNext]_liveVars => [Authority!Next]_(Authority!vars)
    BY <1>2
  <1>4. QED
    BY <1>1, <1>3, SInvHolds, PTL DEF SessionSpec, ImplementsAuthority, Authority!Spec

-----------------------------------------------------------------------------
(***************************************************************************)
(* The drains of the command bus.                                          *)
(*                                                                         *)
(* From "check" on, a drain holds the lock of its tenant, expired or not:  *)
(* only one process is there, and the record it read is still the one it   *)
(* replaces.  The rest follows a command on its way through the drain:     *)
(* what was found out about it stays true, because ledger, markers and     *)
(* tick only grow.                                                         *)
(***************************************************************************)

Draining == {"check", "recheck", "mark", "write", "record", "release"}

DrainersHoldTheLease == \A p \in Procs : pc[p] \in Draining => handle[p].stored = "ACTIVE"

Settles(c, entries, t) == Marks(entries, c) \/ c.stale \/ t >= c.expires
Settled(c) == Settles(c, applied, tick)

\* What a drain found out about its command, by how far it has come.
StageIsSound(p) ==
  /\ pc[p] \in {"recheck", "mark", "write"} => ~Current(p).stale
  /\ pc[p] \in {"mark", "write"} => work[p].fresh < Current(p).expires
  /\ pc[p] = "write" => work[p].read = applied /\ ~IsApplied(Current(p))
  /\ pc[p] = "record" =>
       /\ Settled(Current(p))
       /\ work[p].verdict = "APPLIED" => \E m \in ToSet(applied) : m.id = Current(p).id

\* The commands a drain has passed are settled; at its end, all of them.
PassedAreSettled(p) ==
  \A i \in work[p].pending :
    i < work[p].at \/ (pc[p] = "release" /\ work[p].ends = "idle") => Settled(ledger[i])

DrainsAreSound == \A p \in Procs : StageIsSound(p) /\ PassedAreSettled(p)

BInv ==
  /\ IInv
  /\ BusTypeOK
  /\ DrainersHoldTheLease
  /\ DrainsAreSound
  /\ AuditedIsMarked
-----------------------------------------------------------------------------
(* Sequences that grow.                                                    *)

LEMMA AppendGrows ==
  ASSUME NEW S, NEW s \in Seq(S), NEW e \in S
  PROVE  /\ Append(s, e) \in Seq(S)
         /\ Len(Append(s, e)) = Len(s) + 1 /\ Append(s, e)[Len(s) + 1] = e
         /\ \A i \in DOMAIN s : i \in DOMAIN Append(s, e) /\ Append(s, e)[i] = s[i]
         /\ DOMAIN Append(s, e) = DOMAIN s \cup {Len(s) + 1}
  OBVIOUS

LEMMA AppendAddsElement ==
  ASSUME NEW S, NEW s \in Seq(S), NEW e \in S
  PROVE  ToSet(Append(s, e)) = ToSet(s) \cup {e}
  BY AppendGrows DEF ToSet

LEMMA ElementsAreTyped ==
  ASSUME NEW S, NEW s \in Seq(S)
  PROVE  ToSet(s) \subseteq S /\ \A i \in DOMAIN s : s[i] \in ToSet(s) /\ i \in Nat \ {0}
  BY DEF ToSet

LEMMA NoWorkIsADrain == NoWork \in Drain
  <1>1. <<>> \in Seq(Entry)
    OBVIOUS
  <1>2. QED
    BY <1>1 DEF NoWork, Drain, Dispositions, Rest

-----------------------------------------------------------------------------
(* The lease, and who holds it.                                            *)

LEMMA BusStepOnLease ==
  ASSUME [BusNext]_commandVars
  PROVE  [Next]_vars
  <1>1. ASSUME NEW p \in Procs, DrainStep(p) PROVE [Next]_vars
    <2>1. CASE ReadPending(p) \/ Unavailable(p) \/ Check(p) \/ Recheck(p)
      BY <2>1 DEF ReadPending, Unavailable, Check, Recheck, LeaseKept
    <2>2. CASE MarkRead(p) \/ MarkWrite(p) \/ RecordEvent(p) \/ RecordRaises(p) \/ EndDrainFails(p)
      BY <2>2 DEF MarkRead, MarkWrite, RecordEvent, RecordRaises, EndDrainFails, LeaseKept
    <2>3. CASE Acquire(p) \/ Observe(p) \/ Replace(p) \/ EndDrain(p)
      BY <2>3 DEF Acquire, Observe, Replace, EndDrain, LeaseKept, Next
    <2>4. QED
      BY <1>1, <2>1, <2>2, <2>3 DEF DrainStep
  <1>2. ASSUME NEW p \in Procs, Dies(p) PROVE [Next]_vars
    BY <1>2 DEF Dies, Next
  <1>3. CASE Publish \/ PublishTorn \/ GameTick \/ LeaseClock
    BY <1>3 DEF Publish, PublishTorn, GameTick, LeaseClock, Next
  <1>4. CASE UNCHANGED commandVars
    BY <1>4 DEF commandVars
  <1>5. QED
    BY <1>1, <1>2, <1>3, <1>4 DEF BusNext

\* Whoever drains holds the lock, so there is one.
LEMMA OneDrains ==
  ASSUME IInv, DrainersHoldTheLease, NEW p \in Procs, NEW q \in Procs,
         pc[p] \in Draining, pc[q] \in Draining
  PROVE  p = q
  BY DEF IInv, HandleBackedByLockAndRecord, DrainersHoldTheLease

\* A step of a process leaves the drains of the others alone.
StepOf(p) ==
  /\ \A q \in Procs : q # p => pc'[q] = pc[q] /\ work'[q] = work[q] /\ handle'[q] = handle[q]
  /\ pc' \in [Procs -> Rest \cup Running]
  /\ work' \in [Procs -> Drain]

LEMMA ProcessStepsAreOwn ==
  ASSUME BusTypeOK, NEW p \in Procs, DrainStep(p) \/ Dies(p)
  PROVE  StepOf(p)
  <1> USE DEF BusTypeOK, TypeOK, StepOf, GoTo, Rest, Running
  <1>0. work[p] \in Drain /\ \A todo \in SUBSET DOMAIN ledger : todo \in SUBSET (Nat \ {0})
    BY ElementsAreTyped
  <1>1. CASE ReadPending(p)
    <2>1. ASSUME NEW todo \in SUBSET DOMAIN ledger, NEW i \in todo
          PROVE  [work[p] EXCEPT !.pending = todo, !.at = i] \in Drain
      BY <1>0, <2>1 DEF Drain
    <2>2. {i \in DOMAIN ledger : ~IsApplied(ledger[i])} \subseteq DOMAIN ledger
      OBVIOUS
    <2>3. handle' = handle
      BY <1>1 DEF ReadPending, LeaseKept, vars
    <2>4. \E where \in Rest \cup Running : pc' = [pc EXCEPT ![p] = where]
      BY <1>1 DEF ReadPending
    <2>5. \/ work' = work
          \/ \E todo \in SUBSET DOMAIN ledger : \E i \in todo :
               work' = [work EXCEPT ![p] = [work[p] EXCEPT !.pending = todo, !.at = i]]
      BY <1>1, <2>2 DEF ReadPending, First
    <2>6. work' = work \/ \E w \in Drain : work' = [work EXCEPT ![p] = w]
      BY <2>1, <2>5
    <2>7. QED
      BY <2>3, <2>4, <2>6
  <1>2. CASE Acquire(p) \/ Replace(p)
    BY <1>2 DEF Acquire, Replace, AcquireWriter, ReplaceWriter, Issue
  <1>3. CASE Observe(p) \/ Unavailable(p)
    BY <1>3, NoWorkIsADrain DEF Observe, Unavailable, ObserveWriterLease, LeaseKept, vars
  <1>4. CASE Check(p) \/ Recheck(p)
    <2>1. \A v \in Dispositions : [work[p] EXCEPT !.verdict = v] \in Drain
      BY ZenonT(60) DEF Drain
    <2>2. [work[p] EXCEPT !.fresh = tick] \in Drain
      BY ZenonT(60) DEF Drain
    <2>3. QED
      BY <1>4, <2>1, <2>2 DEF Check, Recheck, Decide, Dispositions, LeaseKept, vars
  <1>5. CASE MarkRead(p) \/ MarkWrite(p)
    <2>1. \A v \in Dispositions : [work[p] EXCEPT !.verdict = v] \in Drain
      BY ZenonT(60) DEF Drain
    <2>2. [work[p] EXCEPT !.read = applied] \in Drain /\ [work[p] EXCEPT !.ends = "failed"] \in Drain
      BY ZenonT(60) DEF Drain
    <2>3. QED
      BY <1>5, <2>1, <2>2, ZenonT(60) DEF MarkRead, MarkWrite, Decide, Dispositions, LeaseKept, vars
  <1>6. CASE RecordEvent(p)
    <2>1. <<>> \in Seq(Entry)
      OBVIOUS
    <2>2. \A i \in Nat : Turn(work[p], i) \in Drain
      BY <1>0, <2>1 DEF Drain, Turn, Dispositions
    <2>3. work[p].at \in Nat /\ \A i \in Later(work[p]) : i \in Nat
      BY <1>0 DEF Drain, Later
    <2>4. handle' = handle
      BY <1>6 DEF RecordEvent, LeaseKept, vars
    <2>5. \E where \in Rest \cup Running : pc' = [pc EXCEPT ![p] = where]
      BY <1>6 DEF RecordEvent, Advance
    <2>6. \E i \in Nat : work' = [work EXCEPT ![p] = Turn(@, i)]
      BY <1>6, <2>3 DEF RecordEvent, Advance
    <2>7. QED
      BY <2>2, <2>4, <2>5, <2>6
  <1>7. CASE RecordRaises(p)
    <2>1. [work[p] EXCEPT !.ends = "failed"] \in Drain
      BY ZenonT(60) DEF Drain
    <2>2. QED
      BY <1>7, <2>1 DEF RecordRaises, LeaseKept, vars
  <1>8. CASE EndDrain(p) \/ EndDrainFails(p) \/ Dies(p)
    <2>1. work[p].ends \in Rest
      BY DEF Drain
    <2>2. \A q \in Procs : q # p => handle'[q] = handle[q]
      BY <1>8 DEF EndDrain, EndDrainFails, Dies, Release, Crash, CrashWhileIssuing, LeaseKept, vars
    <2>3. QED
      BY <1>8, <2>1, <2>2, NoWorkIsADrain DEF EndDrain, EndDrainFails, Dies
  <1>9. QED
    BY <1>1, <1>2, <1>3, <1>4, <1>5, <1>6, <1>7, <1>8 DEF DrainStep
-----------------------------------------------------------------------------
(* What a step does to the files: nothing in them is taken back.           *)

FilesGrow ==
  /\ \A i \in DOMAIN ledger : i \in DOMAIN ledger' /\ ledger'[i] = ledger[i]
  /\ ToSet(applied) \subseteq ToSet(applied')
  /\ tick <= tick'

FilesTyped ==
  /\ ledger \in Seq(Commands \cup {Malformed}) /\ torn \in BOOLEAN
  /\ applied \in Seq(Entry)
  /\ audit \subseteq {c.id : c \in Commands}
  /\ tick \in Nat /\ faults \in Nat

LEMMA CurrentIsACommand ==
  ASSUME BusTypeOK, NEW p \in Procs, pc[p] \in Running
  PROVE  Current(p) \in Commands /\ work[p].at \in DOMAIN ledger
  BY DEF BusTypeOK, Current

\* The entry that a drain is about to write.
NewEntry(p) == [id |-> Current(p).id, key |-> Current(p).key, tick |-> work[p].fresh]

LEMMA WriteAppends ==
  ASSUME BusTypeOK, NEW p \in Procs, StageIsSound(p), MarkWrite(p)
  PROVE  /\ applied' = Append(applied, NewEntry(p))
         /\ NewEntry(p) \in Entry
         /\ applied' \in Seq(Entry)
         /\ ToSet(applied') = ToSet(applied) \cup {NewEntry(p)}
  <1>1. Current(p) \in Commands
    BY CurrentIsACommand DEF MarkWrite, Running
  <1>2. work[p].fresh \in Nat
    BY DEF BusTypeOK, Drain
  <1>3. NewEntry(p) \in Entry
    BY <1>1, <1>2 DEF NewEntry, Entry
  <1>4. applied' = Append(applied, NewEntry(p))
    BY DEF MarkWrite, StageIsSound, NewEntry
  <1>5. QED
    BY <1>3, <1>4, AppendGrows, AppendAddsElement DEF BusTypeOK

LEMMA AuditedIsAnId ==
  ASSUME BusTypeOK, NEW p \in Procs, pc[p] = "record"
  PROVE  Audited(p) \subseteq {c.id : c \in Commands}
  BY CurrentIsACommand DEF Audited, BusTypeOK, Running

\* Only a write changes the markers, and only the director the ledger.
LEMMA OthersKeepTheMarkers ==
  ASSUME BusNext, \A p \in Procs : ~MarkWrite(p)
  PROVE  applied' = applied
  <1>1. ASSUME NEW p \in Procs, DrainStep(p) PROVE applied' = applied
    BY <1>1 DEF DrainStep, ReadPending, Acquire, Observe, Replace, Unavailable, Check, Recheck,
                MarkRead, RecordEvent, RecordRaises, EndDrain, EndDrainFails, FilesKept
  <1>2. QED
    BY <1>1 DEF BusNext, Publish, PublishTorn, GameTick, LeaseClock, busVars, Dies, FilesKept

LEMMA ProcessesKeepTheLedger ==
  ASSUME NEW p \in Procs, DrainStep(p) \/ Dies(p)
  PROVE  UNCHANGED <<ledger, torn, tick>>
  BY DEF DrainStep, ReadPending, Acquire, Observe, Replace, Unavailable, Check, Recheck,
         MarkRead, MarkWrite, RecordEvent, RecordRaises, EndDrain, EndDrainFails, FilesKept, Dies

LEMMA StepsMoveFiles ==
  ASSUME BusTypeOK, DrainsAreSound, [BusNext]_commandVars
  PROVE  FilesGrow /\ FilesTyped'
  <1>0. FilesTyped
    BY DEF BusTypeOK, FilesTyped
  <1> USE <1>0 DEF FilesTyped, FilesGrow
  <1>1. CASE Publish
    <2>1. PICK c \in Commands : ledger' = Append(ledger, Line(c))
      BY <1>1 DEF Publish
    <2>2. Line(c) \in Commands \cup {Malformed}
      BY DEF Line
    <2>3. UNCHANGED <<applied, audit, tick, faults>> /\ torn' \in BOOLEAN
      BY <1>1 DEF Publish
    <2>4. ledger' \in Seq(Commands \cup {Malformed})
      BY <2>1, <2>2, AppendGrows
    <2>5. \A i \in DOMAIN ledger : i \in DOMAIN ledger' /\ ledger'[i] = ledger[i]
      BY <2>1, <2>2, AppendGrows
    <2>6. QED
      BY <2>3, <2>4, <2>5
  <1>2. CASE PublishTorn \/ GameTick \/ LeaseClock
    <2>1. UNCHANGED <<ledger, applied, audit>>
      BY <1>2 DEF PublishTorn, GameTick, LeaseClock, busVars
    <2>2. faults' \in Nat /\ tick' \in Nat /\ tick <= tick'
      BY <1>2 DEF PublishTorn, GameTick, LeaseClock, busVars
    <2>3. torn' \in BOOLEAN
      BY <1>2 DEF PublishTorn, GameTick, LeaseClock, busVars
    <2>4. QED
      BY <2>1, <2>2, <2>3
  <1>3. ASSUME NEW p \in Procs, MarkWrite(p) PROVE FilesGrow /\ FilesTyped'
    <2>1. UNCHANGED <<ledger, torn, audit, tick, faults>>
      BY <1>3 DEF MarkWrite
    <2>2. applied' \in Seq(Entry) /\ ToSet(applied) \subseteq ToSet(applied')
      BY <1>3, WriteAppends DEF DrainsAreSound
    <2>3. QED
      BY <2>1, <2>2
  <1>4. ASSUME NEW p \in Procs, ~MarkWrite(p), DrainStep(p) \/ Dies(p)
        PROVE  FilesGrow /\ FilesTyped'
    <2>1. UNCHANGED <<ledger, torn, applied, tick>>
      BY <1>4, ProcessesKeepTheLedger
      DEF DrainStep, ReadPending, Acquire, Observe, Replace, Unavailable, Check, Recheck,
          MarkRead, RecordEvent, RecordRaises, EndDrain, EndDrainFails, FilesKept, Dies
    <2>2. audit' = audit \/ (pc[p] = "record" /\ audit' = Audited(p))
      BY <1>4 DEF DrainStep, ReadPending, Acquire, Observe, Replace, Unavailable, Check, Recheck,
          MarkRead, RecordEvent, RecordRaises, EndDrain, EndDrainFails, FilesKept, Dies
    <2>3. faults' = faults \/ faults' = faults + 1
      BY <1>4 DEF DrainStep, ReadPending, Acquire, Observe, Replace, Unavailable, Check, Recheck,
          MarkRead, RecordEvent, RecordRaises, EndDrain, EndDrainFails, FilesKept, Dies
    <2>4. QED
      BY <2>1, <2>2, <2>3, AuditedIsAnId
  <1>5. CASE UNCHANGED commandVars
    BY <1>5 DEF commandVars, busVars
  <1>6. QED
    BY <1>1, <1>2, <1>3, <1>4, <1>5 DEF BusNext
LEMMA SettledStays ==
  ASSUME FilesTyped, FilesTyped', FilesGrow, NEW c \in Commands, Settles(c, applied, tick)
  PROVE  Settles(c, applied', tick')
  <1>1. Marks(applied, c) => Marks(applied', c)
    BY DEF Marks, FilesGrow
  <1>2. tick >= c.expires => tick' >= c.expires
    BY CommandFields DEF FilesTyped, FilesGrow
  <1>3. QED
    BY <1>1, <1>2 DEF Settles

-----------------------------------------------------------------------------
(* A drain, seen from the steps of the others.                             *)

ListIsRead(p) ==
  /\ \A i \in work[p].pending : i \in DOMAIN ledger /\ ledger[i] \in Commands
  /\ pc[p] \in Running => work[p].at \in work[p].pending

DrainIsSound(p) ==
  /\ ListIsRead(p)
  /\ pc[p] \in Draining => handle[p].stored = "ACTIVE"
  /\ StageIsSound(p)
  /\ PassedAreSettled(p)

LEMMA BInvIsItsParts ==
  BInv <=> /\ IInv
           /\ FilesTyped
           /\ pc \in [Procs -> Rest \cup Running] /\ work \in [Procs -> Drain]
           /\ \A p \in Procs : DrainIsSound(p)
           /\ AuditedIsMarked
  <1>1. IInv => TypeOK
    BY DEF IInv
  <1>2. QED
    BY <1>1 DEF BInv, FilesTyped, BusTypeOK, DrainIsSound, ListIsRead, DrainersHoldTheLease, DrainsAreSound

\* A drain that stands still is as sound as it was: what it found out stays
\* true, and nobody writes the markers between its read and its write.
LEMMA StandingDrainStaysSound ==
  ASSUME BInv, FilesGrow, FilesTyped', NEW q \in Procs,
         pc'[q] = pc[q], work'[q] = work[q],
         pc[q] \in Draining => handle'[q].stored = "ACTIVE",
         pc[q] = "write" => applied' = applied
  PROVE  DrainIsSound(q)'
  <1>0. FilesTyped /\ DrainIsSound(q) /\ work[q] \in Drain
    BY BInvIsItsParts
  <1>1. ListIsRead(q)'
    BY <1>0 DEF DrainIsSound, ListIsRead, FilesGrow
  <1>2. \A i \in work[q].pending : /\ ledger'[i] = ledger[i] /\ ledger[i] \in Commands
                                   /\ Settles(ledger[i], applied, tick) => Settles(ledger'[i], applied', tick')
    BY <1>0, SettledStays DEF DrainIsSound, ListIsRead, FilesGrow
  <1>3. PassedAreSettled(q)'
    BY <1>0, <1>2 DEF DrainIsSound, PassedAreSettled, Settled
  <1>4. CASE pc[q] \in Running
    <2>1. work[q].at \in work[q].pending /\ Current(q)' = Current(q) /\ Current(q) \in Commands
      BY <1>0, <1>2, <1>4 DEF DrainIsSound, ListIsRead, Current
    <2>2. Settled(Current(q)) => Settled(Current(q))'
      BY <1>0, <2>1, <1>2 DEF Current, Settled
    <2>3. (\E m \in ToSet(applied) : m.id = Current(q).id) => \E m \in ToSet(applied') : m.id = Current(q).id
      BY DEF FilesGrow
    <2>4. pc[q] = "write" => (IsApplied(Current(q)) <=> IsApplied(Current(q))')
      BY <2>1 DEF IsApplied
    <2>5. StageIsSound(q)'
      BY <1>0, <2>1, <2>2, <2>3, <2>4 DEF DrainIsSound, StageIsSound
    <2>6. QED
      BY <1>0, <1>1, <1>3, <2>5 DEF DrainIsSound
  <1>5. CASE pc[q] \notin Running
    <2>1. StageIsSound(q)'
      BY <1>5 DEF StageIsSound, Running
    <2>2. QED
      BY <1>0, <1>1, <1>3, <2>1 DEF DrainIsSound
  <1>6. QED
    BY <1>4, <1>5
-----------------------------------------------------------------------------
(* A drain's own steps.                                                    *)

LEMMA RestingDrainIsSound ==
  ASSUME NEW p \in Procs, pc'[p] \in Rest, work'[p] = NoWork
  PROVE  DrainIsSound(p)'
  BY DEF DrainIsSound, ListIsRead, StageIsSound, PassedAreSettled, NoWork, Rest, Running, Draining

\* A step on the command the drain is at.
LEMMA PlaceIsKept ==
  ASSUME BInv, FilesGrow, FilesTyped', NEW p \in Procs, ledger' = ledger,
         work'[p].pending = work[p].pending, work'[p].at = work[p].at
  PROVE  /\ pc[p] \in Running => ListIsRead(p)'
         /\ pc'[p] # "release" \/ work'[p].ends # "idle" => PassedAreSettled(p)'
         /\ Current(p)' = Current(p)
         /\ pc[p] \in Running => Current(p) \in Commands
  <1>0. FilesTyped /\ ListIsRead(p) /\ PassedAreSettled(p)
    BY BInvIsItsParts DEF DrainIsSound
  <1>1. \A i \in work[p].pending : /\ ledger[i] \in Commands
                                   /\ Settles(ledger[i], applied, tick) => Settles(ledger[i], applied', tick')
    BY <1>0, SettledStays DEF ListIsRead
  <1>2. pc'[p] # "release" \/ work'[p].ends # "idle" => PassedAreSettled(p)'
    BY <1>0, <1>1 DEF PassedAreSettled, Settled
  <1>3. QED
    BY <1>0, <1>2 DEF ListIsRead, Current

LEMMA ReadingIsSound ==
  ASSUME BInv, FilesGrow, FilesTyped', NEW p \in Procs, ReadPending(p)
  PROVE  DrainIsSound(p)'
  <1>0. /\ FilesTyped /\ DrainIsSound(p) /\ work[p] \in Drain /\ work \in [Procs -> Drain]
        /\ pc \in [Procs -> Rest \cup Running]
    BY BInvIsItsParts
  <1>1. UNCHANGED <<ledger, applied, tick, handle>> /\ pc[p] \in Rest
    BY DEF ReadPending, LeaseKept, FilesKept, vars
  <1>2. CASE work' = work /\ pc'[p] \in Rest
    BY <1>0, <1>1, <1>2
    DEF DrainIsSound, ListIsRead, StageIsSound, PassedAreSettled, Settled, Rest, Running, Draining
  <1>3. CASE pc'[p] = "acquire"
    <2>0. Malformed \notin ToSet(ledger)
      BY <1>0, <1>3 DEF ReadPending, GoTo, Rest
    <2>1. \A i \in DOMAIN ledger : ledger[i] \in Commands /\ i \in Nat
      BY <1>0, <2>0, ElementsAreTyped DEF FilesTyped, ToSet
    <2>2. PICK todo \in SUBSET DOMAIN ledger : \E i \in todo :
            First(i, todo) /\ work' = [work EXCEPT ![p] = [@ EXCEPT !.pending = todo, !.at = i]]
      <3>1. {i \in DOMAIN ledger : ~IsApplied(ledger[i])} \in SUBSET DOMAIN ledger
        OBVIOUS
      <3>2. QED
        BY <1>0, <1>3, <2>0, <3>1 DEF ReadPending, GoTo, Rest
    <2>3. work'[p].pending = todo /\ First(work'[p].at, todo)
      BY <1>0, <2>2 DEF Drain
    <2>4. ListIsRead(p)'
      BY <1>1, <2>1, <2>3 DEF ListIsRead, First
    <2>5. PassedAreSettled(p)'
      BY <1>3, <2>1, <2>3 DEF PassedAreSettled, First
    <2>6. QED
      BY <1>3, <2>4, <2>5 DEF DrainIsSound, StageIsSound, Draining
  <1>4. pc'[p] \in Rest \cup {"acquire"} /\ (pc'[p] \in Rest => work' = work)
    BY <1>0 DEF ReadPending, GoTo, Rest
  <1>5. QED
    BY <1>2, <1>3, <1>4

LEMMA ObtainingIsSound ==
  ASSUME BInv, FilesGrow, FilesTyped', NEW p \in Procs,
         Acquire(p) \/ Observe(p) \/ Replace(p) \/ Unavailable(p)
  PROVE  DrainIsSound(p)'
  <1>0. /\ DrainIsSound(p) /\ work \in [Procs -> Drain] /\ pc \in [Procs -> Rest \cup Running]
        /\ handle \in [Procs -> Handle]
    BY BInvIsItsParts DEF IInv, TypeOK
  <1>1. pc[p] \in {"acquire", "replace"} /\ ledger' = ledger
    BY DEF Acquire, Observe, Replace, Unavailable, FilesKept
  <1>2. CASE Acquire(p) \/ Replace(p)
    <2>1. handle'[p].stored = "ACTIVE" /\ pc'[p] = "check" /\ work' = work
      BY <1>0, <1>2 DEF Acquire, Replace, AcquireWriter, ReplaceWriter, Issue, GoTo
    <2>2. QED
      BY <1>1, <2>1, PlaceIsKept DEF DrainIsSound, StageIsSound, Running
  <1>3. CASE Observe(p) /\ pc'[p] = "replace"
    <2>1. work' = work
      BY <1>0, <1>3 DEF Observe, GoTo
    <2>2. QED
      BY <1>1, <1>3, <2>1, PlaceIsKept DEF DrainIsSound, StageIsSound, Running, Draining
  <1>4. CASE (Observe(p) /\ pc'[p] # "replace") \/ Unavailable(p)
    <2>1. pc'[p] \in Rest /\ work'[p] = NoWork
      BY <1>0, <1>4 DEF Observe, Unavailable, GoTo, Rest
    <2>2. QED
      BY <2>1, RestingDrainIsSound
  <1>5. QED
    BY <1>2, <1>3, <1>4
\* The checks: what they let through is neither stale nor late, as far as the
\* drain has looked.
LEMMA CheckingIsSound ==
  ASSUME BInv, FilesGrow, FilesTyped', NEW p \in Procs, Check(p) \/ Recheck(p)
  PROVE  DrainIsSound(p)'
  <1>0. /\ DrainIsSound(p) /\ work \in [Procs -> Drain] /\ pc \in [Procs -> Rest \cup Running]
        /\ FilesTyped
    BY BInvIsItsParts
  <1>1. /\ pc[p] \in {"check", "recheck"}
        /\ pc[p] = "recheck" => ~Current(p).stale
        /\ handle'[p].stored = "ACTIVE" /\ UNCHANGED <<ledger, applied, tick>>
    BY <1>0 DEF Check, Recheck, LeaseKept, FilesKept, vars, DrainIsSound, StageIsSound, Draining
  <1>2. work'[p].pending = work[p].pending /\ work'[p].at = work[p].at
    BY <1>0 DEF Check, Recheck, Decide, Drain
  <1>3. CASE pc'[p] = "record"
    <2>1. work'[p].verdict # "APPLIED" /\ Settled(Current(p))
      BY <1>0, <1>3 DEF Check, Recheck, Decide, GoTo, Drain, Settled, Settles, IsApplied
    <2>2. Settled(Current(p))'
      BY <1>1, <1>2, <2>1 DEF Settled, Current
    <2>3. StageIsSound(p)'
      BY <1>3, <2>1, <2>2 DEF StageIsSound
    <2>4. QED
      BY <1>1, <1>2, <1>3, <2>3, PlaceIsKept DEF DrainIsSound, Running
  <1>4. CASE pc'[p] \in {"recheck", "mark"}
    <2>1. Check(p) => ~Current(p).stale /\ pc'[p] = "recheck"
      BY <1>0, <1>4 DEF Check, Decide, GoTo
    <2>2. Recheck(p) => work'[p].fresh < Current(p).expires /\ pc'[p] = "mark"
      <3>1. Current(p).expires \in Nat /\ tick \in Nat
        BY <1>0, <1>1, <1>2, PlaceIsKept, CommandFields DEF Running, FilesTyped
      <3>2. QED
        BY <1>0, <1>4, <3>1 DEF Recheck, Decide, GoTo, Drain
    <2>3. Recheck(p) => ~Current(p).stale
      BY <1>1 DEF Recheck
    <2>4. Current(p)' = Current(p)
      BY <1>1, <1>2, PlaceIsKept
    <2>5. StageIsSound(p)'
      BY <1>4, <2>1, <2>2, <2>3, <2>4 DEF StageIsSound
    <2>6. QED
      BY <1>1, <1>2, <1>4, <2>5, PlaceIsKept DEF DrainIsSound, Running
  <1>5. pc'[p] \in {"record", "recheck", "mark"}
    BY <1>0 DEF Check, Recheck, Decide, GoTo
  <1>6. QED
    BY <1>3, <1>4, <1>5

\* The marker: read under the lease, and written on top of what was read.
LEMMA MarkingIsSound ==
  ASSUME BInv, FilesGrow, FilesTyped', NEW p \in Procs, MarkRead(p) \/ MarkWrite(p)
  PROVE  DrainIsSound(p)'
  <1>0. /\ DrainIsSound(p) /\ work \in [Procs -> Drain] /\ pc \in [Procs -> Rest \cup Running]
        /\ FilesTyped /\ BusTypeOK
    BY BInvIsItsParts DEF BInv
  <1>1. /\ pc[p] \in {"mark", "write"} /\ handle'[p].stored = "ACTIVE" /\ UNCHANGED <<ledger, tick>>
        /\ ~Current(p).stale /\ work[p].fresh < Current(p).expires
    BY <1>0 DEF MarkRead, MarkWrite, LeaseKept, FilesKept, vars, DrainIsSound, StageIsSound, Draining
  <1>2. work'[p].pending = work[p].pending /\ work'[p].at = work[p].at /\ work'[p].fresh = work[p].fresh
    BY <1>0 DEF MarkRead, MarkWrite, Decide, Drain
  <1>3. Current(p)' = Current(p) /\ Current(p) \in Commands
    BY <1>1, <1>2, PlaceIsKept DEF Running
  <1>4. CASE MarkWrite(p)
    <2>1. pc'[p] = "record"
      BY <1>0, <1>4 DEF MarkWrite, Decide, GoTo
    <2>2. NewEntry(p) \in ToSet(applied')
      BY <1>0, <1>4, WriteAppends DEF DrainIsSound
    <2>3. (\E m \in ToSet(applied') : m.id = Current(p).id) /\ Settled(Current(p))'
      BY <1>3, <2>2 DEF NewEntry, Settled, Settles, Marks
    <2>4. StageIsSound(p)'
      BY <1>3, <2>1, <2>3 DEF StageIsSound
    <2>5. QED
      BY <1>1, <1>2, <2>1, <2>4, PlaceIsKept DEF DrainIsSound, Running
  <1>5. CASE MarkRead(p)
    <2>1. applied' = applied
      BY <1>5 DEF MarkRead, FilesKept
    <2>2. CASE pc'[p] = "release"
      <3>1. work'[p].ends # "idle"
        BY <1>0, <1>5, <2>2 DEF MarkRead, Decide, GoTo, Drain
      <3>2. QED
        BY <1>1, <1>2, <2>2, <3>1, PlaceIsKept DEF DrainIsSound, StageIsSound, Running
    <2>3. CASE pc'[p] = "record"
      <3>1. work'[p].verdict # "APPLIED" /\ IsApplied(Current(p))
        BY <1>0, <1>5, <2>3 DEF MarkRead, Decide, GoTo, Drain
      <3>2. Settled(Current(p))'
        BY <1>3, <2>1, <3>1 DEF Settled, Settles, IsApplied
      <3>3. QED
        BY <1>1, <1>2, <2>3, <3>1, <3>2, PlaceIsKept DEF DrainIsSound, StageIsSound, Running
    <2>4. CASE pc'[p] = "write"
      <3>1. work'[p].read = applied /\ ~IsApplied(Current(p))
        BY <1>0, <1>5, <2>4 DEF MarkRead, Decide, GoTo, Drain
      <3>2. ~IsApplied(Current(p))'
        BY <1>3, <2>1, <3>1 DEF IsApplied
      <3>3. StageIsSound(p)'
        BY <1>1, <1>2, <1>3, <2>1, <2>4, <3>1, <3>2 DEF StageIsSound
      <3>4. QED
        BY <1>1, <1>2, <2>4, <3>3, PlaceIsKept DEF DrainIsSound, Running
    <2>5. pc'[p] \in {"release", "record", "write"}
      BY <1>0, <1>5 DEF MarkRead, Decide, GoTo
    <2>6. QED
      BY <2>2, <2>3, <2>4, <2>5
  <1>6. QED
    BY <1>4, <1>5
\* The record of a command, and the way to the next one or to the end.
LEMMA RecordingIsSound ==
  ASSUME BInv, FilesGrow, FilesTyped', NEW p \in Procs, RecordEvent(p) \/ RecordRaises(p)
  PROVE  DrainIsSound(p)'
  <1>0. /\ DrainIsSound(p) /\ work \in [Procs -> Drain] /\ pc \in [Procs -> Rest \cup Running]
        /\ FilesTyped
    BY BInvIsItsParts
  <1>1. /\ pc[p] = "record" /\ handle'[p].stored = "ACTIVE" /\ UNCHANGED <<ledger, applied, tick>>
        /\ Settled(Current(p)) /\ work[p].at \in work[p].pending
    BY <1>0 DEF RecordEvent, RecordRaises, LeaseKept, vars, DrainIsSound, StageIsSound, ListIsRead,
                Draining, Running
  <1>2. CASE RecordRaises(p)
    <2>1. /\ work'[p].pending = work[p].pending /\ work'[p].at = work[p].at
          /\ work'[p].ends # "idle" /\ pc'[p] = "release"
      BY <1>0, <1>2 DEF RecordRaises, GoTo, Drain
    <2>2. QED
      BY <1>1, <2>1, PlaceIsKept DEF DrainIsSound, StageIsSound, Running
  <1>3. CASE RecordEvent(p)
    <2>1. work[p] \in Drain /\ \A i \in work[p].pending : i \in Nat
      BY <1>0 DEF Drain
    <2>2. \A i \in work[p].pending : i <= work[p].at => Settled(ledger[i])
      BY <1>0, <1>1, <2>1, SMTT(30) DEF DrainIsSound, PassedAreSettled, Current, Drain
    <2>3. \A i \in work[p].pending : ledger'[i] = ledger[i] /\ (Settled(ledger[i]) <=> Settled(ledger[i])')
      BY <1>1 DEF Settled
    <2>4. CASE Later(work[p]) = {}
      <3>1. pc'[p] = "release" /\ work'[p].pending = work[p].pending /\ work'[p].at = work[p].at
        BY <1>0, <1>3, <2>4, ZenonT(60) DEF RecordEvent, Advance, GoTo, Turn, Drain
      <3>2. \A i \in work[p].pending : i <= work[p].at
        BY <1>1, <2>1, <2>4 DEF Later
      <3>3. PassedAreSettled(p)'
        BY <1>1, <2>2, <3>1, <3>2 DEF PassedAreSettled, Settled
      <3>4. ListIsRead(p)'
        BY <1>0, <1>1, <3>1 DEF DrainIsSound, ListIsRead
      <3>5. QED
        BY <1>1, <3>1, <3>3, <3>4 DEF DrainIsSound, StageIsSound
    <2>5. CASE Later(work[p]) # {}
      <3>1. /\ pc'[p] = "check" /\ work'[p].pending = work[p].pending
            /\ First(work'[p].at, Later(work[p]))
        BY <1>0, <1>3, <2>5, ZenonT(60) DEF RecordEvent, Advance, GoTo, Turn, Drain
      <3>2. \A i \in work[p].pending : i < work'[p].at => i <= work[p].at
        BY <1>1, <2>1, <3>1 DEF First, Later
      <3>3. PassedAreSettled(p)'
        BY <1>1, <2>2, <3>1, <3>2 DEF PassedAreSettled, Settled
      <3>4. ListIsRead(p)'
        BY <1>0, <1>1, <3>1 DEF DrainIsSound, ListIsRead, First, Later
      <3>5. QED
        BY <1>1, <3>1, <3>3, <3>4 DEF DrainIsSound, StageIsSound
    <2>6. QED
      BY <2>4, <2>5
  <1>4. QED
    BY <1>2, <1>3

LEMMA EndingIsSound ==
  ASSUME BInv, NEW p \in Procs, EndDrain(p) \/ EndDrainFails(p) \/ Dies(p)
  PROVE  DrainIsSound(p)'
  <1>1. work \in [Procs -> Drain] /\ pc \in [Procs -> Rest \cup Running]
    BY BInvIsItsParts
  <1>2. work[p].ends \in Rest
    BY <1>1 DEF Drain
  <1>3. pc'[p] \in Rest /\ work'[p] = NoWork
    BY <1>1, <1>2 DEF EndDrain, EndDrainFails, Dies, GoTo, Rest
  <1>4. QED
    BY <1>3, RestingDrainIsSound

-----------------------------------------------------------------------------
(* The invariant.                                                          *)

LEMMA DrainsStaySound ==
  ASSUME BInv, [BusNext]_commandVars, FilesGrow, FilesTyped', NEW q \in Procs
  PROVE  DrainIsSound(q)'
  <1>0. pc[q] \in Draining => handle[q].stored = "ACTIVE"
    BY BInvIsItsParts DEF DrainIsSound
  <1>1. ASSUME NEW p \in Procs, DrainStep(p) \/ Dies(p) PROVE DrainIsSound(q)'
    <2>1. CASE q = p
      BY <1>1, <2>1, ReadingIsSound, ObtainingIsSound, CheckingIsSound, MarkingIsSound,
         RecordingIsSound, EndingIsSound DEF DrainStep
    <2>2. CASE q # p
      <3>1. pc'[q] = pc[q] /\ work'[q] = work[q] /\ handle'[q] = handle[q]
        BY <1>1, <2>2, ProcessStepsAreOwn DEF BInv, StepOf
      <3>2. pc[q] = "write" => ~MarkWrite(p)
        BY <2>2, OneDrains DEF BInv, MarkWrite, Draining
      <3>3. ~MarkWrite(p) => applied' = applied
        BY <1>1 DEF DrainStep, ReadPending, Acquire, Observe, Replace, Unavailable, Check, Recheck,
            MarkRead, RecordEvent, RecordRaises, EndDrain, EndDrainFails, FilesKept, Dies
      <3>4. QED
        BY <1>0, <3>1, <3>2, <3>3, StandingDrainStaysSound
    <2>3. QED
      BY <2>1, <2>2
  <1>2. CASE Publish \/ PublishTorn \/ GameTick \/ LeaseClock \/ UNCHANGED commandVars
    <2>1. UNCHANGED <<pc, work, applied, handle>>
      BY <1>2 DEF Publish, PublishTorn, GameTick, LeaseClock, Tick, StepBack, commandVars, busVars, vars
    <2>2. QED
      BY <1>0, <2>1, StandingDrainStaysSound
  <1>3. QED
    BY <1>1, <1>2 DEF BusNext

LEMMA AuditStaysMarked ==
  ASSUME BInv, [BusNext]_commandVars, FilesGrow
  PROVE  AuditedIsMarked'
  <1>1. ASSUME NEW p \in Procs, RecordEvent(p) PROVE AuditedIsMarked'
    <2>1. \A id \in Audited(p) : \E m \in ToSet(applied) : m.id = id
      BY <1>1 DEF BInv, DrainsAreSound, StageIsSound, Audited, AuditedIsMarked, RecordEvent
    <2>2. QED
      BY <1>1, <2>1 DEF BInv, AuditedIsMarked, RecordEvent, FilesGrow
  <1>2. ASSUME NEW p \in Procs, ~RecordEvent(p), DrainStep(p) \/ Dies(p) PROVE audit' = audit
    BY <1>2 DEF DrainStep, ReadPending, Acquire, Observe, Replace, Unavailable, Check, Recheck,
        MarkRead, MarkWrite, RecordRaises, EndDrain, EndDrainFails, FilesKept, Dies
  <1>3. CASE Publish \/ PublishTorn \/ GameTick \/ LeaseClock \/ UNCHANGED commandVars
    <2>1. audit' = audit
      BY <1>3 DEF Publish, PublishTorn, GameTick, LeaseClock, commandVars, busVars
    <2>2. QED
      BY <2>1 DEF BInv, AuditedIsMarked, FilesGrow
  <1>4. ASSUME audit' = audit PROVE AuditedIsMarked'
    BY <1>4 DEF BInv, AuditedIsMarked, FilesGrow
  <1>5. QED
    BY <1>1, <1>2, <1>3, <1>4 DEF BusNext

LEMMA BInvStep == BInv /\ [BusNext]_commandVars => BInv'
  <1> SUFFICES ASSUME BInv, [BusNext]_commandVars PROVE BInv'
    OBVIOUS
  <1>1. FilesGrow /\ FilesTyped'
    BY StepsMoveFiles DEF BInv
  <1>2. IInv'
    BY BusStepOnLease, StepPreserves DEF BInv
  <1>3. pc' \in [Procs -> Rest \cup Running] /\ work' \in [Procs -> Drain]
    <2>1. ASSUME NEW p \in Procs, DrainStep(p) \/ Dies(p)
          PROVE  pc' \in [Procs -> Rest \cup Running] /\ work' \in [Procs -> Drain]
      BY <2>1, ProcessStepsAreOwn DEF BInv, StepOf
    <2>2. CASE Publish \/ PublishTorn \/ GameTick \/ LeaseClock \/ UNCHANGED commandVars
      BY <2>2 DEF BInv, BusTypeOK, Publish, PublishTorn, GameTick, LeaseClock, commandVars, busVars
    <2>3. QED
      BY <2>1, <2>2 DEF BusNext
  <1>4. \A p \in Procs : DrainIsSound(p)'
    BY <1>1, DrainsStaySound
  <1>5. AuditedIsMarked'
    BY <1>1, AuditStaysMarked
  <1>6. TypeOK'
    BY <1>2 DEF IInv
  <1>7. QED
    BY <1>1, <1>2, <1>3, <1>4, <1>5, <1>6
    DEF BInv, FilesTyped, BusTypeOK, DrainIsSound, ListIsRead, DrainersHoldTheLease, DrainsAreSound

LEMMA BInvInit == BusInit => BInv
  <1> SUFFICES ASSUME BusInit PROVE BInv
    OBVIOUS
  <1>1. IInv
    BY InitEstablishes DEF BusInit
  <1>2. FilesTyped
    <2>1. torn \in BOOLEAN
      BY DEF BusInit
    <2>2. ledger \in Seq(Commands \cup {Malformed}) /\ applied \in Seq(Entry) /\ audit = {} /\ tick = 0 /\ faults = 0
      BY DEF BusInit
    <2>3. QED
      BY <2>1, <2>2 DEF FilesTyped
  <1>3. pc \in [Procs -> Rest \cup Running] /\ work \in [Procs -> Drain]
    BY NoWorkIsADrain DEF BusInit, Rest
  <1>4. \A p \in Procs : DrainIsSound(p)
    BY DEF BusInit, DrainIsSound, ListIsRead, StageIsSound, PassedAreSettled, NoWork, Running, Draining
  <1>5. AuditedIsMarked
    BY DEF BusInit, AuditedIsMarked
  <1>6. QED
    BY <1>1, <1>2, <1>3, <1>4, <1>5, BInvIsItsParts

\* The inductive invariant of the bus holds in every reachable state.
THEOREM BInvHolds == BusSpec => []BInv
  BY BInvInit, BInvStep, PTL DEF BusSpec

-----------------------------------------------------------------------------
(* The theorems.                                                           *)

\* A drain that ends well has settled every command it found pending, and what
\* the audit trail says was applied is marked, whatever died or took over in
\* between (drain, _handle: marked, then recorded).
THEOREM DrainsComplete == BusSpec => []DrainsAreComplete
  <1>1. BInv => DrainsAreComplete
    BY DEF BInv, DrainsAreComplete, DrainsAreSound, PassedAreSettled, DrainSettlesAll, Settled, Settles, IsApplied
  <1>2. QED
    BY <1>1, BInvHolds, PTL

\* Publishing adds to what can be read.
LEMMA PublishingIsAbstract ==
  ASSUME BInv, FilesGrow, applied' = applied
  PROVE  Abstract!Publish
  BY DEF FilesGrow, Published, ToSet, Abstract!Publish

\* A write is an effect: of a command that was published, in time, and new.
LEMMA WritingIsAbstract ==
  ASSUME BInv, NEW p \in Procs, MarkWrite(p)
  PROVE  Abstract!TakeEffect
  <1>1. /\ BusTypeOK /\ FilesTyped /\ StageIsSound(p) /\ work[p] \in Drain
    BY BInvIsItsParts DEF BInv, DrainIsSound
  <1>2. Current(p) \in Commands /\ work[p].at \in DOMAIN ledger
    BY <1>1, CurrentIsACommand DEF MarkWrite, Running
  <1>3. Current(p) \in Published
    BY <1>1, <1>2 DEF Published, Current, ToSet
  <1>4. applied' = Append(applied, NewEntry(p)) /\ NewEntry(p) \in Entry
    BY <1>1, WriteAppends
  <1>5. /\ Len(applied') = Len(applied) + 1
        /\ applied'[Len(applied')] = NewEntry(p)
    BY <1>1, <1>4, AppendGrows DEF FilesTyped
  <1>6. Abstract!Unused(Current(p))
    BY <1>1, ElementsAreTyped DEF StageIsSound, MarkWrite, IsApplied, Marks, Abstract!Unused, FilesTyped
  <1>7. Abstract!EffectInTime(Current(p), work[p].fresh)
    BY <1>1 DEF StageIsSound, MarkWrite, Drain, Abstract!EffectInTime
  <1>8. ~Current(p).stale
    BY <1>1 DEF StageIsSound, MarkWrite
  <1>9. Published' = Published
    BY DEF MarkWrite, Published
  <1>10. Abstract!Effect(Current(p), NewEntry(p).tick)
    BY <1>3, <1>4, <1>6, <1>7, <1>8, <1>9 DEF Abstract!Effect, NewEntry
  <1>11. QED
    BY <1>3, <1>5, <1>10 DEF Abstract!TakeEffect

\* Across processes that crash, expire and take over from one another, every
\* command takes effect at most once, in time and for good.
THEOREM BusImplementsOnceOnly == BusSpec => ImplementsOnceOnly
  <1>1. BusInit => Abstract!Init
    BY DEF BusInit, Abstract!Init, Published, ToSet
  <1>2. ASSUME BInv, [BusNext]_commandVars
        PROVE  Abstract!Publish \/ Abstract!TakeEffect
    <2>1. FilesGrow
      BY <1>2, StepsMoveFiles DEF BInv
    <2>2. CASE \E p \in Procs : MarkWrite(p)
      BY <1>2, <2>2, WritingIsAbstract
    <2>3. CASE BusNext /\ \A p \in Procs : ~MarkWrite(p)
      BY <1>2, <2>1, <2>3, OthersKeepTheMarkers, PublishingIsAbstract
    <2>4. CASE UNCHANGED commandVars
      <3>1. applied' = applied
        BY <2>4 DEF commandVars, busVars
      <3>2. QED
        BY <1>2, <2>1, <3>1, PublishingIsAbstract
    <2>5. QED
      BY <1>2, <2>2, <2>3, <2>4
  <1>3. BInv /\ [BusNext]_commandVars => [Abstract!Publish \/ Abstract!TakeEffect]_(Abstract!bus)
    BY <1>2
  <1>4. QED
    BY <1>1, <1>3, BInvHolds, PTL DEF BusSpec, ImplementsOnceOnly, Abstract!Spec

-----------------------------------------------------------------------------
(***************************************************************************)
(* The conductors of a migration.                                          *)
(*                                                                         *)
(* The lease is looked at before the file is replaced: in between it may   *)
(* expire, but whoever passed the look still holds the lock, and what it   *)
(* is about to write carries its fence, which is the newest.  So the epoch *)
(* on disk never falls.  That every leg is audited goes round between the  *)
(* file, the memories of the conductors and the view of the runtime.       *)
(***************************************************************************)

\* Whoever is at the file has its handle, expired or not, and what it writes
\* carries that handle's fence.
WriterIsFenced(c) ==
  /\ writing[c] # "none" => handle[c].stored \in {"ACTIVE", "EXPIRED"}
  /\ writing[c] = "write" => memory[c] \in Plan /\ memory[c].epoch = handle[c].fence

FileIsIssued == file.plan # NoPlan => file.plan.epoch <= record.fence

Underway == {"LEG_MOVE", "LEG_SETTLE", "DEFENSIVE_HOLD", "ARRIVED"}
Cleared(p, audits) == p # NoPlan /\ p.state \in Underway => <<p.operation, p.revision>> \in audits

PlansTyped ==
  /\ \/ file \in [plan : Plan, damaged : {"none"}]
     \/ file \in [plan : {NoPlan}, damaged : RequiredSections \cup OptionalSections \cup {"no file"}]
  /\ memory \in [Procs -> Plan \cup {NoPlan}]
  /\ writing \in [Procs -> {"none", "write", "delete"}]
  /\ view \in Plan \cup {NoPlan}
  /\ core \in 1 .. MaxCores
  /\ operations \in 0 .. MaxOperations
  /\ audited \subseteq (1 .. MaxOperations) \X (1 .. MaxRevision)

PlansAreSound ==
  /\ PlansTyped
  /\ \A c \in Procs : WriterIsFenced(c) /\ Cleared(memory[c], audited)
  /\ FileIsIssued
  /\ Cleared(file.plan, audited) /\ Cleared(view, audited)

MInv == IInv /\ PlansAreSound
-----------------------------------------------------------------------------
(* The state machine.                                                      *)

\* What the table of transitions leads to.
LEMMA EdgesLead ==
  ASSUME NEW state, NEW event, \E e \in Edges : e[1] = state /\ e[2] = event
  PROVE  LET next == (CHOOSE e \in Edges : e[1] = state /\ e[2] = event)[3]
         IN  <<state, event, next>> \in Edges
  <1> DEFINE edge == CHOOSE e \in Edges : e[1] = state /\ e[2] = event
  <1>1. edge \in Edges /\ edge[1] = state /\ edge[2] = event
    OBVIOUS
  <1>2. \A e \in Edges : e = <<e[1], e[2], e[3]>>
    BY DEF Edges
  <1>3. <<state, event, edge[3]>> \in Edges
    BY <1>1, <1>2
  <1>4. QED
    BY <1>3

\* A plan only gets under way by an audit, and a replan takes it back to be
\* audited again.
LEMMA Transitions ==
  ASSUME NEW state \in MigrationState, NEW event \in MigrationEventType, NEW lastLeg \in BOOLEAN
  PROVE  LET next == Transition(state, event, lastLeg)
         IN  /\ next \in MigrationState
             /\ next # state /\ next \in Underway => state \in Underway \/ event = "PLAN_AUDITED"
             /\ next # state /\ event = "REPLAN_REQUESTED" => next = "PLAN"
  <1> DEFINE next == Transition(state, event, lastLeg)
  <1>1. \A e \in Edges : /\ e[3] \in MigrationState
                         /\ e[3] \in Underway => e[1] \in Underway \/ e[2] = "PLAN_AUDITED"
                         /\ e[2] = "REPLAN_REQUESTED" => e[3] = "PLAN"
    BY DEF Edges, MigrationState, ActivePhases, Underway
  <1>2. CASE next = state
    BY <1>2
  <1>3. CASE \E e \in Edges : e[1] = state /\ e[2] = event /\ next = e[3]
    BY <1>1, <1>3
  <1>4. CASE next = "RECOVERY_ABORT" /\ event \in {"CORE_DESTROYED", "CORE_GENERATION_CHANGED"}
    BY <1>4 DEF MigrationState, Underway
  <1>5. CASE next = "ABORT" /\ event = "CANCEL"
    BY <1>5 DEF MigrationState, Underway
  <1>6. CASE next = "ARRIVED" /\ state = "LEG_SETTLE" /\ event = "LEG_SETTLE_DONE"
    BY <1>6 DEF MigrationState, Underway
  <1>7. \/ next = state
        \/ \E e \in Edges : e[1] = state /\ e[2] = event /\ next = e[3]
        \/ next = "RECOVERY_ABORT" /\ event \in {"CORE_DESTROYED", "CORE_GENERATION_CHANGED"}
        \/ next = "ABORT" /\ event = "CANCEL"
        \/ next = "ARRIVED" /\ state = "LEG_SETTLE" /\ event = "LEG_SETTLE_DONE"
    <2>1. CASE \E e \in Edges : e[1] = state /\ e[2] = event
      <3>1. PICK e \in Edges : e[1] = state /\ e[2] = event
                               /\ e[3] = (CHOOSE d \in Edges : d[1] = state /\ d[2] = event)[3]
        BY <2>1, EdgesLead
      <3>2. QED
        BY <3>1, <2>1 DEF Transition
    <2>2. CASE ~ \E e \in Edges : e[1] = state /\ e[2] = event
      BY <2>2 DEF Transition
    <2>3. QED
      BY <2>1, <2>2
  <1>8. QED
    BY <1>2, <1>3, <1>4, <1>5, <1>6, <1>7

LEMMA PlansAreNotNoPlan == NoPlan \notin Plan
  <1>1. \A p \in Plan : p.operation # 0
    BY MigrationBounds DEF Plan
  <1>2. QED
    BY <1>1 DEF NoPlan

LEMMA AcceptedIsAPlan ==
  "PLAN" \in MigrationState /\ Transition("IDLE", "INTENT_ACCEPTED", FALSE) \in MigrationState
  <1>1. "IDLE" \in MigrationState /\ "INTENT_ACCEPTED" \in MigrationEventType /\ "PLAN" \in MigrationState
    BY DEF MigrationState, MigrationEventType, ActivePhases
  <1>2. QED
    BY <1>1, Transitions

LEMMA AcceptedIsNotUnderway == Transition("IDLE", "INTENT_ACCEPTED", FALSE) \notin Underway
  <1>1. "IDLE" \in MigrationState /\ "INTENT_ACCEPTED" \in MigrationEventType /\ "IDLE" \notin Underway
    BY DEF MigrationState, MigrationEventType, ActivePhases, Underway
  <1>2. QED
    BY <1>1, Transitions

-----------------------------------------------------------------------------
(* The lease.                                                              *)

LEMMA MigrationStepOnLease ==
  ASSUME [MigrationNext]_conductingVars
  PROVE  [Next]_vars
  <1>1. ASSUME NEW c \in Procs, Conduct(c) \/ Resign(c) \/ ConductorDies(c) PROVE [Next]_vars
    BY <1>1 DEF Conduct, Resign, ConductorDies, Next
  <1>2. ASSUME NEW c \in Procs, NEW p, BeginWrite(c, p) PROVE [Next]_vars
    BY <1>2 DEF BeginWrite
  <1>3. ASSUME NEW c \in Procs,
               \/ AcceptIntent(c) \/ Heartbeat(c)
               \/ \E revision \in 1 .. MaxRevision : Resume(c, revision)
               \/ \E event \in MigrationEventType, lastLeg \in BOOLEAN : HandleEvent(c, event, lastLeg)
        PROVE  [Next]_vars
    BY <1>2, <1>3 DEF AcceptIntent, Heartbeat, Resume, HandleEvent
  <1>4. ASSUME NEW c \in Procs, FinishWrite(c) \/ BeginDelete(c) \/ FinishDelete(c) PROVE [Next]_vars
    BY <1>4 DEF FinishWrite, BeginDelete, FinishDelete
  <1>5. CASE (\E section \in Damageable : Damage(section)) \/ ReadPlan \/ OrderMove \/ CoreRespawns
    BY <1>5 DEF Damage, ReadPlan, OrderMove, CoreRespawns
  <1>6. CASE TimePasses \/ UNCHANGED conductingVars
    BY <1>6 DEF TimePasses, Next, conductingVars
  <1>7. QED
    BY <1>1, <1>3, <1>4, <1>5, <1>6 DEF MigrationNext

\* The newest token never goes back.
LEMMA FencesGrow ==
  ASSUME IInv, IInv', [Next]_vars
  PROVE  record'.fence >= record.fence
  <1>1. record.fence \in Nat
    BY DEF IInv, TypeOK, Record
  <1>2. QED
    BY <1>1, StepOnAuthority
-----------------------------------------------------------------------------
(* Steps of the conductors.                                                *)

\* Steps on the lease that touch no plan of another conductor.  A handle of a
\* conductor that is at the file stays, and keeps its fence.
LEMMA HandlesStay ==
  ASSUME IInv, NEW c \in Procs, Conduct(c), NEW d \in Procs, handle[d].stored \in {"ACTIVE", "EXPIRED"}
  PROVE  handle'[d].stored \in {"ACTIVE", "EXPIRED"} /\ handle'[d].fence = handle[d].fence
  <1> USE NoneIsNoProcess DEF IInv, TypeOK, Handle
  <1>1. lock = d
    BY DEF HandleBackedByLockAndRecord
  <1>2. ~AcquireWriter(c) /\ ~ReplaceWriter(c)
    BY <1>1 DEF AcquireWriter, MayAcquire, ReplaceWriter, MayReplace
  <1>3. CASE ObserveWriterLease(c)
    BY <1>3 DEF ObserveWriterLease
  <1>4. CASE Renew(c)
    BY <1>4 DEF Renew
  <1>5. CASE RenewTooLate(c)
    BY <1>5 DEF RenewTooLate
  <1>6. QED
    BY <1>2, <1>3, <1>4, <1>5 DEF Conduct

LEMMA ConductIsSound ==
  ASSUME MInv, IInv', NEW c \in Procs, Conduct(c)
  PROVE  PlansAreSound'
  <1> USE DEF MInv
  <1>1. UNCHANGED <<file, memory, writing, view, core, operations, audited>>
    BY DEF Conduct, migrationVars
  <1>2. [Next]_vars
    BY DEF Conduct, Next
  <1>3. record'.fence >= record.fence
    BY <1>2, FencesGrow
  <1>4. PlansTyped'
    BY <1>1 DEF PlansAreSound, PlansTyped
  <1>5. \A d \in Procs : WriterIsFenced(d)'
    BY <1>1, HandlesStay DEF PlansAreSound, PlansTyped, WriterIsFenced
  <1>6. FileIsIssued'
    <2>1. record.fence \in Nat /\ record'.fence \in Nat
      BY DEF IInv, TypeOK, Record
    <2>2. file.plan # NoPlan => file.plan.epoch \in Nat
      BY DEF PlansAreSound, PlansTyped, Plan
    <2>3. QED
      BY <1>1, <1>3, <2>1, <2>2 DEF PlansAreSound, FileIsIssued
  <1>7. QED
    BY <1>1, <1>4, <1>5, <1>6 DEF PlansAreSound

\* What leaves plans and leases of the other conductors alone.
LEMMA EndsAreSound ==
  ASSUME MInv, NEW c \in Procs, Resign(c) \/ ConductorDies(c)
  PROVE  PlansAreSound'
  <1> USE DEF MInv
  <1>1. UNCHANGED <<file, view, core, operations, audited>> /\ record'.fence = record.fence
    <2>1. CASE ConductorDies(c)
      BY <2>1 DEF ConductorDies, Crash
    <2>2. CASE Resign(c)
      BY <2>2 DEF Resign, Release, IInv, TypeOK, Handle, HandleBackedByLockAndRecord
    <2>3. QED
      BY <2>1, <2>2
  <1>2. /\ memory' = [memory EXCEPT ![c] = NoPlan]
        /\ writing' = writing \/ writing' = [writing EXCEPT ![c] = "none"]
        /\ Resign(c) => writing[c] = "none"
        /\ ConductorDies(c) => writing' = [writing EXCEPT ![c] = "none"]
    BY DEF Resign, ConductorDies
  <1>3. \A d \in Procs : d # c => handle'[d] = handle[d]
    BY DEF Resign, ConductorDies, Release, Crash, IInv, TypeOK
  <1>4. PlansTyped'
    BY <1>1, <1>2 DEF PlansAreSound, PlansTyped
  <1>5. writing'[c] = "none"
    BY <1>2 DEF PlansAreSound, PlansTyped
  <1>6. \A d \in Procs : d # c => memory'[d] = memory[d] /\ writing'[d] = writing[d]
    BY <1>2 DEF PlansAreSound, PlansTyped
  <1>7. \A d \in Procs : WriterIsFenced(d)'
    BY <1>3, <1>5, <1>6 DEF PlansAreSound, WriterIsFenced
  <1>8. \A d \in Procs : Cleared(memory'[d], audited')
    <2>1. memory'[c] = NoPlan
      BY <1>2 DEF PlansAreSound, PlansTyped
    <2>2. QED
      BY <1>1, <1>6, <2>1 DEF PlansAreSound, Cleared
  <1>9. QED
    BY <1>1, <1>4, <1>7, <1>8 DEF PlansAreSound, FileIsIssued

LEMMA BeginWriteIsSound ==
  ASSUME MInv, NEW c \in Procs, NEW p \in Plan, BeginWrite(c, p),
         operations' \in 0 .. MaxOperations,
         audited' \subseteq (1 .. MaxOperations) \X (1 .. MaxRevision), audited \subseteq audited',
         Cleared(p, audited')
  PROVE  PlansAreSound'
  <1> USE DEF MInv
  <1>1. UNCHANGED <<now, lock, record, handle, observed, crashes, file, view, core>> /\ writing[c] = "none"
    BY DEF BeginWrite, vars
  <1> DEFINE q == [p EXCEPT !.until = now + HeartbeatTtl]
  <1>2. q \in Plan /\ q.epoch = p.epoch /\ q.operation = p.operation /\ q.revision = p.revision /\ q.state = p.state
    <2>1. now + HeartbeatTtl \in Nat
      BY MigrationBounds DEF IInv, TypeOK
    <2>2. QED
      BY <2>1 DEF Plan
  <1>3. \/ /\ FenceAuthorizesPlan(c, p)
           /\ writing' = [writing EXCEPT ![c] = "write"] /\ memory' = [memory EXCEPT ![c] = q]
        \/ writing' = writing /\ memory' = [memory EXCEPT ![c] = NoPlan]
    BY DEF BeginWrite
  <1> HIDE DEF q
  <1>4. PlansTyped'
    <2>1. \E m \in Plan \cup {NoPlan} : memory' = [memory EXCEPT ![c] = m]
      BY <1>2, <1>3
    <2>2. memory' \in [Procs -> Plan \cup {NoPlan}]
      BY <2>1 DEF PlansAreSound, PlansTyped
    <2>3. writing' \in [Procs -> {"none", "write", "delete"}]
      BY <1>3 DEF PlansAreSound, PlansTyped
    <2>4. QED
      BY <1>1, <2>2, <2>3 DEF PlansAreSound, PlansTyped
  <1>5. \A d \in Procs : d # c => memory'[d] = memory[d] /\ writing'[d] = writing[d]
    BY <1>3 DEF PlansAreSound, PlansTyped
  <1>6. memory'[c] \in {q, NoPlan}
    BY <1>3 DEF PlansAreSound, PlansTyped
  <1>7. WriterIsFenced(c)'
    <2>1. CASE writing' = writing
      BY <1>1, <2>1 DEF WriterIsFenced
    <2>2. CASE /\ FenceAuthorizesPlan(c, p)
               /\ writing' = [writing EXCEPT ![c] = "write"] /\ memory' = [memory EXCEPT ![c] = q]
      <3>1. memory'[c] = q
        BY <2>2 DEF PlansAreSound, PlansTyped
      <3>2. handle[c].stored = "ACTIVE" /\ handle[c].fence = p.epoch
        BY <2>2 DEF FenceAuthorizesPlan, FenceHoldsTenant, Active, Disposition
      <3>3. QED
        BY <1>1, <1>2, <3>1, <3>2 DEF WriterIsFenced
    <2>3. QED
      BY <1>3, <2>1, <2>2
  <1>8. \A d \in Procs : WriterIsFenced(d)'
    BY <1>1, <1>5, <1>7 DEF PlansAreSound, WriterIsFenced
  <1>9. \A d \in Procs : Cleared(memory'[d], audited')
    <2>1. q # NoPlan /\ p # NoPlan
      BY <1>2, PlansAreNotNoPlan
    <2>2. Cleared(q, audited') /\ Cleared(NoPlan, audited')
      BY <1>2, <2>1 DEF Cleared
    <2>3. QED
      BY <1>5, <1>6, <2>2 DEF PlansAreSound, Cleared
  <1>10. Cleared(file'.plan, audited') /\ Cleared(view', audited')
    BY <1>1 DEF PlansAreSound, Cleared
  <1>11. QED
    BY <1>1, <1>4, <1>8, <1>9, <1>10 DEF PlansAreSound, FileIsIssued
LEMMA AcceptingIsSound ==
  ASSUME MInv, NEW c \in Procs, AcceptIntent(c)
  PROVE  PlansAreSound'
  <1> DEFINE p == [operation |-> operations', revision |-> 1, epoch |-> handle[c].fence,
                   state |-> Transition("IDLE", "INTENT_ACCEPTED", FALSE), core |-> core,
                   until |-> now]
  <1>1. BeginWrite(c, p) /\ audited' = audited
    BY DEF AcceptIntent
  <1>2. operations' \in 1 .. MaxOperations
    <2>1. operations \in 0 .. MaxOperations
      BY DEF MInv, PlansAreSound, PlansTyped
    <2>2. operations < MaxOperations /\ operations' = operations + 1
      BY DEF AcceptIntent
    <2>3. QED
      BY <2>1, <2>2, MigrationBounds
  <1>3. handle[c].fence \in Nat \ {0}
    <2>1. handle[c].stored = "ACTIVE"
      BY DEF AcceptIntent, Active, Disposition
    <2>2. handle[c].fence \in Nat
      BY DEF MInv, IInv, TypeOK, Handle
    <2>3. handle[c].fence # 0
      BY <2>1 DEF MInv, IInv, IssuedFencesArePositive
    <2>4. QED
      BY <2>2, <2>3
  <1>4. core \in 1 .. MaxCores /\ now \in Nat /\ 1 \in 1 .. MaxRevision
    <2>1. core \in 1 .. MaxCores /\ now \in Nat
      BY DEF MInv, PlansAreSound, PlansTyped, IInv, TypeOK
    <2>2. QED
      BY <2>1, MigrationBounds
  <1>5. p \in Plan
    BY <1>2, <1>3, <1>4, AcceptedIsAPlan DEF Plan
  <1>6. Cleared(p, audited')
    BY AcceptedIsNotUnderway DEF Cleared
  <1>7. QED
    <2> HIDE DEF p
    <2>1. operations' \in 0 .. MaxOperations
      BY <1>2
    <2>2. QED
      BY <1>1, <1>5, <1>6, <2>1, BeginWriteIsSound DEF MInv, PlansAreSound, PlansTyped

LEMMA ResumingIsSound ==
  ASSUME MInv, NEW c \in Procs, NEW revision \in 1 .. MaxRevision, Resume(c, revision)
  PROVE  PlansAreSound'
  <1> DEFINE p == [file.plan EXCEPT !.epoch = handle[c].fence]
  <1>1. BeginWrite(c, p) /\ UNCHANGED <<operations, audited>>
    BY DEF Resume
  <1>2. file.plan \in Plan
    BY DEF Resume, EvaluateRecovery, MInv, PlansAreSound, PlansTyped
  <1>3. handle[c].fence \in Nat \ {0}
    <2>1. handle[c].stored = "ACTIVE"
      BY DEF Resume, Active, Disposition
    <2>2. handle[c].fence \in Nat
      BY DEF MInv, IInv, TypeOK, Handle
    <2>3. handle[c].fence # 0
      BY <2>1 DEF MInv, IInv, IssuedFencesArePositive
    <2>4. QED
      BY <2>2, <2>3
  <1>4. p \in Plan
    BY <1>2, <1>3 DEF Plan
  <1>5. p.operation = file.plan.operation /\ p.revision = file.plan.revision /\ p.state = file.plan.state
    BY <1>2 DEF Plan
  <1>6. Cleared(p, audited)
    BY <1>2, <1>5, PlansAreNotNoPlan DEF MInv, PlansAreSound, Cleared
  <1>7. QED
    <2> HIDE DEF p
    <2>1. QED
      BY <1>1, <1>4, <1>6, BeginWriteIsSound DEF MInv, PlansAreSound, PlansTyped

LEMMA HandlingIsSound ==
  ASSUME MInv, NEW c \in Procs, NEW event \in MigrationEventType, NEW lastLeg \in BOOLEAN,
         HandleEvent(c, event, lastLeg)
  PROVE  PlansAreSound'
  <1> DEFINE p == memory[c]
             next == Transition(p.state, event, lastLeg)
             revised == IF event = "REPLAN_REQUESTED" THEN p.revision + 1 ELSE p.revision
             q == [p EXCEPT !.state = next, !.revision = revised]
  <1>1. BeginWrite(c, q) /\ next # p.state /\ operations' = operations
    BY DEF HandleEvent
  <1>2. p \in Plan
    BY DEF HandleEvent, MInv, PlansAreSound, PlansTyped
  <1>3. audited' = IF event = "PLAN_AUDITED" THEN audited \cup {<<p.operation, p.revision>>} ELSE audited
    BY DEF HandleEvent
  <1>4. p.state \in MigrationState /\ p.operation \in 1 .. MaxOperations /\ p.revision \in 1 .. MaxRevision
    BY <1>2 DEF Plan
  <1>5. next \in MigrationState
    BY <1>4, Transitions
  <1>6. revised \in 1 .. MaxRevision
    BY <1>4, MigrationBounds DEF HandleEvent
  <1>7. next \in Underway => p.state \in Underway \/ event = "PLAN_AUDITED"
    BY <1>1, <1>4, Transitions
  <1>8. event = "REPLAN_REQUESTED" => next \notin Underway
    <2>1. event = "REPLAN_REQUESTED" => next = "PLAN"
      BY <1>1, <1>4, Transitions
    <2>2. QED
      BY <2>1 DEF Underway
  <1>9. q \in Plan /\ q.operation = p.operation /\ q.state = next /\ q.revision = revised
    <2> HIDE DEF next, revised
    <2>1. QED
      BY <1>2, <1>5, <1>6 DEF Plan
  <1>10. Cleared(q, audited')
    <2>1. p # NoPlan /\ (p.state \in Underway => <<p.operation, p.revision>> \in audited)
      BY <1>2, PlansAreNotNoPlan DEF MInv, PlansAreSound, Cleared
    <2>2. next \in Underway => <<p.operation, p.revision>> \in audited'
      BY <1>3, <1>7, <2>1
    <2>3. next \in Underway => revised = p.revision
      BY <1>8
    <2> HIDE DEF next, revised, q
    <2>4. QED
      BY <1>9, <2>2, <2>3 DEF Cleared
  <1>11. audited' \subseteq (1 .. MaxOperations) \X (1 .. MaxRevision) /\ audited \subseteq audited'
    <2>1. audited \subseteq (1 .. MaxOperations) \X (1 .. MaxRevision)
      BY DEF MInv, PlansAreSound, PlansTyped
    <2>2. <<p.operation, p.revision>> \in (1 .. MaxOperations) \X (1 .. MaxRevision)
      BY <1>4
    <2>3. audited' \in {audited, audited \cup {<<p.operation, p.revision>>}}
      BY <1>3
    <2> HIDE DEF p
    <2>4. QED
      BY <2>1, <2>2, <2>3
  <1>12. operations' \in 0 .. MaxOperations
    BY <1>1 DEF MInv, PlansAreSound, PlansTyped
  <1>13. QED
    <2> HIDE DEF q
    <2>1. QED
      BY <1>1, <1>9, <1>10, <1>11, <1>12, BeginWriteIsSound

LEMMA BeatingIsSound ==
  ASSUME MInv, NEW c \in Procs, Heartbeat(c)
  PROVE  PlansAreSound'
  <1>1. BeginWrite(c, memory[c]) /\ UNCHANGED <<operations, audited>>
    BY DEF Heartbeat
  <1>2. memory[c] \in Plan
    BY DEF Heartbeat, MInv, PlansAreSound, PlansTyped
  <1>3. QED
    BY <1>1, <1>2, BeginWriteIsSound DEF MInv, PlansAreSound, PlansTyped

\* Steps at the file.  Whoever is at it holds the newest fence.
LEMMA WriterHoldsTheNewest ==
  ASSUME MInv, NEW c \in Procs, writing[c] # "none"
  PROVE  lock = c /\ record.fence = handle[c].fence
  BY DEF MInv, IInv, PlansAreSound, WriterIsFenced, HandleBackedByLockAndRecord

LEMMA FilingIsSound ==
  ASSUME MInv, NEW c \in Procs, FinishWrite(c) \/ BeginDelete(c) \/ FinishDelete(c)
  PROVE  PlansAreSound'
  <1> USE DEF MInv
  <1>1. UNCHANGED <<now, lock, record, handle, observed, crashes, view, core, operations, audited>>
    BY DEF FinishWrite, BeginDelete, FinishDelete, vars
  <1>2. CASE FinishWrite(c)
    <2>1. /\ writing[c] = "write" /\ file' = [plan |-> memory[c], damaged |-> "none"]
          /\ writing' = [writing EXCEPT ![c] = "none"] /\ memory' = memory
      BY <1>2 DEF FinishWrite, ToJson
    <2>2. memory[c] \in Plan /\ memory[c].epoch = record.fence
      BY <2>1, WriterHoldsTheNewest DEF PlansAreSound, WriterIsFenced
    <2>3. PlansTyped'
      BY <1>1, <2>1, <2>2 DEF PlansAreSound, PlansTyped
    <2>4. \A d \in Procs : WriterIsFenced(d)'
      BY <1>1, <2>1 DEF PlansAreSound, PlansTyped, WriterIsFenced
    <2>5. FileIsIssued' /\ Cleared(file'.plan, audited')
      BY <1>1, <2>1, <2>2 DEF PlansAreSound, FileIsIssued, Cleared, Plan
    <2>6. QED
      BY <1>1, <2>1, <2>3, <2>4, <2>5 DEF PlansAreSound, Cleared
  <1>3. CASE BeginDelete(c)
    <2>1. /\ writing' = [writing EXCEPT ![c] = "delete"] /\ memory' = [memory EXCEPT ![c] = NoPlan]
          /\ file' = file /\ handle[c].stored = "ACTIVE"
      BY <1>3 DEF BeginDelete, FenceHoldsTenant, Active, Disposition
    <2>2. PlansTyped'
      BY <1>1, <2>1 DEF PlansAreSound, PlansTyped
    <2>3. \A d \in Procs : WriterIsFenced(d)'
      BY <1>1, <2>1 DEF PlansAreSound, PlansTyped, WriterIsFenced
    <2>4. \A d \in Procs : Cleared(memory'[d], audited')
      BY <1>1, <2>1 DEF PlansAreSound, PlansTyped, Cleared
    <2>5. QED
      BY <1>1, <2>1, <2>2, <2>3, <2>4 DEF PlansAreSound, FileIsIssued
  <1>4. CASE FinishDelete(c)
    <2>1. /\ writing' = [writing EXCEPT ![c] = "none"] /\ memory' = memory /\ file' = NoFile
      BY <1>4 DEF FinishDelete
    <2>2. NoFile \in [plan : {NoPlan}, damaged : {"no file"}] /\ NoFile.plan = NoPlan
      BY DEF NoFile
    <2>3. PlansTyped'
      BY <1>1, <2>1, <2>2 DEF PlansAreSound, PlansTyped
    <2>4. \A d \in Procs : WriterIsFenced(d)'
      BY <1>1, <2>1 DEF PlansAreSound, PlansTyped, WriterIsFenced
    <2>5. QED
      BY <1>1, <2>1, <2>2, <2>3, <2>4 DEF PlansAreSound, FileIsIssued, Cleared
  <1>5. QED
    BY <1>2, <1>3, <1>4

-----------------------------------------------------------------------------
(* Steps of the others.                                                    *)

LEMMA DamagedIsAFile ==
  ASSUME NEW plan, NEW Sections, NEW section \in Sections
  PROVE  [plan |-> plan, damaged |-> section] \in [plan : {plan}, damaged : Sections]
  OBVIOUS

LEMMA OtherStepsAreSound ==
  ASSUME MInv,
         \/ (\E section \in Damageable : Damage(section)) \/ ReadPlan \/ OrderMove
         \/ CoreRespawns \/ TimePasses \/ UNCHANGED conductingVars
  PROVE  PlansAreSound'
  <1> USE DEF MInv
  <1>1. UNCHANGED <<record, handle, memory, writing, operations, audited>>
    BY DEF Damage, ReadPlan, OrderMove, CoreRespawns, TimePasses, Tick, conductingVars, vars, migrationVars
  <1>2. /\ \/ file' = file
           \/ \E section \in RequiredSections \cup OptionalSections : file' = [plan |-> NoPlan, damaged |-> section]
        /\ view' \in {view, file.plan, NoPlan}
    BY DamagesAreSections
    DEF Damage, ReadPlan, OrderMove, CoreRespawns, TimePasses, conductingVars, migrationVars
  <1>3. core' \in 1 .. MaxCores
    <2>1. core \in 1 .. MaxCores
      BY DEF PlansAreSound, PlansTyped
    <2>2. core' = core \/ (core < MaxCores /\ core' = core + 1)
      BY DEF Damage, ReadPlan, OrderMove, CoreRespawns, TimePasses, conductingVars, migrationVars
    <2>3. QED
      BY <2>1, <2>2, MigrationBounds
  <1>4. file.plan \in Plan \cup {NoPlan}
    BY DEF PlansAreSound, PlansTyped
  <1>5. PlansTyped'
    <2>1. \/ file' \in [plan : Plan, damaged : {"none"}]
          \/ file' \in [plan : {NoPlan}, damaged : RequiredSections \cup OptionalSections \cup {"no file"}]
      <3>1. CASE file' = file
        BY <3>1 DEF PlansAreSound, PlansTyped
      <3>2. CASE \E section \in RequiredSections \cup OptionalSections : file' = [plan |-> NoPlan, damaged |-> section]
        <4>1. file' \in [plan : {NoPlan}, damaged : RequiredSections \cup OptionalSections \cup {"no file"}]
          <5>1. PICK section \in RequiredSections \cup OptionalSections : file' = [plan |-> NoPlan, damaged |-> section]
            BY <3>2
          <5>2. section \in RequiredSections \cup OptionalSections \cup {"no file"}
            OBVIOUS
          <5>3. QED
            BY <5>1, <5>2, DamagedIsAFile
        <4>2. QED
          BY <4>1
      <3>3. QED
        BY <1>2, <3>1, <3>2
    <2>2. view' \in Plan \cup {NoPlan}
      BY <1>2, <1>4 DEF PlansAreSound, PlansTyped
    <2>3. QED
      BY <1>1, <1>3, <2>1, <2>2 DEF PlansAreSound, PlansTyped
  <1>6. \A d \in Procs : WriterIsFenced(d)' /\ Cleared(memory'[d], audited')
    BY <1>1 DEF PlansAreSound, WriterIsFenced
  <1>7. file'.plan \in {file.plan, NoPlan}
    BY <1>2
  <1>8. FileIsIssued' /\ Cleared(file'.plan, audited') /\ Cleared(view', audited')
    BY <1>1, <1>2, <1>7 DEF PlansAreSound, FileIsIssued, Cleared
  <1>9. QED
    BY <1>5, <1>6, <1>8 DEF PlansAreSound

-----------------------------------------------------------------------------
(* The invariant.                                                          *)

LEMMA MInvInit == MigrationInit => MInv
  <1> SUFFICES ASSUME MigrationInit PROVE MInv
    OBVIOUS
  <1>1. IInv
    BY InitEstablishes DEF MigrationInit
  <1>2. NoFile \in [plan : {NoPlan}, damaged : {"no file"}] /\ NoFile.plan = NoPlan
    BY DEF NoFile
  <1>3. PlansTyped
    <2>1. core \in 1 .. MaxCores /\ operations \in 0 .. MaxOperations
      BY MigrationBounds DEF MigrationInit
    <2>2. file \in [plan : {NoPlan}, damaged : RequiredSections \cup OptionalSections \cup {"no file"}]
      BY <1>2 DEF MigrationInit
    <2>3. QED
      BY <2>1, <2>2 DEF MigrationInit, PlansTyped
  <1>4. QED
    BY <1>1, <1>2, <1>3 DEF MigrationInit, MInv, PlansAreSound, WriterIsFenced, FileIsIssued, Cleared

LEMMA MInvStep == MInv /\ [MigrationNext]_conductingVars => MInv'
  <1> SUFFICES ASSUME MInv, [MigrationNext]_conductingVars PROVE MInv'
    OBVIOUS
  <1>1. IInv'
    BY MigrationStepOnLease, StepPreserves DEF MInv
  <1>2. PlansAreSound'
    <2>1. ASSUME NEW c \in Procs, Conduct(c) \/ Resign(c) \/ ConductorDies(c) PROVE PlansAreSound'
      BY <1>1, <2>1, ConductIsSound, EndsAreSound
    <2>2. ASSUME NEW c \in Procs,
                 \/ AcceptIntent(c) \/ Heartbeat(c)
                 \/ \E revision \in 1 .. MaxRevision : Resume(c, revision)
                 \/ \E event \in MigrationEventType, lastLeg \in BOOLEAN : HandleEvent(c, event, lastLeg)
          PROVE  PlansAreSound'
      BY <2>2, AcceptingIsSound, ResumingIsSound, HandlingIsSound, BeatingIsSound
    <2>3. ASSUME NEW c \in Procs, FinishWrite(c) \/ BeginDelete(c) \/ FinishDelete(c) PROVE PlansAreSound'
      BY <2>3, FilingIsSound
    <2>4. QED
      BY <2>1, <2>2, <2>3, OtherStepsAreSound DEF MigrationNext
  <1>3. QED
    BY <1>1, <1>2 DEF MInv

\* The inductive invariant of the migration holds in every reachable state.
THEOREM MInvHolds == MigrationSpec => []MInv
  BY MInvInit, MInvStep, PTL DEF MigrationSpec

-----------------------------------------------------------------------------
(* The theorems.                                                           *)

\* Whoever is about to change the plan's file shuts the others out, expired or
\* not, and every leg was audited, on disk, in memory and in the runtime's view.
THEOREM PlansAreConducted == MigrationSpec => []PlanIsConducted
  <1>1. MInv => MigrationTypeOK
    BY DEF MInv, IInv, PlansAreSound, PlansTyped, MigrationTypeOK
  <1>2. MInv => WriterIsTheConductor
    BY WriterHoldsTheNewest DEF WriterIsTheConductor
  <1>3. MInv => LegsAreAudited
    BY DEF MInv, PlansAreSound, Cleared, Underway, LegsAreAudited
  <1>4. MInv => PlanIsConducted
    BY <1>1, <1>2, <1>3 DEF PlanIsConducted
  <1>5. QED
    BY <1>4, MInvHolds, PTL

\* What a step makes of the file.
LEMMA StepOnFile ==
  ASSUME MInv, [MigrationNext]_conductingVars
  PROVE  \/ file'.plan \in {file.plan, NoPlan}
         \/ \E c \in Procs : FinishWrite(c)
  <1>1. ASSUME NEW c \in Procs,
               \/ Conduct(c) \/ Resign(c) \/ ConductorDies(c) \/ AcceptIntent(c) \/ Heartbeat(c) \/ BeginDelete(c)
               \/ \E revision \in 1 .. MaxRevision : Resume(c, revision)
               \/ \E event \in MigrationEventType, lastLeg \in BOOLEAN : HandleEvent(c, event, lastLeg)
        PROVE  file' = file
    BY <1>1 DEF Conduct, Resign, ConductorDies, AcceptIntent, Heartbeat, BeginDelete, Resume, HandleEvent,
                BeginWrite, migrationVars
  <1>2. ASSUME NEW c \in Procs, FinishDelete(c) PROVE file'.plan = NoPlan
    BY <1>2 DEF FinishDelete, NoFile
  <1>3. ASSUME NEW section, Damage(section) PROVE file'.plan = NoPlan
    BY <1>3 DEF Damage
  <1>4. CASE ReadPlan \/ OrderMove \/ CoreRespawns \/ TimePasses \/ UNCHANGED conductingVars
    BY <1>4 DEF ReadPlan, OrderMove, CoreRespawns, TimePasses, conductingVars, migrationVars
  <1>5. QED
    BY <1>1, <1>2, <1>3, <1>4 DEF MigrationNext

\* The plan on disk is never put back to an earlier conductor's, though the
\* lease may expire between the look at it and the write; and a core moves only
\* for the core that stands and under the newest fence.
THEOREM PlansAreFenced == MigrationSpec => PlanIsFenced
  <1>1. ASSUME MInv, [MigrationNext]_conductingVars, file.plan # NoPlan, file'.plan # NoPlan
        PROVE  file'.plan.epoch >= file.plan.epoch
    <2>1. file.plan \in Plan /\ file.plan.epoch \in Nat
      BY <1>1 DEF MInv, PlansAreSound, PlansTyped, Plan
    <2>2. CASE file'.plan = file.plan
      BY <2>1, <2>2
    <2>3. ASSUME NEW c \in Procs, FinishWrite(c) PROVE file'.plan.epoch >= file.plan.epoch
      <3>1. file'.plan = memory[c] /\ memory[c].epoch = record.fence
        BY <1>1, <2>3, WriterHoldsTheNewest DEF FinishWrite, ToJson, MInv, PlansAreSound, WriterIsFenced
      <3>2. file.plan.epoch <= record.fence /\ record.fence \in Nat
        BY <1>1 DEF MInv, PlansAreSound, FileIsIssued, IInv, TypeOK, Record
      <3>3. QED
        BY <2>1, <3>1, <3>2
    <2>4. QED
      BY <1>1, <2>2, <2>3, StepOnFile
  <1>2. ASSUME MInv, OrderMove
        PROVE  view.core = core /\ \A c \in Procs : Active(c) => handle[c].fence = view.epoch
    BY <1>2 DEF OrderMove, MayStartMove, ConductorEpochMatches, CoreGenerationMatches, MInv, IInv,
                HandleBackedByLockAndRecord, Active, Disposition
  <1>3. MInv /\ [MigrationNext]_conductingVars =>
          (file.plan # NoPlan /\ file'.plan # NoPlan => file'.plan.epoch >= file.plan.epoch)
    BY <1>1
  <1>4. MInv /\ [MigrationNext]_conductingVars =>
          (OrderMove => view.core = core /\ \A c \in Procs : Active(c) => handle[c].fence = view.epoch)
    BY <1>2
  <1>5. QED
    BY <1>3, <1>4, MInvHolds, PTL DEF MigrationSpec, PlanIsFenced, PlanEpochNeverGoesBack, MovesAreAuthorized
=============================================================================
