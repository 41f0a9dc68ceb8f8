-------------------------- MODULE FileLeasesProofs --------------------------
(***************************************************************************)
(* Proofs about FileLeases, for any set of processes, any lease duration,  *)
(* any bound on tokens, clock and crashes, and a wall clock that may or    *)
(* may not step back.                                                      *)
(*                                                                         *)
(* The safety of the file coordinator rests on the OS lock, not on the     *)
(* clock: HandleBackedByLockAndRecord is what every step preserves, and    *)
(* mutual exclusion follows because the lock has one holder.               *)
(***************************************************************************)
EXTENDS FileLeases, TLAPS

LockBacksAHandle ==
  \A p \in Procs : lock = p => handle[p].stored \in {"ACTIVE", "EXPIRED"}

IssuedFencesArePositive ==
  \A p \in Procs : handle[p].stored # "none" => handle[p].fence # 0

IInv ==
  /\ TypeOK
  /\ HandleBackedByLockAndRecord
  /\ LockBacksAHandle
  /\ IssuedFencesArePositive

LEMMA InitEstablishes == Init => IInv
  BY NoneIsNoProcess
  DEF Init, IInv, TypeOK, HandleBackedByLockAndRecord, LockBacksAHandle,
      IssuedFencesArePositive, Record, Handle, NoRecord, NoHandle

LEMMA IssuePreserves ==
  ASSUME IInv, NEW p \in Procs, NEW f \in Nat \ {0}, lock = None, Issue(p, f)
  PROVE  IInv'
  <1> USE NoneIsNoProcess, DurationPositive DEF IInv, TypeOK
  <1>1. now + Duration \in Nat
    OBVIOUS
  <1>2. [fence |-> f, expires |-> now + Duration] \in Record
    BY <1>1 DEF Record
  <1>3. [fence |-> f, expires |-> now + Duration, stored |-> "ACTIVE"] \in Handle
    BY <1>1 DEF Handle
  <1>4. TypeOK'
    BY <1>2, <1>3 DEF Issue
  <1>5. \A q \in Procs : handle[q].stored \notin {"ACTIVE", "EXPIRED"}
    BY DEF HandleBackedByLockAndRecord
  <1>6. \A q \in Procs : q # p => handle'[q] = handle[q]
    BY DEF Issue
  <1>7. handle'[p] = [fence |-> f, expires |-> now + Duration, stored |-> "ACTIVE"]
    BY DEF Issue
  <1>8. HandleBackedByLockAndRecord'
    BY <1>5, <1>6, <1>7 DEF Issue, HandleBackedByLockAndRecord
  <1>9. LockBacksAHandle' /\ IssuedFencesArePositive'
    BY <1>6, <1>7 DEF Issue, LockBacksAHandle, IssuedFencesArePositive
  <1>10. QED
    BY <1>4, <1>8, <1>9 DEF IInv

LEMMA StepPreserves == IInv /\ [Next]_vars => IInv'
  <1> SUFFICES ASSUME IInv, [Next]_vars PROVE IInv'
    OBVIOUS
  <1> USE NoneIsNoProcess, DurationPositive
      DEF IInv, TypeOK, HandleBackedByLockAndRecord, LockBacksAHandle,
          IssuedFencesArePositive
  <1>1. ASSUME NEW p \in Procs, AcquireWriter(p) PROVE IInv'
    BY <1>1, IssuePreserves DEF AcquireWriter, MayAcquire
  <1>2. ASSUME NEW p \in Procs, ObserveWriterLease(p) PROVE IInv'
    BY <1>2 DEF ObserveWriterLease, Record
  <1>3. ASSUME NEW p \in Procs, ReplaceWriter(p) PROVE IInv'
    <2>1. observed[p] + 1 \in Nat \ {0}
      OBVIOUS
    <2>2. QED
      BY <1>3, <2>1, IssuePreserves DEF ReplaceWriter, MayReplace
  <1>4. ASSUME NEW p \in Procs, Renew(p) \/ RenewWriteFails(p) PROVE IInv'
    <2>1. now + Duration \in Nat
      OBVIOUS
    <2>2. handle[p].fence \in Nat /\ handle[p].stored = "ACTIVE"
      BY <1>4 DEF Renew, RenewWriteFails, Handle
    <2>3. \A q \in Procs : /\ handle'[q].fence = handle[q].fence
                           /\ handle'[q].stored = handle[q].stored
      BY <1>4 DEF Renew, RenewWriteFails, Handle
    <2>4. handle' \in [Procs -> Handle]
      BY <1>4, <2>1 DEF Renew, RenewWriteFails, Handle
    <2>5. record' \in Record /\ record'.fence = record.fence
      BY <1>4, <2>1, <2>2 DEF Renew, RenewWriteFails, Record
    <2>6. QED
      BY <1>4, <2>3, <2>4, <2>5 DEF Renew, RenewWriteFails
  <1>5. ASSUME NEW p \in Procs, RenewTooLate(p) PROVE IInv'
    <2>1. handle' \in [Procs -> Handle]
      BY <1>5 DEF RenewTooLate, Handle
    <2>2. \A q \in Procs : /\ handle'[q].fence = handle[q].fence
                           /\ q # p => handle'[q].stored = handle[q].stored
      BY <1>5 DEF RenewTooLate, Handle
    <2>3. handle[p].stored = "ACTIVE" /\ handle'[p].stored = "EXPIRED"
      BY <1>5 DEF RenewTooLate, Handle
    <2>4. QED
      BY <1>5, <2>1, <2>2, <2>3 DEF RenewTooLate
  <1>6. ASSUME NEW p \in Procs, Release(p) PROVE IInv'
    <2>1. handle' \in [Procs -> Handle] /\ record' \in Record
      BY <1>6 DEF Release, Handle, Record
    <2>2. \A q \in Procs : /\ handle'[q].fence = handle[q].fence
                           /\ q # p => handle'[q].stored = handle[q].stored
      BY <1>6 DEF Release, Handle
    <2>3. handle[p].stored # "none" /\ handle'[p].stored = "RELEASED" /\ lock = p
      BY <1>6 DEF Release, Handle
    <2>4. QED
      BY <1>6, <2>1, <2>2, <2>3 DEF Release
  <1>7. ASSUME NEW p \in Procs, Crash(p) PROVE IInv'
    <2>1. NoHandle \in Handle /\ NoHandle.stored = "none"
      BY DEF NoHandle, Handle
    <2>2. QED
      BY <1>7, <2>1, BoundsAreNat DEF Crash
  <1>8. ASSUME NEW p \in Procs, CrashWhileIssuing(p) PROVE IInv'
    <2>1. NoHandle \in Handle /\ NoHandle.stored = "none"
      BY DEF NoHandle, Handle
    <2>2. lock = None
      BY <1>8 DEF CrashWhileIssuing, MayAcquire, MayReplace
    <2>3. \A q \in Procs : handle[q].stored \notin {"ACTIVE", "EXPIRED"}
      BY <2>2
    <2>4. record' \in Record
      <3>1. now + Duration \in Nat /\ observed[p] + 1 \in Nat
        OBVIOUS
      <3>2. QED
        BY <1>8, <3>1 DEF CrashWhileIssuing, Record
    <2>5. QED
      BY <1>8, <2>1, <2>2, <2>3, <2>4, BoundsAreNat DEF CrashWhileIssuing
  <1>9. ASSUME Tick \/ StepBack PROVE IInv'
    BY <1>9, BoundsAreNat DEF Tick, StepBack
  <1>10. CASE UNCHANGED vars
    BY <1>10 DEF vars
  <1>11. QED
    BY <1>1, <1>2, <1>3, <1>4, <1>5, <1>6, <1>7, <1>8, <1>9, <1>10 DEF Next

\* The inductive invariant holds in every reachable state.
THEOREM IInvHolds == Spec => []IInv
  BY InitEstablishes, StepPreserves, PTL DEF Spec

\* Type correctness of the record, the handles and the lock.
THEOREM TypeCorrect == Spec => []TypeOK
  <1>1. IInv => TypeOK
    BY DEF IInv
  <1>2. QED
    BY <1>1, IInvHolds, PTL

\* As long as it is not released, a handle owns the OS lock, and the durable
\* record carries its fence.
THEOREM HandlesAreBacked == Spec => []HandleBackedByLockAndRecord
  <1>1. IInv => HandleBackedByLockAndRecord
    BY DEF IInv
  <1>2. QED
    BY <1>1, IInvHolds, PTL

\* Mutual exclusion between processes, under any behaviour of the wall clock.
THEOREM MutualExclusion == Spec => []AtMostOneActive
  <1>1. IInv => AtMostOneActive
    BY DEF IInv, HandleBackedByLockAndRecord, AtMostOneActive, Active, Disposition
  <1>2. QED
    BY <1>1, IInvHolds, PTL

-----------------------------------------------------------------------------
(* The coordinator implements the promise of the lease ports.              *)

\* The authority is the lock holder's, while its handle is in time.
Someone == \E p \in Procs : Active(p)

AuthorityIsTheRecords ==
  /\ Someone => ActiveFence["tenant"] = record.fence
  /\ ~Someone => ActiveFence["tenant"] = 0

LEMMA ActiveFenceIs == IInv => AuthorityIsTheRecords
  <1> SUFFICES ASSUME IInv PROVE AuthorityIsTheRecords
    OBVIOUS
  <1>1. CASE Someone
    <2>1. PICK p \in Procs : Active(p)
      BY <1>1 DEF Someone
    <2>2. Active(CHOOSE q \in Procs : Active(q)) /\ (CHOOSE q \in Procs : Active(q)) \in Procs
      BY <2>1
    <2>3. handle[CHOOSE q \in Procs : Active(q)].fence = record.fence
      BY <2>2 DEF IInv, HandleBackedByLockAndRecord, Active, Disposition
    <2>4. QED
      BY <1>1, <2>3 DEF ActiveFence, TheTenant, AuthorityIsTheRecords, Someone
  <1>2. CASE ~Someone
    BY <1>2 DEF ActiveFence, TheTenant, AuthorityIsTheRecords, Someone
  <1>3. QED
    BY <1>1, <1>2

\* How a step changes the newest fence and whether anyone is active.
LEMMA StepOnAuthority ==
  ASSUME IInv, [Next]_vars
  PROVE  \/ record'.fence = record.fence + 1 /\ ~Someone
         \/ /\ record'.fence = record.fence
            /\ ~Someone /\ Someone' => ClockMayStepBack /\ record.fence # 0
  <1> USE NoneIsNoProcess, DurationPositive DEF IInv, TypeOK
  <1>1. ASSUME NEW p \in Procs, AcquireWriter(p) \/ ReplaceWriter(p) \/ CrashWhileIssuing(p)
        PROVE  record'.fence = record.fence + 1 /\ ~Someone
    <2>1. lock = None
      BY <1>1 DEF AcquireWriter, ReplaceWriter, CrashWhileIssuing, MayAcquire, MayReplace
    <2>2. ~Someone
      BY <2>1 DEF Someone, Active, Disposition, HandleBackedByLockAndRecord
    <2>3. record.fence \in Nat
      BY DEF Record
    <2>4. record'.fence = record.fence + 1
      BY <1>1, <2>3
      DEF AcquireWriter, ReplaceWriter, CrashWhileIssuing, MayAcquire, MayReplace, Issue
    <2>5. QED
      BY <2>2, <2>4
  <1>2. ASSUME NEW p \in Procs, ObserveWriterLease(p)
        PROVE  record'.fence = record.fence /\ (Someone' => Someone)
    BY <1>2 DEF ObserveWriterLease, Someone, Active, Disposition
  <1>3. ASSUME NEW p \in Procs, Renew(p) \/ RenewWriteFails(p)
        PROVE  record'.fence = record.fence /\ (Someone' => Someone)
    <2>1. Active(p)
      BY <1>3 DEF Renew, RenewWriteFails, Active, Disposition, Handle
    <2>2. QED
      BY <1>3, <2>1 DEF Renew, RenewWriteFails, Someone, HandleBackedByLockAndRecord
  <1>4. ASSUME NEW p \in Procs, RenewTooLate(p) \/ Release(p) \/ Crash(p)
        PROVE  record'.fence = record.fence /\ (Someone' => Someone)
    <2>1. record'.fence = record.fence
      BY <1>4 DEF RenewTooLate, Release, Crash, HandleBackedByLockAndRecord
    <2>2. \A q \in Procs : q # p => handle'[q] = handle[q]
      BY <1>4 DEF RenewTooLate, Release, Crash
    <2>3. now' = now /\ handle'[p].stored # "ACTIVE"
      BY <1>4 DEF RenewTooLate, Release, Crash, NoHandle, Handle
    <2>4. QED
      BY <2>1, <2>2, <2>3 DEF Someone, Active, Disposition
  <1>5. ASSUME Tick
        PROVE  record'.fence = record.fence /\ (Someone' => Someone)
    <2>1. \A p \in Procs : handle[p].expires \in Nat
      BY DEF Handle
    <2>2. QED
      BY <1>5, <2>1 DEF Tick, Someone, Active, Disposition
  <1>6. ASSUME StepBack
        PROVE  /\ record'.fence = record.fence
               /\ Someone' => ClockMayStepBack /\ record.fence # 0
    BY <1>6 DEF StepBack, Someone, Active, Disposition, HandleBackedByLockAndRecord,
                IssuedFencesArePositive
  <1>7. ASSUME UNCHANGED vars
        PROVE  record'.fence = record.fence /\ (Someone' => Someone)
    BY <1>7 DEF vars, Someone, Active, Disposition
  <1>8. QED
    BY <1>1, <1>2, <1>3, <1>4, <1>5, <1>6, <1>7 DEF Next

\* A step that moves the newest fence and the holder like that is one of the
\* authority's.
LEMMA AuthorityFollows ==
  ASSUME IInv, IInv',
         \/ record'.fence = record.fence + 1 /\ ~Someone
         \/ /\ record'.fence = record.fence
            /\ ~Someone /\ Someone' => ClockMayStepBack /\ record.fence # 0
  PROVE  Authority!Next
  <1>1. AuthorityIsTheRecords
    BY ActiveFenceIs
  <1>2. AuthorityIsTheRecords'
    BY ActiveFenceIs, PTL
  <1>3. NewestFence["tenant"] = record.fence /\ NewestFence'["tenant"] = record'.fence
    BY DEF NewestFence, TheTenant
  <1>4. record.fence \in Nat
    BY DEF IInv, TypeOK, Record
  <1>5. QED
    BY <1>1, <1>2, <1>3, <1>4
    DEF Authority!Next, Authority!Grant, Authority!Burn, Authority!Lose,
        Authority!Regain, Authority!Keep, Authority!Nobody, TheTenant,
        AuthorityIsTheRecords

LEMMA AuthorityInit == Init => Authority!Init
  BY DEF Init, Authority!Init, Authority!Nobody, NewestFence, ActiveFence, TheTenant,
         Active, Disposition, NoRecord, NoHandle

\* Across processes, crashes and restarts, and whatever the wall clock does,
\* the file coordinator keeps the promise of the lease ports.
THEOREM FileLeasesImplementAuthority == Spec => ImplementsAuthority
  <1>1. IInv /\ [Next]_vars => [Authority!Next]_(Authority!vars)
    BY StepPreserves, StepOnAuthority, AuthorityFollows
  <1>2. QED
    BY <1>1, AuthorityInit, IInvHolds, PTL DEF Spec, ImplementsAuthority, Authority!Spec
=============================================================================
