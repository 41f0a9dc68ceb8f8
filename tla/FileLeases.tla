----------------------------- MODULE FileLeases -----------------------------
(***************************************************************************)
(* FileWriterLeaseCoordinator (adapters/runtime/process_leases.py): the    *)
(* writer lease of one tenant, shared by processes that know each other    *)
(* only through two files of the tenant's directory.                       *)
(*                                                                         *)
(*   writer-lease.lock   an OS lock the holder keeps as long as it lives   *)
(*                       and has not released; the OS frees it on a crash  *)
(*   writer-lease.json   fence and expiry of the last lease, rewritten by  *)
(*                       rename (atomic), never deleted                    *)
(*                                                                         *)
(* Tenants share nothing, so the module has one.  A call that fails on the *)
(* lock, the record, the fence or the budget changes nothing: it is a      *)
(* stuttering step.  Expiry is read off the wall clock, which an operator  *)
(* or NTP may step back.                                                   *)
(***************************************************************************)
EXTENDS Naturals

CONSTANTS
  Procs,             \* processes started for the tenant, at most one live coordinator each
  None,              \* no process
  Duration,          \* lease_duration_ns, in clock ticks
  ClockMayStepBack,  \* whether the wall clock is ever set back
  MaxFence,          \* bound: tokens issued
  MaxTime,           \* bound: last value of the wall clock
  MaxCrashes         \* bound: process crashes

ASSUME NoneIsNoProcess == None \notin Procs
ASSUME DurationPositive == Duration \in Nat \ {0}
ASSUME ClockFlag == ClockMayStepBack \in BOOLEAN
ASSUME BoundsAreNat == MaxFence \in Nat /\ MaxTime \in Nat /\ MaxCrashes \in Nat

VARIABLES
  now,       \* time.time_ns()
  lock,      \* process that holds writer-lease.lock, or None
  record,    \* writer-lease.json; fence 0 while the file does not exist
  handle,    \* the latest FileWriterLeaseHandle of each process
  observed,  \* fence each process last read with observed_writer_lease
  crashes

vars == <<now, lock, record, handle, observed, crashes>>

Record == [fence : Nat, expires : Nat]
Handle == [fence : Nat, expires : Nat,
           stored : {"none", "ACTIVE", "EXPIRED", "RELEASED"}]

NoRecord == [fence |-> 0, expires |-> 0]
NoHandle == [fence |-> 0, expires |-> 0, stored |-> "none"]

TypeOK ==
  /\ now \in Nat
  /\ lock \in Procs \cup {None}
  /\ record \in Record
  /\ handle \in [Procs -> Handle]
  /\ observed \in [Procs -> Nat]
  /\ crashes \in Nat

-----------------------------------------------------------------------------
\* FileWriterLeaseHandle.disposition
Disposition(p) ==
  IF handle[p].stored = "ACTIVE" /\ now >= handle[p].expires
  THEN "EXPIRED"
  ELSE handle[p].stored

Active(p) == Disposition(p) = "ACTIVE"

Init ==
  /\ now = 0
  /\ lock = None
  /\ record = NoRecord
  /\ handle = [p \in Procs |-> NoHandle]
  /\ observed = [p \in Procs |-> 0]
  /\ crashes = 0

-----------------------------------------------------------------------------
\* _issue: the record is durable before the handle exists.
Issue(p, f) ==
  /\ f <= MaxFence
  /\ record' = [fence |-> f, expires |-> now + Duration]
  /\ handle' = [handle EXCEPT ![p] =
                  [fence |-> f, expires |-> now + Duration, stored |-> "ACTIVE"]]
  /\ lock' = p
  /\ UNCHANGED <<now, observed, crashes>>

\* Only a tenant that never had a lease can be acquired.
MayAcquire(p) == lock = None /\ record.fence = 0

AcquireWriter(p) == MayAcquire(p) /\ Issue(p, 1)

\* Mutant: the lease is looked up once and remembered.
ObserveWriterLeaseMutOnce(p) ==
  /\ record.fence # 0
  /\ observed[p] = 0
  /\ observed' = [observed EXCEPT ![p] = record.fence]
  /\ UNCHANGED <<now, lock, record, handle, crashes>>

\* Read without the lock: the record may change before it is used.
ObserveWriterLease(p) ==
  /\ record.fence # 0
  /\ observed' = [observed EXCEPT ![p] = record.fence]
  /\ UNCHANGED <<now, lock, record, handle, crashes>>

\* Mutant: the record alone decides, the OS lock is not taken.
MayReplaceMutLock(p) ==
  /\ record.fence # 0
  /\ record.fence = observed[p]
  /\ now >= record.expires

\* Mutant: any earlier observation will do.
MayReplaceMutFence(p) ==
  /\ lock = None
  /\ record.fence # 0
  /\ observed[p] # 0
  /\ now >= record.expires

\* The exact holder observed, past its expiry, with its OS lock free.
MayReplace(p) ==
  /\ lock = None
  /\ record.fence # 0
  /\ record.fence = observed[p]
  /\ now >= record.expires

ReplaceWriter(p) == MayReplace(p) /\ Issue(p, observed[p] + 1)

\* _renew in time.
Renew(p) ==
  /\ handle[p].stored = "ACTIVE"
  /\ now < handle[p].expires
  /\ handle' = [handle EXCEPT ![p].expires = now + Duration]
  /\ record' = [fence |-> handle[p].fence, expires |-> now + Duration]
  /\ UNCHANGED <<now, lock, observed, crashes>>

\* _renew in time, but writing the record raises (disk full, say).  The handle
\* was extended first, so it stays ahead of the record.
RenewWriteFails(p) ==
  /\ handle[p].stored = "ACTIVE"
  /\ now < handle[p].expires
  /\ handle' = [handle EXCEPT ![p].expires = now + Duration]
  /\ UNCHANGED <<now, lock, record, observed, crashes>>

\* _renew too late: refused, for good.
RenewTooLate(p) ==
  /\ handle[p].stored = "ACTIVE"
  /\ now >= handle[p].expires
  /\ handle' = [handle EXCEPT ![p].stored = "EXPIRED"]
  /\ UNCHANGED <<now, lock, record, observed, crashes>>

\* _release: the record keeps the fence and expires at once, then the OS lock
\* is freed.  When writing the record fails nothing changes.
Release(p) ==
  /\ handle[p].stored \in {"ACTIVE", "EXPIRED"}
  /\ record' = [fence |-> handle[p].fence, expires |-> now]
  /\ handle' = [handle EXCEPT ![p].stored = "RELEASED"]
  /\ lock' = None
  /\ UNCHANGED <<now, observed, crashes>>

-----------------------------------------------------------------------------
\* The process dies; the OS frees its lock, the record stays as it is.
Crash(p) ==
  /\ crashes < MaxCrashes
  /\ crashes' = crashes + 1
  /\ handle' = [handle EXCEPT ![p] = NoHandle]
  /\ observed' = [observed EXCEPT ![p] = 0]
  /\ lock' = IF lock = p THEN None ELSE lock
  /\ UNCHANGED <<now, record>>

\* It dies inside _issue, after os.replace and before anyone has the handle.
CrashWhileIssuing(p) ==
  /\ crashes < MaxCrashes
  /\ crashes' = crashes + 1
  /\ \E f \in {1, observed[p] + 1} :
       /\ IF f = 1 THEN MayAcquire(p) ELSE MayReplace(p)
       /\ f <= MaxFence
       /\ record' = [fence |-> f, expires |-> now + Duration]
  /\ handle' = [handle EXCEPT ![p] = NoHandle]
  /\ observed' = [observed EXCEPT ![p] = 0]
  /\ UNCHANGED <<now, lock>>

Tick ==
  /\ now < MaxTime
  /\ now' = now + 1
  /\ UNCHANGED <<lock, record, handle, observed, crashes>>

StepBack ==
  /\ ClockMayStepBack
  /\ \E t \in 0 .. MaxTime : t < now /\ now' = t
  /\ UNCHANGED <<lock, record, handle, observed, crashes>>

Next ==
  \/ \E p \in Procs :
       \/ AcquireWriter(p) \/ ObserveWriterLease(p) \/ ReplaceWriter(p)
       \/ Renew(p) \/ RenewWriteFails(p) \/ RenewTooLate(p) \/ Release(p)
       \/ Crash(p) \/ CrashWhileIssuing(p)
  \/ Tick \/ StepBack

Spec == Init /\ [][Next]_vars

\* Time passes, and every process keeps trying to become the writer, as the
\* supervised restarts of the live command do (cli/main.py,
\* _acquire_live_writer: acquire, else observe and replace).
Fairness ==
  /\ WF_vars(Tick)
  /\ \A p \in Procs : /\ WF_vars(AcquireWriter(p))
                      /\ WF_vars(ObserveWriterLease(p))
                      /\ WF_vars(ReplaceWriter(p))

FairSpec == Spec /\ Fairness

-----------------------------------------------------------------------------
(* Properties *)

\* Two processes never both see an ACTIVE handle, whatever the clock does and
\* wherever a process dies (module docstring, mutual exclusion).
AtMostOneActive ==
  \A p, q \in Procs : Active(p) /\ Active(q) => p = q

\* Until it is released, a handle is backed by the OS lock and by the record
\* that carries its fence: an expired holder that lives still shuts others
\* out, and what it writes on release is its own fence.
HandleBackedByLockAndRecord ==
  \A p \in Procs :
    handle[p].stored \in {"ACTIVE", "EXPIRED"}
      => lock = p /\ record.fence = handle[p].fence

\* A lost lease is lost (module docstring: expiry, release or replacement
\* invalidates the handle), but for a clock that is set back: the expiry is
\* read off the clock again at every look.
LostIsLost ==
  [][\A p \in Procs :
       /\ Disposition(p) \in {"EXPIRED", "RELEASED"}
       /\ handle'[p].fence = handle[p].fence
       /\ Active(p)'
       => handle[p].stored = "ACTIVE" /\ now' < now]_vars

\* A lease that was crashed out of is taken over once its expiry has passed,
\* if the clock is set back no more; the clock and the tokens of the model
\* must get that far.
ClockSettles == <>[][now' >= now]_vars

CrashedLeaseIsTakenOver ==
  ClockSettles =>
    ((lock = None /\ record.fence < MaxFence /\ record.expires <= MaxTime)
       ~> (lock # None \/ record.fence = MaxFence \/ record.expires > MaxTime))

\* Fences only grow, each is granted once, and only while nobody is active:
\* across processes, crashes and restarts the coordinator keeps the promise
\* of the lease ports.
TheTenant == {"tenant"}
NewestFence == [s \in TheTenant |-> record.fence]
ActiveFence ==
  [s \in TheTenant |->
     IF \E p \in Procs : Active(p)
     THEN handle[CHOOSE p \in Procs : Active(p)].fence
     ELSE 0]

Authority == INSTANCE FencedAuthority
               WITH Slots <- TheTenant, LossIsFinal <- ~ClockMayStepBack,
                    fence <- NewestFence, holder <- ActiveFence

ImplementsAuthority == Authority!Spec
=============================================================================
