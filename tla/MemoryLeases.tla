---------------------------- MODULE MemoryLeases ----------------------------
(***************************************************************************)
(* MemoryLeaseCoordinator (adapters/runtime/leases.py): fenced decision    *)
(* and writer leases inside one process.                                   *)
(*                                                                         *)
(* Every operation runs under one asyncio.Lock and awaits nothing while    *)
(* holding it, so it is one step here; only the clock moves in between.    *)
(* A call that fails (budget exhausted, slot taken, wrong fence) returns   *)
(* None or False and changes nothing: it is a stuttering step.             *)
(*                                                                         *)
(* A handle is named by its slot and its fencing token.  The caller that   *)
(* obtained it may renew or release it at any time, also long after it     *)
(* was replaced.                                                           *)
(***************************************************************************)
EXTENDS Naturals, FiniteSets

CONSTANTS
  Tenants,
  Duration,   \* lease_duration_ns, in clock ticks
  MaxFence,   \* bound: tokens issued per slot
  MaxTime     \* bound: last tick of the monotonic clock

ASSUME DurationPositive == Duration \in Nat \ {0}
ASSUME BoundsAreNat == MaxFence \in Nat /\ MaxTime \in Nat

VARIABLES
  now,        \* Clock.monotonic_ns
  nextFence,  \* _LeaseSlot.next_fence
  current,    \* fence of _LeaseSlot.current; NoHandle for None
  expires,    \* _expires_at_ns of the handle with that fence
  stored      \* its _disposition attribute; "unissued" before it exists

vars == <<now, nextFence, current, expires, stored>>

Kinds  == {"decision", "writer"}
Slots  == Tenants \X Kinds
Fences == 1 .. MaxFence
NoHandle == 0

Stored == {"unissued", "ACTIVE", "RELEASED", "REPLACED"}

TypeOK ==
  /\ now \in Nat
  /\ nextFence \in [Slots -> Nat \ {0}]
  /\ current \in [Slots -> Fences \cup {NoHandle}]
  /\ expires \in [Slots -> [Fences -> Nat]]
  /\ stored \in [Slots -> [Fences -> Stored]]

-----------------------------------------------------------------------------
\* LeaseHandle.disposition: EXPIRED is computed from the clock, never stored.
Disposition(s, f) ==
  IF stored[s][f] = "ACTIVE" /\ now >= expires[s][f]
  THEN "EXPIRED"
  ELSE stored[s][f]

Active(s, f) == Disposition(s, f) = "ACTIVE"

-----------------------------------------------------------------------------
Init ==
  /\ now = 0
  /\ nextFence = [s \in Slots |-> 1]
  /\ current = [s \in Slots |-> NoHandle]
  /\ expires = [s \in Slots |-> [f \in Fences |-> 0]]
  /\ stored = [s \in Slots |-> [f \in Fences |-> "unissued"]]

\* _issue_decision, _issue_writer: a fresh handle under the next token.
\* `disposed` is `stored` after the disposal of the holder it replaces.
Issue(s, disposed) ==
  LET f == nextFence[s] IN
  /\ f \in Fences
  /\ nextFence' = [nextFence EXCEPT ![s] = f + 1]
  /\ current' = [current EXCEPT ![s] = f]
  /\ expires' = [expires EXCEPT ![s][f] = now + Duration]
  /\ stored' = [disposed EXCEPT ![s][f] = "ACTIVE"]
  /\ UNCHANGED now

\* A normal acquisition never steals, not even an expired lease.
Acquire(s) ==
  /\ current[s] = NoHandle
  /\ Issue(s, stored)

AcquireDecision(t) == Acquire(<<t, "decision">>)
AcquireWriter(t) == Acquire(<<t, "writer">>)

\* _replacement_is_authorized: the exact holder observed, past its expiry.
ReplacementIsAuthorized(s, expected) ==
  /\ current[s] # NoHandle
  /\ current[s] = expected
  /\ now >= expires[s][expected]

Replace(s, expected) ==
  /\ ReplacementIsAuthorized(s, expected)
  /\ Issue(s, [stored EXCEPT ![s][expected] = "REPLACED"])

ReplaceDecision(t, expected) == Replace(<<t, "decision">>, expected)
ReplaceWriter(t, expected) == Replace(<<t, "writer">>, expected)

\* _renew by the holder, in time.
Renew(s, f) ==
  /\ stored[s][f] # "unissued"
  /\ current[s] = f
  /\ now < expires[s][f]
  /\ expires' = [expires EXCEPT ![s][f] = now + Duration]
  /\ UNCHANGED <<now, nextFence, current, stored>>

\* _renew of a handle that no longer owns its slot, released ones included.
RenewStale(s, f) ==
  /\ stored[s][f] # "unissued"
  /\ current[s] # f
  /\ stored' = [stored EXCEPT ![s][f] = "REPLACED"]
  /\ UNCHANGED <<now, nextFence, current, expires>>

\* Mutant: the slot is cleared but the handle is not marked.
ReleaseMutUnmarked(s, f) ==
  /\ stored[s][f] # "unissued"
  /\ current[s] = f
  /\ current' = [current EXCEPT ![s] = NoHandle]
  /\ UNCHANGED <<now, nextFence, expires, stored>>

\* Mutant: the whole slot is dropped, and its token counter with it.
ReleaseMutDropsSlot(s, f) ==
  /\ stored[s][f] # "unissued"
  /\ current[s] = f
  /\ current' = [current EXCEPT ![s] = NoHandle]
  /\ nextFence' = [nextFence EXCEPT ![s] = 1]
  /\ stored' = [stored EXCEPT ![s][f] = "RELEASED"]
  /\ UNCHANGED <<now, expires>>

\* _release: an expired holder may still release, a stale handle cannot.
Release(s, f) ==
  /\ stored[s][f] # "unissued"
  /\ current[s] = f
  /\ current' = [current EXCEPT ![s] = NoHandle]
  /\ stored' = [stored EXCEPT ![s][f] = "RELEASED"]
  /\ UNCHANGED <<now, nextFence, expires>>

Tick ==
  /\ now < MaxTime
  /\ now' = now + 1
  /\ UNCHANGED <<nextFence, current, expires, stored>>

Next ==
  \/ \E t \in Tenants : AcquireDecision(t)
  \/ \E t \in Tenants : AcquireWriter(t)
  \/ \E t \in Tenants, f \in Fences : ReplaceDecision(t, f)
  \/ \E t \in Tenants, f \in Fences : ReplaceWriter(t, f)
  \/ \E s \in Slots, f \in Fences : Renew(s, f)
  \/ \E s \in Slots, f \in Fences : RenewStale(s, f)
  \/ \E s \in Slots, f \in Fences : Release(s, f)
  \/ Tick

Spec == Init /\ [][Next]_vars

-----------------------------------------------------------------------------
(* Properties *)

\* Every write path of the process trusts a handle that says ACTIVE
\* (DecisionArbiter.commit, TenantStateStore, the command bus, the migration
\* store): at most one handle of a slot may say so, it must be the one the
\* slot points at, and no newer token may have been issued.
OnlyTheNewestHandleIsActive ==
  \A s \in Slots, f \in Fences :
    Active(s, f) => current[s] = f /\ nextFence[s] = f + 1

\* A handle that lost its lease (expired, released, replaced) never reports
\* ACTIVE again, whatever its holder or others still call on it.
LostIsLost ==
  [][\A s \in Slots, f \in Fences :
       Disposition(s, f) \in {"EXPIRED", "RELEASED", "REPLACED"}
         => ~Active(s, f)']_vars

\* The holder of an active lease loses it by the passing of time or by its
\* own release, never because someone replaced it (module docstring: the
\* current holder must be past its monotonic expiry).
NeverReplacedWhileActive ==
  [][\A s \in Slots, f \in Fences :
       Active(s, f) => Disposition(s, f)' # "REPLACED"]_vars

\* The coordinator keeps the promise of the lease ports, slot by slot.
NewestFence == [s \in Slots |-> nextFence[s] - 1]
ActiveFence ==
  [s \in Slots |->
     IF \E f \in Fences : Active(s, f)
     THEN CHOOSE f \in Fences : Active(s, f)
     ELSE NoHandle]

Authority == INSTANCE FencedAuthority
               WITH Slots <- Slots, LossIsFinal <- TRUE,
                    fence <- NewestFence, holder <- ActiveFence

ImplementsAuthority == Authority!Spec
=============================================================================
