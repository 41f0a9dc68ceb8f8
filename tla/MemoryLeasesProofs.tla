------------------------- MODULE MemoryLeasesProofs -------------------------
(***************************************************************************)
(* Proofs about MemoryLeases, for any set of tenants, any lease duration   *)
(* and any bound on the tokens and the clock.                              *)
(*                                                                         *)
(* OnlyTheNewestHandleIsActive is not inductive: a handle the slot no      *)
(* longer points at must already be disposed of when the next one is       *)
(* issued.  SlotsAndHandlesAgree says how the two records of the           *)
(* coordinator, slots and handles, stay consistent.                        *)
(***************************************************************************)
EXTENDS MemoryLeases, TLAPS

SlotsAndHandlesAgree ==
  /\ \A s \in Slots, f \in Fences : stored[s][f] = "unissued" <=> f >= nextFence[s]
  /\ \A s \in Slots : current[s] # NoHandle => current[s] + 1 = nextFence[s]
  /\ \A s \in Slots, f \in Fences : stored[s][f] = "ACTIVE" <=> current[s] = f

IInv == TypeOK /\ SlotsAndHandlesAgree

-----------------------------------------------------------------------------
\* The operations, per slot: both purposes share one implementation.
LEMMA NextBySlot ==
  ASSUME Next
  PROVE  \/ \E s \in Slots : Acquire(s)
         \/ \E s \in Slots, f \in Fences : Replace(s, f)
         \/ \E s \in Slots, f \in Fences : Renew(s, f)
         \/ \E s \in Slots, f \in Fences : RenewStale(s, f)
         \/ \E s \in Slots, f \in Fences : Release(s, f)
         \/ Tick
  BY DEF Next, AcquireDecision, AcquireWriter, ReplaceDecision, ReplaceWriter,
         Slots, Kinds

LEMMA InitEstablishes == Init => IInv
  BY DurationPositive, BoundsAreNat
  DEF Init, IInv, TypeOK, SlotsAndHandlesAgree, Fences, NoHandle, Stored

\* A new token keeps slots and handles in agreement, provided the handle it
\* supersedes, if there is one, has been disposed of.
LEMMA IssuePreserves ==
  ASSUME IInv, NEW s \in Slots,
         NEW disposed \in [Slots -> [Fences -> Stored]],
         \A r \in Slots : r # s => disposed[r] = stored[r],
         \A f \in Fences : disposed[s][f] # "ACTIVE",
         \A f \in Fences : disposed[s][f] = "unissued" <=> stored[s][f] = "unissued",
         Issue(s, disposed)
  PROVE  IInv'
  <1> DEFINE n == nextFence[s]
  <1> USE DurationPositive, BoundsAreNat DEF IInv, TypeOK, Fences, NoHandle
  <1>1. /\ n \in Fences
        /\ n \in Nat \ {0}
        /\ nextFence' = [nextFence EXCEPT ![s] = n + 1]
        /\ current' = [current EXCEPT ![s] = n]
        /\ expires' = [expires EXCEPT ![s][n] = now + Duration]
        /\ stored' = [disposed EXCEPT ![s][n] = "ACTIVE"]
        /\ now' = now
    BY DEF Issue
  <1> HIDE DEF n
  <1>2. TypeOK'
    <2>1. nextFence' \in [Slots -> Nat \ {0}] /\ current' \in [Slots -> Fences \cup {NoHandle}]
      BY <1>1
    <2>2. expires' \in [Slots -> [Fences -> Nat]]
      <3>1. now + Duration \in Nat
        OBVIOUS
      <3>2. QED
        BY <1>1, <3>1
    <2>3. stored' \in [Slots -> [Fences -> Stored]]
      BY <1>1 DEF Stored
    <2>4. QED
      BY <1>1, <2>1, <2>2, <2>3
  <1>3. SlotsAndHandlesAgree'
    <2>1. ASSUME NEW r \in Slots, NEW f \in Fences
          PROVE  (stored[r][f] = "unissued" <=> f >= nextFence[r])'
      <3>1. CASE r # s
        BY <1>1, <3>1, SMTT(30) DEF SlotsAndHandlesAgree
      <3>2. CASE r = s
        <4>1. stored'[s][f] = IF f = n THEN "ACTIVE" ELSE disposed[s][f]
          BY <1>1
        <4>2. nextFence'[s] = n + 1
          BY <1>1
        <4>3. stored[s][f] = "unissued" <=> f >= n
          BY DEF SlotsAndHandlesAgree, n
        <4>4. QED
          BY <1>1, <3>2, <4>1, <4>2, <4>3
      <3>3. QED
        BY <3>1, <3>2
    <2>2. ASSUME NEW r \in Slots
          PROVE  (current[r] # NoHandle => current[r] + 1 = nextFence[r])'
      BY <1>1 DEF SlotsAndHandlesAgree
    <2>3. ASSUME NEW r \in Slots, NEW f \in Fences
          PROVE  (stored[r][f] = "ACTIVE" <=> current[r] = f)'
      BY <1>1, SMTT(30) DEF SlotsAndHandlesAgree
    <2>4. QED
      BY <2>1, <2>2, <2>3 DEF SlotsAndHandlesAgree
  <1>4. QED
    BY <1>2, <1>3 DEF IInv

LEMMA StepPreserves == IInv /\ [Next]_vars => IInv'
  <1> SUFFICES ASSUME IInv, [Next]_vars PROVE IInv'
    OBVIOUS
  <1>1. ASSUME NEW s \in Slots, Acquire(s) PROVE IInv'
    <2>1. \A f \in Fences : stored[s][f] # "ACTIVE"
      BY <1>1 DEF IInv, TypeOK, SlotsAndHandlesAgree, Acquire, NoHandle, Fences
    <2>2. QED
      BY <1>1, <2>1, IssuePreserves DEF Acquire, IInv, TypeOK
  <1>2. ASSUME NEW s \in Slots, NEW e \in Fences, Replace(s, e) PROVE IInv'
    <2> DEFINE disposed == [stored EXCEPT ![s][e] = "REPLACED"]
    <2>1. disposed \in [Slots -> [Fences -> Stored]]
      BY DEF IInv, TypeOK, Stored
    <2>2. \A r \in Slots : r # s => disposed[r] = stored[r]
      BY DEF IInv, TypeOK
    <2>3. \A f \in Fences : disposed[s][f] # "ACTIVE"
      BY <1>2 DEF IInv, TypeOK, SlotsAndHandlesAgree, Replace, ReplacementIsAuthorized
    <2>4. stored[s][e] = "ACTIVE"
      BY <1>2 DEF IInv, TypeOK, SlotsAndHandlesAgree, Replace, ReplacementIsAuthorized
    <2>5. \A f \in Fences : disposed[s][f] = "unissued" <=> stored[s][f] = "unissued"
      BY <2>4 DEF IInv, TypeOK
    <2>6. Issue(s, disposed)
      BY <1>2 DEF Replace
    <2> HIDE DEF disposed
    <2>7. QED
      BY <2>1, <2>2, <2>3, <2>5, <2>6, IssuePreserves
  <1> USE DurationPositive, BoundsAreNat DEF IInv, TypeOK, Fences, NoHandle
  <1>3. ASSUME NEW s \in Slots, NEW f \in Fences, Renew(s, f) PROVE IInv'
    <2>1. now + Duration \in Nat
      OBVIOUS
    <2>2. QED
      BY <1>3, <2>1, SMTT(30) DEF Renew, SlotsAndHandlesAgree
  <1>4. ASSUME NEW s \in Slots, NEW f \in Fences, RenewStale(s, f) PROVE IInv'
    <2>1. TypeOK'
      BY <1>4 DEF RenewStale, Stored
    <2>2. \A r \in Slots, g \in Fences :
            stored'[r][g] = IF r = s /\ g = f THEN "REPLACED" ELSE stored[r][g]
      BY <1>4 DEF RenewStale
    <2>3. SlotsAndHandlesAgree'
      BY <1>4, <2>2, SMTT(30) DEF RenewStale, SlotsAndHandlesAgree
    <2>4. QED
      BY <2>1, <2>3
  <1>5. ASSUME NEW s \in Slots, NEW f \in Fences, Release(s, f) PROVE IInv'
    <2>1. TypeOK'
      BY <1>5 DEF Release, Stored
    <2>2. \A r \in Slots, g \in Fences :
            stored'[r][g] = IF r = s /\ g = f THEN "RELEASED" ELSE stored[r][g]
      BY <1>5 DEF Release
    <2>3. \A r \in Slots : current'[r] = IF r = s THEN 0 ELSE current[r]
      BY <1>5 DEF Release
    <2>4. SlotsAndHandlesAgree'
      BY <1>5, <2>2, <2>3, SMTT(30) DEF Release, SlotsAndHandlesAgree
    <2>5. QED
      BY <2>1, <2>4
  <1>6. ASSUME Tick PROVE IInv'
    BY <1>6 DEF Tick, SlotsAndHandlesAgree
  <1>7. CASE UNCHANGED vars
    BY <1>7 DEF vars, SlotsAndHandlesAgree
  <1>8. QED
    BY NextBySlot, <1>1, <1>2, <1>3, <1>4, <1>5, <1>6, <1>7

\* The inductive invariant holds in every reachable state.
THEOREM IInvHolds == Spec => []IInv
  BY InitEstablishes, StepPreserves, PTL DEF Spec

\* Type correctness of the coordinator's state (leases.py, _LeaseSlot and
\* the handle attributes).
THEOREM TypeCorrect == Spec => []TypeOK
  <1>1. IInv => TypeOK
    BY DEF IInv
  <1>2. QED
    BY <1>1, IInvHolds, PTL

\* Write authority: at most one handle of a slot says ACTIVE, and it carries
\* the newest token, for every number of tenants, tokens and clock ticks.
THEOREM ActiveIsNewest == Spec => []OnlyTheNewestHandleIsActive
  <1>1. IInv => OnlyTheNewestHandleIsActive
    BY DEF IInv, TypeOK, SlotsAndHandlesAgree, OnlyTheNewestHandleIsActive,
           Active, Disposition, Fences, NoHandle
  <1>2. QED
    BY <1>1, IInvHolds, PTL

-----------------------------------------------------------------------------
\* What each step does to the part of the state that decides who is ACTIVE.
\* A handle other than the one issued is left alone or disposed of.
LEMMA StepOnHandles ==
  ASSUME IInv, [Next]_vars, NEW s \in Slots, NEW f \in Fences,
         stored[s][f] # "unissued"
  PROVE  /\ now' \in Nat /\ now' >= now
         /\ \/ stored'[s][f] = stored[s][f]
            \/ stored'[s][f] \in {"RELEASED", "REPLACED"}
         /\ stored'[s][f] = "REPLACED" /\ stored[s][f] = "ACTIVE"
              => now >= expires[s][f]
         /\ \/ expires'[s][f] = expires[s][f]
            \/ stored[s][f] = "ACTIVE" /\ now < expires[s][f]
  <1> USE DurationPositive, BoundsAreNat DEF IInv, TypeOK, NoHandle
  <1>1. ASSUME NEW r \in Slots, Acquire(r)
        PROVE  /\ now' = now
               /\ stored'[s][f] = stored[s][f]
               /\ expires'[s][f] = expires[s][f]
    <2>1. <<s, f>> # <<r, nextFence[r]>>
      BY <1>1 DEF Acquire, Issue, SlotsAndHandlesAgree, Fences
    <2>2. QED
      BY <1>1, <2>1 DEF Acquire, Issue
  <1>2. ASSUME NEW r \in Slots, NEW e \in Fences, Replace(r, e)
        PROVE  /\ now' = now
               /\ stored'[s][f] = IF s = r /\ f = e THEN "REPLACED" ELSE stored[s][f]
               /\ s = r /\ f = e => now >= expires[s][f]
               /\ expires'[s][f] = expires[s][f]
    <2>1. <<s, f>> # <<r, nextFence[r]>>
      BY <1>2 DEF Replace, Issue, SlotsAndHandlesAgree, Fences
    <2>2. QED
      BY <1>2, <2>1 DEF Replace, ReplacementIsAuthorized, Issue
  <1>3. ASSUME NEW r \in Slots, NEW e \in Fences, Renew(r, e)
        PROVE  /\ now' = now
               /\ stored'[s][f] = stored[s][f]
               /\ \/ expires'[s][f] = expires[s][f]
                  \/ stored[s][f] = "ACTIVE" /\ now < expires[s][f]
    BY <1>3 DEF Renew, SlotsAndHandlesAgree
  <1>4. ASSUME NEW r \in Slots, NEW e \in Fences, RenewStale(r, e)
        PROVE  /\ now' = now
               /\ stored'[s][f] = IF s = r /\ f = e THEN "REPLACED" ELSE stored[s][f]
               /\ s = r /\ f = e => stored[s][f] # "ACTIVE"
               /\ expires'[s][f] = expires[s][f]
    BY <1>4 DEF RenewStale, SlotsAndHandlesAgree
  <1>5. ASSUME NEW r \in Slots, NEW e \in Fences, Release(r, e)
        PROVE  /\ now' = now
               /\ stored'[s][f] = IF s = r /\ f = e THEN "RELEASED" ELSE stored[s][f]
               /\ expires'[s][f] = expires[s][f]
    BY <1>5 DEF Release
  <1>6. ASSUME Tick
        PROVE  now' = now + 1 /\ UNCHANGED <<stored, expires>>
    BY <1>6 DEF Tick
  <1>7. CASE UNCHANGED vars
    BY <1>7 DEF vars
  <1>8. QED
    BY NextBySlot, <1>1, <1>2, <1>3, <1>4, <1>5, <1>6, <1>7 DEF Stored

\* A handle that is EXPIRED, RELEASED or REPLACED is never ACTIVE again.
THEOREM LossIsPermanent == Spec => LostIsLost
  <1>1. ASSUME IInv, [Next]_vars, NEW s \in Slots, NEW f \in Fences,
               Disposition(s, f) \in {"EXPIRED", "RELEASED", "REPLACED"}
        PROVE  ~Active(s, f)'
    <2>1. stored[s][f] # "unissued"
      BY <1>1 DEF Disposition
    <2>2. expires[s][f] \in Nat /\ now \in Nat
      BY <1>1 DEF IInv, TypeOK
    <2>3. QED
      BY <1>1, <2>1, <2>2, StepOnHandles DEF Active, Disposition
  <1>2. IInv /\ [Next]_vars
          => [\A s \in Slots, f \in Fences :
                Disposition(s, f) \in {"EXPIRED", "RELEASED", "REPLACED"}
                  => ~Active(s, f)']_vars
    BY <1>1
  <1>3. QED
    BY <1>2, IInvHolds, PTL DEF Spec, LostIsLost

\* Only time or its own release ends an active lease.
THEOREM ActiveIsNeverReplaced == Spec => NeverReplacedWhileActive
  <1>1. ASSUME IInv, [Next]_vars, NEW s \in Slots, NEW f \in Fences, Active(s, f)
        PROVE  Disposition(s, f)' # "REPLACED"
    <2>1. stored[s][f] = "ACTIVE" /\ ~(now >= expires[s][f])
      BY <1>1 DEF Disposition, Active
    <2>2. stored'[s][f] # "REPLACED"
      BY <1>1, <2>1, StepOnHandles
    <2>3. QED
      BY <2>2 DEF Disposition
  <1>2. IInv /\ [Next]_vars
          => [\A s \in Slots, f \in Fences :
                Active(s, f) => Disposition(s, f)' # "REPLACED"]_vars
    BY <1>1
  <1>3. QED
    BY <1>2, IInvHolds, PTL DEF Spec, NeverReplacedWhileActive

-----------------------------------------------------------------------------
(* The coordinator implements the promise of the lease ports.              *)

\* In the invariant's states the authority is the current handle's, in time.
LEMMA ActiveFenceIs ==
  ASSUME IInv, NEW s \in Slots
  PROVE  ActiveFence[s] =
           IF current[s] # NoHandle /\ now < expires[s][current[s]]
           THEN current[s] ELSE NoHandle
  <1> USE DEF NoHandle
  <1>1. ASSUME NEW f \in Fences
        PROVE  Active(s, f) <=> current[s] = f /\ now < expires[s][f]
    <2>1. now \in Nat /\ expires[s][f] \in Nat
      BY DEF IInv, TypeOK
    <2>2. stored[s][f] = "ACTIVE" <=> current[s] = f
      BY DEF IInv, SlotsAndHandlesAgree
    <2>3. QED
      BY <2>1, <2>2 DEF Active, Disposition
  <1>2. CASE \E f \in Fences : Active(s, f)
    <2>1. PICK f \in Fences : Active(s, f)
      BY <1>2
    <2>2. \A g \in Fences : Active(s, g) => g = f
      BY <1>1, <2>1
    <2>3. (CHOOSE g \in Fences : Active(s, g)) = f
      BY <2>1, <2>2
    <2>4. f # 0
      BY BoundsAreNat DEF Fences
    <2>5. QED
      BY <1>1, <1>2, <2>1, <2>3, <2>4 DEF ActiveFence
  <1>3. CASE ~ \E f \in Fences : Active(s, f)
    BY <1>1, <1>3 DEF ActiveFence, IInv, TypeOK
  <1>4. QED
    BY <1>2, <1>3

\* Every step is, for each slot, a grant, a loss or nothing.
LEMMA StepRefines ==
  ASSUME IInv, [Next]_vars, NEW s \in Slots
  PROVE  Authority!Grant(s) \/ Authority!Lose(s) \/ Authority!Keep(s)
  <1> DEFINE Held == IF current[s] # 0 /\ now < expires[s][current[s]]
                     THEN current[s] ELSE 0
  <1>1. IInv'
    BY StepPreserves
  <1>2. ActiveFence[s] = Held /\ ActiveFence'[s] = Held'
    <2>1. ActiveFence[s] = Held
      BY ActiveFenceIs DEF NoHandle
    <2>2. (ActiveFence[s] = Held)'
      BY <1>1, ActiveFenceIs, PTL DEF NoHandle
    <2>3. QED
      BY <2>1, <2>2
  <1>3. NewestFence[s] = nextFence[s] - 1 /\ NewestFence'[s] = nextFence'[s] - 1
    BY DEF NewestFence
  <1>4. SUFFICES \/ /\ Held = 0
                    /\ nextFence'[s] = nextFence[s] + 1
                    /\ Held' = nextFence[s]
                 \/ Held' = 0 /\ nextFence'[s] = nextFence[s]
                 \/ Held' = Held /\ nextFence'[s] = nextFence[s]
    <2> HIDE DEF Held
    <2>1. nextFence[s] \in Nat
      BY BoundsAreNat DEF IInv, TypeOK
    <2>2. ASSUME Held = 0, nextFence'[s] = nextFence[s] + 1, Held' = nextFence[s]
          PROVE  Authority!Grant(s)
      BY <1>2, <1>3, <2>1, <2>2 DEF Authority!Grant, Authority!Nobody
    <2>3. ASSUME Held' = 0, nextFence'[s] = nextFence[s]
          PROVE  Authority!Lose(s)
      BY <1>2, <1>3, <2>3 DEF Authority!Lose, Authority!Nobody
    <2>4. ASSUME Held' = Held, nextFence'[s] = nextFence[s]
          PROVE  Authority!Keep(s)
      BY <1>2, <1>3, <2>4 DEF Authority!Keep
    <2>5. QED
      BY <2>2, <2>3, <2>4
  <1> USE DurationPositive, BoundsAreNat DEF IInv, TypeOK, NoHandle, Fences
  <1>5. ASSUME NEW r \in Slots, NEW d \in [Slots -> [Fences -> Stored]], Issue(r, d),
               r = s => Held = 0
        PROVE  \/ /\ Held = 0
                  /\ nextFence'[s] = nextFence[s] + 1
                  /\ Held' = nextFence[s]
               \/ Held' = Held /\ nextFence'[s] = nextFence[s]
    BY <1>5 DEF Issue
  <1>6. ASSUME NEW r \in Slots, Acquire(r)
        PROVE  \/ /\ Held = 0
                  /\ nextFence'[s] = nextFence[s] + 1
                  /\ Held' = nextFence[s]
               \/ Held' = Held /\ nextFence'[s] = nextFence[s]
    <2>1. r = s => Held = 0
      BY <1>6 DEF Acquire
    <2>2. QED
      BY <1>5, <1>6, <2>1 DEF Acquire
  <1>7. ASSUME NEW r \in Slots, NEW e \in Fences, Replace(r, e)
        PROVE  \/ /\ Held = 0
                  /\ nextFence'[s] = nextFence[s] + 1
                  /\ Held' = nextFence[s]
               \/ Held' = Held /\ nextFence'[s] = nextFence[s]
    <2>1. r = s => Held = 0
      BY <1>7 DEF Replace, ReplacementIsAuthorized
    <2>2. [stored EXCEPT ![r][e] = "REPLACED"] \in [Slots -> [Fences -> Stored]]
      BY DEF Stored
    <2>3. QED
      BY <1>5, <1>7, <2>1, <2>2 DEF Replace
  <1>8. ASSUME NEW r \in Slots, NEW e \in Fences,
               Renew(r, e) \/ RenewStale(r, e) \/ Release(r, e)
        PROVE  (Held' = 0 \/ Held' = Held) /\ nextFence'[s] = nextFence[s]
    BY <1>8 DEF Renew, RenewStale, Release
  <1>9. ASSUME Tick \/ UNCHANGED vars
        PROVE  (Held' = 0 \/ Held' = Held) /\ nextFence'[s] = nextFence[s]
    BY <1>9 DEF Tick, vars
  <1>10. QED
    BY NextBySlot, <1>6, <1>7, <1>8, <1>9

\* The memory coordinator keeps the promise of the lease ports.
THEOREM MemoryLeasesImplementAuthority == Spec => ImplementsAuthority
  <1>1. Init => Authority!Init
    <2> SUFFICES ASSUME Init PROVE Authority!Init
      OBVIOUS
    <2>1. \A s \in Slots, f \in Fences : ~Active(s, f)
      BY DEF Init, Active, Disposition, Fences
    <2>2. NewestFence = [s \in Slots |-> 0]
      BY DEF Init, NewestFence
    <2>3. ActiveFence = [s \in Slots |-> 0]
      BY <2>1 DEF ActiveFence, NoHandle
    <2>4. QED
      BY <2>2, <2>3 DEF Authority!Init, Authority!Nobody
  <1>2. IInv /\ [Next]_vars => [Authority!Next]_(Authority!vars)
    BY StepRefines DEF Authority!Next
  <1>3. QED
    BY <1>1, <1>2, IInvHolds, PTL DEF Spec, ImplementsAuthority, Authority!Spec
=============================================================================
