------------------------ MODULE DecisionArbiterProofs ------------------------
(***************************************************************************)
(* Proofs about DecisionArbiter, for any number of callers, decisions,     *)
(* ticks, restarts and lease tokens.                                       *)
(*                                                                         *)
(* The calls between the writer lease and its release are one after the    *)
(* other, because the coordinator never takes a lease from a holder that   *)
(* merely ran out: a slot is free exactly when no call is on its way to    *)
(* release it.  So a call that read the journal under the lease is at the  *)
(* newest state until it appends itself, and what is appended replays.     *)
(*                                                                         *)
(* The last two sections are about what stands beside it: the SDK adapter, *)
(* for any turns, decisions and closers, and the coordinator of the leases *)
(* under callers of every kind.                                            *)
(***************************************************************************)
EXTENDS MCDecisionArbiter, MemoryLeasesProofs

\* The points of a call at which it holds the writer, the decision lease.
WithWriter == {"decision", "reread", "reload", "check", "restore", "open"}
                \cup Committing \cup Closing
WithDecision == WithWriter \ {"decision", "close_writer"}

Holds(c) == pc[c] \in WithWriter

OneCallHolds == \A c, d \in Callers : Holds(c) /\ Holds(d) => c = d

SlotsFollowCalls ==
  /\ current[Writer] # NoHandle <=> \E c \in Callers : Holds(c)
  /\ current[Decision] # NoHandle <=> \E c \in Callers : pc[c] \in WithDecision
  /\ \A s \in Slots : s \notin {Writer, Decision} => current[s] = NoHandle

\* A call that is past its checks may observe its turn, and one that has read
\* the journal under the lease has read all of it.
CallsAreFresh ==
  /\ \A c \in Callers : pc[c] = "writer" \/ Holds(c) => MayObserve(base[c], turn[c])
  /\ \A c \in Callers : pc[c] \in {"reload", "confirm_load"} => read[c] = Newest(journal)
  /\ \A c \in Callers : HoldsTicket(c) =>
       Newest(journal) = IF pc[c] = "swap" THEN Reduce(base[c], turn[c]) ELSE base[c]

CallsOK ==
  /\ pc \in [Callers -> Points]
  /\ turn \in [Callers -> Turns]
  /\ read \in [Callers -> States]
  /\ base \in [Callers -> States]
  /\ writer \in [Callers -> Fences \cup {NoHandle}]
  /\ decision \in [Callers -> Fences \cup {NoHandle}]
  /\ outcome \in [Callers -> Outcomes]
  /\ restarts \in 0 .. MaxRestarts

StoresOK ==
  /\ journal \in Seq(States)
  /\ snapshot \in States \cup {None}

AInv ==
  /\ IInv
  /\ CallsOK
  /\ StoresOK
  /\ OneCallHolds
  /\ SlotsFollowCalls
  /\ CallsAreFresh
  /\ JournalReplays
  /\ SnapshotIsJournaled

-----------------------------------------------------------------------------
(* The leases.                                                             *)

LEMMA TwoSlots ==
  /\ Writer \in Slots /\ Decision \in Slots /\ Writer # Decision
  BY TenantIsLeased DEF Writer, Decision, Slots, Kinds

LEMMA FencesAre == Fences \subseteq Nat /\ NoHandle \notin Fences
  BY BoundsAreNat DEF Fences, NoHandle

\* What a call does to the leases.
KeepsLeases(c) ==
  /\ UNCHANGED <<vars, writer, decision>>
  /\ \/ ~Holds(c) /\ pc'[c] \notin WithWriter
     \/ pc[c] \in WithDecision /\ pc'[c] \in WithDecision

TakesWriter(c) ==
  /\ ~Holds(c) /\ pc'[c] = "decision"
  /\ AcquireWriter(tenant)
  /\ writer' = [writer EXCEPT ![c] = nextFence[Writer]] /\ UNCHANGED decision

TakesDecision(c) ==
  /\ pc[c] = "decision" /\ pc'[c] = "reread"
  /\ AcquireDecision(tenant)
  /\ decision' = [decision EXCEPT ![c] = nextFence[Decision]] /\ UNCHANGED writer

Renews(c) ==
  /\ pc[c] \in {"renew_writer", "renew_decision"} /\ pc'[c] \in WithDecision
  /\ \E s \in {Writer, Decision} : Renew(s, current[s])
  /\ UNCHANGED <<writer, decision>>

GivesDecision(c) ==
  /\ pc[c] = "close_decision" /\ pc'[c] = "close_writer"
  /\ Release(Decision, current[Decision])
  /\ decision' = [decision EXCEPT ![c] = NoHandle] /\ UNCHANGED writer

GivesWriter(c) ==
  /\ pc[c] \in {"decision", "close_writer"} /\ pc'[c] = "idle"
  /\ Release(Writer, current[Writer])
  /\ writer' = [writer EXCEPT ![c] = NoHandle] /\ UNCHANGED decision

LeaseStep(c) ==
  /\ \A d \in Callers : d # c => pc'[d] = pc[d]
  /\ \/ KeepsLeases(c) \/ TakesWriter(c) \/ TakesDecision(c) \/ Renews(c)
     \/ GivesDecision(c) \/ GivesWriter(c)

LEMMA GotoMoves ==
  ASSUME CallsOK, NEW c \in Callers, NEW from, NEW to, Goto(c, from, to)
  PROVE  pc[c] = from /\ pc'[c] = to /\ \A d \in Callers : d # c => pc'[d] = pc[d]
  BY DEF Goto, CallsOK

LEMMA CallsMoveLeases ==
  ASSUME CallsOK, NEW c \in Callers, Call(c)
  PROVE  LeaseStep(c)
  <1> USE DEF Raise, RaiseClosing, WithWriter, WithDecision, Committing, Closing
  <1>1. CASE Begin(c) \/ Load(c) \/ Read(c)
    <2>1. /\ UNCHANGED <<vars, writer, decision>>
          /\ \E from \in {"idle", "load", "read"}, to \in {"idle", "load", "read", "writer"} :
               Goto(c, from, to)
      BY <1>1 DEF Begin, Load, Read, ReadJournal
    <2>2. QED
      BY <2>1, GotoMoves DEF LeaseStep, KeepsLeases, Holds
  <1>2. CASE AcquireWriterLease(c)
    <2>1. CASE Goto(c, "writer", "decision")
      BY <1>2, <2>1, GotoMoves DEF AcquireWriterLease, LeaseStep, TakesWriter, Holds
    <2>2. CASE Goto(c, "writer", "idle")
      BY <1>2, <2>2, GotoMoves DEF AcquireWriterLease, LeaseStep, KeepsLeases, Holds
    <2>3. QED
      BY <1>2, <2>1, <2>2 DEF AcquireWriterLease
  <1>3. CASE DecisionRefused(c)
    BY <1>3, GotoMoves DEF DecisionRefused, LeaseStep, GivesWriter, Release
  <1>4. CASE AcquireDecisionLease(c)
    BY <1>4, GotoMoves DEF AcquireDecisionLease, LeaseStep, TakesDecision
  <1>5. CASE Reread(c) \/ Reload(c) \/ CheckSnapshot(c) \/ Restore(c) \/ CloseTicket(c)
             \/ BeginCommit(c) \/ Confirm(c) \/ ConfirmLoad(c) \/ AppendToJournal(c)
             \/ SwapSnapshot(c)
    <2>1. UNCHANGED <<vars, writer, decision>>
      BY <1>5 DEF Reread, ReadJournal, Reload, CheckSnapshot, Restore, CloseTicket,
                  BeginCommit, Confirm, ConfirmLoad, AppendToJournal, SwapSnapshot
    <2>2. \E from, to \in WithDecision : Goto(c, from, to)
      BY <1>5 DEF Reread, ReadJournal, Reload, CheckSnapshot, Restore, CloseTicket,
                  BeginCommit, Confirm, ConfirmLoad, AppendToJournal, SwapSnapshot
    <2>3. QED
      BY <2>1, <2>2, GotoMoves DEF LeaseStep, KeepsLeases
  <1>6. CASE RenewWriter(c) \/ RenewDecision(c)
    <2>1. PICK s \in {Writer, Decision}, f \in {writer[c], decision[c]},
               from \in {"renew_writer", "renew_decision"},
               to \in {"renew_decision", "confirm"} : RenewLease(c, s, f, from, to)
      BY <1>6 DEF RenewWriter, RenewDecision
    <2>2. CASE Goto(c, from, to) /\ Renew(s, f)
      BY <2>1, <2>2, GotoMoves DEF RenewLease, LeaseStep, Renews, Renew
    <2>3. CASE Goto(c, from, "close_decision") /\ UNCHANGED vars
      BY <2>1, <2>3, GotoMoves DEF RenewLease, LeaseStep, KeepsLeases
    <2>4. QED
      BY <2>1, <2>2, <2>3 DEF RenewLease
  <1>7. CASE ReleaseDecision(c)
    BY <1>7, GotoMoves DEF ReleaseDecision, LeaseStep, GivesDecision, Release
  <1>8. CASE ReleaseWriter(c)
    BY <1>8, GotoMoves DEF ReleaseWriter, LeaseStep, GivesWriter, Release
  <1>9. QED
    BY <1>1, <1>2, <1>3, <1>4, <1>5, <1>6, <1>7, <1>8 DEF Call
\* What the steps of the coordinator do to its slots.
LEMMA SlotsMove ==
  ASSUME TypeOK, NEW s \in Slots
  PROVE  /\ Acquire(s) => /\ current[s] = NoHandle /\ current'[s] # NoHandle
                          /\ nextFence[s] \in Fences
                          /\ \A r \in Slots : r # s => current'[r] = current[r]
         /\ Release(s, current[s]) =>
                          /\ current'[s] = NoHandle
                          /\ \A r \in Slots : r # s => current'[r] = current[r]
         /\ Renew(s, current[s]) => current' = current
  BY FencesAre DEF TypeOK, Acquire, Issue, Release, Renew

LEMMA SlotsStay ==
  ASSUME TypeOK, CallsOK, OneCallHolds, SlotsFollowCalls, NEW c \in Callers, LeaseStep(c)
  PROVE  OneCallHolds' /\ SlotsFollowCalls'
  <1> USE TwoSlots DEF Holds, WithDecision, WithWriter, Committing, Closing
  <1>0. \A d \in Callers : d # c => pc'[d] = pc[d]
    BY DEF LeaseStep
  <1>1. CASE KeepsLeases(c)
    <2>1. current' = current
      BY <1>1 DEF KeepsLeases, vars
    <2>2. \A d \in Callers : /\ pc'[d] \in WithWriter <=> pc[d] \in WithWriter
                             /\ pc'[d] \in WithDecision <=> pc[d] \in WithDecision
      BY <1>0, <1>1 DEF KeepsLeases
    <2>3. QED
      BY <2>1, <2>2 DEF OneCallHolds, SlotsFollowCalls
  <1>2. CASE TakesWriter(c)
    <2>1. /\ current[Writer] = NoHandle /\ current'[Writer] # NoHandle
          /\ \A r \in Slots : r # Writer => current'[r] = current[r]
      BY <1>2, SlotsMove DEF TakesWriter, AcquireWriter, Writer
    <2>2. \A d \in Callers : ~Holds(d)
      BY <2>1 DEF SlotsFollowCalls
    <2>3. pc'[c] = "decision" /\ \A d \in Callers : d # c => ~Holds(d)'
      BY <1>0, <1>2, <2>2 DEF TakesWriter
    <2>4. QED
      BY <2>1, <2>2, <2>3 DEF OneCallHolds, SlotsFollowCalls
  <1>3. CASE TakesDecision(c)
    <2>1. /\ current'[Decision] # NoHandle
          /\ \A r \in Slots : r # Decision => current'[r] = current[r]
      BY <1>3, SlotsMove DEF TakesDecision, AcquireDecision, Decision
    <2>2. \A d \in Callers : /\ pc'[d] \in WithWriter <=> pc[d] \in WithWriter
                             /\ d # c => (pc'[d] \in WithDecision <=> pc[d] \in WithDecision)
      BY <1>0, <1>3 DEF TakesDecision
    <2>3. pc'[c] \in WithDecision
      BY <1>3 DEF TakesDecision
    <2>4. QED
      BY <2>1, <2>2, <2>3 DEF OneCallHolds, SlotsFollowCalls
  <1>4. CASE Renews(c)
    <2>1. current' = current
      BY <1>4, SlotsMove DEF Renews
    <2>2. \A d \in Callers : /\ pc'[d] \in WithWriter <=> pc[d] \in WithWriter
                             /\ pc'[d] \in WithDecision <=> pc[d] \in WithDecision
      BY <1>0, <1>4 DEF Renews
    <2>3. QED
      BY <2>1, <2>2 DEF OneCallHolds, SlotsFollowCalls
  <1>5. CASE GivesDecision(c)
    <2>1. /\ current'[Decision] = NoHandle
          /\ \A r \in Slots : r # Decision => current'[r] = current[r]
      BY <1>5, SlotsMove DEF GivesDecision
    <2>2. \A d \in Callers : pc'[d] \in WithWriter <=> pc[d] \in WithWriter
      BY <1>0, <1>5 DEF GivesDecision
    <2>3. \A d \in Callers : pc'[d] \notin WithDecision
      BY <1>0, <1>5 DEF GivesDecision, OneCallHolds
    <2>4. QED
      BY <2>1, <2>2, <2>3 DEF OneCallHolds, SlotsFollowCalls
  <1>6. CASE GivesWriter(c)
    <2>1. /\ current'[Writer] = NoHandle
          /\ \A r \in Slots : r # Writer => current'[r] = current[r]
      BY <1>6, SlotsMove DEF GivesWriter
    <2>2. \A d \in Callers : ~Holds(d)'
      BY <1>0, <1>6 DEF GivesWriter, OneCallHolds
    <2>3. \A d \in Callers : pc[d] \notin WithDecision
      BY <1>6 DEF GivesWriter, OneCallHolds
    <2>4. \A d \in Callers : pc'[d] \notin WithDecision
      BY <2>2
    <2>5. QED
      BY <2>1, <2>2, <2>3, <2>4 DEF OneCallHolds, SlotsFollowCalls
  <1>7. QED
    BY <1>1, <1>2, <1>3, <1>4, <1>5, <1>6 DEF LeaseStep

\* A call moves the coordinator by one of its steps, or not at all.
LEMMA CallsStepLeases ==
  ASSUME TypeOK, SlotsFollowCalls, NEW c \in Callers, LeaseStep(c)
  PROVE  [Next]_vars
  <1>1. ASSUME NEW s \in {Writer, Decision}, current[s] # NoHandle,
               Release(s, current[s]) \/ Renew(s, current[s])
        PROVE  Next
    <2>1. s \in Slots /\ current[s] \in Fences
      BY <1>1, TwoSlots DEF TypeOK
    <2>2. QED
      BY <1>1, <2>1 DEF Next
  <1>2. CASE KeepsLeases(c)
    BY <1>2 DEF KeepsLeases
  <1>3. CASE TakesWriter(c) \/ TakesDecision(c)
    BY <1>3, TenantIsLeased DEF TakesWriter, TakesDecision, Next
  <1>4. CASE Renews(c)
    <2>1. current[Writer] # NoHandle /\ current[Decision] # NoHandle
      BY <1>4 DEF Renews, SlotsFollowCalls, Holds, WithDecision, WithWriter, Committing
    <2>2. QED
      BY <1>1, <1>4, <2>1 DEF Renews
  <1>5. CASE GivesDecision(c)
    <2>1. current[Decision] # NoHandle
      BY <1>5 DEF GivesDecision, SlotsFollowCalls, WithDecision, WithWriter, Closing
    <2>2. QED
      BY <1>1, <1>5, <2>1 DEF GivesDecision
  <1>6. CASE GivesWriter(c)
    <2>1. current[Writer] # NoHandle
      BY <1>6 DEF GivesWriter, SlotsFollowCalls, Holds, WithWriter, Closing
    <2>2. QED
      BY <1>1, <1>6, <2>1 DEF GivesWriter
  <1>7. QED
    BY <1>2, <1>3, <1>4, <1>5, <1>6 DEF LeaseStep
-----------------------------------------------------------------------------
(* The types of the calls and the stores.                                  *)

LEMMA HandlesTyped ==
  ASSUME TypeOK, CallsOK, NEW c \in Callers, LeaseStep(c)
  PROVE  /\ writer' \in [Callers -> Fences \cup {NoHandle}]
         /\ decision' \in [Callers -> Fences \cup {NoHandle}]
  BY TwoSlots, SlotsMove
     DEF CallsOK, LeaseStep, KeepsLeases, TakesWriter, TakesDecision, Renews, GivesDecision,
         GivesWriter, AcquireWriter, AcquireDecision, Writer, Decision

LEMMA ReducedState ==
  ASSUME NEW s \in States, NEW t \in Turns
  PROVE  /\ Reduce(s, t) \in States /\ Reduce(s, t) # <<>>
         /\ Len(Reduce(s, t)) = Len(s) + 1 /\ Len(s) \in Nat
         /\ Last(Reduce(s, t)) = t /\ Front(Reduce(s, t)) = s
  <1>1. /\ Append(s, t) \in Seq(Turns) /\ Len(Append(s, t)) = Len(s) + 1 /\ Len(s) \in Nat
        /\ Append(s, t)[Len(s) + 1] = t
    BY DEF States
  <1>2. SubSeq(Append(s, t), 1, Len(s)) = s
    BY <1>1 DEF States
  <1>3. QED
    BY <1>1, <1>2 DEF States, Reduce, Last, Front

\* The points and the results a call moves between.
LEMMA GotoTyped ==
  ASSUME CallsOK, NEW c \in Callers, NEW from, NEW to \in Points, Goto(c, from, to)
  PROVE  pc' \in [Callers -> Points]
  BY DEF CallsOK, Goto

LEMMA RaiseTyped ==
  ASSUME CallsOK, NEW c \in Callers, NEW from, NEW error \in Outcomes,
         Raise(c, from, error) \/ RaiseClosing(c, from, error)
  PROVE  pc' \in [Callers -> Points] /\ outcome' \in [Callers -> Outcomes]
  BY DEF CallsOK, Raise, RaiseClosing, Goto, Points, Closing

Moved == pc' \in [Callers -> Points] /\ outcome' \in [Callers -> Outcomes]

LEMMA CallsMove ==
  ASSUME CallsOK, NEW c \in Callers, Call(c)
  PROVE  Moved
  <1> USE DEF Points, Acquiring, Committing, Closing
  <1>0. outcome \in [Callers -> Outcomes]
    BY DEF CallsOK
  <1>1. CASE Begin(c)
    BY <1>0, <1>1, GotoTyped DEF Begin, Moved, Outcomes
  <1>2. CASE Read(c) \/ Reread(c) \/ Confirm(c)
    BY <1>0, <1>2, GotoTyped DEF Read, Reread, Confirm, ReadJournal, Moved
  <1>3. CASE Load(c)
    <2>1. CASE \E error \in {"corrupt", "duplicate", "rejected"} : Raise(c, "load", error)
      BY <2>1, RaiseTyped DEF Moved, Outcomes
    <2>2. CASE Goto(c, "load", "writer") /\ UNCHANGED outcome
      BY <1>0, <2>2, GotoTyped DEF Moved
    <2>3. QED
      BY <1>3, <2>1, <2>2 DEF Load
  <1>4. CASE AcquireWriterLease(c) \/ DecisionRefused(c) \/ AcquireDecisionLease(c)
    <2>1. CASE \E from \in {"writer", "decision"} : Raise(c, from, "unavailable")
      BY <2>1, RaiseTyped DEF Moved, Outcomes
    <2>2. CASE (Goto(c, "writer", "decision") \/ Goto(c, "decision", "reread")) /\ UNCHANGED outcome
      BY <1>0, <2>2, GotoTyped DEF Moved
    <2>3. QED
      BY <1>4, <2>1, <2>2 DEF AcquireWriterLease, DecisionRefused, AcquireDecisionLease
  <1>5. CASE Reload(c) \/ ConfirmLoad(c)
    <2>1. CASE \E from \in {"reload", "confirm_load"}, error \in {"stale", "corrupt"} :
                 RaiseClosing(c, from, error)
      BY <2>1, RaiseTyped DEF Moved, Outcomes
    <2>2. CASE \E from \in {"reload", "confirm_load"}, to \in {"check", "append"} :
                 Goto(c, from, to) /\ UNCHANGED outcome
      BY <1>0, <2>2, GotoTyped DEF Moved
    <2>3. QED
      BY <1>5, <2>1, <2>2 DEF Reload, ConfirmLoad, RevisionError
  <1>6. CASE CheckSnapshot(c) \/ Restore(c)
    <2>1. CASE RaiseClosing(c, "restore", "stale")
      BY <2>1, RaiseTyped DEF Moved, Outcomes
    <2>2. CASE \E from \in {"check", "restore"} : Goto(c, from, "open") /\ outcome' = [outcome EXCEPT ![c] = "ticket"]
      BY <1>0, <2>2, GotoTyped DEF Moved, Outcomes
    <2>3. CASE Goto(c, "check", "restore") /\ UNCHANGED outcome
      BY <1>0, <2>3, GotoTyped DEF Moved
    <2>4. QED
      BY <1>6, <2>1, <2>2, <2>3 DEF CheckSnapshot, Restore
  <1>7. CASE CloseTicket(c) \/ BeginCommit(c) \/ RenewWriter(c) \/ RenewDecision(c)
    <2>1. CASE \E from \in {"open", "renew_writer", "renew_decision"}, error \in {"stale", "closed"} :
                 RaiseClosing(c, from, error)
      BY <2>1, RaiseTyped DEF Moved, Outcomes
    <2>2. CASE \E from \in {"open", "renew_writer", "renew_decision"},
                  to \in {"renew_writer", "renew_decision", "confirm"} :
                 Goto(c, from, to) /\ UNCHANGED outcome
      BY <1>0, <2>2, GotoTyped DEF Moved
    <2>3. QED
      BY <1>7, <2>1, <2>2 DEF CloseTicket, BeginCommit, RenewWriter, RenewDecision, RenewLease
  <1>8. CASE AppendToJournal(c) \/ SwapSnapshot(c)
    <2>1. CASE \E from \in {"append", "swap"}, error \in {"rejected", "committed", "conflict"} :
                 RaiseClosing(c, from, error)
      BY <2>1, RaiseTyped DEF Moved, Outcomes
    <2>2. CASE Goto(c, "append", "swap") /\ UNCHANGED outcome
      BY <1>0, <2>2, GotoTyped DEF Moved
    <2>3. QED
      BY <1>8, <2>1, <2>2 DEF AppendToJournal, SwapSnapshot
  <1>9. CASE ReleaseDecision(c) \/ ReleaseWriter(c)
    BY <1>0, <1>9, GotoTyped DEF ReleaseDecision, ReleaseWriter, Moved
  <1>10. QED
    BY <1>1, <1>2, <1>3, <1>4, <1>5, <1>6, <1>7, <1>8, <1>9 DEF Call
-----------------------------------------------------------------------------
(* The journal.                                                            *)

LEMMA NewestIs ==
  ASSUME StoresOK, Replays(journal)
  PROVE  /\ Newest(journal) \in States
         /\ Len(Newest(journal)) = Len(journal)
         /\ Newest(journal) = Before(journal, Len(journal) + 1)
         /\ journal = <<>> => Newest(journal) = <<>>
         /\ journal # <<>> => Newest(journal) \in Range(journal)
  <1>1. Len(journal) \in Nat /\ (journal = <<>> <=> Len(journal) = 0)
    BY DEF StoresOK
  <1>2. CASE journal = <<>>
    BY <1>1, <1>2 DEF Newest, Before, States
  <1>3. CASE journal # <<>>
    <2>1. /\ Len(journal) \in DOMAIN journal /\ Newest(journal) = journal[Len(journal)]
          /\ journal[Len(journal)] \in States
      BY <1>1, <1>3 DEF Newest, Last, StoresOK
    <2>2. Len(journal[Len(journal)]) = Len(journal)
      BY <2>1 DEF Replays
    <2>3. QED
      BY <1>1, <1>3, <2>1, <2>2 DEF Before, Range
  <1>4. QED
    BY <1>2, <1>3

LEMMA AppendAdds ==
  ASSUME NEW S, NEW s \in Seq(S), NEW e \in S
  PROVE  /\ Append(s, e) \in Seq(S)
         /\ DOMAIN Append(s, e) = DOMAIN s \cup {Len(s) + 1}
         /\ Append(s, e)[Len(s) + 1] = e
         /\ \A i \in DOMAIN s : Append(s, e)[i] = s[i] /\ i \in Nat /\ i # Len(s) + 1
         /\ Len(s) \in Nat
  OBVIOUS

\* A decision that is new to the newest state and not older than it extends
\* the journal to one that replays.
LEMMA JournalGrows ==
  ASSUME StoresOK, JournalReplays, NEW s \in States, NEW t \in Turns,
         s = Newest(journal), MayObserve(s, t), t.id \notin Committed(s),
         journal' = Append(journal, Reduce(s, t))
  PROVE  JournalReplays' /\ journal' \in Seq(States)
  <1> DEFINE n == Len(journal)
  <1>1. /\ n \in Nat /\ journal' \in Seq(States) /\ DOMAIN journal' = DOMAIN journal \cup {n + 1}
        /\ journal'[n + 1] = Reduce(s, t)
        /\ \A i \in DOMAIN journal : journal'[i] = journal[i] /\ i \in Nat /\ i # n + 1
    BY ReducedState, AppendAdds DEF StoresOK
  <1>2. Len(s) = n /\ s = Before(journal, n + 1)
    BY NewestIs DEF JournalReplays
  <1>3. ASSUME NEW i \in DOMAIN journal'
        PROVE  Before(journal', i) = Before(journal, i)
    <2>1. i # 1 => i - 1 \in DOMAIN journal
      BY <1>1, <1>3 DEF StoresOK
    <2>2. QED
      BY <1>1, <2>1 DEF Before
  <1>4. LatestTick(s) <= LatestTick(Reduce(s, t))
    BY ReducedState DEF MayObserve, LatestTick, States, Turns, Last
  <1>5. ASSUME NEW i \in DOMAIN journal'
        PROVE  /\ Len(journal'[i]) = i
               /\ Front(journal'[i]) = Before(journal', i)
               /\ MayObserve(Before(journal', i), Last(journal'[i]))
               /\ Last(journal'[i]).id \notin Committed(Before(journal', i))
               /\ LatestTick(Before(journal', i)) <= LatestTick(journal'[i])
    <2>1. CASE i \in DOMAIN journal
      BY <1>1, <1>3, <2>1 DEF JournalReplays, Replays
    <2>2. CASE i = n + 1
      BY <1>1, <1>2, <1>3, <1>4, <2>2, ReducedState
    <2>3. QED
      BY <1>1, <2>1, <2>2
  <1>6. QED
    BY <1>1, <1>5 DEF JournalReplays, Replays

\* A snapshot that lags behind the journal fits it.
LEMMA JournaledSnapshotFits ==
  ASSUME StoresOK, Replays(journal), SnapshotIsJournaled
  PROVE  SnapshotFits(snapshot, Newest(journal))
  <1>1. /\ Len(Newest(journal)) = Len(journal) /\ Len(journal) \in Nat
        /\ Newest(journal) \in States
    BY NewestIs DEF StoresOK
  <1>2. CASE snapshot = None
    BY <1>1, <1>2 DEF SnapshotFits, Generation
  <1>3. CASE snapshot # None /\ snapshot = <<>>
    BY <1>1, <1>3 DEF SnapshotFits, Generation, States
  <1>4. CASE snapshot # None /\ snapshot \in Range(journal)
    <2>1. PICK i \in DOMAIN journal : snapshot = journal[i]
      BY <1>4 DEF Range
    <2>2. Len(snapshot) = i /\ i \in 1 .. Len(journal)
      BY <2>1 DEF Replays, StoresOK
    <2>3. CASE i = Len(journal)
      BY <2>1, <2>2, <2>3 DEF SnapshotFits, Newest, Last
    <2>4. CASE i # Len(journal)
      BY <1>1, <1>4, <2>2, <2>4 DEF SnapshotFits, Generation
    <2>5. QED
      BY <2>3, <2>4
  <1>5. QED
    BY <1>2, <1>3, <1>4 DEF SnapshotIsJournaled
-----------------------------------------------------------------------------
(* What a call does to its own record and to the stores.                   *)

Fresh(c) ==
  /\ pc[c] = "writer" \/ Holds(c) => MayObserve(base[c], turn[c])
  /\ pc[c] \in {"reload", "confirm_load"} => read[c] = Newest(journal)
  /\ HoldsTicket(c) =>
       Newest(journal) = IF pc[c] = "swap" THEN Reduce(base[c], turn[c]) ELSE base[c]

LEMMA FreshCalls ==
  /\ CallsAreFresh <=> \A c \in Callers : Fresh(c)
  /\ CallsAreFresh' <=> \A c \in Callers : Fresh(c)'
  BY DEF CallsAreFresh, Fresh

\* The journal grows by the decision of a call whose base it ends with.
Appends(c) ==
  /\ pc[c] = "append" /\ pc'[c] = "swap"
  /\ MayAppend(c)
  /\ journal' = Append(journal, Reduce(base[c], turn[c]))
  /\ UNCHANGED <<snapshot, turn, read, base>>

\* The snapshot becomes the state the call is at.
Snapshots(c) ==
  /\ \/ pc[c] = "restore" /\ pc'[c] = "open" /\ snapshot' = base[c]
     \/ pc[c] = "swap" /\ pc'[c] = "close_decision" /\ snapshot' = Reduce(base[c], turn[c])
  /\ UNCHANGED <<journal, turn, read, base>>

\* The call begins, reads, or keeps what it read.
KeepsStores(c) ==
  /\ UNCHANGED <<journal, snapshot>>
  /\ \A d \in Callers : d # c =>
       turn'[d] = turn[d] /\ read'[d] = read[d] /\ base'[d] = base[d]
  /\ \/ pc'[c] \in {"idle", "read", "load"}
     \/ /\ <<pc[c], pc'[c]>> \in {<<"reread", "reload">>, <<"confirm", "confirm_load">>}
        /\ read'[c] = Newest(journal)
        /\ UNCHANGED <<turn, base>>
     \/ /\ pc'[c] = "writer" /\ pc[c] = "load"
        /\ MayObserve(read[c], turn[c]) /\ base'[c] = read[c]
        /\ UNCHANGED turn
     \/ /\ pc[c] = "reload" /\ pc'[c] = "check" /\ read[c] = base[c]
        /\ UNCHANGED <<turn, read, base>>
     \/ /\ pc[c] = "writer" \/ Holds(c)
        /\ pc'[c] \in Closing \cup {"decision", "reread"}
        /\ UNCHANGED <<turn, read, base>>
     \/ /\ HoldsTicket(c) /\ HoldsTicket(c)' /\ pc[c] # "swap"
        /\ pc'[c] \notin {"swap", "confirm_load"}
        /\ UNCHANGED <<turn, read, base>>

LEMMA ReadsNewest ==
  ASSUME CallsOK, NEW c \in Callers, NEW from, NEW to, ReadJournal(c, from, to)
  PROVE  /\ pc[c] = from /\ pc'[c] = to /\ read'[c] = Newest(journal)
         /\ \A d \in Callers : d # c => read'[d] = read[d]
         /\ UNCHANGED <<journal, snapshot, turn, base>>
  BY GotoMoves DEF ReadJournal, CallsOK

LEMMA CallsMoveStores ==
  ASSUME CallsOK, NEW c \in Callers, Call(c)
  PROVE  Appends(c) \/ Snapshots(c) \/ KeepsStores(c)
  <1> USE DEF Raise, RaiseClosing, HoldsTicket, Holds, WithWriter, Committing, Closing
  <1>1. CASE Begin(c)
    BY <1>1, GotoMoves DEF Begin, KeepsStores, CallsOK
  <1>2. CASE Read(c) \/ Reread(c) \/ Confirm(c)
    BY <1>2, ReadsNewest DEF Read, Reread, Confirm, KeepsStores
  <1>3. CASE Load(c)
    <2>1. CASE Goto(c, "load", "idle") /\ UNCHANGED base
      BY <1>3, <2>1, GotoMoves DEF Load, KeepsStores
    <2>2. CASE Goto(c, "load", "writer") /\ MayObserve(read[c], turn[c]) /\ base' = [base EXCEPT ![c] = read[c]]
      BY <1>3, <2>2, GotoMoves DEF Load, KeepsStores, CallsOK
    <2>3. QED
      BY <1>3, <2>1, <2>2 DEF Load
  <1>4. CASE AcquireWriterLease(c) \/ DecisionRefused(c) \/ AcquireDecisionLease(c)
             \/ ReleaseDecision(c) \/ ReleaseWriter(c)
    BY <1>4, GotoMoves DEF AcquireWriterLease, DecisionRefused, AcquireDecisionLease,
              ReleaseDecision, ReleaseWriter, KeepsStores
  <1>5. CASE Reload(c) \/ ConfirmLoad(c)
    BY <1>5, GotoMoves DEF Reload, ConfirmLoad, KeepsStores
  <1>6. CASE CheckSnapshot(c) \/ CloseTicket(c) \/ BeginCommit(c)
    BY <1>6, GotoMoves DEF CheckSnapshot, CloseTicket, BeginCommit, KeepsStores
  <1>7. CASE RenewWriter(c) \/ RenewDecision(c)
    BY <1>7, GotoMoves DEF RenewWriter, RenewDecision, RenewLease, KeepsStores
  <1>8. CASE Restore(c) \/ SwapSnapshot(c)
    BY <1>8, GotoMoves DEF Restore, SwapSnapshot, Snapshots, KeepsStores
  <1>9. CASE AppendToJournal(c)
    BY <1>9, GotoMoves DEF AppendToJournal, Appends, KeepsStores
  <1>10. QED
    BY <1>1, <1>2, <1>3, <1>4, <1>5, <1>6, <1>7, <1>8, <1>9 DEF Call

LEMMA CallsTyped ==
  ASSUME TypeOK, CallsOK, StoresOK, Replays(journal), NEW c \in Callers, Call(c)
  PROVE  CallsOK'
  <1>1. Moved /\ LeaseStep(c)
    BY CallsMove, CallsMoveLeases
  <1>2. Newest(journal) \in States
    BY NewestIs
  <1>3. turn' \in [Callers -> Turns] /\ read' \in [Callers -> States]
          /\ base' \in [Callers -> States] /\ restarts' = restarts
    <2> USE DEF CallsOK
    <2>1. CASE Begin(c)
      BY <2>1 DEF Begin
    <2>2. CASE Read(c) \/ Reread(c) \/ Confirm(c)
      BY <1>2, <2>2 DEF Read, Reread, Confirm, ReadJournal
    <2>3. CASE Load(c)
      BY <2>3 DEF Load
    <2>4. CASE AcquireWriterLease(c) \/ DecisionRefused(c) \/ AcquireDecisionLease(c)
             \/ ReleaseDecision(c) \/ ReleaseWriter(c) \/ Reload(c) \/ ConfirmLoad(c)
      BY <2>4 DEF AcquireWriterLease, DecisionRefused, AcquireDecisionLease,
              ReleaseDecision, ReleaseWriter, Reload, ConfirmLoad
    <2>5. CASE CheckSnapshot(c) \/ CloseTicket(c) \/ BeginCommit(c) \/ RenewWriter(c)
             \/ RenewDecision(c) \/ Restore(c) \/ SwapSnapshot(c) \/ AppendToJournal(c)
      BY <2>5 DEF CheckSnapshot, CloseTicket, BeginCommit, RenewWriter, RenewDecision,
              RenewLease, Restore, SwapSnapshot, AppendToJournal
    <2>6. QED
      BY <2>1, <2>2, <2>3, <2>4, <2>5 DEF Call
  <1>4. QED
    BY <1>1, <1>3, HandlesTyped DEF CallsOK, Moved
-----------------------------------------------------------------------------
(* The inductive step.                                                     *)

LEMMA StoresStay ==
  ASSUME CallsOK, StoresOK, CallsAreFresh, JournalReplays, SnapshotIsJournaled,
         NEW c \in Callers, Call(c)
  PROVE  StoresOK' /\ JournalReplays' /\ SnapshotIsJournaled'
  <1> USE DEF Holds, HoldsTicket, WithWriter, Committing
  <1>0. base[c] \in States /\ turn[c] \in Turns
    BY DEF CallsOK
  <1>1. CASE KeepsStores(c)
    BY <1>1 DEF KeepsStores, StoresOK, JournalReplays, Replays, Before, SnapshotIsJournaled
  <1>2. CASE Snapshots(c)
    <2>1. snapshot' = Newest(journal) /\ journal' = journal
      BY <1>2 DEF Snapshots, CallsAreFresh
    <2>2. snapshot' \in States /\ (snapshot' = <<>> \/ snapshot' \in Range(journal))
      BY <2>1, NewestIs DEF JournalReplays, Newest
    <2>3. QED
      BY <2>1, <2>2 DEF StoresOK, JournalReplays, Replays, Before, SnapshotIsJournaled
  <1>3. CASE Appends(c)
    <2>1. /\ base[c] = Newest(journal) /\ MayObserve(base[c], turn[c])
          /\ turn[c].id \notin Committed(base[c])
          /\ journal' = Append(journal, Reduce(base[c], turn[c])) /\ snapshot' = snapshot
      BY <1>3 DEF Appends, MayAppend, CallsAreFresh
    <2>2. JournalReplays' /\ journal' \in Seq(States)
      BY <1>0, <2>1, JournalGrows
    <2>3. \A i \in DOMAIN journal : i \in DOMAIN journal' /\ journal'[i] = journal[i]
      BY <1>0, <2>1, ReducedState, AppendAdds DEF StoresOK
    <2>4. QED
      BY <2>1, <2>2, <2>3 DEF StoresOK, SnapshotIsJournaled, Range
  <1>4. QED
    BY <1>1, <1>2, <1>3, CallsMoveStores

LEMMA CallsStayFresh ==
  ASSUME CallsOK, StoresOK, OneCallHolds, CallsAreFresh, NEW c \in Callers, Call(c)
  PROVE  CallsAreFresh'
  <1> USE DEF Holds, HoldsTicket, WithWriter, Committing, Closing
  <1>1. \A d \in Callers : d # c => pc'[d] = pc[d]
    BY CallsMoveLeases DEF LeaseStep
  <1>2. CASE KeepsStores(c)
    <2>1. ASSUME NEW d \in Callers, d # c
          PROVE  Fresh(d)'
      BY <1>1, <1>2, <2>1, FreshCalls DEF KeepsStores, Fresh, Newest
    <2>2. Fresh(c)'
      <3>1. Fresh(c) /\ Newest(journal') = Newest(journal)
        BY <1>2, FreshCalls DEF KeepsStores
      <3>2. CASE pc'[c] \in {"idle", "read", "load"}
        BY <3>2 DEF Fresh
      <3>3. CASE <<pc[c], pc'[c]>> \in {<<"reread", "reload">>, <<"confirm", "confirm_load">>}
                 /\ read'[c] = Newest(journal) /\ UNCHANGED <<turn, base>>
        BY <3>1, <3>3 DEF Fresh
      <3>4. CASE pc'[c] = "writer" /\ MayObserve(read[c], turn[c]) /\ base'[c] = read[c]
                 /\ UNCHANGED turn
        BY <3>4 DEF Fresh
      <3>5. CASE pc[c] = "reload" /\ pc'[c] = "check" /\ read[c] = base[c]
                 /\ UNCHANGED <<turn, read, base>>
        BY <3>1, <3>5 DEF Fresh
      <3>6. CASE (pc[c] = "writer" \/ Holds(c)) /\ pc'[c] \in Closing \cup {"decision", "reread"}
                 /\ UNCHANGED <<turn, read, base>>
        BY <3>1, <3>6 DEF Fresh
      <3>7. CASE HoldsTicket(c) /\ HoldsTicket(c)' /\ pc[c] # "swap"
                 /\ pc'[c] \notin {"swap", "confirm_load"} /\ UNCHANGED <<turn, read, base>>
        BY <3>1, <3>7 DEF Fresh
      <3>8. QED
        BY <1>2, <3>2, <3>3, <3>4, <3>5, <3>6, <3>7 DEF KeepsStores
    <2>3. QED
      BY <2>1, <2>2, FreshCalls
  <1>3. CASE Snapshots(c)
    BY <1>1, <1>3, FreshCalls DEF Snapshots, Fresh, Newest
  <1>4. CASE Appends(c)
    <2>1. Newest(journal') = Reduce(base[c], turn[c])
      BY <1>4 DEF Appends, Newest, Last, StoresOK
    <2>2. ASSUME NEW d \in Callers, d # c
          PROVE  Fresh(d)'
      <3>1. ~Holds(d)
        BY <1>4, <2>2 DEF Appends, OneCallHolds
      <3>2. QED
        BY <1>1, <1>4, <2>2, <3>1, FreshCalls DEF Appends, Fresh
    <2>3. Fresh(c)'
      BY <1>4, <2>1, FreshCalls DEF Appends, Fresh
    <2>4. QED
      BY <2>2, <2>3, FreshCalls
  <1>5. QED
    BY <1>2, <1>3, <1>4, CallsMoveStores

\* A restart leaves the journal, and perhaps the snapshot, and nothing else.
LEMMA RestartPreserves ==
  ASSUME AInv, Restart
  PROVE  AInv'
  <1> USE DEF AInv, Restart
  <1>1. IInv'
    BY BoundsAreNat DEF IInv, TypeOK, SlotsAndHandlesAgree, Fences, NoHandle, Stored
  <1>2. CallsOK'
    BY ArbiterBounds DEF CallsOK, Points, Outcomes
  <1>3. StoresOK' /\ JournalReplays' /\ SnapshotIsJournaled'
    BY DEF StoresOK, JournalReplays, Replays, Before, SnapshotIsJournaled
  <1>4. \A c \in Callers : pc'[c] = "idle"
    OBVIOUS
  <1>5. OneCallHolds' /\ SlotsFollowCalls' /\ CallsAreFresh'
    BY <1>4, TwoSlots DEF OneCallHolds, SlotsFollowCalls, CallsAreFresh, Holds, HoldsTicket,
              WithWriter, WithDecision, Committing, Closing, NoHandle
  <1>6. QED
    BY <1>1, <1>2, <1>3, <1>5

LEMMA ArbiterStays == AInv /\ [ArbiterNext]_arbVars => AInv'
  <1> SUFFICES ASSUME AInv, [ArbiterNext]_arbVars
               PROVE  AInv'
    OBVIOUS
  <1>0. /\ IInv /\ TypeOK /\ CallsOK /\ StoresOK /\ OneCallHolds /\ SlotsFollowCalls
        /\ CallsAreFresh /\ JournalReplays /\ Replays(journal) /\ SnapshotIsJournaled
    BY DEF AInv, IInv, JournalReplays
  <1>1. ASSUME NEW c \in Callers, Call(c)
        PROVE  AInv'
    <2>1. LeaseStep(c)
      BY <1>0, <1>1, CallsMoveLeases
    <2>2. IInv'
      BY <1>0, <2>1, CallsStepLeases, StepPreserves
    <2>3. CallsOK'
      BY <1>0, <1>1, CallsTyped
    <2>4. OneCallHolds' /\ SlotsFollowCalls'
      BY <1>0, <2>1, SlotsStay
    <2>5. StoresOK' /\ JournalReplays' /\ SnapshotIsJournaled'
      BY <1>0, <1>1, StoresStay
    <2>6. CallsAreFresh'
      BY <1>0, <1>1, CallsStayFresh
    <2>7. QED
      BY <2>2, <2>3, <2>4, <2>5, <2>6 DEF AInv
  <1>2. CASE Restart
    BY <1>2, RestartPreserves
  <1>3. CASE (Tick \/ UNCHANGED vars) /\ UNCHANGED arbiterVars
    <2>1. IInv' /\ current' = current
      BY <1>0, <1>3, StepPreserves DEF Next, Tick, vars
    <2>2. QED
      BY <1>0, <1>3, <2>1
         DEF AInv, arbiterVars, CallsOK, StoresOK, OneCallHolds, SlotsFollowCalls, CallsAreFresh,
             JournalReplays, Replays, Before, SnapshotIsJournaled, Holds, HoldsTicket, Newest
  <1>4. QED
    BY <1>1, <1>2, <1>3 DEF ArbiterNext, arbVars, arbiterVars

LEMMA ArbiterStarts == ArbiterInit => AInv
  <1> SUFFICES ASSUME ArbiterInit
               PROVE  AInv
    OBVIOUS
  <1> USE DEF ArbiterInit
  <1>1. IInv
    BY InitEstablishes
  <1>2. CallsOK
    <2>1. PICK id \in Ids : TRUE
      BY ArbiterBounds
    <2>2. [tick |-> 1, id |-> id] \in Turns
      BY ArbiterBounds DEF Turns
    <2>3. (CHOOSE t \in Turns : TRUE) \in Turns
      BY <2>2
    <2>4. QED
      BY <2>3, ArbiterBounds DEF CallsOK, Points, Outcomes, States
  <1>3. StoresOK /\ JournalReplays /\ SnapshotIsJournaled
    BY DEF StoresOK, JournalReplays, Replays, SnapshotIsJournaled
  <1>4. OneCallHolds /\ SlotsFollowCalls /\ CallsAreFresh
    BY TwoSlots DEF OneCallHolds, SlotsFollowCalls, CallsAreFresh, Init, Holds, HoldsTicket,
           WithWriter, WithDecision, Committing, Closing, NoHandle
  <1>5. QED
    BY <1>1, <1>2, <1>3, <1>4 DEF AInv

LEMMA AInvHolds == ArbiterSpec => []AInv
  BY ArbiterStarts, ArbiterStays, PTL DEF ArbiterSpec

-----------------------------------------------------------------------------
(* The theorems.                                                           *)

\* The journal, and the snapshot beside it, tell one story, whatever calls,
\* expiries and restarts come in between (_recover, decision.py).
THEOREM StateStaysRecoverable == ArbiterSpec => []StateIsRecoverable
  <1>1. AInv => StateIsRecoverable
    BY DEF AInv, IInv, CallsOK, StoresOK, StateIsRecoverable, ArbiterTypeOK
  <1>2. QED
    BY <1>1, AInvHolds, PTL

\* One ticket at a time, its decision made on the newest state; and a call
\* that ends, however it ends, leaves no lease behind.
THEOREM CallsTakeTurns == ArbiterSpec => []CallsAreSerialized
  <1>1. ASSUME AInv
        PROVE  TicketIsExclusiveAndCurrent
    BY <1>1 DEF AInv, OneCallHolds, CallsAreFresh, TicketIsExclusiveAndCurrent, HoldsTicket, Holds,
              WithWriter
  <1>2. ASSUME AInv
        PROVE  NoLeaseIsLeft
    BY <1>2 DEF AInv, SlotsFollowCalls, NoLeaseIsLeft, Holds, WithWriter, WithDecision,
              Committing, Closing
  <1>3. AInv => CallsAreSerialized
    BY <1>1, <1>2 DEF CallsAreSerialized
  <1>4. QED
    BY <1>3, AInvHolds, PTL

\* The coordinator's promise holds where the arbiter uses it, restarts included.
THEOREM HandlesStayNewest == ArbiterSpec => []OnlyTheNewestHandleIsActive
  <1>1. AInv => OnlyTheNewestHandleIsActive
    BY DEF AInv, IInv, TypeOK, SlotsAndHandlesAgree, OnlyTheNewestHandleIsActive,
           Active, Disposition, Fences, NoHandle
  <1>2. QED
    BY <1>1, AInvHolds, PTL

LEMMA CallsFindCorrupt ==
  ASSUME CallsOK, NEW c \in Callers, Call(c)
  PROVE  /\ \A d \in Callers : d # c => outcome'[d] = outcome[d]
         /\ outcome'[c] = "corrupt" =>
              \/ outcome[c] = "corrupt" \/ pc[c] = "load"
              \/ pc[c] \in {"reload", "confirm_load"} /\ ~SnapshotFits(snapshot, read[c])
  <1> USE DEF Raise, RaiseClosing, CallsOK
  <1>1. CASE Begin(c) \/ Read(c) \/ Reread(c) \/ Confirm(c) \/ Load(c)
    BY <1>1, GotoMoves DEF Begin, Read, Reread, Confirm, ReadJournal, Load
  <1>2. CASE AcquireWriterLease(c) \/ DecisionRefused(c) \/ AcquireDecisionLease(c)
             \/ ReleaseDecision(c) \/ ReleaseWriter(c)
    BY <1>2 DEF AcquireWriterLease, DecisionRefused, AcquireDecisionLease, ReleaseDecision,
              ReleaseWriter
  <1>3. CASE Reload(c) \/ ConfirmLoad(c)
    BY <1>3, GotoMoves DEF Reload, ConfirmLoad, RevisionError
  <1>4. CASE CheckSnapshot(c) \/ CloseTicket(c) \/ BeginCommit(c) \/ RenewWriter(c)
             \/ RenewDecision(c) \/ Restore(c) \/ SwapSnapshot(c) \/ AppendToJournal(c)
    BY <1>4 DEF CheckSnapshot, CloseTicket, BeginCommit, RenewWriter, RenewDecision,
              RenewLease, Restore, SwapSnapshot, AppendToJournal
  <1>5. QED
    BY <1>1, <1>2, <1>3, <1>4 DEF Call

\* A recovery under the leases never finds the snapshot ahead of the journal.
THEOREM RecoveryStaysSound == ArbiterSpec => RecoveryIsSoundUnderLease
  <1> DEFINE Sound == \A c \in Callers :
                        outcome'[c] = "corrupt" /\ outcome[c] # "corrupt" => pc[c] = "load"
  <1>1. ASSUME AInv, ArbiterNext \/ UNCHANGED arbVars
        PROVE  Sound
    <2>1. ASSUME NEW c \in Callers, pc[c] \in {"reload", "confirm_load"}
          PROVE  SnapshotFits(snapshot, read[c])
      BY <1>1, <2>1, JournaledSnapshotFits DEF AInv, CallsAreFresh, JournalReplays
    <2>2. ASSUME NEW c \in Callers, Call(c)
          PROVE  Sound
      BY <1>1, <2>1, <2>2, CallsFindCorrupt DEF AInv
    <2>3. CASE Restart
      BY <2>3 DEF Restart
    <2>4. CASE UNCHANGED outcome
      BY <2>4
    <2>5. QED
      BY <1>1, <2>2, <2>3, <2>4 DEF ArbiterNext, arbiterVars, arbVars
  <1>2. AInv /\ [ArbiterNext]_arbVars => [Sound]_arbVars
    BY <1>1
  <1>3. QED
    BY <1>2, AInvHolds, PTL DEF ArbiterSpec, RecoveryIsSoundUnderLease

-----------------------------------------------------------------------------
(* The SDK adapter: what the driver has in hand, and what the server holds. *)

DriverOK ==
  driver = [at |-> driver.at, obs |-> driver.obs, plan |-> driver.plan, outcome |-> driver.outcome]

\* A unit that the turn shows as controlled, with its role.
Shown(given, id, role) ==
  \E o \in ToSet(given.objects) : o.what = "unit" /\ o.id = id /\ o.controlled /\ o.role = role

\* The observation in hand is of a turn, the plan in hand fits the observation.
TurnIsInHand ==
  driver.at \in {"deciding", "submitting"} =>
    \E t \in SdkTurns : Sdk!TurnIsSound(t) /\ driver.obs = Sdk!AdaptAsyncTurn(t)
PlanFits ==
  driver.at = "submitting" =>
    /\ driver.plan \in Decisions \ {None}
    /\ Sdk!BuildCommandPlan(driver.plan, driver.obs) = driver.plan

PlanIsAllowed(t, plan) ==
  \E given \in {x \in SdkTurns : x.tick = t /\ Sdk!TurnIsSound(x)} :
    \A id \in DOMAIN plan.orders :
      \E o \in ToSet(given.objects) :
        /\ o.what = "unit" /\ o.id = id /\ o.controlled
        /\ plan.orders[id].action \in Sdk!UnitActionsByRole[o.role]
PlansInForce == \A t \in DOMAIN inForce : inForce[t].tick = t /\ PlanIsAllowed(t, inForce[t])
ReportsAreTrue ==
  reported \in Seq(Decisions) /\ \A i \in DOMAIN reported : reported[i].tick \in DOMAIN inForce

\* One close task, whose end is what the closers are told.
ClosersOK ==
  /\ closer \in [Closers -> {"idle", "waiting", "returned", "raised", "cancelled"}]
  /\ closeCalls = IF closing = "none" THEN 0 ELSE 1
  /\ Sdk!CloseIsShared

DInv == DriverOK /\ TurnIsInHand /\ PlanFits /\ PlansInForce /\ ReportsAreTrue

\* adapt_async_turn keeps the tick, and knows of a unit what the turn shows of it.
LEMMA AdaptedTurn ==
  ASSUME NEW given, Sdk!TurnIsSound(given)
  PROVE  /\ Sdk!AdaptAsyncTurn(given).tick = given.tick
         /\ \A id \in DOMAIN Sdk!AdaptAsyncTurn(given).units :
              Shown(given, id, Sdk!AdaptAsyncTurn(given).units[id])
  <1> DEFINE adapted == Sdk!AdaptAsyncTurn(given)
             place(id) == CHOOSE i \in Sdk!OwnUnits(given) : given.objects[i].id = id
             ids == {given.objects[i].id : i \in Sdk!OwnUnits(given)}
  <1>1. /\ adapted.tick = given.tick
        /\ adapted.units = [id \in ids |-> given.objects[place(id)].role]
    BY DEF Sdk!AdaptAsyncTurn
  <1>2. ASSUME NEW id \in ids
        PROVE  Shown(given, id, given.objects[place(id)].role)
    <2>1. place(id) \in Sdk!OwnUnits(given) /\ given.objects[place(id)].id = id
      BY <1>2
    <2>2. place(id) \in DOMAIN given.objects /\ given.objects[place(id)].what = "unit"
          /\ given.objects[place(id)].controlled
      BY <2>1 DEF Sdk!OwnUnits, Sdk!Own, Sdk!Identified
    <2>3. QED
      BY <2>1, <2>2 DEF Shown, ToSet
  <1> HIDE DEF adapted, place, ids
  <1>3. QED
    BY <1>1, <1>2 DEF adapted

LEMMA BuiltPlan ==
  ASSUME NEW d, NEW obs, Sdk!BuildCommandPlan(d, obs) # None
  PROVE  Sdk!BuildCommandPlan(d, obs) = d
  BY DEF Sdk!BuildCommandPlan

\* A plan that build_command_plan lets through for a turn is one the turn allows.
LEMMA BuiltPlanFits ==
  ASSUME NEW given \in SdkTurns, Sdk!TurnIsSound(given), NEW plan,
         Sdk!BuildCommandPlan(plan, Sdk!AdaptAsyncTurn(given)) = plan, plan # None
  PROVE  PlanIsAllowed(plan.tick, plan)
  <1> DEFINE obs == Sdk!AdaptAsyncTurn(given)
  <1>1. plan.tick = obs.tick
    BY DEF Sdk!BuildCommandPlan
  <1>2. \A id \in DOMAIN plan.orders :
          id \in DOMAIN obs.units /\ plan.orders[id].action \in Sdk!UnitActionsByRole[obs.units[id]]
    BY DEF Sdk!BuildCommandPlan
  <1> HIDE DEF obs
  <1>3. obs.tick = given.tick /\ \A id \in DOMAIN obs.units : Shown(given, id, obs.units[id])
    BY AdaptedTurn DEF obs
  <1>4. QED
    BY <1>1, <1>2, <1>3 DEF PlanIsAllowed, Shown

\* A driver that comes to rest has nothing in hand.
LEMMA DriverRests ==
  ASSUME DInv, NEW o, Sdk!Rest(o), inForce' = inForce,
         reported' \in Seq(Decisions), \A i \in DOMAIN reported' : reported'[i].tick \in DOMAIN inForce
  PROVE  DInv'
  <1>1. driver'.at = "idle" /\ DriverOK'
    BY DEF Sdk!Rest, DriverOK
  <1>2. QED
    BY <1>1 DEF DInv, TurnIsInHand, PlanFits, PlansInForce, ReportsAreTrue, PlanIsAllowed

LEMMA DriverStays ==
  ASSUME DInv, UNCHANGED <<driver, inForce, reported>>
  PROVE  DInv'
  BY DEF DInv, DriverOK, TurnIsInHand, PlanFits, PlansInForce, ReportsAreTrue, PlanIsAllowed

LEMMA DriverSteps == DInv /\ [Sdk!SdkNext]_sdkVars => DInv'
  <1> SUFFICES ASSUME DInv, [Sdk!SdkNext]_sdkVars PROVE DInv'
    OBVIOUS
  <1>0. DriverOK /\ TurnIsInHand /\ PlanFits /\ PlansInForce /\ ReportsAreTrue
    BY DEF DInv
  <1>1. ASSUME NEW o, Sdk!Rest(o), UNCHANGED <<inForce, reported>>
        PROVE  DInv'
    BY <1>0, <1>1, DriverRests DEF ReportsAreTrue
  <1>2. CASE Sdk!StartRead
    <2>1. CASE \E o : Sdk!Rest(o)
      BY <1>1, <1>2, <2>1 DEF Sdk!StartRead
    <2>2. CASE driver' = [driver EXCEPT !.at = "reading"]
      <3>1. driver'.at = "reading" /\ DriverOK'
        BY <1>0, <2>2 DEF DriverOK
      <3>2. QED
        BY <1>0, <1>2, <3>1 DEF Sdk!StartRead, DInv, TurnIsInHand, PlanFits, PlansInForce, ReportsAreTrue,
             PlanIsAllowed
    <2>3. QED
      BY <1>2, <2>1, <2>2 DEF Sdk!StartRead
  <1>3. ASSUME NEW t \in SdkTurns, Sdk!TurnArrives(t)
        PROVE  DInv'
    <2>1. CASE Sdk!AdaptAsyncTurn(t) = None
      BY <1>1, <1>3, <2>1 DEF Sdk!TurnArrives
    <2>2. CASE Sdk!AdaptAsyncTurn(t) # None
      <3>1. Sdk!TurnIsSound(t)
        BY <2>2 DEF Sdk!AdaptAsyncTurn
      <3>2. /\ driver' = [driver EXCEPT !.at = "deciding", !.obs = Sdk!AdaptAsyncTurn(t)]
            /\ UNCHANGED <<inForce, reported>>
        BY <1>3, <2>2 DEF Sdk!TurnArrives
      <3>3. driver'.at = "deciding" /\ driver'.obs = Sdk!AdaptAsyncTurn(t) /\ DriverOK'
        BY <1>0, <3>2 DEF DriverOK
      <3>4. QED
        BY <1>0, <3>1, <3>2, <3>3 DEF DInv, TurnIsInHand, PlanFits, PlansInForce, ReportsAreTrue, PlanIsAllowed
    <2>3. QED
      BY <2>1, <2>2
  <1>4. ASSUME NEW d \in Decisions, Sdk!StartSubmit(d)
        PROVE  DInv'
    <2> DEFINE plan == Sdk!BuildCommandPlan(d, driver.obs)
    <2>1. /\ driver.at = "deciding" /\ UNCHANGED <<inForce, reported>>
          /\ \/ \E o : Sdk!Rest(o)
             \/ plan # None /\ driver' = [driver EXCEPT !.at = "submitting", !.plan = plan]
      BY <1>4 DEF Sdk!StartSubmit
    <2>2. CASE \E o : Sdk!Rest(o)
      BY <1>1, <2>1, <2>2
    <2>3. CASE plan # None /\ driver' = [driver EXCEPT !.at = "submitting", !.plan = plan]
      <3>1. plan = d
        BY <2>3, BuiltPlan
      <3>2. /\ driver'.at = "submitting" /\ driver'.obs = driver.obs /\ driver'.plan = d /\ DriverOK'
            /\ d # None /\ Sdk!BuildCommandPlan(d, driver.obs) = d
        BY <1>0, <2>3, <3>1 DEF DriverOK
      <3>3. TurnIsInHand' /\ PlanFits'
        BY <1>0, <2>1, <3>2 DEF TurnIsInHand, PlanFits
      <3>4. QED
        BY <1>0, <2>1, <3>2, <3>3 DEF DInv, PlansInForce, ReportsAreTrue, PlanIsAllowed
    <2>4. QED
      BY <2>1, <2>2, <2>3
  <1>5. CASE Sdk!ServerTakes
    <2>1. /\ driver.at = "submitting" /\ UNCHANGED <<driver, reported>>
          /\ inForce' = [t \in DOMAIN inForce \cup {driver.plan.tick} |->
                           IF t \in DOMAIN inForce THEN inForce[t] ELSE driver.plan]
      BY <1>5 DEF Sdk!ServerTakes
    <2>2. PlanIsAllowed(driver.plan.tick, driver.plan)
      BY <1>0, <2>1, BuiltPlanFits DEF TurnIsInHand, PlanFits
    <2>3. ASSUME NEW t \in DOMAIN inForce'
          PROVE  inForce'[t].tick = t /\ PlanIsAllowed(t, inForce'[t])
      BY <1>0, <2>1, <2>2, <2>3 DEF PlansInForce
    <2>4. PlansInForce' /\ ReportsAreTrue'
      BY <1>0, <2>1, <2>3 DEF PlansInForce, ReportsAreTrue, PlanIsAllowed
    <2>5. QED
      BY <1>0, <2>1, <2>4 DEF DInv, DriverOK, TurnIsInHand, PlanFits
  <1>6. CASE Sdk!Acknowledged
    <2>1. /\ driver.at = "submitting" /\ inForce' = inForce
          /\ \/ \E o : Sdk!Rest(o) /\ reported' = reported
             \/ /\ Sdk!Rest("accepted") /\ reported' = Append(reported, driver.plan)
                /\ driver.plan.tick \in DOMAIN inForce
      BY <1>6 DEF Sdk!Acknowledged, Sdk!Acks, Sdk!ValidateAck
    <2>2. CASE \E o : Sdk!Rest(o) /\ reported' = reported
      BY <1>1, <2>1, <2>2
    <2>3. CASE /\ Sdk!Rest("accepted") /\ reported' = Append(reported, driver.plan)
               /\ driver.plan.tick \in DOMAIN inForce
      <3>1. driver.plan \in Decisions
        BY <1>0, <2>1 DEF PlanFits
      <3>2. /\ reported' \in Seq(Decisions)
            /\ \A i \in DOMAIN reported' : reported'[i].tick \in DOMAIN inForce
        BY <1>0, <2>3, <3>1 DEF ReportsAreTrue
      <3>3. QED
        BY <2>1, <2>3, <3>2, DriverRests
    <2>4. QED
      BY <2>1, <2>2, <2>3
  <1>7. CASE Sdk!ReadFails \/ Sdk!SubmitFails
    BY <1>1, <1>7 DEF Sdk!ReadFails, Sdk!SubmitFails
  <1>8. CASE Sdk!Reopen \/ Sdk!StreamCloses \/ Sdk!SourceCloses
    BY <1>8, DriverStays DEF Sdk!Reopen, Sdk!StreamCloses, Sdk!SourceCloses
  <1>9. CASE \/ \E c \in Closers : Sdk!Close(c) \/ Sdk!CloserWakes(c)
             \/ \E how \in {"succeeded", "failed"} : Sdk!CloseEnds(how)
    BY <1>9, DriverStays DEF Sdk!Close, Sdk!CloserWakes, Sdk!CloseEnds
  <1>10. CASE UNCHANGED sdkVars
    BY <1>10, DriverStays DEF sdkVars
  <1>11. QED
    BY <1>2, <1>3, <1>4, <1>5, <1>6, <1>7, <1>8, <1>9, <1>10 DEF Sdk!SdkNext

LEMMA ClosersStep == ClosersOK /\ [Sdk!SdkNext]_sdkVars => ClosersOK'
  <1> SUFFICES ASSUME ClosersOK, [Sdk!SdkNext]_sdkVars PROVE ClosersOK'
    OBVIOUS
  <1>1. ASSUME NEW c \in Closers, Sdk!Close(c)
        PROVE  ClosersOK'
    BY <1>1 DEF Sdk!Close, ClosersOK, Sdk!CloseIsShared
  <1>2. ASSUME NEW c \in Closers, Sdk!CloserWakes(c)
        PROVE  ClosersOK'
    BY <1>2 DEF Sdk!CloserWakes, ClosersOK, Sdk!CloseIsShared
  <1>3. ASSUME NEW how \in {"succeeded", "failed"}, Sdk!CloseEnds(how)
        PROVE  ClosersOK'
    BY <1>3 DEF Sdk!CloseEnds, ClosersOK, Sdk!CloseIsShared
  <1>4. CASE UNCHANGED <<closing, closeCalls, closer>>
    BY <1>4 DEF ClosersOK, Sdk!CloseIsShared
  <1>5. QED
    BY <1>1, <1>2, <1>3, <1>4
    DEF Sdk!SdkNext, sdkVars, Sdk!StartRead, Sdk!ReadFails, Sdk!Reopen, Sdk!TurnArrives,
        Sdk!StartSubmit, Sdk!ServerTakes, Sdk!Acknowledged, Sdk!SubmitFails, Sdk!StreamCloses,
        Sdk!SourceCloses

LEMMA SdkStarts == Sdk!SdkInit => DInv /\ ClosersOK
  <1> SUFFICES ASSUME Sdk!SdkInit PROVE DInv /\ ClosersOK
    OBVIOUS
  <1>1. DriverOK /\ TurnIsInHand /\ PlanFits
    BY DEF Sdk!SdkInit, DriverOK, TurnIsInHand, PlanFits
  <1>2. PlansInForce /\ ReportsAreTrue
    BY DEF Sdk!SdkInit, PlansInForce, ReportsAreTrue
  <1>3. ClosersOK
    BY DEF Sdk!SdkInit, ClosersOK, Sdk!CloseIsShared
  <1>4. QED
    BY <1>1, <1>2, <1>3 DEF DInv

LEMMA DInvIsSound == DInv => Sdk!OnlySoundPlansTakeEffect
  BY DEF DInv, PlansInForce, PlanIsAllowed, ReportsAreTrue, ToSet,
     Sdk!ToSet, Sdk!OnlySoundPlansTakeEffect

\* PlansAndClosesAreSound: whatever drifts between the turn, the decision and the
\* submission, the server only holds plans that a turn of their tick allows, a
\* submission is only reported as accepted when the server holds a plan for its
\* tick, and the client is closed once for all who ask.
THEOREM PlansStaySound == ProcessSpec => []PlansAndClosesAreSound
  <1>1. ProcessInit => DInv /\ ClosersOK
    BY SdkStarts DEF ProcessInit
  <1>2. [ProcessNext]_allVars => [Sdk!SdkNext]_sdkVars
    BY DEF ProcessNext, allVars, sdkVars
  <1>3. DInv /\ ClosersOK /\ [Sdk!SdkNext]_sdkVars => DInv' /\ ClosersOK'
    BY DriverSteps, ClosersStep
  <1>4. DInv /\ ClosersOK => PlansAndClosesAreSound
    BY DInvIsSound DEF PlansAndClosesAreSound, ClosersOK
  <1>5. QED
    BY <1>1, <1>2, <1>3, <1>4, PTL DEF ProcessSpec

-----------------------------------------------------------------------------
(* The lease coordinator beside them, with callers of every kind.          *)
(* MemoryLeasesProofs holds for any duration and any bounds: for these too. *)

Shared == INSTANCE MemoryLeasesProofs
            WITH Duration <- 2, MaxFence <- 3, MaxTime <- 3,
                 now <- clock, nextFence <- nextToken, current <- slotHolder,
                 expires <- runsOut, stored <- standing

\* The coordinator of the process, taken with its proofs or without, is one.
LEMMA SharedAre ==
  /\ Leases!Init <=> Shared!Init
  /\ [Leases!Next]_leaseVars <=> [Shared!Next]_(Shared!vars)
  <1> USE DEF Leases!Slots, Shared!Slots, Leases!Kinds, Shared!Kinds, Leases!Fences, Shared!Fences,
         Leases!NoHandle, Shared!NoHandle
  <1>1. Leases!Init <=> Shared!Init
    BY DEF Leases!Init, Shared!Init
  <1>2. [Leases!Next]_leaseVars <=> [Shared!Next]_(Shared!vars)
    BY DEF leaseVars, Shared!vars, Leases!Next, Shared!Next,
      Leases!AcquireDecision, Shared!AcquireDecision, Leases!AcquireWriter, Shared!AcquireWriter,
      Leases!Acquire, Shared!Acquire, Leases!Issue, Shared!Issue,
      Leases!ReplaceDecision, Shared!ReplaceDecision, Leases!ReplaceWriter, Shared!ReplaceWriter,
      Leases!Replace, Shared!Replace, Leases!ReplacementIsAuthorized, Shared!ReplacementIsAuthorized,
      Leases!Renew, Shared!Renew, Leases!RenewStale, Shared!RenewStale, Leases!Release, Shared!Release,
      Leases!Tick, Shared!Tick
  <1>3. QED
    BY <1>1, <1>2

\* And so is what it promises.
LEMMA AuthoritiesAre ==
  /\ Leases!Authority!Init <=> Shared!Authority!Init
  /\ [Leases!Authority!Next]_(Leases!Authority!vars) <=> [Shared!Authority!Next]_(Shared!Authority!vars)
  <1> USE DEF Leases!NewestFence, Shared!NewestFence, Leases!ActiveFence, Shared!ActiveFence,
         Leases!Active, Shared!Active, Leases!Disposition, Shared!Disposition,
         Leases!Slots, Shared!Slots, Leases!Kinds, Shared!Kinds, Leases!Fences, Shared!Fences,
         Leases!NoHandle, Shared!NoHandle
  <1>1. Leases!Authority!Init <=> Shared!Authority!Init
    BY DEF Leases!Authority!Init, Shared!Authority!Init, Leases!Authority!Nobody, Shared!Authority!Nobody
  <1>2. Leases!Authority!Next <=> Shared!Authority!Next
    BY DEF Leases!Authority!Next, Shared!Authority!Next, Leases!Authority!Nobody, Shared!Authority!Nobody,
      Leases!Authority!Grant, Shared!Authority!Grant, Leases!Authority!Burn, Shared!Authority!Burn,
      Leases!Authority!Lose, Shared!Authority!Lose, Leases!Authority!Regain, Shared!Authority!Regain,
      Leases!Authority!Keep, Shared!Authority!Keep
  <1>3. Leases!Authority!vars = Shared!Authority!vars /\ Leases!Authority!vars' = Shared!Authority!vars'
    BY DEF Leases!Authority!vars, Shared!Authority!vars
  <1>4. QED
    BY <1>1, <1>2, <1>3

\* LeasesImplementAuthority: wherever the leases move, tokens only grow, nobody is
\* granted a slot that somebody holds, and who lost it never holds it again; a
\* handle that is renewed or released late changes none of that.
THEOREM LeasesKeepThePromise == ProcessSpec => LeasesImplementAuthority
  <1>1. Shared!Spec => Shared!ImplementsAuthority
    BY Shared!MemoryLeasesImplementAuthority
  <1>2. ProcessSpec => Shared!Spec
    <2>1. ProcessInit => Shared!Init
      BY SharedAre DEF ProcessInit
    <2>2. [ProcessNext]_allVars => [Shared!Next]_(Shared!vars)
      BY SharedAre DEF ProcessNext, allVars, leaseVars
    <2>3. QED
      BY <2>1, <2>2, PTL DEF ProcessSpec, Shared!Spec
  <1>3. QED
    BY <1>1, <1>2, AuthoritiesAre, PTL
    DEF LeasesImplementAuthority, Shared!ImplementsAuthority, Shared!Authority!Spec
=============================================================================
