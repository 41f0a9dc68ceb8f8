--------------------------- MODULE DecisionArbiter ---------------------------
(***************************************************************************)
(* DecisionArbiter (application/decision.py) over the memory coordinator,  *)
(* the state store and the decision journal of one tenant.                 *)
(*                                                                         *)
(* The state of a tenant is what its reducer made of the decisions so far: *)
(* the sequence of [tick, id] that was reduced.  Equal sequences are equal *)
(* states with equal digests, and the generation is the length.  A journal *)
(* entry is represented by the state it ends with.                         *)
(*                                                                         *)
(* The arbiter calls asynchronous ports: calls interleave at every await,  *)
(* and a check that was made before an await may be stale after it.        *)
(***************************************************************************)
EXTENDS MemoryLeases, Integers, Sequences, SequencesExt

CONSTANTS
  tenant,       \* the tenant whose decisions are arbitrated
  Callers,      \* calls in progress at a time
  Ids,          \* DecisionId
  MaxTick,      \* bound: game ticks
  MaxRestarts,  \* bound: restarts of the process
  None

ASSUME TenantIsLeased == tenant \in Tenants
ASSUME ArbiterBounds == MaxTick \in Nat \ {0} /\ MaxRestarts \in Nat /\ Ids # {}
ASSUME NoneIsNoState == None \notin Seq([tick : Nat, id : Ids])

VARIABLES
  journal,   \* MemoryDecisionJournal._entries[tenant]
  snapshot,  \* MemoryTenantStateStore._states[tenant], None when absent
  pc,        \* the await a call is at
  turn,      \* its request: tick and decision id
  read,      \* the state its last journal read replayed to
  base,      \* context.state: the state its decision is made on
  writer,    \* fence of its writer lease, NoHandle without one
  decision,  \* fence of its decision lease
  outcome,   \* how its last acquire or commit ended
  restarts

arbiterVars == <<journal, snapshot, pc, turn, read, base, writer, decision,
                 outcome, restarts>>
arbVars == <<vars, arbiterVars>>

Writer   == <<tenant, "writer">>
Decision == <<tenant, "decision">>

Turns  == [tick : 1 .. MaxTick, id : Ids]
States == Seq(Turns)

Acquiring  == {"read", "load", "writer", "decision", "reread", "reload",
               "check", "restore"}
Committing == {"renew_writer", "renew_decision", "confirm", "confirm_load",
               "append", "swap"}
Closing    == {"close_decision", "close_writer"}
Points     == {"idle", "open"} \cup Acquiring \cup Committing \cup Closing

Outcomes == {"none", "ticket", "committed", "unavailable", "duplicate",
             "stale", "rejected", "conflict", "corrupt", "closed"}

ArbiterTypeOK ==
  /\ TypeOK
  /\ journal \in Seq(States)
  /\ snapshot \in States \cup {None}
  /\ pc \in [Callers -> Points]
  /\ turn \in [Callers -> Turns]
  /\ read \in [Callers -> States]
  /\ base \in [Callers -> States]
  /\ writer \in [Callers -> Fences \cup {NoHandle}]
  /\ decision \in [Callers -> Fences \cup {NoHandle}]
  /\ outcome \in [Callers -> Outcomes]
  /\ restarts \in 0 .. MaxRestarts

-----------------------------------------------------------------------------
(* States and the journal.                                                 *)

LatestTick(s) == IF s = <<>> THEN 0 ELSE Last(s).tick
Committed(s) == { s[i].id : i \in DOMAIN s }

\* Mutant: an old observation is folded over a newer one.
MayObserveMutRegress(s, t) == TRUE

\* TenantState.observe: an observation must not regress.
MayObserve(s, t) == t.tick >= LatestTick(s)

\* TenantState.reduce_turn
Reduce(s, t) == Append(s, t)

Before(j, i) == IF i = 1 THEN <<>> ELSE j[i - 1]

\* _recover replays the whole journal: each entry ends with the state that
\* the reducer makes of the entry before it, and repeats no decision.
Replays(j) ==
  \A i \in DOMAIN j :
    /\ Len(j[i]) = i
    /\ Front(j[i]) = Before(j, i)
    /\ MayObserve(Before(j, i), Last(j[i]))
    /\ Last(j[i]).id \notin Committed(Before(j, i))

\* The generation of a stored snapshot, below all others when there is none.
Generation(snap) == IF snap = None THEN -1 ELSE Len(snap)

Newest(j) == IF j = <<>> THEN <<>> ELSE Last(j)

\* ... and the snapshot may lag behind it, but neither lead nor contradict it.
SnapshotFits(snap, s) == snap = s \/ Generation(snap) < Len(s)

-----------------------------------------------------------------------------
ArbiterInit ==
  /\ Init
  /\ journal = <<>>
  /\ snapshot = None
  /\ pc = [c \in Callers |-> "idle"]
  /\ turn \in [Callers -> {CHOOSE t \in Turns : TRUE}]
  /\ read = [c \in Callers |-> <<>>]
  /\ base = [c \in Callers |-> <<>>]
  /\ writer = [c \in Callers |-> NoHandle]
  /\ decision = [c \in Callers |-> NoHandle]
  /\ outcome = [c \in Callers |-> "none"]
  /\ restarts = 0

Goto(c, from, to) ==
  /\ pc[c] = from
  /\ pc' = [pc EXCEPT ![c] = to]

\* Raise `error` with no lease held: the call is over.
Raise(c, from, error) ==
  /\ Goto(c, from, "idle")
  /\ outcome' = [outcome EXCEPT ![c] = error]

\* Raise it with a ticket: the ticket is closed on the way out.
RaiseClosing(c, from, error) ==
  /\ Goto(c, from, "close_decision")
  /\ outcome' = [outcome EXCEPT ![c] = error]

\* _recover, first half: the journal is read and replayed.
ReadJournal(c, from, to) ==
  /\ Goto(c, from, to)
  /\ Replays(journal)
  /\ read' = [read EXCEPT ![c] = Newest(journal)]
  /\ UNCHANGED <<vars, journal, snapshot, turn, base, writer, decision,
                 outcome, restarts>>

-----------------------------------------------------------------------------
(* acquire                                                                 *)

Begin(c) ==
  /\ Goto(c, "idle", "read")
  /\ \E t \in Turns : turn' = [turn EXCEPT ![c] = t]
  /\ outcome' = [outcome EXCEPT ![c] = "none"]
  /\ UNCHANGED <<vars, journal, snapshot, read, base, writer, decision, restarts>>

Read(c) == ReadJournal(c, "read", "load")

\* _recover, second half, then the duplicate and the observation check.
Load(c) ==
  /\ \/ /\ Raise(c, "load", "corrupt")
        /\ ~SnapshotFits(snapshot, read[c])
        /\ UNCHANGED base
     \/ /\ Raise(c, "load", "duplicate")
        /\ SnapshotFits(snapshot, read[c])
        /\ turn[c].id \in Committed(read[c])
        /\ UNCHANGED base
     \/ /\ Raise(c, "load", "rejected")
        /\ SnapshotFits(snapshot, read[c])
        /\ turn[c].id \notin Committed(read[c])
        /\ ~MayObserve(read[c], turn[c])
        /\ UNCHANGED base
     \/ /\ Goto(c, "load", "writer")
        /\ SnapshotFits(snapshot, read[c])
        /\ turn[c].id \notin Committed(read[c])
        /\ MayObserve(read[c], turn[c])
        /\ base' = [base EXCEPT ![c] = read[c]]
        /\ UNCHANGED outcome
  /\ UNCHANGED <<vars, journal, snapshot, turn, read, writer, decision, restarts>>

AcquireWriterLease(c) ==
  /\ \/ /\ Goto(c, "writer", "decision")
        /\ AcquireWriter(tenant)
        /\ writer' = [writer EXCEPT ![c] = nextFence[Writer]]
        /\ UNCHANGED outcome
     \/ /\ Raise(c, "writer", "unavailable")
        /\ current[Writer] # NoHandle \/ nextFence[Writer] \notin Fences
        /\ UNCHANGED <<vars, writer>>
  /\ UNCHANGED <<journal, snapshot, turn, read, base, decision, restarts>>

\* Mutant: the writer lease is kept.
DecisionRefusedMutKeepsWriter(c) ==
  /\ Raise(c, "decision", "unavailable")
  /\ writer' = [writer EXCEPT ![c] = NoHandle]
  /\ UNCHANGED <<vars, decision, journal, snapshot, turn, read, base, restarts>>

\* The port may refuse a decision lease for reasons of its own.
DecisionRefused(c) ==
  /\ Raise(c, "decision", "unavailable")
  /\ Release(Writer, writer[c])
  /\ writer' = [writer EXCEPT ![c] = NoHandle]
  /\ UNCHANGED <<decision, journal, snapshot, turn, read, base, restarts>>

AcquireDecisionLease(c) ==
  /\ Goto(c, "decision", "reread")
  /\ AcquireDecision(tenant)
  /\ decision' = [decision EXCEPT ![c] = nextFence[Decision]]
  /\ UNCHANGED <<journal, snapshot, turn, read, base, writer, outcome, restarts>>

Reread(c) == ReadJournal(c, "reread", "reload")

\* What a second recovery raises: it does not fit, or it moved on.
RevisionError(c) ==
  IF SnapshotFits(snapshot, read[c]) THEN "stale" ELSE "corrupt"

\* Mutant: the revision is not compared again under the leases.
ReloadMutTrusting(c) ==
  /\ IF SnapshotFits(snapshot, read[c])
     THEN Goto(c, "reload", "check") /\ UNCHANGED outcome
     ELSE RaiseClosing(c, "reload", RevisionError(c))
  /\ UNCHANGED <<vars, journal, snapshot, turn, read, base, writer, decision, restarts>>

\* _recover again, now under the leases: the revision must be the same.
Reload(c) ==
  /\ IF SnapshotFits(snapshot, read[c]) /\ read[c] = base[c]
     THEN Goto(c, "reload", "check") /\ UNCHANGED outcome
     ELSE RaiseClosing(c, "reload", RevisionError(c))
  /\ UNCHANGED <<vars, journal, snapshot, turn, read, base, writer, decision, restarts>>

\* _ensure_snapshot, the load.  (A snapshot that contradicts the journal is
\* refused by the next step with the same error.)
CheckSnapshot(c) ==
  /\ \/ /\ Goto(c, "check", "open")
        /\ snapshot = base[c]
        /\ outcome' = [outcome EXCEPT ![c] = "ticket"]
     \/ /\ Goto(c, "check", "restore")
        /\ snapshot # base[c]
        /\ UNCHANGED outcome
  /\ UNCHANGED <<vars, journal, snapshot, turn, read, base, writer, decision, restarts>>

\* MemoryTenantStateStore.restore: it never takes a snapshot back.
MayRestore(c) ==
  /\ Active(Writer, writer[c])
  /\ Generation(snapshot) < Len(base[c])

Restore(c) ==
  /\ \/ /\ Goto(c, "restore", "open")
        /\ MayRestore(c)
        /\ snapshot' = base[c]
        /\ outcome' = [outcome EXCEPT ![c] = "ticket"]
     \/ /\ RaiseClosing(c, "restore", "stale")
        /\ ~MayRestore(c)
        /\ UNCHANGED snapshot
  /\ UNCHANGED <<vars, journal, turn, read, base, writer, decision, restarts>>

-----------------------------------------------------------------------------
(* The ticket: commit, or close it unused.                                 *)

CloseTicket(c) ==
  /\ RaiseClosing(c, "open", "closed")
  /\ UNCHANGED <<vars, journal, snapshot, turn, read, base, writer, decision, restarts>>

BeginCommit(c) ==
  /\ \/ /\ Goto(c, "open", "renew_writer")
        /\ Active(Writer, writer[c]) /\ Active(Decision, decision[c])
        /\ UNCHANGED outcome
     \/ /\ RaiseClosing(c, "open", "stale")
        /\ ~Active(Writer, writer[c]) \/ ~Active(Decision, decision[c])
  /\ UNCHANGED <<vars, journal, snapshot, turn, read, base, writer, decision, restarts>>

RenewLease(c, slot, fence, from, to) ==
  /\ \/ /\ Goto(c, from, to)
        /\ Renew(slot, fence)
        /\ UNCHANGED outcome
     \/ /\ RaiseClosing(c, from, "stale")
        /\ now >= expires[slot][fence]
        /\ UNCHANGED vars
  /\ UNCHANGED <<journal, snapshot, turn, read, base, writer, decision, restarts>>

RenewWriter(c) ==
  RenewLease(c, Writer, writer[c], "renew_writer", "renew_decision")
RenewDecision(c) ==
  RenewLease(c, Decision, decision[c], "renew_decision", "confirm")

Confirm(c) == ReadJournal(c, "confirm", "confirm_load")

ConfirmLoad(c) ==
  /\ IF SnapshotFits(snapshot, read[c]) /\ read[c] = base[c]
     THEN Goto(c, "confirm_load", "append") /\ UNCHANGED outcome
     ELSE RaiseClosing(c, "confirm_load", RevisionError(c))
  /\ UNCHANGED <<vars, journal, snapshot, turn, read, base, writer, decision, restarts>>

\* MemoryDecisionJournal.append: a current lease, the next generation, and a
\* decision that is not in the journal.
MayAppend(c) ==
  /\ Active(Writer, writer[c])
  /\ Len(journal) = Len(base[c])
  /\ turn[c].id \notin Committed(Newest(journal))

\* Mutant: the entry is appended later than the snapshot is swapped.
AppendToJournalMutDeferred(c) ==
  /\ Goto(c, "append", "swap")
  /\ MayAppend(c)
  /\ UNCHANGED <<vars, outcome, journal, snapshot, turn, read, base, writer, decision,
                 restarts>>

AppendToJournal(c) ==
  /\ \/ /\ Goto(c, "append", "swap")
        /\ MayAppend(c)
        /\ journal' = Append(journal, Reduce(base[c], turn[c]))
        /\ UNCHANGED outcome
     \/ /\ RaiseClosing(c, "append", "rejected")
        /\ ~MayAppend(c)
        /\ UNCHANGED journal
  /\ UNCHANGED <<vars, snapshot, turn, read, base, writer, decision, restarts>>

\* MemoryTenantStateStore.compare_and_set.
MaySwap(c) ==
  /\ Active(Writer, writer[c])
  /\ Generation(snapshot) = Len(base[c]) \/ (snapshot = None /\ base[c] = <<>>)

\* Mutant: the decision is recorded without its observation.
SwapSnapshotMutUnobserved(c) ==
  /\ RaiseClosing(c, "swap", "committed")
  /\ MaySwap(c)
  /\ snapshot' = Reduce(base[c], [turn[c] EXCEPT !.tick = 0])
  /\ UNCHANGED <<vars, journal, turn, read, base, writer, decision, restarts>>

SwapSnapshot(c) ==
  /\ \/ /\ RaiseClosing(c, "swap", "committed")
        /\ MaySwap(c)
        /\ snapshot' = Reduce(base[c], turn[c])
     \/ /\ RaiseClosing(c, "swap", "conflict")
        /\ ~MaySwap(c)
        /\ UNCHANGED snapshot
  /\ UNCHANGED <<vars, journal, turn, read, base, writer, decision, restarts>>

\* DecisionTicket.close: the decision lease first, the writer lease last.
ReleaseDecision(c) ==
  /\ Goto(c, "close_decision", "close_writer")
  /\ Release(Decision, decision[c])
  /\ decision' = [decision EXCEPT ![c] = NoHandle]
  /\ UNCHANGED <<journal, snapshot, turn, read, base, writer, outcome, restarts>>

ReleaseWriter(c) ==
  /\ Goto(c, "close_writer", "idle")
  /\ Release(Writer, writer[c])
  /\ writer' = [writer EXCEPT ![c] = NoHandle]
  /\ UNCHANGED <<journal, snapshot, turn, read, base, decision, outcome, restarts>>

\* The process restarts: leases, calls and tickets are gone, the journal is
\* read again; the snapshot may have been lost.
Restart ==
  /\ restarts < MaxRestarts
  /\ restarts' = restarts + 1
  /\ snapshot' \in {snapshot, None}
  /\ pc' = [c \in Callers |-> "idle"]
  /\ outcome' = [c \in Callers |-> "none"]
  /\ writer' = [c \in Callers |-> NoHandle]
  /\ decision' = [c \in Callers |-> NoHandle]
  /\ nextFence' = [s \in Slots |-> 1]
  /\ current' = [s \in Slots |-> NoHandle]
  /\ expires' = [s \in Slots |-> [f \in Fences |-> 0]]
  /\ stored' = [s \in Slots |-> [f \in Fences |-> "unissued"]]
  /\ UNCHANGED <<now, journal, turn, read, base>>

Call(c) ==
  \/ Begin(c) \/ Read(c) \/ Load(c)
  \/ AcquireWriterLease(c) \/ DecisionRefused(c) \/ AcquireDecisionLease(c)
  \/ Reread(c) \/ Reload(c) \/ CheckSnapshot(c) \/ Restore(c)
  \/ CloseTicket(c) \/ BeginCommit(c) \/ RenewWriter(c) \/ RenewDecision(c)
  \/ Confirm(c) \/ ConfirmLoad(c) \/ AppendToJournal(c) \/ SwapSnapshot(c)
  \/ ReleaseDecision(c) \/ ReleaseWriter(c)

ArbiterNext ==
  \/ \E c \in Callers : Call(c)
  \/ Restart
  \/ Tick /\ UNCHANGED arbiterVars

ArbiterSpec == ArbiterInit /\ [][ArbiterNext]_arbVars

-----------------------------------------------------------------------------
(* Properties *)

\* Whatever calls, expiries and restarts did, the journal replays: _recover
\* never rejects it, and observations in it never go back in time.
JournalReplays ==
  /\ Replays(journal)
  /\ \A i \in DOMAIN journal : LatestTick(Before(journal, i)) <= LatestTick(journal[i])

\* The snapshot is some state the journal went through: a crash between the
\* append and the swap leaves it behind, never ahead.
SnapshotIsJournaled ==
  snapshot # None => snapshot = <<>> \/ snapshot \in Range(journal)

\* "Serialize tenant decisions": one ticket at a time, and its decision is
\* made on the newest state until it is journaled itself, even when the lease
\* has run out meanwhile.
HoldsTicket(c) == pc[c] \in {"check", "restore", "open"} \cup Committing

TicketIsExclusiveAndCurrent ==
  \A c \in Callers : HoldsTicket(c) =>
    /\ \A d \in Callers \ {c} : ~HoldsTicket(d)
    /\ Newest(journal) = IF pc[c] = "swap" THEN Reduce(base[c], turn[c]) ELSE base[c]

\* Neither a failed call nor a closed ticket leaves a lease behind: nobody
\* would ever get it again, for acquire never replaces an expired holder.
NoLeaseIsLeft ==
  (\A c \in Callers : pc[c] \in {"idle", "read", "load", "writer"})
    => \A s \in Slots : current[s] = NoHandle

\* Under the leases recovery never finds the snapshot ahead of the journal.
\* (Without them it can: the journal was read before a commit and the
\* snapshot after it.)
RecoveryIsSoundUnderLease ==
  [][\A c \in Callers :
       outcome'[c] = "corrupt" /\ outcome[c] # "corrupt" => pc[c] = "load"]_arbVars

\* The journal, and the snapshot beside it, tell one story, whatever call,
\* expiry or restart came in between.
StateIsRecoverable == ArbiterTypeOK /\ JournalReplays /\ SnapshotIsJournaled

\* Calls are one after the other, and none leaves a lease behind.
CallsAreSerialized == TicketIsExclusiveAndCurrent /\ NoLeaseIsLeft
=============================================================================
