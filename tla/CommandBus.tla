----------------------------- MODULE CommandBus -----------------------------
(***************************************************************************)
(* The director command bus of one tenant: the director appends commands   *)
(* to a ledger file (alliance/director.py), processes of the tenant drain  *)
(* it (alliance/applier.py), and both work through the files that          *)
(* FileCommandBus (adapters/runtime/command_bus.py) keeps:                 *)
(*                                                                         *)
(*   commands.jsonl   one command per line, appended, never rewritten      *)
(*   applied.json     the applied markers, read, extended and renamed      *)
(*   audit.jsonl      what became of each command, best effort             *)
(*                                                                         *)
(* A drain holds the writer lease of FileLeases.  Every access to a file   *)
(* is a step of its own: between two of them the other process, the        *)
(* director, the clock of the lease and the game tick may move, and any    *)
(* process may die.  The lease is obtained the way the tests and the live  *)
(* command do: acquire, or replace the exact holder that was observed.     *)
(*                                                                         *)
(* Commands are those Director.issue publishes: validate_issuance refuses  *)
(* the others and leaves no trace but an audit line.  Nothing but a person *)
(* reads the audit, so of its events only APPLIED is kept.                 *)
(***************************************************************************)
EXTENDS FileLeases, Sequences, SequencesExt

CONSTANTS
  Commands,     \* records [id, key, expires, stale]: stale means issued for a
                \* generation the tenant has left
  Malformed,    \* a ledger line that does not decode
  MaxPublish,   \* bound: lines of the ledger
  MaxGameTick,  \* bound: last game tick
  MaxFaults     \* bound: appends and writes that go wrong, and deaths

ASSUME LineKinds == Malformed \notin Commands
ASSUME CommandFields == \A c \in Commands : c.expires \in Nat /\ c.stale \in BOOLEAN
ASSUME BusBoundsAreNat ==
  MaxPublish \in Nat /\ MaxGameTick \in Nat /\ MaxFaults \in Nat

VARIABLES
  ledger,   \* complete lines of commands.jsonl
  torn,     \* whether commands.jsonl ends in an unfinished line
  applied,  \* entries of applied.json
  audit,    \* ids of the commands audit.jsonl says were applied
  tick,     \* game tick, as now() reports it
  pc,       \* where each process is in drain
  work,     \* locals of that drain; its commands by their lines in the ledger
  faults

busVars == <<ledger, torn, applied, audit, tick, pc, work, faults>>
commandVars == <<vars, busVars>>

\* How a drain left off: with its results, on a line that does not decode, or
\* with another exception (no lease, a lost lease, an audit or a release that
\* cannot be written).
Rest == {"idle", "malformed", "failed"}
Running == {"acquire", "replace", "check", "recheck", "mark", "write", "record", "release"}

Dispositions == {"none", "APPLIED", "DUPLICATE", "EXPIRED", "REJECTED"}
Entry == [id : {c.id : c \in Commands}, key : {c.key : c \in Commands}, tick : Nat]
Drain == [pending : SUBSET (Nat \ {0}), at : Nat, fresh : Nat, read : Seq(Entry),
          verdict : Dispositions, ends : Rest]
NoWork == [pending |-> {}, at |-> 0, fresh |-> 0, read |-> <<>>,
           verdict |-> "none", ends |-> "idle"]

MayFail == faults + crashes < MaxFaults

Current(p) == ledger[work[p].at]
First(i, lines) == i \in lines /\ \A j \in lines : i <= j

Marks(entries, c) == \E e \in ToSet(entries) : e.id = c.id \/ e.key = c.key
IsApplied(c) == Marks(applied, c)

-----------------------------------------------------------------------------
BusInit ==
  /\ Init
  /\ ledger = <<>> /\ torn = FALSE /\ applied = <<>> /\ audit = {}
  /\ tick = 0 /\ faults = 0
  /\ pc = [p \in Procs |-> "idle"]
  /\ work = [p \in Procs |-> NoWork]

(* The director. *)

\* The line written on top of an unfinished one is one line with it.
Line(c) == IF torn THEN Malformed ELSE c

Publish ==
  /\ Len(ledger) < MaxPublish
  /\ \E c \in Commands : ledger' = Append(ledger, Line(c))
  /\ torn' = FALSE
  /\ UNCHANGED <<vars, applied, audit, tick, pc, work, faults>>

\* The append is cut short: the disk is full or the director dies in it.
PublishTorn ==
  /\ MayFail
  /\ torn' = TRUE
  /\ faults' = faults + 1
  /\ UNCHANGED <<vars, ledger, applied, audit, tick, pc, work>>

-----------------------------------------------------------------------------
(* The tenant: drain. *)

GoTo(p, where) == pc' = [pc EXCEPT ![p] = where]
LeaseKept == UNCHANGED vars
FilesKept == UNCHANGED <<ledger, torn, applied, audit, tick, faults>>

\* The pending list is complete before the lease is asked for.  One line that
\* does not decode fails the whole drain; an unfinished last line is skipped.
\* (The markers are read just before the ledger; one that is set in between
\* leaves a command on the list that Check finds applied.)
ReadPending(p) ==
  /\ pc[p] \in Rest
  /\ IF Malformed \in ToSet(ledger)
     THEN GoTo(p, "malformed") /\ UNCHANGED work
     ELSE LET todo == {i \in DOMAIN ledger : ~IsApplied(ledger[i])}
          IN IF todo = {}
             THEN GoTo(p, "idle") /\ UNCHANGED work
             ELSE /\ GoTo(p, "acquire")
                  /\ \E i \in todo : /\ First(i, todo)
                                     /\ work' = [work EXCEPT ![p] = [@ EXCEPT !.pending = todo, !.at = i]]
  /\ LeaseKept /\ FilesKept

Acquire(p) ==
  /\ pc[p] = "acquire"
  /\ AcquireWriter(p)
  /\ GoTo(p, "check")
  /\ FilesKept /\ UNCHANGED work

\* A tenant that has a record is taken over from the holder it names.
Observe(p) ==
  /\ pc[p] = "acquire"
  /\ ~MayAcquire(p)
  /\ IF record.fence # 0
     THEN ObserveWriterLease(p) /\ GoTo(p, "replace") /\ UNCHANGED work
     ELSE /\ GoTo(p, "failed")
          /\ work' = [work EXCEPT ![p] = NoWork]
          /\ LeaseKept
  /\ FilesKept

Replace(p) ==
  /\ pc[p] = "replace"
  /\ ReplaceWriter(p)
  /\ GoTo(p, "check")
  /\ FilesKept /\ UNCHANGED work

Unavailable(p) ==
  /\ pc[p] = "replace"
  /\ ~MayReplace(p)
  /\ GoTo(p, "failed")
  /\ work' = [work EXCEPT ![p] = NoWork]
  /\ LeaseKept /\ FilesKept

\* The next command of the list, or the end of it.
Later(w) == {i \in w.pending : i > w.at}
Turn(w, i) == [w EXCEPT !.at = i, !.fresh = 0, !.read = <<>>, !.verdict = "none"]
Advance(p) ==
  IF Later(work[p]) = {}
  THEN GoTo(p, "release") /\ work' = [work EXCEPT ![p] = Turn(@, @.at)]
  ELSE /\ GoTo(p, "check")
       /\ \E i \in Later(work[p]) : /\ First(i, Later(work[p]))
                                   /\ work' = [work EXCEPT ![p] = Turn(@, i)]

Audited(p) ==
  IF work[p].verdict = "APPLIED" THEN audit \cup {Current(p).id} ELSE audit

Decide(p, verdict) ==
  /\ work' = [work EXCEPT ![p].verdict = verdict]
  /\ GoTo(p, "record")

\* validate_command, then the cheap look at the markers.
Check(p) ==
  /\ pc[p] = "check"
  /\ IF tick >= Current(p).expires THEN Decide(p, "EXPIRED")
     ELSE IF Current(p).stale THEN Decide(p, "REJECTED")
     ELSE IF IsApplied(Current(p)) THEN Decide(p, "DUPLICATE")
     ELSE GoTo(p, "recheck") /\ UNCHANGED work
  /\ LeaseKept /\ FilesKept

\* Mutant: the fresh tick is taken for the marker and not compared.
RecheckMutExpiry(p) ==
  /\ pc[p] = "recheck"
  /\ work' = [work EXCEPT ![p].fresh = tick]
  /\ GoTo(p, "mark")
  /\ LeaseKept /\ FilesKept

\* The authoritative checks, on a fresh tick.
Recheck(p) ==
  /\ pc[p] = "recheck"
  /\ IF tick >= Current(p).expires THEN Decide(p, "EXPIRED")
     ELSE IF IsApplied(Current(p)) THEN Decide(p, "DUPLICATE")
     ELSE work' = [work EXCEPT ![p].fresh = tick] /\ GoTo(p, "mark")
  /\ LeaseKept /\ FilesKept

\* mark_applied up to its read: a lease that ran out fails the drain, whatever
\* it applied before.
MarkRead(p) ==
  /\ pc[p] = "mark"
  /\ IF ~Active(p)
     THEN work' = [work EXCEPT ![p].ends = "failed"] /\ GoTo(p, "release")
     ELSE IF IsApplied(Current(p))
     THEN Decide(p, "DUPLICATE")
     ELSE work' = [work EXCEPT ![p].read = applied] /\ GoTo(p, "write")
  /\ LeaseKept /\ FilesKept

\* Mutant: the new record never replaces the old one.
MarkWriteMutNoReplace(p) ==
  /\ pc[p] = "write"
  /\ Decide(p, "APPLIED")
  /\ LeaseKept /\ FilesKept

\* mark_applied from its read on: the record that was read, and one entry.
MarkWrite(p) ==
  /\ pc[p] = "write"
  /\ applied' = Append(work[p].read,
       [id |-> Current(p).id, key |-> Current(p).key, tick |-> work[p].fresh])
  /\ Decide(p, "APPLIED")
  /\ LeaseKept
  /\ UNCHANGED <<ledger, torn, audit, tick, faults>>

\* Mutant: an event the sink refuses ends the command list quietly.
RecordEventMutSkips(p) ==
  /\ pc[p] = "record"
  /\ audit' \in {audit, Audited(p)}
  /\ GoTo(p, "release")
  /\ UNCHANGED work
  /\ LeaseKept
  /\ UNCHANGED <<ledger, torn, applied, tick, faults>>

\* The audit event, kept, or refused by the sink and suppressed.
RecordEvent(p) ==
  /\ pc[p] = "record"
  /\ \/ audit' = Audited(p) /\ UNCHANGED faults
     \/ MayFail /\ faults' = faults + 1 /\ UNCHANGED audit
  /\ Advance(p)
  /\ LeaseKept
  /\ UNCHANGED <<ledger, torn, applied, tick>>

\* Opening or writing audit.jsonl raises OSError: record suppresses nothing
\* but JsonlWriterError, so the drain ends here.
RecordRaises(p) ==
  /\ pc[p] = "record"
  /\ MayFail /\ faults' = faults + 1
  /\ GoTo(p, "release")
  /\ work' = [work EXCEPT ![p].ends = "failed"]
  /\ LeaseKept
  /\ UNCHANGED <<ledger, torn, applied, audit, tick>>

\* Mutant: only a drain that succeeds releases.
EndDrainMutOnlySuccess(p) ==
  /\ pc[p] = "release"
  /\ IF work[p].ends = "idle" THEN Release(p) ELSE LeaseKept
  /\ GoTo(p, work[p].ends)
  /\ work' = [work EXCEPT ![p] = NoWork]
  /\ FilesKept

\* finally: await lease.release()
EndDrain(p) ==
  /\ pc[p] = "release"
  /\ Release(p)
  /\ GoTo(p, work[p].ends)
  /\ work' = [work EXCEPT ![p] = NoWork]
  /\ FilesKept

\* The lease record cannot be written: the lease stays, and so does its lock.
EndDrainFails(p) ==
  /\ pc[p] = "release"
  /\ MayFail /\ faults' = faults + 1
  /\ GoTo(p, "failed")
  /\ work' = [work EXCEPT ![p] = NoWork]
  /\ LeaseKept
  /\ UNCHANGED <<ledger, torn, applied, audit, tick>>

-----------------------------------------------------------------------------
Dies(p) ==
  /\ MayFail
  /\ \/ Crash(p)
     \/ pc[p] \in {"acquire", "replace"} /\ CrashWhileIssuing(p)
  /\ GoTo(p, "idle")
  /\ work' = [work EXCEPT ![p] = NoWork]
  /\ FilesKept

GameTick ==
  /\ tick < MaxGameTick
  /\ tick' = tick + 1
  /\ UNCHANGED <<vars, ledger, torn, applied, audit, pc, work, faults>>

LeaseClock == (Tick \/ StepBack) /\ UNCHANGED busVars

DrainStep(p) ==
  \/ ReadPending(p) \/ Acquire(p) \/ Observe(p) \/ Replace(p) \/ Unavailable(p)
  \/ Check(p) \/ Recheck(p) \/ MarkRead(p) \/ MarkWrite(p) \/ RecordEvent(p)
  \/ RecordRaises(p) \/ EndDrain(p) \/ EndDrainFails(p)

BusNext ==
  \/ Publish \/ PublishTorn \/ GameTick \/ LeaseClock
  \/ \E p \in Procs : DrainStep(p) \/ Dies(p)

BusSpec == BusInit /\ [][BusNext]_commandVars

\* The caller drains again and again, and the clock of the lease runs.
FairBusSpec ==
  /\ BusSpec
  /\ WF_commandVars(Tick /\ UNCHANGED busVars)
  /\ \A p \in Procs : WF_commandVars(DrainStep(p))

-----------------------------------------------------------------------------
(* Properties *)

BusTypeOK ==
  /\ TypeOK
  /\ ledger \in Seq(Commands \cup {Malformed}) /\ torn \in BOOLEAN
  /\ applied \in Seq(Entry)
  /\ audit \subseteq {c.id : c \in Commands}
  /\ tick \in Nat /\ faults \in Nat
  /\ pc \in [Procs -> Rest \cup Running]
  /\ work \in [Procs -> Drain]
  /\ \A p \in Procs :
       /\ \A i \in work[p].pending : i \in DOMAIN ledger /\ ledger[i] \in Commands
       /\ pc[p] \in Running => work[p].at \in work[p].pending

\* A drain that returns has passed over nothing it found pending: each command
\* is marked, under its id or its key, or it was issued for another generation
\* or came too late (drain: nothing is silently dropped).
DrainSettlesAll ==
  \A p \in Procs :
    pc[p] = "release" /\ work[p].ends = "idle" =>
      \A i \in work[p].pending :
        IsApplied(ledger[i]) \/ ledger[i].stale \/ tick >= ledger[i].expires

\* What the audit says was applied is durably marked, so an operator who reads
\* APPLIED can rely on it whatever died since (_handle: marked, then recorded).
AuditedIsMarked ==
  \A id \in audit : \E m \in ToSet(applied) : m.id = id

\* A drain that ends well has settled what it read, and what the audit trail
\* says was done is marked.
DrainsAreComplete == BusTypeOK /\ DrainSettlesAll /\ AuditedIsMarked

\* The markers that are read and rewritten by processes that crash, expire and
\* take over from one another are those of a bus that takes every effect at
\* most once, in time, and for good (applier module docstring).
Published == ToSet(ledger) \cap Commands
Abstract == INSTANCE OnceOnly WITH published <- Published, effects <- applied

ImplementsOnceOnly == Abstract!Spec

\* When no append and no record goes wrong, every command in the ledger is
\* eventually applied, unless it expires or belongs to another generation, and
\* however a process dies; the tokens and the clock of the model must last.
NoMoreLeases == lock = None /\ (record.fence = MaxFence \/ record.expires > MaxTime)
EveryCommandIsSettled ==
  \A c \in {d \in Commands : ~d.stale} :
    c \in ToSet(ledger) ~>
      (IsApplied(c) \/ tick >= c.expires \/ faults > 0 \/ NoMoreLeases)

\* A torn tail is skipped, so no drain fails on the ledger after an append
\* that was interrupted (command_bus.py:18-20).
TornTailIsSkipped == \A p \in Procs : pc[p] # "malformed"
=============================================================================
