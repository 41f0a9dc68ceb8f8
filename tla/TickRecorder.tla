---------------------------- MODULE TickRecorder ----------------------------
(***************************************************************************)
(* JsonlTickRecorder (adapters/recorder/jsonl.py): the tick records of one *)
(* tenant, on the same append as the telemetry but with other rules: one   *)
(* process at a time, by an OS lock the recorder keeps while it is open;   *)
(* a torn tail is truncated; a failed append raises, and the runtime goes  *)
(* on with the next tick; reading raises on a line it cannot parse.        *)
(***************************************************************************)
EXTENDS JsonlFile, FiniteSets

CONSTANTS
  Procs,      \* processes that record for the tenant
  None,       \* no process
  MaxRow,     \* bound: rows appended
  MaxFaults,  \* bound: appends that fail
  MaxOpens    \* bound: recorders opened

\* What the constants must be.
NoneIsNoProcess == None \notin Procs
RecorderBounds == MaxRow \in Nat /\ MaxFaults \in Nat /\ MaxOpens \in Nat

VARIABLES
  lock,     \* process that holds ticks.jsonl.lock, or None
  state,    \* each process: "closed", "open", or "checked" (_tail_checked)
  row,      \* rows given to the recorders so far
  kept,     \* rows whose append returned
  read,     \* rows the last successful read returned
  failed,   \* whether the last read raised
  faults, opens

recorderVars == <<lock, state, row, kept, read, failed, faults, opens>>
vars == <<fileVars, recorderVars>>

Init ==
  /\ FileInit(<<1>>)
  /\ lock = None
  /\ state = [p \in Procs |-> "closed"]
  /\ row = 1 /\ kept = {1} /\ read = {} /\ failed = FALSE /\ faults = 0 /\ opens = 0

\* Mutant: the lock is not asked for.
OpenMutNoLock(p) ==
  /\ state[p] = "closed"
  /\ opens < MaxOpens /\ opens' = opens + 1
  /\ lock' = p
  /\ state' = [state EXCEPT ![p] = "open"]
  /\ UNCHANGED <<fileVars, row, kept, read, failed, faults>>

\* A second recorder, of this process or of another, raises.
Open(p) ==
  /\ state[p] = "closed"
  /\ lock = None
  /\ opens < MaxOpens /\ opens' = opens + 1
  /\ lock' = p
  /\ state' = [state EXCEPT ![p] = "open"]
  /\ UNCHANGED <<fileVars, row, kept, read, failed, faults>>

\* Mutant: the tail is looked at and left.
TailLeftMutKept(p) == torn

\* _ensure_tail_clean: the tail goes on the first access, whatever it is; an
\* append that tears the file later finds it checked.
TailLeft(p) == torn /\ state[p] = "checked"

Checked(p) == state' = [state EXCEPT ![p] = "checked"]

AppendRecord(p) ==
  /\ state[p] # "closed"
  /\ row < MaxRow /\ row' = row + 1
  /\ AppendRow(row', TailLeft(p))
  /\ kept' = kept \cup {row'}
  /\ Checked(p)
  /\ UNCHANGED <<lock, read, failed, faults, opens>>

\* RecorderError; the row is lost and the recorder stays open.
AppendRaises(p) ==
  /\ state[p] # "closed"
  /\ row < MaxRow /\ row' = row + 1
  /\ faults < MaxFaults /\ faults' = faults + 1
  /\ AppendNothing(TailLeft(p)) \/ AppendPart(TailLeft(p))
  /\ Checked(p)
  /\ UNCHANGED <<lock, kept, read, failed, opens>>

\* Mutant: what cannot be parsed is left out.
ReadMutLenient(p) ==
  /\ state[p] # "closed"
  /\ torn' = TailLeft(p)
  /\ Checked(p)
  /\ failed' = FALSE
  /\ read' = ToSet(active) \ {Garbage}
  /\ UNCHANGED <<active, backups, lock, row, kept, faults, opens>>

\* read_ticks, read_loop: the file alone, not its backups.  A torn tail counts
\* as a line.
Read(p) ==
  /\ state[p] # "closed"
  /\ torn' = TailLeft(p)
  /\ Checked(p)
  /\ failed' = (Garbage \in ToSet(Content(TailLeft(p))))
  /\ read' = IF failed' THEN {} ELSE ToSet(active)
  /\ UNCHANGED <<active, backups, lock, row, kept, faults, opens>>

Close(p) ==
  /\ state[p] # "closed"
  /\ state' = [state EXCEPT ![p] = "closed"]
  /\ lock' = None
  /\ UNCHANGED <<fileVars, row, kept, read, failed, faults, opens>>

\* The process dies in an append; the OS frees the lock.  (Between two appends
\* that is Close.)
CrashInAppend(p) ==
  /\ state[p] # "closed"
  /\ row < MaxRow /\ row' = row + 1
  /\ faults < MaxFaults /\ faults' = faults + 1
  /\ AppendNothing(TailLeft(p)) \/ AppendPart(TailLeft(p))
  /\ state' = [state EXCEPT ![p] = "closed"]
  /\ lock' = None
  /\ UNCHANGED <<kept, read, failed, opens>>

Next ==
  \E p \in Procs :
    \/ Open(p) \/ AppendRecord(p) \/ AppendRaises(p) \/ Read(p) \/ Close(p)
    \/ CrashInAppend(p)

Spec == Init /\ [][Next]_vars

-----------------------------------------------------------------------------
(* Properties *)

TypeOK ==
  /\ FileTypeOK
  /\ lock \in Procs \cup {None}
  /\ state \in [Procs -> {"closed", "open", "checked"}]
  /\ row \in Nat /\ kept \subseteq 1 .. row /\ read \subseteq 1 .. row
  /\ failed \in BOOLEAN
  /\ faults \in 0 .. MaxFaults /\ opens \in 0 .. MaxOpens

\* One recorder is open, and it is the one that has the lock: a crash frees
\* the tenant for the next (class docstring, single-writer).
OneRecorder ==
  \A p \in Procs : state[p] # "closed" <=> lock = p

\* A record whose append returned is on disk or was rotated out, except that a
\* failed append may cost the record after it as well.
LossIsBounded == Cardinality(Missing(kept)) <= faults

\* A read that returns has seen every record of the file it read and invented
\* none: what a failed append left behind is never taken for a record.
ReadsAreRecords ==
  [][read' # read /\ ~failed' => read' \subseteq kept' /\ read' = ToSet(active')]_vars
=============================================================================
