----------------------------- MODULE JsonlWriter -----------------------------
(***************************************************************************)
(* JsonlWriter (telemetry/jsonl_writer.py): best-effort telemetry.  A      *)
(* write that fails in the append is counted, not raised; a torn tail      *)
(* raises, or is truncated when the writer was told to recover.  The       *)
(* process may die and be started again on the same file.                  *)
(*                                                                         *)
(* write and flush do not suspend, and the registry keeps a second writer  *)
(* of the process away from the file, so a call is a step.                 *)
(***************************************************************************)
EXTENDS JsonlFile, FiniteSets

CONSTANTS
  MaxRow,     \* bound: rows written
  MaxFaults,  \* bound: appends that fail
  MaxStarts   \* bound: writers created

\* What the bounds must be.
WriterBounds == MaxRow \in Nat /\ MaxFaults \in Nat /\ MaxStarts \in Nat

VARIABLES
  writer,   \* "none", "new" (_opened is False), "open" or "closed"
  recover,  \* recover_torn_tail
  dropped,  \* dropped_count
  row,      \* rows given to write so far, in this and earlier processes
  kept,     \* rows whose write returned without counting a drop
  raised,   \* TornTailErrors raised
  faults, starts

writerVars == <<writer, recover, dropped, row, kept, raised, faults, starts>>
vars == <<fileVars, writerVars>>

Init ==
  /\ FileInit(<<1>>)
  /\ writer = "none" /\ recover \in BOOLEAN
  /\ dropped = 0 /\ row = 1 /\ kept = {1} /\ raised = 0 /\ faults = 0 /\ starts = 0

\* The registry lets a new writer in when the last one is closed or its
\* process is gone.
Create ==
  /\ writer \in {"none", "closed"}
  /\ starts < MaxStarts /\ starts' = starts + 1
  /\ writer' = "new"
  /\ recover' \in BOOLEAN
  /\ dropped' = 0
  /\ UNCHANGED <<fileVars, row, kept, raised, faults>>

IsOpen == writer \in {"new", "open"}

\* _ensure_open looks at the tail once; the writer counts as opened whatever
\* it finds.
FindsTail == writer = "new" /\ torn
TailRaises == FindsTail /\ ~recover

\* The truncated tail is counted as a drop.
DropsOfTail == IF FindsTail THEN 1 ELSE 0

\* The tail the append meets.
TailLeft == torn /\ ~FindsTail

\* write or flush on a torn file: TornTailError.  (The row was not counted.)
RaiseTornTail ==
  /\ IsOpen /\ TailRaises
  /\ writer' = "open"
  /\ raised' = raised + 1
  /\ UNCHANGED <<fileVars, recover, dropped, row, kept, faults, starts>>

\* Truncating the tail fails: the OSError is raised as it is, and the tail
\* stays.
TruncateFails ==
  /\ IsOpen /\ FindsTail /\ recover
  /\ faults < MaxFaults /\ faults' = faults + 1
  /\ writer' = "open"
  /\ UNCHANGED <<fileVars, recover, dropped, row, kept, raised, starts>>

\* The row reaches the file, if not always on a line of its own.
WriteKept ==
  /\ IsOpen /\ ~TailRaises
  /\ row < MaxRow /\ row' = row + 1
  /\ AppendRow(row', TailLeft)
  /\ kept' = kept \cup {row'}
  /\ dropped' = dropped + DropsOfTail
  /\ writer' = "open"
  /\ UNCHANGED <<recover, raised, faults, starts>>

\* Mutant: the failed append is swallowed.
WriteDroppedMutSilent ==
  /\ IsOpen /\ ~TailRaises
  /\ row < MaxRow /\ row' = row + 1
  /\ faults < MaxFaults /\ faults' = faults + 1
  /\ AppendNothing(TailLeft) \/ AppendPart(TailLeft)
  /\ dropped' = dropped + DropsOfTail
  /\ kept' = kept \cup {row'}
  /\ writer' = "open"
  /\ UNCHANGED <<recover, raised, starts>>

\* The append fails: counted, not raised.
WriteDropped ==
  /\ IsOpen /\ ~TailRaises
  /\ row < MaxRow /\ row' = row + 1
  /\ faults < MaxFaults /\ faults' = faults + 1
  /\ AppendNothing(TailLeft) \/ AppendPart(TailLeft)
  /\ dropped' = dropped + DropsOfTail + 1
  /\ writer' = "open"
  /\ UNCHANGED <<recover, kept, raised, starts>>

\* flush on a file that does not raise; its fsync may fail, and raise.
Flush ==
  /\ IsOpen /\ ~TailRaises
  /\ torn' = TailLeft
  /\ \/ dropped' = dropped + DropsOfTail /\ UNCHANGED faults
     \/ faults < MaxFaults /\ faults' = faults + 1 /\ dropped' = dropped + DropsOfTail + 1
  /\ writer' = "open"
  /\ UNCHANGED <<active, backups, recover, row, kept, raised, starts>>

Close ==
  /\ IsOpen
  /\ writer' = "closed"
  /\ UNCHANGED <<fileVars, recover, dropped, row, kept, raised, faults, starts>>

\* The process dies, in an append or between two.
Crash ==
  /\ writer # "none"
  /\ writer' = "none"
  /\ \/ UNCHANGED <<fileVars, row, faults>>
     \/ /\ IsOpen /\ ~TailRaises
        /\ row < MaxRow /\ row' = row + 1
        /\ faults < MaxFaults /\ faults' = faults + 1
        /\ AppendNothing(TailLeft) \/ AppendPart(TailLeft)
  /\ UNCHANGED <<recover, dropped, kept, raised, starts>>

Next ==
  \/ Create \/ RaiseTornTail \/ TruncateFails \/ WriteKept \/ WriteDropped \/ Flush \/ Close
  \/ Crash

Spec == Init /\ [][Next]_vars

-----------------------------------------------------------------------------
(* Properties *)

TypeOK ==
  /\ FileTypeOK
  /\ writer \in {"none", "new", "open", "closed"} /\ recover \in BOOLEAN
  /\ dropped \in Nat /\ row \in Nat /\ raised \in Nat
  /\ kept \subseteq 1 .. row
  /\ faults \in 0 .. MaxFaults /\ starts \in 0 .. MaxStarts

\* A row whose write returned without counting a drop is on disk or was
\* rotated out, except that a torn file costs one such row, the next: each is
\* paid for by a fault or by a TornTailError the caller was given.
LossIsBounded == Cardinality(Missing(kept)) <= faults + raised

\* While nothing goes wrong on a file that was whole, every row still within
\* the retention is there (docs/telemetry.md, rotation: 4 backups).
RetentionHolds ==
  faults = 0 /\ raised = 0 /\ dropped = 0 /\ ~torn =>
    \A r \in kept : r + MaxLines * MaxBackups >= row => r \in OnDisk
=============================================================================
