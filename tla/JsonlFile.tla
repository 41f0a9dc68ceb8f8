------------------------------ MODULE JsonlFile ------------------------------
(***************************************************************************)
(* A JSONL file with rotated backups, as append_jsonl_line writes it       *)
(* (telemetry/jsonl_writer.py).  A line is the number of the row it holds, *)
(* or Garbage.  An append that is cut short leaves the file torn: it ends  *)
(* in part of a line, and whatever is appended next ends up in that line.  *)
(*                                                                         *)
(* The size limit is in lines.  Every operator below is one call of        *)
(* append_jsonl_line, or of what its callers do to the tail, as a          *)
(* condition on the next state.                                            *)
(***************************************************************************)
EXTENDS Naturals, Sequences, SequencesExt

CONSTANTS
  MaxLines,   \* JsonlRotationOptions.max_bytes, in lines
  MaxBackups  \* JsonlRotationOptions.max_backups; 0 (delete) is not modelled

\* What the constants must be.
RotationOptions == MaxLines \in Nat \ {0} /\ MaxBackups \in Nat \ {0}

VARIABLES
  active,  \* complete lines of the file
  torn,    \* whether it ends in part of a line
  backups  \* backups[i] is <path>.i, <<>> while there is none

fileVars == <<active, torn, backups>>

Garbage == 0
Line == Nat

FileTypeOK ==
  /\ active \in Seq(Line) /\ Len(active) <= MaxLines
  /\ torn \in BOOLEAN
  /\ backups \in [1 .. MaxBackups -> Seq(Line)]

\* A file left by an earlier process, complete or not.
FileInit(rows) ==
  /\ active = rows
  /\ torn \in BOOLEAN
  /\ backups = [i \in 1 .. MaxBackups |-> <<>>]

-----------------------------------------------------------------------------

\* _rotate_jsonl: the oldest backup is removed, then the others move up one by
\* one, the oldest first; this is what k moves leave.
Shifted(k) ==
  [i \in 1 .. MaxBackups |->
     IF i > MaxBackups - k THEN backups[i - 1]
     ELSE IF i = MaxBackups - k THEN <<>>
     ELSE backups[i]]

\* In what follows, tail says whether the file is torn when the append begins:
\* the caller may have truncated it.
Content(tail) == IF tail THEN Append(active, Garbage) ELSE active

NeedsRotation(tail) ==
  Content(tail) # <<>> /\ Len(Content(tail)) + 1 > MaxLines

\* Mutant: the file replaces its newest backup.
RotateMutOverwrites(tail) == backups' = [backups EXCEPT ![1] = Content(tail)]

\* The last move takes the file itself, torn or not.
Rotate(tail) == backups' = [Shifted(MaxBackups - 1) EXCEPT ![1] = Content(tail)]

RotateIfNeeded(tail) ==
  IF NeedsRotation(tail) THEN Rotate(tail) ELSE UNCHANGED backups

AppendRow(row, tail) ==
  /\ RotateIfNeeded(tail)
  /\ active' = IF NeedsRotation(tail) THEN <<row>>
               ELSE Append(active, IF tail THEN Garbage ELSE row)
  /\ torn' = FALSE

\* The write is cut short, by a full disk or a crash.
AppendPart(tail) ==
  /\ RotateIfNeeded(tail)
  /\ active' = IF NeedsRotation(tail) THEN <<>> ELSE active
  /\ torn' = TRUE

\* The file cannot be opened, before or after the rotation, or the rotation
\* stops at one of its moves.
AppendNothing(tail) ==
  \/ UNCHANGED <<active, backups>> /\ torn' = tail
  \/ /\ NeedsRotation(tail)
     /\ \E k \in 0 .. MaxBackups - 1 : backups' = Shifted(k)
     /\ UNCHANGED active /\ torn' = tail
  \/ /\ NeedsRotation(tail)
     /\ Rotate(tail)
     /\ active' = <<>> /\ torn' = FALSE

-----------------------------------------------------------------------------
\* The file itself, and its backups, the newest first.
File(i) == IF i = 0 THEN active ELSE backups[i]

OnDisk == (UNION {ToSet(File(i)) : i \in 0 .. MaxBackups}) \ {Garbage}

\* Rows newer than the oldest on disk that are not on disk.
Missing(rows) ==
  {r \in rows : r \notin OnDisk /\ \E s \in OnDisk : s < r}

\* Whatever goes wrong in an append or a rotation, backups and file read in
\* the order the rows were written, each once (docs/telemetry.md, rotation).
RowsInOrder ==
  \A i, j \in 0 .. MaxBackups : \A k \in DOMAIN File(i), l \in DOMAIN File(j) :
    /\ Garbage \notin {File(i)[k], File(j)[l]}
    /\ i > j \/ (i = j /\ k < l)
    => File(i)[k] < File(j)[l]
=============================================================================
