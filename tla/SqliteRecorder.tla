--------------------------- MODULE SqliteRecorder ---------------------------
(***************************************************************************)
(* SqliteTickRecorder (adapters/recorder/sqlite.py): the tick records of   *)
(* one tenant in a database.  One recorder at a time, by a registry in the *)
(* process and a lock between processes; a database that was torn is       *)
(* refused, not made anew; a tick is recorded once, in a transaction, and  *)
(* a repeated record must be the same.                                     *)
(*                                                                         *)
(* The schema is made table by table, each in a transaction of its own;    *)
(* the process may die between two of them, and between a commit and the   *)
(* return of the call.  A result is [tick, decision, outcome].             *)
(***************************************************************************)
EXTENDS Naturals, FiniteSets, Sequences

CONSTANTS
  DbProcs,      \* processes that record for the tenant
  DbFree,       \* no process
  DbResults,    \* the results that may be recorded
  MaxDbFaults,  \* bound: crashes, failed calls and torn files
  MaxDbOpens    \* bound: recorders opened

ASSUME DbFreeIsNoProcess == DbFree \notin DbProcs

VARIABLES
  dbLock,       \* the process that holds the lock of the target, or DbFree
  dbState,      \* each process: closed, creating or open
  dbFile,       \* what is on disk: empty, sound or torn
  dbTables,     \* tables there are, in the order they are made
  dbRows,       \* tick_records, by tick
  dbStates,     \* rows of tick_state_records
  dbAcked,      \* results whose record_tick returned
  dbFaults, dbOpens

dbVars == <<dbLock, dbState, dbFile, dbTables, dbRows, dbStates, dbAcked, dbFaults, dbOpens>>

Tables == <<"tick_records", "loop_records", "tick_state_records">>
ExpectedTables == {"tick_records", "loop_records"}

DbInit ==
  /\ dbLock = DbFree
  /\ dbState = [p \in DbProcs |-> "closed"]
  /\ dbFile = "empty" /\ dbTables = 0
  /\ dbRows = << >> /\ dbStates = 0 /\ dbAcked = {}
  /\ dbFaults = 0 /\ dbOpens = 0

\* Anything can be opened.
VerifyNothing == TRUE

\* _verify_existing_database.
VerifyExistingDatabase ==
  \/ dbFile = "empty"
  \/ dbFile = "sound" /\ ExpectedTables \subseteq {Tables[i] : i \in 1 .. dbTables}

\* __init__ up to the schema; a database that is refused gives the lock back.
OpenDatabase(p) ==
  /\ dbState[p] = "closed" /\ dbLock = DbFree
  /\ dbOpens < MaxDbOpens /\ dbOpens' = dbOpens + 1
  /\ IF VerifyExistingDatabase
       THEN dbLock' = p /\ dbState' = [dbState EXCEPT ![p] = "creating"]
       ELSE UNCHANGED <<dbLock, dbState>>
  /\ UNCHANGED <<dbFile, dbTables, dbRows, dbStates, dbAcked, dbFaults>>

\* executescript(_SCHEMA), one table; the recorder is open after the last.
CreateTable(p) ==
  /\ dbState[p] = "creating"
  /\ IF dbTables < Len(Tables)
       THEN dbTables' = dbTables + 1 /\ dbFile' = "sound" /\ UNCHANGED dbState
       ELSE dbState' = [dbState EXCEPT ![p] = "open"] /\ UNCHANGED <<dbTables, dbFile>>
  /\ UNCHANGED <<dbLock, dbRows, dbStates, dbAcked, dbFaults, dbOpens>>

\* The primary key on the tick, the unique index on the decision.
Conflicts(r) ==
  r.tick \in DOMAIN dbRows \/ \E t \in DOMAIN dbRows : dbRows[t].decision = r.decision

\* _row_matches.
RowMatches(r) == r.tick \in DOMAIN dbRows /\ dbRows[r.tick] = r

WithRow(r) == [t \in DOMAIN dbRows \cup {r.tick} |-> IF t = r.tick THEN r ELSE dbRows[t]]

\* The newest record of a tick replaces the older one.
RecordTickOrReplace(p, r) ==
  /\ dbState[p] = "open"
  /\ dbRows' = WithRow(r) /\ dbAcked' = dbAcked \cup {r}
  /\ UNCHANGED <<dbLock, dbState, dbFile, dbTables, dbStates, dbFaults, dbOpens>>

\* record_tick; a repeated record that differs raises.
RecordTick(p, r) ==
  /\ dbState[p] = "open"
  /\ IF ~Conflicts(r) THEN dbRows' = WithRow(r) /\ dbAcked' = dbAcked \cup {r}
     ELSE /\ dbAcked' = IF RowMatches(r) THEN dbAcked \cup {r} ELSE dbAcked
          /\ UNCHANGED dbRows
  /\ UNCHANGED <<dbLock, dbState, dbFile, dbTables, dbStates, dbFaults, dbOpens>>

\* record_tick_state: no key, and an error is dropped.
RecordTickState(p) ==
  /\ dbState[p] = "open" /\ dbStates < 1
  /\ dbStates' = dbStates + 1
  /\ UNCHANGED <<dbLock, dbState, dbFile, dbTables, dbRows, dbAcked, dbFaults, dbOpens>>

CloseDatabase(p) ==
  /\ dbState[p] # "closed"
  /\ dbState' = [dbState EXCEPT ![p] = "closed"]
  /\ dbLock' = DbFree
  /\ UNCHANGED <<dbFile, dbTables, dbRows, dbStates, dbAcked, dbFaults, dbOpens>>

Fault == dbFaults < MaxDbFaults /\ dbFaults' = dbFaults + 1

\* The process dies: between two calls, or after a commit whose call has not
\* returned; the OS frees the lock.
DbCrash(p) ==
  /\ dbState[p] # "closed" /\ Fault
  /\ dbState' = [dbState EXCEPT ![p] = "closed"]
  /\ dbLock' = DbFree
  /\ \/ UNCHANGED dbRows
     \/ /\ dbState[p] = "open"
        /\ \E r \in DbResults : ~Conflicts(r) /\ dbRows' = WithRow(r)
  /\ UNCHANGED <<dbFile, dbTables, dbStates, dbAcked, dbOpens>>

\* The file is damaged while nobody has it open: its pages do not fit, or its
\* tables are gone.
DbTorn ==
  /\ dbLock = DbFree /\ dbFile = "sound" /\ Fault
  /\ \/ dbFile' = "torn" /\ UNCHANGED <<dbTables, dbRows>>
     \/ dbTables' = 0 /\ dbRows' = << >> /\ UNCHANGED dbFile
  /\ UNCHANGED <<dbLock, dbState, dbStates, dbAcked, dbOpens>>

DbNext ==
  \/ \E p \in DbProcs :
       \/ OpenDatabase(p) \/ CreateTable(p) \/ RecordTickState(p) \/ CloseDatabase(p) \/ DbCrash(p)
       \/ \E r \in DbResults : RecordTick(p, r)
  \/ DbTorn

DbSpec == DbInit /\ [][DbNext]_dbVars

-----------------------------------------------------------------------------
\* What record_tick has said is recorded is there for whoever has the database
\* open, as it was given, whatever process gave it and whatever crashed or was
\* damaged since; no tick and no decision was recorded in two ways.
RecordsStand ==
  /\ \A r, s \in dbAcked : (r.tick = s.tick \/ r.decision = s.decision) => r = s
  /\ \A p \in DbProcs : dbState[p] = "open" => \A r \in dbAcked : RowMatches(r)
=============================================================================
