------------------------------ MODULE MCStores ------------------------------
(* What a tenant keeps in files: the orders of humans, the telemetry, and   *)
(* the tick records in JSON lines or in a database.  They share nothing, so *)
(* a behaviour is about one of them and the others stay where they start.   *)
(*                                                                         *)
(* Orders: stuck is two cases instead of eight, so that one of them may be  *)
(* silent, and the clock has a few ticks for the ten minutes of the stale   *)
(* age.  Telemetry: two lines to a file and two backups, so that rows are   *)
(* rotated out within six.  Records: two processes, three lines to a file.  *)
(* Database: two processes, a tick recorded twice, a decision used twice.   *)
EXTENDS HumanOrders, SqliteRecorder

CONSTANTS MaxLines, MaxBackups, MaxRow, MaxFaults, MaxStarts
VARIABLES active, torn, backups, writer, recover, dropped, written, kept, raised, faults, starts
telemetryVars == <<active, torn, backups, writer, recover, dropped, written, kept, raised, faults, starts>>
TelemetryFile == INSTANCE JsonlWriter WITH row <- written

CONSTANTS Procs, RecordLines, RecordBackups, MaxRecord, MaxOpens
VARIABLES recordActive, recordTorn, recordBackups, lock, state, recorded, recordKept, read, failed,
          recordFaults, opens
recorderVars == <<recordActive, recordTorn, recordBackups, lock, state, recorded, recordKept, read,
                  failed, recordFaults, opens>>
Recorder == INSTANCE TickRecorder
              WITH MaxLines <- RecordLines, MaxBackups <- RecordBackups, MaxRow <- MaxRecord,
                   active <- recordActive, torn <- recordTorn, backups <- recordBackups,
                   row <- recorded, kept <- recordKept, faults <- recordFaults

ASSUME StoreAssumptions ==
  /\ TelemetryFile!RotationOptions /\ TelemetryFile!WriterBounds
  /\ Recorder!RotationOptions /\ Recorder!NoneIsNoProcess /\ Recorder!RecorderBounds

Result(t, d, o) == [tick |-> t, decision |-> d, outcome |-> o]
MCDbResults == {Result(1, "d1", "accepted"), Result(1, "d1", "rejected"), Result(1, "d2", "accepted"),
                Result(2, "d2", "accepted")}

VARIABLE part
storeVars == <<part, vars, telemetryVars, recorderVars, dbVars>>

StoreInit ==
  /\ part \in {"orders", "telemetry", "records", "database"}
  /\ Init /\ TelemetryFile!Init /\ Recorder!Init /\ DbInit
  /\ part # "telemetry" => ~torn /\ recover
  /\ part # "records" => ~recordTorn

StoreNext ==
  \/ part = "orders" /\ Next /\ UNCHANGED <<part, telemetryVars, recorderVars, dbVars>>
  \/ part = "telemetry" /\ TelemetryFile!Next /\ UNCHANGED <<part, vars, recorderVars, dbVars>>
  \/ part = "records" /\ Recorder!Next /\ UNCHANGED <<part, vars, telemetryVars, dbVars>>
  \/ part = "database" /\ DbNext /\ UNCHANGED <<part, vars, telemetryVars, recorderVars>>

\* The fairness is that of the orders.
StoreSpec == StoreInit /\ [][StoreNext]_storeVars /\ Fairness

-----------------------------------------------------------------------------
\* Telemetry rows are in order and none twice, a fault or an error the caller
\* was given costs at most one of them, and without any the rows within the
\* retention are there.
TelemetryIsKept == TelemetryFile!RowsInOrder /\ TelemetryFile!LossIsBounded /\ TelemetryFile!RetentionHolds

\* One recorder has the lock, rows are in order, a failed append costs a
\* record at most, and what is read was recorded.
RecordsAreKept ==
  /\ [](Recorder!OneRecorder /\ Recorder!RowsInOrder /\ Recorder!LossIsBounded)
  /\ Recorder!ReadsAreRecords
=============================================================================
