---------------------------- MODULE StoresProofs ----------------------------
(***************************************************************************)
(* Proofs about the files of a tenant: the orders of humans (HumanOrders), *)
(* the database of tick records (SqliteRecorder), the telemetry            *)
(* (JsonlWriter) and the JSON lines of tick records (TickRecorder), for    *)
(* any number of units, orders, processes, results, lines, backups and     *)
(* faults.                                                                 *)
(*                                                                         *)
(* The orders file never asks two things of a unit at once, whether or not *)
(* edits and reconciliations exclude each other: every write is of a store *)
(* some reader has in hand, so the stores in hand are part of the          *)
(* invariant.  That reconciliation settles only what the agent tried needs *)
(* the exclusion, and time: an order that is not newer than the store of a *)
(* report was in that store.                                               *)
(*                                                                         *)
(* A recorded tick stays because a database that lost it is never opened   *)
(* again.                                                                  *)
(*                                                                         *)
(* Rotated files: whatever an append does, and wherever a rotation stops,  *)
(* it keeps the rows (Keeps) or writes the next one.  Rows leave from the  *)
(* old end only, so none is missing in between, except one whose write     *)
(* ended somebody else's torn line; that line was paid for by a fault.     *)
(***************************************************************************)
EXTENDS MCStores, SequenceTheorems, FiniteSetTheorems, TLAPS

WellFormed(store) ==
  /\ store = [mode |-> store.mode, commands |-> store.commands,
              goals |-> store.goals, updated |-> store.updated]
  /\ OneEach(store)

IInv ==
  /\ WellFormed(file)
  /\ edit # None => WellFormed(edit)
  /\ recon # None =>
       /\ recon = [read |-> recon.read, settled |-> recon.settled, stuck |-> recon.stuck]
       /\ WellFormed(recon.read)

LEMMA InitEstablishes == Init => IInv
  BY DEF Init, IInv, WellFormed, OneEach, EmptyStore

\* An order that takes the place of the unit's others.
LEMMA PutPreserves ==
  ASSUME IInv, NEW u \in Units, edit # None,
         \/ PutCommand(u) \/ \E a \in Aims : PutGoal(u, a)
  PROVE  IInv'
  <1>1. WellFormed(edit) /\ edit' = None /\ recon' = recon
    BY DEF IInv, PutCommand, PutGoal
  <1>2. WellFormed(file')
    <2>1. CASE PutCommand(u)
      <3> DEFINE c == [id |-> orders', unit |-> u, created |-> now]
                 rest == {d \in edit.commands : d.unit # u}
      <3>1. file' = [mode |-> edit.mode, commands |-> rest \cup {c},
                     goals |-> edit.goals, updated |-> now]
        <4>1. file' = [[edit EXCEPT !.commands = (@ \ {d \in edit.commands : d.unit = u}) \cup {c}]
                         EXCEPT !.updated = now]
          BY <2>1 DEF PutCommand, Edited, Write
        <4>2. edit.commands \ {d \in edit.commands : d.unit = u} = rest
          OBVIOUS
        <4> HIDE DEF c, rest
        <4> QED BY <1>1, <4>1, <4>2 DEF WellFormed
      <3> QED BY <1>1, <3>1 DEF WellFormed, OneEach
    <2>2. ASSUME NEW a \in Aims, PutGoal(u, a)
          PROVE  WellFormed(file')
      <3>1. CASE Deduped(edit.goals, u, a)
        BY <2>2, <3>1 DEF PutGoal, IInv
      <3>2. CASE ~Deduped(edit.goals, u, a)
        <4> DEFINE g == [id |-> orders', unit |-> u, aim |-> a, created |-> now]
                   rest == {h \in edit.goals : h.unit # u}
        <4>1. file' = [mode |-> edit.mode, commands |-> edit.commands,
                       goals |-> rest \cup {g}, updated |-> now]
          <5>1. file' = [[edit EXCEPT !.goals = (@ \ Replaced(edit.goals, u, a)) \cup {g}]
                           EXCEPT !.updated = now]
            BY <2>2, <3>2 DEF PutGoal, Edited, Write
          <5>2. edit.goals \ Replaced(edit.goals, u, a) = rest
            BY DEF Replaced
          <5> HIDE DEF g, rest
          <5> QED BY <1>1, <5>1, <5>2 DEF WellFormed
        <4> QED BY <1>1, <4>1 DEF WellFormed, OneEach
      <3> QED BY <3>1, <3>2
    <2> QED BY <2>1, <2>2
  <1> QED BY <1>1, <1>2 DEF IInv

\* Orders that are taken out.
LEMMA FinishPreserves == ASSUME IInv, FinishReconcile PROVE IInv'
  <1> DEFINE s == recon.read
             left == recon.settled \cup recon.stuck
  <1>1. recon # None /\ WellFormed(s) /\ recon' = None /\ edit' = edit
    BY DEF IInv, FinishReconcile
  <1>2. WellFormed(file')
    <2>1. CASE left = {}
      BY <2>1 DEF FinishReconcile, IInv
    <2>2. CASE left # {}
      <3>1. file' = [mode |-> s.mode,
                     commands |-> {c \in s.commands : c.id \notin left},
                     goals |-> {g \in s.goals : g.id \notin left},
                     updated |-> now]
        BY <1>1, <2>2 DEF FinishReconcile, Write, WellFormed
      <3> QED BY <1>1, <3>1 DEF WellFormed, OneEach
    <2> QED BY <2>1, <2>2
  <1> QED BY <1>1, <1>2 DEF IInv

LEMMA StepPreserves == IInv /\ [Next]_vars => IInv'
  <1> SUFFICES ASSUME IInv, [Next]_vars PROVE IInv'
    OBVIOUS
  <1>1. CASE BeginEdit \/ AbandonEdit
    BY <1>1 DEF BeginEdit, AbandonEdit, IInv
  <1>2. CASE \E u \in Units : PutCommand(u) \/ \E a \in Aims : PutGoal(u, a)
    BY <1>2, PutPreserves DEF PutCommand, PutGoal
  <1>3. CASE ClearOrders \/ \E m \in Modes : SetMode(m)
    <2>1. edit # None /\ WellFormed(edit) /\ edit' = None /\ recon' = recon
      BY <1>3 DEF ClearOrders, SetMode, IInv
    <2>2. CASE ClearOrders
      <3>1. file' = [mode |-> edit.mode, commands |-> {}, goals |-> {}, updated |-> now]
        BY <2>1, <2>2 DEF ClearOrders, Edited, Write, WellFormed
      <3> QED BY <2>1, <3>1 DEF IInv, WellFormed, OneEach
    <2>3. ASSUME NEW m \in Modes, SetMode(m) PROVE IInv'
      <3>1. file' = [mode |-> m, commands |-> edit.commands, goals |-> edit.goals, updated |-> now]
        BY <2>1, <2>3 DEF SetMode, Edited, Write, WellFormed
      <3> QED BY <2>1, <3>1 DEF IInv, WellFormed, OneEach
    <2> QED BY <1>3, <2>2, <2>3
  <1>4. CASE BeginReconcile
    <2>1. recon' = [read |-> file, settled |-> None, stuck |-> {}]
          /\ file' = file /\ edit' = edit
      BY <1>4 DEF BeginReconcile
    <2> QED BY <2>1 DEF IInv
  <1>5. CASE ReadTelemetry
    <2>1. /\ file' = file /\ edit' = edit /\ recon # None
          /\ recon' = None \/ \E d, t : recon' = [recon EXCEPT !.settled = d, !.stuck = t]
      BY <1>5 DEF ReadTelemetry
    <2> QED BY <2>1 DEF IInv
  <1>6. CASE FinishReconcile
    BY <1>6, FinishPreserves
  <1>7. CASE AbandonReconcile
    BY <1>7 DEF AbandonReconcile, IInv
  <1>8. CASE \/ AgentReads \/ AgentRecords \/ TimePasses \/ UNCHANGED vars
             \/ \E u \in Units : UnitIsLost(u)
    BY <1>8 DEF AgentReads, AgentRecords, TimePasses, UnitIsLost, vars, IInv
  <1> QED
    BY <1>1, <1>2, <1>3, <1>4, <1>5, <1>6, <1>7, <1>8 DEF Next

\* However edits and reconciliations interleave, the file asks at most one
\* thing of a unit as a command and one as a goal.
THEOREM OneOrder == Spec => []OneOrderPerUnit
  <1>1. IInv => OneOrderPerUnit
    BY DEF IInv, WellFormed, OneOrderPerUnit
  <1> QED BY <1>1, InitEstablishes, StepPreserves, PTL DEF Spec

-----------------------------------------------------------------------------
(* What reconciliation settles *)

\* What report r tells of was tried: of the orders there are now, those that
\* are not newer than the store it is about.
ToldTruly(r) ==
  /\ r.updated \in Nat /\ r.updated <= file.updated
  /\ \A o \in file.commands \cup file.goals : Within(o, r) => o.id \in tried

Dated(store) ==
  /\ store.updated \in Nat
  /\ \A o \in store.commands \cup store.goals : o.created \in Nat

RInv ==
  /\ IInv
  /\ now \in Nat /\ Dated(file) /\ file.updated <= now
  /\ edit # None => edit = file /\ recon = None
  /\ recon # None => recon.read = file
  /\ report \notin {None, Idle} => ToldTruly(report)
  /\ row # None => ToldTruly(row)
  /\ (recon # None /\ recon.settled # None) => recon.settled \subseteq tried

LEMMA ReconciliationInit == Init => RInv
  <1>1. 1 \in Nat /\ 0 \in Nat /\ 0 <= 1
    OBVIOUS
  <1> QED BY <1>1, InitEstablishes DEF Init, RInv, Dated, EmptyStore

\* A store that is written later and brings no older order.
LEMMA TruthIsKept ==
  ASSUME NEW r, ToldTruly(r), file'.updated \in Nat, file.updated <= file'.updated,
         file.updated \in Nat, tried \subseteq tried',
         \A o \in file'.commands \cup file'.goals :
           Within(o, r) => o \in file.commands \cup file.goals
  PROVE  ToldTruly(r)'
  <1>1. r.updated <= file'.updated
    BY DEF ToldTruly
  <1> QED BY <1>1 DEF ToldTruly, Within

\* A write by whoever has the file in hand: the store in hand with orders
\* taken out, or with one given now, later than every report.
LEMMA WriteKeepsTruth ==
  ASSUME RInv, edit' = None, recon' = None, UNCHANGED <<now, report, row, tried>>,
         IInv',
         file' = file
           \/ /\ file'.updated = now
              /\ \A o \in (file'.commands \cup file'.goals) \ (file.commands \cup file.goals) :
                   now > file.updated /\ o.created = now
  PROVE  RInv'
  <1>0. now \in Nat /\ file.updated \in Nat /\ file.updated <= now
    BY DEF RInv, Dated
  <1>1. file'.updated \in Nat /\ file.updated <= file'.updated /\ file'.updated <= now
    BY <1>0
  <1>2. \A o \in file'.commands \cup file'.goals : o.created \in Nat
    BY <1>0 DEF RInv, Dated
  <1>3. ASSUME NEW r, ToldTruly(r)
        PROVE  ToldTruly(r)'
    <2>1. ASSUME NEW o \in file'.commands \cup file'.goals, Within(o, r)
          PROVE  o \in file.commands \cup file.goals
      <3>1. SUFFICES ASSUME o \notin file.commands \cup file.goals PROVE FALSE
        OBVIOUS
      <3>2. now > file.updated /\ o.created = now
        BY <3>1, <2>1
      <3>3. o.created <= r.updated /\ r.updated <= file.updated /\ r.updated \in Nat
        BY <1>3, <2>1 DEF Within, ToldTruly
      <3> QED BY <1>0, <3>2, <3>3
    <2> QED BY <1>0, <1>1, <1>3, <2>1, TruthIsKept
  <1>4. /\ report' \notin {None, Idle} => ToldTruly(report)'
        /\ row' # None => ToldTruly(row)'
    BY <1>3 DEF RInv
  <1> QED BY <1>0, <1>1, <1>2, <1>4 DEF RInv, Dated

\* The reports stay true where the file stays as it is.
LEMMA SameFileKeepsTruth ==
  ASSUME RInv, file' = file, tried \subseteq tried', NEW r, ToldTruly(r)
  PROVE  ToldTruly(r)'
  BY DEF ToldTruly

LEMMA ReconciliationStep ==
  ASSUME Exclusive, RInv, [Next]_vars
  PROVE  RInv'
  <1>0. IInv'
    BY StepPreserves DEF RInv
  <1> USE DEF RInv
  <1>1. CASE BeginEdit
    <2>1. edit' = file /\ recon = None /\ UNCHANGED <<now, file, recon, report, row, tried>>
      BY <1>1 DEF BeginEdit
    <2> QED BY <1>0, <2>1 DEF ToldTruly, Dated
  <1>2. CASE AbandonEdit \/ AbandonReconcile
    BY <1>0, <1>2 DEF AbandonEdit, AbandonReconcile, ToldTruly, Dated
  <1>3. ASSUME NEW u \in Units, PutCommand(u) PROVE RInv'
    <2>1. edit = file /\ recon = None /\ WellFormed(file) /\ now > file.updated
      BY <1>3 DEF PutCommand, Edited, IInv
    <2>2. edit' = None /\ recon' = None /\ UNCHANGED <<now, report, row, tried>>
      BY <1>3, <2>1 DEF PutCommand
    <2> DEFINE c == [id |-> orders', unit |-> u, created |-> now]
               rest == file.commands \ {d \in file.commands : d.unit = u}
    <2>3. file' = [mode |-> file.mode, commands |-> rest \cup {c},
                   goals |-> file.goals, updated |-> now]
      BY <1>3, <2>1 DEF PutCommand, Edited, Write, WellFormed
    <2>4. c.created = now /\ rest \subseteq file.commands
      OBVIOUS
    <2> HIDE DEF c, rest
    <2> QED BY <1>0, <2>1, <2>2, <2>3, <2>4, WriteKeepsTruth
  <1>4. ASSUME NEW u \in Units, NEW a \in Aims, PutGoal(u, a) PROVE RInv'
    <2>1. edit = file /\ recon = None /\ WellFormed(file)
      BY <1>4 DEF PutGoal, IInv
    <2>2. edit' = None /\ recon' = None /\ UNCHANGED <<now, report, row, tried>>
      BY <1>4, <2>1 DEF PutGoal
    <2>3. CASE Deduped(edit.goals, u, a)
      BY <1>0, <1>4, <2>2, <2>3, WriteKeepsTruth DEF PutGoal
    <2>4. CASE ~Deduped(edit.goals, u, a)
      <3> DEFINE g == [id |-> orders', unit |-> u, aim |-> a, created |-> now]
                 rest == file.goals \ Replaced(file.goals, u, a)
      <3>1. now > file.updated
        BY <1>4, <2>1, <2>4 DEF PutGoal, Edited
      <3>2. file' = [mode |-> file.mode, commands |-> file.commands,
                     goals |-> rest \cup {g}, updated |-> now]
        BY <1>4, <2>1, <2>4 DEF PutGoal, Edited, Write, WellFormed
      <3>3. g.created = now /\ rest \subseteq file.goals
        OBVIOUS
      <3> HIDE DEF g, rest
      <3> QED BY <1>0, <2>2, <3>1, <3>2, <3>3, WriteKeepsTruth
    <2> QED BY <2>3, <2>4
  <1>5. CASE ClearOrders \/ \E m \in Modes : SetMode(m)
    <2>1. edit = file /\ recon = None /\ WellFormed(file)
      BY <1>5 DEF ClearOrders, SetMode, IInv
    <2>2. edit' = None /\ recon' = None /\ UNCHANGED <<now, report, row, tried>>
      BY <1>5, <2>1 DEF ClearOrders, SetMode
    <2>3. /\ file'.updated = now
          /\ file'.commands \subseteq file.commands /\ file'.goals \subseteq file.goals
      <3>1. CASE ClearOrders
        <4>1. file' = [mode |-> file.mode, commands |-> {}, goals |-> {}, updated |-> now]
          BY <2>1, <3>1 DEF ClearOrders, Edited, Write, WellFormed
        <4> QED BY <4>1
      <3>2. ASSUME NEW m \in Modes, SetMode(m)
            PROVE  <2>3!1 /\ <2>3!2
        <4>1. file' = [mode |-> m, commands |-> file.commands, goals |-> file.goals, updated |-> now]
          BY <2>1, <3>2 DEF SetMode, Edited, Write, WellFormed
        <4> QED BY <4>1
      <3> QED BY <1>5, <3>1, <3>2
    <2> QED BY <1>0, <2>2, <2>3, WriteKeepsTruth
  <1>6. CASE BeginReconcile
    <2>1. recon' = [read |-> file, settled |-> None, stuck |-> {}] /\ edit = None
          /\ UNCHANGED <<now, file, edit, report, row, tried>>
      BY <1>6 DEF BeginReconcile
    <2> QED BY <1>0, <2>1 DEF ToldTruly, Dated
  <1>7. CASE ReadTelemetry
    <2>1. recon.read = file /\ edit = None /\ UNCHANGED <<now, file, edit, report, row, tried>>
      BY <1>7 DEF ReadTelemetry
    <2>2. CASE ~Telemetry
      BY <1>0, <1>7, <2>1, <2>2 DEF ReadTelemetry, ToldTruly, Dated
    <2>3. CASE Telemetry
      <3> DEFINE left == IdsOf(SettledGoals(file, row)) \cup IdsOf(SettledCommands(file, row))
      <3>1. PICK t : recon' = [recon EXCEPT !.settled = left, !.stuck = t]
        BY <1>7, <2>1, <2>3 DEF ReadTelemetry
      <3>2. ToldTruly(row)
        BY <2>3 DEF Telemetry
      <3>3. left \subseteq tried
        BY <3>2 DEF ToldTruly, IdsOf, SettledGoals, SettledCommands
      <3>4. recon = [read |-> recon.read, settled |-> recon.settled, stuck |-> recon.stuck]
        BY <1>7 DEF ReadTelemetry, IInv
      <3>5. recon'.read = file /\ recon'.settled = left
        BY <2>1, <3>1, <3>4
      <3> HIDE DEF left
      <3> QED BY <1>0, <2>1, <3>3, <3>5 DEF ToldTruly, Dated
    <2> QED BY <2>2, <2>3
  <1>8. CASE FinishReconcile
    <2>1. recon.read = file /\ edit = None /\ WellFormed(file)
      BY <1>8 DEF FinishReconcile, IInv
    <2>2. edit' = None /\ recon' = None /\ UNCHANGED <<now, report, row, tried>>
      BY <1>8, <2>1 DEF FinishReconcile
    <2>3. file' = file \/ /\ file'.updated = now
                          /\ file'.commands \subseteq file.commands
                          /\ file'.goals \subseteq file.goals
      <3> DEFINE left == recon.settled \cup recon.stuck
      <3>1. CASE left = {}
        BY <1>8, <3>1 DEF FinishReconcile
      <3>2. CASE left # {}
        <4>1. file' = [mode |-> file.mode,
                       commands |-> {c \in file.commands : c.id \notin left},
                       goals |-> {g \in file.goals : g.id \notin left},
                       updated |-> now]
          BY <1>8, <2>1, <3>2 DEF FinishReconcile, Write, WellFormed
        <4> QED BY <4>1
      <3> QED BY <3>1, <3>2
    <2> QED BY <1>0, <2>2, <2>3, WriteKeepsTruth
  <1>9. CASE AgentReads
    <2>1. UNCHANGED <<now, file, edit, recon, row>> /\ tried \subseteq tried'
      BY <1>9 DEF AgentReads
    <2>2. report' \notin {None, Idle} => ToldTruly(report)'
      <3>1. CASE Ignored(file)
        BY <1>9, <3>1 DEF AgentReads
      <3>2. CASE ~Ignored(file)
        <4>1. report'.updated = file.updated /\ tried' = tried \cup All(file)
          BY <1>9, <3>2 DEF AgentReads, Apply
        <4>2. \A o \in file.commands \cup file.goals : o.id \in tried'
          BY <4>1 DEF All, IdsOf
        <4>3. file.updated \in Nat /\ file.updated <= file.updated
          BY DEF Dated
        <4> QED BY <2>1, <4>1, <4>2, <4>3 DEF ToldTruly
      <3> QED BY <3>1, <3>2
    <2>3. row' # None => ToldTruly(row)'
      BY <2>1 DEF ToldTruly
    <2> QED BY <1>0, <2>1, <2>2, <2>3 DEF Dated
  <1>10. CASE AgentRecords
    <2>1. report' = Idle /\ row' = report /\ report # Idle
          /\ UNCHANGED <<now, file, edit, recon, tried>>
      BY <1>10 DEF AgentRecords
    <2> QED BY <1>0, <2>1 DEF ToldTruly, Dated
  <1>11. CASE TimePasses
    <2>1. now' = now + 1 /\ UNCHANGED <<file, edit, recon, report, row, tried>>
      BY <1>11 DEF TimePasses
    <2>2. now' \in Nat /\ file.updated <= now'
      BY <2>1 DEF Dated
    <2> QED BY <1>0, <2>1, <2>2 DEF ToldTruly, Dated
  <1>12. CASE UNCHANGED vars \/ \E u \in Units : UnitIsLost(u)
    BY <1>0, <1>12 DEF vars, UnitIsLost, ToldTruly, Dated
  <1> QED
    BY <1>1, <1>2, <1>3, <1>4, <1>5, <1>6, <1>7, <1>8, <1>9, <1>10, <1>11, <1>12 DEF Next

\* Reconciliation settles an order only after the agent has read it, provided
\* the edits and the reconciliation of the orders file exclude each other.
THEOREM SettledOrdersWereTried ==
  ASSUME Exclusive
  PROVE  Spec => SettledWereTried
  <1>1. RInv /\ [Next]_vars =>
          [recon # None /\ recon' = None /\ file' # file => recon.settled \subseteq tried]_vars
    <2> SUFFICES ASSUME RInv, [Next]_vars, recon # None, recon' = None, file' # file
                 PROVE  recon.settled \subseteq tried
      OBVIOUS
    <2>1. edit = None
      BY DEF RInv
    <2>2. FinishReconcile
      BY <2>1 DEF Next, vars, BeginEdit, PutCommand, PutGoal, ClearOrders, SetMode, AbandonEdit,
        BeginReconcile, ReadTelemetry, AbandonReconcile, AgentReads, AgentRecords, UnitIsLost,
        TimePasses
    <2> QED BY <2>2 DEF FinishReconcile, RInv
  <1>2. RInv /\ [Next]_vars => RInv'
    BY ReconciliationStep
  <1> QED BY <1>1, <1>2, ReconciliationInit, PTL DEF Spec, SettledWereTried

-----------------------------------------------------------------------------
(* The tick records in the database *)

\* No recorder will open it again: its pages do not fit, or its tables are gone.
Refused == \/ dbFile = "torn"
           \/ dbFile = "sound" /\ dbTables < 2 /\ dbLock = DbFree

DInv ==
  /\ dbTables \in 0 .. 3
  /\ dbState \in [DbProcs -> {"closed", "creating", "open"}]
  /\ \A p \in DbProcs : dbState[p] # "closed" => dbLock = p
  /\ dbLock # DbFree => dbFile # "torn"
  /\ \A t \in DOMAIN dbRows : dbRows[t].tick = t
  /\ \A t, u \in DOMAIN dbRows : dbRows[t].decision = dbRows[u].decision => t = u
  /\ \A r, s \in dbAcked : (r.tick = s.tick \/ r.decision = s.decision) => r = s
  /\ Refused \/ \A r \in dbAcked : RowMatches(r)

LEMMA DatabaseInit == DbInit => DInv
  <1>1. DOMAIN << >> = {}
    OBVIOUS
  <1> QED BY <1>1 DEF DbInit, DInv

\* A row that conflicts with none is put beside the others.
LEMMA RowIsAdded ==
  ASSUME NEW r, ~Conflicts(r), DInv, dbRows' = WithRow(r)
  PROVE  /\ \A t \in DOMAIN dbRows' : dbRows'[t].tick = t
         /\ \A t, u \in DOMAIN dbRows' : dbRows'[t].decision = dbRows'[u].decision => t = u
         /\ \A s : RowMatches(s) => RowMatches(s)'
         /\ RowMatches(r)'
  <1>1. DOMAIN dbRows' = DOMAIN dbRows \cup {r.tick} /\ r.tick \notin DOMAIN dbRows
    BY DEF WithRow, Conflicts
  <1>2. dbRows'[r.tick] = r /\ \A t \in DOMAIN dbRows : dbRows'[t] = dbRows[t]
    BY <1>1 DEF WithRow
  <1>3. \A t \in DOMAIN dbRows : dbRows[t].tick = t /\ dbRows[t].decision # r.decision
    BY DEF DInv, Conflicts
  <1>4. \A t, u \in DOMAIN dbRows : dbRows[t].decision = dbRows[u].decision => t = u
    BY DEF DInv
  <1> QED BY <1>1, <1>2, <1>3, <1>4 DEF RowMatches

\* What is there under its own tick and decision agrees with all that is there.
LEMMA RowsAgree ==
  ASSUME NEW r, NEW s, DInv, RowMatches(r), RowMatches(s),
         r.tick = s.tick \/ r.decision = s.decision
  PROVE  r = s
  BY DEF DInv, RowMatches

LEMMA DatabaseStep == DInv /\ [DbNext]_dbVars => DInv'
  <1> SUFFICES ASSUME DInv, [DbNext]_dbVars PROVE DInv'
    OBVIOUS
  <1> USE DEF DInv
  <1>1. ASSUME NEW p \in DbProcs, OpenDatabase(p) PROVE DInv'
    <2>1. dbLock = DbFree /\ UNCHANGED <<dbFile, dbTables, dbRows, dbAcked>>
      BY <1>1 DEF OpenDatabase
    <2>2. CASE ~VerifyExistingDatabase
      BY <1>1, <2>1, <2>2 DEF OpenDatabase, Refused, RowMatches
    <2>3. CASE VerifyExistingDatabase
      <3>1. dbLock' = p /\ dbState' = [dbState EXCEPT ![p] = "creating"]
        BY <1>1, <2>3 DEF OpenDatabase
      <3>2. \A q \in DbProcs : dbState[q] = "closed"
        BY <2>1, DbFreeIsNoProcess
      <3>3. dbFile # "torn" /\ ~Refused
        <4>1. dbTables < 2 => "loop_records" \notin {Tables[i] : i \in 1 .. dbTables}
          <5>1. Tables[1] = "tick_records"
            BY DEF Tables
          <5> QED BY <5>1
        <4> QED BY <2>3, <4>1 DEF VerifyExistingDatabase, ExpectedTables, Refused
      <3> QED BY <2>1, <3>1, <3>2, <3>3 DEF Refused, RowMatches
    <2> QED BY <2>2, <2>3
  <1>2. ASSUME NEW p \in DbProcs, CreateTable(p) PROVE DInv'
    <2>1. dbLock = p /\ dbLock' = p /\ p # DbFree /\ UNCHANGED <<dbRows, dbAcked>>
      BY <1>2, DbFreeIsNoProcess DEF CreateTable
    <2>2. ~Refused /\ dbFile # "torn" /\ \A r \in dbAcked : RowMatches(r)
      BY <2>1 DEF Refused
    <2>3. dbTables' \in 0 .. 3 /\ dbFile' # "torn"
      <3>1. Len(Tables) = 3
        BY DEF Tables
      <3> QED BY <1>2, <2>2, <3>1 DEF CreateTable
    <2>4. /\ dbState' \in [DbProcs -> {"closed", "creating", "open"}]
          /\ \A q \in DbProcs : dbState'[q] # "closed" => dbLock' = q
      BY <1>2, <2>1 DEF CreateTable
    <2> QED BY <2>1, <2>2, <2>3, <2>4 DEF RowMatches
  <1>3. ASSUME NEW p \in DbProcs, NEW r \in DbResults, RecordTick(p, r) PROVE DInv'
    <2>1. dbLock = p /\ p # DbFree
          /\ UNCHANGED <<dbLock, dbState, dbFile, dbTables>>
      BY <1>3, DbFreeIsNoProcess DEF RecordTick
    <2>2. ~Refused /\ \A s \in dbAcked : RowMatches(s)
      BY <2>1 DEF Refused
    <2>3. CASE ~Conflicts(r)
      <3>1. dbRows' = WithRow(r) /\ dbAcked' = dbAcked \cup {r}
        BY <1>3, <2>3 DEF RecordTick
      <3>2. /\ \A t \in DOMAIN dbRows' : dbRows'[t].tick = t
            /\ \A t, u \in DOMAIN dbRows' : dbRows'[t].decision = dbRows'[u].decision => t = u
            /\ \A s : RowMatches(s) => RowMatches(s)'
            /\ RowMatches(r)'
        BY <2>3, <3>1, RowIsAdded
      <3>3. \A s \in dbAcked : r.tick # s.tick /\ r.decision # s.decision
        BY <2>2, <2>3 DEF RowMatches, Conflicts
      <3> QED BY <2>1, <2>2, <3>1, <3>2, <3>3
    <2>4. CASE Conflicts(r)
      <3>1. dbRows' = dbRows
            /\ (dbAcked' = dbAcked \/ (RowMatches(r) /\ dbAcked' = dbAcked \cup {r}))
        <4>1. dbAcked' = (IF RowMatches(r) THEN dbAcked \cup {r} ELSE dbAcked) /\ dbRows' = dbRows
          BY <1>3, <2>4 DEF RecordTick
        <4> QED BY <4>1
      <3>2. \A s, t \in dbAcked' : (s.tick = t.tick \/ s.decision = t.decision) => s = t
        BY <2>2, <3>1, RowsAgree
      <3> QED BY <2>1, <2>2, <3>1, <3>2 DEF RowMatches
    <2> QED BY <2>3, <2>4
  <1>4. ASSUME NEW p \in DbProcs, RecordTickState(p) PROVE DInv'
    BY <1>4 DEF RecordTickState, Refused, RowMatches
  <1>5. ASSUME NEW p \in DbProcs, CloseDatabase(p) \/ DbCrash(p) PROVE DInv'
    <2>1. /\ dbLock = p /\ dbLock' = DbFree /\ p # DbFree
          /\ dbState' = [dbState EXCEPT ![p] = "closed"]
          /\ UNCHANGED <<dbFile, dbTables, dbAcked>>
      BY <1>5, DbFreeIsNoProcess DEF CloseDatabase, DbCrash
    <2>2. ~Refused /\ dbFile # "torn" /\ \A r \in dbAcked : RowMatches(r)
      BY <2>1 DEF Refused
    <2>3. \A q \in DbProcs : dbState'[q] = "closed"
      BY <2>1
    <2>4. CASE dbRows' = dbRows
      BY <2>1, <2>2, <2>3, <2>4 DEF RowMatches
    <2>5. ASSUME NEW r \in DbResults, ~Conflicts(r), dbRows' = WithRow(r) PROVE DInv'
      BY <2>1, <2>2, <2>3, <2>5, RowIsAdded
    <2> QED BY <1>5, <2>4, <2>5 DEF CloseDatabase, DbCrash
  <1>6. CASE DbTorn
    <2>1. dbLock = DbFree /\ UNCHANGED <<dbLock, dbState, dbAcked>> /\ Refused'
      BY <1>6 DEF DbTorn, Refused
    <2>2. \A p \in DbProcs : dbState[p] = "closed"
      BY <2>1, DbFreeIsNoProcess
    <2>3. dbTables' \in 0 .. 3 /\ (dbRows' = dbRows \/ dbRows' = << >>)
      BY <1>6 DEF DbTorn
    <2>4. DOMAIN << >> = {}
      OBVIOUS
    <2> QED BY <2>1, <2>2, <2>3, <2>4
  <1>7. CASE UNCHANGED dbVars
    BY <1>7 DEF dbVars, Refused, RowMatches
  <1> QED
    BY <1>1, <1>2, <1>3, <1>4, <1>5, <1>6, <1>7 DEF DbNext

\* A tick that a recorder said it recorded is there, as it was given, for
\* whoever has the database open, and is recorded in one way only.
THEOREM RecordsStay == DbSpec => []RecordsStand
  <1>1. DInv => RecordsStand
    BY DbFreeIsNoProcess DEF DInv, RecordsStand, Refused
  <1> QED BY <1>1, DatabaseInit, DatabaseStep, PTL DEF DbSpec

-----------------------------------------------------------------------------
(* Files of lines *)

\* Files are numbered as the model numbers them: 0 the file itself, then its
\* backups.  A line 0 is garbage.
FilesOf(B) == [0 .. B -> Seq(Nat)]

\* Row r is line k of file i.
At(fs, i, k, r) == i \in DOMAIN fs /\ k \in DOMAIN fs[i] /\ fs[i][k] = r /\ r # 0
Rows(fs) == (UNION {{fs[i][k] : k \in DOMAIN fs[i]} : i \in DOMAIN fs}) \ {0}
InOrder(fs) ==
  \A i, j \in DOMAIN fs : \A k \in DOMAIN fs[i], l \in DOMAIN fs[j] :
    /\ 0 \notin {fs[i][k], fs[j][l]}
    /\ i > j \/ (i = j /\ k < l)
    => fs[i][k] < fs[j][l]

\* Rows newer than the oldest on disk that are not on disk.
Gone(fs, rows) == {r \in rows : r \notin Rows(fs) /\ \E s \in Rows(fs) : s < r}

\* k moves of a rotation; the last, k = B, takes the file itself.
Moved(B, fs, k) ==
  [i \in 0 .. B |-> IF i > B - k THEN fs[i - 1] ELSE IF i = B - k THEN <<>> ELSE fs[i]]
Written(fs, r) == [fs EXCEPT ![0] = Append(@, r)]

\* Rows leave in the order they came, none comes, and they stay in order.
Keeps(fs, gs) ==
  /\ InOrder(fs) => InOrder(gs)
  /\ Rows(gs) \subseteq Rows(fs)
  /\ InOrder(fs) => \A r \in Rows(fs) \ Rows(gs), s \in Rows(gs) : r < s

LEMMA RowsArePlaces ==
  ASSUME NEW fs, NEW r
  PROVE r \in Rows(fs) <=> \E i, k : At(fs, i, k, r)
  BY DEF Rows, At

LEMMA KeepsRest == ASSUME NEW fs PROVE Keeps(fs, fs)
  BY DEF Keeps

LEMMA KeepsStep ==
  ASSUME NEW B \in Nat, NEW fs \in FilesOf(B), NEW gs \in FilesOf(B), NEW hs \in FilesOf(B),
         Keeps(fs, gs), Keeps(gs, hs)
  PROVE  Keeps(fs, hs)
  BY DEF Keeps

\* A move gives a file the name of the next: only the oldest file goes.
LEMMA MoveKeeps ==
  ASSUME NEW B \in Nat \ {0}, NEW fs \in FilesOf(B), NEW k \in 0 .. B
  PROVE Moved(B, fs, k) \in FilesOf(B) /\ Keeps(fs, Moved(B, fs, k))
  <1> DEFINE gs == Moved(B, fs, k)
             from == [i \in 0 .. B |-> IF i > B - k THEN i - 1 ELSE i]
  <1>1. gs \in FilesOf(B)
    <2>1. <<>> \in Seq(Nat)
      OBVIOUS
    <2> QED BY <2>1 DEF Moved, FilesOf
  <1>2. \A i \in 0 .. B : /\ gs[i] = IF i = B - k THEN <<>> ELSE fs[from[i]]
                          /\ i # B - k => from[i] \in 0 .. B - 1 /\ from[i] \in 0 .. B
    BY DEF Moved
  <1>3. \A i, j \in 0 .. B : i > j /\ i # B - k /\ j # B - k => from[i] > from[j]
    OBVIOUS
  <1>4. \A j \in 0 .. B - 1 : \E i \in 0 .. B : i # B - k /\ from[i] = j
    <2>1. TAKE j \in 0 .. B - 1
    <2>2. CASE j < B - k
      BY <2>2
    <2>3. CASE j >= B - k
      <3>1. j + 1 \in 0 .. B /\ j + 1 > B - k /\ from[j + 1] = j
        BY <2>3
      <3> QED BY <3>1
    <2> QED BY <2>2, <2>3
  <1> DOMAIN fs = 0 .. B /\ DOMAIN gs = 0 .. B /\ \A i \in 0 .. B : fs[i] \in Seq(Nat)
    BY <1>1 DEF FilesOf
  <1> DOMAIN <<>> = {}
    OBVIOUS
  <1> HIDE DEF gs, from
  <1>5. ASSUME InOrder(fs) PROVE InOrder(gs)
    <2> SUFFICES ASSUME NEW i \in 0 .. B, NEW j \in 0 .. B, NEW a \in DOMAIN gs[i], NEW b \in DOMAIN gs[j],
                        0 \notin {gs[i][a], gs[j][b]}, i > j \/ (i = j /\ a < b)
                 PROVE  gs[i][a] < gs[j][b]
      BY DEF InOrder
    <2>1. i # B - k /\ j # B - k
      BY <1>2
    <2>2. gs[i] = fs[from[i]] /\ gs[j] = fs[from[j]] /\ from[i] \in 0 .. B /\ from[j] \in 0 .. B
      BY <1>2, <2>1
    <2>3. from[i] > from[j] \/ (from[i] = from[j] /\ a < b)
      BY <1>3, <2>1
    <2> QED BY <1>5, <2>2, <2>3 DEF InOrder
  <1>6. ASSUME NEW s \in Rows(gs)
        PROVE  \E i \in 0 .. B - 1 : \E a : At(fs, i, a, s)
    <2>1. PICK i, a : At(gs, i, a, s)
      BY RowsArePlaces
    <2>2. i \in 0 .. B /\ i # B - k
      BY <1>2, <2>1 DEF At
    <2>3. At(fs, from[i], a, s) /\ from[i] \in 0 .. B - 1
      BY <1>2, <2>1, <2>2 DEF At
    <2> QED BY <2>3
  <1>7. ASSUME NEW r \in Rows(fs) \ Rows(gs)
        PROVE  \E a : At(fs, B, a, r)
    <2>1. PICK j, a : At(fs, j, a, r)
      BY RowsArePlaces
    <2>2. j = B
      <3>1. SUFFICES ASSUME j \in 0 .. B - 1 PROVE FALSE
        BY <2>1 DEF At
      <3>2. PICK i \in 0 .. B : i # B - k /\ from[i] = j
        BY <1>4, <3>1
      <3>3. At(gs, i, a, r)
        BY <1>2, <2>1, <3>2 DEF At
      <3> QED BY <3>3, RowsArePlaces
    <2> QED BY <2>1, <2>2
  <1>8. Rows(gs) \subseteq Rows(fs)
    BY <1>6, RowsArePlaces
  <1>9. ASSUME InOrder(fs), NEW r \in Rows(fs) \ Rows(gs), NEW s \in Rows(gs)
        PROVE  r < s
    <2>1. PICK a : At(fs, B, a, r)
      BY <1>7
    <2>2. PICK i \in 0 .. B - 1 : \E b : At(fs, i, b, s)
      BY <1>6
    <2>3. PICK b : At(fs, i, b, s)
      BY <2>2
    <2>4. B > i /\ B \in DOMAIN fs /\ i \in DOMAIN fs /\ a \in DOMAIN fs[B] /\ b \in DOMAIN fs[i]
          /\ 0 \notin {fs[B][a], fs[i][b]} /\ fs[B][a] = r /\ fs[i][b] = s
      BY <2>1, <2>3 DEF At
    <2>5. fs[B][a] < fs[i][b]
      BY <1>9, <2>4 DEF InOrder
    <2> QED BY <2>4, <2>5
  <1> QED BY <1>1, <1>5, <1>8, <1>9 DEF gs, Keeps

LEMMA WrittenPlaces ==
  ASSUME NEW B \in Nat, NEW fs \in FilesOf(B), NEW r \in Nat
  PROVE /\ Written(fs, r) \in FilesOf(B)
        /\ \A i \in 0 .. B : DOMAIN Written(fs, r)[i] = (DOMAIN fs[i]) \cup (IF i = 0 THEN {Len(fs[0]) + 1} ELSE {})
        /\ \A i \in 0 .. B : \A k \in DOMAIN fs[i] : Written(fs, r)[i][k] = fs[i][k]
        /\ Written(fs, r)[0][Len(fs[0]) + 1] = r
        /\ \A k \in DOMAIN fs[0] : k \in Nat /\ k < Len(fs[0]) + 1
  <1>1. 0 \in 0 .. B /\ fs[0] \in Seq(Nat)
    BY DEF FilesOf
  <1>2. Written(fs, r) = [i \in 0 .. B |-> IF i = 0 THEN Append(fs[0], r) ELSE fs[i]]
    BY DEF Written, FilesOf
  <1>3. /\ Append(fs[0], r) \in Seq(Nat) /\ Len(Append(fs[0], r)) = Len(fs[0]) + 1
        /\ \A i \in 1.. Len(fs[0]) : Append(fs[0], r)[i] = fs[0][i]
        /\ Append(fs[0], r)[Len(fs[0])+1] = r
    BY <1>1, AppendProperties
  <1>4. DOMAIN fs[0] = 1 .. Len(fs[0]) /\ DOMAIN Append(fs[0], r) = 1 .. Len(fs[0]) + 1 /\ Len(fs[0]) \in Nat
    BY <1>1, <1>3
  <1>5. DOMAIN Append(fs[0], r) = DOMAIN fs[0] \cup {Len(fs[0]) + 1}
    BY <1>4
  <1>6. Written(fs, r) \in FilesOf(B)
    BY <1>2, <1>3 DEF FilesOf
  <1> QED BY <1>1, <1>2, <1>3, <1>4, <1>5, <1>6

\* Garbage, or a row above all, at the end of the file.
LEMMA WriteRows ==
  ASSUME NEW B \in Nat, NEW fs \in FilesOf(B), NEW r \in Nat,
         r = 0 \/ \A s \in Rows(fs) : s < r
  PROVE /\ InOrder(fs) => InOrder(Written(fs, r))
        /\ Rows(Written(fs, r)) = (Rows(fs) \cup {r}) \ {0}
  <1> DEFINE gs == Written(fs, r)
             n == Len(fs[0]) + 1
  <1>1. /\ gs \in FilesOf(B)
        /\ \A i \in 0 .. B : DOMAIN gs[i] = (DOMAIN fs[i]) \cup (IF i = 0 THEN {n} ELSE {})
        /\ \A i \in 0 .. B : \A k \in DOMAIN fs[i] : gs[i][k] = fs[i][k]
        /\ gs[0][n] = r
        /\ \A k \in DOMAIN fs[0] : k \in Nat /\ k < n
    BY WrittenPlaces
  <1>0. 0 \in 0 .. B /\ n \in Nat
    <2>1. fs[0] \in Seq(Nat)
      BY DEF FilesOf
    <2> QED BY <2>1
  <1> DOMAIN fs = 0 .. B /\ DOMAIN gs = 0 .. B
    BY <1>1 DEF FilesOf
  <1> HIDE DEF gs, n
  <1>2. \A i, k : \A x : At(gs, i, k, x) <=> At(fs, i, k, x) \/ (i = 0 /\ k = n /\ x = r /\ x # 0)
    <2>1. n \notin DOMAIN fs[0]
      BY <1>0, <1>1
    <2> QED BY <1>0, <1>1, <2>1 DEF At
  <1>3. Rows(gs) = (Rows(fs) \cup {r}) \ {0}
    <2>1. \A x : x \in Rows(gs) <=> x \in Rows(fs) \/ (x = r /\ x # 0)
      BY <1>2, RowsArePlaces
    <2> QED BY <2>1 DEF Rows
  <1>4. ASSUME InOrder(fs) PROVE InOrder(gs)
    <2> SUFFICES ASSUME NEW i \in 0 .. B, NEW j \in 0 .. B, NEW a \in DOMAIN gs[i], NEW b \in DOMAIN gs[j],
                        0 \notin {gs[i][a], gs[j][b]}, i > j \/ (i = j /\ a < b)
                 PROVE  gs[i][a] < gs[j][b]
      BY DEF InOrder
    <2>1. At(gs, i, a, gs[i][a]) /\ At(gs, j, b, gs[j][b])
      BY DEF At
    <2>2. CASE At(fs, i, a, gs[i][a]) /\ At(fs, j, b, gs[j][b])
      BY <1>4, <2>2 DEF InOrder, At
    <2>3. CASE At(fs, i, a, gs[i][a]) /\ j = 0 /\ b = n /\ gs[j][b] = r /\ r # 0
      BY <2>3, RowsArePlaces
    <2>4. CASE i = 0 /\ a = n
      <3>1. j = 0 /\ a < b
        BY <2>4
      <3>2. b \in DOMAIN fs[0] \cup {n}
        BY <1>1, <3>1
      <3> QED BY <1>0, <1>1, <2>4, <3>1, <3>2
    <2> QED BY <1>2, <2>1, <2>2, <2>3, <2>4
  <1> QED BY <1>3, <1>4 DEF gs
\* The append: the file with what the tail makes of its last line, then moved.
Tailed(fs, tail) == IF tail THEN Written(fs, 0) ELSE fs
Rotated(B, fs, tail) == Moved(B, Tailed(fs, tail), B)

LEMMA AppendKeeps ==
  ASSUME NEW B \in Nat \ {0}, NEW fs \in FilesOf(B), NEW tail \in BOOLEAN
  PROVE /\ Tailed(fs, tail) \in FilesOf(B) /\ Keeps(fs, Tailed(fs, tail))
        /\ Rotated(B, fs, tail) \in FilesOf(B) /\ Keeps(fs, Rotated(B, fs, tail))
        /\ Rotated(B, fs, tail)[0] = <<>>
        /\ \A i \in 1 .. B : Rotated(B, fs, tail)[i] = Tailed(fs, tail)[i - 1]
  <1>1. Tailed(fs, tail) \in FilesOf(B) /\ Keeps(fs, Tailed(fs, tail))
    <2>1. CASE tail
      <3>1. Rows(Written(fs, 0)) = Rows(fs) /\ (InOrder(fs) => InOrder(Written(fs, 0)))
        <4>1. Rows(Written(fs, 0)) = (Rows(fs) \cup {0}) \ {0}
          BY WriteRows
        <4>2. 0 \notin Rows(fs)
          BY DEF Rows
        <4> QED BY <4>1, <4>2, WriteRows
      <3>2. Written(fs, 0) \in FilesOf(B)
        BY WrittenPlaces
      <3> QED BY <2>1, <3>1, <3>2 DEF Tailed, Keeps
    <2>2. CASE ~tail
      BY <2>2, KeepsRest DEF Tailed
    <2> QED BY <2>1, <2>2
  <1>2. Rotated(B, fs, tail) \in FilesOf(B) /\ Keeps(Tailed(fs, tail), Rotated(B, fs, tail))
    BY <1>1, MoveKeeps DEF Rotated
  <1>3. Keeps(fs, Rotated(B, fs, tail))
    BY <1>1, <1>2, KeepsStep
  <1>4. /\ Rotated(B, fs, tail)[0] = <<>>
        /\ \A i \in 1 .. B : Rotated(B, fs, tail)[i] = Tailed(fs, tail)[i - 1]
    BY DEF Rotated, Moved
  <1> QED BY <1>1, <1>2, <1>3, <1>4

LEMMA RowsAreBounded ==
  ASSUME NEW fs, NEW n \in Nat, NEW told \in SUBSET (1 .. n)
  PROVE  Gone(fs, told) \subseteq 1 .. n
         /\ IsFiniteSet(Gone(fs, told)) /\ Cardinality(Gone(fs, told)) \in Nat
  <1>1. Gone(fs, told) \in SUBSET (1 .. n)
    BY DEF Gone
  <1>2. IsFiniteSet(1 .. n)
    BY FS_Interval
  <1> QED BY <1>1, <1>2, FS_Subset, FS_CardinalityType

LEMMA CostOfOne ==
  ASSUME NEW S, IsFiniteSet(S), NEW x, NEW T, T \subseteq S \cup {x}
  PROVE  Cardinality(T) <= Cardinality(S) + 1 /\ (T \subseteq S => Cardinality(T) <= Cardinality(S))
  <1>1. IsFiniteSet(S \cup {x}) /\ Cardinality(S \cup {x}) \in Nat /\ Cardinality(S) \in Nat
        /\ Cardinality(S \cup {x}) <= Cardinality(S) + 1
    BY FS_AddElement, FS_CardinalityType
  <1>2. IsFiniteSet(T) /\ Cardinality(T) <= Cardinality(S \cup {x})
    <2>1. T \in SUBSET (S \cup {x})
      OBVIOUS
    <2> QED BY <1>1, <2>1, FS_Subset
  <1>3. Cardinality(T) \in Nat
    BY <1>2, FS_CardinalityType
  <1>4. T \subseteq S => Cardinality(T) <= Cardinality(S)
    BY FS_Subset
  <1> QED BY <1>1, <1>2, <1>3, <1>4

\* A step that keeps the rows: those that were not missing are not missing
\* now, and a row that was garbled is one more.
LEMMA KeptRows ==
  ASSUME NEW fs, NEW gs, NEW n \in Nat, NEW told \in SUBSET (1 .. n),
         Keeps(fs, gs), InOrder(fs), Rows(fs) \subseteq told
  PROVE  /\ InOrder(gs) /\ Rows(gs) \subseteq told
         /\ Gone(gs, told) \subseteq Gone(fs, told)
         /\ Gone(gs, told \cup {n + 1}) \subseteq Gone(fs, told) \cup {n + 1}
  <1>1. Rows(gs) \subseteq Rows(fs) /\ InOrder(gs)
        /\ \A r \in Rows(fs) \ Rows(gs), s \in Rows(gs) : r < s
    BY DEF Keeps
  <1>2. \A r \in told, s \in told : r < s => ~(s < r)
    OBVIOUS
  <1>3. ASSUME NEW r \in told, r \notin Rows(gs), NEW s \in Rows(gs), s < r
        PROVE  r \in Gone(fs, told)
    <2>1. r \notin Rows(fs)
      BY <1>1, <1>2, <1>3
    <2> QED BY <1>1, <1>3, <2>1 DEF Gone
  <1> QED BY <1>1, <1>3 DEF Gone

\* The next row is written: none is missing that was not.
LEMMA NextRow ==
  ASSUME NEW B \in Nat, NEW fs, NEW hs \in FilesOf(B), NEW n \in Nat, NEW told \in SUBSET (1 .. n),
         Keeps(fs, hs), InOrder(fs), Rows(fs) \subseteq told
  PROVE  /\ InOrder(Written(hs, n + 1)) /\ Rows(Written(hs, n + 1)) \subseteq told \cup {n + 1}
         /\ Gone(Written(hs, n + 1), told \cup {n + 1}) \subseteq Gone(fs, told)
  <1> DEFINE gs == Written(hs, n + 1)
  <1>1. InOrder(hs) /\ Rows(hs) \subseteq told /\ Gone(hs, told) \subseteq Gone(fs, told)
    BY KeptRows
  <1>2. \A s \in Rows(hs) : s < n + 1
    <2>1. \A s \in 1 .. n : s < n + 1
      OBVIOUS
    <2> QED BY <1>1, <2>1
  <1>3. InOrder(gs) /\ Rows(gs) = (Rows(hs) \cup {n + 1}) \ {0}
    BY <1>1, <1>2, WriteRows
  <1>4. Rows(gs) = Rows(hs) \cup {n + 1}
    <2>1. 0 \notin Rows(hs) /\ n + 1 # 0
      BY DEF Rows
    <2> QED BY <1>3, <2>1
  <1> HIDE DEF gs
  <1>8. \A r \in told : ~(n + 1 < r)
    OBVIOUS
  <1>5. ASSUME NEW r \in told, r \notin Rows(gs), NEW s \in Rows(gs), s < r
        PROVE  r \in Gone(hs, told)
    <2>1. s \in Rows(hs)
      BY <1>4, <1>5, <1>8
    <2> QED BY <1>4, <1>5, <2>1 DEF Gone
  <1>6. Gone(gs, told \cup {n + 1}) \subseteq Gone(fs, told)
    <2>1. Gone(gs, told \cup {n + 1}) \subseteq Gone(hs, told)
      BY <1>4, <1>5 DEF Gone
    <2> QED BY <1>1, <2>1
  <1>7. InOrder(gs) /\ Rows(gs) \subseteq told \cup {n + 1}
    BY <1>1, <1>3, <1>4
  <1> QED BY <1>6, <1>7 DEF gs

-----------------------------------------------------------------------------
(* The telemetry file *)

TFiles == [i \in 0 .. MaxBackups |-> IF i = 0 THEN active ELSE backups[i]]

LEMMA TFilesAreFiles ==
  /\ TelemetryFile!OnDisk = Rows(TFiles)
  /\ TelemetryFile!RowsInOrder <=> InOrder(TFiles)
  /\ \A rows : TelemetryFile!Missing(rows) = Gone(TFiles, rows)
  /\ TelemetryFile!FileTypeOK => TFiles \in FilesOf(MaxBackups) /\ MaxBackups \in Nat \ {0}
  <1>1. MaxBackups \in Nat \ {0}
    BY StoreAssumptions DEF TelemetryFile!RotationOptions
  <1>2. DOMAIN TFiles = 0 .. MaxBackups /\ \A i \in 0 .. MaxBackups : TFiles[i] = TelemetryFile!File(i)
    BY DEF TFiles, TelemetryFile!File
  <1>3. TelemetryFile!OnDisk = Rows(TFiles)
    BY <1>2 DEF TelemetryFile!OnDisk, TelemetryFile!Garbage, TelemetryFile!ToSet, Rows
  <1>4. TelemetryFile!RowsInOrder <=> InOrder(TFiles)
    BY <1>2 DEF TelemetryFile!RowsInOrder, TelemetryFile!Garbage, InOrder
  <1>5. TelemetryFile!FileTypeOK => TFiles \in FilesOf(MaxBackups)
    BY <1>1 DEF TFiles, TelemetryFile!FileTypeOK, TelemetryFile!Line, FilesOf
  <1>6. \A rows : TelemetryFile!Missing(rows) = Gone(TFiles, rows)
    BY <1>3 DEF TelemetryFile!Missing, Gone
  <1> QED BY <1>1, <1>3, <1>4, <1>5, <1>6

\* A rotation moves every file by one place, the newest with what its tail
\* made of it.
LEMMA TFilesRotate ==
  ASSUME TelemetryFile!FileTypeOK, NEW tail \in BOOLEAN, TelemetryFile!Rotate(tail)
  PROVE  /\ \A i \in 1 .. MaxBackups : backups'[i] = Rotated(MaxBackups, TFiles, tail)[i]
         /\ backups' \in [1 .. MaxBackups -> Seq(Nat)]
  <1>1. TFiles \in FilesOf(MaxBackups) /\ MaxBackups \in Nat \ {0}
    BY TFilesAreFiles
  <1> DEFINE ts == Tailed(TFiles, tail)
  <1>2. /\ Rotated(MaxBackups, TFiles, tail) \in FilesOf(MaxBackups)
        /\ \A i \in 1 .. MaxBackups : Rotated(MaxBackups, TFiles, tail)[i] = ts[i - 1]
    BY <1>1, AppendKeeps
  <1>3. ts[0] = TelemetryFile!Content(tail) /\ \A i \in 1 .. MaxBackups : ts[i] = backups[i]
    BY <1>1 DEF Tailed, Written, TFiles, FilesOf, TelemetryFile!Content, TelemetryFile!Garbage
  <1> HIDE DEF ts
  <1>4. backups' = [i \in 1 .. MaxBackups |-> IF i = 1 THEN TelemetryFile!Content(tail) ELSE backups[i - 1]]
    <2>1. TelemetryFile!Shifted(MaxBackups - 1) = [i \in 1 .. MaxBackups |-> IF i = 1 THEN <<>> ELSE backups[i - 1]]
      <3>1. MaxBackups - (MaxBackups - 1) = 1
        BY <1>1
      <3>2. TelemetryFile!Shifted(MaxBackups - 1) = [i \in 1 .. MaxBackups |->
                IF i > 1 THEN backups[i - 1] ELSE IF i = 1 THEN <<>> ELSE backups[i]]
        BY <3>1 DEF TelemetryFile!Shifted
      <3> QED BY <1>1, <3>2
    <2> QED BY <1>1, <2>1 DEF TelemetryFile!Rotate
  <1>5. \A i \in 1 .. MaxBackups : backups'[i] = ts[i - 1]
    BY <1>1, <1>3, <1>4
  <1>6. \A i \in 1 .. MaxBackups : Rotated(MaxBackups, TFiles, tail)[i] \in Seq(Nat)
    BY <1>1, <1>2 DEF FilesOf
  <1> QED BY <1>2, <1>4, <1>5, <1>6

\* An append writes the row, or ends the torn line with it, or stops somewhere:
\* whatever else it does keeps the rows.
LEMMA TFilesAppend ==
  ASSUME TelemetryFile!FileTypeOK, NEW tail \in BOOLEAN, NEW r \in Nat, TelemetryFile!AppendRow(r, tail)
  PROVE  /\ TelemetryFile!FileTypeOK' /\ torn' = FALSE
         /\ \/ tail /\ Keeps(TFiles, TFiles')
            \/ \E hs \in FilesOf(MaxBackups) : Keeps(TFiles, hs) /\ TFiles' = Written(hs, r)
  <1> DEFINE rs == Rotated(MaxBackups, TFiles, tail)
  <1>1. TFiles \in FilesOf(MaxBackups) /\ MaxBackups \in Nat \ {0} /\ MaxLines \in Nat \ {0}
    BY TFilesAreFiles, StoreAssumptions DEF TelemetryFile!RotationOptions
  <1>2. /\ rs \in FilesOf(MaxBackups) /\ Keeps(TFiles, rs) /\ rs[0] = <<>>
        /\ Tailed(TFiles, tail) \in FilesOf(MaxBackups) /\ Keeps(TFiles, Tailed(TFiles, tail))
    BY <1>1, AppendKeeps
  <1>3. torn' = FALSE
    BY DEF TelemetryFile!AppendRow
  <1>4. active \in Seq(Nat) /\ backups \in [1 .. MaxBackups -> Seq(Nat)] /\ Len(active) <= MaxLines
    BY DEF TelemetryFile!FileTypeOK, TelemetryFile!Line
  <1>5. CASE TelemetryFile!NeedsRotation(tail)
    <2>1. TelemetryFile!Rotate(tail) /\ active' = <<r>>
      BY <1>5 DEF TelemetryFile!AppendRow, TelemetryFile!RotateIfNeeded
    <2>2. /\ \A i \in 1 .. MaxBackups : backups'[i] = rs[i]
          /\ backups' \in [1 .. MaxBackups -> Seq(Nat)]
      BY <2>1, TFilesRotate
    <2> HIDE DEF rs
    <2>3. TFiles' = Written(rs, r)
      <3>1. TFiles' = [i \in 0 .. MaxBackups |-> IF i = 0 THEN <<r>> ELSE rs[i]]
        BY <2>1, <2>2 DEF TFiles
      <3>2. Written(rs, r) = [i \in 0 .. MaxBackups |-> IF i = 0 THEN Append(rs[0], r) ELSE rs[i]]
        BY <1>2 DEF Written, FilesOf
      <3>3. Append(rs[0], r) = <<r>>
        BY <1>2
      <3> QED BY <3>1, <3>2, <3>3
    <2>4. TelemetryFile!FileTypeOK'
      <3>1. <<r>> \in Seq(Nat) /\ Len(<<r>>) = 1
        OBVIOUS
      <3>2. active' \in Seq(Nat) /\ Len(active') = 1 /\ 1 <= MaxLines
        BY <1>1, <2>1, <3>1
      <3> QED BY <1>3, <2>2, <3>2 DEF TelemetryFile!FileTypeOK, TelemetryFile!Line
    <2> QED BY <1>2, <1>3, <2>3, <2>4
  <1>6. CASE ~TelemetryFile!NeedsRotation(tail)
    <2> DEFINE x == IF tail THEN 0 ELSE r
    <2>1. backups' = backups /\ active' = Append(active, x)
      BY <1>6 DEF TelemetryFile!AppendRow, TelemetryFile!RotateIfNeeded, TelemetryFile!Garbage
    <2>2. x \in Nat
      OBVIOUS
    <2> HIDE DEF x
    <2>3. Append(active, x) \in Seq(Nat) /\ Len(Append(active, x)) = Len(active) + 1
      BY <1>4, <2>2, AppendProperties
    <2>4. Len(active) + 1 <= MaxLines
      <3>1. TelemetryFile!Content(tail) = <<>> \/ Len(TelemetryFile!Content(tail)) + 1 <= MaxLines
        <4>1. Len(TelemetryFile!Content(tail)) \in Nat
          BY <1>4, AppendProperties DEF TelemetryFile!Content, TelemetryFile!Garbage
        <4> QED BY <1>1, <1>6, <4>1 DEF TelemetryFile!NeedsRotation
      <3>2. CASE tail
        <4>1. TelemetryFile!Content(tail) # <<>> /\ Len(TelemetryFile!Content(tail)) = Len(active) + 1
          BY <1>4, <3>2, AppendProperties DEF TelemetryFile!Content, TelemetryFile!Garbage
        <4> QED BY <1>1, <1>4, <3>1, <4>1
      <3>3. CASE ~tail
        <4>1. TelemetryFile!Content(tail) = active /\ Len(<<>>) = 0
          BY <3>3 DEF TelemetryFile!Content
        <4> QED BY <1>1, <3>1, <4>1
      <3> QED BY <3>2, <3>3
    <2>5. TelemetryFile!FileTypeOK'
      BY <1>3, <1>4, <2>1, <2>3, <2>4 DEF TelemetryFile!FileTypeOK, TelemetryFile!Line
    <2>6. TFiles' = Written(TFiles, x)
      <3>1. TFiles' = [i \in 0 .. MaxBackups |-> IF i = 0 THEN Append(active, x) ELSE backups[i]]
        BY <2>1 DEF TFiles
      <3> QED BY <1>1, <3>1 DEF Written, TFiles
    <2>7. CASE tail
      BY <1>2, <1>3, <2>5, <2>6, <2>7 DEF x, Tailed
    <2>8. CASE ~tail
      BY <1>1, <1>3, <2>5, <2>6, <2>8, KeepsRest DEF x
    <2> QED BY <2>7, <2>8
  <1> QED BY <1>5, <1>6

LEMMA TFilesFault ==
  ASSUME TelemetryFile!FileTypeOK, NEW tail \in BOOLEAN, TelemetryFile!AppendNothing(tail) \/ TelemetryFile!AppendPart(tail)
  PROVE  TelemetryFile!FileTypeOK' /\ Keeps(TFiles, TFiles')
  <1> DEFINE rs == Rotated(MaxBackups, TFiles, tail)
  <1>1. TFiles \in FilesOf(MaxBackups) /\ MaxBackups \in Nat \ {0} /\ MaxLines \in Nat \ {0}
    BY TFilesAreFiles, StoreAssumptions DEF TelemetryFile!RotationOptions
  <1>2. rs \in FilesOf(MaxBackups) /\ Keeps(TFiles, rs) /\ rs[0] = <<>>
    BY <1>1, AppendKeeps
  <1>3. active \in Seq(Nat) /\ backups \in [1 .. MaxBackups -> Seq(Nat)] /\ Len(active) <= MaxLines
        /\ torn' \in BOOLEAN
    BY DEF TelemetryFile!FileTypeOK, TelemetryFile!Line, TelemetryFile!AppendNothing, TelemetryFile!AppendPart
  <1>4. CASE active' = active /\ backups' = backups
    <2>1. TFiles' = TFiles
      BY <1>4 DEF TFiles
    <2> QED BY <1>3, <1>4, <2>1, KeepsRest DEF TelemetryFile!FileTypeOK, TelemetryFile!Line
  <1>5. ASSUME NEW k \in 0 .. MaxBackups - 1, backups' = TelemetryFile!Shifted(k), active' = active
        PROVE  TelemetryFile!FileTypeOK' /\ Keeps(TFiles, TFiles')
    <2> DEFINE ms == Moved(MaxBackups, TFiles, k)
    <2>1. k \in 0 .. MaxBackups
      BY <1>1
    <2>2. ms \in FilesOf(MaxBackups) /\ Keeps(TFiles, ms)
      BY <1>1, <2>1, MoveKeeps
    <2>3. TFiles' = ms
      <3>1. TFiles' = [i \in 0 .. MaxBackups |-> IF i = 0 THEN active
                      ELSE IF i > MaxBackups - k THEN backups[i - 1]
                      ELSE IF i = MaxBackups - k THEN <<>> ELSE backups[i]]
        BY <1>1, <1>5 DEF TFiles, TelemetryFile!Shifted
      <3>2. \A i \in 0 .. MaxBackups :
              ms[i] = IF i = 0 THEN active
                      ELSE IF i > MaxBackups - k THEN backups[i - 1]
                      ELSE IF i = MaxBackups - k THEN <<>> ELSE backups[i]
        BY <1>1, <1>5 DEF Moved, TFiles
      <3>3. DOMAIN ms = 0 .. MaxBackups /\ ms = [i \in 0 .. MaxBackups |-> ms[i]]
        BY DEF Moved
      <3> HIDE DEF ms
      <3> QED BY <3>1, <3>2, <3>3
    <2>4. backups' \in [1 .. MaxBackups -> Seq(Nat)]
      <3>1. <<>> \in Seq(Nat)
        OBVIOUS
      <3> QED BY <1>1, <1>3, <1>5, <3>1 DEF TelemetryFile!Shifted
    <2> QED BY <1>3, <1>5, <2>2, <2>3, <2>4 DEF TelemetryFile!FileTypeOK, TelemetryFile!Line
  <1>6. CASE TelemetryFile!Rotate(tail) /\ active' = <<>>
    <2>1. /\ \A i \in 1 .. MaxBackups : backups'[i] = rs[i]
          /\ backups' \in [1 .. MaxBackups -> Seq(Nat)]
      BY <1>6, TFilesRotate
    <2> HIDE DEF rs
    <2>2. TFiles' = rs
      <3>1. TFiles' = [i \in 0 .. MaxBackups |-> IF i = 0 THEN <<>> ELSE rs[i]]
        BY <1>6, <2>1 DEF TFiles
      <3> QED BY <1>2, <3>1 DEF FilesOf
    <2>3. <<>> \in Seq(Nat) /\ Len(<<>>) = 0
      OBVIOUS
    <2> QED BY <1>1, <1>2, <1>3, <1>6, <2>1, <2>2, <2>3 DEF TelemetryFile!FileTypeOK, TelemetryFile!Line
  <1> QED
    BY <1>4, <1>5, <1>6
    DEF TelemetryFile!AppendNothing, TelemetryFile!AppendPart, TelemetryFile!RotateIfNeeded

-----------------------------------------------------------------------------
(* The file of tick records *)

RFiles == [i \in 0 .. RecordBackups |-> IF i = 0 THEN recordActive ELSE recordBackups[i]]

LEMMA RFilesAreFiles ==
  /\ Recorder!OnDisk = Rows(RFiles)
  /\ Recorder!RowsInOrder <=> InOrder(RFiles)
  /\ \A rows : Recorder!Missing(rows) = Gone(RFiles, rows)
  /\ Recorder!FileTypeOK => RFiles \in FilesOf(RecordBackups) /\ RecordBackups \in Nat \ {0}
  <1>1. RecordBackups \in Nat \ {0}
    BY StoreAssumptions DEF Recorder!RotationOptions
  <1>2. DOMAIN RFiles = 0 .. RecordBackups /\ \A i \in 0 .. RecordBackups : RFiles[i] = Recorder!File(i)
    BY DEF RFiles, Recorder!File
  <1>3. Recorder!OnDisk = Rows(RFiles)
    BY <1>2 DEF Recorder!OnDisk, Recorder!Garbage, Recorder!ToSet, Rows
  <1>4. Recorder!RowsInOrder <=> InOrder(RFiles)
    BY <1>2 DEF Recorder!RowsInOrder, Recorder!Garbage, InOrder
  <1>5. Recorder!FileTypeOK => RFiles \in FilesOf(RecordBackups)
    BY <1>1 DEF RFiles, Recorder!FileTypeOK, Recorder!Line, FilesOf
  <1>6. \A rows : Recorder!Missing(rows) = Gone(RFiles, rows)
    BY <1>3 DEF Recorder!Missing, Gone
  <1> QED BY <1>1, <1>3, <1>4, <1>5, <1>6

\* A rotation moves every file by one place, the newest with what its tail
\* made of it.
LEMMA RFilesRotate ==
  ASSUME Recorder!FileTypeOK, NEW tail \in BOOLEAN, Recorder!Rotate(tail)
  PROVE  /\ \A i \in 1 .. RecordBackups : recordBackups'[i] = Rotated(RecordBackups, RFiles, tail)[i]
         /\ recordBackups' \in [1 .. RecordBackups -> Seq(Nat)]
  <1>1. RFiles \in FilesOf(RecordBackups) /\ RecordBackups \in Nat \ {0}
    BY RFilesAreFiles
  <1> DEFINE ts == Tailed(RFiles, tail)
  <1>2. /\ Rotated(RecordBackups, RFiles, tail) \in FilesOf(RecordBackups)
        /\ \A i \in 1 .. RecordBackups : Rotated(RecordBackups, RFiles, tail)[i] = ts[i - 1]
    BY <1>1, AppendKeeps
  <1>3. ts[0] = Recorder!Content(tail) /\ \A i \in 1 .. RecordBackups : ts[i] = recordBackups[i]
    BY <1>1 DEF Tailed, Written, RFiles, FilesOf, Recorder!Content, Recorder!Garbage
  <1> HIDE DEF ts
  <1>4. recordBackups' = [i \in 1 .. RecordBackups |-> IF i = 1 THEN Recorder!Content(tail) ELSE recordBackups[i - 1]]
    <2>1. Recorder!Shifted(RecordBackups - 1) = [i \in 1 .. RecordBackups |-> IF i = 1 THEN <<>> ELSE recordBackups[i - 1]]
      <3>1. RecordBackups - (RecordBackups - 1) = 1
        BY <1>1
      <3>2. Recorder!Shifted(RecordBackups - 1) = [i \in 1 .. RecordBackups |->
                IF i > 1 THEN recordBackups[i - 1] ELSE IF i = 1 THEN <<>> ELSE recordBackups[i]]
        BY <3>1 DEF Recorder!Shifted
      <3> QED BY <1>1, <3>2
    <2> QED BY <1>1, <2>1 DEF Recorder!Rotate
  <1>5. \A i \in 1 .. RecordBackups : recordBackups'[i] = ts[i - 1]
    BY <1>1, <1>3, <1>4
  <1>6. \A i \in 1 .. RecordBackups : Rotated(RecordBackups, RFiles, tail)[i] \in Seq(Nat)
    BY <1>1, <1>2 DEF FilesOf
  <1> QED BY <1>2, <1>4, <1>5, <1>6

\* An append writes the row, or ends the torn line with it, or stops somewhere:
\* whatever else it does keeps the rows.
LEMMA RFilesAppend ==
  ASSUME Recorder!FileTypeOK, NEW tail \in BOOLEAN, NEW r \in Nat, Recorder!AppendRow(r, tail)
  PROVE  /\ Recorder!FileTypeOK' /\ recordTorn' = FALSE
         /\ \/ tail /\ Keeps(RFiles, RFiles')
            \/ \E hs \in FilesOf(RecordBackups) : Keeps(RFiles, hs) /\ RFiles' = Written(hs, r)
  <1> DEFINE rs == Rotated(RecordBackups, RFiles, tail)
  <1>1. RFiles \in FilesOf(RecordBackups) /\ RecordBackups \in Nat \ {0} /\ RecordLines \in Nat \ {0}
    BY RFilesAreFiles, StoreAssumptions DEF Recorder!RotationOptions
  <1>2. /\ rs \in FilesOf(RecordBackups) /\ Keeps(RFiles, rs) /\ rs[0] = <<>>
        /\ Tailed(RFiles, tail) \in FilesOf(RecordBackups) /\ Keeps(RFiles, Tailed(RFiles, tail))
    BY <1>1, AppendKeeps
  <1>3. recordTorn' = FALSE
    BY DEF Recorder!AppendRow
  <1>4. recordActive \in Seq(Nat) /\ recordBackups \in [1 .. RecordBackups -> Seq(Nat)] /\ Len(recordActive) <= RecordLines
    BY DEF Recorder!FileTypeOK, Recorder!Line
  <1>5. CASE Recorder!NeedsRotation(tail)
    <2>1. Recorder!Rotate(tail) /\ recordActive' = <<r>>
      BY <1>5 DEF Recorder!AppendRow, Recorder!RotateIfNeeded
    <2>2. /\ \A i \in 1 .. RecordBackups : recordBackups'[i] = rs[i]
          /\ recordBackups' \in [1 .. RecordBackups -> Seq(Nat)]
      BY <2>1, RFilesRotate
    <2> HIDE DEF rs
    <2>3. RFiles' = Written(rs, r)
      <3>1. RFiles' = [i \in 0 .. RecordBackups |-> IF i = 0 THEN <<r>> ELSE rs[i]]
        BY <2>1, <2>2 DEF RFiles
      <3>2. Written(rs, r) = [i \in 0 .. RecordBackups |-> IF i = 0 THEN Append(rs[0], r) ELSE rs[i]]
        BY <1>2 DEF Written, FilesOf
      <3>3. Append(rs[0], r) = <<r>>
        BY <1>2
      <3> QED BY <3>1, <3>2, <3>3
    <2>4. Recorder!FileTypeOK'
      <3>1. <<r>> \in Seq(Nat) /\ Len(<<r>>) = 1
        OBVIOUS
      <3>2. recordActive' \in Seq(Nat) /\ Len(recordActive') = 1 /\ 1 <= RecordLines
        BY <1>1, <2>1, <3>1
      <3> QED BY <1>3, <2>2, <3>2 DEF Recorder!FileTypeOK, Recorder!Line
    <2> QED BY <1>2, <1>3, <2>3, <2>4
  <1>6. CASE ~Recorder!NeedsRotation(tail)
    <2> DEFINE x == IF tail THEN 0 ELSE r
    <2>1. recordBackups' = recordBackups /\ recordActive' = Append(recordActive, x)
      BY <1>6 DEF Recorder!AppendRow, Recorder!RotateIfNeeded, Recorder!Garbage
    <2>2. x \in Nat
      OBVIOUS
    <2> HIDE DEF x
    <2>3. Append(recordActive, x) \in Seq(Nat) /\ Len(Append(recordActive, x)) = Len(recordActive) + 1
      BY <1>4, <2>2, AppendProperties
    <2>4. Len(recordActive) + 1 <= RecordLines
      <3>1. Recorder!Content(tail) = <<>> \/ Len(Recorder!Content(tail)) + 1 <= RecordLines
        <4>1. Len(Recorder!Content(tail)) \in Nat
          BY <1>4, AppendProperties DEF Recorder!Content, Recorder!Garbage
        <4> QED BY <1>1, <1>6, <4>1 DEF Recorder!NeedsRotation
      <3>2. CASE tail
        <4>1. Recorder!Content(tail) # <<>> /\ Len(Recorder!Content(tail)) = Len(recordActive) + 1
          BY <1>4, <3>2, AppendProperties DEF Recorder!Content, Recorder!Garbage
        <4> QED BY <1>1, <1>4, <3>1, <4>1
      <3>3. CASE ~tail
        <4>1. Recorder!Content(tail) = recordActive /\ Len(<<>>) = 0
          BY <3>3 DEF Recorder!Content
        <4> QED BY <1>1, <3>1, <4>1
      <3> QED BY <3>2, <3>3
    <2>5. Recorder!FileTypeOK'
      BY <1>3, <1>4, <2>1, <2>3, <2>4 DEF Recorder!FileTypeOK, Recorder!Line
    <2>6. RFiles' = Written(RFiles, x)
      <3>1. RFiles' = [i \in 0 .. RecordBackups |-> IF i = 0 THEN Append(recordActive, x) ELSE recordBackups[i]]
        BY <2>1 DEF RFiles
      <3> QED BY <1>1, <3>1 DEF Written, RFiles
    <2>7. CASE tail
      BY <1>2, <1>3, <2>5, <2>6, <2>7 DEF x, Tailed
    <2>8. CASE ~tail
      BY <1>1, <1>3, <2>5, <2>6, <2>8, KeepsRest DEF x
    <2> QED BY <2>7, <2>8
  <1> QED BY <1>5, <1>6

LEMMA RFilesFault ==
  ASSUME Recorder!FileTypeOK, NEW tail \in BOOLEAN, Recorder!AppendNothing(tail) \/ Recorder!AppendPart(tail)
  PROVE  Recorder!FileTypeOK' /\ Keeps(RFiles, RFiles')
  <1> DEFINE rs == Rotated(RecordBackups, RFiles, tail)
  <1>1. RFiles \in FilesOf(RecordBackups) /\ RecordBackups \in Nat \ {0} /\ RecordLines \in Nat \ {0}
    BY RFilesAreFiles, StoreAssumptions DEF Recorder!RotationOptions
  <1>2. rs \in FilesOf(RecordBackups) /\ Keeps(RFiles, rs) /\ rs[0] = <<>>
    BY <1>1, AppendKeeps
  <1>3. recordActive \in Seq(Nat) /\ recordBackups \in [1 .. RecordBackups -> Seq(Nat)] /\ Len(recordActive) <= RecordLines
        /\ recordTorn' \in BOOLEAN
    BY DEF Recorder!FileTypeOK, Recorder!Line, Recorder!AppendNothing, Recorder!AppendPart
  <1>4. CASE recordActive' = recordActive /\ recordBackups' = recordBackups
    <2>1. RFiles' = RFiles
      BY <1>4 DEF RFiles
    <2> QED BY <1>3, <1>4, <2>1, KeepsRest DEF Recorder!FileTypeOK, Recorder!Line
  <1>5. ASSUME NEW k \in 0 .. RecordBackups - 1, recordBackups' = Recorder!Shifted(k), recordActive' = recordActive
        PROVE  Recorder!FileTypeOK' /\ Keeps(RFiles, RFiles')
    <2> DEFINE ms == Moved(RecordBackups, RFiles, k)
    <2>1. k \in 0 .. RecordBackups
      BY <1>1
    <2>2. ms \in FilesOf(RecordBackups) /\ Keeps(RFiles, ms)
      BY <1>1, <2>1, MoveKeeps
    <2>3. RFiles' = ms
      <3>1. RFiles' = [i \in 0 .. RecordBackups |-> IF i = 0 THEN recordActive
                      ELSE IF i > RecordBackups - k THEN recordBackups[i - 1]
                      ELSE IF i = RecordBackups - k THEN <<>> ELSE recordBackups[i]]
        BY <1>1, <1>5 DEF RFiles, Recorder!Shifted
      <3>2. \A i \in 0 .. RecordBackups :
              ms[i] = IF i = 0 THEN recordActive
                      ELSE IF i > RecordBackups - k THEN recordBackups[i - 1]
                      ELSE IF i = RecordBackups - k THEN <<>> ELSE recordBackups[i]
        BY <1>1, <1>5 DEF Moved, RFiles
      <3>3. DOMAIN ms = 0 .. RecordBackups /\ ms = [i \in 0 .. RecordBackups |-> ms[i]]
        BY DEF Moved
      <3> HIDE DEF ms
      <3> QED BY <3>1, <3>2, <3>3
    <2>4. recordBackups' \in [1 .. RecordBackups -> Seq(Nat)]
      <3>1. <<>> \in Seq(Nat)
        OBVIOUS
      <3> QED BY <1>1, <1>3, <1>5, <3>1 DEF Recorder!Shifted
    <2> QED BY <1>3, <1>5, <2>2, <2>3, <2>4 DEF Recorder!FileTypeOK, Recorder!Line
  <1>6. CASE Recorder!Rotate(tail) /\ recordActive' = <<>>
    <2>1. /\ \A i \in 1 .. RecordBackups : recordBackups'[i] = rs[i]
          /\ recordBackups' \in [1 .. RecordBackups -> Seq(Nat)]
      BY <1>6, RFilesRotate
    <2> HIDE DEF rs
    <2>2. RFiles' = rs
      <3>1. RFiles' = [i \in 0 .. RecordBackups |-> IF i = 0 THEN <<>> ELSE rs[i]]
        BY <1>6, <2>1 DEF RFiles
      <3> QED BY <1>2, <3>1 DEF FilesOf
    <2>3. <<>> \in Seq(Nat) /\ Len(<<>>) = 0
      OBVIOUS
    <2> QED BY <1>1, <1>2, <1>3, <1>6, <2>1, <2>2, <2>3 DEF Recorder!FileTypeOK, Recorder!Line
  <1> QED
    BY <1>4, <1>5, <1>6
    DEF Recorder!AppendNothing, Recorder!AppendPart, Recorder!RotateIfNeeded

-----------------------------------------------------------------------------
(* Telemetry rows *)

\* A torn file the writer appends to costs the next row as well.
TOwes == torn /\ writer = "open"

TInv ==
  /\ TelemetryFile!FileTypeOK
  /\ written \in Nat /\ kept \in SUBSET (1 .. written)
  /\ faults \in Nat /\ raised \in Nat
  /\ Rows(TFiles) \subseteq kept /\ InOrder(TFiles)
  /\ Cardinality(Gone(TFiles, kept)) <= faults + raised
  /\ TOwes => Cardinality(Gone(TFiles, kept)) + 1 <= faults + raised

LEMMA TelemetryInit == TelemetryFile!Init => TInv
  <1> SUFFICES ASSUME TelemetryFile!Init PROVE TInv
    OBVIOUS
  <1>1. MaxBackups \in Nat \ {0} /\ MaxLines \in Nat \ {0}
    BY StoreAssumptions DEF TelemetryFile!RotationOptions
  <1>2. active = <<1>> /\ backups = [i \in 1 .. MaxBackups |-> <<>>] /\ torn \in BOOLEAN
        /\ written = 1 /\ kept = {1} /\ writer = "none" /\ faults = 0 /\ raised = 0
    BY DEF TelemetryFile!Init, TelemetryFile!FileInit
  <1>3. <<1>> \in Seq(Nat) /\ Len(<<1>>) = 1 /\ <<>> \in Seq(Nat) /\ DOMAIN <<1>> = {1} /\ <<1>>[1] = 1
        /\ DOMAIN <<>> = {}
    OBVIOUS
  <1>4. TelemetryFile!FileTypeOK
    <2>1. active \in Seq(Nat) /\ Len(active) <= MaxLines
      BY <1>1, <1>2, <1>3
    <2> QED BY <1>2, <1>3, <2>1 DEF TelemetryFile!FileTypeOK, TelemetryFile!Line
  <1>5. \A i, k, r : At(TFiles, i, k, r) => i = 0 /\ k = 1 /\ r = 1
    BY <1>1, <1>2, <1>3 DEF At, TFiles
  <1>6. Rows(TFiles) \subseteq {1}
    BY <1>5, RowsArePlaces
  <1>7. InOrder(TFiles)
    <2>1. \A i \in DOMAIN TFiles : \A k \in DOMAIN TFiles[i] : i = 0 /\ k = 1
      BY <1>1, <1>2, <1>3 DEF TFiles
    <2> QED BY <2>1 DEF InOrder
  <1>8. Gone(TFiles, kept) = {}
    <2>1. \A s \in Rows(TFiles) : s = 1
      BY <1>6
    <2> QED BY <1>2, <2>1 DEF Gone
  <1>9. 1 .. 1 = {1}
    OBVIOUS
  <1>10. ~TOwes /\ Cardinality(Gone(TFiles, kept)) = 0
    BY <1>2, <1>8, FS_EmptySet DEF TOwes
  <1>11. written \in Nat /\ kept \in SUBSET (1 .. written) /\ faults \in Nat /\ raised \in Nat
        /\ Rows(TFiles) \subseteq kept
    BY <1>2, <1>6, <1>9
  <1>12. Cardinality(Gone(TFiles, kept)) <= faults + raised
    BY <1>2, <1>10
  <1> QED BY <1>4, <1>7, <1>10, <1>11, <1>12 DEF TInv

LEMMA TelemetryStep == TInv /\ [TelemetryFile!Next]_telemetryVars => TInv'
  <1> SUFFICES ASSUME TInv, [TelemetryFile!Next]_telemetryVars PROVE TInv'
    OBVIOUS
  <1> DEFINE cost == Cardinality(Gone(TFiles, kept))
  <1>1. cost \in Nat /\ IsFiniteSet(Gone(TFiles, kept))
    BY RowsAreBounded DEF TInv
  <1>2. /\ cost <= faults + raised /\ (TOwes => cost + 1 <= faults + raised)
        /\ faults \in Nat /\ raised \in Nat
        /\ written \in Nat /\ kept \in SUBSET (1 .. written) /\ TelemetryFile!FileTypeOK
        /\ Rows(TFiles) \subseteq kept /\ InOrder(TFiles)
    BY DEF TInv
  <1>3. kept \in SUBSET (1 .. (written + 1)) /\ kept \cup {written + 1} \in SUBSET (1 .. (written + 1))
    BY <1>2
  <1> HIDE DEF cost
  \* The files stay.
  <1>4. ASSUME active' = active, backups' = backups, torn' \in BOOLEAN,
               kept' = kept, written' = written, faults' \in Nat, raised' \in Nat,
               cost <= faults' + raised', TOwes' => cost + 1 <= faults' + raised'
        PROVE  TInv'
    <2>1. TFiles' = TFiles
      BY <1>4 DEF TFiles
    <2>2. TelemetryFile!FileTypeOK'
      BY <1>2, <1>4 DEF TelemetryFile!FileTypeOK
    <2> QED BY <1>2, <1>4, <2>1, <2>2 DEF TInv, cost
  \* An append fails: what was kept is kept or rotated out.
  <1>5. ASSUME TelemetryFile!AppendNothing(TelemetryFile!TailLeft)
                 \/ TelemetryFile!AppendPart(TelemetryFile!TailLeft),
               kept' = kept, written' = written + 1, faults' = faults + 1, raised' = raised
        PROVE  TInv'
    <2>1. torn \in BOOLEAN /\ TelemetryFile!TailLeft \in BOOLEAN
      BY <1>2 DEF TelemetryFile!FileTypeOK, TelemetryFile!TailLeft
    <2>2. TelemetryFile!FileTypeOK' /\ Keeps(TFiles, TFiles')
      BY <1>2, <1>5, <2>1, TFilesFault
    <2> DEFINE gs == TFiles'
    <2>3. InOrder(gs) /\ Rows(gs) \subseteq kept /\ Gone(gs, kept) \subseteq Gone(TFiles, kept)
      BY <1>2, <2>2, KeptRows
    <2>4. Cardinality(Gone(gs, kept)) <= cost /\ Cardinality(Gone(gs, kept)) \in Nat
      BY <1>1, <1>2, <2>3, CostOfOne, RowsAreBounded DEF cost
    <2>5. Cardinality(Gone(gs, kept)) + 1 <= faults' + raised'
          /\ Cardinality(Gone(gs, kept)) <= faults' + raised'
      BY <1>1, <1>2, <1>5, <2>4
    <2>6. written' \in Nat /\ faults' \in Nat /\ raised' \in Nat /\ kept' \in SUBSET (1 .. written')
      BY <1>2, <1>3, <1>5
    <2> QED BY <1>5, <2>2, <2>3, <2>5, <2>6 DEF TInv
  <1>6. CASE TelemetryFile!Create
    BY <1>1, <1>2, <1>4, <1>6 DEF TelemetryFile!Create, TelemetryFile!fileVars, TOwes, TelemetryFile!FileTypeOK
  <1>7. CASE TelemetryFile!RaiseTornTail
    <2>1. UNCHANGED <<active, backups, torn, kept, written, faults>> /\ raised' = raised + 1
      BY <1>7 DEF TelemetryFile!RaiseTornTail, TelemetryFile!fileVars
    <2>2. torn' \in BOOLEAN
      BY <1>2, <2>1 DEF TelemetryFile!FileTypeOK
    <2> QED BY <1>1, <1>2, <1>4, <2>1, <2>2
  <1>8. CASE TelemetryFile!TruncateFails
    <2>1. UNCHANGED <<active, backups, torn, kept, written, raised>> /\ faults' = faults + 1
      BY <1>8 DEF TelemetryFile!TruncateFails, TelemetryFile!fileVars
    <2>2. torn' \in BOOLEAN
      BY <1>2, <2>1 DEF TelemetryFile!FileTypeOK
    <2> QED BY <1>1, <1>2, <1>4, <2>1, <2>2
  <1>9. CASE TelemetryFile!WriteKept
    <2> DEFINE tail == TelemetryFile!TailLeft
               x == written + 1
    <2>1. tail \in BOOLEAN /\ (tail => TOwes)
      BY <1>2, <1>9 DEF TelemetryFile!FileTypeOK, TelemetryFile!TailLeft, TelemetryFile!FindsTail,
                        TelemetryFile!WriteKept, TelemetryFile!IsOpen, TOwes
    <2>2. written' = x /\ TelemetryFile!AppendRow(x, tail) /\ kept' = kept \cup {x}
          /\ UNCHANGED <<raised, faults>>
      BY <1>9 DEF TelemetryFile!WriteKept
    <2>3. x \in Nat
      BY <1>2
    <2> HIDE DEF tail
    <2>4. /\ TelemetryFile!FileTypeOK' /\ torn' = FALSE
          /\ \/ tail /\ Keeps(TFiles, TFiles')
             \/ \E hs \in FilesOf(MaxBackups) : Keeps(TFiles, hs) /\ TFiles' = Written(hs, x)
      BY <1>2, <2>1, <2>2, <2>3, TFilesAppend
    <2>5. ~TOwes'
      BY <2>4 DEF TOwes
    <2> DEFINE gs == TFiles'
    <2>6. MaxBackups \in Nat
      BY StoreAssumptions DEF TelemetryFile!RotationOptions
    <2>7. /\ InOrder(gs) /\ Rows(gs) \subseteq kept \cup {x}
          /\ Cardinality(Gone(gs, kept \cup {x})) <= faults + raised
      <3>1. CASE tail /\ Keeps(TFiles, TFiles')
        <4>1. InOrder(gs) /\ Rows(gs) \subseteq kept
              /\ Gone(gs, kept \cup {x}) \subseteq Gone(TFiles, kept) \cup {x}
          BY <1>2, <3>1, KeptRows
        <4>2. Cardinality(Gone(gs, kept \cup {x})) <= cost + 1
          BY <1>1, <4>1, CostOfOne DEF cost
        <4>3. Cardinality(Gone(gs, kept \cup {x})) \in Nat
          BY <1>3, <2>3, RowsAreBounded
        <4> QED BY <1>1, <1>2, <2>1, <3>1, <4>1, <4>2, <4>3
      <3>2. ASSUME NEW hs \in FilesOf(MaxBackups), Keeps(TFiles, hs), TFiles' = Written(hs, x)
            PROVE  <2>7
        <4>1. /\ InOrder(Written(hs, x)) /\ Rows(Written(hs, x)) \subseteq kept \cup {x}
              /\ Gone(Written(hs, x), kept \cup {x}) \subseteq Gone(TFiles, kept)
          BY <1>2, <2>6, <3>2, NextRow
        <4>2. Cardinality(Gone(gs, kept \cup {x})) <= cost
          BY <1>1, <3>2, <4>1, CostOfOne DEF cost
        <4>3. Cardinality(Gone(gs, kept \cup {x})) \in Nat
          BY <1>3, <2>3, RowsAreBounded
        <4> QED BY <1>1, <1>2, <3>2, <4>1, <4>2, <4>3
      <3> QED BY <2>4, <3>1, <3>2
    <2>8. written' \in Nat /\ faults' \in Nat /\ raised' \in Nat /\ kept' \in SUBSET (1 .. written')
      BY <1>2, <1>3, <2>2
    <2> QED BY <2>2, <2>4, <2>5, <2>7, <2>8 DEF TInv
  <1>10. CASE TelemetryFile!WriteDropped
    BY <1>5, <1>10 DEF TelemetryFile!WriteDropped
  <1>11. CASE TelemetryFile!Flush
    <2>1. UNCHANGED <<active, backups, kept, written, raised>>
          /\ (faults' = faults \/ faults' = faults + 1)
          /\ torn' = TelemetryFile!TailLeft
      BY <1>11 DEF TelemetryFile!Flush
    <2>2. torn' \in BOOLEAN /\ (TOwes' => TOwes)
      <3>1. torn \in BOOLEAN /\ writer \in {"new", "open"}
        BY <1>2, <1>11 DEF TelemetryFile!FileTypeOK, TelemetryFile!Flush, TelemetryFile!IsOpen
      <3>2. torn' = TRUE \/ torn' = FALSE
        BY <2>1, <3>1 DEF TelemetryFile!TailLeft
      <3>3. torn' = TRUE => TOwes
        BY <2>1, <3>1 DEF TelemetryFile!TailLeft, TelemetryFile!FindsTail, TOwes
      <3> QED BY <3>2, <3>3 DEF TOwes
    <2> QED BY <1>1, <1>2, <1>4, <2>1, <2>2
  <1>12. CASE TelemetryFile!Close
    BY <1>1, <1>2, <1>4, <1>12 DEF TelemetryFile!Close, TelemetryFile!fileVars, TOwes, TelemetryFile!FileTypeOK
  <1>13. CASE TelemetryFile!Crash
    <2>1. CASE UNCHANGED <<TelemetryFile!fileVars, written, faults>>
      BY <1>1, <1>2, <1>4, <1>13, <2>1 DEF TelemetryFile!Crash, TelemetryFile!fileVars, TOwes, TelemetryFile!FileTypeOK
    <2>2. CASE ~UNCHANGED <<TelemetryFile!fileVars, written, faults>>
      BY <1>5, <1>13, <2>2 DEF TelemetryFile!Crash
    <2> QED BY <2>1, <2>2
  <1>14. CASE UNCHANGED telemetryVars
    <2>1. UNCHANGED <<active, backups, torn, kept, written, faults, raised, writer>>
      BY <1>14 DEF telemetryVars
    <2> QED BY <1>1, <1>2, <1>4, <2>1 DEF TOwes, TelemetryFile!FileTypeOK
  <1> QED
    BY <1>6, <1>7, <1>8, <1>9, <1>10, <1>11, <1>12, <1>13, <1>14 DEF TelemetryFile!Next

\* Without a fault the files hold the last rows one after the other: the last
\* n in the file, the MaxLines before them in each backup there is, the newest
\* backup first.
Whole ==
  /\ Len(active) >= 1
  /\ \A k \in 1 .. Len(active) : active[k] = written - Len(active) + k
  /\ \A i \in 1 .. MaxBackups :
       \/ backups[i] = <<>> /\ written - Len(active) <= (i - 1) * MaxLines
       \/ /\ Len(backups[i]) = MaxLines
          /\ \A k \in 1 .. MaxLines : backups[i][k] = written - Len(active) - i * MaxLines + k

WInv == faults = 0 /\ raised = 0 => kept = 1 .. written /\ Whole /\ (torn => writer # "open")

LEMMA WholeInit == TelemetryFile!Init => WInv
  <1> SUFFICES ASSUME TelemetryFile!Init PROVE WInv
    OBVIOUS
  <1>1. MaxBackups \in Nat \ {0} /\ MaxLines \in Nat \ {0}
    BY StoreAssumptions DEF TelemetryFile!RotationOptions
  <1>2. active = <<1>> /\ backups = [i \in 1 .. MaxBackups |-> <<>>]
        /\ written = 1 /\ kept = {1} /\ writer = "none"
    BY DEF TelemetryFile!Init, TelemetryFile!FileInit
  <1>3. Len(<<1>>) = 1 /\ <<1>>[1] = 1 /\ 1 .. 1 = {1}
    OBVIOUS
  <1>4. \A i \in 1 .. MaxBackups : (i - 1) * MaxLines >= 0
    <2>1. \A a, b \in Nat : a * b >= 0
      OBVIOUS
    <2> QED BY <1>1, <2>1
  <1>5. \A k \in 1 .. Len(active) : active[k] = written - Len(active) + k
    BY <1>2, <1>3
  <1>6. \A i \in 1 .. MaxBackups : backups[i] = <<>> /\ written - Len(active) <= (i - 1) * MaxLines
    BY <1>1, <1>2, <1>3, <1>4
  <1>7. Len(active) >= 1
    BY <1>2, <1>3
  <1> QED BY <1>2, <1>3, <1>5, <1>6, <1>7 DEF WInv, Whole

\* An append to a whole file leaves it whole, rotated or not.
LEMMA WholeFileRotates ==
  ASSUME TInv, Whole, TelemetryFile!AppendRow(written', FALSE), written' = written + 1
  PROVE  Whole'
  <1> DEFINE M == MaxLines
             B == MaxBackups
             n == Len(active)
  <1>1. B \in Nat \ {0} /\ M \in Nat \ {0}
    BY StoreAssumptions DEF TelemetryFile!RotationOptions
  <1>2. written \in Nat /\ active \in Seq(Nat) /\ n \in Nat /\ n <= M /\ n >= 1
        /\ backups \in [1 .. B -> Seq(Nat)]
    BY DEF TInv, Whole, TelemetryFile!FileTypeOK, TelemetryFile!Line
  <1>3. TelemetryFile!Content(FALSE) = active /\ active # <<>>
    <2>1. Len(<<>>) = 0
      OBVIOUS
    <2> QED BY <1>2, <2>1 DEF TelemetryFile!Content
  <1>4. CASE TelemetryFile!NeedsRotation(FALSE)
    <2>1. n = M
      <3>1. n + 1 > M
        BY <1>4 DEF TelemetryFile!NeedsRotation, TelemetryFile!Content
      <3> QED BY <1>1, <1>2, <3>1
    <2>2. active' = <<written + 1>>
          /\ backups' = [i \in 1 .. B |-> IF i = 1 THEN active ELSE backups[i - 1]]
      <3>1. active' = <<written + 1>> /\ TelemetryFile!Rotate(FALSE)
        BY <1>4 DEF TelemetryFile!AppendRow, TelemetryFile!RotateIfNeeded
      <3>2. B - (B - 1) = 1
        BY <1>1
      <3>3. TelemetryFile!Shifted(B - 1) = [i \in 1 .. B |->
                IF i > 1 THEN backups[i - 1] ELSE IF i = 1 THEN <<>> ELSE backups[i]]
        BY <3>2 DEF TelemetryFile!Shifted
      <3>4. backups' = [TelemetryFile!Shifted(B - 1) EXCEPT ![1] = active]
        BY <1>3, <3>1 DEF TelemetryFile!Rotate
      <3> QED BY <1>1, <3>1, <3>3, <3>4
    <2>3. Len(<<written + 1>>) = 1 /\ <<written + 1>>[1] = written + 1
      OBVIOUS
    <2>4. \A k \in 1 .. M : active[k] = written - M + k
      BY <2>1 DEF Whole
    <2>5. ASSUME NEW i \in 1 .. B
          PROVE  \/ backups'[i] = <<>> /\ written <= (i - 1) * M
                 \/ Len(backups'[i]) = M /\ \A k \in 1 .. M : backups'[i][k] = written - i * M + k
      <3>1. CASE i = 1
        <4>1. backups'[i] = active /\ i * M = M
          BY <1>1, <2>2, <3>1
        <4> QED BY <2>1, <2>4, <4>1
      <3>2. CASE i # 1
        <4>1. i - 1 \in 1 .. B /\ backups'[i] = backups[i - 1]
          BY <1>1, <2>2, <3>2
        <4>2. /\ (i - 1) * M = (i - 1 - 1) * M + M
              /\ i * M = (i - 1) * M + M
              /\ (i - 1) * M \in Int /\ (i - 1 - 1) * M \in Int
          BY <1>1
        <4>3. \/ backups[i - 1] = <<>> /\ written - M <= (i - 1 - 1) * M
              \/ /\ Len(backups[i - 1]) = M
                 /\ \A k \in 1 .. M : backups[i - 1][k] = written - M - (i - 1) * M + k
          BY <2>1, <4>1 DEF Whole
        <4>4. ASSUME written - M <= (i - 1 - 1) * M PROVE written <= (i - 1) * M
          BY <1>1, <1>2, <4>2, <4>4
        <4>5. \A k \in 1 .. M : written - M - (i - 1) * M + k = written - i * M + k
          BY <1>1, <1>2, <4>2
        <4> QED BY <4>1, <4>3, <4>4, <4>5
      <3> QED BY <3>1, <3>2
    <2>6. written' - Len(active') = written /\ Len(active') = 1
      BY <1>2, <2>2, <2>3
    <2>7. \A k \in 1 .. Len(active') : active'[k] = written + k
      BY <1>2, <2>2, <2>3
    <2> QED BY <2>5, <2>6, <2>7 DEF Whole
  <1>5. CASE ~TelemetryFile!NeedsRotation(FALSE)
    <2>1. active' = Append(active, written + 1) /\ backups' = backups
      BY <1>5 DEF TelemetryFile!AppendRow, TelemetryFile!RotateIfNeeded
    <2>2. written + 1 \in Nat
      BY <1>2
    <2>3. /\ Len(active') = n + 1 /\ active'[n + 1] = written + 1
          /\ \A k \in 1 .. n : active'[k] = active[k]
      BY <1>2, <2>1, <2>2, AppendProperties
    <2>4. written' - Len(active') = written - n
      BY <1>2, <2>3
    <2>5. \A k \in 1 .. n : active[k] = written - n + k
      BY DEF Whole
    <2>6. \A k \in 1 .. n + 1 : active'[k] = written - n + k
      <3>1. TAKE k \in 1 .. n + 1
      <3>2. k \in 1 .. n \/ k = n + 1
        BY <1>2
      <3>3. written - n + (n + 1) = written + 1
        BY <1>2
      <3> QED BY <2>3, <2>5, <3>2, <3>3
    <2>7. Len(active') >= 1
      BY <1>2, <2>3
    <2> QED BY <2>1, <2>3, <2>4, <2>6, <2>7 DEF Whole
  <1> QED BY <1>4, <1>5

LEMMA WholeStep == TInv /\ WInv /\ [TelemetryFile!Next]_telemetryVars => WInv'
  <1> SUFFICES ASSUME TInv, WInv, [TelemetryFile!Next]_telemetryVars, faults' = 0, raised' = 0
               PROVE  (kept = 1 .. written /\ Whole /\ (torn => writer # "open"))'
    BY DEF WInv
  <1>1. faults \in Nat /\ raised \in Nat /\ written \in Nat /\ torn \in BOOLEAN
    BY DEF TInv, TelemetryFile!FileTypeOK
  <1> DEFINE Same == UNCHANGED <<active, backups, kept, written>>
  <1>2. \/ Same /\ writer' # "open" /\ UNCHANGED <<faults, raised>>
        \/ TelemetryFile!WriteKept
        \/ TelemetryFile!Flush /\ Same /\ UNCHANGED <<faults, raised>>
        \/ UNCHANGED telemetryVars
    BY <1>1
    DEF TelemetryFile!Next, TelemetryFile!Create, TelemetryFile!RaiseTornTail,
        TelemetryFile!TruncateFails, TelemetryFile!WriteDropped, TelemetryFile!Flush,
        TelemetryFile!Close, TelemetryFile!Crash, TelemetryFile!fileVars
  <1>3. kept = 1 .. written /\ Whole /\ (torn => writer # "open")
    BY <1>1, <1>2 DEF WInv, TelemetryFile!WriteKept, telemetryVars
  <1>4. CASE Same
    <2>1. kept' = 1 .. written' /\ Whole'
      BY <1>3, <1>4 DEF Whole
    <2>2. CASE writer' # "open"
      BY <2>1, <2>2
    <2>3. CASE TelemetryFile!Flush
      <3>1. writer \in {"new", "open"} /\ torn' = TelemetryFile!TailLeft
        BY <2>3 DEF TelemetryFile!Flush, TelemetryFile!IsOpen
      <3>2. ~torn'
        BY <1>3, <3>1 DEF TelemetryFile!TailLeft, TelemetryFile!FindsTail
      <3> QED BY <2>1, <3>2
    <2>4. CASE UNCHANGED <<torn, writer>>
      BY <1>3, <2>1, <2>4
    <2> QED BY <1>1, <1>2, <1>4, <2>2, <2>3, <2>4 DEF telemetryVars, TelemetryFile!WriteKept
  <1>5. CASE TelemetryFile!WriteKept
    <2>1. /\ writer \in {"new", "open"} /\ written' = written + 1 /\ kept' = kept \cup {written'}
          /\ TelemetryFile!AppendRow(written', TelemetryFile!TailLeft)
      BY <1>5 DEF TelemetryFile!WriteKept, TelemetryFile!IsOpen
    <2>2. TelemetryFile!TailLeft = FALSE
      BY <1>1, <1>3, <2>1 DEF TelemetryFile!TailLeft, TelemetryFile!FindsTail
    <2>3. TelemetryFile!AppendRow(written', FALSE)
      BY <2>1, <2>2
    <2>4. Whole'
      BY <1>3, <2>1, <2>3, WholeFileRotates
    <2>5. kept' = 1 .. written'
      BY <1>1, <1>3, <2>1
    <2>6. torn' = FALSE
      BY <2>3 DEF TelemetryFile!AppendRow
    <2> QED BY <2>4, <2>5, <2>6
  <1>6. CASE UNCHANGED telemetryVars
    BY <1>4, <1>6 DEF telemetryVars
  <1> QED BY <1>2, <1>4, <1>5, <1>6

LEMMA Quotient == ASSUME NEW e \in Nat, NEW M \in Nat \ {0} PROVE \E i \in Nat \ {0} : (i-1)*M <= e /\ e < i*M
  <1> DEFINE i == e \div M + 1
  <1>1. e \div M \in Nat /\ (e \div M) * M <= e /\ e < (e \div M) * M + M
    BY SMT
  <1>2. i \in Nat \ {0} /\ i - 1 = e \div M
    BY <1>1
  <1>3. i * M = (e \div M) * M + M
    BY <1>2, SMT
  <1> QED BY <1>1, <1>2, <1>3

\* A row that is d lines before the end of the file is in backup d \div MaxLines
\* + 1, which is there if there are that many rows.
LEMMA WholeIsRetained == TInv /\ WInv => TelemetryFile!RetentionHolds
  <1> DEFINE M == MaxLines
             B == MaxBackups
             n == Len(active)
  <1> SUFFICES ASSUME TInv, WInv, faults = 0, raised = 0,
                      NEW r \in kept, r + M * B >= written, r \notin TelemetryFile!OnDisk
               PROVE  FALSE
    BY DEF TelemetryFile!RetentionHolds
  <1>1. B \in Nat \ {0} /\ M \in Nat \ {0}
    BY StoreAssumptions DEF TelemetryFile!RotationOptions
  <1>2. /\ written \in Nat /\ active \in Seq(Nat) /\ n \in Nat /\ n >= 1
        /\ backups \in [1 .. B -> Seq(Nat)] /\ r \in 1 .. written /\ Whole
    BY DEF TInv, WInv, Whole, TelemetryFile!FileTypeOK, TelemetryFile!Line
  <1>3. \A i, k : ~At(TFiles, i, k, r)
    BY TFilesAreFiles, RowsArePlaces
  <1>4. CASE r > written - n
    <2> DEFINE k == r - (written - n)
    <2>1. k \in 1 .. n /\ written - n + k = r
      BY <1>2, <1>4
    <2> HIDE DEF k
    <2>2. active[k] = r /\ k \in DOMAIN active
      BY <1>2, <2>1 DEF Whole
    <2>3. At(TFiles, 0, k, r)
      BY <1>1, <1>2, <2>2 DEF At, TFiles
    <2> QED BY <1>3, <2>3
  <1>5. CASE r <= written - n
    <2> DEFINE e == written - n - r
    <2>1. e \in Nat
      BY <1>2, <1>5
    <2>2. PICK i \in Nat \ {0} : (i - 1) * M <= e /\ e < i * M
      BY <1>1, <2>1, Quotient
    <2>3. M * B \in Nat /\ i * M \in Nat /\ (i - 1) * M \in Nat /\ i * M = (i - 1) * M + M
      BY <1>1
    <2>4. e < M * B
      BY <1>2, <2>3
    <2>5. i \in 1 .. B
      <3>1. SUFFICES ASSUME i - 1 >= B PROVE FALSE
        BY <1>1
      <3>2. (i - 1) * M >= B * M
        BY <1>1, <3>1
      <3> QED BY <1>1, <2>1, <2>2, <2>3, <2>4, <3>2
    <2>6. ~(written - n <= (i - 1) * M)
      BY <1>2, <2>2, <2>3
    <2>7. /\ Len(backups[i]) = M
          /\ \A k \in 1 .. M : backups[i][k] = written - n - i * M + k
      BY <1>2, <2>5, <2>6 DEF Whole
    <2> DEFINE k == r - (written - n) + i * M
    <2>8. k \in 1 .. M /\ written - n - i * M + k = r
      <3> DEFINE p == (i - 1) * M
      <3>1. p \in Nat /\ i * M = p + M /\ p <= e /\ e < p + M
        BY <2>2, <2>3
      <3>2. k = p + M - e
        <4> HIDE DEF p
        <4>1. k = r - (written - n) + (p + M)
          BY <3>1
        <4>2. written \in Int /\ n \in Int /\ r \in Int /\ p \in Int /\ M \in Int
          BY <1>1, <1>2, <3>1
        <4>3. r - (written - n) + (p + M) = p + M - (written - n - r)
          BY <4>2
        <4> QED BY <4>1, <4>3
      <3>3. written - n - (p + M) + (p + M - e) = r
        <4> HIDE DEF p
        <4> QED BY <1>1, <1>2, <3>1
      <3>4. p + M - e \in 1 .. M
        <4> HIDE DEF p, e
        <4> QED BY <1>1, <2>1, <3>1
      <3> QED BY <3>1, <3>2, <3>3, <3>4
    <2>9. backups[i][k] = r /\ k \in DOMAIN backups[i]
      BY <1>2, <2>5, <2>7, <2>8
    <2> HIDE DEF k
    <2>10. At(TFiles, i, k, r)
      BY <1>1, <1>2, <2>5, <2>9 DEF At, TFiles
    <2> QED BY <1>3, <2>10
  <1> QED BY <1>2, <1>4, <1>5

\* However appends and rotations fail, and whenever the process dies, telemetry
\* rows stay in order, a fault or an error the caller was given costs at most
\* one row, and without any every row within the retention is on disk.
THEOREM TelemetryStays == StoreSpec => []TelemetryIsKept
  <1> DEFINE Inv == TInv /\ WInv
  <1>1. StoreInit => Inv
    BY TelemetryInit, WholeInit DEF StoreInit
  <1>2. Inv /\ [StoreNext]_storeVars => Inv'
    <2> SUFFICES ASSUME Inv, [StoreNext]_storeVars PROVE Inv'
      OBVIOUS
    <2>1. [TelemetryFile!Next]_telemetryVars
      BY DEF StoreNext, storeVars, telemetryVars
    <2> QED BY <2>1, TelemetryStep, WholeStep
  <1>3. Inv => TelemetryIsKept
    <2> SUFFICES ASSUME TInv, WInv PROVE TelemetryIsKept
      OBVIOUS
    <2>1. TelemetryFile!RowsInOrder /\ TelemetryFile!RetentionHolds
      BY TFilesAreFiles, WholeIsRetained DEF TInv
    <2>2. TelemetryFile!LossIsBounded
      BY TFilesAreFiles DEF TInv, TelemetryFile!LossIsBounded, TelemetryFile!Cardinality, Cardinality,
             TelemetryFile!IsFiniteSet, IsFiniteSet
    <2> QED BY <2>1, <2>2 DEF TelemetryIsKept
  <1> QED BY <1>1, <1>2, <1>3, PTL DEF StoreSpec

-----------------------------------------------------------------------------
(* Tick records *)

\* A torn file that a recorder has checked costs the next record as well.
ROwes == recordTorn /\ \E p \in Procs : state[p] = "checked"

RecInv ==
  /\ Recorder!FileTypeOK
  /\ state \in [Procs -> {"closed", "open", "checked"}] /\ Recorder!OneRecorder
  /\ recorded \in Nat /\ recordKept \in SUBSET (1 .. recorded) /\ recordFaults \in Nat
  /\ Rows(RFiles) \subseteq recordKept /\ InOrder(RFiles)
  /\ Cardinality(Gone(RFiles, recordKept)) <= recordFaults
  /\ ROwes => Cardinality(Gone(RFiles, recordKept)) + 1 <= recordFaults

LEMMA RecordsInit == Recorder!Init => RecInv
  <1> SUFFICES ASSUME Recorder!Init PROVE RecInv
    OBVIOUS
  <1>1. RecordBackups \in Nat \ {0} /\ RecordLines \in Nat \ {0}
    BY StoreAssumptions DEF Recorder!RotationOptions
  <1>2. recordActive = <<1>> /\ recordBackups = [i \in 1 .. RecordBackups |-> <<>>]
        /\ recordTorn \in BOOLEAN /\ lock = None /\ state = [p \in Procs |-> "closed"]
        /\ recorded = 1 /\ recordKept = {1} /\ recordFaults = 0
    BY DEF Recorder!Init, Recorder!FileInit
  <1>3. <<1>> \in Seq(Nat) /\ Len(<<1>>) = 1 /\ <<>> \in Seq(Nat) /\ DOMAIN <<1>> = {1} /\ <<1>>[1] = 1
        /\ DOMAIN <<>> = {} /\ 1 .. 1 = {1}
    OBVIOUS
  <1>4. Recorder!FileTypeOK
    <2>1. recordActive \in Seq(Nat) /\ Len(recordActive) <= RecordLines
      BY <1>1, <1>2, <1>3
    <2> QED BY <1>2, <1>3, <2>1 DEF Recorder!FileTypeOK, Recorder!Line
  <1>5. \A i \in DOMAIN RFiles : \A k \in DOMAIN RFiles[i] : i = 0 /\ k = 1 /\ RFiles[i][k] = 1
    BY <1>1, <1>2, <1>3 DEF RFiles
  <1>6. Rows(RFiles) \subseteq {1}
    BY <1>5, RowsArePlaces DEF At
  <1>7. InOrder(RFiles)
    BY <1>5 DEF InOrder
  <1>8. Gone(RFiles, recordKept) = {}
    <2>1. \A s \in Rows(RFiles) : s = 1
      BY <1>6
    <2> QED BY <1>2, <2>1 DEF Gone
  <1>9. Cardinality(Gone(RFiles, recordKept)) = 0
    BY <1>8, FS_EmptySet
  <1>10. ~ROwes /\ Recorder!OneRecorder /\ state \in [Procs -> {"closed", "open", "checked"}]
    BY <1>2, StoreAssumptions DEF ROwes, Recorder!OneRecorder, Recorder!NoneIsNoProcess
  <1>11. recorded \in Nat /\ recordKept \in SUBSET (1 .. recorded) /\ recordFaults \in Nat
         /\ Rows(RFiles) \subseteq recordKept /\ 0 <= recordFaults
    BY <1>2, <1>3, <1>6
  <1> QED BY <1>4, <1>7, <1>9, <1>10, <1>11 DEF RecInv

LEMMA RecordsStep == RecInv /\ [Recorder!Next]_recorderVars => RecInv'
  <1> SUFFICES ASSUME RecInv, [Recorder!Next]_recorderVars PROVE RecInv'
    OBVIOUS
  <1> DEFINE cost == Cardinality(Gone(RFiles, recordKept))
  <1>1. cost \in Nat /\ IsFiniteSet(Gone(RFiles, recordKept))
    BY RowsAreBounded DEF RecInv
  <1>2. /\ cost <= recordFaults /\ (ROwes => cost + 1 <= recordFaults) /\ recordFaults \in Nat
        /\ recorded \in Nat /\ recordKept \in SUBSET (1 .. recorded) /\ Recorder!FileTypeOK
        /\ Rows(RFiles) \subseteq recordKept /\ InOrder(RFiles)
        /\ state \in [Procs -> {"closed", "open", "checked"}] /\ Recorder!OneRecorder
        /\ recordTorn \in BOOLEAN
    BY DEF RecInv, Recorder!FileTypeOK
  <1>3. recordKept \in SUBSET (1 .. (recorded + 1))
        /\ recordKept \cup {recorded + 1} \in SUBSET (1 .. (recorded + 1))
    BY <1>2
  <1> HIDE DEF cost
  \* Who has the lock: the process of the step and no other.
  <1>4. ASSUME NEW p \in Procs, state[p] # "closed"
        PROVE  lock = p /\ p # None /\ \A q \in Procs : q # p => state[q] = "closed"
    BY <1>2, <1>4, StoreAssumptions DEF Recorder!OneRecorder, Recorder!NoneIsNoProcess
  <1>5. ASSUME NEW p \in Procs, state[p] # "closed",
               \/ state' = [state EXCEPT ![p] = "checked"] /\ lock' = lock
               \/ state' = [state EXCEPT ![p] = "closed"] /\ lock' = None
        PROVE  state' \in [Procs -> {"closed", "open", "checked"}] /\ Recorder!OneRecorder'
    BY <1>2, <1>4, <1>5, StoreAssumptions DEF Recorder!OneRecorder, Recorder!NoneIsNoProcess
  \* The files stay.
  <1>6. ASSUME UNCHANGED <<recordActive, recordBackups, recordKept, recorded, recordFaults>>,
               recordTorn' \in BOOLEAN, ROwes' => ROwes,
               state' \in [Procs -> {"closed", "open", "checked"}], Recorder!OneRecorder'
        PROVE  RecInv'
    <2>1. RFiles' = RFiles
      BY <1>6 DEF RFiles
    <2>2. Recorder!FileTypeOK'
      BY <1>2, <1>6 DEF Recorder!FileTypeOK
    <2> QED BY <1>1, <1>2, <1>6, <2>1, <2>2 DEF RecInv, cost
  \* An append fails: what was kept is kept or rotated out.
  <1>7. ASSUME NEW p \in Procs,
               Recorder!AppendNothing(Recorder!TailLeft(p)) \/ Recorder!AppendPart(Recorder!TailLeft(p)),
               recordKept' = recordKept, recorded' = recorded + 1, recordFaults' = recordFaults + 1,
               state' \in [Procs -> {"closed", "open", "checked"}], Recorder!OneRecorder'
        PROVE  RecInv'
    <2>1. Recorder!TailLeft(p) \in BOOLEAN
      BY <1>2 DEF Recorder!TailLeft
    <2>2. Recorder!FileTypeOK' /\ Keeps(RFiles, RFiles')
      BY <1>2, <1>7, <2>1, RFilesFault
    <2> DEFINE gs == RFiles'
    <2>3. InOrder(gs) /\ Rows(gs) \subseteq recordKept
          /\ Gone(gs, recordKept) \subseteq Gone(RFiles, recordKept)
      BY <1>2, <2>2, KeptRows
    <2>4. Cardinality(Gone(gs, recordKept)) <= cost /\ Cardinality(Gone(gs, recordKept)) \in Nat
      BY <1>1, <1>2, <2>3, CostOfOne, RowsAreBounded DEF cost
    <2>5. Cardinality(Gone(gs, recordKept)) + 1 <= recordFaults'
          /\ Cardinality(Gone(gs, recordKept)) <= recordFaults'
      BY <1>1, <1>2, <1>7, <2>4
    <2>6. recorded' \in Nat /\ recordFaults' \in Nat /\ recordKept' \in SUBSET (1 .. recorded')
      BY <1>2, <1>3, <1>7
    <2> QED BY <1>7, <2>2, <2>3, <2>5, <2>6 DEF RecInv
  <1>8. ASSUME NEW p \in Procs, Recorder!Open(p) PROVE RecInv'
    <2>1. /\ lock = None /\ lock' = p /\ state' = [state EXCEPT ![p] = "open"]
          /\ UNCHANGED <<recordActive, recordTorn, recordBackups, recordKept, recorded, recordFaults>>
      BY <1>8 DEF Recorder!Open, Recorder!fileVars
    <2>2. \A q \in Procs : state[q] = "closed"
      BY <1>2, <2>1, StoreAssumptions DEF Recorder!OneRecorder, Recorder!NoneIsNoProcess
    <2>3. state' \in [Procs -> {"closed", "open", "checked"}] /\ Recorder!OneRecorder' /\ ~ROwes'
      BY <1>2, <2>1, <2>2 DEF Recorder!OneRecorder, ROwes
    <2> QED BY <1>2, <1>6, <2>1, <2>3
  <1>9. ASSUME NEW p \in Procs, Recorder!AppendRecord(p) PROVE RecInv'
    <2> DEFINE tail == Recorder!TailLeft(p)
               x == recorded + 1
    <2>1. /\ recorded' = x /\ Recorder!AppendRow(x, tail) /\ recordKept' = recordKept \cup {x}
          /\ state[p] # "closed" /\ state' = [state EXCEPT ![p] = "checked"]
          /\ UNCHANGED <<lock, recordFaults>>
      BY <1>9 DEF Recorder!AppendRecord, Recorder!Checked
    <2>2. tail \in BOOLEAN /\ (tail => ROwes)
      BY <1>2 DEF Recorder!TailLeft, ROwes
    <2>3. x \in Nat
      BY <1>2
    <2> HIDE DEF tail
    <2>4. /\ Recorder!FileTypeOK' /\ recordTorn' = FALSE
          /\ \/ tail /\ Keeps(RFiles, RFiles')
             \/ \E hs \in FilesOf(RecordBackups) : Keeps(RFiles, hs) /\ RFiles' = Written(hs, x)
      BY <1>2, <2>1, <2>2, <2>3, RFilesAppend
    <2>5. ~ROwes'
      BY <2>4 DEF ROwes
    <2> DEFINE gs == RFiles'
    <2>6. RecordBackups \in Nat
      BY StoreAssumptions DEF Recorder!RotationOptions
    <2>7. Cardinality(Gone(gs, recordKept \cup {x})) \in Nat
      BY <1>3, <2>3, RowsAreBounded
    <2>8. /\ InOrder(gs) /\ Rows(gs) \subseteq recordKept \cup {x}
          /\ Cardinality(Gone(gs, recordKept \cup {x})) <= recordFaults
      <3>1. CASE tail /\ Keeps(RFiles, RFiles')
        <4>1. InOrder(gs) /\ Rows(gs) \subseteq recordKept
              /\ Gone(gs, recordKept \cup {x}) \subseteq Gone(RFiles, recordKept) \cup {x}
          BY <1>2, <3>1, KeptRows
        <4>2. Cardinality(Gone(gs, recordKept \cup {x})) <= cost + 1
          BY <1>1, <4>1, CostOfOne DEF cost
        <4> QED BY <1>1, <1>2, <2>2, <2>7, <3>1, <4>1, <4>2
      <3>2. ASSUME NEW hs \in FilesOf(RecordBackups), Keeps(RFiles, hs), RFiles' = Written(hs, x)
            PROVE  <2>8
        <4>1. /\ InOrder(Written(hs, x)) /\ Rows(Written(hs, x)) \subseteq recordKept \cup {x}
              /\ Gone(Written(hs, x), recordKept \cup {x}) \subseteq Gone(RFiles, recordKept)
          BY <1>2, <2>6, <3>2, NextRow
        <4>2. Cardinality(Gone(gs, recordKept \cup {x})) <= cost
          BY <1>1, <3>2, <4>1, CostOfOne DEF cost
        <4> QED BY <1>1, <1>2, <2>7, <3>2, <4>1, <4>2
      <3> QED BY <2>4, <3>1, <3>2
    <2>9. recorded' \in Nat /\ recordFaults' \in Nat /\ recordKept' \in SUBSET (1 .. recorded')
      BY <1>2, <1>3, <2>1
    <2>10. state' \in [Procs -> {"closed", "open", "checked"}] /\ Recorder!OneRecorder'
      BY <1>5, <2>1
    <2> QED BY <2>1, <2>4, <2>5, <2>8, <2>9, <2>10 DEF RecInv
  <1>10. ASSUME NEW p \in Procs, Recorder!AppendRaises(p) PROVE RecInv'
    BY <1>5, <1>7, <1>10 DEF Recorder!AppendRaises, Recorder!Checked
  <1>11. ASSUME NEW p \in Procs, Recorder!CrashInAppend(p) PROVE RecInv'
    BY <1>5, <1>7, <1>11 DEF Recorder!CrashInAppend
  <1>12. ASSUME NEW p \in Procs, Recorder!Read(p) PROVE RecInv'
    <2>1. /\ state[p] # "closed" /\ state' = [state EXCEPT ![p] = "checked"] /\ lock' = lock
          /\ recordTorn' = Recorder!TailLeft(p)
          /\ UNCHANGED <<recordActive, recordBackups, recordKept, recorded, recordFaults>>
      BY <1>12 DEF Recorder!Read, Recorder!Checked
    <2>2. recordTorn' \in BOOLEAN /\ (ROwes' => ROwes)
      <3>1. recordTorn' \in BOOLEAN /\ (recordTorn' => ROwes)
        BY <1>2, <2>1 DEF Recorder!TailLeft, ROwes
      <3> QED BY <3>1 DEF ROwes
    <2> QED BY <1>5, <1>6, <2>1, <2>2
  <1>13. ASSUME NEW p \in Procs, Recorder!Close(p) PROVE RecInv'
    <2>1. /\ state[p] # "closed" /\ state' = [state EXCEPT ![p] = "closed"] /\ lock' = None
          /\ UNCHANGED <<recordActive, recordTorn, recordBackups, recordKept, recorded, recordFaults>>
      BY <1>13 DEF Recorder!Close, Recorder!fileVars
    <2>2. ~ROwes'
      BY <1>2, <1>4, <2>1 DEF ROwes
    <2> QED BY <1>2, <1>5, <1>6, <2>1, <2>2
  <1>14. CASE UNCHANGED recorderVars
    BY <1>2, <1>6, <1>14 DEF recorderVars, ROwes, Recorder!OneRecorder
  <1> QED
    BY <1>8, <1>9, <1>10, <1>11, <1>12, <1>13, <1>14 DEF Recorder!Next

\* Two processes never record at once; however appends fail, records stay in
\* order and a failed append costs at most the record after it as well; a read
\* that returns has seen what was recorded and nothing else.
THEOREM TickRecordsStay == StoreSpec => RecordsAreKept
  <1>1. StoreInit => RecInv
    BY RecordsInit DEF StoreInit
  <1>2. [StoreNext]_storeVars => [Recorder!Next]_recorderVars
    BY DEF StoreNext, storeVars, recorderVars
  <1>3. RecInv => Recorder!OneRecorder /\ Recorder!RowsInOrder /\ Recorder!LossIsBounded
    BY RFilesAreFiles DEF RecInv, Recorder!LossIsBounded, Recorder!Cardinality, Cardinality,
                          Recorder!IsFiniteSet, IsFiniteSet
  <1>4. RecInv /\ [Recorder!Next]_recorderVars =>
          [read' # read /\ ~failed' => read' \subseteq recordKept'
             /\ read' = Recorder!ToSet(recordActive')]_(Recorder!vars)
    <2> SUFFICES ASSUME RecInv, NEW p \in Procs, Recorder!Read(p), ~failed'
                 PROVE  read' \subseteq recordKept' /\ read' = Recorder!ToSet(recordActive')
      BY DEF Recorder!Next, Recorder!Open, Recorder!AppendRecord, Recorder!AppendRaises,
             Recorder!Close, Recorder!CrashInAppend, recorderVars
    <2>1. /\ read' = Recorder!ToSet(recordActive) /\ recordActive' = recordActive
          /\ recordKept' = recordKept
          /\ Recorder!Garbage \notin Recorder!ToSet(Recorder!Content(Recorder!TailLeft(p)))
      BY DEF Recorder!Read
    <2>2. Recorder!Garbage \notin Recorder!ToSet(recordActive)
      <3>1. recordActive \in Seq(Nat)
        BY DEF RecInv, Recorder!FileTypeOK, Recorder!Line
      <3>2. DOMAIN recordActive \subseteq DOMAIN Recorder!Content(Recorder!TailLeft(p))
            /\ \A k \in DOMAIN recordActive :
                  Recorder!Content(Recorder!TailLeft(p))[k] = recordActive[k]
        BY <3>1, AppendProperties DEF Recorder!Content, Recorder!Garbage
      <3> QED BY <2>1, <3>2 DEF Recorder!ToSet
    <2>3. Recorder!ToSet(recordActive) \subseteq Recorder!OnDisk
      <3>1. 0 \in 0 .. RecordBackups
        BY StoreAssumptions DEF Recorder!RotationOptions
      <3> QED BY <2>2, <3>1 DEF Recorder!OnDisk, Recorder!File
    <2>4. Recorder!OnDisk \subseteq recordKept
      BY RFilesAreFiles DEF RecInv
    <2> QED BY <2>1, <2>3, <2>4
  <1> QED BY <1>1, <1>2, <1>3, <1>4, RecordsStep, PTL
          DEF StoreSpec, RecordsAreKept, Recorder!ReadsAreRecords
=============================================================================
