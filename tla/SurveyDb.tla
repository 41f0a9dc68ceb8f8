------------------------------ MODULE SurveyDb ------------------------------
(***************************************************************************)
(* The survey database of one tenant (command_center/survey_db.py): the    *)
(* ledger of connected agents and the memory of what they reported on the  *)
(* map.  A database is a value and the operators here are the statements   *)
(* the code runs on it; the module that owns databases as state says when. *)
(*                                                                         *)
(* Events are reports of an agent: what it is, when it was seen and what   *)
(* it saw.  A field the report leaves out is None, the SQL NULL.           *)
(***************************************************************************)
EXTENDS AlliancePlane, Sequences, FiniteSets, SequencesExt

\* COALESCE(new, old): a field the report leaves out keeps what is stored.
Coalesce(new, old) == IF new = None THEN old ELSE new

\* An empty database: the tables SURVEY_DB_SCHEMA creates that have a writer.
SurveyDbSchema ==
  [agents |-> << >>, events |-> << >>, resources |-> << >>,
   obstacles |-> << >>, unitsSeen |-> {}, seenHistory |-> {}, coreHunts |-> << >>]

\* The row of an agent nobody reported yet, before COALESCE fills it.
NewAgent(e) ==
  [tick |-> None, resources |-> None, core |-> None, visible |-> None,
   firstSeen |-> e.at, heartbeat |-> None, updated |-> e.at,
   connection |-> "down", mode |-> "production"]

\* INSERT ... ON CONFLICT DO UPDATE: the row under its key, new or in the old
\* one's place.
PutRow(rows, key, row) ==
  [k \in DOMAIN rows \cup {key} |-> IF k = key THEN row ELSE rows[k]]

\* _AGENT_UPSERT: fields left out keep their value; the connection state and
\* the time of the update are always those of this event.
AgentUpsert(agents, e) ==
  LET old == IF e.instance \in DOMAIN agents THEN agents[e.instance] ELSE NewAgent(e)
      row == [old EXCEPT
                !.tick       = Coalesce(e.tick, @),
                !.resources  = Coalesce(e.resources, @),
                !.core       = Coalesce(e.core, @),
                !.visible    = Coalesce(e.visible, @),
                !.mode       = Coalesce(e.mode, @),
                !.heartbeat  = IF e.event = "tick_summary" THEN e.at ELSE @,
                !.updated    = e.at,
                !.connection = IF e.event = "disconnected" THEN "down" ELSE "up"]
  IN  PutRow(agents, e.instance, row)

MaxOf(a, b) == IF a < b THEN b ELSE a
MinOf(a, b) == IF a < b THEN a ELSE b

\* The upsert of a resource cell: the newest tick wins, but the tick of the
\* last state is the one reported, and every report counts.
ResourceUpsert(rows, cell, tick) ==
  LET row == IF cell \in DOMAIN rows
               THEN [rows[cell] EXCEPT !.last = MaxOf(@, tick), !.state = "visible",
                                       !.stateTick = tick, !.seen = @ + 1]
               ELSE [first |-> tick, last |-> tick, state |-> "visible",
                     stateTick |-> tick, seen |-> 1]
  IN  PutRow(rows, cell, row)

ObstacleUpsert(rows, cell, tick) ==
  LET row == IF cell \in DOMAIN rows
               THEN [rows[cell] EXCEPT !.last = MaxOf(@, tick)]
               ELSE [first |-> tick, last |-> tick]
  IN  PutRow(rows, cell, row)

CoreHuntUpsertLatest(rows, core, tick) ==
  LET row == IF core.cell \in DOMAIN rows
               THEN [owner |-> Coalesce(core.owner, rows[core.cell].owner),
                     first |-> rows[core.cell].first, last |-> tick]
               ELSE [owner |-> core.owner, first |-> tick, last |-> tick]
  IN  PutRow(rows, core.cell, row)

\* The upsert of an enemy core: the window of ticks grows both ways, the owner
\* is the one reported last.
CoreHuntUpsert(rows, core, tick) ==
  LET row == IF core.cell \in DOMAIN rows
               THEN [owner |-> Coalesce(core.owner, rows[core.cell].owner),
                     first |-> MinOf(rows[core.cell].first, tick),
                     last  |-> MaxOf(rows[core.cell].last, tick)]
               ELSE [owner |-> core.owner, first |-> tick, last |-> tick]
  IN  PutRow(rows, core.cell, row)

\* One enemy per cell and tick: the first one reported stays.
UnitsSeenInsert(rows, unit, tick) ==
  IF \E r \in rows : r.cell = unit.cell /\ r.tick = tick
    THEN rows
    ELSE rows \cup {[cell |-> unit.cell, tick |-> tick, type |-> unit.type]}

\* _apply_mapping_upserts: one transaction over everything the agent saw.
ApplyMappingUpserts(db, e) ==
  [db EXCEPT
     !.resources   = FoldLeft(LAMBDA r, c : ResourceUpsert(r, c, e.tick), @, e.resourceCells),
     !.seenHistory = @ \cup {<<e.resourceCells[i], e.tick>> : i \in DOMAIN e.resourceCells},
     !.obstacles   = FoldLeft(LAMBDA r, c : ObstacleUpsert(r, c, e.tick), @, e.obstacleCells),
     !.unitsSeen   = FoldLeft(LAMBDA r, u : IF u.controlled THEN r
                                            ELSE UnitsSeenInsert(r, u, e.tick),
                              @, e.unitsSeen),
     !.coreHunts   = FoldLeft(LAMBDA r, c : CoreHuntUpsert(r, c, e.tick), @, e.enemyCores)]

\* The first transaction of apply_agent_event: the agent and the event log.
ApplyAgentRow(db, e) ==
  [db EXCEPT !.agents = AgentUpsert(@, e),
             !.events = Append(@, [instance |-> e.instance, event |-> e.event,
                                   tick |-> e.tick])]

HasMapping(e) == e.event = "tick_summary" /\ e.tick # None

\* apply_agent_event: the agent's row and the event are committed first, what
\* it saw in a second transaction, for tick summaries only.
ApplyAgentEvent(db, e) ==
  LET agent == ApplyAgentRow(db, e)
  IN  IF HasMapping(e) THEN ApplyMappingUpserts(agent, e) ELSE agent

\* The enemy cores the alliance snapshot reads, newest first; rows of the same
\* tick come in an order the query does not fix.
CoreHuntsByRecency(db) ==
  LET rows == {[cell |-> c, owner |-> db.coreHunts[c].owner, tick |-> db.coreHunts[c].last] :
                 c \in DOMAIN db.coreHunts}
  IN  CHOOSE s \in [1..Cardinality(rows) -> rows] :
        IsInjective(s) /\ \A i, j \in DOMAIN s : i < j => s[i].tick >= s[j].tick
=============================================================================
