----------------------------- MODULE SdkAdapter -----------------------------
(***************************************************************************)
(* The adapter to the game's SDK (adapters/sdk): turns are taken from the  *)
(* client's event stream and adapted, decisions become plans that are      *)
(* submitted, and the client is closed once for all who ask for it.        *)
(*                                                                         *)
(* A driver reads a turn, decides and submits; the closers are tasks that  *)
(* call close, one of them may also close the driver's stream.  A step is  *)
(* the code between two awaits; a waiting task may be cancelled.  The SDK  *)
(* client, the server behind it and the decider are the environment.       *)
(*                                                                         *)
(* A turn is [tick, status, respawn, objects, beacon, events], an object   *)
(* [what, id, role, controlled, dest, moving, cells, kind].  A decision is *)
(* [tick, orders, core], its orders [action, aim, target] by unit.         *)
(***************************************************************************)
EXTENDS Integers, Sequences, FiniteSets, SequencesExt

CONSTANTS
  None,
  Closers,      \* the tasks that close the client
  Turns,        \* the turns the stream may give
  Decisions,    \* the decisions the driver may make
  MaxTurns      \* bound: turns taken from the stream

VARIABLES
  driver,       \* [at, obs, plan, outcome]
  stream,       \* [closed, events], events one of fresh, open, ended
  sourceClosed, \* LiveTurnSource._closed
  closing,      \* the close task: none, running, succeeded, failed
  closeCalls,   \* calls of the SDK client's close
  closer,       \* for each closer: idle, waiting, returned, raised, cancelled
  inForce,      \* the plan the server holds for a tick, by tick
  reported,     \* the ticks whose submission was reported as accepted, and with which plan
  taken         \* turns taken so far

sdkVars == <<driver, stream, sourceClosed, closing, closeCalls, closer, inForce, reported, taken>>

-----------------------------------------------------------------------------
(* Adapting a turn. *)

\* The places of the things with an identity, and of the player's own.
Identified(turn) == {i \in DOMAIN turn.objects : turn.objects[i].what \in {"unit", "core"}}
Own(turn, what) == {i \in Identified(turn) : turn.objects[i].what = what /\ turn.objects[i].controlled}
OwnCores(turn) == Own(turn, "core")
OwnUnits(turn) == Own(turn, "unit")
Terrain(turn) == SelectSeq(turn.objects, LAMBDA o : o.what = "terrain")
TerrainCells(turn) == FlattenSeq([i \in DOMAIN Terrain(turn) |-> Terrain(turn)[i].cells])

Distinct(s) == \A i, j \in DOMAIN s : i # j => s[i] # s[j]
IdsOf(s) == [i \in DOMAIN s |-> s[i].id]

\* What the domain's constructors accept: a moving core has a destination, a
\* carried beacon a carrier, a respawning player a tick to respawn at.
CoreIsSound(o) == o.moving <=> o.dest # None
BeaconIsSound(beacon) == (beacon.status = "CARRIED") <=> beacon.carrier # None
LifecycleIsSound(turn) == (turn.status = "RESPAWNING") <=> turn.respawn # None
EventsAreSound(turn) ==
  Distinct(IdsOf(turn.events)) /\ \A e \in ToSet(turn.events) : e.tick <= turn.tick
\* No two things of the world have one identity, no two one cell.
WorldIsSound(turn) ==
  /\ \A i, j \in Identified(turn) : i # j => turn.objects[i].id # turn.objects[j].id
  /\ Distinct(TerrainCells(turn))

\* What adapt_async_turn accepts; anything else makes it raise.
TurnIsSound(turn) ==
  /\ turn.tick >= 1
  /\ \A o \in ToSet(turn.objects) : o.what \in {"unit", "core", "terrain"}
  /\ \A o \in ToSet(Terrain(turn)) : o.cells # << >> /\ o.kind \in {"OBSTACLE", "RESOURCE"}
  /\ Cardinality(OwnCores(turn)) <= 1 /\ \A i \in OwnCores(turn) : CoreIsSound(turn.objects[i])
  /\ WorldIsSound(turn) /\ BeaconIsSound(turn.beacon)
  /\ EventsAreSound(turn) /\ LifecycleIsSound(turn)

\* adapt_async_turn: the part of the observation a plan is checked against.
AdaptAsyncTurn(turn) ==
  LET unit(id) == turn.objects[CHOOSE i \in OwnUnits(turn) : turn.objects[i].id = id]
  IN  IF ~TurnIsSound(turn) THEN None
      ELSE [tick |-> turn.tick,
            core |-> OwnCores(turn) # {},
            units |-> [id \in {turn.objects[i].id : i \in OwnUnits(turn)} |-> unit(id).role],
            entities |-> {turn.objects[i].id : i \in Identified(turn)}]

-----------------------------------------------------------------------------
(* Building a plan. *)

\* UnitIntent, CoreIntent: only some actions have an aim, and these need one.
OrderIsSound(o) ==
  /\ o.action \in {"MOVE", "SWEEP"} <=> o.aim = "direction"
  /\ o.action = "SHOOT" <=> o.aim = "cell"
  /\ o.target # None => o.action = "SHOOT"
CoreOrderIsSound(o) ==
  /\ o.action = "START_MOVE" <=> o.aim = "direction"
  /\ o.action = "SPAWN" <=> o.aim = "role"
\* Decision: one that cannot be made does not reach the adapter.
DecisionIsSound(decision) ==
  /\ decision.tick >= 1
  /\ \A id \in DOMAIN decision.orders : OrderIsSound(decision.orders[id])
  /\ decision.core # None => CoreOrderIsSound(decision.core)

SharedActions == {"WAIT", "MOVE", "PICKUP_BEACON", "DROP_BEACON", "SELF_DESTRUCT", "HEAL"}
UnitActionsByRole ==
  [WORKER |-> SharedActions \cup {"HARVEST", "DEPOSIT"},
   VANGUARD |-> SharedActions \cup {"SWEEP"},
   RANGER |-> SharedActions \cup {"SHOOT"}]

\* The roles forgotten.
BuildPlanOfAnyRole(decision, obs) ==
  LET known(id) == id \in DOMAIN obs.units
      target(id) == decision.orders[id].target
  IN  IF /\ decision.tick = obs.tick
         /\ \A id \in DOMAIN decision.orders :
              /\ known(id) /\ (target(id) # None => target(id) \in obs.entities)
         /\ decision.core # None => obs.core
        THEN decision ELSE None

\* build_command_plan: the plan, or None when it raises.
BuildCommandPlan(decision, obs) ==
  LET known(id) == id \in DOMAIN obs.units
      target(id) == decision.orders[id].target
  IN  IF /\ decision.tick = obs.tick
         /\ \A id \in DOMAIN decision.orders :
              /\ known(id) /\ decision.orders[id].action \in UnitActionsByRole[obs.units[id]]
              /\ target(id) # None => target(id) \in obs.entities
         /\ decision.core # None => obs.core
        THEN decision ELSE None

-----------------------------------------------------------------------------
(* Failures. *)

\* What the SDK may raise, and what _translate_sdk_exception makes of it.
SdkFailures == {"protocol", "transport", "api busy", "api refused", "turn closed", "unexpected"}
TranslateSdkException(failure) ==
  CASE failure \in {"transport", "api busy"} -> "retryable"
    [] failure \in {"api refused", "turn closed"} -> "permanent"
    [] OTHER -> "violation"

\* _validate_ack.
ValidateAck(ack, tick) == ack.accepted /\ ack.tick = tick /\ ack.source = "AGENT"

\* _ensure_available.
Available == closing = "none"

-----------------------------------------------------------------------------
(* The driver. *)

SdkInit ==
  /\ driver = [at |-> "idle", obs |-> None, plan |-> None, outcome |-> "none"]
  /\ stream = [closed |-> FALSE, events |-> "fresh"]
  /\ sourceClosed = FALSE
  /\ closing = "none"
  /\ closeCalls = 0
  /\ closer = [c \in Closers |-> "idle"]
  /\ inForce = << >>
  /\ reported = << >>
  /\ taken = 0

Rest(outcome) == driver' = [at |-> "idle", obs |-> None, plan |-> None, outcome |-> outcome]

\* __anext__ up to its await: a closed stream and an ended subscription stop, a
\* fresh one asks first whether the client is there.
StartRead ==
  /\ driver.at = "idle" /\ taken < MaxTurns
  /\ \/ /\ stream.closed \/ stream.events = "ended"
        /\ Rest("stopped")
        /\ UNCHANGED stream
     \/ /\ ~stream.closed /\ stream.events = "fresh" /\ ~Available
        /\ stream' = [stream EXCEPT !.events = "ended"]
        /\ Rest("permanent")
     \/ /\ ~stream.closed /\ (stream.events = "open" \/ (stream.events = "fresh" /\ Available))
        /\ stream' = [stream EXCEPT !.events = "open"]
        /\ driver' = [driver EXCEPT !.at = "reading"]
  /\ UNCHANGED <<sourceClosed, closing, closeCalls, closer, inForce, reported, taken>>

\* The next turn; a turn that cannot be adapted leaves the subscription open.
TurnArrives(turn) ==
  /\ driver.at = "reading"
  /\ taken' = taken + 1
  /\ IF AdaptAsyncTurn(turn) = None THEN Rest("violation")
     ELSE driver' = [driver EXCEPT !.at = "deciding", !.obs = AdaptAsyncTurn(turn)]
  /\ UNCHANGED <<stream, sourceClosed, closing, closeCalls, closer, inForce, reported>>

\* The events end, fail, are of an unknown shape, or the reader is cancelled:
\* the subscription is over.
ReadFails ==
  /\ driver.at = "reading"
  /\ stream' = [stream EXCEPT !.events = "ended"]
  /\ \E o \in {"stopped", "cancelled"} \cup {TranslateSdkException(f) : f \in SdkFailures} : Rest(o)
  /\ UNCHANGED <<sourceClosed, closing, closeCalls, closer, inForce, reported, taken>>

\* LiveTurnSource.stream, after the old stream was left.
Reopen ==
  /\ driver.at = "idle" /\ ~sourceClosed
  /\ stream.closed \/ stream.events = "ended"
  /\ stream' = [closed |-> FALSE, events |-> "fresh"]
  /\ UNCHANGED <<driver, sourceClosed, closing, closeCalls, closer, inForce, reported, taken>>

\* LiveSubmitter.__call__ up to its await: the plan is built, which may raise,
\* and handed to the client unless it is closing.
StartSubmit(decision) ==
  /\ driver.at = "deciding" /\ DecisionIsSound(decision)
  /\ LET plan == BuildCommandPlan(decision, driver.obs)
     IN  CASE plan = None -> Rest("raised")
           [] plan # None /\ ~Available -> Rest("permanent")
           [] OTHER -> driver' = [driver EXCEPT !.at = "submitting", !.plan = plan]
  /\ UNCHANGED <<stream, sourceClosed, closing, closeCalls, closer, inForce, reported, taken>>

\* The server takes the plan over, one for each tick: the key of a tick is used
\* once.
ServerTakes ==
  /\ driver.at = "submitting" /\ driver.plan.tick \notin DOMAIN inForce
  /\ inForce' = [t \in DOMAIN inForce \cup {driver.plan.tick} |->
                   IF t \in DOMAIN inForce THEN inForce[t] ELSE driver.plan]
  /\ UNCHANGED <<driver, stream, sourceClosed, closing, closeCalls, closer, reported, taken>>

\* What the server may acknowledge: plans it holds.
Acks == [accepted : {TRUE}, tick : DOMAIN inForce, source : {"AGENT", "HUMAN"}]
        \cup [accepted : {FALSE}, tick : {driver.plan.tick}, source : {"AGENT"}]

\* The acknowledgement is checked; only a right one is reported as accepted.
Acknowledged ==
  /\ driver.at = "submitting"
  /\ \E ack \in Acks :
       IF ValidateAck(ack, driver.plan.tick)
         THEN /\ Rest("accepted")
              /\ reported' = Append(reported, driver.plan)
         ELSE Rest("violation") /\ UNCHANGED reported
  /\ UNCHANGED <<stream, sourceClosed, closing, closeCalls, closer, inForce, taken>>

\* The answer is an error, or the submission is cancelled: either may come after
\* the server has taken the plan.
SubmitFails ==
  /\ driver.at = "submitting"
  /\ \E o \in {"cancelled"} \cup {TranslateSdkException(f) : f \in SdkFailures} : Rest(o)
  /\ UNCHANGED <<stream, sourceClosed, closing, closeCalls, closer, inForce, reported, taken>>

-----------------------------------------------------------------------------
(* Closing. *)

\* _LiveTurnStream.aclose: a subscription that is being read cannot be closed,
\* the error is dropped.
StreamCloses ==
  /\ ~stream.closed
  /\ stream' = [closed |-> TRUE,
                events |-> IF driver.at = "reading" THEN stream.events ELSE "ended"]
  /\ UNCHANGED <<driver, sourceClosed, closing, closeCalls, closer, inForce, reported, taken>>

\* LiveTurnSource.close.
SourceCloses ==
  /\ ~sourceClosed
  /\ sourceClosed' = TRUE
  /\ UNCHANGED <<driver, stream, closing, closeCalls, closer, inForce, reported, taken>>

\* A close task of each caller's own.
CloseEachTime(c) ==
  /\ closer[c] \in {"idle", "cancelled", "raised"}
  /\ IF closing = "succeeded"
       THEN closer' = [closer EXCEPT ![c] = "returned"] /\ UNCHANGED <<closing, closeCalls>>
       ELSE /\ closer' = [closer EXCEPT ![c] = "waiting"]
            /\ closing' = "running"
            /\ closeCalls' = closeCalls + 1
  /\ UNCHANGED <<driver, stream, sourceClosed, inForce, reported, taken>>

\* close up to its await: nothing to do once closed, else the one close task is
\* started, or the one that was started before is waited for.
Close(c) ==
  /\ closer[c] \in {"idle", "cancelled", "raised"}
  /\ IF closing = "succeeded"
       THEN closer' = [closer EXCEPT ![c] = "returned"] /\ UNCHANGED <<closing, closeCalls>>
       ELSE /\ closer' = [closer EXCEPT ![c] = "waiting"]
            /\ IF closing = "none" THEN closing' = "running" /\ closeCalls' = closeCalls + 1
               ELSE UNCHANGED <<closing, closeCalls>>
  /\ UNCHANGED <<driver, stream, sourceClosed, inForce, reported, taken>>

\* _close_underlying and _record_close_result.
CloseEnds(how) ==
  /\ closing = "running"
  /\ closing' = how
  /\ UNCHANGED <<driver, stream, sourceClosed, closeCalls, closer, inForce, reported, taken>>

\* The shield: a caller that is cancelled leaves the task running.
CloserWakes(c) ==
  /\ closer[c] = "waiting"
  /\ \/ closing = "succeeded" /\ closer' = [closer EXCEPT ![c] = "returned"]
     \/ closing = "failed" /\ closer' = [closer EXCEPT ![c] = "raised"]
     \/ closer' = [closer EXCEPT ![c] = "cancelled"]
  /\ UNCHANGED <<driver, stream, sourceClosed, closing, closeCalls, inForce, reported, taken>>

SdkNext ==
  \/ StartRead \/ ReadFails \/ Reopen
  \/ \E t \in Turns : TurnArrives(t)
  \/ \E d \in Decisions : StartSubmit(d)
  \/ ServerTakes \/ Acknowledged \/ SubmitFails
  \/ StreamCloses \/ SourceCloses
  \/ \E c \in Closers : Close(c) \/ CloserWakes(c)
  \/ \E how \in {"succeeded", "failed"} : CloseEnds(how)

SdkSpec == SdkInit /\ [][SdkNext]_sdkVars

-----------------------------------------------------------------------------
(* Properties. *)

\* Whatever drifts between the turn, the decision and the submission: the plan
\* the server holds for a tick orders only units that a turn of that tick shows
\* as controlled, to do what their role can; and a submission is only reported
\* as accepted when the server holds a plan for its tick.
OnlySoundPlansTakeEffect ==
  /\ \A t \in DOMAIN inForce :
       \E turn \in {x \in Turns : x.tick = t /\ TurnIsSound(x)} :
         \A id \in DOMAIN inForce[t].orders :
           \E o \in ToSet(turn.objects) :
             /\ o.what = "unit" /\ o.id = id /\ o.controlled
             /\ inForce[t].orders[id].action \in UnitActionsByRole[o.role]
  /\ \A i \in DOMAIN reported :
       reported[i].tick \in DOMAIN inForce /\ inForce[reported[i].tick].tick = reported[i].tick

\* The SDK client is closed once however many ask and whichever of them is
\* cancelled; a close that returns means it is closed, and one that failed is
\* told to everyone who waits or asks later.
CloseIsShared ==
  /\ closeCalls <= 1
  /\ \A c \in Closers : /\ closer[c] = "returned" => closing = "succeeded"
                        /\ closer[c] = "raised" => closing = "failed"
=============================================================================
