-------------------------- MODULE MCDecisionArbiter --------------------------
(* Two concurrent calls for one tenant, two decisions, two game ticks, one  *)
(* restart.  Beside them, the arbiter's two neighbours in the process: the  *)
(* coordinator of its leases under callers of every kind, with three tokens *)
(* to a slot, so that a handle is replaced, its replacement released, and a *)
(* third one issued while the first two are still used; and the adapter     *)
(* that brings the turns and takes the decisions to the game, with two      *)
(* tasks that close it.  One of the three moves, the others stay where they *)
(* start.                                                                   *)
EXTENDS DecisionArbiter

Symmetry == Permutations(Callers)

VARIABLES clock, nextToken, slotHolder, runsOut, standing
leaseVars == <<clock, nextToken, slotHolder, runsOut, standing>>
Leases == INSTANCE MemoryLeases
            WITH Duration <- 2, MaxFence <- 3, MaxTime <- 3,
                 now <- clock, nextFence <- nextToken, current <- slotHolder,
                 expires <- runsOut, stored <- standing

CONSTANTS Closers, SdkTurns, Decisions, MaxTurns
VARIABLES driver, stream, sourceClosed, closing, closeCalls, closer, inForce, reported, taken
sdkVars == <<driver, stream, sourceClosed, closing, closeCalls, closer, inForce, reported, taken>>
Sdk == INSTANCE SdkAdapter WITH Turns <- SdkTurns

MCUnit(id, role, controlled) ==
  [what |-> "unit", id |-> id, role |-> role, controlled |-> controlled]
MCCore(id, controlled, dest) ==
  [what |-> "core", id |-> id, controlled |-> controlled, moving |-> dest # None, dest |-> dest]
MCTurn(tick, objects, respawn) ==
  [tick |-> tick, status |-> IF respawn = None THEN "ACTIVE" ELSE "RESPAWNING", respawn |-> respawn,
   objects |-> objects, beacon |-> [status |-> None, carrier |-> None], events |-> << >>]
MCRocks(cells) == [what |-> "terrain", kind |-> "OBSTACLE", cells |-> cells]
MCTurns ==
  {MCTurn(1, <<MCCore("core", TRUE, None), MCUnit("w", "WORKER", TRUE), MCUnit("e", "RANGER", FALSE)>>, None),
   MCTurn(2, <<MCUnit("r", "RANGER", TRUE), MCUnit("e", "RANGER", FALSE), MCRocks(<<1, 2>>)>>, 9),
   MCTurn(2, <<MCUnit("r", "RANGER", TRUE), MCUnit("r", "RANGER", TRUE), MCRocks(<<1, 1>>)>>, None)}
MCOrder(action, target) ==
  [action |-> action, target |-> target,
   aim |-> IF action = "SHOOT" THEN "cell" ELSE IF action = "MOVE" THEN "direction" ELSE None]
MCDecisions ==
  {[tick |-> 1, orders |-> [u \in {"w"} |-> MCOrder("HARVEST", None)], core |-> [action |-> "SPAWN", aim |-> "role"]],
   [tick |-> 2, orders |-> [u \in {"r"} |-> MCOrder("SHOOT", "e")], core |-> None],
   [tick |-> 2, orders |-> [u \in {"r"} |-> MCOrder("HARVEST", None)], core |-> None],
   [tick |-> 2, orders |-> [u \in {"r"} |-> MCOrder("SHOOT", "gone")], core |-> None],
   [tick |-> 2, orders |-> [u \in {"w"} |-> MCOrder("MOVE", None)], core |-> None]}

VARIABLE part  \* which of the three the behaviour is about
allVars == <<part, arbVars, leaseVars, sdkVars>>

ProcessInit ==
  part \in {"arbiter", "leases", "sdk"} /\ ArbiterInit /\ Leases!Init /\ Sdk!SdkInit
ProcessNext ==
  \/ part = "arbiter" /\ ArbiterNext /\ UNCHANGED <<part, leaseVars, sdkVars>>
  \/ part = "leases" /\ Leases!Next /\ UNCHANGED <<part, arbVars, sdkVars>>
  \/ part = "sdk" /\ Sdk!SdkNext /\ UNCHANGED <<part, arbVars, leaseVars>>
ProcessSpec == ProcessInit /\ [][ProcessNext]_allVars

-----------------------------------------------------------------------------
\* See MemoryLeases: ImplementsAuthority, looked at where the leases move.
LeasesImplementAuthority ==
  /\ Leases!Authority!Init
  /\ [][part = "leases" => [Leases!Authority!Next]_(Leases!Authority!vars)]_leaseVars

\* See SdkAdapter: what the game took was a plan the turn allows and is told
\* truly, and the tasks that close the adapter close it once.
PlansAndClosesAreSound == Sdk!OnlySoundPlansTakeEffect /\ Sdk!CloseIsShared
=============================================================================
