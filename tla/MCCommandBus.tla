---------------------------- MODULE MCCommandBus ----------------------------
(* A command, its retry under a new id with the same key, and one of a      *)
(* generation the tenant has left; the retry lives a tick longer.           *)
EXTENDS CommandBus

Order == [id |-> "c1", key |-> "k1", expires |-> 1, stale |-> FALSE]
Retry == [id |-> "c2", key |-> "k1", expires |-> 2, stale |-> FALSE]
Other == [id |-> "c3", key |-> "k3", expires |-> 2, stale |-> FALSE]
OldGeneration == [id |-> "c4", key |-> "k4", expires |-> 2, stale |-> TRUE]

RetriedCommands == {Order, Retry, OldGeneration}
TwoCommands == {Order, Other}
=============================================================================
