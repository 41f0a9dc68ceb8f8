------------------------------- MODULE MCCore -------------------------------
(* What is decided about a colony's core, in two parts; a behaviour is      *)
(* about one of them, and the other stays where it starts.                  *)
(*   migration: two conductors one after the other, one crash, one replan,  *)
(*     one respawn;                                                         *)
(*   orders: the core's orders over seven ticks, on five plots.             *)
EXTENDS Migration, CoreHooks

Conductors == Permutations(Procs)

MCConfig == [missCap |-> 2, missCooldown |-> 2, predictive |-> TRUE, massarmy |-> FALSE, workerTarget |-> 4, ratio |-> NoRatio,
             threatDistance |-> 5, contestPopulation |-> 6, contestResources |-> 10, contestRange |-> 15, holdRadius |-> 1]
MCHaven == <<6, 2>>
Workers(cells) == [i \in DOMAIN cells |-> Unit(i, "WORKER", cells[i])]
Plot == [core |-> <<2, 0>>, walls |-> {}, units |-> Workers(<<<<2, 0>>>>), resources |-> 0, health |-> 5, places |-> {}, walks |-> FALSE,
         kills |-> FALSE, hits |-> FALSE, comes |-> {}, steps |-> {<<0, 0>>}, mines |-> {{}}]
Siege == [Plot EXCEPT !.units = Workers(<<<<3, 1>>, <<3, 1>>>>), !.resources = 12, !.comes = {<<5, 0>>}, !.steps = {<<-1, 0>>},
                      !.kills = TRUE, !.hits = TRUE]
Trap == [Plot EXCEPT !.units = Workers(<<<<2, 0>>, <<4, 1>>>>), !.resources = 6, !.places = {<<0, 0>>, <<1, 0>>, <<0, 1>>}, !.walks = TRUE]
Barren == [Plot EXCEPT !.units = Workers(<<<<3, 0>>>>), !.places = {<<0, 0>>, <<-1, 0>>}, !.walks = TRUE, !.mines = {{}, {<<1, 0>>}}, !.kills = TRUE]
Walled == [Plot EXCEPT !.walls = {<<1, 0>>, <<2, 1>>, <<2, -1>>, <<3, 0>>}, !.kills = TRUE, !.hits = TRUE, !.resources = 3]
Starved == [Plot EXCEPT !.walls = {<<1, 0>>}, !.mines = {{<<1, 0>>}}, !.places = {<<1, 0>>, <<0, 0>>}, !.walks = TRUE, !.resources = 1]
MCPlots == {Siege, Trap, Barren, Walled, Starved}

VARIABLE part
bothVars == <<part, vars, migrationVars, coreVars>>

BothInit ==
  /\ part \in {"migration", "orders"}
  /\ IF part = "orders" THEN TRUE ELSE plot = Siege
  /\ MigrationInit /\ CoreInit

BothNext ==
  \/ part = "migration" /\ MigrationNext /\ UNCHANGED <<part, coreVars>>
  \/ part = "orders" /\ Turn /\ UNCHANGED <<part, vars, migrationVars>>

BothSpec == BothInit /\ [][BothNext]_bothVars

-----------------------------------------------------------------------------
\* See CoreHooks: a colony without workers, or without anything to mine, is
\* not left where it is.
ColonyRecovers == part = "orders" => DeadlockEnds /\ BarrenColonyMoves

\* See CoreHooks: what cannot be undone, giving the core up and moving it, is
\* done with reason.
CoreOrdersAreJustified == part = "orders" => SelfDestructIsJustified /\ MovesLeaveNobodyBehind
=============================================================================
