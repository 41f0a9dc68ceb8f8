----------------------------- MODULE MCAlliance -----------------------------
(* What the members of an alliance know and decide together, in two parts;  *)
(* a behaviour is about one of them, and the other stays where it starts.   *)
(*   view: two members, an enemy core that wanders and an enemy unit;       *)
(*   council: three members, three enemy cores, four tasks.                 *)
EXTENDS AllianceView, AllianceCouncil

CONSTANTS t1, t2, castle, raider
MCTenants == <<t1, t2>>
MCEnemies == {castle, raider}
MCKindOf == (castle :> "CORE") @@ (raider :> "UNIT")
MCTypeOf == (castle :> None) @@ (raider :> "RANGER")
MCOwnerOf == (castle :> "foe") @@ (raider :> "foe")
MCPlacesOf == (castle :> {<<3, 0>>, <<9, 7>>}) @@ (raider :> {<<3, 3>>, <<0, 4>>})
MCStartOf == (castle :> <<3, 0>>) @@ (raider :> <<3, 3>>)
MCHomes == (t1 :> <<0, 0>>) @@ (t2 :> <<6, 2>>)
MCRankOf == "foe" :> 3
MCStock == (t1 :> 4) @@ (t2 :> 7)

CONSTANTS fort, keep
MCAllies == <<1, 2, 3>>
MCCorePlaces == <<{<<0, 0>>}, {<<8, 0>>}, {<<8, 8>>, <<40, 0>>}>>
MCFirstStrengths == {<<0, 4, 4>>, <<1, 1, 0>>}
MCEnemyCores == <<castle, fort, keep>>
MCHuntedPlaces == {<<2, 2>>, <<6, 4>>, <<20, 4>>}
Task(id, priority, deadline, weight, eligible, required) ==
  [id |-> id, priority |-> priority, deadline |-> deadline, weight |-> weight,
   eligible |-> eligible, required |-> required]
MCTasks == {Task(1, 5, None, 2, {}, None), Task(2, 5, 9, 1, {1, 2}, None),
            Task(3, 1, 4, 1, {}, 1), Task(4, 5, 9, 2, {1, 2}, None)}
MCCapacities == <<2, 1, 2>>
MCAudits == {[QuietAudit EXCEPT !.never = 12, !.delta = -3, !.stall = 95, !.rejected = 40],
             [QuietAudit EXCEPT !.visible = 2, !.assigned = 6, !.open = 1,
                                !.gold = [cell |-> <<1, 1>>, amount |-> 7]],
             [QuietAudit EXCEPT !.assigned = 6, !.stale = 2],
             [QuietAudit EXCEPT !.assigned = 6, !.stale = 2, !.harvested = 3]}
MCNews == {[NoNews EXCEPT !.heat = <<[bx |-> 0, by |-> 0, combat |-> 60],
                                     [bx |-> 1, by |-> 0, combat |-> 80]>>,
                          !.sectors = <<[tenant |-> 1, high |-> {"N", "SE"}, total |-> 12, count |-> 5],
                                        [tenant |-> 2, high |-> {"W"}, total |-> 7, count |-> 1]>>],
           [NoNews EXCEPT !.profiles = <<[username |-> castle, tier |-> "ELITE_AGGRESSOR"],
                                         [username |-> fort, tier |-> "AGGRESSOR"]>>,
                          !.overlaps = <<<<3, 3>>>>,
                          !.resurvey = <<[tenant |-> 2, key |-> <<0, 0>>, stale |-> 6000],
                                         [tenant |-> 2, key |-> <<1, 0>>, stale |-> 10],
                                         [tenant |-> 1, key |-> <<1, 1>>, stale |-> 90]>>]}

VARIABLE part
allianceVars == <<part, vars, councilVars>>

AllianceInit ==
  /\ part \in {"view", "council"} /\ Init /\ CouncilInit
  /\ part = "view" => members[1].military = 0

AllianceNext ==
  \/ part = "view" /\ Next /\ UNCHANGED <<part, councilVars>>
  \/ part = "council" /\ CouncilNext /\ UNCHANGED <<part, vars>>

AllianceSpec == AllianceInit /\ [][AllianceNext]_allianceVars

-----------------------------------------------------------------------------
\* See AllianceIntel and AllianceView: the merged picture shows what was seen
\* where it was seen, both of its readers agree on how fresh that is, and what
\* is stale threatens nobody.
PictureIsSound == part = "view" => SightingsAreTrue /\ IntelAgreesWithSnapshot /\ StaleNeverThreatens

\* See AllianceView.
SurveysConverge == part = "view" => SurveyConverges

\* See AllianceCouncil.
TasksAreDealtFairly == part = "council" => MarketIsFair

\* What the members are warned of and told to do.  See AllianceCouncil for the
\* panels; and see AllianceView for the threat field, which has its threats where
\* enemies stood lately.
AdviceIsSound ==
  /\ part = "council" => HelpIsSound /\ UrgentIsShown
  /\ part = "view" => ThreatFieldIsRecent
=============================================================================
