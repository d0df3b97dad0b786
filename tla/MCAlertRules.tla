---------------------------- MODULE MCAlertRules ----------------------------
(***************************************************************************)
(* Ada is the one DSO operator of north. Ben's tokens name one network or  *)
(* two, and outside dev, or when the engine decides, the policy lets him   *)
(* write with the former only. A service holds grid.admin. Ben may have a  *)
(* rule from before migration 002.                                         *)
(***************************************************************************)
EXTENDS AlertRules, TLC

CONSTANTS ada, ben, bot, north, south, i1, i2, s1, s2

Dso(n) == [alias |-> n, type |-> "dso", attributes |-> {}]

Operator(sub, organizations) ==
    [sub |-> sub, organizations |-> organizations, is_service_account |-> FALSE, scopes |-> {}]

Ada  == Operator(ada, {Dso(north)})
Ben  == Operator(ben, {[alias |-> south, type |-> "other", attributes |-> {"dso"}]})
Both == Operator(ben, {Dso(north), Dso(south)})
Bot  == [Operator(bot, {}) EXCEPT !.is_service_account = TRUE, !.scopes = {"grid.admin"}]

TwoOperators == {Ada, Both}
AllCallers   == {Ada, Ben, Both, Bot, Operator(ada, {})}

Body(hazards) ==
    [risk_types |-> hazards, threshold |-> "ALERT", recipients |-> Null, active |-> TRUE]

SomeCreateBodies == {Body({"wind"}), Body({})}
AllCreateBodies == {Body({"wind"}), Body({})}

(* A change of two fields one of which repeats the default, one that names *)
(* no hazard any more, and one that the database refuses.                  *)
SomeUpdateBodies ==
    {[EmptyBody EXCEPT !.active = TRUE, !.threshold = "WARNING"],
     [EmptyBody EXCEPT !.active = FALSE, !.risk_types = Null],
     [EmptyBody EXCEPT !.threshold = Null]}

AllUpdateBodies ==
    SomeUpdateBodies \cup
    {[EmptyBody EXCEPT !.risk_types = Null],
     [EmptyBody EXCEPT !.risk_types = {}],
     [EmptyBody EXCEPT !.recipients = Null, !.active = FALSE]}

OneLegacyRule == {[user_id |-> ben, network_id |-> Unattributed] @@ Body({"wind"})}

Symmetry == Permutations(Slots) \cup Permutations(RuleIds)
=============================================================================
