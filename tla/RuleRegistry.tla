---------------------------- MODULE RuleRegistry ----------------------------
(***************************************************************************)
(* What the alert_rules table promises to the people who file rules and to *)
(* the dispatcher that reads them, whatever requests are in flight:        *)
(*   - a rule is filed once, under a fresh key and a real network;         *)
(*   - its owner and its network never change;                             *)
(*   - a rule that is removed never comes back;                            *)
(*   - rules change one at a time.                                         *)
(* AlertRules implements it; AlertDispatch lives beside it.                *)
(***************************************************************************)
EXTENDS GridModels

VARIABLES
    rules,      \* the table: a row, or NoRow, for every key
    issued      \* the keys that some row has, or had

vars == <<rules, issued>>

Init ==
    /\ rules \in [RuleIds -> AlertRule \cup {NoRow}]
    /\ issued = {i \in RuleIds : rules[i] # NoRow}

File(i) ==
    /\ i \notin issued
    /\ \E rule \in AlertRule :
         /\ rule.network_id \in Networks
         /\ rules' = [rules EXCEPT ![i] = rule]
    /\ issued' = issued \cup {i}

Amend(i) ==
    /\ rules[i] # NoRow
    /\ \E rule \in AlertRule :
         /\ rule.user_id = rules[i].user_id
         /\ rule.network_id = rules[i].network_id
         /\ rules' = [rules EXCEPT ![i] = rule]
    /\ UNCHANGED issued

Remove(i) ==
    /\ rules[i] # NoRow
    /\ rules' = [rules EXCEPT ![i] = NoRow]
    /\ UNCHANGED issued

Next == \E i \in RuleIds : File(i) \/ Amend(i) \/ Remove(i)

Spec == Init /\ [][Next]_vars
=============================================================================
