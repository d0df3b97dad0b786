------------------------ MODULE AlertDispatchHistory ------------------------
(***************************************************************************)
(* AlertDispatch with history variables, for the properties that relate a  *)
(* report to what the tables and the Digital Twin held while its run was   *)
(* under way. They record, and constrain nothing.                          *)
(***************************************************************************)
EXTENDS AlertDispatch

VARIABLES
    stirred,    \* rules that were active at some moment of the run
    calm,       \* rules that were not, at some moment of the run
    lists,      \* <<rule or user, list>>: what a field held at some moment
    asked,      \* networks whose exposure was asked for
    due,        \* <<network, rule, hazard, threshold>> that the rows call for
    told,       \* reports handed to nudging-tool, accepted or not
    scope       \* the namespace the run was published under

history == <<stirred, calm, lists, asked, due, told, scope>>
hvars   == <<vars, history>>

Stored == {i \in RuleIds : rules[i] # NoRow}
Active == {i \in Stored : rules[i].active}
Lists  == {<<i, ParseRecipients(rules[i].recipients)>> : i \in Stored}
          \cup {<<u, ParseRecipients(settings[u])>> : u \in Subs}

(* The hazards the rows call for, by the wording of REQ-0032 and REQ-0033. *)
Calls(rule, row) ==
    /\ rule.risk_types # Null
    /\ row.risk_vector \in rule.risk_types
    /\ row.km_alert > 0 \/ (row.km_warning > 0 /\ rule.threshold = "WARNING")

CalledFor(j) ==
    {d \in {j.network} \X (DOMAIN j.loaded) \X Hazards \X Thresholds :
        /\ d[4] = j.loaded[d[2]].threshold
        /\ \E row \in j.rows : row.risk_vector = d[3] /\ Calls(j.loaded[d[2]], row)}

HInit ==
    /\ Init
    /\ stirred = [h \in Handlers |-> {}]
    /\ calm = [h \in Handlers |-> {}]
    /\ lists = [h \in Handlers |-> {}]
    /\ asked = [h \in Handlers |-> {}]
    /\ due = [h \in Handlers |-> {}]
    /\ told = [h \in Handlers |-> {}]
    /\ scope = [h \in Handlers |-> Null]

(* A log starts afresh with a run, grows while it is under way and stays   *)
(* until the next; entry(h) is what the step adds.                         *)
Log(log, entry(_)) ==
    [h \in Handlers |->
        IF Free(h)
        THEN IF job'[h].pc \in Running THEN entry(h)
             ELSE IF job'[h] = job[h] /\ sent'[h] = sent[h] THEN log[h] ELSE {}
        ELSE log[h] \cup entry(h)]

HNext ==
    /\ Next
    /\ stirred' = Log(stirred, LAMBDA h : Active')
    /\ calm' = Log(calm, LAMBDA h : RuleIds \ Active')
    /\ lists' = Log(lists, LAMBDA h : Lists')
    /\ asked' = Log(asked, LAMBDA h : {job'[h].network} \ {Null})
    /\ due' = Log(due, LAMBDA h : CalledFor(job'[h]))
    /\ told' = Log(told, LAMBDA h : IF job'[h].pc = "send" THEN job[h].reports \ job'[h].reports ELSE {})
    /\ scope' = [h \in Handlers |->
                   IF job'[h].pc \in Running THEN job'[h].namespace ELSE scope[h]]

HSpec == HInit /\ [][HNext]_hvars

-----------------------------------------------------------------------------

(* REQ-0018, REQ-0031: a rule that was inactive, or not there, all through *)
(* a run is not behind any of its reports.                                 *)
ReportedRulesWereActive ==
    \A h \in Handlers : \A k \in DOMAIN sent[h] : sent[h][k].rules \subseteq stirred[h]

(* REQ-0031, REQ-0032, REQ-0038: when a run is done, every rule it loaded  *)
(* whose hazard the fetched rows call for is in a report that was tried,   *)
(* under its network, for that hazard and at its threshold or a lower one, *)
(* whatever sends failed before.                                           *)
TriggeredRulesAreCovered ==
    \A h \in Handlers : job[h].pc = "done" =>
        \A d \in due[h] : \E report \in told[h] :
            /\ report.network_id = d[1]
            /\ d[2] \in report.rules
            /\ d[3] \in report.risk_types
            /\ d[4] = "WARNING" => report.threshold = "WARNING"

(* REQ-0032, REQ-0034: a report names a hazard only if one of its own      *)
(* rules called for it, and WARNING only if one of them watches warnings.  *)
ReportsNameOnlyWhatTriggered ==
    \A h \in Handlers : \A report \in told[h] :
        /\ \A v \in report.risk_types : \E d \in due[h] :
             d[1] = report.network_id /\ d[2] \in report.rules /\ d[3] = v
        /\ report.threshold = "WARNING" => \E d \in due[h] :
             d[2] \in report.rules /\ d[4] = "WARNING"

(* REQ-0030: a run that is done has asked for the exposure of the network  *)
(* of every rule that was active all along: of the one network it was      *)
(* published for, of each network when it is the pipeline's own, whatever  *)
(* the Digital Twin or nudging-tool refused for the networks before.       *)
NoNetworkForgotten ==
    \A h \in Handlers : job[h].pc = "done" =>
        \A i \in Stored \ calm[h] :
            /\ rules[i].network_id # Unattributed
            /\ scope[h] \in {PipelineNamespace, rules[i].network_id}
            => rules[i].network_id \in asked[h]

(* REQ-0035: the list a report carries is one that its rules, or the       *)
(* operators who filed them, held while the run was under way: nobody is   *)
(* written to on the settings of an operator none of whose rules is in it. *)
RecipientsAreTheOperators ==
    \A h \in Handlers : \A report \in told[h] :
        \E who \in report.rules \cup report.authors : <<who, report.recipients>> \in lists[h]
=============================================================================
