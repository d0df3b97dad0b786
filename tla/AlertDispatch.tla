---------------------------- MODULE AlertDispatch ----------------------------
(***************************************************************************)
(* From a pipeline run to the risk reports: on_pipeline_run of             *)
(* services/pipeline_listener.py and dispatch_grid_alerts of               *)
(* services/alert_dispatcher.py, beside operators who keep editing their   *)
(* rules and settings.                                                     *)
(*                                                                         *)
(* A handler is one delivery of an MQTT message. It holds one session and  *)
(* awaits at every statement and every call, and the tables may change at  *)
(* each await: rules are read once per network, settings once per rule,    *)
(* later. The broker may deliver a run again, or the next run before this  *)
(* one is over; the Digital Twin may fail, or hold nothing; a send may     *)
(* fail; the process may die.                                              *)
(*                                                                         *)
(* A row of the Digital Twin is a record of a hazard and the kilometres at *)
(* each level, for some date of the horizon: the query returns the rows of *)
(* the asked dates only. The body of a report is left to risk_summary.     *)
(***************************************************************************)
EXTENDS Recipients, RiskSummary

CONSTANTS
    Handlers,           \* deliveries that may be under way at once
    Events,             \* the messages that may arrive
    PipelineNamespace,  \* GRID_PIPELINE_NAMESPACE
    AlertsEnabled,      \* GRID_ALERTS_ENABLED
    ClientsReady,       \* the Digital Twin is configured
    HorizonDays,        \* GRID_ALERT_HORIZON_DAYS
    RunDay, Today,      \* the date of a run, and of the day it is handled
    Exposures,          \* what the Digital Twin may hold for a network
    RiskKmLimit,        \* RISK_KM_LIMIT
    RuleVersions,       \* the rows that operators may write
    SettingsTexts,      \* the e-mail lists that operators may configure
    MaxEdits            \* bound on the edits of a behaviour

VARIABLES
    rules,      \* the alert_rules table
    issued,     \* the keys it has used
    settings,   \* notification_settings.email_recipients, by user
    edits,      \* edits made so far
    job,        \* the local state of each handler
    sent        \* the reports nudging-tool accepted from each handler

tables == <<rules, issued, settings, edits>>
vars   == <<rules, issued, settings, edits, job, sent>>

Event ==
    [parses : BOOLEAN, status : {"completed", "failed"}, flow : {"grid", "other"},
     namespace : Networks \cup {Unattributed, PipelineNamespace},
     timestamp : {"readable", "unreadable", "impossible"}]

ASSUME DispatchAssumption ==
    /\ Events \subseteq Event
    /\ PipelineNamespace \notin Networks \cup {Unattributed}
    /\ AlertsEnabled \in BOOLEAN /\ ClientsReady \in BOOLEAN
    /\ HorizonDays \in Int /\ RunDay \in Nat /\ Today \in Nat
    /\ RiskKmLimit \in Nat /\ MaxEdits \in Nat
    /\ \A held \in Exposures : \A row \in held : row.km_alert \in Nat /\ row.km_warning \in Nat
    /\ RuleVersions \subseteq AlertRule
    /\ SettingsTexts \subseteq Texts \cup {Null}

Running == {"list", "next", "fetch", "resolve", "send"}
Ended   == {"idle", "ignored", "done", "raised", "lost"}

NoJob ==
    [pc |-> "idle", namespace |-> Null, dates |-> {}, todo |-> {}, network |-> Null,
     loaded |-> <<>>, rows |-> {}, pending |-> {}, triggered |-> <<>>, reports |-> {}]

-----------------------------------------------------------------------------
(* alert_dispatcher.py: who is told, and of what                           *)

RuleEmailRecipientsAnyone(rule) ==              \* mutant: no user filter
    IF ParseRecipients(rule.recipients) # <<>>
    THEN ParseRecipients(rule.recipients)
    ELSE IF \E u \in Subs : ParseRecipients(settings[u]) # <<>>
         THEN ParseRecipients(settings[CHOOSE u \in Subs : ParseRecipients(settings[u]) # <<>>])
         ELSE <<>>

(* The rule's own list, else the one its operator has configured now.      *)
RuleEmailRecipients(rule) ==
    IF ParseRecipients(rule.recipients) # <<>>
    THEN ParseRecipients(rule.recipients)
    ELSE ParseRecipients(settings[rule.user_id])

UserIdPerRule(t) == <<"rule", t.id>>            \* mutant: nothing is merged

UserId(t) ==
    IF t.recipients # <<>> THEN SyntheticEmailUserId(t.recipients)
    ELSE <<"operator", t.user_id>>

AnyThreshold(group) == (CHOOSE t \in group : TRUE).threshold    \* mutant: of one rule

LowerThreshold(group) ==
    IF \E t \in group : t.threshold = "WARNING" THEN "WARNING" ELSE "ALERT"

(* One report per recipient list, spelled as its first rule has it, or per *)
(* operator when there is none.                                            *)
MergeByRecipients(network, triggered) ==
    LET places(user) == {k \in DOMAIN triggered : UserId(triggered[k]) = user}
        first(user)  == CHOOSE k \in places(user) : \A l \in places(user) : k <= l
        group(user)  == {triggered[k] : k \in places(user)}
    IN  {[network_id |-> network,
          user_id    |-> user,
          recipients |-> triggered[first(user)].recipients,
          risk_types |-> UNION {t.vectors : t \in group(user)},
          threshold  |-> LowerThreshold(group(user)),
          rules      |-> {t.id : t \in group(user)},
          authors    |-> {t.user_id : t \in group(user)}] :
            user \in {UserId(t) : t \in Range(triggered)}}

-----------------------------------------------------------------------------
(* pipeline_listener.py                                                    *)

HorizonUnclamped(timestamp) ==                  \* mutant: max(days, 1) dropped
    LET start == IF timestamp = "readable" THEN RunDay ELSE Today
    IN  start .. start + HorizonDays - 1

(* The date of the run, or today when the timestamp says none, and the     *)
(* days after it. A timestamp with the shape of a date that is none        *)
(* ("impossible") is not parsed here: date.fromisoformat raises.           *)
HorizonDates(timestamp) ==
    LET start == IF timestamp = "readable" THEN RunDay ELSE Today
        days  == IF HorizonDays > 1 THEN HorizonDays ELSE 1
    IN  start .. start + days - 1

ActiveRulesAll(network) ==                      \* mutant: no active filter
    {i \in RuleIds : rules[i] # NoRow /\ rules[i].network_id = network}

ActiveRules(network) ==
    {i \in RuleIds : rules[i] # NoRow /\ rules[i].active /\ rules[i].network_id = network}

NetworksWithActiveRules == {n \in Networks : ActiveRules(n) # {}}

-----------------------------------------------------------------------------

Init ==
    /\ rules \in [RuleIds -> RuleVersions \cup {NoRow}]
    /\ issued = {i \in RuleIds : rules[i] # NoRow}
    /\ settings \in [Subs -> SettingsTexts]
    /\ edits = 0
    /\ job = [h \in Handlers |-> NoJob]
    /\ sent = [h \in Handlers |-> <<>>]

Free(h) == job[h].pc \in Ended

End(h, outcome) == job' = [job EXCEPT ![h] = [NoJob EXCEPT !.pc = outcome]]

(* Status, flow and the switch, in this order; then the horizon, which may *)
(* raise; then the clients.                                                *)
Matches(event) ==
    /\ event.parses
    /\ event.status = "completed"
    /\ event.flow = "grid"
    /\ AlertsEnabled

Ignore(h) ==
    /\ Free(h)
    /\ \E event \in Events :
         ~Matches(event) \/ (event.timestamp # "impossible" /\ ~ClientsReady)
    /\ End(h, "ignored")
    /\ sent' = [sent EXCEPT ![h] = <<>>]
    /\ UNCHANGED tables

RaiseOnTimestamp(h) ==
    /\ Free(h)
    /\ \E event \in Events : Matches(event) /\ event.timestamp = "impossible"
    /\ End(h, "raised")
    /\ sent' = [sent EXCEPT ![h] = <<>>]
    /\ UNCHANGED tables

Receive(h) ==
    /\ Free(h)
    /\ \E event \in Events :
         /\ Matches(event)
         /\ event.timestamp # "impossible"
         /\ ClientsReady
         /\ job' = [job EXCEPT ![h] =
              [NoJob EXCEPT
                !.pc = IF event.namespace = PipelineNamespace THEN "list" ELSE "next",
                !.namespace = event.namespace,
                !.dates = HorizonDates(event.timestamp),
                !.todo = IF event.namespace = PipelineNamespace THEN {} ELSE {event.namespace}]]
    /\ sent' = [sent EXCEPT ![h] = <<>>]
    /\ UNCHANGED tables

ListNetworks(h) ==
    /\ job[h].pc = "list"
    /\ job' = [job EXCEPT ![h].pc = "next", ![h].todo = NetworksWithActiveRules]
    /\ UNCHANGED <<tables, sent>>

-----------------------------------------------------------------------------
(* dispatch_grid_alerts for the networks, one after the other. The sorted  *)
(* order of the networks, and the order the database returns rows in, are  *)
(* left open.                                                              *)

ReturnKeeping(j) ==                             \* mutant: triggered outlives the call
    [j EXCEPT !.pc = "next", !.network = Null, !.loaded = <<>>, !.rows = {}, !.pending = {},
              !.reports = {}]

(* The locals of one call of dispatch_grid_alerts, forgotten when it       *)
(* returns to the loop.                                                    *)
Return(j) ==
    [j EXCEPT !.pc = "next", !.network = Null, !.loaded = <<>>, !.rows = {}, !.pending = {},
              !.triggered = <<>>, !.reports = {}]

LoadAnyNetwork(h) ==                            \* mutant: '' is taken for a network
    /\ job[h].pc = "next"
    /\ \E n \in job[h].todo :
         job' = [job EXCEPT ![h] =
           IF job[h].dates = {} \/ ActiveRules(n) = {}
           THEN [job[h] EXCEPT !.todo = @ \ {n}]
           ELSE [job[h] EXCEPT !.pc = "fetch", !.todo = @ \ {n}, !.network = n,
                               !.loaded = [i \in ActiveRules(n) |-> rules[i]]]]
    /\ UNCHANGED <<tables, sent>>

LoadRules(h) ==
    /\ job[h].pc = "next"
    /\ \E n \in job[h].todo :
         job' = [job EXCEPT ![h] =
           IF job[h].dates = {} \/ n = Unattributed \/ ActiveRules(n) = {}
           THEN [job[h] EXCEPT !.todo = @ \ {n}]
           ELSE [job[h] EXCEPT !.pc = "fetch", !.todo = @ \ {n}, !.network = n,
                               !.loaded = [i \in ActiveRules(n) |-> rules[i]]]]
    /\ UNCHANGED <<tables, sent>>

(* The Digital Twin returns at most RISK_KM_LIMIT rows, whichever.         *)
Fetch(h) ==
    /\ job[h].pc = "fetch"
    /\ \E held \in Exposures : \E rows \in SUBSET held :
         /\ rows # {}
         /\ rows = held \/ Cardinality(rows) = RiskKmLimit
         /\ Cardinality(rows) <= RiskKmLimit
         /\ job' = [job EXCEPT ![h].pc = "resolve", ![h].rows = rows,
                               ![h].pending = DOMAIN job[h].loaded]
    /\ UNCHANGED <<tables, sent>>

FetchAborts(h) ==                               \* mutant: a failed fetch ends the run
    /\ job[h].pc = "fetch"
    /\ End(h, "done")
    /\ UNCHANGED <<tables, sent>>

FetchRetries(h) ==                              \* mutant: the network is tried for ever
    /\ job[h].pc = "fetch"
    /\ job' = [job EXCEPT ![h] = [Return(@) EXCEPT !.todo = @ \cup {job[h].network}]]
    /\ UNCHANGED <<tables, sent>>

(* The call raises, or there is no row.                                    *)
FetchNothing(h) ==
    /\ job[h].pc = "fetch"
    /\ job' = [job EXCEPT ![h] = Return(@)]
    /\ UNCHANGED <<tables, sent>>

(* A rule that triggers has its recipients read at once, in this step.     *)
Resolve(h) ==
    /\ job[h].pc = "resolve"
    /\ \E i \in job[h].pending :
         LET rule    == job[h].loaded[i]
             vectors == TriggeredVectors(job[h].rows, rule)
             hit     == [id |-> i, user_id |-> rule.user_id, threshold |-> rule.threshold,
                         vectors |-> vectors, recipients |-> RuleEmailRecipients(rule)]
         IN  job' = [job EXCEPT ![h].pending = @ \ {i},
                                ![h].triggered = IF vectors = {} THEN @ ELSE Append(@, hit)]
    /\ UNCHANGED <<tables, sent>>

Merge(h) ==
    /\ job[h].pc = "resolve"
    /\ job[h].pending = {}
    /\ job' = [job EXCEPT ![h].pc = "send",
                          ![h].reports = MergeByRecipients(job[h].network, job[h].triggered)]
    /\ UNCHANGED <<tables, sent>>

Send(h) ==
    /\ job[h].pc = "send"
    /\ \E report \in job[h].reports :
         /\ sent' = [sent EXCEPT ![h] = Append(@, report)]
         /\ job' = [job EXCEPT ![h].reports = @ \ {report}]
    /\ UNCHANGED tables

SendFailsForAll(h) ==                           \* mutant: the except is around the loop
    /\ job[h].pc = "send"
    /\ job[h].reports # {}
    /\ job' = [job EXCEPT ![h] = Return(@)]
    /\ UNCHANGED <<tables, sent>>

SendFailsLate(h) ==                             \* mutant: delivered, and tried again
    /\ job[h].pc = "send"
    /\ \E report \in job[h].reports : sent' = [sent EXCEPT ![h] = Append(@, report)]
    /\ UNCHANGED <<tables, job>>

SendFails(h) ==
    /\ job[h].pc = "send"
    /\ \E report \in job[h].reports : job' = [job EXCEPT ![h].reports = @ \ {report}]
    /\ UNCHANGED <<tables, sent>>

EndNetwork(h) ==
    /\ job[h].pc = "send"
    /\ job[h].reports = {}
    /\ job' = [job EXCEPT ![h] = Return(@)]
    /\ UNCHANGED <<tables, sent>>

EndRun(h) ==
    /\ job[h].pc = "next"
    /\ job[h].todo = {}
    /\ End(h, "done")
    /\ UNCHANGED <<tables, sent>>

(* A statement fails: nothing in the handler catches it, the rules and the *)
(* networks left are not looked at.                                        *)
RaiseOnDatabase(h) ==
    /\ \/ job[h].pc = "list"
       \/ job[h].pc = "next" /\ job[h].todo # {}
       \/ job[h].pc = "resolve" /\ job[h].pending # {}
    /\ End(h, "raised")
    /\ UNCHANGED <<tables, sent>>

Crash ==
    /\ \E h \in Handlers : ~Free(h)
    /\ job' = [h \in Handlers |-> IF Free(h) THEN job[h] ELSE [NoJob EXCEPT !.pc = "lost"]]
    /\ UNCHANGED <<tables, sent>>

-----------------------------------------------------------------------------
(* The operators, through the endpoints: AlertRules at the grain of        *)
(* RuleRegistry, and the settings.                                         *)

Registry == INSTANCE RuleRegistry WITH rules <- rules, issued <- issued

EditRule(i) ==
    /\ edits < MaxEdits
    /\ edits' = edits + 1
    /\ Registry!File(i) \/ Registry!Amend(i) \/ Registry!Remove(i)
    /\ rules'[i] \in RuleVersions \cup {NoRow}
    /\ UNCHANGED <<settings, job, sent>>

EditSettings(u) ==
    /\ edits < MaxEdits
    /\ edits' = edits + 1
    /\ \E text \in SettingsTexts : settings' = [settings EXCEPT ![u] = text]
    /\ UNCHANGED <<rules, issued, job, sent>>

-----------------------------------------------------------------------------

(* What a handler does by itself once it has a message.                    *)
Progress(h) ==
    \/ ListNetworks(h) \/ LoadRules(h)
    \/ Fetch(h) \/ FetchNothing(h)
    \/ Resolve(h) \/ Merge(h)
    \/ Send(h) \/ SendFails(h)
    \/ EndNetwork(h) \/ EndRun(h)

Arrive(h) == Ignore(h) \/ RaiseOnTimestamp(h) \/ Receive(h)

Next ==
    \/ \E h \in Handlers : Arrive(h) \/ Progress(h) \/ RaiseOnDatabase(h)
    \/ \E i \in RuleIds : EditRule(i)
    \/ \E u \in Subs : EditSettings(u)
    \/ Crash

Spec == Init /\ [][Next]_vars

(* A coroutine that is ready is scheduled, and the calls it awaits return: *)
(* the clients of the SDK give up after a while. Nothing obliges a message *)
(* to arrive, an operator to edit or a process to crash.                   *)
FairSpec == Spec /\ \A h \in Handlers : WF_vars(Progress(h))

-----------------------------------------------------------------------------
(* Properties                                                              *)

TypeOK ==
    /\ rules \in [RuleIds -> AlertRule \cup {NoRow}]
    /\ issued \subseteq RuleIds
    /\ edits \in 0 .. MaxEdits
    /\ \A h \in Handlers :
         /\ job[h].pc \in Running \cup Ended
         /\ job[h].todo \subseteq Networks \cup {Unattributed}
         /\ DOMAIN job[h].loaded \subseteq RuleIds
         /\ job[h].pending \subseteq DOMAIN job[h].loaded
         /\ \A k, l \in DOMAIN job[h].triggered :
              /\ job[h].triggered[k].id \in DOMAIN job[h].loaded \ job[h].pending
              /\ k # l => job[h].triggered[k].id # job[h].triggered[l].id

(* REQ-0031: one run tells an inbox, or an operator without one, at most   *)
(* once about a network, however many of their rules trigger.              *)
OneReportPerInbox ==
    \A h \in Handlers : \A k, l \in DOMAIN sent[h] :
        /\ k # l
        /\ sent[h][k].network_id = sent[h][l].network_id
        => /\ sent[h][k].user_id # sent[h][l].user_id
           /\ sent[h][k].recipients # <<>> /\ sent[h][l].recipients # <<>> =>
                SyntheticEmailUserId(sent[h][k].recipients)
                  # SyntheticEmailUserId(sent[h][l].recipients)

(* REQ-0030, and the isolation of the DSOs: a report is about one network, *)
(* every rule behind it was filed under that network, a run published for  *)
(* one network reports on no other, and '' never counts as one.            *)
ReportsStayInTheirNetwork ==
    \A h \in Handlers : \A k \in DOMAIN sent[h] :
        LET report == sent[h][k]
        IN  /\ report.network_id \in Networks
            /\ job[h].namespace \in {Null, PipelineNamespace, report.network_id}
            /\ \A i \in report.rules :
                 rules[i] # NoRow => rules[i].network_id = report.network_id

(* A delivery, seen from the inboxes: the networks it has in hand and the  *)
(* inboxes it has told of them.                                            *)
Delivery == INSTANCE ReportDelivery WITH
    Places  <- Networks \cup {Unattributed},
    Nowhere <- Null,
    stage   <- [h \in Handlers |-> IF Free(h) THEN "idle"
                                   ELSE IF job[h].pc = "list" THEN "listing" ELSE "working"],
    open    <- [h \in Handlers |-> job[h].todo],
    current <- [h \in Handlers |-> job[h].network],
    told    <- [h \in Handlers |-> [k \in 1 .. Len(sent[h]) |->
                   <<sent[h][k].network_id, sent[h][k].user_id>>]]

(* A delivery implements ReportDelivery: each network of a run is taken up *)
(* once at most, and each of its inboxes told once at most, through every  *)
(* failure of the Digital Twin, of nudging-tool, of the database or of the *)
(* process.                                                                *)
DeliverySpec == Delivery!Spec

(* The listener has no supervisor: whatever fails, a run that was received *)
(* comes to an end.                                                        *)
EveryRunEnds == \A h \in Handlers : ~Free(h) ~> Free(h)

(* REQ-0037 as written: a timestamp that cannot be read does not cancel    *)
(* the run.                                                                *)
TimestampNeverCancels ==
    [][\A h \in Handlers : Free(h) => job'[h].pc # "raised" \/ job[h].pc = "raised"]_vars
=============================================================================
