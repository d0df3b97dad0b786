------------------------- MODULE AlertDispatchProofs -------------------------
(***************************************************************************)
(* Theorems of AlertDispatch, for any rules, settings, messages, answers   *)
(* of the Digital Twin and numbers of deliveries.                          *)
(*                                                                         *)
(* The argument: a network leaves todo when it is taken up, and nothing    *)
(* was sent about a network that is still in todo; so what was sent about  *)
(* the network in hand was sent since, one report at a time, from a set in *)
(* which each inbox stands once. What a delivery holds of the rules was    *)
(* read under its network, and RuleRegistry never moves a rule to another. *)
(***************************************************************************)
EXTENDS AlertDispatch, FiniteSetTheorems, TLAPS

Places == Networks \cup {Unattributed}

Engaged == {"fetch", "resolve", "send"}

IsJob(j) ==
    j = [f \in {"pc", "namespace", "dates", "todo", "network", "loaded", "rows", "pending",
                "triggered", "reports"} |-> j[f]]

(* Where a delivery is, and the networks it has.                           *)
PlaceOK(j) ==
    /\ j.pc \in Running \cup Ended
    /\ j.todo \subseteq Places
    /\ j.pc \in Ended => j.namespace = Null /\ j.todo = {}
    /\ j.pc \in Running => j.namespace \in Places \cup {PipelineNamespace}
    /\ j.pc = "list" => j.namespace = PipelineNamespace
    /\ j.namespace \notin {Null, PipelineNamespace} =>
         j.todo \subseteq {j.namespace} /\ j.network \in {Null, j.namespace}
    /\ j.pc \in Engaged => j.network \in Networks \ j.todo
    /\ j.pc \notin Engaged => j.network = Null

(* The rules it has loaded, and which of them have triggered.              *)
RulesOK(j) ==
    /\ j.pc \notin Engaged => DOMAIN j.loaded = {}
    /\ DOMAIN j.loaded \subseteq RuleIds
    /\ j.pending \subseteq DOMAIN j.loaded
    /\ \E S : j.triggered \in Seq(S)
    /\ \A k, l \in DOMAIN j.triggered :
         /\ j.triggered[k].id \in DOMAIN j.loaded \ j.pending
         /\ k # l => j.triggered[k].id # j.triggered[l].id
    /\ j.pc \notin {"resolve", "send"} => j.triggered = <<>>

(* The identity of an inbox is that of its list.                           *)
Addressed(report) ==
    report.recipients # <<>> => report.user_id = SyntheticEmailUserId(report.recipients)

ReportsOK(j) ==
    /\ j.pc # "send" => j.reports = {}
    /\ \A report \in j.reports :
         /\ report.network_id = j.network
         /\ report.rules \subseteq DOMAIN j.loaded
         /\ Addressed(report)
    /\ \A r, q \in j.reports : r.user_id = q.user_id => r = q

SentOK(j, s) ==
    /\ \E S : s \in Seq(S)
    /\ j.pc = "list" => s = <<>>
    /\ \A k \in DOMAIN s :
         /\ s[k].network_id \in Networks \ j.todo
         /\ Addressed(s[k])
         /\ j.namespace \notin {Null, PipelineNamespace} => s[k].network_id = j.namespace
         /\ s[k].network_id = j.network =>
              /\ j.pc = "send"
              /\ \A report \in j.reports : report.user_id # s[k].user_id
    /\ \A k, l \in DOMAIN s :
         k # l /\ s[k].network_id = s[l].network_id => s[k].user_id # s[l].user_id

(* The rules behind something are rules of the network, while they exist.  *)
FiledUnder(ids, network) ==
    \A i \in ids : i \in issued /\ (rules[i] # NoRow => rules[i].network_id = network)

DeliveryOK(h) ==
    /\ IsJob(job[h]) /\ PlaceOK(job[h]) /\ RulesOK(job[h]) /\ ReportsOK(job[h])
    /\ SentOK(job[h], sent[h])
    /\ FiledUnder(DOMAIN job[h].loaded, job[h].network)
    /\ \A k \in DOMAIN sent[h] : FiledUnder(sent[h][k].rules, sent[h][k].network_id)

TablesOK ==
    /\ rules \in [RuleIds -> AlertRule \cup {NoRow}]
    /\ issued \subseteq RuleIds
    /\ \A i \in RuleIds : rules[i] # NoRow => i \in issued
    /\ edits \in 0 .. MaxEdits

IInv ==
    /\ TablesOK
    /\ job = [h \in Handlers |-> job[h]]
    /\ sent = [h \in Handlers |-> sent[h]]
    /\ \A h \in Handlers : DeliveryOK(h)

-----------------------------------------------------------------------------
(* The merge                                                               *)

(* A non-empty set of places in a sequence has a first.                    *)
LEMMA FirstPlace ==
    ASSUME NEW P, P \subseteq Nat, P # {}
    PROVE  \E k \in P : \A l \in P : k <= l
<1> DEFINE R == OpToRel(<, Nat)
<1>1. \A x, y \in Nat : x < y => <<x, y>> \in R
  BY DEF OpToRel
<1> HIDE DEF R
<1>2. IsWellFoundedOn(R, Nat)
  BY NatLessThanWellFounded DEF R
<1>3. PICK k \in P : \A l \in P : ~ (<<l, k>> \in R)
  BY <1>2, WFMin
<1>4. ASSUME NEW l \in P PROVE k <= l
  <2>1. k \in Nat /\ l \in Nat
    OBVIOUS
  <2>2. ~ (l < k)
    BY <1>1, <1>3, <2>1
  <2> QED
    BY <2>1, <2>2
<1> QED
  BY <1>4

(* The reports of a network: each inbox once, each about the network, from *)
(* rules that triggered, under the identity of its list.                   *)
LEMMA MergeIs ==
    ASSUME NEW network, NEW triggered, NEW S, triggered \in Seq(S)
    PROVE  LET reports == MergeByRecipients(network, triggered)
           IN  /\ \A report \in reports :
                    /\ report.network_id = network
                    /\ report.rules \subseteq {triggered[k].id : k \in DOMAIN triggered}
                    /\ Addressed(report)
               /\ \A r, q \in reports : r.user_id = q.user_id => r = q
<1> DEFINE places(user) == {k \in DOMAIN triggered : UserId(triggered[k]) = user}
           first(user)  == CHOOSE k \in places(user) : \A l \in places(user) : k <= l
           group(user)  == {triggered[k] : k \in places(user)}
           told(user)   == [network_id |-> network,
                            user_id    |-> user,
                            recipients |-> triggered[first(user)].recipients,
                            risk_types |-> UNION {t.vectors : t \in group(user)},
                            threshold  |-> LowerThreshold(group(user)),
                            rules      |-> {t.id : t \in group(user)},
                            authors    |-> {t.user_id : t \in group(user)}]
           users        == {UserId(t) : t \in Range(triggered)}
           reports      == MergeByRecipients(network, triggered)
<1>1. reports = {told(user) : user \in users}
  BY DEF MergeByRecipients
<1>2. ASSUME NEW user \in users
      PROVE  first(user) \in places(user)
  <2>1. places(user) \subseteq Nat
    BY DEF places
  <2>2. places(user) # {}
    BY DEF Range
  <2> HIDE DEF places
  <2> QED
    BY <2>1, <2>2, FirstPlace
<1>3. ASSUME NEW user \in users
      PROVE  /\ told(user).network_id = network
             /\ told(user).user_id = user
             /\ told(user).rules \subseteq {triggered[k].id : k \in DOMAIN triggered}
             /\ Addressed(told(user))
  <2>1. /\ told(user).network_id = network /\ told(user).user_id = user
        /\ told(user).recipients = triggered[first(user)].recipients
        /\ told(user).rules = {t.id : t \in group(user)}
    OBVIOUS
  <2>2. {t.id : t \in group(user)} \subseteq {triggered[k].id : k \in DOMAIN triggered}
    OBVIOUS
  <2>3. UserId(triggered[first(user)]) = user
    BY <1>2
  <2> HIDE DEF told, first
  <2>4. triggered[first(user)].recipients # <<>> =>
          user = SyntheticEmailUserId(triggered[first(user)].recipients)
    BY <2>3 DEF UserId
  <2> QED
    BY <2>1, <2>2, <2>4 DEF Addressed
<1> HIDE DEF told, users, reports
<1> QED
  BY <1>1, <1>3 DEF reports

-----------------------------------------------------------------------------
(* The steps of a delivery                                                 *)

(* A step of one delivery, which leaves the tables and the others alone.   *)
Serves(h) ==
    /\ job' = [job EXCEPT ![h] = job'[h]]
    /\ sent' = [sent EXCEPT ![h] = sent'[h]]
    /\ UNCHANGED tables
    /\ DeliveryOK(h)'

(* The deliveries that a step does not serve keep what they have.          *)
LEMMA Frame ==
    ASSUME IInv, NEW h \in Handlers, Serves(h)
    PROVE  IInv'
<1>1. ASSUME NEW g \in Handlers, g # h PROVE DeliveryOK(g)'
  <2>1. job'[g] = job[g] /\ sent'[g] = sent[g] /\ rules' = rules /\ issued' = issued
    BY <1>1 DEF Serves, IInv, tables
  <2>2. DeliveryOK(g)
    BY DEF IInv
  <2> QED
    BY <2>1, <2>2 DEF DeliveryOK, FiledUnder
<1>2. TablesOK'
  BY DEF IInv, TablesOK, Serves, tables
<1>3. job' = [g \in Handlers |-> job'[g]] /\ sent' = [g \in Handlers |-> sent'[g]]
  BY DEF Serves, IInv
<1>4. DeliveryOK(h)'
  BY DEF Serves
<1> QED
  BY <1>1, <1>2, <1>3, <1>4 DEF IInv

(* A delivery at its end has nothing left but what was sent.               *)
LEMMA EndIs ==
    ASSUME IInv, NEW h \in Handlers, NEW outcome \in Ended, End(h, outcome), UNCHANGED tables,
           sent' = sent \/ sent' = [sent EXCEPT ![h] = <<>>]
    PROVE  Serves(h)
<1> DEFINE j == [NoJob EXCEPT !.pc = outcome]
<1>1. /\ IsJob(j) /\ j.pc = outcome /\ j.namespace = Null /\ j.todo = {} /\ j.network = Null
      /\ j.loaded = <<>> /\ j.pending = {} /\ j.triggered = <<>> /\ j.reports = {}
  BY DEF IsJob, NoJob
<1>2. job' = [job EXCEPT ![h] = j] /\ job'[h] = j
  BY DEF End, IInv
<1> HIDE DEF j
<1>3. outcome \notin Running /\ outcome \notin Engaged /\ outcome # "list" /\ outcome # "send"
  BY DEF Ended, Running, Engaged
<1>4. IsJob(j) /\ PlaceOK(j) /\ RulesOK(j) /\ ReportsOK(j) /\ DOMAIN j.loaded = {}
  <2>1. DOMAIN j.loaded = {} /\ DOMAIN j.triggered = {} /\ j.triggered \in Seq({})
    BY <1>1
  <2> QED
    BY <1>1, <1>3, <2>1 DEF PlaceOK, RulesOK, ReportsOK, Running, Ended
<1>5. sent' = [sent EXCEPT ![h] = sent'[h]] /\ (sent'[h] = sent[h] \/ sent'[h] = <<>>)
  BY DEF IInv
<1>6. DeliveryOK(h)
  BY DEF IInv
<1>7. /\ SentOK(j, sent'[h])
      /\ \A k \in DOMAIN sent'[h] : FiledUnder(sent'[h][k].rules, sent'[h][k].network_id)
  <2>1. CASE sent'[h] = sent[h]
    BY <2>1, <1>1, <1>3, <1>6, ModelsAssumption DEF DeliveryOK, SentOK
  <2>2. CASE sent'[h] = <<>>
    <3>1. <<>> \in Seq({}) /\ DOMAIN <<>> = {}
      OBVIOUS
    <3> QED
      BY <2>2, <3>1, <1>1, <1>3 DEF SentOK
  <2> QED
    BY <1>5, <2>1, <2>2
<1>8. rules' = rules /\ issued' = issued
  BY DEF tables
<1>9. DeliveryOK(h)'
  BY <1>2, <1>4, <1>7, <1>8 DEF DeliveryOK, FiledUnder
<1> QED
  BY <1>2, <1>5, <1>9 DEF Serves

(* dispatch_grid_alerts returns to the loop over the networks.             *)
LEMMA ReturnIs ==
    ASSUME IInv, NEW h \in Handlers, job[h].pc \in Engaged,
           job' = [job EXCEPT ![h] = Return(job[h])], UNCHANGED <<tables, sent>>
    PROVE  Serves(h)
<1> DEFINE j == Return(job[h])
<1>1. DeliveryOK(h)
  BY DEF IInv
<1>2. /\ IsJob(j) /\ j.pc = "next" /\ j.namespace = job[h].namespace /\ j.todo = job[h].todo
      /\ j.network = Null /\ j.loaded = <<>> /\ j.pending = {} /\ j.triggered = <<>>
      /\ j.reports = {}
  BY <1>1 DEF DeliveryOK, IsJob, Return
<1>3. job' = [job EXCEPT ![h] = j] /\ job'[h] = j
  BY DEF IInv
<1> HIDE DEF j
<1>4. DOMAIN j.loaded = {} /\ DOMAIN j.triggered = {} /\ j.triggered \in Seq({})
  BY <1>2
<1>5. PlaceOK(j) /\ RulesOK(j) /\ ReportsOK(j)
  BY <1>1, <1>2, <1>4 DEF DeliveryOK, PlaceOK, RulesOK, ReportsOK, Running, Ended, Engaged
<1>6. SentOK(j, sent[h])
  BY <1>1, <1>2, ModelsAssumption DEF DeliveryOK, SentOK
<1>7. rules' = rules /\ issued' = issued /\ sent' = sent
  BY DEF tables
<1>8. DeliveryOK(h)'
  BY <1>1, <1>2, <1>3, <1>4, <1>5, <1>6, <1>7 DEF DeliveryOK, FiledUnder
<1>9. sent' = [sent EXCEPT ![h] = sent'[h]]
  BY <1>7 DEF IInv
<1> QED
  BY <1>3, <1>8, <1>9 DEF Serves

(* A message starts with nothing sent, and with its network, or a list.    *)
LEMMA ReceiveIs ==
    ASSUME IInv, NEW h \in Handlers, Receive(h)
    PROVE  Serves(h)
<1>1. PICK event \in Events :
        job' = [job EXCEPT ![h] =
              [NoJob EXCEPT
                !.pc = IF event.namespace = PipelineNamespace THEN "list" ELSE "next",
                !.namespace = event.namespace,
                !.dates = HorizonDates(event.timestamp),
                !.todo = IF event.namespace = PipelineNamespace THEN {} ELSE {event.namespace}]]
  BY DEF Receive
<1> DEFINE start == IF event.namespace = PipelineNamespace THEN "list" ELSE "next"
           todo  == IF event.namespace = PipelineNamespace THEN {} ELSE {event.namespace}
           dates == HorizonDates(event.timestamp)
           j == [NoJob EXCEPT !.pc = start, !.namespace = event.namespace, !.dates = dates,
                              !.todo = todo]
<1>2. job' = [job EXCEPT ![h] = j] /\ job'[h] = j
  BY <1>1 DEF IInv
<1>3. event.namespace \in Places \cup {PipelineNamespace}
  BY DispatchAssumption DEF Event, Places
<1>4. /\ start \in {"list", "next"} /\ (start = "list" <=> event.namespace = PipelineNamespace)
      /\ todo \subseteq {event.namespace} /\ todo \subseteq Places
  BY <1>3
<1> HIDE DEF start, todo, dates
<1>5. /\ IsJob(j) /\ j.pc = start /\ j.namespace = event.namespace /\ j.todo = todo
      /\ j.network = Null /\ j.loaded = <<>> /\ j.pending = {} /\ j.triggered = <<>>
      /\ j.reports = {}
  BY DEF IsJob, NoJob
<1> HIDE DEF j
<1>6. DOMAIN j.loaded = {} /\ DOMAIN j.triggered = {} /\ j.triggered \in Seq({})
  BY <1>5
<1>7. PlaceOK(j) /\ RulesOK(j) /\ ReportsOK(j)
  BY <1>3, <1>4, <1>5, <1>6 DEF PlaceOK, RulesOK, ReportsOK, Running, Ended, Engaged
<1>8. sent' = [sent EXCEPT ![h] = sent'[h]] /\ sent'[h] = <<>> /\ UNCHANGED tables
  BY DEF Receive, IInv
<1>9. SentOK(j, sent'[h]) /\ DOMAIN sent'[h] = {}
  <2>1. <<>> \in Seq({}) /\ DOMAIN <<>> = {}
    OBVIOUS
  <2> QED
    BY <1>8, <2>1 DEF SentOK
<1>10. DeliveryOK(h)'
  BY <1>2, <1>5, <1>6, <1>7, <1>9 DEF DeliveryOK, FiledUnder
<1> QED
  BY <1>2, <1>8, <1>10 DEF Serves

(* The networks of a fan-out: nothing has been sent about any.             *)
LEMMA ListNetworksIs ==
    ASSUME IInv, NEW h \in Handlers, ListNetworks(h)
    PROVE  Serves(h)
<1> DEFINE mid == [job[h] EXCEPT !.pc = "next"]
           j   == [mid EXCEPT !.todo = NetworksWithActiveRules]
<1>1. DeliveryOK(h) /\ job[h].pc = "list"
  BY DEF IInv, ListNetworks
<1>2. job' = [job EXCEPT ![h] = j] /\ job'[h] = j
  BY DEF ListNetworks, IInv
<1>3. NetworksWithActiveRules \subseteq Places
  BY DEF NetworksWithActiveRules, Places
<1>4. /\ IsJob(mid) /\ mid.pc = "next" /\ mid.namespace = job[h].namespace
      /\ mid.network = job[h].network /\ mid.loaded = job[h].loaded
      /\ mid.pending = job[h].pending /\ mid.triggered = job[h].triggered
      /\ mid.reports = job[h].reports
  BY <1>1 DEF DeliveryOK, IsJob
<1> HIDE DEF mid
<1>5. /\ IsJob(j) /\ j.pc = "next" /\ j.namespace = job[h].namespace
      /\ j.todo = NetworksWithActiveRules
      /\ j.network = job[h].network /\ j.loaded = job[h].loaded
      /\ j.pending = job[h].pending /\ j.triggered = job[h].triggered
      /\ j.reports = job[h].reports
  BY <1>4 DEF IsJob
<1> HIDE DEF j
<1>6. PlaceOK(j) /\ RulesOK(j) /\ ReportsOK(j)
  BY <1>1, <1>3, <1>5 DEF DeliveryOK, PlaceOK, RulesOK, ReportsOK, Running, Ended, Engaged
<1>7. sent[h] = <<>> /\ SentOK(j, sent[h])
  <2>1. <<>> \in Seq({}) /\ DOMAIN <<>> = {}
    OBVIOUS
  <2>2. sent[h] = <<>>
    BY <1>1 DEF DeliveryOK, SentOK
  <2> QED
    BY <1>5, <2>1, <2>2 DEF SentOK
<1>8. sent' = sent /\ rules' = rules /\ issued' = issued /\ UNCHANGED tables
  BY DEF ListNetworks, tables
<1>9. DeliveryOK(h)'
  BY <1>1, <1>2, <1>5, <1>6, <1>7, <1>8 DEF DeliveryOK, FiledUnder
<1>10. sent' = [sent EXCEPT ![h] = sent'[h]]
  BY <1>8 DEF IInv
<1> QED
  BY <1>2, <1>8, <1>9, <1>10 DEF Serves

(* The next network, which nothing was sent about: its active rules, or    *)
(* nothing.                                                                *)
LEMMA LoadRulesIs ==
    ASSUME IInv, NEW h \in Handlers, LoadRules(h)
    PROVE  Serves(h)
<1>1. PICK n \in job[h].todo :
         job' = [job EXCEPT ![h] =
           IF job[h].dates = {} \/ n = Unattributed \/ ActiveRules(n) = {}
           THEN [job[h] EXCEPT !.todo = job[h].todo \ {n}]
           ELSE [job[h] EXCEPT !.pc = "fetch", !.todo = job[h].todo \ {n}, !.network = n,
                               !.loaded = [i \in ActiveRules(n) |-> rules[i]]]]
  BY DEF LoadRules
<1>2. DeliveryOK(h) /\ job[h].pc = "next"
  BY DEF IInv, LoadRules
<1>3. sent' = sent /\ rules' = rules /\ issued' = issued /\ UNCHANGED tables
  BY DEF LoadRules, tables
<1>4. sent' = [sent EXCEPT ![h] = sent'[h]]
  BY <1>3 DEF IInv
<1> DEFINE passed == [job[h] EXCEPT !.todo = job[h].todo \ {n}]
<1>5. /\ IsJob(passed) /\ passed.pc = "next" /\ passed.namespace = job[h].namespace
      /\ passed.todo = job[h].todo \ {n} /\ passed.dates = job[h].dates
      /\ passed.network = job[h].network /\ passed.loaded = job[h].loaded
      /\ passed.pending = job[h].pending /\ passed.triggered = job[h].triggered
      /\ passed.reports = job[h].reports /\ passed.rows = job[h].rows
  BY <1>2 DEF DeliveryOK, IsJob
<1>6. CASE job' = [job EXCEPT ![h] = passed]
  <2>1. job'[h] = passed
    BY <1>6 DEF IInv
  <2> HIDE DEF passed
  <2>2. PlaceOK(passed) /\ RulesOK(passed) /\ ReportsOK(passed)
    BY <1>2, <1>5 DEF DeliveryOK, PlaceOK, RulesOK, ReportsOK, Running, Ended, Engaged
  <2>3. SentOK(passed, sent[h])
    BY <1>2, <1>5 DEF DeliveryOK, SentOK
  <2>4. DeliveryOK(h)'
    BY <1>2, <1>3, <1>5, <2>1, <2>2, <2>3 DEF DeliveryOK, FiledUnder
  <2> QED
    BY <1>3, <1>4, <1>6, <2>1, <2>4 DEF Serves
<1>7. CASE n # Unattributed /\
           job' = [job EXCEPT ![h] =
             [job[h] EXCEPT !.pc = "fetch", !.todo = job[h].todo \ {n}, !.network = n,
                            !.loaded = [i \in ActiveRules(n) |-> rules[i]]]]
  <2> DEFINE loaded == [i \in ActiveRules(n) |-> rules[i]]
             half   == [passed EXCEPT !.pc = "fetch"]
             taken  == [half EXCEPT !.network = n]
             j      == [taken EXCEPT !.loaded = loaded]
  <2>1. job' = [job EXCEPT ![h] = j] /\ job'[h] = j
    <3>1. j = [job[h] EXCEPT !.pc = "fetch", !.todo = job[h].todo \ {n}, !.network = n,
                             !.loaded = loaded]
      BY <1>2 DEF DeliveryOK, IsJob
    <3> HIDE DEF j
    <3> QED
      BY <1>7, <3>1 DEF IInv
  <2>2. n \in Networks
    BY <1>2, <1>7 DEF DeliveryOK, PlaceOK, Places
  <2>3. DOMAIN loaded = ActiveRules(n) /\ ActiveRules(n) \subseteq RuleIds
    BY DEF ActiveRules
  <2> HIDE DEF passed, loaded
  <2>4. /\ IsJob(half) /\ half.pc = "fetch" /\ half.namespace = passed.namespace
        /\ half.todo = passed.todo /\ half.pending = passed.pending
        /\ half.triggered = passed.triggered /\ half.reports = passed.reports
    BY <1>5 DEF IsJob
  <2> HIDE DEF half
  <2>5. /\ IsJob(taken) /\ taken.pc = "fetch" /\ taken.namespace = half.namespace
        /\ taken.todo = half.todo /\ taken.pending = half.pending /\ taken.network = n
        /\ taken.triggered = half.triggered /\ taken.reports = half.reports
    BY <2>4 DEF IsJob
  <2> HIDE DEF taken
  <2>6. /\ IsJob(j) /\ j.pc = "fetch" /\ j.namespace = taken.namespace
        /\ j.todo = taken.todo /\ j.pending = taken.pending /\ j.network = n
        /\ j.triggered = taken.triggered /\ j.reports = taken.reports /\ j.loaded = loaded
    BY <2>5 DEF IsJob
  <2> HIDE DEF j
  <2>7. /\ j.namespace = job[h].namespace /\ j.todo = job[h].todo \ {n}
        /\ j.pending = job[h].pending /\ j.triggered = job[h].triggered
        /\ j.reports = job[h].reports
    BY <1>5, <2>4, <2>5, <2>6
  <2>8. PlaceOK(j) /\ RulesOK(j) /\ ReportsOK(j)
    BY <1>2, <2>2, <2>3, <2>6, <2>7
       DEF DeliveryOK, PlaceOK, RulesOK, ReportsOK, Running, Ended, Engaged
  <2>9. SentOK(j, sent[h])
    BY <1>2, <2>6, <2>7 DEF DeliveryOK, SentOK
  <2>10. FiledUnder(ActiveRules(n), n)
    BY DEF FiledUnder, ActiveRules, IInv, TablesOK
  <2>11. DeliveryOK(h)'
    BY <1>2, <1>3, <2>1, <2>3, <2>6, <2>8, <2>9, <2>10 DEF DeliveryOK, FiledUnder
  <2> QED
    BY <1>3, <1>4, <2>1, <2>11 DEF Serves
<1> QED
  BY <1>1, <1>6, <1>7

(* The rows of the network in hand.                                        *)
LEMMA FetchIs ==
    ASSUME IInv, NEW h \in Handlers, Fetch(h)
    PROVE  Serves(h)
<1>1. PICK rows : job' = [job EXCEPT ![h].pc = "resolve", ![h].rows = rows,
                                     ![h].pending = DOMAIN job[h].loaded]
  BY DEF Fetch
<1>2. DeliveryOK(h) /\ job[h].pc = "fetch"
  BY DEF IInv, Fetch
<1>3. sent' = sent /\ rules' = rules /\ issued' = issued /\ UNCHANGED tables
  BY DEF Fetch, tables
<1> DEFINE half == [job[h] EXCEPT !.pc = "resolve"]
           held == [half EXCEPT !.rows = rows]
           j    == [held EXCEPT !.pending = DOMAIN job[h].loaded]
<1>4. job' = [job EXCEPT ![h] = j] /\ job'[h] = j
  BY <1>1, <1>2 DEF IInv, DeliveryOK, IsJob
<1>5. /\ IsJob(half) /\ half.pc = "resolve" /\ half.namespace = job[h].namespace
      /\ half.todo = job[h].todo /\ half.network = job[h].network /\ half.loaded = job[h].loaded
      /\ half.triggered = job[h].triggered /\ half.reports = job[h].reports
  BY <1>2 DEF DeliveryOK, IsJob
<1> HIDE DEF half
<1>6. /\ IsJob(held) /\ held.pc = "resolve" /\ held.namespace = half.namespace
      /\ held.todo = half.todo /\ held.network = half.network /\ held.loaded = half.loaded
      /\ held.triggered = half.triggered /\ held.reports = half.reports
  BY <1>5 DEF IsJob
<1> HIDE DEF held
<1>7. /\ IsJob(j) /\ j.pc = "resolve" /\ j.namespace = held.namespace
      /\ j.todo = held.todo /\ j.network = held.network /\ j.loaded = held.loaded
      /\ j.triggered = held.triggered /\ j.reports = held.reports
      /\ j.pending = DOMAIN job[h].loaded
  BY <1>6 DEF IsJob
<1> HIDE DEF j
<1>8. /\ j.namespace = job[h].namespace /\ j.todo = job[h].todo /\ j.network = job[h].network
      /\ j.loaded = job[h].loaded /\ j.triggered = <<>> /\ j.reports = {}
  BY <1>2, <1>5, <1>6, <1>7 DEF DeliveryOK, RulesOK, ReportsOK
<1>9. DOMAIN j.triggered = {} /\ j.triggered \in Seq({})
  BY <1>8
<1>10. PlaceOK(j) /\ RulesOK(j) /\ ReportsOK(j)
  BY <1>2, <1>7, <1>8, <1>9 DEF DeliveryOK, PlaceOK, RulesOK, ReportsOK, Running, Ended, Engaged
<1>11. SentOK(j, sent[h])
  BY <1>2, <1>7, <1>8 DEF DeliveryOK, SentOK
<1>12. DeliveryOK(h)'
  BY <1>2, <1>3, <1>4, <1>7, <1>8, <1>10, <1>11 DEF DeliveryOK, FiledUnder
<1>13. sent' = [sent EXCEPT ![h] = sent'[h]]
  BY <1>3 DEF IInv
<1> QED
  BY <1>3, <1>4, <1>12, <1>13 DEF Serves

(* A rule leaves pending, and triggers at most once.                       *)
LEMMA ResolveIs ==
    ASSUME IInv, NEW h \in Handlers, Resolve(h)
    PROVE  Serves(h)
<1> DEFINE hit(i) == [id         |-> i,
                      user_id    |-> job[h].loaded[i].user_id,
                      threshold  |-> job[h].loaded[i].threshold,
                      vectors    |-> TriggeredVectors(job[h].rows, job[h].loaded[i]),
                      recipients |-> RuleEmailRecipients(job[h].loaded[i])]
           hits(i) == IF TriggeredVectors(job[h].rows, job[h].loaded[i]) = {}
                      THEN job[h].triggered ELSE Append(job[h].triggered, hit(i))
<1>1. PICK i \in job[h].pending :
         job' = [job EXCEPT ![h].pending = @ \ {i}, ![h].triggered = hits(i)]
  BY DEF Resolve
<1>2. DeliveryOK(h) /\ job[h].pc = "resolve"
  BY DEF IInv, Resolve
<1>3. sent' = sent /\ rules' = rules /\ issued' = issued /\ UNCHANGED tables
  BY DEF Resolve, tables
<1>4. hit(i).id = i
  OBVIOUS
<1>5. PICK S : job[h].triggered \in Seq(S)
  BY <1>2 DEF DeliveryOK, RulesOK
<1> HIDE DEF hit
<1>6. /\ \E T : hits(i) \in Seq(T)
      /\ \A k, l \in DOMAIN hits(i) :
           /\ hits(i)[k].id \in DOMAIN job[h].loaded \ (job[h].pending \ {i})
           /\ k # l => hits(i)[k].id # hits(i)[l].id
  <2>1. /\ \A k, l \in DOMAIN job[h].triggered :
             /\ job[h].triggered[k].id \in DOMAIN job[h].loaded \ job[h].pending
             /\ k # l => job[h].triggered[k].id # job[h].triggered[l].id
        /\ i \in DOMAIN job[h].loaded /\ i \in job[h].pending
    BY <1>2 DEF DeliveryOK, RulesOK
  <2>2. CASE hits(i) = job[h].triggered
    BY <1>5, <2>1, <2>2
  <2>3. CASE hits(i) = Append(job[h].triggered, hit(i))
    <3> DEFINE s == job[h].triggered
               t == hits(i)
    <3>1. s \in Seq(S \cup {hit(i)}) /\ t = Append(s, hit(i))
      BY <1>5, <2>3
    <3> HIDE DEF s, t
    <3>2. /\ t \in Seq(S \cup {hit(i)}) /\ DOMAIN s = 1 .. Len(s) /\ Len(s) \in Nat
          /\ DOMAIN t = 1 .. Len(s) + 1
          /\ \A k \in 1 .. Len(s) : t[k] = s[k]
          /\ t[Len(s) + 1] = hit(i)
      BY <3>1
    <3>3. \A k \in DOMAIN t : k \in DOMAIN s \/ (k = Len(s) + 1 /\ t[k] = hit(i))
      BY <3>2
    <3>4. \A k \in DOMAIN s : t[k] = s[k]
      BY <3>2
    <3>5. /\ \A k, l \in DOMAIN s :
               /\ s[k].id \in DOMAIN job[h].loaded \ job[h].pending
               /\ k # l => s[k].id # s[l].id
      BY <2>1 DEF s
    <3>6. ASSUME NEW k \in DOMAIN t, NEW l \in DOMAIN t
          PROVE  /\ t[k].id \in DOMAIN job[h].loaded \ (job[h].pending \ {i})
                 /\ k # l => t[k].id # t[l].id
      BY <1>4, <2>1, <3>3, <3>4, <3>5
    <3> QED
      BY <3>2, <3>6 DEF t
  <2> QED
    BY <2>2, <2>3
<1> DEFINE half == [job[h] EXCEPT !.pending = job[h].pending \ {i}]
           j    == [half EXCEPT !.triggered = hits(i)]
<1> HIDE DEF hits
<1>7. job' = [job EXCEPT ![h] = j] /\ job'[h] = j
  BY <1>1, <1>2 DEF IInv, DeliveryOK, IsJob
<1>8. /\ IsJob(half) /\ half.pc = job[h].pc /\ half.namespace = job[h].namespace
      /\ half.todo = job[h].todo /\ half.network = job[h].network /\ half.loaded = job[h].loaded
      /\ half.pending = job[h].pending \ {i} /\ half.reports = job[h].reports
  BY <1>2 DEF DeliveryOK, IsJob
<1> HIDE DEF half
<1>9. /\ IsJob(j) /\ j.pc = half.pc /\ j.namespace = half.namespace
      /\ j.todo = half.todo /\ j.network = half.network /\ j.loaded = half.loaded
      /\ j.pending = half.pending /\ j.triggered = hits(i) /\ j.reports = half.reports
  BY <1>8 DEF IsJob
<1> HIDE DEF j
<1>10. /\ j.pc = "resolve" /\ j.namespace = job[h].namespace /\ j.todo = job[h].todo
       /\ j.network = job[h].network /\ j.loaded = job[h].loaded
       /\ j.pending = job[h].pending \ {i} /\ j.reports = job[h].reports
  BY <1>2, <1>8, <1>9
<1>11. RulesOK(j)
  BY <1>2, <1>6, <1>9, <1>10 DEF DeliveryOK, RulesOK, Engaged
<1>12. PlaceOK(j) /\ ReportsOK(j)
  BY <1>2, <1>10 DEF DeliveryOK, PlaceOK, ReportsOK
<1>13. SentOK(j, sent[h])
  BY <1>2, <1>10 DEF DeliveryOK, SentOK
<1>14. DeliveryOK(h)'
  BY <1>2, <1>3, <1>7, <1>9, <1>10, <1>11, <1>12, <1>13 DEF DeliveryOK, FiledUnder
<1>15. sent' = [sent EXCEPT ![h] = sent'[h]]
  BY <1>3 DEF IInv
<1> QED
  BY <1>3, <1>7, <1>14, <1>15 DEF Serves

(* Nothing has been sent about the network, and each inbox is there once.  *)
LEMMA MergeStep ==
    ASSUME IInv, NEW h \in Handlers, Merge(h)
    PROVE  Serves(h)
<1> DEFINE reports == MergeByRecipients(job[h].network, job[h].triggered)
           half    == [job[h] EXCEPT !.pc = "send"]
           j       == [half EXCEPT !.reports = reports]
<1>1. DeliveryOK(h) /\ job[h].pc = "resolve" /\ job[h].pending = {}
  BY DEF IInv, Merge
<1>2. sent' = sent /\ rules' = rules /\ issued' = issued /\ UNCHANGED tables
  BY DEF Merge, tables
<1>3. job' = [job EXCEPT ![h] = j] /\ job'[h] = j
  <2> HIDE DEF reports
  <2>1. job' = [job EXCEPT ![h].pc = "send", ![h].reports = reports]
    BY DEF Merge, reports
  <2> QED
    BY <2>1, <1>1 DEF IInv, DeliveryOK, IsJob
<1>4. /\ \A report \in reports :
           /\ report.network_id = job[h].network
           /\ report.rules \subseteq DOMAIN job[h].loaded
           /\ Addressed(report)
      /\ \A r, q \in reports : r.user_id = q.user_id => r = q
  <2>1. PICK S : job[h].triggered \in Seq(S)
    BY <1>1 DEF DeliveryOK, RulesOK
  <2>2. {job[h].triggered[k].id : k \in DOMAIN job[h].triggered} \subseteq DOMAIN job[h].loaded
    BY <1>1 DEF DeliveryOK, RulesOK
  <2> HIDE DEF reports
  <2>3. /\ \A report \in reports :
             /\ report.network_id = job[h].network
             /\ report.rules \subseteq {job[h].triggered[k].id : k \in DOMAIN job[h].triggered}
             /\ Addressed(report)
        /\ \A r, q \in reports : r.user_id = q.user_id => r = q
    BY <2>1, MergeIs DEF reports
  <2> QED
    BY <2>2, <2>3
<1> HIDE DEF reports
<1>5. /\ IsJob(half) /\ half.pc = "send" /\ half.namespace = job[h].namespace
      /\ half.todo = job[h].todo /\ half.network = job[h].network /\ half.loaded = job[h].loaded
      /\ half.pending = job[h].pending /\ half.triggered = job[h].triggered
  BY <1>1 DEF DeliveryOK, IsJob
<1> HIDE DEF half
<1>6. /\ IsJob(j) /\ j.pc = "send" /\ j.namespace = half.namespace
      /\ j.todo = half.todo /\ j.network = half.network /\ j.loaded = half.loaded
      /\ j.pending = half.pending /\ j.triggered = half.triggered /\ j.reports = reports
  BY <1>5 DEF IsJob
<1> HIDE DEF j
<1>7. /\ j.namespace = job[h].namespace /\ j.todo = job[h].todo /\ j.network = job[h].network
      /\ j.loaded = job[h].loaded /\ j.pending = job[h].pending
      /\ j.triggered = job[h].triggered
  BY <1>5, <1>6
<1>8. PlaceOK(j) /\ RulesOK(j) /\ ReportsOK(j)
  BY <1>1, <1>4, <1>6, <1>7 DEF DeliveryOK, PlaceOK, RulesOK, ReportsOK, Running, Ended, Engaged
<1>9. SentOK(j, sent[h])
  BY <1>1, <1>6, <1>7 DEF DeliveryOK, SentOK
<1>10. DeliveryOK(h)'
  BY <1>1, <1>2, <1>3, <1>6, <1>7, <1>8, <1>9 DEF DeliveryOK, FiledUnder
<1>11. sent' = [sent EXCEPT ![h] = sent'[h]]
  BY <1>2 DEF IInv
<1> QED
  BY <1>2, <1>3, <1>10, <1>11 DEF Serves

(* A report leaves the set, sent or not.                                   *)
LEMMA SendIs ==
    ASSUME IInv, NEW h \in Handlers, Send(h) \/ SendFails(h)
    PROVE  Serves(h)
<1>1. DeliveryOK(h) /\ job[h].pc = "send"
  BY DEF IInv, Send, SendFails
<1>2. rules' = rules /\ issued' = issued /\ UNCHANGED tables
  BY DEF Send, SendFails, tables
<1>3. PICK report \in job[h].reports :
        /\ job' = [job EXCEPT ![h].reports = @ \ {report}]
        /\ sent' = sent \/ sent' = [sent EXCEPT ![h] = Append(sent[h], report)]
  BY DEF Send, SendFails
<1> DEFINE j == [job[h] EXCEPT !.reports = job[h].reports \ {report}]
<1>4. job' = [job EXCEPT ![h] = j] /\ job'[h] = j
  BY <1>1, <1>3 DEF IInv, DeliveryOK, IsJob
<1>5. /\ IsJob(j) /\ j.pc = "send" /\ j.namespace = job[h].namespace
      /\ j.todo = job[h].todo /\ j.network = job[h].network /\ j.loaded = job[h].loaded
      /\ j.pending = job[h].pending /\ j.triggered = job[h].triggered
      /\ j.reports = job[h].reports \ {report}
  BY <1>1 DEF DeliveryOK, IsJob
<1> HIDE DEF j
<1>6. PlaceOK(j) /\ RulesOK(j) /\ ReportsOK(j)
  BY <1>1, <1>5 DEF DeliveryOK, PlaceOK, RulesOK, ReportsOK
<1>7. /\ report.network_id = job[h].network /\ report.rules \subseteq DOMAIN job[h].loaded
      /\ Addressed(report)
      /\ \A r \in job[h].reports : r.user_id = report.user_id => r = report
  BY <1>1 DEF DeliveryOK, ReportsOK
<1>8. sent' = [sent EXCEPT ![h] = sent'[h]]
      /\ (sent'[h] = sent[h] \/ sent'[h] = Append(sent[h], report))
  BY <1>3 DEF IInv
<1>9. FiledUnder(report.rules, report.network_id)
  BY <1>1, <1>7 DEF DeliveryOK, FiledUnder
<1>10. /\ SentOK(j, sent'[h])
       /\ \A k \in DOMAIN sent'[h] : FiledUnder(sent'[h][k].rules, sent'[h][k].network_id)
  <2>1. CASE sent'[h] = sent[h]
    BY <1>1, <1>5, <2>1 DEF DeliveryOK, SentOK
  <2>2. CASE sent'[h] = Append(sent[h], report)
    <3> DEFINE s == sent[h]
               t == sent'[h]
    <3>1. PICK S : s \in Seq(S)
      BY <1>1 DEF DeliveryOK, SentOK
    <3>2. s \in Seq(S \cup {report}) /\ t = Append(s, report)
      BY <2>2, <3>1
    <3>3. SentOK(job[h], s) /\ \A k \in DOMAIN s : FiledUnder(s[k].rules, s[k].network_id)
      BY <1>1 DEF DeliveryOK
    <3> HIDE DEF s, t
    <3>4. /\ t \in Seq(S \cup {report}) /\ DOMAIN s = 1 .. Len(s) /\ Len(s) \in Nat
          /\ DOMAIN t = 1 .. Len(s) + 1
          /\ \A k \in 1 .. Len(s) : t[k] = s[k]
          /\ t[Len(s) + 1] = report
      BY <3>2
    <3>5. \A k \in DOMAIN t : (k \in DOMAIN s /\ t[k] = s[k]) \/ (k = Len(s) + 1 /\ t[k] = report)
      BY <3>4
    <3>6. ASSUME NEW k \in DOMAIN s
          PROVE  /\ s[k].network_id \in Networks \ j.todo
                 /\ Addressed(s[k])
                 /\ j.namespace \notin {Null, PipelineNamespace} => s[k].network_id = j.namespace
                 /\ s[k].network_id = j.network =>
                      \A r \in job[h].reports : r.user_id # s[k].user_id
      BY <3>3, <1>5 DEF SentOK
    <3>7. /\ report.network_id \in Networks \ j.todo
          /\ j.namespace \notin {Null, PipelineNamespace} => report.network_id = j.namespace
          /\ \A r \in j.reports : r.user_id # report.user_id
      BY <1>1, <1>5, <1>7, ModelsAssumption DEF DeliveryOK, PlaceOK, Engaged
    <3>8. ASSUME NEW k \in DOMAIN t
          PROVE  /\ t[k].network_id \in Networks \ j.todo
                 /\ Addressed(t[k])
                 /\ j.namespace \notin {Null, PipelineNamespace} => t[k].network_id = j.namespace
                 /\ t[k].network_id = j.network =>
                      j.pc = "send" /\ \A r \in j.reports : r.user_id # t[k].user_id
      BY <1>5, <1>7, <3>5, <3>6, <3>7
    <3>9. ASSUME NEW k \in DOMAIN t, NEW l \in DOMAIN t, k # l, t[k].network_id = t[l].network_id
          PROVE  t[k].user_id # t[l].user_id
      <4>1. CASE k \in DOMAIN s /\ l \in DOMAIN s /\ t[k] = s[k] /\ t[l] = s[l]
        BY <3>3, <3>9, <4>1 DEF SentOK
      <4>2. CASE k \in DOMAIN s /\ t[k] = s[k] /\ t[l] = report
        BY <1>5, <1>7, <3>6, <3>9, <4>2
      <4>3. CASE l \in DOMAIN s /\ t[l] = s[l] /\ t[k] = report
        BY <1>5, <1>7, <3>6, <3>9, <4>3
      <4> QED
        BY <3>5, <3>9, <4>1, <4>2, <4>3
    <3>10. SentOK(j, t)
      BY <1>5, <3>4, <3>8, <3>9 DEF SentOK
    <3>11. \A k \in DOMAIN t : FiledUnder(t[k].rules, t[k].network_id)
      BY <1>9, <3>3, <3>5
    <3> QED
      BY <3>10, <3>11 DEF t
  <2> QED
    BY <1>8, <2>1, <2>2
<1>11. DeliveryOK(h)'
  BY <1>1, <1>2, <1>4, <1>5, <1>6, <1>10 DEF DeliveryOK, FiledUnder
<1> QED
  BY <1>2, <1>4, <1>8, <1>11 DEF Serves

-----------------------------------------------------------------------------
(* The process, and the operators                                          *)

(* The death of the process ends the deliveries that were under way.       *)
LEMMA CrashIs == ASSUME IInv, Crash PROVE IInv'
<1> DEFINE j == [NoJob EXCEPT !.pc = "lost"]
<1>1. /\ IsJob(j) /\ j.pc = "lost" /\ j.namespace = Null /\ j.todo = {} /\ j.network = Null
      /\ j.loaded = <<>> /\ j.pending = {} /\ j.triggered = <<>> /\ j.reports = {}
  BY DEF IsJob, NoJob
<1>2. job' = [h \in Handlers |-> IF Free(h) THEN job[h] ELSE j]
  BY DEF Crash
<1> HIDE DEF j
<1>3. sent' = sent /\ rules' = rules /\ issued' = issued /\ TablesOK'
  BY DEF Crash, tables, IInv, TablesOK
<1>4. ASSUME NEW h \in Handlers PROVE DeliveryOK(h)'
  <2>1. DeliveryOK(h)
    BY DEF IInv
  <2>2. CASE job'[h] = job[h]
    BY <1>3, <2>1, <2>2 DEF DeliveryOK, FiledUnder
  <2>3. CASE job'[h] = j
    <3>1. DOMAIN j.loaded = {} /\ DOMAIN j.triggered = {} /\ j.triggered \in Seq({})
      BY <1>1
    <3>2. PlaceOK(j) /\ RulesOK(j) /\ ReportsOK(j)
      BY <1>1, <3>1 DEF PlaceOK, RulesOK, ReportsOK, Running, Ended, Engaged
    <3>3. SentOK(j, sent[h])
      BY <1>1, <2>1, ModelsAssumption DEF DeliveryOK, SentOK
    <3> QED
      BY <1>1, <1>3, <2>1, <2>3, <3>1, <3>2, <3>3 DEF DeliveryOK, FiledUnder
  <2> QED
    BY <1>2, <2>2, <2>3
<1>5. job' = [h \in Handlers |-> job'[h]] /\ sent' = [h \in Handlers |-> sent'[h]]
  BY <1>2, <1>3 DEF IInv
<1> QED
  BY <1>3, <1>4, <1>5 DEF IInv

(* The registry speaks of the same rows.                                   *)
LEMMA SameRows == Registry!AlertRule = AlertRule
<1>1. Registry!HazardLists = HazardLists /\ Registry!Thresholds = Thresholds
  BY DEF Registry!HazardLists, HazardLists, Registry!Thresholds, Thresholds
<1> QED
  BY <1>1 DEF Registry!AlertRule, AlertRule

(* A rule that is changed stays under its network, and a key is never used *)
(* twice: what a delivery holds stays true.                                *)
LEMMA EditRuleIs == ASSUME IInv, NEW i \in RuleIds, EditRule(i) PROVE IInv'
<1>1. Registry!AlertRule = AlertRule
  BY SameRows
<1>2. /\ rules' \in [RuleIds -> AlertRule \cup {NoRow}]
      /\ issued' \subseteq RuleIds /\ issued \subseteq issued'
      /\ \A k \in RuleIds : rules'[k] # NoRow => k \in issued'
      /\ \A k \in issued : rules'[k] # NoRow =>
           rules[k] # NoRow /\ rules'[k].network_id = rules[k].network_id
  <2>1. CASE Registry!File(i)
    BY <1>1, <2>1 DEF Registry!File, IInv, TablesOK
  <2>2. CASE Registry!Amend(i)
    BY <1>1, <2>2 DEF Registry!Amend, IInv, TablesOK
  <2>3. CASE Registry!Remove(i)
    BY <2>3 DEF Registry!Remove, IInv, TablesOK
  <2> QED
    BY <2>1, <2>2, <2>3 DEF EditRule
<1>3. job' = job /\ sent' = sent
  BY DEF EditRule
<1>4. edits' \in 0 .. MaxEdits
  BY DispatchAssumption DEF EditRule, IInv, TablesOK
<1>5. ASSUME NEW h \in Handlers PROVE DeliveryOK(h)'
  <2>1. DeliveryOK(h)
    BY DEF IInv
  <2>2. ASSUME NEW ids, NEW network, FiledUnder(ids, network)
        PROVE  \A k \in ids : k \in issued' /\ (rules'[k] # NoRow => rules'[k].network_id = network)
    BY <1>2, <2>2 DEF FiledUnder
  <2>3. /\ FiledUnder(DOMAIN job[h].loaded, job[h].network)
        /\ \A k \in DOMAIN sent[h] : FiledUnder(sent[h][k].rules, sent[h][k].network_id)
    BY <2>1 DEF DeliveryOK
  <2>4. \A k \in DOMAIN job[h].loaded :
          k \in issued' /\ (rules'[k] # NoRow => rules'[k].network_id = job[h].network)
    BY <2>2, <2>3
  <2>5. ASSUME NEW l \in DOMAIN sent[h]
        PROVE  \A k \in sent[h][l].rules :
                 k \in issued' /\ (rules'[k] # NoRow => rules'[k].network_id = sent[h][l].network_id)
    BY <2>2, <2>3
  <2>6. /\ IsJob(job[h]) /\ PlaceOK(job[h]) /\ RulesOK(job[h]) /\ ReportsOK(job[h])
        /\ SentOK(job[h], sent[h])
    BY <2>1 DEF DeliveryOK
  <2> QED
    BY <1>3, <2>4, <2>5, <2>6 DEF DeliveryOK, FiledUnder
<1> QED
  BY <1>2, <1>3, <1>4, <1>5 DEF IInv, TablesOK

(* What an operator configures is read by the deliveries, and changes      *)
(* nothing that they hold.                                                 *)
LEMMA EditSettingsIs == ASSUME IInv, NEW u \in Subs, EditSettings(u) PROVE IInv'
<1>1. job' = job /\ sent' = sent /\ rules' = rules /\ issued' = issued
  BY DEF EditSettings
<1>2. edits' \in 0 .. MaxEdits
  BY DispatchAssumption DEF EditSettings, IInv, TablesOK
<1>3. ASSUME NEW h \in Handlers PROVE DeliveryOK(h)'
  <2>1. DeliveryOK(h)
    BY DEF IInv
  <2> QED
    BY <1>1, <2>1 DEF DeliveryOK, FiledUnder
<1> QED
  BY <1>1, <1>2, <1>3 DEF IInv, TablesOK

-----------------------------------------------------------------------------
(* The invariant                                                           *)

(* A process starts with no delivery under way.                            *)
LEMMA InitIs == Init => IInv
<1> SUFFICES ASSUME Init PROVE IInv
  OBVIOUS
<1>1. /\ IsJob(NoJob) /\ NoJob.pc = "idle" /\ NoJob.namespace = Null /\ NoJob.todo = {}
      /\ NoJob.network = Null /\ NoJob.loaded = <<>> /\ NoJob.pending = {}
      /\ NoJob.triggered = <<>> /\ NoJob.reports = {}
  BY DEF IsJob, NoJob
<1>2. job = [h \in Handlers |-> NoJob] /\ sent = [h \in Handlers |-> <<>>]
  BY DEF Init
<1>3. TablesOK
  BY DispatchAssumption DEF Init, TablesOK
<1>4. DOMAIN NoJob.loaded = {} /\ DOMAIN NoJob.triggered = {} /\ NoJob.triggered \in Seq({})
  BY <1>1
<1>5. PlaceOK(NoJob) /\ RulesOK(NoJob) /\ ReportsOK(NoJob)
  BY <1>1, <1>4 DEF PlaceOK, RulesOK, ReportsOK, Running, Ended, Engaged
<1>6. SentOK(NoJob, <<>>) /\ DOMAIN <<>> = {}
  <2>1. <<>> \in Seq({}) /\ DOMAIN <<>> = {}
    OBVIOUS
  <2> QED
    BY <2>1 DEF SentOK
<1>7. ASSUME NEW h \in Handlers PROVE DeliveryOK(h)
  <2>1. job[h] = NoJob /\ sent[h] = <<>>
    BY <1>2
  <2> QED
    BY <1>1, <1>4, <1>5, <1>6, <2>1 DEF DeliveryOK, FiledUnder
<1>8. job = [h \in Handlers |-> job[h]] /\ sent = [h \in Handlers |-> sent[h]]
  BY <1>2
<1> QED
  BY <1>3, <1>7, <1>8 DEF IInv

(* What a delivery does, and what ends it.                                 *)
LEMMA DeliveryStep ==
    ASSUME IInv, NEW h \in Handlers, Arrive(h) \/ Progress(h) \/ RaiseOnDatabase(h)
    PROVE  Serves(h)
<1>1. "ignored" \in Ended /\ "raised" \in Ended /\ "done" \in Ended
  BY DEF Ended
<1>2. CASE Ignore(h)
  BY <1>1, <1>2, EndIs DEF Ignore
<1>3. CASE RaiseOnTimestamp(h)
  BY <1>1, <1>3, EndIs DEF RaiseOnTimestamp
<1>4. CASE Receive(h)
  BY <1>4, ReceiveIs
<1>5. CASE ListNetworks(h)
  BY <1>5, ListNetworksIs
<1>6. CASE LoadRules(h)
  BY <1>6, LoadRulesIs
<1>7. CASE Fetch(h)
  BY <1>7, FetchIs
<1>8. CASE FetchNothing(h) \/ EndNetwork(h)
  <2>1. job[h].pc \in Engaged /\ UNCHANGED <<tables, sent>>
    BY <1>8 DEF FetchNothing, EndNetwork, Engaged
  <2>2. job' = [job EXCEPT ![h] = Return(job[h])]
    BY <1>8 DEF FetchNothing, EndNetwork, Return
  <2> QED
    BY <2>1, <2>2, ReturnIs
<1>9. CASE Resolve(h)
  BY <1>9, ResolveIs
<1>10. CASE Merge(h)
  BY <1>10, MergeStep
<1>11. CASE Send(h) \/ SendFails(h)
  BY <1>11, SendIs
<1>12. CASE EndRun(h)
  BY <1>1, <1>12, EndIs DEF EndRun
<1>13. CASE RaiseOnDatabase(h)
  BY <1>1, <1>13, EndIs DEF RaiseOnDatabase
<1> QED
  BY <1>2, <1>3, <1>4, <1>5, <1>6, <1>7, <1>8, <1>9, <1>10, <1>11, <1>12, <1>13
     DEF Arrive, Progress

(* Every step of the system keeps the invariant.                           *)
LEMMA NextIs == IInv /\ [Next]_vars => IInv'
<1> SUFFICES ASSUME IInv, [Next]_vars PROVE IInv'
  OBVIOUS
<1>1. CASE \E h \in Handlers : Arrive(h) \/ Progress(h) \/ RaiseOnDatabase(h)
  BY <1>1, DeliveryStep, Frame
<1>2. CASE \E i \in RuleIds : EditRule(i)
  BY <1>2, EditRuleIs
<1>3. CASE \E u \in Subs : EditSettings(u)
  BY <1>3, EditSettingsIs
<1>4. CASE Crash
  BY <1>4, CrashIs
<1>5. CASE UNCHANGED vars
  <2>1. job' = job /\ sent' = sent /\ rules' = rules /\ issued' = issued /\ edits' = edits
    BY <1>5 DEF vars
  <2> QED
    BY <2>1 DEF IInv, TablesOK, DeliveryOK, FiledUnder
<1> QED
  BY <1>1, <1>2, <1>3, <1>4, <1>5 DEF Next

(* The invariant holds in every state that the dispatcher can be in.       *)
THEOREM Invariance == Spec => []IInv
<1> QED
  BY InitIs, NextIs, PTL DEF Spec

(* The tables hold rows, a delivery is at a known place, and a rule it has *)
(* loaded triggers once at most.                                           *)
THEOREM TypeCorrectness == Spec => []TypeOK
<1>1. IInv => TypeOK
  <2> SUFFICES ASSUME IInv PROVE TypeOK
    OBVIOUS
  <2>1. ASSUME NEW h \in Handlers
        PROVE  /\ job[h].pc \in Running \cup Ended
               /\ job[h].todo \subseteq Networks \cup {Unattributed}
               /\ DOMAIN job[h].loaded \subseteq RuleIds
               /\ job[h].pending \subseteq DOMAIN job[h].loaded
               /\ \A k, l \in DOMAIN job[h].triggered :
                    /\ job[h].triggered[k].id \in DOMAIN job[h].loaded \ job[h].pending
                    /\ k # l => job[h].triggered[k].id # job[h].triggered[l].id
    BY DEF IInv, DeliveryOK, PlaceOK, RulesOK, Places
  <2> QED
    BY <2>1 DEF TypeOK, IInv, TablesOK
<1> QED
  BY <1>1, Invariance, PTL

(* REQ-0031: one run tells an inbox, or an operator without one, at most   *)
(* once about a network, whatever is edited and delivered meanwhile.       *)
THEOREM OncePerInbox == Spec => []OneReportPerInbox
<1>1. IInv => OneReportPerInbox
  <2> SUFFICES ASSUME IInv, NEW h \in Handlers, NEW k \in DOMAIN sent[h], NEW l \in DOMAIN sent[h],
                      k # l, sent[h][k].network_id = sent[h][l].network_id
               PROVE  /\ sent[h][k].user_id # sent[h][l].user_id
                      /\ sent[h][k].recipients # <<>> /\ sent[h][l].recipients # <<>> =>
                           SyntheticEmailUserId(sent[h][k].recipients)
                             # SyntheticEmailUserId(sent[h][l].recipients)
    BY DEF OneReportPerInbox
  <2>1. SentOK(job[h], sent[h])
    BY DEF IInv, DeliveryOK
  <2>2. /\ sent[h][k].user_id # sent[h][l].user_id
        /\ Addressed(sent[h][k]) /\ Addressed(sent[h][l])
    BY <2>1 DEF SentOK
  <2> QED
    BY <2>2 DEF Addressed
<1> QED
  BY <1>1, Invariance, PTL

(* REQ-0030: a report is about one network of the run, and every rule      *)
(* behind it that still exists is filed under that network.                *)
THEOREM NetworksStayApart == Spec => []ReportsStayInTheirNetwork
<1>1. IInv => ReportsStayInTheirNetwork
  <2> SUFFICES ASSUME IInv, NEW h \in Handlers, NEW k \in DOMAIN sent[h]
               PROVE  /\ sent[h][k].network_id \in Networks
                      /\ job[h].namespace \in {Null, PipelineNamespace, sent[h][k].network_id}
                      /\ \A i \in sent[h][k].rules :
                           rules[i] # NoRow => rules[i].network_id = sent[h][k].network_id
    BY DEF ReportsStayInTheirNetwork
  <2>1. DeliveryOK(h)
    BY DEF IInv
  <2>2. SentOK(job[h], sent[h]) /\ FiledUnder(sent[h][k].rules, sent[h][k].network_id)
    BY <2>1 DEF DeliveryOK
  <2> QED
    BY <2>2 DEF SentOK, FiledUnder
<1> QED
  BY <1>1, Invariance, PTL

-----------------------------------------------------------------------------
(* A delivery, seen from the inboxes                                       *)

(* The four variables of ReportDelivery.                                   *)
Stages   == [h \in Handlers |-> IF Free(h) THEN "idle"
                                ELSE IF job[h].pc = "list" THEN "listing" ELSE "working"]
Open     == [h \in Handlers |-> job[h].todo]
Current  == [h \in Handlers |-> job[h].network]
ToldBy(s) == [k \in 1 .. Len(s) |-> <<s[k].network_id, s[k].user_id>>]
Told     == [h \in Handlers |-> ToldBy(sent[h])]

Stage(pc) == IF pc \in Ended THEN "idle" ELSE IF pc = "list" THEN "listing" ELSE "working"

(* A step of one handler moves its part of the four variables only.        *)
LEMMA View ==
    ASSUME IInv, NEW h \in Handlers, Serves(h)
    PROVE  /\ Stages' = [Stages EXCEPT ![h] = Stage(job'[h].pc)]
           /\ Open' = [Open EXCEPT ![h] = job'[h].todo]
           /\ Current' = [Current EXCEPT ![h] = job'[h].network]
           /\ Told' = [Told EXCEPT ![h] = ToldBy(sent'[h])]
           /\ Stage(job'[h].pc) = Stage(job[h].pc) => Stages' = Stages
           /\ job'[h].todo = job[h].todo => Open' = Open
           /\ job'[h].network = job[h].network => Current' = Current
           /\ sent'[h] = sent[h] => Told' = Told
           /\ Stages[h] = Stage(job[h].pc) /\ Open[h] = job[h].todo
           /\ Current[h] = job[h].network /\ Told[h] = ToldBy(sent[h])
<1>1. \A g \in Handlers : g # h => job'[g] = job[g] /\ sent'[g] = sent[g]
  BY DEF Serves, IInv
<1>2. Stages = [g \in Handlers |-> Stage(job[g].pc)]
  BY DEF Stages, Stage, Free
<1>3. Stages' = [g \in Handlers |-> Stage(job'[g].pc)]
  BY DEF Stages, Stage, Free
<1>4. Stages' = [Stages EXCEPT ![h] = Stage(job'[h].pc)]
  <2> HIDE DEF Stages, Stage
  <2> QED
    BY <1>1, <1>2, <1>3
<1>5. Open' = [Open EXCEPT ![h] = job'[h].todo]
  BY <1>1 DEF Open
<1>6. Current' = [Current EXCEPT ![h] = job'[h].network]
  BY <1>1 DEF Current
<1>7. Told' = [g \in Handlers |-> ToldBy(sent'[g])]
  BY DEF Told, ToldBy
<1>8. Told' = [Told EXCEPT ![h] = ToldBy(sent'[h])]
  BY <1>1, <1>7 DEF Told
<1>9. Stages[h] = Stage(job[h].pc) /\ Open[h] = job[h].todo
      /\ Current[h] = job[h].network /\ Told[h] = ToldBy(sent[h])
  BY <1>2 DEF Open, Current, Told
<1>10. Stage(job'[h].pc) = Stage(job[h].pc) => Stages' = Stages
  <2> HIDE DEF Stages, Stage
  <2> QED
    BY <1>1, <1>2, <1>3
<1>11. job'[h].todo = job[h].todo => Open' = Open
  BY <1>1 DEF Open
<1>12. job'[h].network = job[h].network => Current' = Current
  BY <1>1 DEF Current
<1>13. sent'[h] = sent[h] => Told' = Told
  BY <1>1, <1>7 DEF Told
<1> QED
  BY <1>4, <1>5, <1>6, <1>8, <1>9, <1>10, <1>11, <1>12, <1>13

(* The steps of ReportDelivery in these four variables.                    *)
LEMMA Begins ==
    ASSUME NEW h \in Handlers
    PROVE  Delivery!Begin(h) <=>
             /\ Stages[h] = "idle"
             /\ \/ \E n \in Places : /\ Stages' = [Stages EXCEPT ![h] = "working"]
                                     /\ Open' = [Open EXCEPT ![h] = {n}]
                \/ Stages' = [Stages EXCEPT ![h] = "listing"] /\ Open' = Open
             /\ Told' = [Told EXCEPT ![h] = <<>>]
             /\ Current' = Current
<1> QED
  BY Zenon DEF Delivery!Begin, Stages, Open, Current, Told, ToldBy, Places

(* A message that is no run to report on.                                  *)
LEMMA TurnsAway ==
    ASSUME NEW h \in Handlers
    PROVE  Delivery!TurnAway(h) <=>
             /\ Stages[h] = "idle"
             /\ Told' = [Told EXCEPT ![h] = <<>>]
             /\ Stages' = Stages /\ Open' = Open /\ Current' = Current
<1> QED
  BY Zenon DEF Delivery!TurnAway, Stages, Open, Current, Told, ToldBy

(* The networks of a fan-out.                                              *)
LEMMA ListsNetworks ==
    ASSUME NEW h \in Handlers
    PROVE  Delivery!List(h) <=>
             /\ Stages[h] = "listing"
             /\ Stages' = [Stages EXCEPT ![h] = "working"]
             /\ \E networks \in SUBSET Places : Open' = [Open EXCEPT ![h] = networks]
             /\ Current' = Current /\ Told' = Told
<1> QED
  BY Zenon DEF Delivery!List, Stages, Open, Current, Told, ToldBy, Places

(* A network is taken up, or passed over.                                  *)
LEMMA TakesUp ==
    ASSUME NEW h \in Handlers
    PROVE  Delivery!TakeUp(h) <=>
             /\ Stages[h] = "working"
             /\ Current[h] = Null
             /\ \E n \in Open[h] :
                  /\ Open' = [Open EXCEPT ![h] = @ \ {n}]
                  /\ \E m \in {n, Null} : Current' = [Current EXCEPT ![h] = m]
             /\ Stages' = Stages /\ Told' = Told
<1> QED
  BY Zenon DEF Delivery!TakeUp, Stages, Open, Current, Told, ToldBy

(* The network in hand is put down.                                        *)
LEMMA PutsDown ==
    ASSUME NEW h \in Handlers
    PROVE  Delivery!PutDown(h) <=>
             /\ Current' = [Current EXCEPT ![h] = Null]
             /\ Stages' = Stages /\ Open' = Open /\ Told' = Told
<1> QED
  BY Zenon DEF Delivery!PutDown, Stages, Open, Current, Told, ToldBy

(* The delivery is over.                                                   *)
LEMMA Ends ==
    ASSUME NEW h \in Handlers
    PROVE  Delivery!End(h) <=>
             /\ Stages' = [Stages EXCEPT ![h] = "idle"]
             /\ Open' = [Open EXCEPT ![h] = {}]
             /\ Current' = [Current EXCEPT ![h] = Null]
             /\ Told' = Told
<1> QED
  BY Zenon DEF Delivery!End, Stages, Open, Current, Told, ToldBy

(* The process dies.                                                       *)
LEMMA Crashes ==
    Delivery!Crash <=>
        /\ Stages' = [g \in Handlers |-> "idle"]
        /\ Open' = [g \in Handlers |-> {}]
        /\ Current' = [g \in Handlers |-> Null]
        /\ Told' = Told
<1> QED
  BY Zenon DEF Delivery!Crash, Stages, Open, Current, Told, ToldBy

(* An inbox is told of the network in hand.                                *)
LEMMA Tells ==
    ASSUME NEW h \in Handlers
    PROVE  Delivery!Tell(h) <=>
             /\ Current[h] # Null
             /\ \E inbox \in {Told'[h][k][2] : k \in DOMAIN Told'[h]} :
                  /\ \A k \in DOMAIN Told[h] : Told[h][k] # <<Current[h], inbox>>
                  /\ Told' = [Told EXCEPT ![h] = Append(@, <<Current[h], inbox>>)]
             /\ Stages' = Stages /\ Open' = Open /\ Current' = Current
<1> QED
  BY Zenon DEF Delivery!Tell, Delivery!Inboxes, Stages, Open, Current, Told, ToldBy


(* A delivery that ends, for whatever reason.                              *)
LEMMA EndMaps ==
    ASSUME IInv, NEW h \in Handlers, NEW outcome \in Ended, End(h, outcome), UNCHANGED <<tables, sent>>
    PROVE  Delivery!End(h)
<1>1. Serves(h)
  BY EndIs
<1>2. job'[h].pc = outcome /\ job'[h].todo = {} /\ job'[h].network = Null
  BY DEF End, IInv, NoJob
<1>3. Stage(outcome) = "idle" /\ sent' = sent
  BY DEF Stage
<1> HIDE DEF Stages, Open, Current, Told, Stage
<1> QED
  BY <1>1, <1>2, <1>3, View, Ends

(* A message that is ignored, or that raises.                              *)
LEMMA TurnAwayMaps ==
    ASSUME IInv, NEW h \in Handlers, NEW outcome \in Ended, Free(h), End(h, outcome),
           UNCHANGED tables, sent' = [sent EXCEPT ![h] = <<>>]
    PROVE  Delivery!TurnAway(h)
<1>1. Serves(h)
  BY EndIs
<1>2. job'[h].pc = outcome /\ job'[h].todo = {} /\ job'[h].network = Null
  BY DEF End, IInv, NoJob
<1>3. Stage(outcome) = "idle" /\ Stage(job[h].pc) = "idle"
  BY DEF Stage, Free
<1>4. job[h].todo = {} /\ job[h].network = Null
  BY DEF IInv, DeliveryOK, PlaceOK, Free, Ended, Engaged
<1>5. ToldBy(sent'[h]) = <<>>
  <2>1. sent'[h] = <<>>
    BY DEF IInv
  <2> QED
    BY <2>1 DEF ToldBy
<1> HIDE DEF Stages, Open, Current, Told, Stage, ToldBy
<1> QED
  BY <1>1, <1>2, <1>3, <1>4, <1>5, View, TurnsAway

(* A run begins with its network, or with a list to come.                  *)
LEMMA ReceiveMaps ==
    ASSUME IInv, NEW h \in Handlers, Receive(h)
    PROVE  Delivery!Begin(h)
<1>1. Serves(h)
  BY ReceiveIs
<1>2. PICK event \in Events :
        job' = [job EXCEPT ![h] =
              [NoJob EXCEPT
                !.pc = IF event.namespace = PipelineNamespace THEN "list" ELSE "next",
                !.namespace = event.namespace,
                !.dates = HorizonDates(event.timestamp),
                !.todo = IF event.namespace = PipelineNamespace THEN {} ELSE {event.namespace}]]
  BY DEF Receive
<1>3. job'[h].network = Null
      /\ \/ /\ job'[h].pc = "list" /\ job'[h].todo = {}
         \/ /\ job'[h].pc = "next" /\ job'[h].todo = {event.namespace}
            /\ event.namespace # PipelineNamespace
  BY <1>2 DEF IInv, NoJob
<1>4. event.namespace \in Places \cup {PipelineNamespace}
  BY DispatchAssumption DEF Event, Places
<1>5. Stage(job[h].pc) = "idle" /\ job[h].todo = {} /\ job[h].network = Null
  BY DEF Receive, IInv, DeliveryOK, PlaceOK, Free, Ended, Engaged, Stage
<1>6. ToldBy(sent'[h]) = <<>>
  <2>1. sent'[h] = <<>>
    BY DEF IInv, Receive
  <2> QED
    BY <2>1 DEF ToldBy
<1>7. Stage("list") = "listing" /\ Stage("next") = "working"
  BY DEF Stage, Ended
<1> HIDE DEF Stages, Open, Current, Told, Stage, ToldBy
<1>8. Stages[h] = "idle" /\ Told' = [Told EXCEPT ![h] = <<>>] /\ Current' = Current
  BY <1>1, <1>3, <1>5, <1>6, View
<1>9. CASE job'[h].pc = "list" /\ job'[h].todo = {}
  <2>1. Stages' = [Stages EXCEPT ![h] = "listing"] /\ Open' = Open
    <3>1. Stages' = [Stages EXCEPT ![h] = Stage(job'[h].pc)]
      BY <1>1, View
    <3>2. Stage(job'[h].pc) = "listing"
      BY <1>7, <1>9
    <3>3. Open' = Open
      BY <1>1, <1>5, <1>9, View
    <3> QED
      BY <3>1, <3>2, <3>3
  <2> QED
    BY <1>8, <2>1, Begins
<1>10. CASE /\ job'[h].pc = "next" /\ job'[h].todo = {event.namespace}
            /\ event.namespace # PipelineNamespace
  <2>1. /\ Stages' = [Stages EXCEPT ![h] = "working"]
        /\ Open' = [Open EXCEPT ![h] = {event.namespace}]
    BY <1>1, <1>7, <1>10, View
  <2>2. event.namespace \in Places
    BY <1>4, <1>10
  <2> QED
    BY <1>8, <2>1, <2>2, Begins
<1> QED
  BY <1>3, <1>9, <1>10

(* The networks of a fan-out are named.                                    *)
LEMMA ListMaps ==
    ASSUME IInv, NEW h \in Handlers, ListNetworks(h)
    PROVE  Delivery!List(h)
<1>1. Serves(h)
  BY ListNetworksIs
<1>2. job'[h].pc = "next" /\ job'[h].todo = NetworksWithActiveRules
      /\ job'[h].network = job[h].network
  BY DEF ListNetworks, IInv, DeliveryOK, IsJob
<1>3. NetworksWithActiveRules \in SUBSET Places /\ sent' = sent /\ job[h].pc = "list"
  BY DEF NetworksWithActiveRules, Places, ListNetworks
<1>4. Stage("list") = "listing" /\ Stage("next") = "working"
  BY DEF Stage, Ended
<1> HIDE DEF Stages, Open, Current, Told, Stage, ToldBy
<1> QED
  BY <1>1, <1>2, <1>3, <1>4, View, ListsNetworks

(* A network is taken up, or passed over.                                  *)
LEMMA TakeUpMaps ==
    ASSUME IInv, NEW h \in Handlers, LoadRules(h)
    PROVE  Delivery!TakeUp(h)
<1>1. Serves(h)
  BY LoadRulesIs
<1>2. DeliveryOK(h) /\ job[h].pc = "next" /\ sent' = sent
  BY DEF IInv, LoadRules
<1>3. PICK n \in job[h].todo :
         job' = [job EXCEPT ![h] =
           IF job[h].dates = {} \/ n = Unattributed \/ ActiveRules(n) = {}
           THEN [job[h] EXCEPT !.todo = job[h].todo \ {n}]
           ELSE [job[h] EXCEPT !.pc = "fetch", !.todo = job[h].todo \ {n}, !.network = n,
                               !.loaded = [i \in ActiveRules(n) |-> rules[i]]]]
  BY DEF LoadRules
<1>4. job[h].network = Null
  BY <1>2 DEF DeliveryOK, PlaceOK, Engaged
<1>5. /\ job'[h].todo = job[h].todo \ {n}
      /\ \/ job'[h].pc = "next" /\ job'[h].network = Null
         \/ job'[h].pc = "fetch" /\ job'[h].network = n
  <2>1. CASE job' = [job EXCEPT ![h] = [job[h] EXCEPT !.todo = job[h].todo \ {n}]]
    BY <1>2, <1>4, <2>1 DEF IInv, DeliveryOK, IsJob
  <2>2. CASE job' = [job EXCEPT ![h] =
               [job[h] EXCEPT !.pc = "fetch", !.todo = job[h].todo \ {n}, !.network = n,
                              !.loaded = [i \in ActiveRules(n) |-> rules[i]]]]
    BY <1>2, <2>2 DEF IInv, DeliveryOK, IsJob
  <2> QED
    BY <1>3, <2>1, <2>2
<1>6. Stage("next") = "working" /\ Stage("fetch") = "working"
  BY DEF Stage, Ended
<1> HIDE DEF Stages, Open, Current, Told, Stage, ToldBy
<1>7. Open' = [Open EXCEPT ![h] = Open[h] \ {n}] /\ n \in Open[h]
  BY <1>1, <1>5, View
<1>8. \E m \in {n, Null} : Current' = [Current EXCEPT ![h] = m]
  BY <1>1, <1>5, View
<1>9. Stages' = Stages /\ Told' = Told /\ Stages[h] = "working" /\ Current[h] = Null
  BY <1>1, <1>2, <1>4, <1>5, <1>6, View
<1> QED
  BY <1>7, <1>8, <1>9, TakesUp

(* dispatch_grid_alerts returns: the network is put down.                  *)
LEMMA ReturnMaps ==
    ASSUME IInv, NEW h \in Handlers, FetchNothing(h) \/ EndNetwork(h)
    PROVE  Delivery!PutDown(h)
<1>1. job[h].pc \in {"fetch", "send"} /\ UNCHANGED <<tables, sent>>
      /\ job' = [job EXCEPT ![h] = Return(job[h])]
  BY DEF FetchNothing, EndNetwork, Return
<1>2. Serves(h)
  BY <1>1, ReturnIs DEF Engaged
<1>3. job'[h].pc = "next" /\ job'[h].todo = job[h].todo /\ job'[h].network = Null
  BY <1>1 DEF IInv, DeliveryOK, IsJob, Return
<1>4. Stage("next") = "working" /\ Stage(job[h].pc) = "working"
  BY <1>1 DEF Stage, Ended
<1> HIDE DEF Stages, Open, Current, Told, Stage, ToldBy
<1> QED
  BY <1>1, <1>2, <1>3, <1>4, View, PutsDown

(* Between the network it takes up and the reports it sends, a delivery    *)
(* does nothing that an inbox could see.                                   *)
LEMMA InnerMaps ==
    ASSUME IInv, NEW h \in Handlers, Fetch(h) \/ Resolve(h) \/ Merge(h) \/ SendFails(h)
    PROVE  Stages' = Stages /\ Open' = Open /\ Current' = Current /\ Told' = Told
<1>1. Serves(h) /\ sent' = sent
  BY FetchIs, ResolveIs, MergeStep, SendIs DEF Fetch, Resolve, Merge, SendFails
<1>2. IsJob(job[h])
  BY DEF IInv, DeliveryOK
<1>3. /\ job[h].pc \in {"fetch", "resolve", "send"} /\ job'[h].pc \in {"fetch", "resolve", "send"}
      /\ job'[h].todo = job[h].todo /\ job'[h].network = job[h].network
  <2>1. CASE Fetch(h)
    <3>1. PICK rows, left : job' = [job EXCEPT ![h].pc = "resolve", ![h].rows = rows,
                                               ![h].pending = left]
      BY <2>1 DEF Fetch
    <3>2. job[h].pc = "fetch"
      BY <2>1 DEF Fetch
    <3> QED
      BY <1>2, <3>1, <3>2 DEF IInv, IsJob
  <2>2. CASE Resolve(h)
    <3>1. PICK i \in job[h].pending :
            \E hits : job' = [job EXCEPT ![h].pending = @ \ {i}, ![h].triggered = hits]
      BY <2>2 DEF Resolve
    <3>2. PICK hits, left : job' = [job EXCEPT ![h].pending = left, ![h].triggered = hits]
      BY <3>1
    <3>3. job[h].pc = "resolve"
      BY <2>2 DEF Resolve
    <3> QED
      BY <1>2, <3>2, <3>3 DEF IInv, IsJob
  <2>3. CASE Merge(h)
    <3>1. PICK reports : job' = [job EXCEPT ![h].pc = "send", ![h].reports = reports]
      BY <2>3 DEF Merge
    <3>2. job[h].pc = "resolve"
      BY <2>3 DEF Merge
    <3> QED
      BY <1>2, <3>1, <3>2 DEF IInv, IsJob
  <2>4. CASE SendFails(h)
    BY <1>2, <2>4 DEF SendFails, IInv, IsJob
  <2> QED
    BY <2>1, <2>2, <2>3, <2>4
<1>4. Stage(job'[h].pc) = Stage(job[h].pc)
  BY <1>3 DEF Stage, Ended
<1> HIDE DEF Stages, Open, Current, Told, Stage, ToldBy
<1> QED
  BY <1>1, <1>3, <1>4, View

(* A report that nudging-tool accepts is the first that the run has for    *)
(* its inbox about the network in hand.                                    *)
LEMMA SendMaps ==
    ASSUME IInv, NEW h \in Handlers, Send(h)
    PROVE  Delivery!Tell(h)
<1>1. Serves(h) /\ DeliveryOK(h) /\ job[h].pc = "send"
  BY SendIs DEF Send, IInv
<1>2. PICK report \in job[h].reports :
        /\ sent' = [sent EXCEPT ![h] = Append(sent[h], report)]
        /\ job' = [job EXCEPT ![h].reports = @ \ {report}]
  BY DEF Send
<1>3. job'[h].pc = "send" /\ job'[h].todo = job[h].todo /\ job'[h].network = job[h].network
  BY <1>1, <1>2 DEF IInv, DeliveryOK, IsJob
<1>4. sent'[h] = Append(sent[h], report)
  BY <1>2 DEF IInv
<1>5. job[h].network # Null
  BY <1>1, ModelsAssumption DEF DeliveryOK, PlaceOK, Engaged
<1>6. report.network_id = job[h].network
  BY <1>1 DEF DeliveryOK, ReportsOK
<1>7. \A k \in DOMAIN sent[h] :
        sent[h][k].network_id = job[h].network => sent[h][k].user_id # report.user_id
  BY <1>1 DEF DeliveryOK, SentOK
<1> DEFINE s == sent[h]
           news == <<job[h].network, report.user_id>>
<1>8. PICK S : s \in Seq(S)
  BY <1>1 DEF DeliveryOK, SentOK
<1>9. /\ \A k \in DOMAIN ToldBy(s) : ToldBy(s)[k] # news
      /\ ToldBy(Append(s, report)) = Append(ToldBy(s), news)
      /\ \E k \in DOMAIN ToldBy(Append(s, report)) :
           ToldBy(Append(s, report))[k][2] = report.user_id
  <2> HIDE DEF s
  <2>1. /\ Len(s) \in Nat /\ DOMAIN s = 1 .. Len(s)
        /\ Len(Append(s, report)) = Len(s) + 1
        /\ \A k \in 1 .. Len(s) : Append(s, report)[k] = s[k]
        /\ Append(s, report)[Len(s) + 1] = report
    <3>1. s \in Seq(S \cup {report})
      BY <1>8
    <3> QED
      BY <3>1
  <2>2. \A k \in DOMAIN ToldBy(s) : ToldBy(s)[k] # news
    <3>1. DOMAIN ToldBy(s) = DOMAIN s
          /\ \A k \in DOMAIN s : ToldBy(s)[k] = <<s[k].network_id, s[k].user_id>>
      BY <2>1 DEF ToldBy
    <3> QED
      BY <1>7, <3>1 DEF s
  <2>3. ToldBy(Append(s, report)) =
          [k \in 1 .. Len(s) + 1 |-> IF k = Len(s) + 1 THEN news
                                     ELSE <<s[k].network_id, s[k].user_id>>]
    BY <1>6, <2>1 DEF ToldBy
  <2>4. ToldBy(s) \in Seq({ToldBy(s)[k] : k \in 1 .. Len(s)}) /\ Len(ToldBy(s)) = Len(s)
    BY <2>1 DEF ToldBy
  <2>5. Append(ToldBy(s), news) =
          [k \in 1 .. Len(s) + 1 |-> IF k = Len(s) + 1 THEN news ELSE ToldBy(s)[k]]
    BY <2>1, <2>4
  <2>6. \A k \in 1 .. Len(s) : ToldBy(s)[k] = <<s[k].network_id, s[k].user_id>>
    BY DEF ToldBy
  <2>7. ToldBy(Append(s, report)) = Append(ToldBy(s), news)
    <3> DEFINE n == Len(s) + 1
               old(k) == <<s[k].network_id, s[k].user_id>>
    <3>1. \A k \in 1 .. n : k # n => ToldBy(s)[k] = old(k)
      BY <2>1, <2>6
    <3>2. ToldBy(Append(s, report)) = [k \in 1 .. n |-> IF k = n THEN news ELSE old(k)]
      BY <2>3
    <3>3. Append(ToldBy(s), news) = [k \in 1 .. n |-> IF k = n THEN news ELSE ToldBy(s)[k]]
      BY <2>5
    <3> HIDE DEF n, old, news
    <3> QED
      BY <3>1, <3>2, <3>3
  <2>8. Len(s) + 1 \in DOMAIN ToldBy(Append(s, report))
        /\ ToldBy(Append(s, report))[Len(s) + 1][2] = report.user_id
    BY <2>1, <2>3
  <2> QED
    BY <2>2, <2>7, <2>8
<1> HIDE DEF Stages, Open, Current, Told, Stage, ToldBy
<1>10. /\ Stages' = Stages /\ Open' = Open /\ Current' = Current
       /\ Current[h] = job[h].network /\ Told[h] = ToldBy(sent[h])
       /\ Told' = [Told EXCEPT ![h] = ToldBy(sent'[h])]
  BY <1>1, <1>3, View
<1>11. Told' = [Told EXCEPT ![h] = Append(Told[h], <<Current[h], report.user_id>>)]
  BY <1>4, <1>9, <1>10
<1>12. Told'[h] = ToldBy(sent'[h])
  BY <1>10 DEF Told
<1>13. report.user_id \in {Told'[h][k][2] : k \in DOMAIN Told'[h]}
  BY <1>4, <1>9, <1>12
<1>14. \A k \in DOMAIN Told[h] : Told[h][k] # <<Current[h], report.user_id>>
  BY <1>9, <1>10
<1> QED
  BY <1>5, <1>10, <1>11, <1>13, <1>14, Tells

(* The death of the process ends the deliveries that were under way; the   *)
(* others have nothing to lose.                                            *)
LEMMA CrashMaps == ASSUME IInv, Crash PROVE Delivery!Crash
<1>1. job' = [h \in Handlers |-> IF Free(h) THEN job[h] ELSE [NoJob EXCEPT !.pc = "lost"]]
      /\ sent' = sent
  BY DEF Crash
<1>2. ASSUME NEW h \in Handlers
      PROVE  job'[h].pc \in Ended /\ job'[h].todo = {} /\ job'[h].network = Null
  <2>1. CASE Free(h)
    BY <1>1, <2>1 DEF Free, IInv, DeliveryOK, PlaceOK, Ended, Engaged
  <2>2. CASE ~Free(h)
    <3>1. job'[h] = [NoJob EXCEPT !.pc = "lost"]
      BY <1>1, <2>2
    <3> QED
      BY <3>1 DEF NoJob, Ended
  <2> QED
    BY <2>1, <2>2
<1>3. Stages' = [g \in Handlers |-> "idle"]
  BY <1>2 DEF Stages, Free
<1>4. Open' = [g \in Handlers |-> {}] /\ Current' = [g \in Handlers |-> Null] /\ Told' = Told
  BY <1>1, <1>2 DEF Open, Current, Told, ToldBy
<1> HIDE DEF Stages, Open, Current, Told
<1> QED
  BY <1>3, <1>4, Crashes

(* A step of the dispatcher is a step of ReportDelivery, or changes        *)
(* nothing that it shows.                                                  *)
LEMMA StepMaps ==
    ASSUME IInv, [Next]_vars
    PROVE  Delivery!Next \/ (Stages' = Stages /\ Open' = Open /\ Current' = Current /\ Told' = Told)
<1>1. ASSUME NEW h \in Handlers, Arrive(h) \/ Progress(h) \/ RaiseOnDatabase(h)
      PROVE  \/ Delivery!Begin(h) \/ Delivery!TurnAway(h) \/ Delivery!List(h)
             \/ Delivery!TakeUp(h) \/ Delivery!Tell(h) \/ Delivery!PutDown(h) \/ Delivery!End(h)
             \/ Stages' = Stages /\ Open' = Open /\ Current' = Current /\ Told' = Told
  <2> HIDE DEF Stages, Open, Current, Told
  <2>1. "ignored" \in Ended /\ "raised" \in Ended /\ "done" \in Ended
    BY DEF Ended
  <2>2. CASE Ignore(h)
    BY <2>1, <2>2, TurnAwayMaps DEF Ignore
  <2>3. CASE RaiseOnTimestamp(h)
    BY <2>1, <2>3, TurnAwayMaps DEF RaiseOnTimestamp
  <2>4. CASE Receive(h)
    BY <2>4, ReceiveMaps
  <2>5. CASE ListNetworks(h)
    BY <2>5, ListMaps
  <2>6. CASE LoadRules(h)
    BY <2>6, TakeUpMaps
  <2>7. CASE FetchNothing(h) \/ EndNetwork(h)
    BY <2>7, ReturnMaps
  <2>8. CASE Fetch(h) \/ Resolve(h) \/ Merge(h) \/ SendFails(h)
    BY <2>8, InnerMaps
  <2>9. CASE Send(h)
    BY <2>9, SendMaps
  <2>10. CASE EndRun(h)
    BY <2>1, <2>10, EndMaps DEF EndRun
  <2>11. CASE RaiseOnDatabase(h)
    BY <2>1, <2>11, EndMaps DEF RaiseOnDatabase
  <2> QED
    BY <1>1, <2>2, <2>3, <2>4, <2>5, <2>6, <2>7, <2>8, <2>9, <2>10, <2>11 DEF Arrive, Progress
<1>2. CASE \E h \in Handlers : Arrive(h) \/ Progress(h) \/ RaiseOnDatabase(h)
  <2> HIDE DEF Stages, Open, Current, Told
  <2> QED
    BY <1>1, <1>2 DEF Delivery!Next
<1>3. CASE \/ \E i \in RuleIds : EditRule(i)
           \/ \E u \in Subs : EditSettings(u)
           \/ UNCHANGED vars
  <2>1. job' = job /\ sent' = sent
    BY <1>3 DEF EditRule, EditSettings, vars
  <2> QED
    BY <2>1 DEF Stages, Open, Current, Told, ToldBy, Free
<1>4. CASE Crash
  <2> HIDE DEF Stages, Open, Current, Told
  <2> QED
    BY <1>4, CrashMaps DEF Delivery!Next
<1> QED
  BY <1>2, <1>3, <1>4 DEF Next

(* A delivery implements ReportDelivery: each network of a run is taken up *)
(* once at most, and each of its inboxes told once at most, through every  *)
(* failure of the Digital Twin, of nudging-tool, of the database or of the *)
(* process.                                                                *)
THEOREM ImplementsDelivery == Spec => DeliverySpec
<1>1. Init => Delivery!Init
  <2> SUFFICES ASSUME Init PROVE Delivery!Init
    OBVIOUS
  <2>1. job = [h \in Handlers |-> NoJob] /\ sent = [h \in Handlers |-> <<>>]
    BY DEF Init
  <2>2. NoJob.pc = "idle" /\ NoJob.todo = {} /\ NoJob.network = Null /\ "idle" \in Ended
    BY DEF NoJob, Ended
  <2>3. Stages = [h \in Handlers |-> "idle"]
    BY <2>1, <2>2 DEF Stages, Free
  <2>4. Open = [h \in Handlers |-> {}] /\ Current = [h \in Handlers |-> Null]
    BY <2>1, <2>2 DEF Open, Current
  <2>5. Told = [h \in Handlers |-> <<>>]
    BY <2>1 DEF Told, ToldBy
  <2> QED
    BY Zenon, <2>3, <2>4, <2>5 DEF Delivery!Init, Stages, Open, Current, Told, ToldBy
<1>2. IInv /\ [Next]_vars => [Delivery!Next]_Delivery!vars
  <2> SUFFICES ASSUME IInv, [Next]_vars PROVE [Delivery!Next]_Delivery!vars
    OBVIOUS
  <2>1. Delivery!Next \/ (Stages' = Stages /\ Open' = Open /\ Current' = Current /\ Told' = Told)
    BY StepMaps
  <2>2. Stages' = Stages /\ Open' = Open /\ Current' = Current /\ Told' = Told
        => UNCHANGED Delivery!vars
    BY Zenon DEF Delivery!vars, Stages, Open, Current, Told, ToldBy
  <2> QED
    BY <2>1, <2>2
<1> QED
  BY <1>1, <1>2, Invariance, PTL DEF Spec, DeliverySpec, Delivery!Spec


-----------------------------------------------------------------------------
(* A run gets on                                                           *)

(* What is left to do for a network once it is taken up, and for a run: an *)
(* upper bound on the statements and calls that its handler still awaits.  *)
PerNetwork == 2 * Cardinality(RuleIds) + 4

InHand(j) ==
    CASE j.pc = "fetch"   -> 2 * Cardinality(RuleIds) + 3
      [] j.pc = "resolve" -> Cardinality(RuleIds) + 2 + Cardinality(j.pending)
      [] j.pc = "send"    -> 1 + Cardinality(j.reports)
      [] OTHER            -> 0

StepsLeft(j) ==
    IF j.pc \in Ended THEN 0
    ELSE IF j.pc = "list" THEN 2 + PerNetwork * Cardinality(Networks)
    ELSE 1 + PerNetwork * Cardinality(j.todo) + InHand(j)

FewReports(j) ==
    IsFiniteSet(j.reports) /\ Cardinality(j.reports) <= Cardinality(RuleIds)

(* The steps of a run.                                                     *)
Turns(j, k) ==
    \/ k.pc \in Ended /\ k.reports = {}
    \/ j.pc = "list" /\ k.pc = "next" /\ k.todo \subseteq Networks
    \/ /\ j.pc = "next" /\ k.pc \in {"next", "fetch"}
       /\ \E n \in j.todo : k.todo = j.todo \ {n}
    \/ j.pc = "fetch" /\ k.pc = "resolve" /\ k.todo = j.todo /\ k.pending \subseteq RuleIds
    \/ j.pc \in {"fetch", "send"} /\ k.pc = "next" /\ k.todo = j.todo
    \/ /\ j.pc = "resolve" /\ k.pc = "resolve" /\ k.todo = j.todo
       /\ \E i \in j.pending : k.pending = j.pending \ {i}
    \/ /\ j.pc = "resolve" /\ k.pc = "send" /\ k.todo = j.todo
       /\ k.reports = MergeByRecipients(j.network, j.triggered)
    \/ /\ j.pc = "send" /\ k.pc = "send" /\ k.todo = j.todo
       /\ \E report \in j.reports : k.reports = j.reports \ {report}

(* A merge makes no more reports than rules have triggered.                *)
LEMMA MergeIsSmall ==
    ASSUME NEW network, NEW triggered, NEW S, triggered \in Seq(S),
           NEW Ids, IsFiniteSet(Ids),
           \A k, l \in DOMAIN triggered : /\ triggered[k].id \in Ids
                                          /\ k # l => triggered[k].id # triggered[l].id
    PROVE  /\ IsFiniteSet(MergeByRecipients(network, triggered))
           /\ Cardinality(MergeByRecipients(network, triggered)) <= Cardinality(Ids)
<1> DEFINE places(user) == {k \in DOMAIN triggered : UserId(triggered[k]) = user}
           first(user)  == CHOOSE k \in places(user) : \A l \in places(user) : k <= l
           group(user)  == {triggered[k] : k \in places(user)}
           told(user)   == [network_id |-> network,
                            user_id    |-> user,
                            recipients |-> triggered[first(user)].recipients,
                            risk_types |-> UNION {t.vectors : t \in group(user)},
                            threshold  |-> LowerThreshold(group(user)),
                            rules      |-> {t.id : t \in group(user)},
                            authors    |-> {t.user_id : t \in group(user)}]
           users        == {UserId(t) : t \in Range(triggered)}
           reports      == MergeByRecipients(network, triggered)
           n            == Len(triggered)
           report(k)    == told(UserId(triggered[k]))
           mail         == [k \in 1 .. n |-> report(k)]
           id           == [k \in 1 .. n |-> triggered[k].id]
<1>1. reports = {told(user) : user \in users}
  BY DEF MergeByRecipients
<1>2. DOMAIN triggered = 1 .. n /\ n \in Nat
  OBVIOUS
<1>3. Range(triggered) = {triggered[k] : k \in 1 .. n}
  BY <1>2 DEF Range
<1> HIDE DEF told, reports, n
<1>4. reports = {report(k) : k \in 1 .. n}
  BY <1>1, <1>3
<1> HIDE DEF report
<1>5. mail \in Surjection(1 .. n, reports)
  BY <1>4 DEF Surjection
<1>6. id \in Injection(1 .. n, Ids)
  BY <1>2 DEF Injection, IsInjective
<1> HIDE DEF mail, id
<1>7. IsFiniteSet(1 .. n)
  BY <1>2, FS_Interval
<1>8. IsFiniteSet(reports) /\ Cardinality(reports) <= Cardinality(1 .. n)
  BY <1>5, <1>7, FS_Surjection
<1>9. Cardinality(1 .. n) <= Cardinality(Ids)
  BY <1>6, FS_Injection
<1>10. /\ Cardinality(reports) \in Int /\ Cardinality(1 .. n) \in Int
       /\ Cardinality(Ids) \in Int
  BY <1>7, <1>8, FS_CardinalityType
<1>11. Cardinality(reports) <= Cardinality(Ids)
  BY <1>8, <1>9, <1>10
<1> QED
  BY <1>8, <1>11 DEF reports

(* Every step of a handler is one of those turns.                          *)
LEMMA ProgressTurns ==
    ASSUME IInv, NEW h \in Handlers, Progress(h)
    PROVE  Turns(job[h], job'[h])
<1>1. job = [g \in Handlers |-> job[g]] /\ DeliveryOK(h)
  BY DEF IInv
<1>2. /\ IsJob(job[h]) /\ PlaceOK(job[h]) /\ RulesOK(job[h])
  BY <1>1 DEF DeliveryOK
<1>3. CASE ListNetworks(h)
  <2>1. /\ job[h].pc = "list"
        /\ job' = [job EXCEPT ![h].pc = "next", ![h].todo = NetworksWithActiveRules]
    BY <1>3 DEF ListNetworks
  <2>2. job'[h].pc = "next" /\ job'[h].todo = NetworksWithActiveRules
    BY <1>1, <1>2, <2>1 DEF IsJob
  <2>3. NetworksWithActiveRules \subseteq Networks
    BY DEF NetworksWithActiveRules
  <2> QED
    BY <2>1, <2>2, <2>3 DEF Turns
<1>4. CASE LoadRules(h)
  <2> DEFINE j == job[h]
             passed(n) == [j EXCEPT !.todo = j.todo \ {n}]
             taken(n)  == [j EXCEPT !.pc = "fetch", !.todo = j.todo \ {n}, !.network = n,
                                    !.loaded = [i \in ActiveRules(n) |-> rules[i]]]
  <2>1. PICK n \in j.todo :
          job' = [job EXCEPT ![h] = IF j.dates = {} \/ n = Unattributed \/ ActiveRules(n) = {}
                                    THEN passed(n) ELSE taken(n)]
    BY <1>4 DEF LoadRules
  <2>2. j.pc = "next"
    BY <1>4 DEF LoadRules
  <2>3. job'[h] \in {passed(n), taken(n)}
    <3> HIDE DEF passed, taken
    <3> QED
      BY <1>1, <2>1
  <2>4. /\ passed(n).pc = "next" /\ passed(n).todo = j.todo \ {n}
        /\ taken(n).pc = "fetch" /\ taken(n).todo = j.todo \ {n}
    BY <1>2, <2>2 DEF IsJob
  <2> HIDE DEF passed, taken
  <2> QED
    BY <2>2, <2>3, <2>4 DEF Turns
<1>5. CASE Fetch(h)
  <2>1. PICK rows :
          job' = [job EXCEPT ![h].pc = "resolve", ![h].rows = rows,
                             ![h].pending = DOMAIN job[h].loaded]
    BY <1>5 DEF Fetch
  <2>2. job[h].pc = "fetch"
    BY <1>5 DEF Fetch
  <2>3. /\ job'[h].pc = "resolve" /\ job'[h].todo = job[h].todo
        /\ job'[h].pending = DOMAIN job[h].loaded
    BY <1>1, <1>2, <2>1 DEF IsJob
  <2>4. DOMAIN job[h].loaded \subseteq RuleIds
    BY <1>2 DEF RulesOK
  <2> QED
    BY <2>2, <2>3, <2>4 DEF Turns
<1>6. CASE FetchNothing(h) \/ EndNetwork(h)
  <2>1. job[h].pc \in {"fetch", "send"} /\ job' = [job EXCEPT ![h] = Return(job[h])]
    BY <1>6 DEF FetchNothing, EndNetwork
  <2>2. job'[h].pc = "next" /\ job'[h].todo = job[h].todo
    BY <1>1, <1>2, <2>1 DEF IsJob, Return
  <2> QED
    BY <2>1, <2>2 DEF Turns
<1>7. CASE Resolve(h)
  <2> DEFINE rule(i) == job[h].loaded[i]
             vectors(i) == TriggeredVectors(job[h].rows, rule(i))
             hit(i) == [id |-> i, user_id |-> rule(i).user_id, threshold |-> rule(i).threshold,
                        vectors |-> vectors(i), recipients |-> RuleEmailRecipients(rule(i))]
             hits(i) == IF vectors(i) = {} THEN job[h].triggered
                        ELSE Append(job[h].triggered, hit(i))
  <2>1. PICK i \in job[h].pending :
          job' = [job EXCEPT ![h].pending = @ \ {i}, ![h].triggered = hits(i)]
    BY <1>7 DEF Resolve
  <2>2. job[h].pc = "resolve"
    BY <1>7 DEF Resolve
  <2> HIDE DEF hits
  <2>3. /\ job'[h].pc = "resolve" /\ job'[h].todo = job[h].todo
        /\ job'[h].pending = job[h].pending \ {i}
    BY <1>1, <1>2, <2>1, <2>2 DEF IsJob
  <2> QED
    BY <2>2, <2>3 DEF Turns
<1>8. CASE Merge(h)
  <2> DEFINE reports == MergeByRecipients(job[h].network, job[h].triggered)
  <2>1. /\ job[h].pc = "resolve"
        /\ job' = [job EXCEPT ![h].pc = "send", ![h].reports = reports]
    BY <1>8 DEF Merge
  <2> HIDE DEF reports
  <2>2. /\ job'[h].pc = "send" /\ job'[h].todo = job[h].todo /\ job'[h].reports = reports
    BY <1>1, <1>2, <2>1 DEF IsJob
  <2> QED
    BY <2>1, <2>2 DEF Turns, reports
<1>9. CASE Send(h) \/ SendFails(h)
  <2>1. PICK report \in job[h].reports : job' = [job EXCEPT ![h].reports = @ \ {report}]
    BY <1>9 DEF Send, SendFails
  <2>2. job[h].pc = "send"
    BY <1>9 DEF Send, SendFails
  <2>3. /\ job'[h].pc = "send" /\ job'[h].todo = job[h].todo
        /\ job'[h].reports = job[h].reports \ {report}
    BY <1>1, <1>2, <2>1, <2>2 DEF IsJob
  <2> QED
    BY <2>2, <2>3 DEF Turns
<1>10. CASE EndRun(h)
  <2>1. job' = [job EXCEPT ![h] = [NoJob EXCEPT !.pc = "done"]]
    BY <1>10 DEF EndRun, End
  <2>2. job'[h].pc = "done" /\ job'[h].reports = {}
    BY <1>1, <2>1 DEF NoJob
  <2> QED
    BY <2>2 DEF Turns, Ended
<1> QED
  BY <1>3, <1>4, <1>5, <1>6, <1>7, <1>8, <1>9, <1>10 DEF Progress

(* A step of another handler, of an operator or of nobody leaves a run     *)
(* alone; a failing statement and a crash end it; a message begins one     *)
(* where there is none.                                                    *)
LEMMA StepTurns ==
    ASSUME IInv, [Next]_vars, NEW h \in Handlers
    PROVE  \/ job'[h] = job[h]
           \/ Free(h) /\ job'[h].reports = {}
           \/ Turns(job[h], job'[h])
<1>1. job = [g \in Handlers |-> job[g]]
  BY DEF IInv
<1>2. \A outcome : /\ [NoJob EXCEPT !.pc = outcome].pc = outcome
                   /\ [NoJob EXCEPT !.pc = outcome].reports = {}
  BY DEF NoJob
<1>3. CASE Arrive(h)
  <2>1. CASE Receive(h)
    <3>1. PICK event \in Events :
            job' = [job EXCEPT ![h] =
              [NoJob EXCEPT
                !.pc = IF event.namespace = PipelineNamespace THEN "list" ELSE "next",
                !.namespace = event.namespace,
                !.dates = HorizonDates(event.timestamp),
                !.todo = IF event.namespace = PipelineNamespace THEN {} ELSE {event.namespace}]]
      BY <2>1 DEF Receive
    <3>2. job'[h].reports = {}
      BY <1>1, <3>1 DEF NoJob
    <3> QED
      BY <2>1, <3>2 DEF Receive
  <2>2. CASE Ignore(h) \/ RaiseOnTimestamp(h)
    <3>1. PICK outcome \in {"ignored", "raised"} :
            job' = [job EXCEPT ![h] = [NoJob EXCEPT !.pc = outcome]]
      BY <2>2 DEF Ignore, RaiseOnTimestamp, End
    <3>2. job'[h].reports = {}
      BY <1>1, <1>2, <3>1
    <3> QED
      BY <2>2, <3>2 DEF Ignore, RaiseOnTimestamp
  <2> QED
    BY <1>3, <2>1, <2>2 DEF Arrive
<1>4. CASE Progress(h)
  BY <1>4, ProgressTurns
<1>5. CASE RaiseOnDatabase(h)
  <2>1. job' = [job EXCEPT ![h] = [NoJob EXCEPT !.pc = "raised"]]
    BY <1>5 DEF RaiseOnDatabase, End
  <2>2. job'[h].pc = "raised" /\ job'[h].reports = {}
    BY <1>1, <1>2, <2>1
  <2> QED
    BY <2>2 DEF Turns, Ended
<1>6. ASSUME NEW g \in Handlers, g # h, Arrive(g) \/ Progress(g) \/ RaiseOnDatabase(g)
      PROVE  job'[h] = job[h]
  <2>1. Serves(g)
    BY <1>6, DeliveryStep
  <2> QED
    BY <1>1, <1>6, <2>1 DEF Serves
<1>7. CASE \/ \E i \in RuleIds : EditRule(i)
           \/ \E u \in Subs : EditSettings(u)
           \/ UNCHANGED vars
  BY <1>7 DEF EditRule, EditSettings, vars
<1>8. CASE Crash
  <2>1. job'[h] = IF Free(h) THEN job[h] ELSE [NoJob EXCEPT !.pc = "lost"]
    BY <1>8 DEF Crash
  <2> QED
    BY <1>2, <2>1 DEF Turns, Ended
<1> QED
  BY <1>3, <1>4, <1>5, <1>6, <1>7, <1>8 DEF Next

(* A network has no more reports than there are rules.                     *)
LEMMA ReportsAreFew ==
    ASSUME IsFiniteSet(RuleIds)
    PROVE  Spec => [](\A h \in Handlers : FewReports(job[h]))
<1>1. IsFiniteSet({}) /\ Cardinality({}) = 0 /\ Cardinality(RuleIds) \in Nat
  BY FS_EmptySet, FS_CardinalityType
<1>2. Init => \A h \in Handlers : FewReports(job[h])
  <2>1. FewReports(NoJob)
    BY <1>1 DEF NoJob, FewReports
  <2>2. Init => job = [h \in Handlers |-> NoJob]
    BY DEF Init
  <2> QED
    BY <2>1, <2>2
<1>3. ASSUME IInv, \A h \in Handlers : FewReports(job[h]), [Next]_vars,
             NEW h \in Handlers
      PROVE  FewReports(job'[h])
  <2>1. CASE job'[h] = job[h]
    BY <1>3, <2>1
  <2>2. CASE job'[h].reports = {}
    BY <1>1, <2>2 DEF FewReports
  <2>3. CASE job'[h].reports = MergeByRecipients(job[h].network, job[h].triggered)
    <3>1. RulesOK(job[h])
      BY <1>3 DEF IInv, DeliveryOK
    <3>2. PICK S : job[h].triggered \in Seq(S)
      BY <3>1 DEF RulesOK
    <3>3. \A k, l \in DOMAIN job[h].triggered :
            /\ job[h].triggered[k].id \in RuleIds
            /\ k # l => job[h].triggered[k].id # job[h].triggered[l].id
      BY <3>1 DEF RulesOK
    <3> QED
      BY <2>3, <3>2, <3>3, MergeIsSmall DEF FewReports
  <2>4. CASE \E report \in job[h].reports : job'[h].reports = job[h].reports \ {report}
    <3>1. PICK report \in job[h].reports : job'[h].reports = job[h].reports \ {report}
      BY <2>4
    <3>2. IsFiniteSet(job[h].reports) /\ Cardinality(job[h].reports) <= Cardinality(RuleIds)
      BY <1>3 DEF FewReports
    <3>3. /\ IsFiniteSet(job'[h].reports)
          /\ Cardinality(job'[h].reports) = Cardinality(job[h].reports) - 1
      BY <3>1, <3>2, FS_RemoveElement
    <3>4. Cardinality(job[h].reports) \in Nat
      BY <3>2, FS_CardinalityType
    <3> QED
      BY <1>1, <3>2, <3>3, <3>4 DEF FewReports
  <2>5. job'[h].pc # "send" => job'[h].reports = {}
    BY <1>3, NextIs DEF IInv, DeliveryOK, ReportsOK
  <2>6. \/ job'[h] = job[h]
        \/ job'[h].reports = {}
        \/ Turns(job[h], job'[h])
    BY <1>3, StepTurns
  <2> QED
    BY <2>1, <2>2, <2>3, <2>4, <2>5, <2>6 DEF Turns
<1>4. /\ IInv /\ \A h \in Handlers : FewReports(job[h])
      /\ [Next]_vars
      => (\A h \in Handlers : FewReports(job[h]))'
  BY <1>3
<1> QED
  BY <1>2, <1>4, Invariance, PTL DEF Spec

(* The bound is a number, and every turn of a run brings it down.          *)
LEMMA TurnsShorten ==
    ASSUME IsFiniteSet(RuleIds), IsFiniteSet(Networks),
           NEW j, NEW k, PlaceOK(j), RulesOK(j), FewReports(j), j.pc \notin Ended, Turns(j, k),
           FewReports(k)
    PROVE  StepsLeft(j) \in Nat /\ StepsLeft(k) \in Nat /\ StepsLeft(k) < StepsLeft(j)
<1> DEFINE r == Cardinality(RuleIds)
           n == Cardinality(Networks)
           p == PerNetwork
           t(x) == Cardinality(x.todo)
<1>1. r \in Nat /\ n \in Nat /\ p \in Nat /\ p = 2 * r + 4
  BY FS_CardinalityType DEF PerNetwork
<1>2. IsFiniteSet(Places)
  BY FS_AddElement DEF Places
<1>3. IsFiniteSet(j.todo) /\ t(j) \in Nat
  <2>1. j.todo \in SUBSET Places
    BY DEF PlaceOK
  <2>2. IsFiniteSet(j.todo)
    BY <1>2, <2>1, FS_Subset
  <2> QED
    BY <2>2, FS_CardinalityType
<1>4. ASSUME NEW ids, ids \subseteq RuleIds
      PROVE  IsFiniteSet(ids) /\ Cardinality(ids) \in Nat /\ Cardinality(ids) <= r
  <2>1. IsFiniteSet(ids) /\ Cardinality(ids) <= r
    BY <1>4, FS_Subset
  <2> QED
    BY <2>1, FS_CardinalityType
<1>5. j.pending \subseteq RuleIds
  BY DEF RulesOK
<1>6. /\ IsFiniteSet(j.reports) /\ Cardinality(j.reports) \in Nat
      /\ IsFiniteSet(k.reports) /\ Cardinality(k.reports) \in Nat
      /\ Cardinality(k.reports) <= r
  BY FS_CardinalityType DEF FewReports
<1>7. Cardinality(j.pending) \in Nat /\ IsFiniteSet(j.pending)
  BY <1>4, <1>5
<1>8. ASSUME NEW a \in Nat, NEW b \in Nat, a <= b
      PROVE  p * a \in Nat /\ p * a <= p * b
  BY <1>1, <1>8
<1>9. ASSUME NEW a \in Nat, a # 0
      PROVE  a - 1 \in Nat /\ p * (a - 1) = p * a - p
  BY <1>1, <1>9
<1> HIDE DEF r, p
<1>10. p * t(j) \in Nat /\ p * n \in Nat
  BY <1>1, <1>3, <1>8
<1>11. /\ "list" \notin Ended /\ "next" \notin Ended /\ "fetch" \notin Ended
       /\ "resolve" \notin Ended /\ "send" \notin Ended
  BY DEF Ended
<1>12. ASSUME NEW x
       PROVE  /\ x.pc = "list" => StepsLeft(x) = 2 + p * n
              /\ x.pc = "next" => StepsLeft(x) = 1 + p * t(x) + 0
              /\ x.pc = "fetch" => StepsLeft(x) = 1 + p * t(x) + (2 * r + 3)
              /\ x.pc = "resolve" =>
                   StepsLeft(x) = 1 + p * t(x) + (r + 2 + Cardinality(x.pending))
              /\ x.pc = "send" => StepsLeft(x) = 1 + p * t(x) + (1 + Cardinality(x.reports))
              /\ x.pc \in Ended => StepsLeft(x) = 0
  <2>1. /\ x.pc = "next" => InHand(x) = 0
        /\ x.pc = "fetch" => InHand(x) = 2 * r + 3
        /\ x.pc = "resolve" => InHand(x) = r + 2 + Cardinality(x.pending)
        /\ x.pc = "send" => InHand(x) = 1 + Cardinality(x.reports)
    BY DEF InHand, r
  <2>2. x.pc \in Ended => StepsLeft(x) = 0
    BY DEF StepsLeft
  <2>3. x.pc = "list" => StepsLeft(x) = 2 + p * n
    BY <1>11 DEF StepsLeft, p
  <2>4. x.pc \in {"next", "fetch", "resolve", "send"} =>
          StepsLeft(x) = 1 + p * t(x) + InHand(x)
    BY <1>11 DEF StepsLeft, p
  <2> QED
    BY <2>1, <2>2, <2>3, <2>4
<1>13. j.pc \in {"list", "next", "fetch", "resolve", "send"}
  BY DEF PlaceOK, Running
<1> HIDE DEF n, t
<1>14. StepsLeft(j) \in Nat /\ StepsLeft(j) > 0
  BY <1>1, <1>6, <1>7, <1>10, <1>12, <1>13
<1>15. CASE k.pc \in Ended
  BY <1>12, <1>14, <1>15
<1>16. CASE j.pc = "list" /\ k.pc = "next" /\ k.todo \subseteq Networks
  <2>1. t(k) \in Nat /\ t(k) <= n
    <3>1. IsFiniteSet(k.todo) /\ Cardinality(k.todo) <= n
      BY <1>16, FS_Subset DEF n
    <3> QED
      BY <3>1, FS_CardinalityType DEF t
  <2>2. p * t(k) \in Nat /\ p * t(k) <= p * n
    BY <1>1, <1>8, <2>1
  <2> QED
    BY <1>10, <1>12, <1>16, <2>2
<1>17. CASE /\ j.pc = "next" /\ k.pc \in {"next", "fetch"}
            /\ \E m \in j.todo : k.todo = j.todo \ {m}
  <2>1. t(k) = t(j) - 1 /\ t(j) # 0
    <3>1. PICK m \in j.todo : k.todo = j.todo \ {m}
      BY <1>17
    <3>2. Cardinality(k.todo) = Cardinality(j.todo) - 1
      BY <1>3, <3>1, FS_RemoveElement
    <3>3. Cardinality(j.todo) # 0
      BY <1>3, <3>1, FS_EmptySet
    <3> QED
      BY <3>2, <3>3 DEF t
  <2>2. t(k) \in Nat /\ p * t(k) = p * t(j) - p /\ p * t(k) \in Nat
    BY <1>1, <1>3, <1>8, <1>9, <2>1
  <2> QED
    BY <1>1, <1>10, <1>12, <1>17, <2>2
<1>18. CASE j.pc = "fetch" /\ k.pc = "resolve" /\ k.todo = j.todo /\ k.pending \subseteq RuleIds
  <2>1. t(k) = t(j) /\ Cardinality(k.pending) \in Nat /\ Cardinality(k.pending) <= r
    BY <1>4, <1>18 DEF t
  <2> QED
    BY <1>1, <1>10, <1>12, <1>18, <2>1
<1>19. CASE j.pc \in {"fetch", "send"} /\ k.pc = "next" /\ k.todo = j.todo
  <2>1. t(k) = t(j)
    BY <1>19 DEF t
  <2> QED
    BY <1>1, <1>6, <1>10, <1>12, <1>19, <2>1
<1>20. CASE /\ j.pc = "resolve" /\ k.pc = "resolve" /\ k.todo = j.todo
            /\ \E i \in j.pending : k.pending = j.pending \ {i}
  <2>1. t(k) = t(j)
    BY <1>20 DEF t
  <2>2. Cardinality(k.pending) = Cardinality(j.pending) - 1 /\ Cardinality(j.pending) # 0
    <3>1. PICK i \in j.pending : k.pending = j.pending \ {i}
      BY <1>20
    <3> QED
      BY <1>7, <3>1, FS_RemoveElement, FS_EmptySet
  <2>3. Cardinality(k.pending) \in Nat
    BY <1>7, <2>2
  <2>4. p * t(k) = p * t(j)
    BY <2>1
  <2>5. /\ StepsLeft(j) = 1 + p * t(j) + (r + 2 + Cardinality(j.pending))
        /\ StepsLeft(k) = 1 + p * t(j) + (r + 2 + Cardinality(k.pending))
    BY <1>12, <1>20, <2>4
  <2> QED
    BY <1>1, <1>7, <1>10, <2>2, <2>3, <2>5
<1>21. CASE j.pc = "resolve" /\ k.pc = "send" /\ k.todo = j.todo
  <2>1. t(k) = t(j)
    BY <1>21 DEF t
  <2> QED
    BY <1>1, <1>6, <1>7, <1>10, <1>12, <1>21, <2>1
<1>22. CASE /\ j.pc = "send" /\ k.pc = "send" /\ k.todo = j.todo
            /\ \E report \in j.reports : k.reports = j.reports \ {report}
  <2>1. t(k) = t(j)
    BY <1>22 DEF t
  <2>2. Cardinality(k.reports) = Cardinality(j.reports) - 1
    <3>1. PICK report \in j.reports : k.reports = j.reports \ {report}
      BY <1>22
    <3> QED
      BY <1>6, <3>1, FS_RemoveElement
  <2>3. p * t(k) = p * t(j)
    BY <2>1
  <2>4. /\ StepsLeft(j) = 1 + p * t(j) + (1 + Cardinality(j.reports))
        /\ StepsLeft(k) = 1 + p * t(j) + (1 + Cardinality(k.reports))
    BY <1>12, <1>22, <2>3
  <2> QED
    BY <1>6, <1>10, <2>2, <2>4
<1> QED
  BY <1>15, <1>16, <1>17, <1>18, <1>19, <1>20, <1>21, <1>22 DEF Turns

(* Nothing sends a run back: whatever step is taken, by whomever, a run    *)
(* that is under way is left alone or comes nearer its end, and each step  *)
(* of its own handler brings it nearer. A run of all networks awaits at    *)
(* most 2 + |Networks| * (2 * |RuleIds| + 4) times, however many fetches   *)
(* and sends fail. This is what EveryRunEnds rests on, with the fairness   *)
(* that lets a handler take its next step.                                 *)
GetsOn(h) ==
    /\ ~Free(h) => \/ job'[h] = job[h]
                   \/ StepsLeft(job'[h]) \in Nat /\ StepsLeft(job'[h]) < StepsLeft(job[h])
    /\ Progress(h) => StepsLeft(job'[h]) \in Nat /\ StepsLeft(job'[h]) < StepsLeft(job[h])

(* Every step of every behaviour is such a step, for any number of rules, *)
(* networks and deliveries.                                                *)
THEOREM RunsGetOn ==
    ASSUME IsFiniteSet(RuleIds), IsFiniteSet(Networks)
    PROVE  Spec => [][\A h \in Handlers : GetsOn(h)]_vars
<1> DEFINE Few == \A h \in Handlers : FewReports(job[h])
<1>1. ASSUME IInv, Few, Few', [Next]_vars, NEW h \in Handlers
      PROVE  GetsOn(h)
  <2>1. PlaceOK(job[h]) /\ RulesOK(job[h]) /\ FewReports(job[h]) /\ FewReports(job'[h])
    BY <1>1 DEF IInv, DeliveryOK
  <2>2. ASSUME ~Free(h), Turns(job[h], job'[h])
        PROVE  StepsLeft(job'[h]) \in Nat /\ StepsLeft(job'[h]) < StepsLeft(job[h])
    <3>1. job[h].pc \notin Ended
      BY <2>2 DEF Free
    <3> QED
      BY <2>1, <2>2, <3>1, TurnsShorten
  <2>3. Progress(h) => ~Free(h)
    BY DEF Progress, ListNetworks, LoadRules, Fetch, FetchNothing, Resolve, Merge, Send,
           SendFails, EndNetwork, EndRun, Free, Ended
  <2>4. Progress(h) => Turns(job[h], job'[h])
    BY <1>1, ProgressTurns
  <2>5. ~Free(h) => job'[h] = job[h] \/ Turns(job[h], job'[h])
    BY <1>1, StepTurns
  <2> QED
    BY <2>2, <2>3, <2>4, <2>5 DEF GetsOn
<1>2. IInv /\ Few /\ Few' /\ [Next]_vars => [\A h \in Handlers : GetsOn(h)]_vars
  BY <1>1
<1>3. Spec => []Few
  BY ReportsAreFew
<1> HIDE DEF Few
<1> QED
  BY <1>2, <1>3, Invariance, PTL DEF Spec


-----------------------------------------------------------------------------
(* The dispatcher and the endpoints                                        *)

(* What the dispatcher lives beside is the table that AlertRules           *)
(* implements: all that operators do to it here are steps of RuleRegistry, *)
(* and no delivery writes it. So what is shown of the deliveries holds     *)
(* beside the endpoints as they are.                                       *)
THEOREM LivesBesideRegistry == Spec => Registry!Spec
<1>1. Init => Registry!Init
  <2>1. RuleVersions \subseteq AlertRule
    BY DispatchAssumption
  <2>2. Init => /\ rules \in [RuleIds -> RuleVersions \cup {NoRow}]
                /\ issued = {i \in RuleIds : rules[i] # NoRow}
    BY DEF Init
  <2>3. rules \in [RuleIds -> RuleVersions \cup {NoRow}]
          => rules \in [RuleIds -> AlertRule \cup {NoRow}]
    BY <2>1
  <2> QED
    BY <2>2, <2>3, SameRows DEF Registry!Init
<1>2. [Next]_vars => [Registry!Next]_Registry!vars
  <2> SUFFICES ASSUME [Next]_vars PROVE Registry!Next \/ UNCHANGED <<rules, issued>>
    BY DEF Registry!vars
  <2>1. CASE \E i \in RuleIds : EditRule(i)
    BY <2>1 DEF EditRule, Registry!Next
  <2>2. CASE UNCHANGED vars
    BY <2>2 DEF vars
  <2>3. CASE \E u \in Subs : EditSettings(u)
    BY <2>3 DEF EditSettings
  <2>4. CASE Crash
    BY <2>4 DEF Crash, tables
  <2>5. ASSUME NEW h \in Handlers, Arrive(h) \/ Progress(h) \/ RaiseOnDatabase(h)
        PROVE  UNCHANGED tables
    BY <2>5 DEF Arrive, Ignore, RaiseOnTimestamp, Receive, Progress, ListNetworks, LoadRules,
                Fetch, FetchNothing, Resolve, Merge, Send, SendFails, EndNetwork, EndRun,
                RaiseOnDatabase
  <2>6. CASE \E h \in Handlers : Arrive(h) \/ Progress(h) \/ RaiseOnDatabase(h)
    BY <2>5, <2>6 DEF tables
  <2> QED
    BY <2>1, <2>2, <2>3, <2>4, <2>6 DEF Next
<1> QED
  BY <1>1, <1>2, PTL DEF Spec, Registry!Spec

(* A timestamp of the shape of a date that is none is all that cancels a   *)
(* run at its start: TimestampNeverCancels, which the code violates, holds *)
(* when no message carries one.                                            *)
THEOREM OnlyImpossibleTimestampsCancel ==
    ASSUME \A event \in Events : event.timestamp # "impossible"
    PROVE  Spec => TimestampNeverCancels
<1>1. ASSUME IInv, [Next]_vars, NEW h \in Handlers, Free(h)
      PROVE  job'[h].pc # "raised" \/ job[h].pc = "raised"
  <2>1. job = [g \in Handlers |-> job[g]]
    BY <1>1 DEF IInv
  <2>2. ~RaiseOnTimestamp(h)
    BY DEF RaiseOnTimestamp
  <2>3. ~Progress(h) /\ ~RaiseOnDatabase(h)
    BY <1>1 DEF Progress, ListNetworks, LoadRules, Fetch, FetchNothing, Resolve, Merge, Send,
                SendFails, EndNetwork, EndRun, RaiseOnDatabase, Free, Ended
  <2>4. CASE Ignore(h)
    <3>1. job' = [job EXCEPT ![h] = [NoJob EXCEPT !.pc = "ignored"]]
      BY <2>4 DEF Ignore, End
    <3>2. job'[h].pc = "ignored"
      BY <2>1, <3>1 DEF NoJob
    <3> QED
      BY <3>2
  <2>5. CASE Receive(h)
    <3>1. PICK event \in Events :
            job' = [job EXCEPT ![h] =
              [NoJob EXCEPT
                !.pc = IF event.namespace = PipelineNamespace THEN "list" ELSE "next",
                !.namespace = event.namespace,
                !.dates = HorizonDates(event.timestamp),
                !.todo = IF event.namespace = PipelineNamespace THEN {} ELSE {event.namespace}]]
      BY <2>5 DEF Receive
    <3>2. job'[h].pc \in {"list", "next"}
      BY <2>1, <3>1 DEF NoJob
    <3> QED
      BY <3>2
  <2>6. ASSUME NEW g \in Handlers, g # h, Arrive(g) \/ Progress(g) \/ RaiseOnDatabase(g)
        PROVE  job'[h] = job[h]
    <3>1. Serves(g)
      BY <1>1, <2>6, DeliveryStep
    <3> QED
      BY <2>1, <2>6, <3>1 DEF Serves
  <2>7. CASE Crash
    BY <1>1, <2>7 DEF Crash
  <2>8. CASE \/ \E i \in RuleIds : EditRule(i)
             \/ \E u \in Subs : EditSettings(u)
             \/ UNCHANGED vars
    BY <2>8 DEF EditRule, EditSettings, vars
  <2>9. \/ \E g \in Handlers : g # h /\ (Arrive(g) \/ Progress(g) \/ RaiseOnDatabase(g))
        \/ Ignore(h) \/ Receive(h)
        \/ \/ \E i \in RuleIds : EditRule(i)
           \/ \E u \in Subs : EditSettings(u)
           \/ UNCHANGED vars
        \/ Crash
    BY <1>1, <2>2, <2>3 DEF Next, Arrive
  <2> QED
    BY <2>4, <2>5, <2>6, <2>7, <2>8, <2>9
<1>2. IInv /\ [Next]_vars
      => [\A h \in Handlers : Free(h) => job'[h].pc # "raised" \/ job[h].pc = "raised"]_vars
  BY <1>1
<1> QED
  BY <1>2, Invariance, PTL DEF Spec, TimestampNeverCancels
=============================================================================
