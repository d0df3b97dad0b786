---------------------- MODULE AlertDispatchHistoryProofs ----------------------
(***************************************************************************)
(* Theorems about what a run says, and what its tables held meanwhile, for *)
(* any rules, settings, messages, answers of the Digital Twin and numbers  *)
(* of deliveries.                                                          *)
(*                                                                         *)
(* The argument: what a delivery holds of the rules was active when it was *)
(* read; a rule that was active all along is active whenever a network is  *)
(* listed or looked at, so its network is still to do or was asked for;    *)
(* and a hazard that the rows call for goes from the rows to a triggered   *)
(* rule, from there to a report, and from there to what was told.          *)
(***************************************************************************)
EXTENDS AlertDispatchHistory, AlertDispatchProofs

-----------------------------------------------------------------------------
(* The logs                                                                *)

(* What a log holds after a step, by what the step does to the delivery.   *)
Logs(h, log, next, entry) ==
    /\ ~Free(h) => next = log \cup entry
    /\ Free(h) /\ job'[h].pc \in Running => next = entry
    /\ Free(h) /\ job'[h] = job[h] /\ sent'[h] = sent[h] => next = log
    /\ Free(h) /\ job'[h].pc \notin Running /\ ~(job'[h] = job[h] /\ sent'[h] = sent[h]) => next = {}

Handed(h) == IF job'[h].pc = "send" THEN job[h].reports \ job'[h].reports ELSE {}

(* A run that is under way has not ended.                                  *)
LEMMA RunningIsNotEnded == ASSUME NEW pc PROVE ~(pc \in Running /\ pc \in Ended)
  BY DEF Running, Ended

(* What a step adds to the logs of a run, or starts them with.             *)
LEMMA LogsGrow ==
    ASSUME HNext, NEW h \in Handlers
    PROVE  /\ Logs(h, stirred[h], stirred'[h], Active')
           /\ Logs(h, calm[h], calm'[h], RuleIds \ Active')
           /\ Logs(h, lists[h], lists'[h], Lists')
           /\ Logs(h, asked[h], asked'[h], {job'[h].network} \ {Null})
           /\ Logs(h, due[h], due'[h], CalledFor(job'[h]))
           /\ Logs(h, told[h], told'[h], Handed(h))
           /\ scope'[h] = IF job'[h].pc \in Running THEN job'[h].namespace ELSE scope[h]
<1>1. Free(h) => job[h].pc \notin Running
  BY RunningIsNotEnded DEF Free
<1>2. Logs(h, stirred[h], stirred'[h], Active')
  BY <1>1 DEF HNext, Log, Logs
<1>3. Logs(h, calm[h], calm'[h], RuleIds \ Active')
  BY <1>1 DEF HNext, Log, Logs
<1>4. Logs(h, lists[h], lists'[h], Lists')
  BY <1>1 DEF HNext, Log, Logs
<1>5. Logs(h, asked[h], asked'[h], {job'[h].network} \ {Null})
  BY <1>1 DEF HNext, Log, Logs
<1>6. Logs(h, due[h], due'[h], CalledFor(job'[h]))
  BY <1>1 DEF HNext, Log, Logs
<1>7. Logs(h, told[h], told'[h], Handed(h))
  BY <1>1 DEF HNext, Log, Logs, Handed
<1> QED
  BY <1>2, <1>3, <1>4, <1>5, <1>6, <1>7 DEF HNext

-----------------------------------------------------------------------------
(* What each step does to the fields of a delivery                         *)

Fresh(j) ==
    /\ j.network = Null /\ j.loaded = <<>> /\ j.rows = {} /\ j.pending = {}
    /\ j.triggered = <<>> /\ j.reports = {}

(* A message, whatever becomes of it.                                      *)
LEMMA ArriveDoes ==
    ASSUME IInv, NEW h \in Handlers, Arrive(h)
    PROVE  /\ Free(h) /\ UNCHANGED tables /\ sent'[h] = <<>>
           /\ Fresh(job'[h])
           /\ \/ job'[h].pc \in {"ignored", "raised"}
              \/ /\ job'[h].pc = "list" /\ job'[h].namespace = PipelineNamespace
                 /\ job'[h].dates # {}
              \/ /\ job'[h].pc = "next" /\ job'[h].dates # {}
                 /\ job'[h].namespace \in Places
                 /\ job'[h].todo = {job'[h].namespace}
<1>1. CASE Ignore(h) \/ RaiseOnTimestamp(h)
  <2>1. PICK outcome \in {"ignored", "raised"} : End(h, outcome)
    BY <1>1 DEF Ignore, RaiseOnTimestamp
  <2>2. job'[h] = [NoJob EXCEPT !.pc = outcome]
    BY <2>1 DEF End, IInv
  <2>3. Fresh(job'[h]) /\ job'[h].pc = outcome
    BY <2>2 DEF NoJob, Fresh
  <2> QED
    BY <1>1, <2>3 DEF Ignore, RaiseOnTimestamp, IInv
<1>2. CASE Receive(h)
  <2>1. PICK event \in Events :
        job' = [job EXCEPT ![h] =
              [NoJob EXCEPT
                !.pc = IF event.namespace = PipelineNamespace THEN "list" ELSE "next",
                !.namespace = event.namespace,
                !.dates = HorizonDates(event.timestamp),
                !.todo = IF event.namespace = PipelineNamespace THEN {} ELSE {event.namespace}]]
    BY <1>2 DEF Receive
  <2> DEFINE start == IF event.namespace = PipelineNamespace THEN "list" ELSE "next"
             todo  == IF event.namespace = PipelineNamespace THEN {} ELSE {event.namespace}
             dates == HorizonDates(event.timestamp)
             j == [NoJob EXCEPT !.pc = start, !.namespace = event.namespace, !.dates = dates,
                                !.todo = todo]
  <2>2. job'[h] = j
    BY <2>1 DEF IInv
  <2>3. dates # {}
    <3> DEFINE first == IF event.timestamp = "readable" THEN RunDay ELSE Today
               days  == IF HorizonDays > 1 THEN HorizonDays ELSE 1
    <3>1. first \in Int /\ days \in Int /\ days >= 1
      BY DispatchAssumption
    <3> HIDE DEF first, days
    <3>2. first \in first .. first + days - 1
      BY <3>1
    <3>3. dates = first .. first + days - 1
      BY DEF HorizonDates, first, days
    <3> QED
      BY <3>2, <3>3
  <2>4. event.namespace \in Places \cup {PipelineNamespace}
    BY DispatchAssumption DEF Event, Places
  <2>5. \/ start = "list" /\ event.namespace = PipelineNamespace
        \/ start = "next" /\ event.namespace \in Places /\ todo = {event.namespace}
    BY <2>4
  <2> HIDE DEF start, todo, dates
  <2>6. /\ Fresh(j) /\ j.pc = start /\ j.namespace = event.namespace /\ j.dates = dates
        /\ j.todo = todo
    BY DEF NoJob, Fresh
  <2> HIDE DEF j
  <2> QED
    BY <1>2, <2>2, <2>3, <2>5, <2>6 DEF Receive, IInv
<1> QED
  BY <1>1, <1>2 DEF Arrive

(* A run that is over, for any reason but the process.                     *)
LEMMA EndDoes ==
    ASSUME IInv, NEW h \in Handlers, EndRun(h) \/ RaiseOnDatabase(h)
    PROVE  /\ UNCHANGED tables /\ sent'[h] = sent[h] /\ Fresh(job'[h])
           /\ \/ job'[h].pc = "raised"
              \/ job'[h].pc = "done" /\ job[h].pc = "next" /\ job[h].todo = {}
<1>1. PICK outcome \in {"done", "raised"} :
        /\ End(h, outcome) /\ UNCHANGED <<tables, sent>>
        /\ outcome = "done" => job[h].pc = "next" /\ job[h].todo = {}
  BY DEF EndRun, RaiseOnDatabase
<1>2. job'[h] = [NoJob EXCEPT !.pc = outcome]
  BY <1>1 DEF End, IInv
<1>3. Fresh(job'[h]) /\ job'[h].pc = outcome
  BY <1>2 DEF NoJob, Fresh
<1> QED
  BY <1>1, <1>3

(* A run without a network takes up every network that has active rules,   *)
(* and nothing else changes in it.                                         *)
LEMMA ListNetworksDoes ==
    ASSUME IInv, NEW h \in Handlers, ListNetworks(h)
    PROVE  /\ UNCHANGED tables /\ sent'[h] = sent[h]
           /\ job[h].pc = "list" /\ job'[h].pc = "next"
           /\ job'[h].todo = NetworksWithActiveRules
           /\ job'[h].namespace = job[h].namespace /\ job'[h].dates = job[h].dates
           /\ job'[h].network = job[h].network /\ job'[h].loaded = job[h].loaded
           /\ job'[h].rows = job[h].rows /\ job'[h].pending = job[h].pending
           /\ job'[h].triggered = job[h].triggered /\ job'[h].reports = job[h].reports
<1> DEFINE networks == NetworksWithActiveRules
           j == [[job[h] EXCEPT !.pc = "next"] EXCEPT !.todo = networks]
<1>1. DeliveryOK(h) /\ job[h].pc = "list" /\ UNCHANGED tables /\ sent' = sent
  BY DEF IInv, ListNetworks
<1>2. job'[h] = j
  BY DEF ListNetworks, IInv
<1> HIDE DEF networks
<1>3. /\ j.pc = "next" /\ j.todo = networks
      /\ j.namespace = job[h].namespace /\ j.dates = job[h].dates
      /\ j.network = job[h].network /\ j.loaded = job[h].loaded
      /\ j.rows = job[h].rows /\ j.pending = job[h].pending
      /\ j.triggered = job[h].triggered /\ j.reports = job[h].reports
  BY <1>1 DEF DeliveryOK, IsJob
<1> HIDE DEF j
<1> QED
  BY <1>1, <1>2, <1>3 DEF networks


(* The next network of the run is passed over, or its rules are loaded.    *)
LEMMA LoadRulesDoes ==
    ASSUME IInv, NEW h \in Handlers, LoadRules(h)
    PROVE  /\ UNCHANGED tables /\ sent'[h] = sent[h] /\ job[h].pc = "next"
           /\ job'[h].namespace = job[h].namespace /\ job'[h].dates = job[h].dates
           /\ job'[h].rows = job[h].rows /\ job'[h].pending = job[h].pending
           /\ job'[h].triggered = job[h].triggered /\ job'[h].reports = job[h].reports
           /\ \E n \in job[h].todo :
                /\ job'[h].todo = job[h].todo \ {n}
                /\ \/ /\ job'[h].pc = "next" /\ job'[h].network = job[h].network
                      /\ job'[h].loaded = job[h].loaded
                      /\ job[h].dates = {} \/ n = Unattributed \/ ActiveRules(n) = {}
                   \/ /\ job'[h].pc = "fetch" /\ job'[h].network = n /\ n \in Networks
                      /\ job'[h].loaded = [i \in ActiveRules(n) |-> rules[i]]
<1>1. PICK n \in job[h].todo :
         job' = [job EXCEPT ![h] =
           IF job[h].dates = {} \/ n = Unattributed \/ ActiveRules(n) = {}
           THEN [job[h] EXCEPT !.todo = job[h].todo \ {n}]
           ELSE [job[h] EXCEPT !.pc = "fetch", !.todo = job[h].todo \ {n}, !.network = n,
                               !.loaded = [i \in ActiveRules(n) |-> rules[i]]]]
  BY DEF LoadRules
<1>2. DeliveryOK(h) /\ job[h].pc = "next" /\ UNCHANGED tables /\ sent' = sent
  BY DEF IInv, LoadRules
<1> DEFINE loaded == [i \in ActiveRules(n) |-> rules[i]]
           over   == job[h].dates = {} \/ n = Unattributed \/ ActiveRules(n) = {}
           passed == [job[h] EXCEPT !.todo = job[h].todo \ {n}]
           taken  == [[[passed EXCEPT !.pc = "fetch"] EXCEPT !.network = n] EXCEPT !.loaded = loaded]
<1>3. /\ passed.pc = "next" /\ passed.network = job[h].network
      /\ passed.todo = job[h].todo \ {n}
      /\ passed.namespace = job[h].namespace /\ passed.dates = job[h].dates
      /\ passed.loaded = job[h].loaded /\ passed.rows = job[h].rows
      /\ passed.pending = job[h].pending /\ passed.triggered = job[h].triggered
      /\ passed.reports = job[h].reports /\ IsJob(passed)
  BY <1>2 DEF DeliveryOK, IsJob
<1>4. CASE over
  <2>1. job'[h] = passed
    BY <1>1, <1>4 DEF IInv
  <2> HIDE DEF passed, taken
  <2> QED
    BY <1>2, <1>3, <1>4, <2>1
<1>5. CASE ~over
  <2>1. job'[h] = taken
    <3>1. taken = [job[h] EXCEPT !.pc = "fetch", !.todo = job[h].todo \ {n}, !.network = n,
                                 !.loaded = loaded]
      BY <1>2 DEF DeliveryOK, IsJob
    <3> HIDE DEF taken
    <3> QED
      BY <1>1, <1>5, <3>1 DEF IInv
  <2>2. n \in Networks
    BY <1>2, <1>5 DEF DeliveryOK, PlaceOK, Places
  <2> HIDE DEF passed, loaded
  <2>3. /\ taken.pc = "fetch" /\ taken.network = n /\ taken.loaded = loaded
        /\ taken.todo = passed.todo
        /\ taken.namespace = passed.namespace /\ taken.dates = passed.dates
        /\ taken.rows = passed.rows /\ taken.pending = passed.pending
        /\ taken.triggered = passed.triggered /\ taken.reports = passed.reports
    BY <1>3 DEF IsJob
  <2> HIDE DEF taken
  <2> QED
    BY <1>2, <1>3, <2>1, <2>2, <2>3 DEF loaded
<1> QED
  BY <1>4, <1>5

(* The network in hand is put down, with all that was found about it.      *)
LEMMA ReturnDoes ==
    ASSUME IInv, NEW h \in Handlers, FetchNothing(h) \/ EndNetwork(h)
    PROVE  /\ UNCHANGED tables /\ sent'[h] = sent[h]
           /\ job[h].pc = "fetch" \/ (job[h].pc = "send" /\ job[h].reports = {})
           /\ job'[h].pc = "next" /\ Fresh(job'[h]) /\ job'[h].todo = job[h].todo
           /\ job'[h].namespace = job[h].namespace /\ job'[h].dates = job[h].dates
<1>1. /\ job'[h] = Return(job[h]) /\ UNCHANGED tables /\ sent' = sent /\ DeliveryOK(h)
      /\ job[h].pc = "fetch" \/ (job[h].pc = "send" /\ job[h].reports = {})
  BY DEF FetchNothing, EndNetwork, IInv
<1>2. /\ Return(job[h]).pc = "next" /\ Fresh(Return(job[h]))
      /\ Return(job[h]).todo = job[h].todo /\ Return(job[h]).namespace = job[h].namespace
      /\ Return(job[h]).dates = job[h].dates
  BY <1>1 DEF DeliveryOK, IsJob, Return, Fresh
<1> QED
  BY <1>1, <1>2

(* The rows that the Digital Twin holds, or as many as it returns.         *)
LEMMA FetchDoes ==
    ASSUME IInv, NEW h \in Handlers, Fetch(h)
    PROVE  /\ UNCHANGED tables /\ sent'[h] = sent[h]
           /\ job[h].pc = "fetch" /\ job'[h].pc = "resolve"
           /\ job'[h].todo = job[h].todo /\ job'[h].namespace = job[h].namespace
           /\ job'[h].dates = job[h].dates /\ job'[h].network = job[h].network
           /\ job'[h].loaded = job[h].loaded /\ job'[h].pending = DOMAIN job[h].loaded
           /\ job'[h].triggered = job[h].triggered /\ job'[h].reports = job[h].reports
           /\ \A row \in job'[h].rows : row.km_alert \in Nat /\ row.km_warning \in Nat
<1>1. PICK held \in Exposures : \E rows \in SUBSET held :
        job' = [job EXCEPT ![h].pc = "resolve", ![h].rows = rows,
                           ![h].pending = DOMAIN job[h].loaded]
  BY DEF Fetch
<1>2. PICK rows \in SUBSET held :
        job' = [job EXCEPT ![h].pc = "resolve", ![h].rows = rows,
                           ![h].pending = DOMAIN job[h].loaded]
  BY <1>1
<1>3. DeliveryOK(h) /\ job[h].pc = "fetch" /\ UNCHANGED tables /\ sent' = sent
  BY DEF IInv, Fetch
<1> DEFINE j == [[[job[h] EXCEPT !.pc = "resolve"] EXCEPT !.rows = rows]
                    EXCEPT !.pending = DOMAIN job[h].loaded]
<1>4. job'[h] = j
  BY <1>2, <1>3 DEF IInv, DeliveryOK, IsJob
<1>5. /\ j.pc = "resolve" /\ j.todo = job[h].todo /\ j.namespace = job[h].namespace
      /\ j.dates = job[h].dates /\ j.network = job[h].network
      /\ j.loaded = job[h].loaded /\ j.pending = DOMAIN job[h].loaded
      /\ j.triggered = job[h].triggered /\ j.reports = job[h].reports /\ j.rows = rows
  BY <1>3 DEF DeliveryOK, IsJob
<1> HIDE DEF j
<1>6. \A row \in rows : row.km_alert \in Nat /\ row.km_warning \in Nat
  BY DispatchAssumption
<1> QED
  BY <1>3, <1>4, <1>5, <1>6

(* One rule is looked at: what it watches and the rows call for, if any,   *)
(* and whom it tells.                                                      *)
Hit(j, i) ==
    [id         |-> i,
     user_id    |-> j.loaded[i].user_id,
     threshold  |-> j.loaded[i].threshold,
     vectors    |-> TriggeredVectors(j.rows, j.loaded[i]),
     recipients |-> RuleEmailRecipients(j.loaded[i])]

(* One rule is looked at: it leaves those pending, and is among the        *)
(* triggered from then on if a hazard of it is.                            *)
LEMMA ResolveDoes ==
    ASSUME IInv, NEW h \in Handlers, Resolve(h)
    PROVE  /\ UNCHANGED tables /\ sent'[h] = sent[h]
           /\ job[h].pc = "resolve" /\ job'[h].pc = "resolve"
           /\ job'[h].todo = job[h].todo /\ job'[h].namespace = job[h].namespace
           /\ job'[h].dates = job[h].dates /\ job'[h].network = job[h].network
           /\ job'[h].loaded = job[h].loaded /\ job'[h].reports = job[h].reports
           /\ job'[h].rows = job[h].rows
           /\ \E i \in job[h].pending :
                /\ job'[h].pending = job[h].pending \ {i}
                /\ job'[h].triggered = IF TriggeredVectors(job[h].rows, job[h].loaded[i]) = {}
                                       THEN job[h].triggered
                                       ELSE Append(job[h].triggered, Hit(job[h], i))
<1> DEFINE hits(i) == IF TriggeredVectors(job[h].rows, job[h].loaded[i]) = {}
                      THEN job[h].triggered ELSE Append(job[h].triggered, Hit(job[h], i))
<1>1. PICK i \in job[h].pending :
        job' = [job EXCEPT ![h].pending = @ \ {i}, ![h].triggered = hits(i)]
  BY DEF Resolve, Hit
<1>2. DeliveryOK(h) /\ job[h].pc = "resolve" /\ UNCHANGED tables /\ sent' = sent
  BY DEF IInv, Resolve
<1> HIDE DEF hits
<1> DEFINE j == [[job[h] EXCEPT !.pending = job[h].pending \ {i}] EXCEPT !.triggered = hits(i)]
<1>3. job'[h] = j
  BY <1>1, <1>2 DEF IInv, DeliveryOK, IsJob
<1>4. /\ j.pc = "resolve" /\ j.todo = job[h].todo /\ j.namespace = job[h].namespace
      /\ j.dates = job[h].dates /\ j.network = job[h].network
      /\ j.loaded = job[h].loaded /\ j.pending = job[h].pending \ {i}
      /\ j.triggered = hits(i) /\ j.reports = job[h].reports /\ j.rows = job[h].rows
  BY <1>2 DEF DeliveryOK, IsJob
<1> HIDE DEF j
<1> QED
  BY <1>2, <1>3, <1>4 DEF hits


(* The merge: every report comes from rules that triggered, and every rule *)
(* that triggered is behind a report, with all its hazards and no higher a *)
(* threshold.                                                              *)
LEMMA MergeCovers ==
    ASSUME NEW network, NEW triggered, NEW S, triggered \in Seq(S)
    PROVE  LET reports == MergeByRecipients(network, triggered)
           IN  /\ \A r \in reports :
                    /\ r.network_id = network
                    /\ r.rules \subseteq {triggered[k].id : k \in DOMAIN triggered}
                    /\ \E k \in DOMAIN triggered :
                         /\ triggered[k].id \in r.rules /\ triggered[k].user_id \in r.authors
                         /\ r.recipients = triggered[k].recipients
                    /\ \A v \in r.risk_types : \E k \in DOMAIN triggered :
                         triggered[k].id \in r.rules /\ v \in triggered[k].vectors
                    /\ r.threshold = "WARNING" => \E k \in DOMAIN triggered :
                         triggered[k].id \in r.rules /\ triggered[k].threshold = "WARNING"
               /\ \A k \in DOMAIN triggered : \E r \in reports :
                    /\ triggered[k].id \in r.rules
                    /\ triggered[k].vectors \subseteq r.risk_types
                    /\ triggered[k].threshold = "WARNING" => r.threshold = "WARNING"
<1> DEFINE places(user) == {k \in DOMAIN triggered : UserId(triggered[k]) = user}
           first(user)  == CHOOSE k \in places(user) : \A l \in places(user) : k <= l
           group(user)  == {triggered[k] : k \in places(user)}
           vectors(user) == UNION {t.vectors : t \in group(user)}
           ids(user)     == {t.id : t \in group(user)}
           authors(user) == {t.user_id : t \in group(user)}
           lowest(user)  == LowerThreshold(group(user))
           report(user) == [network_id |-> network,
                            user_id    |-> user,
                            recipients |-> triggered[first(user)].recipients,
                            risk_types |-> vectors(user),
                            threshold  |-> lowest(user),
                            rules      |-> ids(user),
                            authors    |-> authors(user)]
           users        == {UserId(t) : t \in Range(triggered)}
           reports      == MergeByRecipients(network, triggered)
<1>1. reports = {report(user) : user \in users}
  BY DEF MergeByRecipients
<1>2. ASSUME NEW user \in users
      PROVE  first(user) \in places(user)
  <2>1. places(user) \subseteq Nat
    BY DEF places
  <2>2. places(user) # {}
    BY DEF Range
  <2> HIDE DEF places
  <2> QED
    BY <2>1, <2>2, FirstPlace
<1>3. ASSUME NEW user
      PROVE  /\ report(user).network_id = network
             /\ report(user).recipients = triggered[first(user)].recipients
             /\ report(user).risk_types = vectors(user) /\ report(user).threshold = lowest(user)
             /\ report(user).rules = ids(user) /\ report(user).authors = authors(user)
  OBVIOUS
<1> HIDE DEF report, first
<1>4. ASSUME NEW user \in users
      PROVE  LET r == report(user)
             IN  /\ r.network_id = network
                 /\ r.rules \subseteq {triggered[k].id : k \in DOMAIN triggered}
                 /\ \E k \in DOMAIN triggered :
                      /\ triggered[k].id \in r.rules /\ triggered[k].user_id \in r.authors
                      /\ r.recipients = triggered[k].recipients
                 /\ \A v \in r.risk_types : \E k \in DOMAIN triggered :
                      triggered[k].id \in r.rules /\ v \in triggered[k].vectors
                 /\ r.threshold = "WARNING" => \E k \in DOMAIN triggered :
                      triggered[k].id \in r.rules /\ triggered[k].threshold = "WARNING"
  <2>1. ids(user) \subseteq {triggered[k].id : k \in DOMAIN triggered}
    OBVIOUS
  <2>2. \E k \in DOMAIN triggered :
          /\ triggered[k].id \in ids(user) /\ triggered[k].user_id \in authors(user)
          /\ triggered[first(user)].recipients = triggered[k].recipients
    <3>1. first(user) \in places(user)
      BY <1>2
    <3>2. triggered[first(user)] \in group(user) /\ first(user) \in DOMAIN triggered
      BY <3>1
    <3> HIDE DEF group
    <3> QED
      BY <3>2
  <2>3. ASSUME NEW v \in vectors(user)
        PROVE  \E k \in DOMAIN triggered : triggered[k].id \in ids(user) /\ v \in triggered[k].vectors
    <3>1. PICK t \in group(user) : v \in t.vectors
      OBVIOUS
    <3>2. PICK k \in DOMAIN triggered : t = triggered[k]
      OBVIOUS
    <3> HIDE DEF group
    <3> QED
      BY <3>1, <3>2
  <2>4. ASSUME lowest(user) = "WARNING"
        PROVE  \E k \in DOMAIN triggered :
                 triggered[k].id \in ids(user) /\ triggered[k].threshold = "WARNING"
    <3>1. PICK t \in group(user) : t.threshold = "WARNING"
      BY <2>4 DEF LowerThreshold
    <3>2. PICK k \in DOMAIN triggered : t = triggered[k]
      OBVIOUS
    <3> HIDE DEF group
    <3> QED
      BY <3>1, <3>2
  <2> HIDE DEF ids, authors, vectors, lowest
  <2> QED
    BY <1>3, <2>1, <2>2, <2>3, <2>4
<1>5. ASSUME NEW k \in DOMAIN triggered
      PROVE  \E r \in reports : /\ triggered[k].id \in r.rules
                                /\ triggered[k].vectors \subseteq r.risk_types
                                /\ triggered[k].threshold = "WARNING" => r.threshold = "WARNING"
  <2> DEFINE user == UserId(triggered[k])
  <2>1. user \in users
    BY DEF Range
  <2>2. triggered[k] \in group(user)
    OBVIOUS
  <2>3. /\ triggered[k].id \in ids(user) /\ triggered[k].vectors \subseteq vectors(user)
        /\ triggered[k].threshold = "WARNING" => lowest(user) = "WARNING"
    <3> HIDE DEF group, user
    <3> QED
      BY <2>2 DEF LowerThreshold
  <2> HIDE DEF ids, vectors, lowest, user, users, reports
  <2>4. report(user) \in reports
    BY <1>1, <2>1
  <2> QED
    BY <1>3, <2>3, <2>4
<1> HIDE DEF places, group, vectors, ids, authors, lowest, users, reports
<1>6. \A r \in reports : \E user \in users : r = report(user)
  BY <1>1
<1> QED
  BY <1>4, <1>5, <1>6 DEF reports

(* The triggered rules become reports once none is pending.                *)
LEMMA MergeDoes ==
    ASSUME IInv, NEW h \in Handlers, Merge(h)
    PROVE  /\ UNCHANGED tables /\ sent'[h] = sent[h]
           /\ job[h].pc = "resolve" /\ job'[h].pc = "send"
           /\ job[h].pending = {} /\ job[h].reports = {}
           /\ job'[h].reports = MergeByRecipients(job[h].network, job[h].triggered)
           /\ job'[h].todo = job[h].todo /\ job'[h].namespace = job[h].namespace
           /\ job'[h].dates = job[h].dates /\ job'[h].network = job[h].network
           /\ job'[h].loaded = job[h].loaded /\ job'[h].pending = job[h].pending
           /\ job'[h].triggered = job[h].triggered /\ job'[h].rows = job[h].rows
<1> DEFINE reports == MergeByRecipients(job[h].network, job[h].triggered)
           j == [[job[h] EXCEPT !.pc = "send"] EXCEPT !.reports = reports]
<1>1. /\ DeliveryOK(h) /\ job[h].pc = "resolve" /\ job[h].pending = {}
      /\ UNCHANGED tables /\ sent' = sent
      /\ job' = [job EXCEPT ![h].pc = "send", ![h].reports = reports]
  BY DEF IInv, Merge
<1> HIDE DEF reports
<1>2. job'[h] = j
  BY <1>1 DEF IInv, DeliveryOK, IsJob
<1>3. job[h].reports = {}
  BY <1>1 DEF DeliveryOK, ReportsOK
<1>4. /\ j.pc = "send" /\ j.todo = job[h].todo /\ j.namespace = job[h].namespace
      /\ j.dates = job[h].dates /\ j.network = job[h].network
      /\ j.loaded = job[h].loaded /\ j.pending = job[h].pending
      /\ j.triggered = job[h].triggered /\ j.reports = reports /\ j.rows = job[h].rows
  BY <1>1 DEF DeliveryOK, IsJob
<1> HIDE DEF j
<1> QED
  BY <1>1, <1>2, <1>3, <1>4 DEF reports

(* A report leaves the set, and is told, accepted or not.                  *)
LEMMA SendDoes ==
    ASSUME IInv, NEW h \in Handlers, Send(h) \/ SendFails(h)
    PROVE  /\ UNCHANGED tables
           /\ job[h].pc = "send" /\ job'[h].pc = "send"
           /\ \E report \in job[h].reports :
                /\ job'[h].reports = job[h].reports \ {report}
                /\ sent'[h] \in {sent[h], Append(sent[h], report)}
           /\ job'[h].todo = job[h].todo /\ job'[h].namespace = job[h].namespace
           /\ job'[h].dates = job[h].dates /\ job'[h].network = job[h].network
           /\ job'[h].loaded = job[h].loaded /\ job'[h].pending = job[h].pending
           /\ job'[h].triggered = job[h].triggered /\ job'[h].rows = job[h].rows
<1>1. DeliveryOK(h) /\ job[h].pc = "send" /\ UNCHANGED tables
  BY DEF IInv, Send, SendFails
<1>2. PICK report \in job[h].reports :
        /\ job' = [job EXCEPT ![h].reports = job[h].reports \ {report}]
        /\ sent' = sent \/ sent' = [sent EXCEPT ![h] = Append(sent[h], report)]
  BY DEF Send, SendFails
<1> DEFINE j == [job[h] EXCEPT !.reports = job[h].reports \ {report}]
<1>3. job'[h] = j /\ sent'[h] \in {sent[h], Append(sent[h], report)}
  BY <1>2 DEF IInv
<1>4. /\ j.pc = "send" /\ j.todo = job[h].todo /\ j.namespace = job[h].namespace
      /\ j.dates = job[h].dates /\ j.network = job[h].network
      /\ j.loaded = job[h].loaded /\ j.pending = job[h].pending
      /\ j.triggered = job[h].triggered /\ j.reports = job[h].reports \ {report}
      /\ j.rows = job[h].rows
  BY <1>1 DEF DeliveryOK, IsJob
<1> HIDE DEF j
<1> QED
  BY <1>1, <1>3, <1>4


-----------------------------------------------------------------------------
(* The steps, seen from one delivery                                       *)

(* A key is never used twice, and a rule stays under its network.          *)
RulesStay ==
    /\ issued \subseteq issued'
    /\ \A i \in issued : rules'[i] # NoRow =>
         rules[i] # NoRow /\ rules'[i].network_id = rules[i].network_id

Serve(h) == Arrive(h) \/ Progress(h) \/ RaiseOnDatabase(h)

(* Somebody else's step, of another delivery or of an operator.            *)
Passes(h) == job'[h] = job[h] /\ sent'[h] = sent[h]

Dies(h) ==
    /\ ~Free(h) /\ job'[h].pc = "lost" /\ Fresh(job'[h]) /\ job'[h].todo = {}
    /\ sent'[h] = sent[h]

(* A step that leaves the tables alone moves no rule.                      *)
LEMMA TablesStay == ASSUME UNCHANGED tables PROVE RulesStay /\ rules' = rules /\ issued' = issued
                                                   /\ settings' = settings
  BY DEF tables, RulesStay

(* For one delivery a step is a step of its own, passes it by, or is the   *)
(* end of its process; and rules stay in their network.                    *)
LEMMA StepIs ==
    ASSUME IInv, HNext, NEW h \in Handlers
    PROVE  RulesStay /\ (Serve(h) \/ Passes(h) \/ Dies(h))
<1>1. Next
  BY DEF HNext
<1>2. ASSUME NEW g \in Handlers, Serve(g) PROVE RulesStay /\ (Serve(h) \/ Passes(h))
  <2>1. Serves(g)
    BY <1>2, DeliveryStep DEF Serve
  <2>2. RulesStay
    BY <2>1, TablesStay DEF Serves
  <2>3. g # h => Passes(h)
    BY <2>1 DEF Serves, Passes, IInv
  <2> QED
    BY <1>2, <2>2, <2>3
<1>3. ASSUME NEW i \in RuleIds, EditRule(i) PROVE RulesStay /\ Passes(h)
  <2>1. RulesStay
    <3>1. CASE Registry!File(i)
      BY <3>1 DEF Registry!File, IInv, TablesOK, RulesStay
    <3>2. CASE Registry!Amend(i)
      BY <3>2 DEF Registry!Amend, IInv, TablesOK, RulesStay
    <3>3. CASE Registry!Remove(i)
      BY <3>3 DEF Registry!Remove, IInv, TablesOK, RulesStay
    <3> QED
      BY <1>3, <3>1, <3>2, <3>3 DEF EditRule
  <2> QED
    BY <1>3, <2>1 DEF EditRule, Passes
<1>4. ASSUME NEW u \in Subs, EditSettings(u) PROVE RulesStay /\ Passes(h)
  BY <1>4 DEF EditSettings, RulesStay, Passes
<1>5. ASSUME Crash PROVE RulesStay /\ (Passes(h) \/ Dies(h))
  <2> DEFINE j == [NoJob EXCEPT !.pc = "lost"]
  <2>1. j.pc = "lost" /\ Fresh(j) /\ j.todo = {}
    BY DEF NoJob, Fresh
  <2>2. job'[h] = IF Free(h) THEN job[h] ELSE j
    BY <1>5 DEF Crash
  <2>3. RulesStay /\ sent'[h] = sent[h]
    BY <1>5, TablesStay DEF Crash
  <2> HIDE DEF j
  <2> QED
    BY <2>1, <2>2, <2>3 DEF Passes, Dies
<1> QED
  BY <1>1, <1>2, <1>3, <1>4, <1>5 DEF Next, Serve

(* A delivery that serves itself is under way, unless a message arrives.   *)
LEMMA ServesUnderWay ==
    ASSUME NEW h \in Handlers, Progress(h) \/ RaiseOnDatabase(h)
    PROVE  ~Free(h) /\ job[h].pc \in Running
  BY DEF Progress, RaiseOnDatabase, ListNetworks, LoadRules, Fetch, FetchNothing, Resolve, Merge,
         Send, SendFails, EndNetwork, EndRun, Free, Running, Ended

-----------------------------------------------------------------------------
(* The rules behind a report were active                                   *)

StirredOK(h) ==
    /\ ~Free(h) => DOMAIN job[h].loaded \subseteq stirred[h]
    /\ \A k \in DOMAIN sent[h] : sent[h][k].rules \subseteq stirred[h]

(* What a run has loaded was active at some moment of it: after every      *)
(* step, too.                                                              *)
LEMMA StirredStep ==
    ASSUME IInv, HNext, NEW h \in Handlers, StirredOK(h)
    PROVE  StirredOK(h)'
<1>1. Logs(h, stirred[h], stirred'[h], Active')
  BY LogsGrow
<1>2. RulesStay /\ (Serve(h) \/ Passes(h) \/ Dies(h))
  BY StepIs
<1>3. DeliveryOK(h)
  BY DEF IInv
<1>4. CASE Passes(h)
  <2>1. stirred[h] \subseteq stirred'[h]
    BY <1>1, <1>4 DEF Logs, Passes
  <2> QED
    BY <1>4, <2>1 DEF StirredOK, Passes, Free
<1>5. CASE Dies(h)
  <2>1. stirred[h] \subseteq stirred'[h]
    BY <1>1, <1>5 DEF Logs, Dies
  <2>2. DOMAIN <<>> = {}
    OBVIOUS
  <2> QED
    BY <1>5, <2>1, <2>2 DEF StirredOK, Dies, Fresh
<1>6. CASE Arrive(h)
  <2>1. sent'[h] = <<>> /\ job'[h].loaded = <<>>
    BY <1>6, ArriveDoes DEF Fresh
  <2>2. DOMAIN <<>> = {}
    OBVIOUS
  <2> QED
    BY <2>1, <2>2 DEF StirredOK
<1>7. CASE Progress(h) \/ RaiseOnDatabase(h)
  <2>1. ~Free(h) /\ stirred'[h] = stirred[h] \cup Active'
    BY <1>1, <1>7, ServesUnderWay DEF Logs
  <2>2. UNCHANGED tables
    BY <1>7, DeliveryStep DEF Serves
  <2>3. Active' = Active
    BY <2>2 DEF tables, Active, Stored
  <2>4. DOMAIN job'[h].loaded \subseteq DOMAIN job[h].loaded \cup Active
    <3>1. CASE LoadRules(h)
      <4>1. ActiveRules(job'[h].network) \subseteq Active
        BY DEF ActiveRules, Active, Stored
      <4> QED
        BY <3>1, <4>1, LoadRulesDoes
    <3>2. CASE ListNetworks(h) \/ Fetch(h) \/ Resolve(h) \/ Merge(h) \/ Send(h) \/ SendFails(h)
      BY <3>2, ListNetworksDoes, FetchDoes, ResolveDoes, MergeDoes, SendDoes
    <3>3. CASE FetchNothing(h) \/ EndNetwork(h) \/ EndRun(h) \/ RaiseOnDatabase(h)
      <4>1. job'[h].loaded = <<>>
        BY <3>3, ReturnDoes, EndDoes DEF Fresh
      <4>2. DOMAIN <<>> = {}
        OBVIOUS
      <4> QED
        BY <4>1, <4>2
    <3> QED
      BY <1>7, <3>1, <3>2, <3>3 DEF Progress
  <2>5. \A k \in DOMAIN sent'[h] :
          sent'[h][k].rules \subseteq DOMAIN job[h].loaded \/ sent'[h][k].rules \subseteq stirred[h]
    <3>1. CASE sent'[h] = sent[h]
      BY <3>1 DEF StirredOK
    <3>2. CASE Send(h) \/ SendFails(h)
      <4>1. PICK report \in job[h].reports : sent'[h] \in {sent[h], Append(sent[h], report)}
        BY <3>2, SendDoes
      <4>2. report.rules \subseteq DOMAIN job[h].loaded
        BY <1>3 DEF DeliveryOK, ReportsOK
      <4>3. CASE sent'[h] = Append(sent[h], report)
        <5> DEFINE s == sent[h]
                   t == sent'[h]
        <5>1. PICK S : s \in Seq(S)
          BY <1>3 DEF DeliveryOK, SentOK
        <5>2. s \in Seq(S \cup {report}) /\ t = Append(s, report)
          BY <4>3, <5>1
        <5>3. \A k \in DOMAIN s : s[k].rules \subseteq stirred[h]
          BY DEF StirredOK
        <5> HIDE DEF s, t
        <5>4. \A k \in DOMAIN t : (k \in DOMAIN s /\ t[k] = s[k]) \/ t[k] = report
          BY <5>2
        <5> QED
          BY <4>2, <5>3, <5>4 DEF t
      <4> QED
        BY <3>1, <4>1, <4>3
    <3> QED
      BY <1>7, <3>1, <3>2, ListNetworksDoes, LoadRulesDoes, FetchDoes, ResolveDoes, MergeDoes,
         ReturnDoes, EndDoes DEF Progress
  <2> QED
    BY <2>1, <2>3, <2>4, <2>5 DEF StirredOK
<1> QED
  BY <1>2, <1>4, <1>5, <1>6, <1>7 DEF Serve


-----------------------------------------------------------------------------
(* The networks of the rules that were active all along were asked for     *)

(* Of the rules that a run is about, none of which was ever inactive.      *)
Constant(h, i) ==
    /\ i \in Stored \ calm[h]
    /\ rules[i].network_id # Unattributed
    /\ scope[h] \in {PipelineNamespace, rules[i].network_id}

AskedOK(h) ==
    /\ job[h].pc \in Running =>
         /\ RuleIds \ Active \subseteq calm[h]
         /\ scope[h] = job[h].namespace
         /\ job[h].dates # {}
    /\ job[h].pc \in Running \cup {"done"} => RuleIds \ issued \subseteq calm[h]
    /\ job[h].pc \in (Running \ {"list"}) \cup {"done"} =>
         \A i \in RuleIds : Constant(h, i) => rules[i].network_id \in asked[h] \cup job[h].todo

(* What is constant after a step was constant before it.                   *)
LEMMA ConstantBefore ==
    ASSUME IInv, IInv', RulesStay, NEW h \in Handlers, AskedOK(h),
           calm[h] \subseteq calm'[h], scope'[h] = scope[h],
           job[h].pc \in Running \cup {"done"},
           NEW i \in RuleIds, Constant(h, i)'
    PROVE  /\ Constant(h, i) /\ rules'[i].network_id = rules[i].network_id
           /\ job[h].pc \in Running => i \in Active
<1>1. i \in RuleIds /\ rules'[i] # NoRow /\ i \notin calm'[h]
  BY DEF Constant, Stored
<1>2. i \in issued
  BY <1>1 DEF AskedOK
<1>3. rules[i] # NoRow /\ rules'[i].network_id = rules[i].network_id
  BY <1>1, <1>2 DEF RulesStay
<1> QED
  BY <1>1, <1>3 DEF Constant, Stored, AskedOK

(* A network that a rule was active for all along is still to do or was    *)
(* asked for: after every step, too.                                       *)
LEMMA AskedStep ==
    ASSUME IInv, IInv', HNext, NEW h \in Handlers, AskedOK(h)
    PROVE  AskedOK(h)'
<1>1. /\ Logs(h, calm[h], calm'[h], RuleIds \ Active')
      /\ Logs(h, asked[h], asked'[h], {job'[h].network} \ {Null})
      /\ scope'[h] = IF job'[h].pc \in Running THEN job'[h].namespace ELSE scope[h]
  BY LogsGrow
<1>2. RulesStay /\ (Serve(h) \/ Passes(h) \/ Dies(h))
  BY StepIs
<1>3. DeliveryOK(h)
  BY DEF IInv
<1>4. /\ {"list", "next", "fetch", "resolve", "send"} = Running
      /\ \A pc \in {"ignored", "raised", "lost", "done"} : pc \notin Running
      /\ job[h].pc = "done" => Free(h)
      /\ Free(h) => job[h].pc \notin Running
  BY RunningIsNotEnded DEF Running, Free, Ended
<1>5. RuleIds \ issued' \subseteq RuleIds \ Active'
  BY DEF IInv, TablesOK, Active, Stored
<1>6. CASE Passes(h)
  <2>1. /\ job'[h] = job[h] /\ calm[h] \subseteq calm'[h] /\ asked[h] \subseteq asked'[h]
        /\ ~Free(h) => RuleIds \ Active' \subseteq calm'[h]
        /\ job[h].pc \in Running => ~Free(h)
    BY <1>1, <1>4, <1>6 DEF Logs, Passes
  <2>2. job[h].pc \in Running \cup {"done"} => scope'[h] = scope[h]
    BY <1>1, <1>4, <2>1 DEF AskedOK
  <2>3. ASSUME job[h].pc \in (Running \ {"list"}) \cup {"done"},
               NEW i \in RuleIds, Constant(h, i)'
        PROVE  rules'[i].network_id \in asked'[h] \cup job'[h].todo
    <3>1. Constant(h, i) /\ rules'[i].network_id = rules[i].network_id
      BY <1>2, <2>1, <2>2, <2>3, ConstantBefore
    <3> QED
      BY <2>1, <2>3, <3>1 DEF AskedOK
  <2>4. job[h].pc \in Running \cup {"done"} => RuleIds \ issued' \subseteq calm'[h]
    BY <1>2, <2>1 DEF AskedOK, RulesStay
  <2>5. job[h].pc \in Running => scope'[h] = job'[h].namespace /\ job'[h].dates # {}
    BY <2>1, <2>2 DEF AskedOK
  <2> QED
    BY <2>1, <2>3, <2>4, <2>5 DEF AskedOK
<1>7. CASE Dies(h)
  BY <1>4, <1>7 DEF Dies, AskedOK
<1>8. CASE Arrive(h)
  <2>1. /\ Free(h) /\ UNCHANGED tables
        /\ \/ job'[h].pc \in {"ignored", "raised"}
           \/ /\ job'[h].pc = "list" /\ job'[h].dates # {}
           \/ /\ job'[h].pc = "next" /\ job'[h].dates # {}
              /\ job'[h].namespace \in Places /\ job'[h].todo = {job'[h].namespace}
    BY <1>8, ArriveDoes
  <2>2. job'[h].pc \in Running =>
          calm'[h] = RuleIds \ Active' /\ scope'[h] = job'[h].namespace
    BY <1>1, <2>1 DEF Logs
  <2>3. ASSUME job'[h].pc = "next", NEW i \in RuleIds, Constant(h, i)'
        PROVE  rules'[i].network_id \in asked'[h] \cup job'[h].todo
    <3>1. scope'[h] # PipelineNamespace
      BY <1>4, <2>1, <2>2, <2>3, DispatchAssumption DEF Places
    <3> QED
      BY <1>4, <2>1, <2>2, <2>3, <3>1 DEF Constant
  <2> QED
    BY <1>4, <1>5, <2>1, <2>2, <2>3 DEF AskedOK
<1>9. CASE Progress(h) \/ RaiseOnDatabase(h)
  <2>1. ~Free(h) /\ job[h].pc \in Running
    BY <1>9, ServesUnderWay
  <2>2. /\ calm'[h] = calm[h] \cup (RuleIds \ Active')
        /\ asked'[h] = asked[h] \cup ({job'[h].network} \ {Null})
    BY <1>1, <2>1 DEF Logs
  <2>3. UNCHANGED tables
    BY <1>9, DeliveryStep DEF Serves
  <2>4. rules' = rules /\ issued' = issued
    BY <2>3, TablesStay
  <2>5. \/ job'[h].pc = "raised"
        \/ job'[h].pc = "done" /\ job[h].pc = "next" /\ job[h].todo = {}
        \/ /\ job'[h].pc \in Running \ {"list"}
           /\ job'[h].namespace = job[h].namespace /\ job'[h].dates = job[h].dates
    <3>1. CASE EndRun(h) \/ RaiseOnDatabase(h)
      BY <3>1, EndDoes
    <3>2. CASE ListNetworks(h) \/ LoadRules(h)
      BY <1>4, <3>2, ListNetworksDoes, LoadRulesDoes
    <3>3. CASE Fetch(h) \/ Resolve(h)
      BY <1>4, <3>3, FetchDoes, ResolveDoes
    <3>4. CASE Merge(h) \/ Send(h) \/ SendFails(h)
      BY <1>4, <3>4, MergeDoes, SendDoes
    <3>5. CASE FetchNothing(h) \/ EndNetwork(h)
      BY <1>4, <3>5, ReturnDoes
    <3> QED
      BY <1>9, <3>1, <3>2, <3>3, <3>4, <3>5 DEF Progress
  <2>6. job'[h].pc \in Running \cup {"done"} => scope'[h] = scope[h]
    BY <1>1, <1>4, <2>1, <2>5 DEF AskedOK
  <2>7. ASSUME job'[h].pc \in (Running \ {"list"}) \cup {"done"},
               NEW i \in RuleIds, Constant(h, i)'
        PROVE  rules'[i].network_id \in asked'[h] \cup job'[h].todo
    <3>1. Constant(h, i) /\ rules'[i].network_id = rules[i].network_id /\ i \in Active
      BY <1>2, <2>1, <2>2, <2>6, <2>7, ConstantBefore
    <3> DEFINE n == rules[i].network_id
    <3>2. n \in Networks /\ i \in ActiveRules(n)
      BY <3>1 DEF IInv, TablesOK, AlertRule, Active, Stored, ActiveRules, Constant
    <3>3. CASE ListNetworks(h)
      BY <3>1, <3>2, <3>3, ListNetworksDoes DEF NetworksWithActiveRules
    <3>4. CASE ~ListNetworks(h)
      <4>1. job[h].pc # "list" /\ n \in asked[h] \cup job[h].todo
        <5>1. job[h].pc # "list"
          BY <1>4, <1>9, <2>7, <3>4, LoadRulesDoes, FetchDoes, ResolveDoes, MergeDoes, SendDoes,
             ReturnDoes, EndDoes DEF Progress
        <5> QED
          BY <2>1, <3>1, <5>1 DEF AskedOK
      <4>2. CASE LoadRules(h)
        <5>1. PICK m \in job[h].todo :
                /\ job'[h].todo = job[h].todo \ {m}
                /\ \/ job[h].dates = {} \/ m = Unattributed \/ ActiveRules(m) = {}
                   \/ job'[h].network = m /\ m \in Networks
          BY <4>2, LoadRulesDoes
        <5>2. job[h].dates # {}
          BY <2>1 DEF AskedOK
        <5>3. m = n => n \in asked'[h]
          BY <2>2, <3>1, <3>2, <5>1, <5>2, ModelsAssumption DEF Constant
        <5> QED
          BY <2>2, <3>1, <4>1, <5>1, <5>3
      <4>3. CASE EndRun(h) \/ RaiseOnDatabase(h)
        BY <1>4, <2>2, <2>7, <3>1, <4>1, <4>3, EndDoes
      <4>4. CASE Fetch(h) \/ FetchNothing(h) \/ Resolve(h) \/ Merge(h) \/ Send(h) \/ SendFails(h)
                 \/ EndNetwork(h)
        <5>1. job'[h].todo = job[h].todo
          BY <4>4, FetchDoes, ResolveDoes, MergeDoes, SendDoes, ReturnDoes
        <5> QED
          BY <2>2, <3>1, <4>1, <5>1
      <4> QED
        BY <1>9, <3>4, <4>2, <4>3, <4>4 DEF Progress
    <3> QED
      BY <3>3, <3>4
  <2>8. RuleIds \ issued' \subseteq calm'[h] /\ RuleIds \ Active' \subseteq calm'[h]
    BY <1>5, <2>2
  <2>9. job'[h].pc \in Running => scope'[h] = job'[h].namespace /\ job'[h].dates # {}
    BY <1>1, <1>4, <2>1, <2>5 DEF AskedOK
  <2> QED
    BY <2>7, <2>8, <2>9 DEF AskedOK
<1> QED
  BY <1>2, <1>6, <1>7, <1>8, <1>9 DEF Serve

-----------------------------------------------------------------------------
(* What a run says comes from the rows and the rules, and all of it is said *)

(* What a step adds to the logs of what the rows call for and was told.    *)
StartsAfresh(h) ==
    /\ Fresh(job'[h]) /\ job'[h].pc \in {"ignored", "raised", "list", "next"}
    /\ told'[h] = {} /\ due'[h] = {}

Idles(h) ==
    /\ Passes(h) \/ Dies(h)
    /\ told'[h] = told[h] /\ lists[h] \subseteq lists'[h]
    /\ due[h] \subseteq due'[h] /\ due'[h] \subseteq due[h] \cup CalledFor(job'[h])

Works(h) ==
    /\ Progress(h) \/ RaiseOnDatabase(h)
    /\ told'[h] = told[h] \cup Handed(h) /\ due'[h] = due[h] \cup CalledFor(job'[h])
    /\ lists'[h] = lists[h] \cup Lists' /\ rules' = rules /\ settings' = settings

(* Without rows nothing is called for.                                     *)
LEMMA NothingCalledFor == ASSUME NEW j, j.rows = {} PROVE CalledFor(j) = {}
  BY DEF CalledFor

(* For the logs of reports a step starts a run, leaves it idle, or is work *)
(* that adds to them.                                                      *)
LEMMA PagesTurn ==
    ASSUME IInv, HNext, NEW h \in Handlers
    PROVE  StartsAfresh(h) \/ Idles(h) \/ Works(h)
<1>1. /\ Logs(h, lists[h], lists'[h], Lists')
      /\ Logs(h, due[h], due'[h], CalledFor(job'[h]))
      /\ Logs(h, told[h], told'[h], Handed(h))
  BY LogsGrow
<1>2. Serve(h) \/ Passes(h) \/ Dies(h)
  BY StepIs
<1>3. CASE Passes(h)
  <2>1. Handed(h) = {}
    BY <1>3 DEF Handed, Passes
  <2> QED
    BY <1>1, <1>3, <2>1 DEF Logs, Passes, Idles
<1>4. CASE Dies(h)
  <2>1. Handed(h) = {}
    BY <1>4 DEF Handed, Dies
  <2> QED
    BY <1>1, <1>4, <2>1 DEF Logs, Dies, Idles
<1>5. CASE Arrive(h) /\ ~Passes(h)
  <2>1. /\ Free(h) /\ Fresh(job'[h]) /\ job'[h].pc \in {"ignored", "raised", "list", "next"}
    BY <1>5, ArriveDoes
  <2>2. CalledFor(job'[h]) = {} /\ Handed(h) = {}
    BY <2>1, NothingCalledFor DEF Fresh, Handed
  <2>3. told'[h] = {} /\ due'[h] = {}
    BY <1>1, <1>5, <2>1, <2>2 DEF Logs, Passes
  <2> QED
    BY <2>1, <2>3 DEF StartsAfresh
<1>6. CASE Progress(h) \/ RaiseOnDatabase(h)
  <2>1. ~Free(h)
    BY <1>6, ServesUnderWay
  <2>2. rules' = rules /\ settings' = settings
    BY <1>6, DeliveryStep, TablesStay DEF Serves
  <2> QED
    BY <1>1, <1>6, <2>1, <2>2 DEF Logs, Works
<1> QED
  BY <1>2, <1>3, <1>4, <1>5, <1>6 DEF Serve

(* A hazard triggers exactly when the rows call for it.                    *)
LEMMA CallsTrigger ==
    ASSUME NEW rows, NEW rule \in AlertRule, NEW v,
           \A row \in rows : row.km_alert \in Nat /\ row.km_warning \in Nat
    PROVE  v \in TriggeredVectors(rows, rule)
             <=> \E row \in rows : row.risk_vector = v /\ Calls(rule, row)
<1>1. ASSUME NEW row \in rows
      PROVE  KmAtOrAbove(row, rule.threshold) > 0
               <=> row.km_alert > 0 \/ (row.km_warning > 0 /\ rule.threshold = "WARNING")
  BY DEF KmAtOrAbove
<1>2. v \in TriggeredVectors(rows, rule)
        <=> /\ rule.risk_types # Null /\ v \in rule.risk_types
            /\ \E row \in rows : row.risk_vector = v /\ KmAtOrAbove(row, rule.threshold) > 0
  BY DEF TriggeredVectors
<1> QED
  BY <1>1, <1>2 DEF Calls

(* What the rows call for by the wording of REQ-0032 is what               *)
(* TriggeredVectors finds, for each rule that was loaded.                  *)
LEMMA CalledForIs ==
    ASSUME NEW j, \A row \in j.rows : row.km_alert \in Nat /\ row.km_warning \in Nat,
           \A i \in DOMAIN j.loaded : j.loaded[i] \in AlertRule
    PROVE  /\ \A i \in DOMAIN j.loaded : \A v \in TriggeredVectors(j.rows, j.loaded[i]) :
                <<j.network, i, v, j.loaded[i].threshold>> \in CalledFor(j)
           /\ \A d \in CalledFor(j) :
                /\ d[1] = j.network /\ d[2] \in DOMAIN j.loaded
                /\ d[4] = j.loaded[d[2]].threshold
                /\ d[3] \in TriggeredVectors(j.rows, j.loaded[d[2]])
<1>1. ASSUME NEW i \in DOMAIN j.loaded, NEW v \in TriggeredVectors(j.rows, j.loaded[i])
      PROVE  <<j.network, i, v, j.loaded[i].threshold>> \in CalledFor(j)
  <2> DEFINE rule == j.loaded[i]
  <2>1. rule \in AlertRule
    OBVIOUS
  <2>2. PICK row \in j.rows : row.risk_vector = v /\ Calls(rule, row)
    BY <2>1, CallsTrigger
  <2>3. v \in Hazards /\ rule.threshold \in Thresholds
    BY <2>1, <2>2 DEF AlertRule, HazardLists, Calls
  <2> QED
    BY <2>2, <2>3 DEF CalledFor
<1>2. ASSUME NEW d \in CalledFor(j)
      PROVE  /\ d[1] = j.network /\ d[2] \in DOMAIN j.loaded
             /\ d[4] = j.loaded[d[2]].threshold
             /\ d[3] \in TriggeredVectors(j.rows, j.loaded[d[2]])
  <2>1. d[1] = j.network /\ d[2] \in DOMAIN j.loaded /\ d[4] = j.loaded[d[2]].threshold
    BY DEF CalledFor
  <2>2. PICK row \in j.rows : row.risk_vector = d[3] /\ Calls(j.loaded[d[2]], row)
    BY DEF CalledFor
  <2> QED
    BY <2>1, <2>2, CallsTrigger
<1> QED
  BY <1>1, <1>2

(* What a delivery holds is what the tables held, and its rows are logged. *)
HeldOK(h) ==
    /\ job[h].pc \notin {"resolve", "send"} => job[h].rows = {}
    /\ \A row \in job[h].rows : row.km_alert \in Nat /\ row.km_warning \in Nat
    /\ \A i \in DOMAIN job[h].loaded :
         /\ job[h].loaded[i] \in AlertRule
         /\ <<i, ParseRecipients(job[h].loaded[i].recipients)>> \in lists[h]
    /\ CalledFor(job[h]) \subseteq due[h]

(* What a run holds is on its logs: after every step, too.                 *)
LEMMA HeldStep ==
    ASSUME IInv, HNext, NEW h \in Handlers, HeldOK(h)
    PROVE  HeldOK(h)'
<1>1. DOMAIN <<>> = {}
  OBVIOUS
<1>2. CASE StartsAfresh(h)
  BY <1>1, <1>2, NothingCalledFor DEF StartsAfresh, Fresh, HeldOK
<1>3. CASE Idles(h) /\ Passes(h)
  BY <1>3 DEF Idles, Passes, HeldOK
<1>4. CASE Dies(h)
  BY <1>1, <1>4, NothingCalledFor DEF Dies, Fresh, HeldOK
<1>5. CASE Works(h)
  <2>1. /\ CalledFor(job'[h]) \subseteq due'[h] /\ lists'[h] = lists[h] \cup Lists'
        /\ rules' = rules
    BY <1>5 DEF Works
  <2>2. /\ job'[h].pc \notin {"resolve", "send"} => job'[h].rows = {}
        /\ \A row \in job'[h].rows : row.km_alert \in Nat /\ row.km_warning \in Nat
    <3>1. CASE ListNetworks(h) \/ LoadRules(h)
      BY <3>1, ListNetworksDoes, LoadRulesDoes DEF HeldOK
    <3>2. CASE Fetch(h)
      BY <3>2, FetchDoes
    <3>3. CASE Resolve(h) \/ Merge(h) \/ Send(h) \/ SendFails(h)
      BY <3>3, ResolveDoes, MergeDoes, SendDoes DEF HeldOK
    <3>4. CASE FetchNothing(h) \/ EndNetwork(h) \/ EndRun(h) \/ RaiseOnDatabase(h)
      BY <3>4, ReturnDoes, EndDoes DEF Fresh
    <3> QED
      BY <1>5, <3>1, <3>2, <3>3, <3>4 DEF Works, Progress
  <2>3. ASSUME NEW i \in DOMAIN job'[h].loaded
        PROVE  /\ job'[h].loaded[i] \in AlertRule
               /\ <<i, ParseRecipients(job'[h].loaded[i].recipients)>> \in lists'[h]
    <3>1. CASE i \in DOMAIN job[h].loaded /\ job'[h].loaded = job[h].loaded
      BY <2>1, <3>1 DEF HeldOK
    <3>2. CASE i \in Stored /\ job'[h].loaded[i] = rules[i]
      <4>1. rules[i] \in AlertRule
        BY <3>2 DEF IInv, TablesOK, Stored
      <4>2. <<i, ParseRecipients(rules[i].recipients)>> \in Lists'
        BY <2>1, <3>2 DEF Lists, Stored
      <4> QED
        BY <2>1, <3>2, <4>1, <4>2
    <3>3. CASE LoadRules(h)
      <4>1. PICK n \in job[h].todo :
              \/ job'[h].loaded = job[h].loaded
              \/ job'[h].loaded = [k \in ActiveRules(n) |-> rules[k]]
        BY <3>3, LoadRulesDoes
      <4>2. ActiveRules(n) \subseteq Stored
        BY DEF ActiveRules, Stored
      <4>3. CASE job'[h].loaded = [k \in ActiveRules(n) |-> rules[k]]
        <5>1. i \in ActiveRules(n) /\ job'[h].loaded[i] = rules[i]
          BY <4>3
        <5> QED
          BY <3>2, <4>2, <5>1
      <4> QED
        BY <3>1, <4>1, <4>3
    <3>4. CASE ListNetworks(h) \/ Fetch(h) \/ Resolve(h) \/ Merge(h) \/ Send(h) \/ SendFails(h)
      BY <3>1, <3>4, ListNetworksDoes, FetchDoes, ResolveDoes, MergeDoes, SendDoes
    <3>5. CASE FetchNothing(h) \/ EndNetwork(h) \/ EndRun(h) \/ RaiseOnDatabase(h)
      BY <1>1, <3>5, ReturnDoes, EndDoes DEF Fresh
    <3> QED
      BY <1>5, <3>3, <3>4, <3>5 DEF Works, Progress
  <2> QED
    BY <2>1, <2>2, <2>3 DEF HeldOK
<1> QED
  BY <1>2, <1>3, <1>4, <1>5, PagesTurn DEF Idles


(* A report names hazards and a threshold that its rules called for, and   *)
(* carries a list that one of them, or its operator, held.                 *)
Founded(called, held, report) ==
    /\ \A v \in report.risk_types : \E d \in called :
         d[1] = report.network_id /\ d[2] \in report.rules /\ d[3] = v
    /\ report.threshold = "WARNING" => \E d \in called :
         d[2] \in report.rules /\ d[4] = "WARNING"
    /\ \E who \in report.rules \cup report.authors : <<who, report.recipients>> \in held

HitOK(network, called, held, t) ==
    /\ t.vectors # {}
    /\ \A v \in t.vectors : <<network, t.id, v, t.threshold>> \in called
    /\ \E who \in {t.id, t.user_id} : <<who, t.recipients>> \in held

FoundedOK(h) ==
    /\ \A k \in DOMAIN job[h].triggered :
         HitOK(job[h].network, due[h], lists[h], job[h].triggered[k])
    /\ \A report \in job[h].reports \cup told[h] : Founded(due[h], lists[h], report)

(* What is founded stays so while the logs grow.                           *)
LEMMA FoundedStays ==
    ASSUME NEW called, NEW more, called \subseteq more, NEW held, NEW longer, held \subseteq longer,
           NEW report, Founded(called, held, report)
    PROVE  Founded(more, longer, report)
  BY DEF Founded

(* A triggered rule stays founded as the logs grow.                        *)
LEMMA HitStays ==
    ASSUME NEW called, NEW more, called \subseteq more, NEW held, NEW longer, held \subseteq longer,
           NEW network, NEW t, HitOK(network, called, held, t)
    PROVE  HitOK(network, more, longer, t)
  BY DEF HitOK

(* A rule that triggers was called for, on a list it or its operator held. *)
LEMMA ResolveFounds ==
    ASSUME IInv, NEW h \in Handlers, HeldOK(h), HeldOK(h)', Resolve(h), Works(h), FoundedOK(h)
    PROVE  \A k \in DOMAIN job'[h].triggered :
             HitOK(job'[h].network, due'[h], lists'[h], job'[h].triggered[k])
<1>1. /\ job'[h].network = job[h].network /\ job'[h].loaded = job[h].loaded
      /\ job'[h].rows = job[h].rows
  BY ResolveDoes
<1>2. PICK i \in job[h].pending :
        job'[h].triggered = IF TriggeredVectors(job[h].rows, job[h].loaded[i]) = {}
                            THEN job[h].triggered
                            ELSE Append(job[h].triggered, Hit(job[h], i))
  BY ResolveDoes
<1>3. /\ due[h] \subseteq due'[h] /\ lists[h] \subseteq lists'[h] /\ Lists' \subseteq lists'[h]
      /\ settings' = settings
  BY DEF Works
<1>4. ASSUME NEW t, HitOK(job[h].network, due[h], lists[h], t)
      PROVE  HitOK(job[h].network, due'[h], lists'[h], t)
  BY <1>3, <1>4, HitStays
<1>5. i \in DOMAIN job[h].loaded /\ DeliveryOK(h)
  BY DEF IInv, DeliveryOK, RulesOK
<1>6. CASE TriggeredVectors(job[h].rows, job[h].loaded[i]) = {}
  BY <1>1, <1>2, <1>4, <1>6 DEF FoundedOK
<1>7. CASE TriggeredVectors(job[h].rows, job[h].loaded[i]) # {}
  <2> DEFINE rule == job[h].loaded[i]
             hit  == Hit(job[h], i)
             s    == job[h].triggered
             t    == job'[h].triggered
  <2>1. /\ hit.id = i /\ hit.user_id = rule.user_id /\ hit.threshold = rule.threshold
        /\ hit.vectors = TriggeredVectors(job[h].rows, rule)
        /\ hit.recipients = RuleEmailRecipients(rule)
    BY DEF Hit
  <2>2. \A v \in hit.vectors : <<job'[h].network, i, v, hit.threshold>> \in due'[h]
    <3>1. \A v \in TriggeredVectors(job'[h].rows, job'[h].loaded[i]) :
            <<job'[h].network, i, v, job'[h].loaded[i].threshold>> \in CalledFor(job'[h])
      <4>1. /\ \A row \in job'[h].rows : row.km_alert \in Nat /\ row.km_warning \in Nat
            /\ \A k \in DOMAIN job'[h].loaded : job'[h].loaded[k] \in AlertRule
        BY DEF HeldOK
      <4> QED
        BY <1>1, <1>5, <4>1, CalledForIs
    <3> QED
      BY <1>1, <2>1, <3>1 DEF HeldOK
  <2>3. \E who \in {i, rule.user_id} : <<who, hit.recipients>> \in lists'[h]
    <3>1. rule.user_id \in Subs /\ <<i, ParseRecipients(rule.recipients)>> \in lists'[h]
      BY <1>3, <1>5 DEF HeldOK, AlertRule
    <3>2. <<rule.user_id, ParseRecipients(settings[rule.user_id])>> \in lists'[h]
      BY <1>3, <3>1 DEF Lists
    <3> QED
      BY <2>1, <3>1, <3>2 DEF RuleEmailRecipients
  <2>4. HitOK(job[h].network, due'[h], lists'[h], hit)
    BY <1>1, <1>5, <1>7, <2>1, <2>2, <2>3 DEF HitOK
  <2>5. PICK S : s \in Seq(S)
    BY <1>5 DEF DeliveryOK, RulesOK
  <2>6. \A k \in DOMAIN s : HitOK(job[h].network, due'[h], lists'[h], s[k])
    BY <1>4 DEF FoundedOK
  <2>7. t = Append(s, hit) /\ s \in Seq(S \cup {hit})
    BY <1>2, <1>7, <2>5
  <2> HIDE DEF hit, s, t
  <2>8. \A k \in DOMAIN t : (k \in DOMAIN s /\ t[k] = s[k]) \/ t[k] = hit
    BY <2>7
  <2>9. \A k \in DOMAIN t : HitOK(job[h].network, due'[h], lists'[h], t[k])
    BY <2>4, <2>6, <2>8
  <2> QED
    BY <1>1, <2>9 DEF t
<1> QED
  BY <1>6, <1>7

(* A merged report is founded on the rules it is merged from.              *)
LEMMA MergeFounds ==
    ASSUME IInv, NEW h \in Handlers, FoundedOK(h)
    PROVE  \A report \in MergeByRecipients(job[h].network, job[h].triggered) :
             Founded(due[h], lists[h], report)
<1> DEFINE triggered == job[h].triggered
           network   == job[h].network
<1>1. PICK S : triggered \in Seq(S)
  BY DEF IInv, DeliveryOK, RulesOK
<1>2. \A k \in DOMAIN triggered :
        /\ triggered[k].vectors # {}
        /\ \A v \in triggered[k].vectors :
             <<network, triggered[k].id, v, triggered[k].threshold>> \in due[h]
        /\ \E who \in {triggered[k].id, triggered[k].user_id} :
             <<who, triggered[k].recipients>> \in lists[h]
  BY DEF FoundedOK, HitOK
<1> HIDE DEF triggered, network
<1>3. ASSUME NEW r \in MergeByRecipients(network, triggered)
      PROVE  Founded(due[h], lists[h], r)
  <2>1. /\ r.network_id = network
        /\ \E k \in DOMAIN triggered :
             /\ triggered[k].id \in r.rules /\ triggered[k].user_id \in r.authors
             /\ r.recipients = triggered[k].recipients
        /\ \A v \in r.risk_types : \E k \in DOMAIN triggered :
             triggered[k].id \in r.rules /\ v \in triggered[k].vectors
        /\ r.threshold = "WARNING" => \E k \in DOMAIN triggered :
             triggered[k].id \in r.rules /\ triggered[k].threshold = "WARNING"
    BY <1>1, MergeCovers
  <2>2. ASSUME NEW v \in r.risk_types
        PROVE  \E d \in due[h] : d[1] = r.network_id /\ d[2] \in r.rules /\ d[3] = v
    <3>1. PICK k \in DOMAIN triggered : triggered[k].id \in r.rules /\ v \in triggered[k].vectors
      BY <2>1
    <3>2. <<network, triggered[k].id, v, triggered[k].threshold>> \in due[h]
      BY <1>2, <3>1
    <3> QED
      BY <2>1, <3>1, <3>2
  <2>3. ASSUME r.threshold = "WARNING"
        PROVE  \E d \in due[h] : d[2] \in r.rules /\ d[4] = "WARNING"
    <3>1. PICK k \in DOMAIN triggered :
            triggered[k].id \in r.rules /\ triggered[k].threshold = "WARNING"
      BY <2>1, <2>3
    <3>2. PICK v \in triggered[k].vectors : TRUE
      BY <1>2
    <3>3. <<network, triggered[k].id, v, triggered[k].threshold>> \in due[h]
      BY <1>2
    <3> QED
      BY <3>1, <3>3
  <2>4. \E who \in r.rules \cup r.authors : <<who, r.recipients>> \in lists[h]
    <3>1. PICK k \in DOMAIN triggered :
            /\ triggered[k].id \in r.rules /\ triggered[k].user_id \in r.authors
            /\ r.recipients = triggered[k].recipients
      BY <2>1
    <3> QED
      BY <1>2, <3>1
  <2> QED
    BY <2>2, <2>3, <2>4 DEF Founded
<1> QED
  BY <1>3 DEF triggered, network

(* Every triggered rule and every report rests on the logs: after every    *)
(* step, too.                                                              *)
LEMMA FoundedStep ==
    ASSUME IInv, HNext, NEW h \in Handlers, HeldOK(h), HeldOK(h)', FoundedOK(h)
    PROVE  FoundedOK(h)'
<1>1. DOMAIN <<>> = {}
  OBVIOUS
<1>2. CASE StartsAfresh(h)
  BY <1>1, <1>2 DEF StartsAfresh, Fresh, FoundedOK
<1>3. CASE Idles(h)
  <2>1. due[h] \subseteq due'[h] /\ lists[h] \subseteq lists'[h] /\ told'[h] = told[h]
    BY <1>3 DEF Idles
  <2>2. \A report \in job[h].reports \cup told[h] : Founded(due'[h], lists'[h], report)
    BY <2>1, FoundedStays DEF FoundedOK
  <2>3. CASE Passes(h)
    <3>1. \A k \in DOMAIN job'[h].triggered :
            HitOK(job'[h].network, due'[h], lists'[h], job'[h].triggered[k])
      BY <2>1, <2>3, HitStays DEF Passes, FoundedOK
    <3> QED
      BY <2>1, <2>2, <2>3, <3>1 DEF Passes, FoundedOK
  <2>4. CASE Dies(h)
    BY <1>1, <2>1, <2>2, <2>4 DEF Dies, Fresh, FoundedOK
  <2> QED
    BY <1>3, <2>3, <2>4 DEF Idles
<1>4. CASE Works(h)
  <2>1. /\ due[h] \subseteq due'[h] /\ lists[h] \subseteq lists'[h]
        /\ told'[h] = told[h] \cup Handed(h)
    BY <1>4 DEF Works
  <2>2. \A report \in job[h].reports \cup told[h] : Founded(due'[h], lists'[h], report)
    BY <2>1, FoundedStays DEF FoundedOK
  <2>3. Handed(h) \subseteq job[h].reports
    BY DEF Handed
  <2>4. \A report \in told'[h] : Founded(due'[h], lists'[h], report)
    BY <2>1, <2>2, <2>3
  <2>5. \A report \in job'[h].reports : Founded(due'[h], lists'[h], report)
    <3>1. CASE job'[h].reports \subseteq job[h].reports
      BY <2>2, <3>1
    <3>2. CASE Merge(h)
      <4>1. \A report \in job'[h].reports : Founded(due[h], lists[h], report)
        BY <3>2, MergeDoes, MergeFounds
      <4> QED
        BY <2>1, <4>1, FoundedStays
    <3>3. CASE ListNetworks(h) \/ LoadRules(h) \/ Fetch(h) \/ Resolve(h) \/ Send(h) \/ SendFails(h)
      BY <3>1, <3>3, ListNetworksDoes, LoadRulesDoes, FetchDoes, ResolveDoes, SendDoes
    <3>4. CASE FetchNothing(h) \/ EndNetwork(h) \/ EndRun(h) \/ RaiseOnDatabase(h)
      BY <3>1, <3>4, ReturnDoes, EndDoes DEF Fresh
    <3> QED
      BY <1>4, <3>2, <3>3, <3>4 DEF Works, Progress
  <2>6. \A k \in DOMAIN job'[h].triggered :
          HitOK(job'[h].network, due'[h], lists'[h], job'[h].triggered[k])
    <3>1. CASE job'[h].triggered = <<>>
      BY <1>1, <3>1
    <3>2. CASE Resolve(h)
      BY <1>4, <3>2, ResolveFounds
    <3>3. CASE Merge(h) \/ Send(h) \/ SendFails(h)
      <4>1. /\ job'[h].network = job[h].network /\ job'[h].loaded = job[h].loaded
            /\ job'[h].triggered = job[h].triggered
        BY <3>3, MergeDoes, SendDoes
      <4> QED
        BY <2>1, <4>1, HitStays DEF FoundedOK
    <3>4. CASE ListNetworks(h) \/ LoadRules(h) \/ Fetch(h)
      <4>1. job[h].pc \notin {"resolve", "send"} /\ job'[h].triggered = job[h].triggered
        BY <3>4, ListNetworksDoes, LoadRulesDoes, FetchDoes
      <4> QED
        BY <3>1, <4>1 DEF IInv, DeliveryOK, RulesOK
    <3>5. CASE FetchNothing(h) \/ EndNetwork(h) \/ EndRun(h) \/ RaiseOnDatabase(h)
      BY <3>1, <3>5, ReturnDoes, EndDoes DEF Fresh
    <3> QED
      BY <1>4, <3>2, <3>3, <3>4, <3>5 DEF Works, Progress
  <2> QED
    BY <2>4, <2>5, <2>6 DEF FoundedOK
<1> QED
  BY <1>2, <1>3, <1>4, PagesTurn


(* What the rows call for is behind a report, or on its way to one: its    *)
(* rule is still to be looked at, or has triggered.                        *)
Covers(report, d) ==
    /\ report.network_id = d[1] /\ d[2] \in report.rules /\ d[3] \in report.risk_types
    /\ d[4] = "WARNING" => report.threshold = "WARNING"

Awaits(j, d) ==
    /\ j.pc = "resolve" /\ d \in CalledFor(j)
    /\ \/ d[2] \in j.pending
       \/ \E k \in DOMAIN j.triggered :
            /\ j.triggered[k].id = d[2] /\ d[3] \in j.triggered[k].vectors
            /\ j.triggered[k].threshold = d[4]

CoveredOK(h) ==
    job[h].pc \in Running \cup {"done"} =>
        \A d \in due[h] :
            \/ \E report \in job[h].reports \cup told[h] : Covers(report, d)
            \/ Awaits(job[h], d)

(* Looking at a rule forgets nothing that is still to be told.             *)
LEMMA ResolveCovers ==
    ASSUME IInv, NEW h \in Handlers, HeldOK(h), Resolve(h), NEW d, Awaits(job[h], d)
    PROVE  Awaits(job'[h], d)
<1>1. /\ job'[h].network = job[h].network /\ job'[h].loaded = job[h].loaded
      /\ job'[h].rows = job[h].rows /\ job'[h].pc = "resolve"
  BY ResolveDoes
<1>2. PICK i \in job[h].pending :
        /\ job'[h].pending = job[h].pending \ {i}
        /\ job'[h].triggered = IF TriggeredVectors(job[h].rows, job[h].loaded[i]) = {}
                               THEN job[h].triggered
                               ELSE Append(job[h].triggered, Hit(job[h], i))
  BY ResolveDoes
<1>3. CalledFor(job'[h]) = CalledFor(job[h])
  BY <1>1 DEF CalledFor
<1>4. /\ d[2] \in DOMAIN job[h].loaded /\ d[4] = job[h].loaded[d[2]].threshold
      /\ d[3] \in TriggeredVectors(job[h].rows, job[h].loaded[d[2]])
  <2>1. d \in CalledFor(job[h])
    BY DEF Awaits
  <2>2. /\ \A row \in job[h].rows : row.km_alert \in Nat /\ row.km_warning \in Nat
        /\ \A k \in DOMAIN job[h].loaded : job[h].loaded[k] \in AlertRule
    BY DEF HeldOK
  <2> QED
    BY <2>1, <2>2, CalledForIs
<1> DEFINE s   == job[h].triggered
           t   == job'[h].triggered
           hit == Hit(job[h], i)
<1>5. PICK S : s \in Seq(S)
  BY DEF IInv, DeliveryOK, RulesOK
<1>6. CASE d[2] \in job[h].pending /\ d[2] # i
  BY <1>1, <1>2, <1>3, <1>6 DEF Awaits
<1>7. CASE d[2] = i
  <2>1. /\ hit.id = d[2] /\ hit.threshold = d[4] /\ d[3] \in hit.vectors
    BY <1>4, <1>7 DEF Hit
  <2>2. TriggeredVectors(job[h].rows, job[h].loaded[i]) # {}
    BY <1>4, <1>7
  <2>3. t = Append(s, hit) /\ s \in Seq(S \cup {hit})
    BY <1>2, <1>5, <2>2
  <2> HIDE DEF s, hit
  <2>4. Len(s) + 1 \in DOMAIN t /\ t[Len(s) + 1] = hit
    BY <2>3
  <2>5. \E k \in DOMAIN t : t[k].id = d[2] /\ d[3] \in t[k].vectors /\ t[k].threshold = d[4]
    BY <2>1, <2>4
  <2> QED
    BY <1>1, <1>3, <2>5 DEF Awaits
<1>8. CASE \E k \in DOMAIN s : s[k].id = d[2] /\ d[3] \in s[k].vectors /\ s[k].threshold = d[4]
  <2>1. PICK k \in DOMAIN s : s[k].id = d[2] /\ d[3] \in s[k].vectors /\ s[k].threshold = d[4]
    BY <1>8
  <2>2. t = s \/ (t = Append(s, hit) /\ s \in Seq(S \cup {hit}))
    BY <1>2, <1>5
  <2> HIDE DEF s, hit
  <2>3. k \in DOMAIN t /\ t[k] = s[k]
    BY <1>5, <2>2
  <2>4. \E l \in DOMAIN t : t[l].id = d[2] /\ d[3] \in t[l].vectors /\ t[l].threshold = d[4]
    BY <2>1, <2>3
  <2> QED
    BY <1>1, <1>3, <2>4 DEF Awaits
<1> QED
  BY <1>6, <1>7, <1>8 DEF Awaits

(* All that was called for is told or on its way: after every step, too.   *)
LEMMA CoveredStep ==
    ASSUME IInv, HNext, NEW h \in Handlers, HeldOK(h), HeldOK(h)', CoveredOK(h)
    PROVE  CoveredOK(h)'
<1> DEFINE said    == job[h].reports \cup told[h]
           saidNow == job'[h].reports \cup told'[h]
<1>1. CASE StartsAfresh(h)
  BY <1>1 DEF StartsAfresh, CoveredOK
<1>2. CASE Dies(h)
  BY <1>2 DEF Dies, CoveredOK, Running
<1>3. CASE Idles(h) /\ Passes(h)
  <2>1. job'[h] = job[h] /\ told'[h] = told[h] /\ due'[h] = due[h]
    BY <1>3 DEF Idles, Passes, HeldOK
  <2> QED
    BY <2>1 DEF CoveredOK
<1>4. CASE Works(h)
  <2>1. /\ due'[h] = due[h] \cup CalledFor(job'[h]) /\ told'[h] = told[h] \cup Handed(h)
        /\ job[h].pc \in Running
    BY <1>4, ServesUnderWay DEF Works
  <2>2. ASSUME NEW d \in due[h]
        PROVE  (\E report \in said : Covers(report, d)) \/ Awaits(job[h], d)
    BY <2>1 DEF CoveredOK
  <2>3. ASSUME said \subseteq saidNow, CalledFor(job'[h]) \subseteq due[h],
               job[h].pc # "resolve"
        PROVE  CoveredOK(h)'
    BY <2>1, <2>2, <2>3 DEF CoveredOK, Awaits
  <2>4. job'[h].rows = {} => CalledFor(job'[h]) \subseteq due[h]
    BY NothingCalledFor
  <2>5. CASE RaiseOnDatabase(h) \/ EndRun(h)
    <3>1. job'[h].rows = {} /\ (job'[h].pc = "raised" \/ job[h].pc = "next")
      BY <2>5, EndDoes DEF Fresh
    <3>2. CASE job'[h].pc = "raised"
      BY <3>2 DEF CoveredOK, Running
    <3>3. CASE job[h].pc = "next"
      <4>1. job[h].reports = {}
        BY <3>3 DEF IInv, DeliveryOK, ReportsOK
      <4> QED
        BY <2>1, <2>3, <2>4, <3>1, <3>3, <4>1, EndDoes, <2>5 DEF Fresh
    <3> QED
      BY <3>1, <3>2, <3>3
  <2>6. CASE ListNetworks(h) \/ LoadRules(h)
    <3>1. job'[h].reports = job[h].reports /\ job'[h].rows = {} /\ job[h].pc # "resolve"
      BY <2>6, ListNetworksDoes, LoadRulesDoes DEF HeldOK
    <3> QED
      BY <2>1, <2>3, <2>4, <3>1
  <2>7. CASE FetchNothing(h) \/ EndNetwork(h)
    <3>1. job[h].reports = {} /\ job'[h].rows = {} /\ job[h].pc # "resolve"
      BY <2>7, ReturnDoes DEF Fresh, IInv, DeliveryOK, ReportsOK
    <3> QED
      BY <2>1, <2>3, <2>4, <3>1
  <2>8. CASE Fetch(h)
    <3>1. /\ job'[h].reports = job[h].reports /\ job[h].pc = "fetch" /\ job'[h].pc = "resolve"
          /\ job'[h].pending = DOMAIN job'[h].loaded
      BY <2>8, FetchDoes
    <3>2. \A d \in CalledFor(job'[h]) : Awaits(job'[h], d)
      BY <3>1 DEF Awaits, CalledFor
    <3>3. \A d \in due[h] : \E report \in said : Covers(report, d)
      BY <2>2, <3>1 DEF Awaits
    <3>4. said \subseteq saidNow
      BY <2>1, <3>1
    <3> HIDE DEF said, saidNow
    <3>5. \A d \in due'[h] :
            (\E report \in saidNow : Covers(report, d)) \/ Awaits(job'[h], d)
      BY <2>1, <3>2, <3>3, <3>4
    <3> QED
      BY <3>5 DEF CoveredOK, saidNow
  <2>9. CASE Resolve(h)
    <3>1. /\ job'[h].reports = job[h].reports /\ job'[h].network = job[h].network
          /\ job'[h].loaded = job[h].loaded /\ job'[h].rows = job[h].rows
      BY <2>9, ResolveDoes
    <3>2. due'[h] = due[h]
      <4>1. CalledFor(job'[h]) = CalledFor(job[h])
        BY <3>1 DEF CalledFor
      <4> QED
        BY <2>1, <4>1 DEF HeldOK
    <3>3. said \subseteq saidNow
      BY <2>1, <3>1
    <3> HIDE DEF said, saidNow
    <3>4. \A d \in due'[h] :
            (\E report \in saidNow : Covers(report, d)) \/ Awaits(job'[h], d)
      BY <2>2, <2>9, <3>2, <3>3, ResolveCovers
    <3> QED
      BY <3>4 DEF CoveredOK, saidNow
  <2>10. CASE Merge(h)
    <3>1. /\ job'[h].reports = MergeByRecipients(job[h].network, job[h].triggered)
          /\ job'[h].network = job[h].network /\ job[h].reports = {} /\ job[h].pending = {}
          /\ job'[h].loaded = job[h].loaded /\ job'[h].rows = job[h].rows
      BY <2>10, MergeDoes
    <3>2. due'[h] = due[h]
      <4>1. CalledFor(job'[h]) = CalledFor(job[h])
        BY <3>1 DEF CalledFor
      <4> QED
        BY <2>1, <4>1 DEF HeldOK
    <3>3. ASSUME NEW d, Awaits(job[h], d)
          PROVE  \E report \in job'[h].reports : Covers(report, d)
      <4>1. PICK k \in DOMAIN job[h].triggered :
              /\ job[h].triggered[k].id = d[2] /\ d[3] \in job[h].triggered[k].vectors
              /\ job[h].triggered[k].threshold = d[4]
        BY <3>1, <3>3 DEF Awaits
      <4>2. d[1] = job[h].network
        BY <3>3 DEF Awaits, CalledFor
      <4> DEFINE triggered == job[h].triggered
                 network   == job[h].network
      <4>3. PICK S : triggered \in Seq(S)
        BY DEF IInv, DeliveryOK, RulesOK
      <4>4. k \in DOMAIN triggered
        BY <4>1
      <4> HIDE DEF triggered, network
      <4>5. PICK r \in MergeByRecipients(network, triggered) :
              /\ triggered[k].id \in r.rules /\ triggered[k].vectors \subseteq r.risk_types
              /\ triggered[k].threshold = "WARNING" => r.threshold = "WARNING"
        <5>1. \A l \in DOMAIN triggered : \E r \in MergeByRecipients(network, triggered) :
                /\ triggered[l].id \in r.rules /\ triggered[l].vectors \subseteq r.risk_types
                /\ triggered[l].threshold = "WARNING" => r.threshold = "WARNING"
          BY ONLY <4>3, MergeCovers
        <5> QED
          BY <4>4, <5>1
      <4>6. r.network_id = network
        BY <4>3, MergeCovers
      <4> QED
        BY <3>1, <4>1, <4>2, <4>5, <4>6 DEF Covers, triggered, network
    <3>4. said \subseteq saidNow
      BY <2>1, <3>1
    <3> HIDE DEF said
    <3>5. \A d \in due'[h] : \E report \in saidNow : Covers(report, d)
      BY <2>2, <3>2, <3>3, <3>4
    <3> QED
      BY <3>5 DEF CoveredOK
  <2>11. CASE Send(h) \/ SendFails(h)
    <3>1. /\ job'[h].network = job[h].network /\ job[h].pc = "send" /\ job'[h].pc = "send"
          /\ job'[h].loaded = job[h].loaded /\ job'[h].rows = job[h].rows
      BY <2>11, SendDoes
    <3>2. CalledFor(job'[h]) \subseteq due[h]
      <4>1. CalledFor(job'[h]) = CalledFor(job[h])
        BY <3>1 DEF CalledFor
      <4> QED
        BY <4>1 DEF HeldOK
    <3>3. said \subseteq saidNow
      BY <2>1, <3>1 DEF Handed
    <3> QED
      BY <2>3, <3>1, <3>2, <3>3
  <2> QED
    BY <1>4, <2>5, <2>6, <2>7, <2>8, <2>9, <2>10, <2>11 DEF Works, Progress
<1> QED
  BY <1>1, <1>2, <1>3, <1>4, PagesTurn DEF Idles


-----------------------------------------------------------------------------
(* The theorems                                                            *)

HIInv ==
    /\ IInv
    /\ \A h \in Handlers :
         StirredOK(h) /\ AskedOK(h) /\ HeldOK(h) /\ FoundedOK(h) /\ CoveredOK(h)

(* A run that has not begun has nothing to answer for.                     *)
LEMMA HInitIs == HInit => HIInv
<1> SUFFICES ASSUME HInit PROVE HIInv
  OBVIOUS
<1>1. IInv
  BY InitIs DEF HInit
<1>2. DOMAIN <<>> = {}
  OBVIOUS
<1>3. ASSUME NEW h \in Handlers
      PROVE  StirredOK(h) /\ AskedOK(h) /\ HeldOK(h) /\ FoundedOK(h) /\ CoveredOK(h)
  <2>1. /\ job[h].pc = "idle" /\ Fresh(job[h]) /\ sent[h] = <<>> /\ told[h] = {}
    BY DEF HInit, Init, NoJob, Fresh
  <2>2. "idle" \notin Running \cup {"done"} /\ Free(h)
    BY <2>1 DEF Running, Free, Ended
  <2> QED
    BY <1>2, <2>1, <2>2, NothingCalledFor
       DEF StirredOK, AskedOK, HeldOK, FoundedOK, CoveredOK, Fresh
<1> QED
  BY <1>1, <1>3 DEF HIInv

(* Every step keeps the invariant of the dispatcher with its history.      *)
LEMMA HNextIs == HIInv /\ [HNext]_hvars => HIInv'
<1> SUFFICES ASSUME HIInv, [HNext]_hvars PROVE HIInv'
  OBVIOUS
<1>1. CASE HNext
  <2>1. IInv /\ IInv'
    BY <1>1, NextIs DEF HIInv, HNext
  <2>2. ASSUME NEW h \in Handlers
        PROVE  (StirredOK(h) /\ AskedOK(h) /\ HeldOK(h) /\ FoundedOK(h) /\ CoveredOK(h))'
    <3>1. StirredOK(h) /\ AskedOK(h) /\ HeldOK(h) /\ FoundedOK(h) /\ CoveredOK(h)
      BY DEF HIInv
    <3>2. StirredOK(h)'
      BY <1>1, <2>1, <3>1, StirredStep
    <3>3. AskedOK(h)'
      BY <1>1, <2>1, <3>1, AskedStep
    <3>4. HeldOK(h)'
      BY <1>1, <2>1, <3>1, HeldStep
    <3>5. FoundedOK(h)'
      BY <1>1, <2>1, <3>1, <3>4, FoundedStep
    <3>6. CoveredOK(h)'
      BY <1>1, <2>1, <3>1, <3>4, CoveredStep
    <3> QED
      BY <3>2, <3>3, <3>4, <3>5, <3>6
  <2> QED
    BY <2>1, <2>2 DEF HIInv
<1>2. CASE UNCHANGED hvars
  <2>1. /\ IInv'
        /\ job' = job /\ sent' = sent /\ rules' = rules /\ issued' = issued
        /\ stirred' = stirred /\ calm' = calm /\ lists' = lists /\ asked' = asked
        /\ due' = due /\ told' = told /\ scope' = scope
    BY <1>2, NextIs DEF HIInv, hvars, vars, history
  <2>2. ASSUME NEW h \in Handlers
        PROVE  (StirredOK(h) /\ AskedOK(h) /\ HeldOK(h) /\ FoundedOK(h) /\ CoveredOK(h))'
    <3>1. StirredOK(h) /\ AskedOK(h) /\ HeldOK(h) /\ FoundedOK(h) /\ CoveredOK(h)
      BY DEF HIInv
    <3>2. StirredOK(h)'
      BY <2>1, <3>1 DEF StirredOK, Free
    <3>3. AskedOK(h)'
      BY <2>1, <3>1 DEF AskedOK, Constant, Active, Stored
    <3>4. HeldOK(h)' /\ FoundedOK(h)' /\ CoveredOK(h)'
      BY <2>1, <3>1 DEF HeldOK, FoundedOK, CoveredOK
    <3> QED
      BY <3>2, <3>3, <3>4
  <2> QED
    BY <2>1, <2>2 DEF HIInv
<1> QED
  BY <1>1, <1>2

(* The invariant of the dispatcher and of its logs holds in every state.   *)
THEOREM HistoryInvariance == HSpec => []HIInv
<1> QED
  BY HInitIs, HNextIs, PTL DEF HSpec

(* REQ-0018, REQ-0031: a rule behind a report of dispatch_grid_alerts was  *)
(* active at some moment of its run, whatever the operators edit.          *)
THEOREM OnlyActiveRulesSpeak == HSpec => []ReportedRulesWereActive
<1>1. HIInv => ReportedRulesWereActive
  BY DEF HIInv, StirredOK, ReportedRulesWereActive
<1> QED
  BY <1>1, HistoryInvariance, PTL

(* REQ-0030: on_pipeline_run forgets no network of a rule that was active  *)
(* all along, whatever failed for the networks before it.                  *)
THEOREM EveryNetworkIsAskedFor == HSpec => []NoNetworkForgotten
<1>1. HIInv => NoNetworkForgotten
  <2> SUFFICES ASSUME HIInv, NEW h \in Handlers, job[h].pc = "done",
                      NEW i \in Stored \ calm[h], rules[i].network_id # Unattributed,
                      scope[h] \in {PipelineNamespace, rules[i].network_id}
               PROVE  rules[i].network_id \in asked[h]
    BY DEF NoNetworkForgotten
  <2>1. AskedOK(h) /\ job[h].todo = {}
    BY DEF HIInv, IInv, DeliveryOK, PlaceOK, Ended
  <2>2. i \in RuleIds /\ Constant(h, i)
    BY DEF Constant, Stored
  <2> QED
    BY <2>1, <2>2 DEF AskedOK
<1> QED
  BY <1>1, HistoryInvariance, PTL

(* REQ-0031, REQ-0032, REQ-0038: a run that is done has tried a report for *)
(* every hazard that the fetched rows call for, of every rule it loaded,   *)
(* at its threshold or a lower one, whatever sends failed.                 *)
THEOREM EveryTriggerIsTold == HSpec => []TriggeredRulesAreCovered
<1>1. HIInv => TriggeredRulesAreCovered
  <2> SUFFICES ASSUME HIInv, NEW h \in Handlers, job[h].pc = "done", NEW d \in due[h]
               PROVE  \E report \in told[h] : Covers(report, d)
    BY DEF TriggeredRulesAreCovered, Covers
  <2>1. CoveredOK(h) /\ job[h].reports = {}
    BY DEF HIInv, IInv, DeliveryOK, ReportsOK
  <2> QED
    BY <2>1 DEF CoveredOK, Awaits
<1> QED
  BY <1>1, HistoryInvariance, PTL

(* REQ-0032, REQ-0034: merging adds no hazard and lowers no threshold that *)
(* one of the merged rules does not ask for.                               *)
THEOREM NothingElseIsTold == HSpec => []ReportsNameOnlyWhatTriggered
<1>1. HIInv => ReportsNameOnlyWhatTriggered
  BY DEF HIInv, FoundedOK, Founded, ReportsNameOnlyWhatTriggered
<1> QED
  BY <1>1, HistoryInvariance, PTL

(* REQ-0035: a report goes to a list that one of its rules, or of the      *)
(* operators who filed them, held while the run was under way.             *)
THEOREM ListsComeFromTheRules == HSpec => []RecipientsAreTheOperators
<1>1. HIInv => RecipientsAreTheOperators
  BY DEF HIInv, FoundedOK, Founded, RecipientsAreTheOperators
<1> QED
  BY <1>1, HistoryInvariance, PTL
=============================================================================
