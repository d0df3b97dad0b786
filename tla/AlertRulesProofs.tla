-------------------------- MODULE AlertRulesProofs --------------------------
(***************************************************************************)
(* Theorems of AlertRules, for any number of requests in flight, keys,     *)
(* callers, networks and bodies.                                           *)
(*                                                                         *)
(* The argument: what a request in flight has learned about its row can    *)
(* only become less true by the row going away. A row never changes owner, *)
(* and a key that was handed out is never handed out again, so a row that  *)
(* a session loaded as its caller's is the caller's or gone when the       *)
(* session commits. SlotInv says so for each slot, and Frame shows that    *)
(* the steps of the other slots keep it.                                   *)
(***************************************************************************)
EXTENDS AlertRules, TLAPS

StoredKeysAreIssued == \A i \in RuleIds : rules[i] # NoRow => i \in issued

(* What a request knows once it has selected or inserted its row.          *)
HoldsOwnRow(s) ==
    LET id  == request[s].id
        sub == request[s].caller.sub
    IN  /\ request[s].caller \in Callers
        /\ request[s].op # "list"
        /\ id \in issued
        /\ rules[id] # NoRow => rules[id].user_id = sub
        /\ loaded[s] \in AlertRule
        /\ loaded[s].user_id = sub

SlotInv(s) ==
    /\ pc[s] # "answered" => answer[s] = NoAnswer
    /\ pc[s] = "insert" =>
         /\ request[s].caller \in Callers
         /\ request[s].op = "create"
         /\ request[s].body \in AlertRuleCreate
         /\ ResolveDsoNetwork(request[s].caller) # Null
    /\ pc[s] = "select" =>
         /\ request[s].caller \in Callers
         /\ request[s].id \in RuleIds
         /\ request[s].op \in {"update", "delete"}
    /\ pc[s] \in {"insert", "select", "update"} => NonEmpty(request[s].body.risk_types)
    /\ pc[s] \in {"update", "delete", "refresh"} => HoldsOwnRow(s)
    /\ answer[s] = 204 =>
         /\ request[s].id \in issued
         /\ rules[request[s].id] = NoRow
    /\ answer[s] \in {200, 201} /\ request[s].op # "list" =>
         loaded[s].user_id = request[s].caller.sub

IInv ==
    /\ TypeOK
    /\ StoredKeysAreIssued
    /\ \A s \in Slots : SlotInv(s)

-----------------------------------------------------------------------------
(* The operators                                                           *)

(* resolve_dso_network returns one of the networks, or refuses.            *)
LEMMA ResolvedNetwork ==
    ASSUME NEW user, ResolveDsoNetwork(user) # Null
    PROVE  /\ ResolveDsoNetwork(user) \in Networks
           /\ DsoNetworks(user) = {ResolveDsoNetwork(user)}
<1>1. PICK n \in Networks : DsoNetworks(user) = {n}
  BY DEF ResolveDsoNetwork
<1>2. ResolveDsoNetwork(user) = CHOOSE m \in Networks : DsoNetworks(user) = {m}
  BY <1>1 DEF ResolveDsoNetwork
<1> QED
  BY <1>1, <1>2

(* A create body that validated makes a row of the table.                  *)
LEMMA NewRuleTyped ==
    ASSUME NEW user \in Callers, NEW body \in AlertRuleCreate,
           NonEmpty(body.risk_types), ResolveDsoNetwork(user) # Null
    PROVE  /\ NewRule(user, body) \in AlertRule
           /\ NewRule(user, body).user_id = user.sub
           /\ NewRule(user, body).network_id = ResolveDsoNetwork(user)
<1>1. user.sub \in Subs
  BY AccessAssumption DEF JwtUser
<1>2. ResolveDsoNetwork(user) \in Networks
  BY ResolvedNetwork
<1>3. body.risk_types \in HazardLists
  BY DEF AlertRuleCreate, NonEmpty
<1> QED
  BY <1>1, <1>2, <1>3 DEF NewRule, AlertRule, AlertRuleCreate

(* A PATCH that the database accepts leaves a row of the table, with the   *)
(* owner and the network it had.                                           *)
LEMMA AmendedTyped ==
    ASSUME NEW current \in AlertRule, NEW old, NEW body \in AlertRuleUpdate,
           NonEmpty(body.risk_types), ~Violates(old, body)
    PROVE  /\ Amended(current, old, body) \in AlertRule
           /\ Amended(current, old, body).user_id = current.user_id
           /\ Amended(current, old, body).network_id = current.network_id
<1>1. Dirty(old.threshold, body.threshold) => body.threshold # Null
  BY DEF Violates, DirtyFields, EditableFields, EmptyBody, NotNullFields
<1>2. Dirty(old.active, body.active) => body.active # Null
  BY DEF Violates, DirtyFields, EditableFields, EmptyBody, NotNullFields
<1>3. Written(current.risk_types, old.risk_types, body.risk_types) \in {Null} \cup HazardLists
  BY DEF Written, Dirty, AlertRule, AlertRuleUpdate, NonEmpty
<1>4. Written(current.threshold, old.threshold, body.threshold) \in Thresholds
  BY <1>1 DEF Written, Dirty, AlertRule, AlertRuleUpdate
<1>5. Written(current.recipients, old.recipients, body.recipients) \in {Null} \cup Texts
  BY DEF Written, Dirty, AlertRule, AlertRuleUpdate
<1>6. Written(current.active, old.active, body.active) \in BOOLEAN
  BY <1>2 DEF Written, Dirty, AlertRule, AlertRuleUpdate
<1> QED
  BY <1>3, <1>4, <1>5, <1>6 DEF Amended, AlertRule
-----------------------------------------------------------------------------
(* What every step does to the table                                       *)

(* Keys stay issued, a row that was issued keeps its owner until it goes,  *)
(* and does not come back.                                                 *)
TableStep ==
    /\ issued \subseteq issued'
    /\ \A i \in issued : rules'[i] # NoRow =>
         rules[i] # NoRow /\ rules'[i].user_id = rules[i].user_id

SlotUnchanged(s) ==
    /\ pc'[s] = pc[s]
    /\ request'[s] = request[s]
    /\ loaded'[s] = loaded[s]
    /\ answer'[s] = answer[s]

(* The slots that a step does not serve keep what they know.               *)
LEMMA Frame ==
    ASSUME NEW s \in Slots, SlotInv(s), TableStep, SlotUnchanged(s)
    PROVE  SlotInv(s)'
<1>1. HoldsOwnRow(s) => HoldsOwnRow(s)'
  BY DEF HoldsOwnRow, TableStep, SlotUnchanged
<1>2. answer[s] = 204 => /\ request'[s].id \in issued'
                         /\ rules'[request'[s].id] = NoRow
  BY DEF SlotInv, TableStep, SlotUnchanged
<1> QED
  BY <1>1, <1>2 DEF SlotInv, SlotUnchanged, NonEmpty

(* A step that leaves the table alone.                                     *)
LEMMA TableUntouched ==
    ASSUME UNCHANGED <<rules, issued>>
    PROVE  TableStep
BY DEF TableStep

-----------------------------------------------------------------------------
(* The steps of a request that do not write                                *)

(* The request of an idle slot is a request.                               *)
LEMMA IdleTyped == Idle \in Request /\ NonEmpty(EmptyBody.risk_types)
BY ModelsAssumption DEF Idle, Request, EmptyBody, AlertRuleUpdate, NonEmpty

(* A request that ends in an error keeps nothing but its status.           *)
LEMMA ErrorStep ==
    ASSUME IInv, NEW s \in Slots, NEW status \in {403, 404, 422, 500},
           Error(s, status), TableStep, StoredKeysAreIssued',
           rules' \in [RuleIds -> AlertRule \cup {NoRow}], issued' \subseteq RuleIds
    PROVE  IInv'
<1>1. TypeOK'
  BY IdleTyped DEF IInv, TypeOK, Error, Answer, Statuses
<1>2. SlotInv(s)'
  BY DEF IInv, TypeOK, Error, Answer, SlotInv
<1>3. ASSUME NEW t \in Slots, t # s PROVE SlotInv(t)'
  <2>1. SlotUnchanged(t)
    BY <1>3 DEF IInv, TypeOK, Error, Answer, SlotUnchanged
  <2> QED
    BY <1>3, <2>1, Frame DEF IInv
<1> QED
  BY <1>1, <1>2, <1>3 DEF IInv

(* A request that the dependencies let through.                            *)
LEMMA AcceptStep ==
    ASSUME IInv, NEW s \in Slots, NEW op \in {"create", "update", "delete"},
           NEW user \in Callers, NEW id \in RuleIds \cup {Null}, NEW body \in AlertRuleUpdate,
           NEW first \in {"insert", "select"}, Accept(s, op, user, id, body, first),
           NonEmpty(body.risk_types),
           first = "insert" => /\ op = "create"
                               /\ body \in AlertRuleCreate
                               /\ ResolveDsoNetwork(user) # Null,
           first = "select" => op \in {"update", "delete"} /\ id \in RuleIds
    PROVE  IInv'
<1> DEFINE r == [op |-> op, caller |-> user, id |-> id, body |-> body]
<1>0. r \in Request
  BY DEF Request
<1>1. TypeOK'
  BY <1>0 DEF IInv, TypeOK, Accept, Working
<1>2. SlotInv(s)'
  BY DEF IInv, TypeOK, Accept, SlotInv, NoAnswer
<1>3. ASSUME NEW t \in Slots, t # s PROVE SlotInv(t)'
  <2>1. SlotUnchanged(t)
    BY <1>3 DEF IInv, TypeOK, Accept, SlotUnchanged
  <2>2. TableStep
    BY TableUntouched DEF Accept
  <2> QED
    BY <1>3, <2>1, <2>2, Frame DEF IInv
<1>4. StoredKeysAreIssued'
  BY DEF IInv, Accept, StoredKeysAreIssued
<1> QED
  BY <1>1, <1>2, <1>3, <1>4 DEF IInv

(* What a POST body holds, a PATCH body may hold.                          *)
LEMMA CreateIsUpdate == AlertRuleCreate \subseteq AlertRuleUpdate
BY DEF AlertRuleCreate, AlertRuleUpdate

(* Refusals and the list change nothing in the table.                      *)
LEMMA RefusalSteps ==
    ASSUME IInv, NEW s \in Slots,
           \/ RefuseByPolicy(s) \/ RefuseBody(s) \/ RefuseNetwork(s)
           \/ ListRules(s)
    PROVE  IInv'
<1>1. CASE RefuseByPolicy(s) \/ RefuseBody(s) \/ RefuseNetwork(s)
  <2>1. UNCHANGED <<rules, issued>>
    BY <1>1 DEF RefuseByPolicy, RefuseBody, RefuseNetwork
  <2>2. PICK status \in {403, 422} : Error(s, status)
    BY <1>1 DEF RefuseByPolicy, RefuseBody, RefuseNetwork
  <2>3. TableStep /\ StoredKeysAreIssued'
    BY <2>1, TableUntouched DEF IInv, StoredKeysAreIssued
  <2> QED
    BY <2>1, <2>2, <2>3, ErrorStep DEF IInv, TypeOK
<1>2. CASE ListRules(s)
  <2> DEFINE listing == [Idle EXCEPT !.op = "list"]
  <2>1. PICK user \in Callers :
          /\ request' = [request EXCEPT ![s] = listing]
          /\ Answer(s, ListStatus(user), NoRow)
    BY <1>2 DEF ListRules
  <2>0. ListStatus(user) \in {200, 500}
    BY DEF ListStatus
  <2>2. listing \in Request /\ listing.op = "list"
    BY IdleTyped DEF Request
  <2> HIDE DEF listing
  <2>3. UNCHANGED <<rules, issued>>
    BY <1>2 DEF ListRules
  <2>4. TypeOK'
    BY <2>0, <2>1, <2>2, <2>3 DEF IInv, TypeOK, Answer, Statuses
  <2>5. SlotInv(s)'
    BY <2>0, <2>1, <2>2, <2>3 DEF IInv, TypeOK, Answer, SlotInv
  <2>6. ASSUME NEW t \in Slots, t # s PROVE SlotInv(t)'
    <3>1. SlotUnchanged(t)
      BY <2>1, <2>6 DEF IInv, TypeOK, Answer, SlotUnchanged
    <3> QED
      BY <2>3, <2>6, <3>1, Frame, TableUntouched DEF IInv
  <2> QED
    BY <2>3, <2>4, <2>5, <2>6 DEF IInv, StoredKeysAreIssued
<1> QED
  BY <1>1, <1>2

(* The writes that reach the database.                                     *)
LEMMA BeginSteps ==
    ASSUME IInv, NEW s \in Slots, BeginCreate(s) \/ BeginUpdate(s) \/ BeginDelete(s)
    PROVE  IInv'
<1>1. CASE BeginCreate(s)
  BY <1>1, AcceptStep, CreateIsUpdate, RulesAssumption DEF BeginCreate
<1>2. CASE BeginUpdate(s)
  BY <1>2, AcceptStep, RulesAssumption DEF BeginUpdate
<1>3. CASE BeginDelete(s)
  <2>1. EmptyBody \in AlertRuleUpdate
    BY DEF EmptyBody, AlertRuleUpdate
  <2> QED
    BY <1>3, <2>1, AcceptStep, IdleTyped DEF BeginDelete
<1> QED
  BY <1>1, <1>2, <1>3

-----------------------------------------------------------------------------
(* The statements of a request that is under way                           *)

(* The SELECT of a PATCH or a DELETE.                                      *)
LEMMA SelectStep ==
    ASSUME IInv, NEW s \in Slots, Select(s)
    PROVE  IInv'
<1> DEFINE row == rules[request[s].id]
<1>1. pc[s] = "select" /\ UNCHANGED <<rules, issued>>
  BY DEF Select
<1>2. TableStep /\ StoredKeysAreIssued'
  BY <1>1, TableUntouched DEF IInv, StoredKeysAreIssued
<1>3. CASE Error(s, 404)
  BY <1>1, <1>2, <1>3, ErrorStep DEF IInv, TypeOK
<1>4. CASE /\ Owned(row, request[s].caller.sub)
           /\ loaded' = [loaded EXCEPT ![s] = row]
           /\ pc' = [pc EXCEPT ![s] = request[s].op]
           /\ UNCHANGED <<request, answer>>
  <2>1. row \in AlertRule /\ request[s].id \in issued
    BY <1>1, <1>4 DEF IInv, TypeOK, SlotInv, StoredKeysAreIssued, Owned
  <2>2. TypeOK'
    BY <1>1, <1>4, <2>1 DEF IInv, TypeOK, SlotInv, Working
  <2>3. SlotInv(s)'
    BY <1>1, <1>4, <2>1 DEF IInv, TypeOK, SlotInv, HoldsOwnRow, Owned, NoAnswer, NonEmpty
  <2>4. ASSUME NEW t \in Slots, t # s PROVE SlotInv(t)'
    <3>1. SlotUnchanged(t)
      BY <1>4, <2>4 DEF IInv, TypeOK, SlotUnchanged
    <3> QED
      BY <1>2, <2>4, <3>1, Frame DEF IInv
  <2> QED
    BY <1>2, <2>2, <2>3, <2>4 DEF IInv
<1> QED
  BY <1>3, <1>4 DEF Select

(* The INSERT of a POST: the key is fresh, the row its caller's.           *)
LEMMA CommitCreateStep ==
    ASSUME IInv, NEW s \in Slots, CommitCreate(s)
    PROVE  IInv' /\ TableStep
<1> DEFINE new == NewRule(request[s].caller, request[s].body)
<1>1. PICK i \in FreshIds :
        /\ rules' = [rules EXCEPT ![i] = new]
        /\ issued' = issued \cup {i}
        /\ request' = [request EXCEPT ![s].id = i]
        /\ loaded' = [loaded EXCEPT ![s] = new]
  BY DEF CommitCreate
<1>2. /\ pc[s] = "insert"
      /\ pc' = [pc EXCEPT ![s] = "refresh"]
      /\ answer' = answer
  BY DEF CommitCreate
<1>3. i \in RuleIds /\ i \notin issued
  BY DEF FreshIds
<1>4. /\ new \in AlertRule
      /\ new.user_id = request[s].caller.sub
      /\ request[s].caller \in Callers
      /\ request[s].op = "create"
  BY <1>2, NewRuleTyped DEF IInv, SlotInv
<1>5. TableStep
  BY <1>1, <1>3 DEF TableStep, IInv, TypeOK
<1>6. StoredKeysAreIssued'
  BY <1>1, <1>3 DEF StoredKeysAreIssued, IInv, TypeOK
<1>7. TypeOK'
  <2>1. request' \in [Slots -> Request]
    BY <1>1, <1>3 DEF IInv, TypeOK, Request
  <2> QED
    BY <1>1, <1>2, <1>3, <1>4, <2>1 DEF IInv, TypeOK, Working
<1>8. SlotInv(s)'
  <2>1. request'[s] = [request[s] EXCEPT !.id = i]
    BY <1>1 DEF IInv, TypeOK
  <2>2. request[s] \in Request
    BY DEF IInv, TypeOK
  <2>3. /\ request'[s].id = i
        /\ request'[s].caller = request[s].caller
        /\ request'[s].op = "create"
    BY <1>4, <2>1, <2>2 DEF Request
  <2>4. HoldsOwnRow(s)'
    BY <1>1, <1>3, <1>4, <2>3 DEF HoldsOwnRow, IInv, TypeOK
  <2> QED
    BY <1>2, <2>3, <2>4 DEF IInv, TypeOK, SlotInv, NoAnswer
<1>9. ASSUME NEW t \in Slots, t # s PROVE SlotInv(t)'
  <2>1. SlotUnchanged(t)
    BY <1>1, <1>2, <1>9 DEF IInv, TypeOK, SlotUnchanged
  <2> QED
    BY <1>5, <1>9, <2>1, Frame DEF IInv
<1> QED
  BY <1>5, <1>6, <1>7, <1>8, <1>9 DEF IInv

(* The row that a PATCH commits to, when it commits.                       *)
LEMMA CommitUpdateRow ==
    ASSUME IInv, NEW s \in Slots, CommitUpdate(s), rules' # rules
    PROVE  LET id == request[s].id
           IN  /\ id \in issued /\ id \in RuleIds
               /\ rules[id] \in AlertRule
               /\ request[s].caller.sub = rules[id].user_id
               /\ rules' = [rules EXCEPT ![id] = Amended(@, loaded[s], request[s].body)]
               /\ rules'[id] \in AlertRule
               /\ rules'[id].user_id = rules[id].user_id
               /\ rules'[id].network_id = rules[id].network_id
<1> DEFINE id == request[s].id
<1>1. /\ pc[s] = "update"
      /\ ~Violates(loaded[s], request[s].body)
      /\ rules[id] # NoRow
      /\ rules' = [rules EXCEPT ![id] = Amended(@, loaded[s], request[s].body)]
  BY DEF CommitUpdate
<1>2. id \in issued /\ id \in RuleIds /\ request[s].caller.sub = rules[id].user_id
  BY <1>1 DEF IInv, TypeOK, SlotInv, HoldsOwnRow
<1>3. rules[id] \in AlertRule
  BY <1>1, <1>2 DEF IInv, TypeOK
<1>4. request[s].body \in AlertRuleUpdate /\ NonEmpty(request[s].body.risk_types)
  BY <1>1 DEF IInv, TypeOK, Request, SlotInv
<1>5. rules'[id] = Amended(rules[id], loaded[s], request[s].body)
  BY <1>1, <1>2 DEF IInv, TypeOK
<1> HIDE DEF id
<1>6. /\ rules'[id] \in AlertRule
      /\ rules'[id].user_id = rules[id].user_id
      /\ rules'[id].network_id = rules[id].network_id
  BY <1>1, <1>3, <1>4, <1>5, AmendedTyped
<1> QED
  BY <1>1, <1>2, <1>3, <1>6 DEF id

(* The UPDATE of a PATCH, or its 500.                                      *)
LEMMA CommitUpdateStep ==
    ASSUME IInv, NEW s \in Slots, CommitUpdate(s)
    PROVE  IInv' /\ TableStep
<1> DEFINE id == request[s].id
<1>1. pc[s] = "update" /\ issued' = issued
  BY DEF CommitUpdate
<1>2. TableStep /\ StoredKeysAreIssued' /\ rules' \in [RuleIds -> AlertRule \cup {NoRow}]
  <2>1. CASE rules' = rules
    BY <1>1, <2>1 DEF TableStep, IInv, StoredKeysAreIssued, TypeOK
  <2>2. CASE rules' # rules
    <3>1. /\ id \in issued /\ id \in RuleIds
          /\ rules[id] \in AlertRule
          /\ rules' = [rules EXCEPT ![id] = Amended(@, loaded[s], request[s].body)]
          /\ rules'[id] \in AlertRule
          /\ rules'[id].user_id = rules[id].user_id
      BY <2>2, CommitUpdateRow
    <3>2. \A i \in RuleIds : i # id => rules'[i] = rules[i]
      BY <3>1 DEF IInv, TypeOK
    <3>3. rules[id] # NoRow
      BY <3>1, ModelsAssumption
    <3>4. rules' \in [RuleIds -> AlertRule \cup {NoRow}]
      <4>1. DOMAIN rules' = RuleIds /\ rules' = [i \in RuleIds |-> rules'[i]]
        BY <3>1 DEF IInv, TypeOK
      <4>2. \A i \in RuleIds : rules'[i] \in AlertRule \cup {NoRow}
        BY <3>1, <3>2 DEF IInv, TypeOK
      <4> QED
        BY <4>1, <4>2
    <3> QED
      BY <1>1, <3>1, <3>2, <3>3, <3>4 DEF TableStep, IInv, StoredKeysAreIssued, TypeOK
  <2> QED
    BY <2>1, <2>2
<1>3. CASE Error(s, 500)
  BY <1>1, <1>2, <1>3, ErrorStep DEF IInv, TypeOK
<1>4. CASE /\ pc' = [pc EXCEPT ![s] = "refresh"]
           /\ UNCHANGED <<request, loaded, answer>>
  <2>1. TypeOK'
    BY <1>1, <1>2, <1>4 DEF IInv, TypeOK, Working
  <2>2. HoldsOwnRow(s)'
    BY <1>1, <1>2, <1>4 DEF IInv, SlotInv, HoldsOwnRow, TableStep
  <2>3. SlotInv(s)'
    BY <1>1, <1>4, <2>2 DEF IInv, TypeOK, SlotInv, NoAnswer
  <2>4. ASSUME NEW t \in Slots, t # s PROVE SlotInv(t)'
    <3>1. SlotUnchanged(t)
      BY <1>4, <2>4 DEF IInv, TypeOK, SlotUnchanged
    <3> QED
      BY <1>2, <2>4, <3>1, Frame DEF IInv
  <2> QED
    BY <1>2, <2>1, <2>3, <2>4 DEF IInv
<1> QED
  BY <1>2, <1>3, <1>4 DEF CommitUpdate

(* The row that a DELETE removes, acknowledged or not.                     *)
LEMMA RemovalStep ==
    ASSUME IInv, NEW s \in Slots, pc[s] = "delete",
           rules' = [rules EXCEPT ![request[s].id] = NoRow], issued' = issued
    PROVE  /\ request[s].id \in issued
           /\ rules'[request[s].id] = NoRow
           /\ rules[request[s].id] # NoRow =>
                rules[request[s].id].user_id = request[s].caller.sub
           /\ TableStep
           /\ StoredKeysAreIssued'
           /\ rules' \in [RuleIds -> AlertRule \cup {NoRow}]
<1>1. /\ request[s].id \in issued
      /\ request[s].id \in RuleIds
      /\ rules[request[s].id] # NoRow => rules[request[s].id].user_id = request[s].caller.sub
  BY DEF IInv, TypeOK, SlotInv, HoldsOwnRow
<1> QED
  BY <1>1 DEF IInv, TypeOK, StoredKeysAreIssued, TableStep

(* The DELETE and its 204.                                                 *)
LEMMA CommitDeleteStep ==
    ASSUME IInv, NEW s \in Slots, CommitDelete(s)
    PROVE  IInv' /\ TableStep
<1>1. /\ pc[s] = "delete"
      /\ rules' = [rules EXCEPT ![request[s].id] = NoRow]
      /\ Answer(s, 204, NoRow)
      /\ issued' = issued
      /\ request' = request
  BY DEF CommitDelete
<1>2. /\ request[s].id \in issued
      /\ rules'[request[s].id] = NoRow
      /\ TableStep
      /\ StoredKeysAreIssued'
      /\ rules' \in [RuleIds -> AlertRule \cup {NoRow}]
  BY <1>1, RemovalStep
<1>3. TypeOK'
  BY <1>1, <1>2 DEF IInv, TypeOK, Answer, Statuses
<1>4. SlotInv(s)'
  BY <1>1, <1>2 DEF IInv, TypeOK, Answer, SlotInv
<1>5. ASSUME NEW t \in Slots, t # s PROVE SlotInv(t)'
  <2>1. SlotUnchanged(t)
    BY <1>1, <1>5 DEF IInv, TypeOK, Answer, SlotUnchanged
  <2> QED
    BY <1>2, <1>5, <2>1, Frame DEF IInv
<1> QED
  BY <1>2, <1>3, <1>4, <1>5 DEF IInv

(* The row read back is still the caller's.                                *)
LEMMA RefreshStep ==
    ASSUME IInv, NEW s \in Slots, Refresh(s)
    PROVE  IInv'
<1> DEFINE row == rules[request[s].id]
           status == IF request[s].op = "create" THEN 201 ELSE 200
<1>1. pc[s] = "refresh" /\ UNCHANGED <<rules, issued>>
  BY DEF Refresh
<1>2. TableStep /\ StoredKeysAreIssued'
  BY <1>1, TableUntouched DEF IInv, StoredKeysAreIssued
<1>3. CASE Error(s, 500)
  BY <1>1, <1>2, <1>3, ErrorStep DEF IInv, TypeOK
<1>4. CASE row # NoRow /\ Answer(s, status, row) /\ UNCHANGED request
  <2>1. /\ request[s].id \in RuleIds
        /\ row \in AlertRule
        /\ row.user_id = request[s].caller.sub
    BY <1>1, <1>4 DEF IInv, TypeOK, SlotInv, HoldsOwnRow
  <2>2. status \in {200, 201}
    OBVIOUS
  <2> HIDE DEF row, status
  <2>3. TypeOK'
    BY <1>1, <1>4, <2>1, <2>2 DEF IInv, TypeOK, Answer, Statuses
  <2>4. SlotInv(s)'
    BY <1>1, <1>4, <2>1, <2>2 DEF IInv, TypeOK, Answer, SlotInv
  <2>5. ASSUME NEW t \in Slots, t # s PROVE SlotInv(t)'
    <3>1. SlotUnchanged(t)
      BY <1>4, <2>5 DEF IInv, TypeOK, Answer, SlotUnchanged
    <3> QED
      BY <1>2, <2>5, <3>1, Frame DEF IInv
  <2> QED
    BY <1>2, <2>3, <2>4, <2>5 DEF IInv
<1> QED
  BY <1>3, <1>4 DEF Refresh

(* A failed statement, its transaction applied or not.                     *)
LEMMA FailStep ==
    ASSUME IInv, NEW s \in Slots, Fail(s)
    PROVE  IInv' /\ TableStep
<1>1. issued' = issued /\ Error(s, 500)
  BY DEF Fail
<1>2. /\ TableStep
      /\ StoredKeysAreIssued'
      /\ rules' \in [RuleIds -> AlertRule \cup {NoRow}]
  <2>1. CASE rules' = rules
    BY <1>1, <2>1, TableUntouched DEF IInv, TypeOK, StoredKeysAreIssued
  <2>2. CASE pc[s] = "delete" /\ rules' = [rules EXCEPT ![request[s].id] = NoRow]
    BY <1>1, <2>2, RemovalStep
  <2> QED
    BY <2>1, <2>2 DEF Fail
<1> QED
  BY <1>1, <1>2, ErrorStep DEF IInv, TypeOK

(* A crash loses requests in flight and nothing else.                      *)
LEMMA CrashStep ==
    ASSUME IInv, Crash
    PROVE  IInv'
<1>1. UNCHANGED <<rules, issued, answer>>
  BY DEF Crash
<1>2. TypeOK'
  BY <1>1, IdleTyped DEF IInv, TypeOK, Crash, Free
<1>3. ASSUME NEW s \in Slots PROVE SlotInv(s)'
  <2>1. CASE Free(s)
    <3>1. SlotUnchanged(s)
      BY <1>1, <2>1 DEF IInv, TypeOK, Crash, Free, SlotUnchanged
    <3> QED
      BY <1>1, <3>1, Frame, TableUntouched DEF IInv
  <2>2. CASE ~Free(s)
    BY <1>1, <2>2 DEF IInv, TypeOK, Crash, Free, SlotInv, NoAnswer
  <2> QED
    BY <2>1, <2>2
<1> QED
  BY <1>1, <1>2, <1>3 DEF IInv, StoredKeysAreIssued

-----------------------------------------------------------------------------
(* The invariant                                                           *)

(* The table may start with rows of migration 002, and no request.         *)
LEMMA InitHolds == Init => IInv
<1> SUFFICES ASSUME Init PROVE IInv
  OBVIOUS
<1>1. TypeOK
  BY IdleTyped, RulesAssumption DEF Init, TypeOK, NoAnswer
<1>2. StoredKeysAreIssued
  BY DEF Init, StoredKeysAreIssued
<1>3. \A s \in Slots : SlotInv(s)
  BY DEF Init, SlotInv, NoAnswer
<1> QED
  BY <1>1, <1>2, <1>3 DEF IInv

(* Every step keeps the invariant, and treats the table as TableStep says. *)
LEMMA StepHolds == IInv /\ [Next]_vars => IInv' /\ TableStep
<1> SUFFICES ASSUME IInv, [Next]_vars PROVE IInv' /\ TableStep
  OBVIOUS
<1>1. ASSUME NEW s \in Slots,
             \/ RefuseByPolicy(s) \/ RefuseBody(s) \/ RefuseNetwork(s) \/ ListRules(s)
      PROVE  IInv' /\ TableStep
  BY <1>1, RefusalSteps, TableUntouched
     DEF RefuseByPolicy, RefuseBody, RefuseNetwork, ListRules
<1>2. ASSUME NEW s \in Slots, BeginCreate(s) \/ BeginUpdate(s) \/ BeginDelete(s)
      PROVE  IInv' /\ TableStep
  BY <1>2, BeginSteps, TableUntouched DEF BeginCreate, BeginUpdate, BeginDelete, Accept
<1>3. ASSUME NEW s \in Slots, Select(s) \/ Refresh(s)
      PROVE  IInv' /\ TableStep
  BY <1>3, SelectStep, RefreshStep, TableUntouched DEF Select, Refresh
<1>4. ASSUME NEW s \in Slots,
             CommitCreate(s) \/ CommitUpdate(s) \/ CommitDelete(s) \/ Fail(s)
      PROVE  IInv' /\ TableStep
  BY <1>4, CommitCreateStep, CommitUpdateStep, CommitDeleteStep, FailStep
<1>5. CASE Crash
  BY <1>5, CrashStep, TableUntouched DEF Crash
<1>6. CASE UNCHANGED vars
  <2>1. /\ UNCHANGED <<rules, issued, pc, request, loaded, answer>>
        /\ TableStep
    BY <1>6, TableUntouched DEF vars
  <2>2. \A s \in Slots : SlotInv(s)'
    BY <2>1, Frame DEF IInv, SlotUnchanged
  <2> QED
    BY <2>1, <2>2 DEF IInv, TypeOK, StoredKeysAreIssued
<1> QED
  BY <1>1, <1>2, <1>3, <1>4, <1>5, <1>6 DEF Next, Serve

(* The inductive invariant holds in every reachable state.                 *)
THEOREM Invariance == Spec => []IInv
<1>1. Init => IInv
  BY InitHolds
<1>2. IInv /\ [Next]_vars => IInv'
  BY StepHolds
<1> QED
  BY <1>1, <1>2, PTL DEF Spec

-----------------------------------------------------------------------------
(* What follows from it                                                    *)

(* Type correctness of the table and of the requests in flight.            *)
THEOREM TypeCorrectness == Spec => []TypeOK
<1>1. IInv => TypeOK
  BY DEF IInv
<1> QED
  BY <1>1, Invariance, PTL

(* A rule whose deletion was acknowledged never comes back: not by a PATCH *)
(* that had loaded it before, and not by a POST, whose key is fresh.       *)
THEOREM DeletesAreFinal == Spec => []AcknowledgedDeleteIsFinal
<1>1. IInv => AcknowledgedDeleteIsFinal
  BY DEF IInv, SlotInv, AcknowledgedDeleteIsFinal
<1> QED
  BY <1>1, Invariance, PTL

(* A response shows a rule of its caller, though the refresh after the     *)
(* commit reads the row by its key alone.                                  *)
THEOREM AnswersAreOwn == Spec => []AnswersShowOwnRules
<1>1. IInv => AnswersShowOwnRules
  BY DEF IInv, SlotInv, AnswersShowOwnRules
<1> QED
  BY <1>1, Invariance, PTL

-----------------------------------------------------------------------------
(* The three ways in which the table changes                               *)

Inserts(s, i) ==
    /\ pc[s] = "insert" /\ pc'[s] = "refresh"
    /\ request'[s].id = i
    /\ request'[s].caller = request[s].caller
    /\ i \in RuleIds \ issued
    /\ rules' = [rules EXCEPT ![i] = NewRule(request[s].caller, request[s].body)]
    /\ issued' = issued \cup {i}
    /\ rules'[i] \in AlertRule
    /\ rules'[i].user_id = request[s].caller.sub
    /\ rules'[i].network_id \in Networks
    /\ DsoNetworks(request[s].caller) = {rules'[i].network_id}

Amends(s, i) ==
    /\ pc[s] = "update" /\ pc'[s] = "refresh"
    /\ request[s].id = i
    /\ i \in RuleIds
    /\ rules[i] \in AlertRule
    /\ rules[i].user_id = request[s].caller.sub
    /\ rules' = [rules EXCEPT ![i] = Amended(@, loaded[s], request[s].body)]
    /\ issued' = issued
    /\ rules'[i] \in AlertRule
    /\ rules'[i].user_id = rules[i].user_id
    /\ rules'[i].network_id = rules[i].network_id

Removes(s, i) ==
    /\ pc[s] = "delete" /\ pc'[s] = "answered"
    /\ request[s].id = i
    /\ i \in RuleIds
    /\ rules[i] \in AlertRule
    /\ rules[i].user_id = request[s].caller.sub
    /\ rules' = [rules EXCEPT ![i] = NoRow]
    /\ issued' = issued

(* An insert files the rule under its caller and its caller's one network. *)
LEMMA InsertsByOwner ==
    ASSUME IInv, NEW s \in Slots, CommitCreate(s)
    PROVE  \E i \in RuleIds : Inserts(s, i)
<1> DEFINE new == NewRule(request[s].caller, request[s].body)
<1>1. PICK i \in FreshIds :
        /\ rules' = [rules EXCEPT ![i] = new]
        /\ issued' = issued \cup {i}
        /\ request' = [request EXCEPT ![s].id = i]
  BY DEF CommitCreate
<1>2. pc[s] = "insert" /\ pc' = [pc EXCEPT ![s] = "refresh"]
  BY DEF CommitCreate
<1>3. i \in RuleIds \ issued
  BY DEF FreshIds
<1>4. /\ new \in AlertRule
      /\ new.user_id = request[s].caller.sub
      /\ new.network_id \in Networks
      /\ DsoNetworks(request[s].caller) = {new.network_id}
  BY <1>2, NewRuleTyped, ResolvedNetwork DEF IInv, SlotInv
<1>5. request'[s].id = i /\ request'[s].caller = request[s].caller
  <2>1. request'[s] = [request[s] EXCEPT !.id = i] /\ request[s] \in Request
    BY <1>1 DEF IInv, TypeOK
  <2> QED
    BY <2>1 DEF Request
<1> HIDE DEF new
<1>6. rules'[i] = new /\ pc'[s] = "refresh"
  BY <1>1, <1>2, <1>3 DEF IInv, TypeOK
<1> QED
  BY <1>1, <1>2, <1>3, <1>4, <1>5, <1>6 DEF Inserts, new

(* An update that writes, writes the row of its caller.                    *)
LEMMA AmendsOwn ==
    ASSUME IInv, NEW s \in Slots, CommitUpdate(s), rules' # rules
    PROVE  \E i \in RuleIds : Amends(s, i)
<1>1. pc[s] = "update" /\ issued' = issued
  BY DEF CommitUpdate
<1>2. pc'[s] = "refresh"
  BY DEF CommitUpdate, IInv, TypeOK
<1> QED
  BY <1>1, <1>2, CommitUpdateRow DEF Amends

(* A removal, acknowledged or not, removes the row of its caller.          *)
LEMMA RemovesOwn ==
    ASSUME IInv, NEW s \in Slots, CommitDelete(s) \/ Fail(s), rules' # rules
    PROVE  \E i \in RuleIds : Removes(s, i)
<1> DEFINE i == request[s].id
<1>1. /\ pc[s] = "delete"
      /\ rules' = [rules EXCEPT ![i] = NoRow]
      /\ issued' = issued
  BY DEF CommitDelete, Fail
<1>2. pc'[s] = "answered"
  BY DEF CommitDelete, Fail, Error, Answer, IInv, TypeOK
<1>3. i \in RuleIds
  BY <1>1 DEF IInv, TypeOK, SlotInv, HoldsOwnRow
<1>4. rules[i] # NoRow
  BY <1>1, <1>3 DEF IInv, TypeOK
<1>5. rules[i] \in AlertRule
  BY <1>3, <1>4 DEF IInv, TypeOK
<1>6. rules[i].user_id = request[s].caller.sub
  BY <1>1, <1>4, RemovalStep
<1> QED
  BY <1>1, <1>2, <1>3, <1>5, <1>6 DEF Removes

(* There is no other way.                                                  *)
LEMMA TableChanges ==
    ASSUME IInv, [Next]_vars
    PROVE  \/ UNCHANGED <<rules, issued>>
           \/ \E s \in Slots, i \in RuleIds : Inserts(s, i) \/ Amends(s, i) \/ Removes(s, i)
<1>1. CASE Crash \/ UNCHANGED vars
  BY <1>1 DEF Crash, vars
<1>2. ASSUME NEW s \in Slots, Serve(s)
      PROVE  \/ UNCHANGED <<rules, issued>>
             \/ \E i \in RuleIds : Inserts(s, i) \/ Amends(s, i) \/ Removes(s, i)
  <2>1. CASE CommitCreate(s)
    BY <2>1, InsertsByOwner
  <2>2. CASE CommitUpdate(s) /\ rules' # rules
    BY <2>2, AmendsOwn
  <2>3. CASE (CommitDelete(s) \/ Fail(s)) /\ rules' # rules
    BY <2>3, RemovesOwn
  <2>4. CASE (CommitUpdate(s) \/ CommitDelete(s) \/ Fail(s)) /\ rules' = rules
    BY <2>4 DEF CommitUpdate, CommitDelete, Fail
  <2>5. CASE \/ RefuseByPolicy(s) \/ RefuseBody(s) \/ RefuseNetwork(s) \/ ListRules(s)
             \/ BeginCreate(s) \/ BeginUpdate(s) \/ BeginDelete(s)
             \/ Select(s) \/ Refresh(s)
    BY <2>5 DEF RefuseByPolicy, RefuseBody, RefuseNetwork, ListRules, BeginCreate,
                BeginUpdate, BeginDelete, Accept, Select, Refresh
  <2> QED
    BY <1>2, <2>1, <2>2, <2>3, <2>4, <2>5 DEF Serve
<1> QED
  BY <1>1, <1>2 DEF Next

-----------------------------------------------------------------------------
(* What a step may never do                                                *)

(* Whatever requests are in flight, a row appears, changes or goes only by *)
(* a request of its owner about that row.                                  *)
THEOREM OwnersOnly == Spec => OwnerOnlyWrites
<1> DEFINE A == \A i \in RuleIds : rules'[i] # rules[i] => \E s \in Slots : Touches(s, i)
<1>1. ASSUME IInv, [Next]_vars PROVE A
  <2> SUFFICES ASSUME NEW i \in RuleIds, rules'[i] # rules[i]
               PROVE  \E s \in Slots : Touches(s, i)
    OBVIOUS
  <2>1. PICK s \in Slots, j \in RuleIds : Inserts(s, j) \/ Amends(s, j) \/ Removes(s, j)
    BY <1>1, TableChanges
  <2>2. i = j
    BY <1>1, <2>1 DEF Inserts, Amends, Removes, IInv, TypeOK
  <2>3. CASE Inserts(s, i)
    BY <1>1, <2>3 DEF Inserts, Touches, IInv, StoredKeysAreIssued
  <2>4. CASE Amends(s, i) \/ Removes(s, i)
    BY <2>4, ModelsAssumption DEF Amends, Removes, Touches
  <2> QED
    BY <2>1, <2>2, <2>3, <2>4
<1> QED
  BY <1>1, Invariance, PTL DEF Spec, OwnerOnlyWrites

(* A rule is filed under the only network its author is DSO of.            *)
THEOREM FiledUnderOwnNetwork == Spec => FiledUnderSoleNetwork
<1> DEFINE A == \A i \in RuleIds :
         rules[i] = NoRow /\ rules'[i] # NoRow =>
           \E s \in Slots : /\ pc[s] = "insert"
                            /\ pc'[s] = "refresh"
                            /\ DsoNetworks(request[s].caller) = {rules'[i].network_id}
<1>1. ASSUME IInv, [Next]_vars PROVE A
  <2> SUFFICES ASSUME NEW i \in RuleIds, rules[i] = NoRow, rules'[i] # NoRow
               PROVE  \E s \in Slots :
                        /\ pc[s] = "insert"
                        /\ pc'[s] = "refresh"
                        /\ DsoNetworks(request[s].caller) = {rules'[i].network_id}
    OBVIOUS
  <2>1. PICK s \in Slots, j \in RuleIds : Inserts(s, j) \/ Amends(s, j) \/ Removes(s, j)
    BY <1>1, TableChanges
  <2>2. i = j
    BY <1>1, <2>1 DEF Inserts, Amends, Removes, IInv, TypeOK
  <2>3. Inserts(s, i)
    BY <2>1, <2>2, ModelsAssumption DEF Amends, Removes
  <2> QED
    BY <2>3 DEF Inserts
<1> QED
  BY <1>1, Invariance, PTL DEF Spec, FiledUnderSoleNetwork

(* A PATCH changes only columns its body names, to the value it names,     *)
(* whatever other sessions committed since it loaded the row.              *)
THEOREM OnlyNamedFields == Spec => WritesOnlyNamedFields
<1> DEFINE A == \A i \in RuleIds :
         rules[i] # NoRow /\ rules'[i] # NoRow =>
           \A f \in EditableFields :
             rules'[i][f] # rules[i][f] =>
               \E s \in Slots : /\ pc[s] = "update"
                                /\ pc'[s] # pc[s]
                                /\ request[s].id = i
                                /\ request[s].body[f] = rules'[i][f]
<1>1. ASSUME IInv, [Next]_vars PROVE A
  <2> SUFFICES ASSUME NEW i \in RuleIds, rules[i] # NoRow, rules'[i] # NoRow,
                      NEW f \in EditableFields, rules'[i][f] # rules[i][f]
               PROVE  \E s \in Slots :
                        /\ pc[s] = "update"
                        /\ pc'[s] # pc[s]
                        /\ request[s].id = i
                        /\ request[s].body[f] = rules'[i][f]
    OBVIOUS
  <2>1. PICK s \in Slots, j \in RuleIds : Inserts(s, j) \/ Amends(s, j) \/ Removes(s, j)
    BY <1>1, TableChanges
  <2>2. i = j
    BY <1>1, <2>1 DEF Inserts, Amends, Removes, IInv, TypeOK
  <2>3. Amends(s, i)
    BY <1>1, <2>1, <2>2 DEF Inserts, Removes, IInv, TypeOK, StoredKeysAreIssued
  <2>4. rules'[i] = Amended(rules[i], loaded[s], request[s].body) /\ rules[i] \in AlertRule
    BY <1>1, <2>3 DEF Amends, IInv, TypeOK
  <2>5. rules'[i][f] = Written(rules[i][f], loaded[s][f], request[s].body[f])
    BY <2>4 DEF Amended, AlertRule, EditableFields, EmptyBody
  <2>6. rules'[i][f] = request[s].body[f]
    BY <2>5 DEF Written
  <2> QED
    BY <2>3, <2>6 DEF Amends
<1> QED
  BY <1>1, Invariance, PTL DEF Spec, WritesOnlyNamedFields

-----------------------------------------------------------------------------
(* Refinement                                                              *)

(* The registry speaks of the same rows.                                   *)
LEMMA SameRows == Registry!AlertRule = AlertRule
<1>1. Registry!HazardLists = HazardLists
  BY DEF Registry!HazardLists, HazardLists
<1>2. Registry!Thresholds = Thresholds
  BY DEF Registry!Thresholds, Thresholds
<1> QED
  BY <1>1, <1>2 DEF Registry!AlertRule, AlertRule

(* The endpoints implement the registry: under any interleaving the table  *)
(* only gains a rule under a fresh key, changes a rule of the same owner   *)
(* and network, or loses a rule for good.                                  *)
THEOREM ImplementsRegistry == Spec => RegistrySpec
<1>1. Init => Registry!Init
  BY RulesAssumption, SameRows DEF Init, Registry!Init
<1>2. ASSUME IInv, [Next]_vars PROVE [Registry!Next]_Registry!vars
  <2>1. CASE UNCHANGED <<rules, issued>>
    BY <2>1 DEF Registry!vars
  <2>2. ASSUME NEW s \in Slots, NEW i \in RuleIds,
               Inserts(s, i) \/ Amends(s, i) \/ Removes(s, i)
        PROVE  Registry!Next
    <3>1. CASE Inserts(s, i)
      <4>1. rules' = [rules EXCEPT ![i] = rules'[i]]
        BY <1>2, <3>1 DEF Inserts, IInv, TypeOK
      <4>2. Registry!File(i)
        BY <3>1, <4>1, SameRows DEF Inserts, Registry!File
      <4> QED
        BY <4>2 DEF Registry!Next
    <3>2. CASE Amends(s, i)
      <4>1. rules' = [rules EXCEPT ![i] = rules'[i]]
        BY <1>2, <3>2 DEF Amends, IInv, TypeOK
      <4>2. Registry!Amend(i)
        BY <3>2, <4>1, SameRows, ModelsAssumption DEF Amends, Registry!Amend
      <4> QED
        BY <4>2 DEF Registry!Next
    <3>3. CASE Removes(s, i)
      <4>1. Registry!Remove(i)
        BY <3>3, ModelsAssumption DEF Removes, Registry!Remove
      <4> QED
        BY <4>1 DEF Registry!Next
    <3> QED
      BY <2>2, <3>1, <3>2, <3>3
  <2> QED
    BY <1>2, <2>1, <2>2, TableChanges
<1> QED
  BY <1>1, <1>2, Invariance, PTL DEF Spec, RegistrySpec, Registry!Spec


-----------------------------------------------------------------------------
(* The null that a PATCH may send is the only way around REQ-0017          *)

(* What a POST may not leave out, no PATCH sends as null, and migration    *)
(* 002 has left no such row.                                               *)
NoNullIsSent ==
    /\ \A body \in UpdateBodies : body.risk_types # Null
    /\ \A row \in LegacyRules : row.risk_types # Null

StoredRulesName == \A i \in RuleIds : rules[i] # NoRow => rules[i].risk_types # Null

RequestsName == \A s \in Slots : request[s].body.risk_types # Null

(* A request about nothing names nothing, which is not null.               *)
LEMMA IdleNames == Idle.body.risk_types # Null
BY ModelsAssumption DEF Idle, EmptyBody

(* A step changes a request to nothing, to a new one, or to its key.       *)
LEMMA RequestSteps ==
    ASSUME IInv, Next
    PROVE  \A s \in Slots :
             \/ request'[s].body = request[s].body
             \/ request'[s].body = Idle.body
             \/ request'[s].body \in CreateBodies \cup UpdateBodies
<1>1. ASSUME NEW t \in Slots, NEW new,
             request' = [request EXCEPT ![t] = new],
             \/ new.body = request[t].body
             \/ new.body = Idle.body
             \/ new.body \in CreateBodies \cup UpdateBodies
      PROVE  \A s \in Slots :
               \/ request'[s].body = request[s].body
               \/ request'[s].body = Idle.body
               \/ request'[s].body \in CreateBodies \cup UpdateBodies
  BY <1>1 DEF IInv, TypeOK
<1>2. ASSUME NEW t \in Slots, request' = [request EXCEPT ![t] = Idle]
      PROVE  \A s \in Slots : request'[s].body \in {request[s].body, Idle.body}
  BY <1>2 DEF IInv, TypeOK
<1>3. CASE Crash
  <2>1. request' = [s \in Slots |-> IF Free(s) THEN request[s] ELSE Idle]
    BY <1>3 DEF Crash
  <2> QED
    BY <2>1
<1>4. ASSUME NEW t \in Slots, Serve(t), ~UNCHANGED request,
             request' # [request EXCEPT ![t] = Idle]
      PROVE  \E new : /\ request' = [request EXCEPT ![t] = new]
                      /\ \/ new.body = request[t].body
                         \/ new.body = Idle.body
                         \/ new.body \in CreateBodies \cup UpdateBodies
  <2>1. CASE BeginCreate(t) \/ BeginUpdate(t) \/ BeginDelete(t)
    BY <2>1 DEF BeginCreate, BeginUpdate, BeginDelete, Accept, Idle
  <2>2. CASE ListRules(t)
    <3>1. request' = [request EXCEPT ![t] = [Idle EXCEPT !.op = "list"]]
      BY <2>2 DEF ListRules
    <3>2. [Idle EXCEPT !.op = "list"].body = Idle.body
      BY DEF Idle
    <3> QED
      BY <3>1, <3>2
  <2>3. CASE CommitCreate(t)
    <3>1. PICK i \in FreshIds : request' = [request EXCEPT ![t].id = i]
      BY <2>3 DEF CommitCreate
    <3>2. request' = [request EXCEPT ![t] = [request[t] EXCEPT !.id = i]]
      BY <3>1
    <3>3. [request[t] EXCEPT !.id = i].body = request[t].body
      BY DEF IInv, TypeOK, Request
    <3> QED
      BY <3>2, <3>3
  <2>4. CASE RefuseByPolicy(t) \/ RefuseBody(t) \/ RefuseNetwork(t)
    BY <1>4, <2>4 DEF RefuseByPolicy, RefuseBody, RefuseNetwork, Error
  <2>5. CASE Select(t)
    BY <1>4, <2>5 DEF Select, Error
  <2>6. CASE CommitUpdate(t) \/ CommitDelete(t) \/ Refresh(t) \/ Fail(t)
    BY <1>4, <2>6 DEF CommitUpdate, CommitDelete, Refresh, Fail, Error
  <2> QED
    BY <1>4, <2>1, <2>2, <2>3, <2>4, <2>5, <2>6 DEF Serve
<1>5. ASSUME NEW t \in Slots, Serve(t)
      PROVE  \A s \in Slots :
               \/ request'[s].body = request[s].body
               \/ request'[s].body = Idle.body
               \/ request'[s].body \in CreateBodies \cup UpdateBodies
  <2>1. CASE UNCHANGED request
    BY <2>1
  <2>2. CASE request' = [request EXCEPT ![t] = Idle]
    BY <2>2, <1>2
  <2>3. CASE ~UNCHANGED request /\ request' # [request EXCEPT ![t] = Idle]
    <3>1. PICK new : /\ request' = [request EXCEPT ![t] = new]
                     /\ \/ new.body = request[t].body
                        \/ new.body = Idle.body
                        \/ new.body \in CreateBodies \cup UpdateBodies
      BY <1>4, <1>5, <2>3
    <3> QED
      BY <3>1, <1>1
  <2> QED
    BY <2>1, <2>2, <2>3
<1> QED
  BY <1>3, <1>5 DEF Next

(* Where no request sends null, no request in flight carries it.           *)
LEMMA RequestsKeepNaming ==
    ASSUME NoNullIsSent, IInv, RequestsName, [Next]_vars
    PROVE  RequestsName'
<1>1. CASE UNCHANGED vars
  BY <1>1 DEF vars, RequestsName
<1>2. CASE Next
  <2> SUFFICES ASSUME NEW s \in Slots PROVE request'[s].body.risk_types # Null
    BY DEF RequestsName
  <2>1. \A body \in CreateBodies \cup UpdateBodies : body.risk_types # Null
    BY RulesAssumption, ModelsAssumption DEF NoNullIsSent, AlertRuleCreate
  <2>2. request[s].body.risk_types # Null
    BY DEF RequestsName
  <2> QED
    BY <1>2, <2>1, <2>2, RequestSteps, IdleNames
<1> QED
  BY <1>1, <1>2

(* Where no request carries null, none is stored.                          *)
LEMMA RulesKeepNaming ==
    ASSUME NoNullIsSent, IInv, RequestsName, StoredRulesName, [Next]_vars
    PROVE  StoredRulesName'
<1>1. CASE UNCHANGED <<rules, issued>>
  BY <1>1 DEF StoredRulesName
<1>2. ASSUME NEW s \in Slots, NEW i \in RuleIds, Inserts(s, i)
      PROVE  StoredRulesName'
  <2>1. NewRule(request[s].caller, request[s].body).risk_types # Null
    BY DEF NewRule, RequestsName
  <2>2. rules'[i].risk_types # Null /\ \A j \in RuleIds : j # i => rules'[j] = rules[j]
    BY <1>2, <2>1 DEF Inserts, IInv, TypeOK
  <2> QED
    BY <2>2 DEF StoredRulesName
<1>3. ASSUME NEW s \in Slots, NEW i \in RuleIds, Amends(s, i)
      PROVE  StoredRulesName'
  <2>1. /\ rules'[i] = Amended(rules[i], loaded[s], request[s].body)
        /\ \A j \in RuleIds : j # i => rules'[j] = rules[j]
    BY <1>3 DEF Amends, IInv, TypeOK
  <2>2. rules[i] \in AlertRule /\ rules[i].risk_types # Null
    BY <1>3, ModelsAssumption DEF Amends, StoredRulesName
  <2>3. rules'[i].risk_types
          = Written(rules[i].risk_types, loaded[s].risk_types, request[s].body.risk_types)
    BY <2>1, <2>2 DEF Amended, AlertRule
  <2>4. rules'[i].risk_types # Null
    BY <2>2, <2>3 DEF Written, RequestsName
  <2> QED
    BY <2>1, <2>4 DEF StoredRulesName
<1>4. ASSUME NEW s \in Slots, NEW i \in RuleIds, Removes(s, i)
      PROVE  StoredRulesName'
  BY <1>4 DEF Removes, StoredRulesName, IInv, TypeOK
<1> QED
  BY <1>1, <1>2, <1>3, <1>4, TableChanges

(* The divergence from REQ-0017 has one cause. Were null refused in a      *)
(* PATCH as it is in a POST, every stored rule would name a hazard: no     *)
(* interleaving of requests, and no failure between their statements,      *)
(* leaves a rule that names none.                                          *)
THEOREM NullIsTheOnlyWay ==
    ASSUME NoNullIsSent
    PROVE  Spec => []EveryRuleNamesAHazard
<1>1. Init => RequestsName /\ StoredRulesName
  <2> SUFFICES ASSUME Init PROVE RequestsName /\ StoredRulesName
    OBVIOUS
  <2>1. RequestsName
    BY IdleNames DEF Init, RequestsName
  <2>2. StoredRulesName
    BY DEF Init, StoredRulesName, NoNullIsSent
  <2> QED
    BY <2>1, <2>2
<1>2. IInv /\ RequestsName /\ StoredRulesName /\ [Next]_vars => RequestsName' /\ StoredRulesName'
  BY RequestsKeepNaming, RulesKeepNaming
<1>3. IInv /\ StoredRulesName => EveryRuleNamesAHazard
  BY DEF IInv, TypeOK, AlertRule, HazardLists, StoredRulesName, EveryRuleNamesAHazard
<1> QED
  BY <1>1, <1>2, <1>3, Invariance, PTL DEF Spec
=============================================================================
