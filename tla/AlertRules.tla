----------------------------- MODULE AlertRules -----------------------------
(***************************************************************************)
(* The /api/alert-rules endpoints of api/alerts.py over a table shared by  *)
(* concurrent requests.                                                    *)
(*                                                                         *)
(* A handler is a coroutine with an AsyncSession of its own: it holds no   *)
(* lock between its SELECT and its commit, and other requests run at every *)
(* await. Each slot is one request in flight, and each of its actions one  *)
(* database statement: SELECT, the flush and COMMIT, the refresh. The      *)
(* database is at READ COMMITTED, so a statement sees what is committed    *)
(* when it runs.                                                           *)
(***************************************************************************)
EXTENDS GridAccess

CONSTANTS
    Slots,          \* requests in flight at once
    CreateBodies,   \* the POST bodies that reach the service
    UpdateBodies,   \* the PATCH bodies that reach the service
    LegacyRules     \* rows that migration 002 may have left, network_id ''

VARIABLES
    rules,      \* the alert_rules table
    issued,     \* the keys uuid4 has handed out
    pc,         \* where the request of a slot is
    request,    \* what it asks: operation, caller, key, body
    loaded,     \* the row its session holds
    answer      \* the status it was answered

vars == <<rules, issued, pc, request, loaded, answer>>

Working  == {"insert", "select", "update", "delete", "refresh"}
Statuses == {200, 201, 204, 403, 404, 422, 500}
NoAnswer == 0

Request ==
    [op : {"none", "list", "create", "update", "delete"}, caller : Callers \cup {Null},
     id : RuleIds \cup {Null}, body : AlertRuleUpdate]

Idle == [op |-> "none", caller |-> Null, id |-> Null, body |-> EmptyBody]

ASSUME RulesAssumption ==
    /\ CreateBodies \subseteq AlertRuleCreate
    /\ UpdateBodies \subseteq AlertRuleUpdate
    /\ LegacyRules \subseteq {r \in AlertRule : r.network_id = Unattributed}
    /\ Null \notin Callers

-----------------------------------------------------------------------------
(* The statements                                                          *)

OwnedByAnyone(rule, sub) == rule # NoRow            \* mutant: no user filter

(* WHERE user_id == :sub                                                   *)
Owned(rule, sub) == rule # NoRow /\ rule.user_id = sub

ReusedIds == {i \in RuleIds : rules[i] = NoRow}     \* mutant: serial keys

(* uuid4: a key is never handed out twice.                                 *)
FreshIds == RuleIds \ issued

NewRule(user, body) ==
    [user_id    |-> user.sub,
     network_id |-> ResolveDsoNetwork(user),
     risk_types |-> body.risk_types,
     threshold  |-> body.threshold,
     recipients |-> body.recipients,
     active     |-> body.active]

DirtyFields(old, body) == {f \in EditableFields : Dirty(old[f], body[f])}

Amended(current, old, body) ==
    [current EXCEPT
       !.risk_types = Written(@, old.risk_types, body.risk_types),
       !.threshold  = Written(@, old.threshold, body.threshold),
       !.recipients = Written(@, old.recipients, body.recipients),
       !.active     = Written(@, old.active, body.active)]

Violates(old, body) ==
    \E f \in DirtyFields(old, body) \cap NotNullFields : body[f] = Null

(* AlertRuleResponse wants a list in risk_types.                           *)
Presentable(rule) == rule.risk_types # Null

-----------------------------------------------------------------------------

Init ==
    /\ rules \in [RuleIds -> LegacyRules \cup {NoRow}]
    /\ issued = {i \in RuleIds : rules[i] # NoRow}
    /\ pc = [s \in Slots |-> "idle"]
    /\ request = [s \in Slots |-> Idle]
    /\ loaded = [s \in Slots |-> NoRow]
    /\ answer = [s \in Slots |-> NoAnswer]

Free(s) == pc[s] \in {"idle", "answered"}

(* What stays of an answered request is what its client knows: what it     *)
(* asked and the row it was shown, and of an error the status alone.       *)
Answer(s, status, shown) ==
    /\ pc' = [pc EXCEPT ![s] = "answered"]
    /\ answer' = [answer EXCEPT ![s] = status]
    /\ loaded' = [loaded EXCEPT ![s] = shown]

Error(s, status) ==
    /\ Answer(s, status, NoRow)
    /\ request' = [request EXCEPT ![s] = Idle]

(* The dependencies of a write endpoint let the caller through.            *)
MayWrite(user) == \E e \in EngineOutcomes : Permitted(user, "alerts.write", Null, e)

Accept(s, op, user, id, body, first) ==
    /\ Free(s)
    /\ pc' = [pc EXCEPT ![s] = first]
    /\ request' = [request EXCEPT ![s] = [op |-> op, caller |-> user, id |-> id, body |-> body]]
    /\ loaded' = [loaded EXCEPT ![s] = NoRow]
    /\ answer' = [answer EXCEPT ![s] = NoAnswer]
    /\ UNCHANGED <<rules, issued>>

(* 403: the policy does not let the caller write.                          *)
RefuseByPolicy(s) ==
    /\ Free(s)
    /\ \E user \in Callers, e \in EngineOutcomes : ~Permitted(user, "alerts.write", Null, e)
    /\ Error(s, 403)
    /\ UNCHANGED <<rules, issued>>

(* 422: the body does not validate.                                        *)
RefuseBody(s) ==
    /\ Free(s)
    /\ \E user \in Callers : MayWrite(user)
    /\ \E body \in CreateBodies \cup UpdateBodies : ~NonEmpty(body.risk_types)
    /\ Error(s, 422)
    /\ UNCHANGED <<rules, issued>>

(* 403: no DSO network, or several, to file a new rule under.              *)
RefuseNetwork(s) ==
    /\ Free(s)
    /\ \E user \in Callers : MayWrite(user) /\ ResolveDsoNetwork(user) = Null
    /\ \E body \in CreateBodies : NonEmpty(body.risk_types)
    /\ Error(s, 403)
    /\ UNCHANGED <<rules, issued>>

ListStatus(user) ==
    IF \A i \in RuleIds : Owned(rules[i], user.sub) => Presentable(rules[i])
    THEN 200 ELSE 500

(* GET: one SELECT of the caller's rows; the response model fails on a row *)
(* it cannot show. Neither the caller nor the rows shown are kept.         *)
ListRules(s) ==
    /\ Free(s)
    /\ \E user \in Callers, e \in EngineOutcomes :
         Permitted(user, "alerts.read", Null, e) /\ Answer(s, ListStatus(user), NoRow)
    /\ request' = [request EXCEPT ![s] = [Idle EXCEPT !.op = "list"]]
    /\ UNCHANGED <<rules, issued>>

BeginCreate(s) ==
    \E user \in Callers, body \in CreateBodies :
        /\ MayWrite(user)
        /\ NonEmpty(body.risk_types)
        /\ ResolveDsoNetwork(user) # Null
        /\ Accept(s, "create", user, Null, body, "insert")

BeginUpdate(s) ==
    \E user \in Callers, id \in RuleIds, body \in UpdateBodies :
        /\ MayWrite(user)
        /\ NonEmpty(body.risk_types)
        /\ Accept(s, "update", user, id, body, "select")

BeginDelete(s) ==
    \E user \in Callers, id \in RuleIds :
        /\ MayWrite(user)
        /\ Accept(s, "delete", user, id, EmptyBody, "select")

(* db.add, commit                                                          *)
CommitCreate(s) ==
    /\ pc[s] = "insert"
    /\ \E i \in FreshIds :
         /\ rules' = [rules EXCEPT ![i] = NewRule(request[s].caller, request[s].body)]
         /\ issued' = issued \cup {i}
         /\ request' = [request EXCEPT ![s].id = i]
         /\ loaded' = [loaded EXCEPT ![s] = NewRule(request[s].caller, request[s].body)]
    /\ pc' = [pc EXCEPT ![s] = "refresh"]
    /\ UNCHANGED answer

(* SELECT ... WHERE id = :id AND user_id = :sub; 404 when it finds none.   *)
Select(s) ==
    LET row == rules[request[s].id]
    IN  /\ pc[s] = "select"
        /\ IF Owned(row, request[s].caller.sub)
           THEN /\ loaded' = [loaded EXCEPT ![s] = row]
                /\ pc' = [pc EXCEPT ![s] = request[s].op]
                /\ UNCHANGED <<request, answer>>
           ELSE Error(s, 404)
        /\ UNCHANGED <<rules, issued>>

CommitUpsert(s) ==                                  \* mutant: a merge that re-inserts
    /\ pc[s] = "update"
    /\ rules' = [rules EXCEPT ![request[s].id] = Amended(loaded[s], loaded[s], request[s].body)]
    /\ pc' = [pc EXCEPT ![s] = "refresh"]
    /\ UNCHANGED <<issued, request, loaded, answer>>

(* The flush of a PATCH. With no dirty column no statement is sent; a None *)
(* for a NOT NULL column and a row that is gone by now (StaleDataError)    *)
(* both end in 500 with nothing written.                                   *)
CommitUpdate(s) ==
    LET id   == request[s].id
        body == request[s].body
        fails == \/ Violates(loaded[s], body)
                 \/ rules[id] = NoRow /\ DirtyFields(loaded[s], body) # {}
    IN  /\ pc[s] = "update"
        /\ IF fails
           THEN /\ Error(s, 500)
                /\ UNCHANGED rules
           ELSE /\ pc' = [pc EXCEPT ![s] = "refresh"]
                /\ rules' = IF rules[id] = NoRow THEN rules
                            ELSE [rules EXCEPT ![id] = Amended(@, loaded[s], body)]
                /\ UNCHANGED <<request, loaded, answer>>
        /\ UNCHANGED issued

(* A DELETE that finds no row any more is a warning, not an error.         *)
CommitDelete(s) ==
    /\ pc[s] = "delete"
    /\ rules' = [rules EXCEPT ![request[s].id] = NoRow]
    /\ Answer(s, 204, NoRow)
    /\ UNCHANGED <<issued, request>>

(* db.refresh reads the row back, for the response; a row that is gone or  *)
(* that the response model refuses is a 500 after the commit.              *)
Refresh(s) ==
    LET row == rules[request[s].id]
    IN  /\ pc[s] = "refresh"
        /\ IF row # NoRow /\ Presentable(row)
           THEN /\ Answer(s, IF request[s].op = "create" THEN 201 ELSE 200, row)
                /\ UNCHANGED request
           ELSE Error(s, 500)
        /\ UNCHANGED <<rules, issued>>

(* Any statement may fail: the session is closed, its transaction rolled   *)
(* back, the caller answered 500. A COMMIT whose acknowledgement is lost   *)
(* has been applied nevertheless; for an insert or an update that is a     *)
(* failure in "refresh", for a DELETE it is the second disjunct.           *)
Fail(s) ==
    /\ pc[s] \in Working
    /\ UNCHANGED rules \/ (pc[s] = "delete" /\ rules' = [rules EXCEPT ![request[s].id] = NoRow])
    /\ Error(s, 500)
    /\ UNCHANGED issued

(* The process dies: requests in flight get no answer, the table stays.    *)
Crash ==
    LET lost(f, v) == [s \in Slots |-> IF Free(s) THEN f[s] ELSE v]
    IN  /\ \E s \in Slots : ~Free(s)
        /\ pc' = lost(pc, "idle")
        /\ request' = lost(request, Idle)
        /\ loaded' = lost(loaded, NoRow)
        /\ UNCHANGED <<rules, issued, answer>>

Serve(s) ==
    \/ RefuseByPolicy(s) \/ RefuseBody(s) \/ RefuseNetwork(s)
    \/ ListRules(s)
    \/ BeginCreate(s) \/ BeginUpdate(s) \/ BeginDelete(s)
    \/ Select(s)
    \/ CommitCreate(s) \/ CommitUpdate(s) \/ CommitDelete(s)
    \/ Refresh(s) \/ Fail(s)

Next == Crash \/ \E s \in Slots : Serve(s)

Spec == Init /\ [][Next]_vars

-----------------------------------------------------------------------------
(* Properties                                                              *)

TypeOK ==
    /\ rules \in [RuleIds -> AlertRule \cup {NoRow}]
    /\ issued \subseteq RuleIds
    /\ pc \in [Slots -> Working \cup {"idle", "answered"}]
    /\ request \in [Slots -> Request]
    /\ loaded \in [Slots -> AlertRule \cup {NoRow}]
    /\ answer \in [Slots -> Statuses \cup {NoAnswer}]

(* REQ-0015, REQ-0016: whatever requests interleave between a SELECT and a *)
(* commit, a row appears, changes or goes only in the step of a request    *)
(* made by its owner about that very row.                                  *)
Touches(s, i) ==
    /\ pc'[s] # pc[s]
    /\ \/ pc[s] = "insert" /\ request'[s].id = i
       \/ pc[s] \in {"update", "delete"} /\ request[s].id = i
    /\ request[s].caller.sub = (IF rules[i] = NoRow THEN rules'[i] ELSE rules[i]).user_id

OwnerOnlyWrites ==
    [][\A i \in RuleIds : rules'[i] # rules[i] => \E s \in Slots : Touches(s, i)]_vars

(* REQ-0019, across sessions: a PATCH changes only columns its own body    *)
(* names, to the value it names; a change another session commits between  *)
(* its SELECT and its commit is not undone by the row it had loaded.       *)
WritesOnlyNamedFields ==
    [][\A i \in RuleIds :
         rules[i] # NoRow /\ rules'[i] # NoRow =>
           \A f \in EditableFields :
             rules'[i][f] # rules[i][f] =>
               \E s \in Slots : /\ pc[s] = "update"
                                /\ pc'[s] # pc[s]
                                /\ request[s].id = i
                                /\ request[s].body[f] = rules'[i][f]]_vars

(* REQ-0014, REQ-0052: a rule is filed under its author's one DSO network, *)
(* also when the policy engine was bypassed in dev.                        *)
FiledUnderSoleNetwork ==
    [][\A i \in RuleIds :
         rules[i] = NoRow /\ rules'[i] # NoRow =>
           \E s \in Slots : /\ pc[s] = "insert"
                            /\ pc'[s] = "refresh"
                            /\ DsoNetworks(request[s].caller) = {rules'[i].network_id}]_vars

(* A 204 is final: no request that had loaded the row before it was        *)
(* deleted brings it back.                                                 *)
AcknowledgedDeleteIsFinal ==
    \A s \in Slots : answer[s] = 204 => rules[request[s].id] = NoRow

(* REQ-0015: the rule a response shows belongs to the caller, although the *)
(* refresh reads it again by its key alone.                                *)
AnswersShowOwnRules ==
    \A s \in Slots : answer[s] \in {200, 201} /\ request[s].op # "list" =>
        loaded[s].user_id = request[s].caller.sub

(* The table as the dispatcher and the other requests may rely on it.      *)
Registry == INSTANCE RuleRegistry WITH rules <- rules, issued <- issued

RegistrySpec == Registry!Spec

(* REQ-0017 as the documentation has it: no stored rule names no hazard.   *)
EveryRuleNamesAHazard ==
    \A i \in RuleIds : rules[i] # NoRow => rules[i].risk_types \notin {Null, {}}
=============================================================================
