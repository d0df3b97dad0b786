---------------------------- MODULE UserSettings ----------------------------
(***************************************************************************)
(* The /api/notification-settings endpoints of api/alerts.py. The GET and  *)
(* the PUT both create the row of a caller who has none, so two requests   *)
(* of one caller may both find none and both insert: the UNIQUE constraint *)
(* on user_id decides. Rows are never deleted.                             *)
(***************************************************************************)
EXTENDS GridAccess

CONSTANTS
    Slots,          \* requests in flight at once
    Keys,           \* values of the surrogate key
    Bodies          \* the PUT bodies that reach the service

VARIABLES
    table,      \* notification_settings: a row, or NoRow, for every key
    pc,         \* where the request of a slot is
    request,    \* the caller, and the body of a PUT or Null for a GET
    loaded,     \* the key and the row its session holds
    answer      \* how it was answered

vars == <<table, pc, request, loaded, answer>>

Working == {"select", "insert", "update", "refresh"}
Answers == {"none", "200", "403", "500 statement failed", "500 integrity"}

NothingNamed == [email_recipients |-> Unset, webhook_url |-> Unset]
SettingsFields == DOMAIN NothingNamed
NothingLoaded == [key |-> Null, row |-> NoRow]
Idle == [caller |-> Null, op |-> "none", body |-> NothingNamed]

ASSUME SettingsAssumption ==
    /\ Bodies \subseteq NotificationSettingsUpdate
    /\ Null \notin Callers \cup Keys
    /\ NoRow \notin NotificationSettings

-----------------------------------------------------------------------------

RowsOfAnyone(sub) == {k \in Keys : table[k] # NoRow}     \* mutant: no user filter

(* WHERE user_id == :sub                                                   *)
RowsOf(sub) == {k \in Keys : table[k] # NoRow /\ table[k].user_id = sub}

NoConstraint(sub) == TRUE       \* mutant: the column is not unique

(* UNIQUE (user_id), checked by the database when the INSERT commits.      *)
Unique(sub) == RowsOf(sub) = {}

NewSettings(user, body) ==
    [user_id          |-> user.sub,
     email_recipients |-> Written(Null, Null, body.email_recipients),
     webhook_url      |-> Written(Null, Null, body.webhook_url)]

Merged(current, old, body) ==
    [current EXCEPT
       !.email_recipients = Written(@, old.email_recipients, body.email_recipients),
       !.webhook_url      = Written(@, old.webhook_url, body.webhook_url)]

-----------------------------------------------------------------------------

Init ==
    /\ table = [k \in Keys |-> NoRow]
    /\ pc = [s \in Slots |-> "idle"]
    /\ request = [s \in Slots |-> Idle]
    /\ loaded = [s \in Slots |-> NothingLoaded]
    /\ answer = [s \in Slots |-> "none"]

Free(s) == pc[s] \in {"idle", "answered"}

Answer(s, status, shown) ==
    /\ pc' = [pc EXCEPT ![s] = "answered"]
    /\ answer' = [answer EXCEPT ![s] = status]
    /\ loaded' = [loaded EXCEPT ![s] = shown]
    /\ UNCHANGED request

Action(op) == IF op = "get" THEN "alerts.read" ELSE "alerts.write"

Refuse(s) ==
    /\ Free(s)
    /\ \E user \in Callers, op \in {"get", "put"}, e \in EngineOutcomes :
         /\ ~Permitted(user, Action(op), Null, e)
         /\ request' = [request EXCEPT ![s] = [caller |-> user, op |-> op, body |-> NothingNamed]]
    /\ pc' = [pc EXCEPT ![s] = "answered"]
    /\ answer' = [answer EXCEPT ![s] = "403"]
    /\ loaded' = [loaded EXCEPT ![s] = NothingLoaded]
    /\ UNCHANGED table

Begin(s, op) ==
    /\ Free(s)
    /\ \E user \in Callers, e \in EngineOutcomes :
         \E body \in (IF op = "get" THEN {NothingNamed} ELSE Bodies) :
            /\ Permitted(user, Action(op), Null, e)
            /\ request' = [request EXCEPT ![s] = [caller |-> user, op |-> op, body |-> body]]
    /\ pc' = [pc EXCEPT ![s] = "select"]
    /\ loaded' = [loaded EXCEPT ![s] = NothingLoaded]
    /\ answer' = [answer EXCEPT ![s] = "none"]
    /\ UNCHANGED table

BeginGet(s) == Begin(s, "get")
BeginPut(s) == Begin(s, "put")

(* A GET that finds the row is answered with it; a row that is not there   *)
(* is added to the session.                                                *)
Select(s) ==
    LET found == RowsOf(request[s].caller.sub)
    IN  /\ pc[s] = "select"
        /\ \/ /\ found = {}
              /\ pc' = [pc EXCEPT ![s] = "insert"]
              /\ UNCHANGED <<request, loaded, answer>>
           \/ \E k \in found :
                LET held == [key |-> k, row |-> table[k]]
                IN  IF request[s].op = "get"
                    THEN Answer(s, "200", held)
                    ELSE /\ pc' = [pc EXCEPT ![s] = "update"]
                         /\ loaded' = [loaded EXCEPT ![s] = held]
                         /\ UNCHANGED <<request, answer>>
        /\ UNCHANGED table

CommitInsert(s) ==
    LET row == NewSettings(request[s].caller, request[s].body)
    IN  /\ pc[s] = "insert"
        /\ IF Unique(row.user_id)
           THEN \E k \in Keys :
                  /\ table[k] = NoRow
                  /\ table' = [table EXCEPT ![k] = row]
                  /\ pc' = [pc EXCEPT ![s] = "refresh"]
                  /\ loaded' = [loaded EXCEPT ![s] = [key |-> k, row |-> row]]
                  /\ UNCHANGED <<request, answer>>
           ELSE /\ Answer(s, "500 integrity", NothingLoaded)
                /\ UNCHANGED table

CommitUpdate(s) ==
    /\ pc[s] = "update"
    /\ table' = [table EXCEPT ![loaded[s].key] = Merged(@, loaded[s].row, request[s].body)]
    /\ pc' = [pc EXCEPT ![s] = "refresh"]
    /\ UNCHANGED <<request, loaded, answer>>

Refresh(s) ==
    /\ pc[s] = "refresh"
    /\ Answer(s, "200", [loaded[s] EXCEPT !.row = table[loaded[s].key]])
    /\ UNCHANGED table

Fail(s) ==
    /\ pc[s] \in Working
    /\ Answer(s, "500 statement failed", NothingLoaded)
    /\ UNCHANGED table

Crash ==
    LET lost(f, v) == [s \in Slots |-> IF Free(s) THEN f[s] ELSE v]
    IN  /\ \E s \in Slots : ~Free(s)
        /\ pc' = lost(pc, "idle")
        /\ request' = lost(request, Idle)
        /\ loaded' = lost(loaded, NothingLoaded)
        /\ UNCHANGED <<table, answer>>

Next ==
    \/ \E s \in Slots :
         \/ Refuse(s) \/ BeginGet(s) \/ BeginPut(s)
         \/ Select(s) \/ CommitInsert(s) \/ CommitUpdate(s) \/ Refresh(s)
         \/ Fail(s)
    \/ Crash

Spec == Init /\ [][Next]_vars

-----------------------------------------------------------------------------
(* Properties                                                              *)

(* REQ-0021: one row per user, however many first requests race; with two  *)
(* rows every later request of the user would be a 500.                    *)
OneRowPerUser == \A u \in Subs : Cardinality(RowsOf(u)) <= 1

(* REQ-0021: a PUT merges. Once a user has a row, a column changes only to *)
(* what the body of one of their own requests names for it; a value that   *)
(* another session of theirs has saved in between is not reset.            *)
WritesMerge ==
    [][\A k \in Keys : table[k] # NoRow =>
         /\ table'[k] # NoRow
         /\ table'[k].user_id = table[k].user_id
         /\ \A f \in SettingsFields : table'[k][f] # table[k][f] =>
              \E s \in Slots : /\ pc[s] = "update"
                               /\ pc'[s] # pc[s]
                               /\ request[s].caller.sub = table[k].user_id
                               /\ request[s].body[f] = table'[k][f]]_vars

(* REQ-0021: the settings shown are the caller's.                          *)
AnswersShowOwnSettings ==
    \A s \in Slots : answer[s] = "200" => loaded[s].row.user_id = request[s].caller.sub

(* REQ-0020 as written: settings exist as soon as they are asked for. A    *)
(* request that no statement failed for is not a 500.                      *)
FirstUseIsServed == \A s \in Slots : answer[s] # "500 integrity"
=============================================================================
