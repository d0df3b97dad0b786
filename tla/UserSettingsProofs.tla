------------------------- MODULE UserSettingsProofs -------------------------
(***************************************************************************)
(* Theorems of UserSettings, for any callers, bodies, keys and numbers of  *)
(* requests in flight.                                                     *)
(*                                                                         *)
(* The argument: a row never goes and never changes hands, so the row that *)
(* a session has found stays its caller's until the session writes it; and *)
(* a row is only added when its user has none.                             *)
(***************************************************************************)
EXTENDS UserSettings, FiniteSetTheorems, TLAPS

Requests == [caller : Callers \cup {Null}, op : {"none", "get", "put"},
             body : NotificationSettingsUpdate]

Holdings == [key : Keys \cup {Null}, row : NotificationSettings \cup {NoRow}]

TypesOK ==
    /\ table \in [Keys -> NotificationSettings \cup {NoRow}]
    /\ pc \in [Slots -> Working \cup {"idle", "answered"}]
    /\ request \in [Slots -> Requests]
    /\ loaded \in [Slots -> Holdings]
    /\ answer \in [Slots -> Answers]

(* What a session holds is its caller's, and what is shown is, too.        *)
SlotOK(s) ==
    /\ ~Free(s) => request[s].caller \in Callers /\ answer[s] = "none"
    /\ pc[s] \in {"update", "refresh"} =>
         /\ loaded[s].key \in Keys
         /\ table[loaded[s].key] # NoRow
         /\ table[loaded[s].key].user_id = request[s].caller.sub
    /\ answer[s] = "200" => loaded[s].row.user_id = request[s].caller.sub

OneOwner ==
    \A k, l \in Keys :
        table[k] # NoRow /\ table[l] # NoRow /\ table[k].user_id = table[l].user_id => k = l

IInv == TypesOK /\ OneOwner /\ \A s \in Slots : SlotOK(s)

(* Rows stay, and stay with their user.                                    *)
RowsStay ==
    \A k \in Keys : table[k] # NoRow => table'[k] # NoRow /\ table'[k].user_id = table[k].user_id

-----------------------------------------------------------------------------
(* The steps of a request                                                  *)

(* A step of one request: the others keep what they have, and it holds     *)
(* through every change of the table that leaves rows with their users.    *)
LEMMA Frame ==
    ASSUME IInv, NEW s \in Slots, RowsStay, TypesOK', OneOwner', SlotOK(s)',
           \A r \in Slots : r # s =>
               /\ pc'[r] = pc[r] /\ request'[r] = request[r]
               /\ loaded'[r] = loaded[r] /\ answer'[r] = answer[r]
    PROVE  IInv'
<1>1. ASSUME NEW r \in Slots, r # s PROVE SlotOK(r)'
  <2>1. SlotOK(r)
    BY DEF IInv
  <2>2. /\ pc'[r] = pc[r] /\ request'[r] = request[r]
        /\ loaded'[r] = loaded[r] /\ answer'[r] = answer[r]
    BY <1>1
  <2> QED
    BY <2>1, <2>2 DEF SlotOK, Free, RowsStay
<1> QED
  BY <1>1 DEF IInv

(* A body names values that a row may have.                                *)
LEMMA WrittenIs ==
    ASSUME NEW current \in {Null} \cup Texts, NEW old, NEW new \in {Null, Unset} \cup Texts
    PROVE  /\ Written(current, old, new) \in {Null} \cup Texts
           /\ Written(current, old, new) # current => Written(current, old, new) = new
  BY DEF Written, Dirty

(* A body that names nothing is a body.                                    *)
LEMMA NothingIs ==
    /\ NothingNamed \in NotificationSettingsUpdate
    /\ Idle \in Requests
    /\ NothingLoaded \in Holdings
  BY DEF NothingNamed, NotificationSettingsUpdate, Idle, Requests, NothingLoaded, Holdings

(* A request that is refused holds nothing.                                *)
LEMMA RefuseIs == ASSUME IInv, NEW s \in Slots, Refuse(s) PROVE IInv' /\ RowsStay
<1>1. PICK user \in Callers, op \in {"get", "put"} :
        request' = [request EXCEPT ![s] = [caller |-> user, op |-> op, body |-> NothingNamed]]
  BY DEF Refuse
<1>2. /\ pc' = [pc EXCEPT ![s] = "answered"] /\ answer' = [answer EXCEPT ![s] = "403"]
      /\ loaded' = [loaded EXCEPT ![s] = NothingLoaded] /\ table' = table
  BY DEF Refuse
<1>3. [caller |-> user, op |-> op, body |-> NothingNamed] \in Requests
  BY NothingIs DEF Requests
<1>4. TypesOK'
  BY <1>1, <1>2, <1>3, NothingIs DEF IInv, TypesOK, Answers
<1>5. SlotOK(s)'
  BY <1>2 DEF IInv, TypesOK, SlotOK, Free
<1>6. RowsStay /\ OneOwner'
  BY <1>2 DEF RowsStay, IInv, OneOwner
<1>7. \A r \in Slots : r # s =>
        /\ pc'[r] = pc[r] /\ request'[r] = request[r]
        /\ loaded'[r] = loaded[r] /\ answer'[r] = answer[r]
  BY <1>1, <1>2 DEF IInv, TypesOK
<1> QED
  BY <1>4, <1>5, <1>6, <1>7, Frame

(* A request that is let in is a caller's, and unanswered.                 *)
LEMMA BeginIs ==
    ASSUME IInv, NEW s \in Slots, NEW op \in {"get", "put"}, Begin(s, op)
    PROVE  IInv' /\ RowsStay
<1>1. PICK user \in Callers, body \in NotificationSettingsUpdate :
        request' = [request EXCEPT ![s] = [caller |-> user, op |-> op, body |-> body]]
  BY NothingIs, SettingsAssumption DEF Begin
<1>2. /\ pc' = [pc EXCEPT ![s] = "select"] /\ answer' = [answer EXCEPT ![s] = "none"]
      /\ loaded' = [loaded EXCEPT ![s] = NothingLoaded] /\ table' = table
  BY DEF Begin
<1>3. [caller |-> user, op |-> op, body |-> body] \in Requests
  BY DEF Requests
<1>4. TypesOK'
  BY <1>1, <1>2, <1>3, NothingIs DEF IInv, TypesOK, Answers, Working
<1>5. SlotOK(s)'
  <2>1. pc'[s] = "select" /\ answer'[s] = "none" /\ request'[s].caller = user
    BY <1>1, <1>2 DEF IInv, TypesOK
  <2> QED
    BY <2>1 DEF SlotOK, Free
<1>6. RowsStay /\ OneOwner'
  BY <1>2 DEF RowsStay, IInv, OneOwner
<1>7. \A r \in Slots : r # s =>
        /\ pc'[r] = pc[r] /\ request'[r] = request[r]
        /\ loaded'[r] = loaded[r] /\ answer'[r] = answer[r]
  BY <1>1, <1>2 DEF IInv, TypesOK
<1> QED
  BY <1>4, <1>5, <1>6, <1>7, Frame

(* An answer shows nothing, or what is the caller's.                       *)
LEMMA AnswerIs ==
    ASSUME IInv, NEW s \in Slots, NEW status \in Answers, NEW shown \in Holdings,
           Answer(s, status, shown), UNCHANGED table,
           status = "200" => shown.row.user_id = request[s].caller.sub
    PROVE  IInv' /\ RowsStay
<1>1. /\ pc' = [pc EXCEPT ![s] = "answered"] /\ answer' = [answer EXCEPT ![s] = status]
      /\ loaded' = [loaded EXCEPT ![s] = shown] /\ request' = request /\ table' = table
  BY DEF Answer
<1>2. TypesOK'
  BY <1>1 DEF IInv, TypesOK
<1>3. SlotOK(s)'
  <2>1. /\ pc'[s] = "answered" /\ answer'[s] = status /\ loaded'[s] = shown
        /\ request'[s] = request[s]
    BY <1>1 DEF IInv, TypesOK
  <2> QED
    BY <2>1 DEF SlotOK, Free
<1>4. RowsStay /\ OneOwner'
  BY <1>1 DEF RowsStay, IInv, OneOwner
<1>5. \A r \in Slots : r # s =>
        /\ pc'[r] = pc[r] /\ request'[r] = request[r]
        /\ loaded'[r] = loaded[r] /\ answer'[r] = answer[r]
  BY <1>1 DEF IInv, TypesOK
<1> QED
  BY <1>2, <1>3, <1>4, <1>5, Frame

(* A row that is found is the caller's.                                    *)
LEMMA SelectIs == ASSUME IInv, NEW s \in Slots, Select(s) PROVE IInv' /\ RowsStay
<1>1. pc[s] = "select" /\ table' = table /\ request[s].caller \in Callers /\ answer[s] = "none"
  BY DEF Select, IInv, SlotOK, Free
<1>2. CASE pc' = [pc EXCEPT ![s] = "insert"] /\ UNCHANGED <<request, loaded, answer>>
  <2>1. TypesOK'
    BY <1>1, <1>2 DEF IInv, TypesOK, Working
  <2>2. SlotOK(s)'
    <3>1. pc'[s] = "insert" /\ request'[s] = request[s] /\ answer'[s] = "none"
      BY <1>1, <1>2 DEF IInv, TypesOK
    <3> QED
      BY <1>1, <3>1 DEF SlotOK, Free
  <2>3. RowsStay /\ OneOwner'
    BY <1>1 DEF RowsStay, IInv, OneOwner
  <2>4. \A r \in Slots : r # s =>
          /\ pc'[r] = pc[r] /\ request'[r] = request[r]
          /\ loaded'[r] = loaded[r] /\ answer'[r] = answer[r]
    BY <1>2 DEF IInv, TypesOK
  <2> QED
    BY <2>1, <2>2, <2>3, <2>4, Frame
<1>3. ASSUME NEW k \in RowsOf(request[s].caller.sub)
      PROVE  LET held == [key |-> k, row |-> table[k]]
             IN  /\ held \in Holdings
                 /\ k \in Keys /\ table[k] # NoRow
                 /\ table[k].user_id = request[s].caller.sub
                 /\ held.key = k /\ held.row = table[k]
  BY DEF RowsOf, Holdings, IInv, TypesOK
<1>4. CASE \E k \in RowsOf(request[s].caller.sub) :
             Answer(s, "200", [key |-> k, row |-> table[k]])
  <2>1. PICK k \in RowsOf(request[s].caller.sub) :
          Answer(s, "200", [key |-> k, row |-> table[k]])
    BY <1>4
  <2>2. "200" \in Answers
    BY DEF Answers
  <2> QED
    BY <1>1, <1>3, <2>1, <2>2, AnswerIs
<1>5. CASE \E k \in RowsOf(request[s].caller.sub) :
             /\ pc' = [pc EXCEPT ![s] = "update"]
             /\ loaded' = [loaded EXCEPT ![s] = [key |-> k, row |-> table[k]]]
             /\ UNCHANGED <<request, answer>>
  <2>1. PICK k \in RowsOf(request[s].caller.sub) :
          /\ pc' = [pc EXCEPT ![s] = "update"]
          /\ loaded' = [loaded EXCEPT ![s] = [key |-> k, row |-> table[k]]]
          /\ UNCHANGED <<request, answer>>
    BY <1>5
  <2>2. TypesOK'
    BY <1>1, <1>3, <2>1 DEF IInv, TypesOK, Working
  <2>3. SlotOK(s)'
    <3>1. /\ pc'[s] = "update" /\ request'[s] = request[s] /\ answer'[s] = "none"
          /\ loaded'[s].key = k
      BY <1>1, <2>1 DEF IInv, TypesOK
    <3> QED
      BY <1>1, <1>3, <3>1 DEF SlotOK, Free
  <2>4. RowsStay /\ OneOwner'
    BY <1>1 DEF RowsStay, IInv, OneOwner
  <2>5. \A r \in Slots : r # s =>
          /\ pc'[r] = pc[r] /\ request'[r] = request[r]
          /\ loaded'[r] = loaded[r] /\ answer'[r] = answer[r]
    BY <2>1 DEF IInv, TypesOK
  <2> QED
    BY <2>2, <2>3, <2>4, <2>5, Frame
<1> QED
  BY <1>2, <1>4, <1>5 DEF Select

(* The row that is added is the first of its user.                         *)
LEMMA CommitInsertIs == ASSUME IInv, NEW s \in Slots, CommitInsert(s) PROVE IInv' /\ RowsStay
<1> DEFINE row == NewSettings(request[s].caller, request[s].body)
<1>1. pc[s] = "insert" /\ request[s].caller \in Callers /\ answer[s] = "none"
  BY DEF CommitInsert, IInv, SlotOK, Free
<1>2. row \in NotificationSettings /\ row.user_id = request[s].caller.sub
  <2>1. request[s].body \in NotificationSettingsUpdate
    BY DEF IInv, TypesOK, Requests
  <2>2. request[s].caller.sub \in Subs
    BY <1>1, AccessAssumption DEF JwtUser
  <2>3. /\ Written(Null, Null, request[s].body.email_recipients) \in {Null} \cup Texts
        /\ Written(Null, Null, request[s].body.webhook_url) \in {Null} \cup Texts
    BY <2>1, WrittenIs DEF NotificationSettingsUpdate
  <2> QED
    BY <2>2, <2>3 DEF NewSettings, NotificationSettings
<1> HIDE DEF row
<1>3. row # NoRow
  BY <1>2, SettingsAssumption
<1>4. CASE Answer(s, "500 integrity", NothingLoaded) /\ UNCHANGED table
  <2>1. "500 integrity" \in Answers /\ "500 integrity" # "200"
    BY DEF Answers
  <2> QED
    BY <1>4, <2>1, NothingIs, AnswerIs
<1>5. CASE /\ Unique(row.user_id)
           /\ \E k \in Keys :
                /\ table[k] = NoRow
                /\ table' = [table EXCEPT ![k] = row]
                /\ pc' = [pc EXCEPT ![s] = "refresh"]
                /\ loaded' = [loaded EXCEPT ![s] = [key |-> k, row |-> row]]
                /\ UNCHANGED <<request, answer>>
  <2>1. PICK k \in Keys :
          /\ table[k] = NoRow
          /\ table' = [table EXCEPT ![k] = row]
          /\ pc' = [pc EXCEPT ![s] = "refresh"]
          /\ loaded' = [loaded EXCEPT ![s] = [key |-> k, row |-> row]]
          /\ UNCHANGED <<request, answer>>
    BY <1>5
  <2>2. \A l \in Keys : table[l] # NoRow => table[l].user_id # row.user_id
    BY <1>5 DEF Unique, RowsOf
  <2>3. table'[k] = row /\ \A l \in Keys : l # k => table'[l] = table[l]
    BY <2>1 DEF IInv, TypesOK
  <2>4. [key |-> k, row |-> row] \in Holdings
    BY <1>2 DEF Holdings
  <2>5. TypesOK'
    BY <1>2, <2>1, <2>4 DEF IInv, TypesOK, Working
  <2>6. OneOwner'
    BY <2>2, <2>3 DEF IInv, OneOwner
  <2>7. SlotOK(s)'
    <3>1. /\ pc'[s] = "refresh" /\ request'[s] = request[s] /\ answer'[s] = "none"
          /\ loaded'[s].key = k
      BY <1>1, <2>1 DEF IInv, TypesOK
    <3> QED
      BY <1>1, <1>2, <1>3, <2>3, <3>1 DEF SlotOK, Free
  <2>8. RowsStay
    BY <2>1, <2>3 DEF RowsStay
  <2>9. \A r \in Slots : r # s =>
          /\ pc'[r] = pc[r] /\ request'[r] = request[r]
          /\ loaded'[r] = loaded[r] /\ answer'[r] = answer[r]
    BY <2>1 DEF IInv, TypesOK
  <2> QED
    BY <2>5, <2>6, <2>7, <2>8, <2>9, Frame
<1> QED
  BY <1>4, <1>5 DEF CommitInsert, row

(* The row that is saved is the caller's, and only what the body names     *)
(* changes in it.                                                          *)
LEMMA CommitUpdateIs ==
    ASSUME IInv, NEW s \in Slots, CommitUpdate(s)
    PROVE  /\ IInv' /\ RowsStay
           /\ \A k \in Keys : table[k] # NoRow =>
                \A f \in SettingsFields : table'[k][f] # table[k][f] =>
                    /\ pc[s] = "update" /\ pc'[s] # pc[s]
                    /\ request[s].caller.sub = table[k].user_id
                    /\ request[s].body[f] = table'[k][f]
<1> DEFINE key  == loaded[s].key
           old  == table[key]
           body == request[s].body
           new  == Merged(old, loaded[s].row, body)
<1>1. /\ pc[s] = "update" /\ key \in Keys /\ old # NoRow /\ old.user_id = request[s].caller.sub
      /\ request[s].caller \in Callers /\ answer[s] = "none"
  BY DEF CommitUpdate, IInv, SlotOK, Free
<1>2. /\ table' = [table EXCEPT ![key] = new] /\ pc' = [pc EXCEPT ![s] = "refresh"]
      /\ request' = request /\ loaded' = loaded /\ answer' = answer
  BY DEF CommitUpdate
<1>3. old \in NotificationSettings /\ body \in NotificationSettingsUpdate
  BY <1>1 DEF IInv, TypesOK, Requests
<1>4. /\ new \in NotificationSettings /\ new.user_id = old.user_id
      /\ \A f \in SettingsFields : new[f] # old[f] => body[f] = new[f]
  <2> DEFINE email == Written(old.email_recipients, loaded[s].row.email_recipients,
                              body.email_recipients)
             hook  == Written(old.webhook_url, loaded[s].row.webhook_url, body.webhook_url)
  <2>1. /\ email \in {Null} \cup Texts
        /\ email # old.email_recipients => email = body.email_recipients
        /\ hook \in {Null} \cup Texts
        /\ hook # old.webhook_url => hook = body.webhook_url
    <3> HIDE DEF old, body
    <3> QED
      BY <1>3, WrittenIs DEF NotificationSettings, NotificationSettingsUpdate
  <2>2. new = [old EXCEPT !.email_recipients = email, !.webhook_url = hook]
    BY DEF Merged
  <2>3. SettingsFields = {"email_recipients", "webhook_url"}
    BY DEF SettingsFields, NothingNamed
  <2> HIDE DEF old, body, email, hook, new
  <2>4. /\ new \in NotificationSettings /\ new.user_id = old.user_id
        /\ new.email_recipients = email /\ new.webhook_url = hook
    BY <1>3, <2>1, <2>2 DEF NotificationSettings
  <2> QED
    BY <2>1, <2>3, <2>4
<1>5. new # NoRow
  BY <1>4, SettingsAssumption
<1> HIDE DEF new, body
<1>6. table'[key] = new /\ \A l \in Keys : l # key => table'[l] = table[l]
  BY <1>1, <1>2 DEF IInv, TypesOK
<1>7. TypesOK'
  BY <1>1, <1>2, <1>4 DEF IInv, TypesOK, Working
<1>8. RowsStay
  BY <1>1, <1>4, <1>5, <1>6 DEF RowsStay
<1>9. OneOwner'
  <2> SUFFICES ASSUME NEW k \in Keys, NEW l \in Keys, table'[k] # NoRow, table'[l] # NoRow,
                      table'[k].user_id = table'[l].user_id
               PROVE  k = l
    BY DEF OneOwner
  <2>1. \A m \in Keys : table'[m] # NoRow => table[m] # NoRow /\ table'[m].user_id = table[m].user_id
    BY <1>1, <1>4, <1>6
  <2> QED
    BY <2>1 DEF IInv, OneOwner
<1>10. pc'[s] = "refresh" /\ \A r \in Slots : r # s => pc'[r] = pc[r]
  BY <1>2 DEF IInv, TypesOK
<1>11. SlotOK(s)'
  BY <1>1, <1>2, <1>4, <1>5, <1>6, <1>10 DEF SlotOK, Free
<1>12. IInv'
  BY <1>2, <1>7, <1>8, <1>9, <1>10, <1>11, Frame
<1>13. ASSUME NEW k \in Keys, table[k] # NoRow, NEW f \in SettingsFields, table'[k][f] # table[k][f]
       PROVE  /\ request[s].caller.sub = table[k].user_id
              /\ request[s].body[f] = table'[k][f]
  <2>1. k = key
    BY <1>6, <1>13
  <2> QED
    BY <1>1, <1>4, <1>6, <1>13, <2>1 DEF body
<1> QED
  BY <1>1, <1>8, <1>10, <1>12, <1>13

(* The row that is shown at the end is the one that was written.           *)
LEMMA RefreshIs == ASSUME IInv, NEW s \in Slots, Refresh(s) PROVE IInv' /\ RowsStay
<1> DEFINE key   == loaded[s].key
           shown == [loaded[s] EXCEPT !.row = table[key]]
<1>1. pc[s] = "refresh" /\ Answer(s, "200", shown) /\ table' = table
  BY DEF Refresh
<1>2. key \in Keys /\ table[key] # NoRow /\ table[key].user_id = request[s].caller.sub
  BY <1>1 DEF IInv, SlotOK
<1>3. loaded[s] \in Holdings /\ table[key] \in NotificationSettings \cup {NoRow}
  BY <1>2 DEF IInv, TypesOK
<1>4. shown \in Holdings /\ shown.row = table[key]
  BY <1>3 DEF Holdings
<1>5. "200" \in Answers
  BY DEF Answers
<1> HIDE DEF shown
<1> QED
  BY <1>1, <1>2, <1>4, <1>5, AnswerIs

(* A statement that fails is rolled back, and shows nothing.               *)
LEMMA FailIs == ASSUME IInv, NEW s \in Slots, Fail(s) PROVE IInv' /\ RowsStay
<1>1. "500 statement failed" \in Answers /\ "500 statement failed" # "200"
  BY DEF Answers
<1> QED
  BY <1>1, NothingIs, AnswerIs DEF Fail

(* The process dies: what was committed stays, what was in flight goes.    *)
LEMMA CrashIs == ASSUME IInv, Crash PROVE IInv' /\ RowsStay
<1>1. /\ pc' = [s \in Slots |-> IF Free(s) THEN pc[s] ELSE "idle"]
      /\ request' = [s \in Slots |-> IF Free(s) THEN request[s] ELSE Idle]
      /\ loaded' = [s \in Slots |-> IF Free(s) THEN loaded[s] ELSE NothingLoaded]
      /\ table' = table /\ answer' = answer
  BY DEF Crash
<1>2. TypesOK'
  BY <1>1, NothingIs DEF IInv, TypesOK
<1>3. RowsStay /\ OneOwner'
  BY <1>1 DEF RowsStay, IInv, OneOwner
<1>4. ASSUME NEW s \in Slots PROVE SlotOK(s)'
  <2>1. SlotOK(s)
    BY DEF IInv
  <2>2. CASE Free(s)
    BY <1>1, <2>1, <2>2 DEF SlotOK, Free
  <2>3. CASE ~Free(s)
    <3>1. pc'[s] = "idle" /\ answer'[s] = "none"
      BY <1>1, <2>1, <2>3 DEF SlotOK
    <3> QED
      BY <3>1 DEF SlotOK, Free
  <2> QED
    BY <2>2, <2>3
<1> QED
  BY <1>2, <1>3, <1>4 DEF IInv

-----------------------------------------------------------------------------
(* The invariant                                                           *)

(* The table starts empty, and no request is in flight.                    *)
LEMMA InitIs == Init => IInv
<1> SUFFICES ASSUME Init PROVE IInv
  OBVIOUS
<1>1. TypesOK
  BY NothingIs DEF Init, TypesOK, Answers
<1>2. OneOwner
  BY DEF Init, OneOwner
<1>3. ASSUME NEW s \in Slots PROVE SlotOK(s)
  BY DEF Init, SlotOK, Free
<1> QED
  BY <1>1, <1>2, <1>3 DEF IInv

(* Every step keeps the invariant, and the rows with their users.          *)
LEMMA NextIs == IInv /\ [Next]_vars => IInv' /\ RowsStay
<1> SUFFICES ASSUME IInv, [Next]_vars PROVE IInv' /\ RowsStay
  OBVIOUS
<1>1. ASSUME NEW s \in Slots,
             \/ Refuse(s) \/ BeginGet(s) \/ BeginPut(s)
             \/ Select(s) \/ CommitInsert(s) \/ CommitUpdate(s) \/ Refresh(s)
             \/ Fail(s)
      PROVE  IInv' /\ RowsStay
  <2>1. CASE Refuse(s)
    BY <2>1, RefuseIs
  <2>2. CASE BeginGet(s) \/ BeginPut(s)
    BY <2>2, BeginIs DEF BeginGet, BeginPut
  <2>3. CASE Select(s)
    BY <2>3, SelectIs
  <2>4. CASE CommitInsert(s)
    BY <2>4, CommitInsertIs
  <2>5. CASE CommitUpdate(s)
    BY <2>5, CommitUpdateIs
  <2>6. CASE Refresh(s)
    BY <2>6, RefreshIs
  <2>7. CASE Fail(s)
    BY <2>7, FailIs
  <2> QED
    BY <1>1, <2>1, <2>2, <2>3, <2>4, <2>5, <2>6, <2>7
<1>2. CASE Crash
  BY <1>2, CrashIs
<1>3. CASE UNCHANGED vars
  BY <1>3 DEF vars, IInv, TypesOK, OneOwner, SlotOK, Free, RowsStay
<1> QED
  BY <1>1, <1>2, <1>3 DEF Next

(* The invariant holds in every state that the endpoints can be in.        *)
THEOREM Invariance == Spec => []IInv
<1>1. IInv /\ [Next]_vars => IInv'
  BY NextIs
<1> QED
  BY InitIs, <1>1, PTL DEF Spec

(* REQ-0021: a user has one row at most, however many first requests race. *)
THEOREM OneRowEach == Spec => []OneRowPerUser
<1>1. IInv => OneRowPerUser
  <2> SUFFICES ASSUME IInv, NEW u \in Subs PROVE Cardinality(RowsOf(u)) <= 1
    BY DEF OneRowPerUser
  <2>1. CASE RowsOf(u) = {}
    BY <2>1, FS_EmptySet
  <2>2. CASE RowsOf(u) # {}
    <3>1. PICK k : k \in RowsOf(u)
      BY <2>2
    <3>2. RowsOf(u) = {k}
      BY <3>1 DEF RowsOf, IInv, OneOwner
    <3> QED
      BY <3>2, FS_Singleton
  <2> QED
    BY <2>1, <2>2
<1> QED
  BY <1>1, Invariance, PTL

(* REQ-0021: the settings that a request is answered with are its caller's.*)
THEOREM OwnSettingsShown == Spec => []AnswersShowOwnSettings
<1>1. IInv => AnswersShowOwnSettings
  BY DEF IInv, SlotOK, AnswersShowOwnSettings
<1> QED
  BY <1>1, Invariance, PTL

(* REQ-0021: a PUT merges: a column changes only to what the body of one   *)
(* of its user's own requests names for it.                                *)
THEOREM PutsMerge == Spec => WritesMerge
<1> DEFINE merges(k) ==
             /\ table'[k] # NoRow
             /\ table'[k].user_id = table[k].user_id
             /\ \A f \in SettingsFields : table'[k][f] # table[k][f] =>
                  \E s \in Slots : /\ pc[s] = "update"
                                   /\ pc'[s] # pc[s]
                                   /\ request[s].caller.sub = table[k].user_id
                                   /\ request[s].body[f] = table'[k][f]
<1>1. IInv /\ [Next]_vars => [\A k \in Keys : table[k] # NoRow => merges(k)]_vars
  <2> SUFFICES ASSUME IInv, Next, NEW k \in Keys, table[k] # NoRow PROVE merges(k)
    OBVIOUS
  <2>1. table'[k] # NoRow /\ table'[k].user_id = table[k].user_id
    BY NextIs DEF RowsStay
  <2>2. CASE table'[k] = table[k]
    BY <2>1, <2>2
  <2>3. CASE \E s \in Slots : CommitUpdate(s)
    BY <2>1, <2>3, CommitUpdateIs
  <2>4. CASE \E s \in Slots : CommitInsert(s)
    <3>1. table'[k] = table[k]
      BY <2>4 DEF CommitInsert, IInv, TypesOK
    <3> QED
      BY <2>2, <3>1
  <2>5. ASSUME ~ \E s \in Slots : CommitUpdate(s) \/ CommitInsert(s)
        PROVE  table' = table
    BY <2>5 DEF Next, Refuse, BeginGet, BeginPut, Begin, Select, Refresh, Fail, Crash
  <2> QED
    BY <2>2, <2>3, <2>4, <2>5
<1> QED
  BY <1>1, Invariance, PTL DEF Spec, WritesMerge


-----------------------------------------------------------------------------
(* The race of two first requests is the only way to fail one              *)

(* No two requests of one person are in flight at once.                    *)
OneAtATime ==
    \A s, t \in Slots : s # t /\ ~Free(s) /\ ~Free(t) =>
        request[s].caller.sub # request[t].caller.sub

(* What a session found missing is still missing when it inserts.          *)
StillMissing == \A s \in Slots : pc[s] = "insert" => RowsOf(request[s].caller.sub) = {}

(* A request that comes to its insert has just found that its caller has   *)
(* no row.                                                                 *)
LEMMA InsertsFoundNone ==
    ASSUME IInv, Next, NEW s \in Slots, pc'[s] = "insert"
    PROVE  /\ request'[s] = request[s]
           /\ \/ pc[s] = "insert"
              \/ RowsOf(request[s].caller.sub) = {} /\ table' = table
<1>1. CASE Crash
  BY <1>1 DEF Crash, Free
<1>2. ASSUME NEW t \in Slots,
             \/ Refuse(t) \/ BeginGet(t) \/ BeginPut(t)
             \/ CommitInsert(t) \/ CommitUpdate(t) \/ Refresh(t)
             \/ Fail(t)
      PROVE  t # s /\ pc'[s] = pc[s] /\ request'[s] = request[s]
  BY <1>2 DEF IInv, TypesOK, Refuse, BeginGet, BeginPut, Begin, CommitInsert, CommitUpdate,
              Refresh, Fail, Answer
<1>3. ASSUME NEW t \in Slots, Select(t), t # s
      PROVE  pc'[s] = pc[s] /\ request'[s] = request[s]
  BY <1>3 DEF IInv, TypesOK, Select, Answer
<1>4. CASE Select(s)
  BY <1>4 DEF IInv, TypesOK, Select, Answer
<1> QED
  BY <1>1, <1>2, <1>3, <1>4 DEF Next

(* Only an insert gives a row to a user, and to its caller.                *)
LEMMA RowsCome ==
    ASSUME IInv, Next, NEW sub, RowsOf(sub) = {},
           \A t \in Slots : CommitInsert(t) => request[t].caller.sub # sub
    PROVE  RowsOf(sub)' = {}
<1>1. CASE \E t \in Slots : CommitUpdate(t)
  <2>1. PICK t \in Slots : CommitUpdate(t)
    BY <1>1
  <2>2. RowsStay
    BY NextIs
  <2>3. /\ loaded[t].key \in Keys /\ table[loaded[t].key] # NoRow
        /\ table' = [table EXCEPT ![loaded[t].key] =
                        Merged(table[loaded[t].key], loaded[t].row, request[t].body)]
    BY <2>1 DEF CommitUpdate, IInv, SlotOK
  <2>4. \A k \in Keys : k # loaded[t].key => table'[k] = table[k]
    BY <2>3 DEF IInv, TypesOK
  <2> QED
    BY <2>2, <2>3, <2>4 DEF RowsOf, RowsStay
<1>2. CASE \E t \in Slots : CommitInsert(t)
  <2>1. PICK t \in Slots : CommitInsert(t)
    BY <1>2
  <2> DEFINE row == NewSettings(request[t].caller, request[t].body)
  <2>2. row.user_id = request[t].caller.sub
    BY DEF NewSettings
  <2>3. \/ table' = table
        \/ \E k \in Keys : table' = [table EXCEPT ![k] = row]
    BY <2>1 DEF CommitInsert
  <2> HIDE DEF row
  <2>4. \A k \in Keys : table'[k] = table[k] \/ table'[k] = row
    BY <2>3 DEF IInv, TypesOK
  <2> QED
    BY <2>1, <2>2, <2>4 DEF RowsOf
<1>3. CASE ~ \E t \in Slots : CommitUpdate(t) \/ CommitInsert(t)
  <2>1. table' = table
    BY <1>3 DEF Next, Refuse, BeginGet, BeginPut, Begin, Select, Refresh, Fail, Crash
  <2> QED
    BY <2>1 DEF RowsOf
<1> QED
  BY <1>1, <1>2, <1>3

(* While nobody has two requests in flight, what was missing stays so.     *)
LEMMA MissingStays ==
    ASSUME IInv, OneAtATime, StillMissing, [Next]_vars
    PROVE  StillMissing'
<1>1. CASE UNCHANGED vars
  BY <1>1 DEF vars, StillMissing, RowsOf
<1>2. CASE Next
  <2> SUFFICES ASSUME NEW s \in Slots, pc'[s] = "insert"
               PROVE  RowsOf(request[s].caller.sub)' = {}
    BY DEF StillMissing
  <2> DEFINE sub == request[s].caller.sub
  <2>1. request'[s] = request[s]
    BY <1>2, InsertsFoundNone
  <2>2. CASE RowsOf(sub) = {} /\ table' = table
    BY <2>1, <2>2 DEF RowsOf
  <2>3. CASE pc[s] = "insert"
    <3>1. RowsOf(sub) = {}
      BY <2>3 DEF StillMissing
    <3>2. ASSUME NEW t \in Slots, CommitInsert(t) PROVE request[t].caller.sub # sub
      <4>1. pc[t] = "insert" /\ pc'[t] # "insert"
        BY <3>2 DEF CommitInsert, Answer, IInv, TypesOK
      <4>2. t # s /\ ~Free(s) /\ ~Free(t)
        BY <4>1, <2>3 DEF Free
      <4> QED
        BY <4>2 DEF OneAtATime
    <3> HIDE DEF sub
    <3>3. \A k \in Keys : ~(table'[k] # NoRow /\ table'[k].user_id = sub)
      BY <1>2, <3>1, <3>2, RowsCome DEF RowsOf
    <3> QED
      BY <2>1, <3>3 DEF RowsOf, sub
  <2> QED
    BY <1>2, <2>2, <2>3, InsertsFoundNone
<1> QED
  BY <1>1, <1>2

(* A request whose caller has no row when it inserts is not refused.       *)
LEMMA NoneIsRefused ==
    ASSUME IInv, StillMissing, FirstUseIsServed, [Next]_vars
    PROVE  FirstUseIsServed'
<1>1. CASE UNCHANGED vars
  BY <1>1 DEF vars, FirstUseIsServed
<1>2. CASE Crash
  BY <1>2 DEF Crash, FirstUseIsServed
<1>3. ASSUME NEW t \in Slots, CommitInsert(t)
      PROVE  FirstUseIsServed'
  <2>1. Unique(NewSettings(request[t].caller, request[t].body).user_id)
    BY <1>3 DEF CommitInsert, StillMissing, Unique, NewSettings
  <2>2. answer' = answer
    BY <1>3, <2>1 DEF CommitInsert
  <2> QED
    BY <2>2 DEF FirstUseIsServed
<1>4. ASSUME NEW t \in Slots,
             \/ Refuse(t) \/ BeginGet(t) \/ BeginPut(t)
             \/ Select(t) \/ CommitUpdate(t) \/ Refresh(t) \/ Fail(t)
      PROVE  FirstUseIsServed'
  <2>1. \/ answer' = answer
        \/ \E a \in Answers : a # "500 integrity" /\ answer' = [answer EXCEPT ![t] = a]
    BY <1>4 DEF Refuse, BeginGet, BeginPut, Begin, Select, CommitUpdate, Refresh, Fail, Answer,
                Answers
  <2> QED
    BY <2>1 DEF FirstUseIsServed, IInv, TypesOK
<1> QED
  BY <1>1, <1>2, <1>3, <1>4 DEF Next

(* The failures of a first use have one cause: as long as nobody has two   *)
(* requests in flight at once, no request is answered with the violation   *)
(* of the constraint, whatever the requests of others, failed statements   *)
(* and crashes do in between.                                              *)
THEOREM OnlyRacesFail == Spec /\ []OneAtATime => []FirstUseIsServed
<1>1. Init => StillMissing /\ FirstUseIsServed
  BY DEF Init, StillMissing, FirstUseIsServed
<1>2. /\ IInv /\ OneAtATime /\ StillMissing /\ FirstUseIsServed /\ [Next]_vars
      => StillMissing' /\ FirstUseIsServed'
  BY MissingStays, NoneIsRefused
<1> QED
  BY <1>1, <1>2, Invariance, PTL DEF Spec
=============================================================================
