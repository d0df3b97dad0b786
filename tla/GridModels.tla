----------------------------- MODULE GridModels -----------------------------
(***************************************************************************)
(* The data of celine-grid: the rows of db/models.py and the request       *)
(* bodies of api/schemas.py, with the values no property looks at left     *)
(* out (created_at, updated_at, the surrogate key of the settings table).  *)
(***************************************************************************)
EXTENDS Naturals, FiniteSets

CONSTANTS
    Subs,           \* the `sub` claims of the people and services that call
    Networks,       \* organisation aliases, which are the network ids
    RuleIds,        \* the uuid4 keys of alert_rules
    Hazards,        \* the values of a risk_types list: wind, heat
    Texts,          \* what an operator may type into a recipients field
    Unattributed,   \* the '' that migration 002 wrote into network_id
    Null,           \* None in Python, null in JSON and in SQL
    Unset,          \* a field that the JSON body does not name
    NoRow           \* a key that names no row

Thresholds == {"WARNING", "ALERT"}

HazardLists == {h : h \in (SUBSET Hazards) \ {{}}}

(* A risk_types column holds a JSON array; it is NOT NULL in SQL, and the  *)
(* JSON null that None is serialised to is not an SQL NULL.                *)
AlertRule ==
    [user_id    : Subs,
     network_id : Networks \cup {Unattributed},
     risk_types : {Null} \cup HazardLists,
     threshold  : Thresholds,
     recipients : {Null} \cup Texts,
     active     : BOOLEAN]

AlertRuleCreate ==
    [risk_types : HazardLists \cup {{}},
     threshold  : Thresholds,
     recipients : {Null} \cup Texts,
     active     : BOOLEAN]

AlertRuleUpdate ==
    [risk_types : {{}, Null, Unset} \cup HazardLists,
     threshold  : {Null, Unset} \cup Thresholds,
     recipients : {Null, Unset} \cup Texts,
     active     : {Null, Unset} \cup BOOLEAN]

(* The body of a request that carries none.                                *)
EmptyBody ==
    [risk_types |-> Unset, threshold |-> Unset, recipients |-> Unset, active |-> Unset]

EditableFields == DOMAIN EmptyBody

(* The validator of risk_types: an empty list is refused, and a null of    *)
(* AlertRuleUpdate is let through.                                         *)
NonEmpty(v) == v # {}

NotificationSettings ==
    [user_id          : Subs,
     email_recipients : {Null} \cup Texts,
     webhook_url      : {Null} \cup Texts]

NotificationSettingsUpdate ==
    [email_recipients : {Null, Unset} \cup Texts,
     webhook_url      : {Null, Unset} \cup Texts]

-----------------------------------------------------------------------------
(* setattr for the named fields, then the UPDATE of a commit: it sets the  *)
(* columns whose value differs from the one this session loaded, and no    *)
(* other.                                                                  *)

Dirty(old, new) == new # Unset /\ new # old

WrittenWhole(current, old, new) ==              \* mutant: the whole row is saved
    IF new = Unset THEN old ELSE new

WrittenDefaults(current, old, new) == new       \* mutant: unset fields are dumped too

Written(current, old, new) == IF Dirty(old, new) THEN new ELSE current

(* The columns are NOT NULL: a None written to one of these is refused by  *)
(* the database. (risk_types is NOT NULL too, but see AlertRule.)          *)
NotNullFields == {"threshold", "active"}

ASSUME ModelsAssumption ==
    /\ \A v \in {Null, Unset} :
         /\ v \notin HazardLists \cup {{}}
         /\ v \notin Thresholds
         /\ v \notin BOOLEAN
    /\ Unset \notin {Null} \cup Texts
    /\ Null \notin Networks \cup RuleIds
    /\ Unattributed \notin Networks
    /\ NoRow \notin AlertRule
=============================================================================
