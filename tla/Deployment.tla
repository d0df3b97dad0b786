----------------------------- MODULE Deployment -----------------------------
(***************************************************************************)
(* The service over its database's life: migrations run while the service  *)
(* is down (docker-compose.yml starts the API when its migrate service is  *)
(* over), start the service at any revision, older releases that filed     *)
(* rules at revisions 1 and 2, and the rules this release files.           *)
(***************************************************************************)
EXTENDS Lifespan, Migrations

CONSTANT RuleIds

VARIABLE db

vars == <<db, service>>

Init == db = EmptyDatabase /\ LifespanInit

Store(i, row) == [db EXCEPT !.rows = Extend(@, i, row)]

-----------------------------------------------------------------------------

AlembicUpgrade ==
    /\ stage \in Down
    /\ UpgradeHead(db) # Failed
    /\ db' = UpgradeHead(db)
    /\ UNCHANGED service

(* One revision back; a statement that fails rolls it back.                *)
AlembicDowngrade ==
    /\ stage \in Down
    /\ DowngradeOne(db) # Failed
    /\ db' = DowngradeOne(db)
    /\ UNCHANGED service

(* The releases before this one are not in the repository; they filed one  *)
(* hazard at revision 1, and a list under a network at revision 2.         *)
OlderReleaseFiles(i) ==
    /\ stage \in Down
    /\ i \notin DOMAIN db.rows
    /\ \/ /\ db.version = 1
          /\ \E k \in Kept, v \in Hazards, u \in Units \cup {Null} :
               db' = Store(i, [c \in Columns001 |->
                        CASE c = "kept" -> k [] c = "risk_type" -> v [] OTHER -> u])
       \/ /\ db.version = 2
          /\ \E k \in Kept, vs \in HazardLists, n \in Networks :
               db' = Store(i, [c \in {"kept", "risk_types", "network_id"} |->
                        CASE c = "kept" -> k [] c = "risk_types" -> vs [] OTHER -> n])
    /\ UNCHANGED service

(* To upgrade to 1 and stop there, as the older releases did.              *)
OlderReleaseUpgrades ==
    /\ stage \in Down
    /\ db.version = 0
    /\ Upgrade001(db) # Failed
    /\ db' = Upgrade001(db)
    /\ UNCHANGED service

ServiceInitDb == InitDb /\ db' = CreateAll(db)

(* POST /alert-rules: network_id_unset is left to the model's default.     *)
ServiceFiles(i) ==
    /\ stage = "serving"
    /\ Insertable(db)
    /\ i \notin DOMAIN db.rows
    /\ \E k \in Kept, vs \in HazardLists, n \in Networks :
         db' = Store(i, [c \in ModelColumns |->
                  CASE c = "kept" -> k [] c = "risk_types" -> vs
                    [] c = "network_id" -> n [] OTHER -> FALSE])
    /\ UNCHANGED service

(* PATCH: the hazards may become a JSON null; the rest is in "kept".       *)
ServiceUpdates(i) ==
    /\ stage = "serving"
    /\ Insertable(db)
    /\ i \in DOMAIN db.rows
    /\ \E vs \in HazardLists \cup {JsonNull} :
         db' = Store(i, [db.rows[i] EXCEPT !["risk_types"] = vs])
    /\ UNCHANGED service

ServiceDeletes(i) ==
    /\ stage = "serving"
    /\ Insertable(db)
    /\ i \in DOMAIN db.rows
    /\ db' = [db EXCEPT !.rows = Without(@, i)]
    /\ UNCHANGED service

-----------------------------------------------------------------------------

(* What the startup does by itself, once begun.                            *)
Startup == (StartupStep /\ UNCHANGED db) \/ ServiceInitDb

Next ==
    \/ (Start \/ Shutdown \/ Crash) /\ UNCHANGED db
    \/ Startup
    \/ AlembicUpgrade \/ AlembicDowngrade \/ OlderReleaseUpgrades
    \/ \E i \in RuleIds :
         OlderReleaseFiles(i) \/ ServiceFiles(i) \/ ServiceUpdates(i) \/ ServiceDeletes(i)

Spec == Init /\ [][Next]_vars

(* A coroutine that is ready is scheduled, and wait_for bounds the connect *)
(* of the broker; the code bounds neither its subscribe nor its disconnect.*)
FairSpec == Spec /\ WF_vars(OwnStep /\ UNCHANGED db)

-----------------------------------------------------------------------------

TypeOK ==
    /\ cfg \in Configs
    /\ stage \in Down \cup Starting \cup {"serving"}
    /\ link \in {"none", "connected", "subscribed"}
    /\ clients \subseteq {"nudging", "digital_twin"}
    /\ db.version \in 0 .. 3
    /\ db.settings \in BOOLEAN
    /\ DOMAIN db.rows \subseteq RuleIds
    /\ \A i \in DOMAIN db.rows :
         /\ DOMAIN db.rows[i] = db.columns
         /\ \A c \in db.columns :
              db.rows[i][c] \in Values(c) \/ (c \in db.nullable /\ db.rows[i][c] = Null)

(* ADR-0004: the migrations produce the schema of the models, whose tests  *)
(* build it with create_all: at head, and where alembic has never run, the *)
(* service finds the columns it queries, NOT NULL where it says so.        *)
SchemaMatchesModel ==
    (db.version = 3 \/ (db.version = 0 /\ HasRules(db))) =>
        db.columns = ModelColumns /\ db.nullable = {}

(* Migration 003: the flag marks exactly the rules that name no network,   *)
(* whichever release filed them, whatever was downgraded and upgraded      *)
(* again in between.                                                       *)
FlagMarksUnattributed ==
    "network_id_unset" \in db.columns =>
        \A i \in DOMAIN db.rows :
            db.rows[i]["network_id_unset"] <=> db.rows[i]["network_id"] = Unattributed

(* The hazards a row watches, and those the schema of its revision names.  *)
Watched(row) ==
    IF "risk_types" \in DOMAIN row
    THEN IF row["risk_types"] = JsonNull THEN {}
         ELSE {row["risk_types"][k] : k \in DOMAIN row["risk_types"]}
    ELSE {row["risk_type"]}

(* An upgrade keeps every rule, for its owner, on the hazards it watched   *)
(* and under its network; a downgrade keeps every rule, and never makes it *)
(* watch what it did not, unless it drops the table.                       *)
MigrationsKeepRules ==
    [][(db'.version # db.version /\ db'.version # 0) =>
        /\ DOMAIN db'.rows = DOMAIN db.rows
        /\ \A i \in DOMAIN db.rows :
             /\ db'.rows[i]["kept"] = db.rows[i]["kept"]
             /\ Watched(db'.rows[i]) \subseteq Watched(db.rows[i])
             /\ db'.version > db.version => Watched(db'.rows[i]) = Watched(db.rows[i])
             /\ db'.version > 1 /\ db.version > 1 =>
                  db'.rows[i]["network_id"] = db.rows[i]["network_id"]]_vars

(* REQ-0050: outside dev, a process that was given a dev default, or no    *)
(* policy bundle, touches neither the database nor the broker.             *)
InsecureTouchesNothing ==
    [][(/\ stage \notin Down /\ ~cfg.dev
        /\ cfg.dev_database \/ cfg.secret_is_client_id \/ ~cfg.explicit_oidc \/ ~cfg.policy_loaded)
       => UNCHANGED <<db, link, clients>>]_vars

(* REQ-0040: a service that is up listens, with the tables and the clients *)
(* a delivery needs, or has let go of the broker; it is never connected    *)
(* without a subscription.                                                 *)
ListensOrLetsGo ==
    /\ stage = "serving" => link \in {"none", "subscribed"}
    /\ link = "subscribed" => "nudging" \in clients /\ HasRules(db) /\ db.settings

(* REQ-0040, as far as the code has it: a start that has made its tables   *)
(* ends in a service that is up, whatever the broker answers and when,     *)
(* unless the process dies, the subscribe or the disconnect never returns, *)
(* or the disconnect of a failed start raises.                             *)
OnlyBrokerCallsHoldAStart ==
    stage \in {"broker", "connecting"} ~>
        \/ stage \in {"serving", "stopped", "abandoned"}
        \/ [](stage = "subscribing")
        \/ [](stage = "abandoning")

(* REQ-0040 as written: an unavailable broker does not stop the service.   *)
(* It may do so in two ways, a disconnect that raises out of lifespan and  *)
(* a subscribe that is never acknowledged. That one of the two at least is *)
(* impossible is less than the requirement says, and what refutes it shows *)
(* both.                                                                   *)
BrokerDoesNotStopTheService ==
    \/ [](stage # "abandoned")
    \/ stage = "subscribing" ~> stage # "subscribing"
=============================================================================
