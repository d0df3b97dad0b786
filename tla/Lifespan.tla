------------------------------ MODULE Lifespan ------------------------------
(***************************************************************************)
(* Startup and shutdown of the service: lifespan of main.py, the posture   *)
(* check of security/posture.py, and create_broker of                      *)
(* services/pipeline_listener.py. The process may die at any moment, and   *)
(* is started again, with another configuration perhaps.                   *)
(***************************************************************************)
CONSTANT Configs        \* the configurations the service may be started with

VARIABLES
    cfg,        \* the configuration of this process
    stage,      \* where its lifespan is
    link,       \* its connection to the MQTT broker
    clients     \* the service clients that exist

service == <<cfg, stage, link, clients>>

Config ==
    [dev : BOOLEAN, dev_database : BOOLEAN, secret_is_client_id : BOOLEAN,
     explicit_oidc : BOOLEAN, policy_loaded : BOOLEAN, digital_twin_url : BOOLEAN]

ASSUME ConfigsAssumption == Configs \subseteq Config

Down     == {"stopped", "refused", "abandoned"}
Starting == {"posture", "database", "broker", "connecting", "subscribing", "abandoning"}

LifespanInit ==
    /\ cfg \in Configs
    /\ stage = "stopped"
    /\ link = "none"
    /\ clients = {}

Start ==
    /\ stage \in Down
    /\ stage' = "posture"
    /\ cfg' \in Configs
    /\ link' = "none"
    /\ clients' = {}

ViolationsOfValues ==                           \* mutant: the bundle is not looked at
    {v \in {"dev_database", "secret_is_client_id"} : cfg[v]}
    \cup {v \in {"explicit_oidc"} : ~cfg[v]}

Violations ==
    {v \in {"dev_database", "secret_is_client_id"} : cfg[v]}
    \cup {v \in {"explicit_oidc", "policy_loaded"} : ~cfg[v]}

(* Only dev relaxes: there the violations are logged.                      *)
EnforcePosture ==
    /\ stage = "posture"
    /\ stage' = IF cfg.dev \/ Violations = {} THEN "database" ELSE "refused"
    /\ UNCHANGED <<cfg, link, clients>>

InitDb ==
    /\ stage = "database"
    /\ stage' = "broker"
    /\ UNCHANGED <<cfg, link, clients>>

InitDbFails ==
    /\ stage = "database"
    /\ stage' = "refused"
    /\ UNCHANGED <<cfg, link, clients>>

CreateBroker ==
    /\ stage = "broker"
    /\ stage' = "connecting"
    /\ clients' = {"nudging"} \cup (IF cfg.digital_twin_url THEN {"digital_twin"} ELSE {})
    /\ UNCHANGED <<cfg, link>>

Connect ==
    /\ stage = "connecting"
    /\ stage' = "subscribing"
    /\ link' = "connected"
    /\ UNCHANGED <<cfg, clients>>

ConnectFails ==
    /\ stage = "connecting"
    /\ stage' = "abandoning"
    /\ link' \in {"none", "connected"}
    /\ UNCHANGED <<cfg, clients>>

SubscribeTimesOut ==                            \* mutant: wait_for is around the subscribe
    /\ stage = "subscribing"
    /\ stage' = "abandoning"
    /\ UNCHANGED <<cfg, link, clients>>

(* wait_for gives up, and may cut a connection that is half made. It is    *)
(* around the connect only: nothing else of the broker's is given up on.   *)
ConnectTimesOut ==
    /\ stage = "connecting"
    /\ stage' = "abandoning"
    /\ link' \in {"none", "connected"}
    /\ UNCHANGED <<cfg, clients>>

Subscribe ==
    /\ stage = "subscribing"
    /\ stage' = "serving"
    /\ link' = "subscribed"
    /\ UNCHANGED <<cfg, clients>>

SubscribeFailsKeeping ==                        \* mutant: except logs, and does not disconnect
    /\ stage = "subscribing"
    /\ stage' = "serving"
    /\ UNCHANGED <<cfg, link, clients>>

SubscribeRaises ==                              \* mutant: only TimeoutError is caught
    /\ stage = "subscribing"
    /\ stage' = "refused"
    /\ UNCHANGED <<cfg, link, clients>>

SubscribeFails ==
    /\ stage = "subscribing"
    /\ stage' = "abandoning"
    /\ UNCHANGED <<cfg, link, clients>>

(* The disconnect of a failed start, which nothing guards.                 *)
Abandon ==
    /\ stage = "abandoning"
    /\ stage' = "serving"
    /\ link' = "none"
    /\ UNCHANGED <<cfg, clients>>

AbandonRaises ==
    /\ stage = "abandoning"
    /\ stage' = "abandoned"
    /\ UNCHANGED <<cfg, link, clients>>

(* Whatever the disconnect does, the process ends.                         *)
Shutdown ==
    /\ stage = "serving"
    /\ stage' = "stopped"
    /\ link' = "none"
    /\ clients' = {}
    /\ UNCHANGED cfg

Crash ==
    /\ stage \notin Down
    /\ stage' = "stopped"
    /\ link' = "none"
    /\ clients' = {}
    /\ UNCHANGED cfg

(* The steps of a startup that leave the database alone.                   *)
StartupStep ==
    \/ EnforcePosture \/ InitDbFails \/ CreateBroker
    \/ Connect \/ ConnectFails \/ ConnectTimesOut \/ Subscribe \/ SubscribeFails
    \/ Abandon \/ AbandonRaises

(* Those of them that wait for nobody, or not for long. Whether and when a *)
(* connect is answered, a subscribe or a disconnect returns, and init_db   *)
(* is served is up to the broker and the database.                         *)
OwnStep == EnforcePosture \/ CreateBroker \/ ConnectTimesOut
=============================================================================
