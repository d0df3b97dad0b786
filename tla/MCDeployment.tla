---------------------------- MODULE MCDeployment ----------------------------
(***************************************************************************)
(* Two rules, one network, two hazards; every configuration with at most   *)
(* one violation of the posture.                                           *)
(***************************************************************************)
EXTENDS Deployment

CONSTANTS k1, u1, north, i1, i2

Sound(dev, dt) ==
    [dev |-> dev, dev_database |-> FALSE, secret_is_client_id |-> FALSE,
     explicit_oidc |-> TRUE, policy_loaded |-> TRUE, digital_twin_url |-> dt]

SomeConfigs ==
    {Sound(FALSE, TRUE), Sound(TRUE, FALSE)} \cup
    UNION {{[c EXCEPT !.dev_database = TRUE], [c EXCEPT !.secret_is_client_id = TRUE],
            [c EXCEPT !.explicit_oidc = FALSE], [c EXCEPT !.policy_loaded = FALSE]} :
                c \in {Sound(FALSE, TRUE), Sound(TRUE, TRUE)}}
=============================================================================
