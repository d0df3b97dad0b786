----------------------------- MODULE GridAccess -----------------------------
(***************************************************************************)
(* Who may do what: security/policy.py builds the input, policies/grid.rego*)
(* decides, and api/deps.py turns the decision into a status.              *)
(*                                                                         *)
(* A caller is what a verified token says: its sub, the organisations it   *)
(* carries, whether the SDK takes it for a service account, its scopes.    *)
(* The organisation groups that the input also carries are left out: no    *)
(* rule of grid.rego reads them.                                           *)
(***************************************************************************)
EXTENDS GridModels

CONSTANTS
    Callers,        \* the tokens that reach the service
    EngineOutcomes, \* what the engine may do: decide, raise, be missing
    Dev             \* CELINE_ENV=dev

OrgTypes == {"dso", "other"}
Scopes   == {"grid.read", "grid.admin", "unrelated"}
Actions  == {"read", "alerts.read", "alerts.write"}

Organization == [alias : Networks, type : OrgTypes, attributes : SUBSET OrgTypes]

JwtUser ==
    [sub                : Subs,
     organizations      : SUBSET Organization,
     is_service_account : BOOLEAN,
     scopes             : SUBSET Scopes]

ASSUME AccessAssumption ==
    /\ Callers \subseteq JwtUser
    /\ \A user \in Callers : IsFiniteSet(user.organizations)
    /\ EngineOutcomes \subseteq {"decided", "raised", "missing"}
    /\ Dev \in BOOLEAN

-----------------------------------------------------------------------------
(* security/policy.py: the input                                           *)

DsoNetworks(user) ==
    {org.alias : org \in {o \in user.organizations :
                            o.type = "dso" \/ "dso" \in o.attributes}}

DsoNetworkFirst(user, requested) ==     \* mutant: the first of several
    IF requested \in DsoNetworks(user)
    THEN requested
    ELSE IF DsoNetworks(user) = {} THEN Null ELSE CHOOSE n \in DsoNetworks(user) : TRUE

DsoNetworkSole(user, requested) ==      \* mutant: the named network is not looked at
    IF \E n \in Networks : DsoNetworks(user) = {n}
    THEN CHOOSE n \in Networks : DsoNetworks(user) = {n}
    ELSE Null

(* The network the request is about: the one it names when the caller is   *)
(* in it, else the caller's only one, else none.                           *)
DsoNetwork(user, requested) ==
    IF requested \in DsoNetworks(user)
    THEN requested
    ELSE IF \E n \in Networks : DsoNetworks(user) = {n}
         THEN CHOOSE n \in Networks : DsoNetworks(user) = {n}
         ELSE Null

SubjectType(user) ==
    IF user.organizations = {} /\ user.is_service_account THEN "service" ELSE "user"

PolicyInput(user, action, requested) ==
    [action     |-> action,
     type       |-> SubjectType(user),
     scopes     |-> user.scopes,
     requested  |-> requested,
     network_id |-> IF SubjectType(user) = "service" THEN Null ELSE DsoNetwork(user, requested),
     dso_count  |-> Cardinality(DsoNetworks(user))]

-----------------------------------------------------------------------------
(* policies/grid.rego: the decision                                        *)

IsService(input)           == input.type = "service"
HasAnyScope(input, scopes) == input.scopes \cap scopes # {}
OwnsNetwork(input)         == input.network_id # Null /\ input.requested = input.network_id

AllowScoped(input) ==           \* mutant: a person needs a scope, too
    \/ input.action = "read" /\ HasAnyScope(input, {"grid.read", "grid.admin"})
       /\ (IsService(input) \/ OwnsNetwork(input))
    \/ ~IsService(input) /\ input.action \in {"alerts.read", "alerts.write"}

Allow(input) ==
    \/ ~IsService(input) /\ input.action = "read" /\ OwnsNetwork(input)
    \/ IsService(input) /\ input.action = "read" /\ HasAnyScope(input, {"grid.read", "grid.admin"})
    \/ ~IsService(input) /\ input.action = "alerts.read"
    \/ ~IsService(input) /\ input.action = "alerts.write" /\ input.network_id # Null
    \/ IsService(input) /\ HasAnyScope(input, {"grid.admin"})

Fewer(count) == count <= 2      \* mutant: off by one

Several(count) == count >= 2

AtMostOne(count) == count < 2

(* `reason` is a complete rule: two bodies that hold with different values *)
(* are an evaluation error, so the definition is the set of the values.    *)
Reasons(input) ==
    LET denied(action) == ~Allow(input) /\ input.action = action
        says(condition, text) == IF condition THEN {text} ELSE {}
    IN  UNION {
          says(~IsService(input) /\ input.action = "read" /\ OwnsNetwork(input), "own network"),
          says(~IsService(input) /\ input.action \in {"alerts.read", "alerts.write"}
                 /\ Allow(input), "own rules"),
          says(IsService(input) /\ Allow(input), "service granted"),
          says(denied("read") /\ ~IsService(input) /\ ~OwnsNetwork(input), "network mismatch"),
          says(denied("alerts.write") /\ ~IsService(input) /\ input.network_id = Null
                 /\ AtMostOne(input.dso_count), "no membership"),
          says(denied("alerts.write") /\ ~IsService(input) /\ input.network_id = Null
                 /\ Several(input.dso_count), "ambiguous membership"),
          says(denied("read") /\ IsService(input)
                 /\ ~HasAnyScope(input, {"grid.read", "grid.admin"}), "missing scope")}

Raises(input) == \E r, q \in Reasons(input) : r # q

(* GridAccessPolicy._evaluate: a decision the engine could not make is an  *)
(* allow in dev and a denial everywhere else.                              *)
Permitted(user, action, requested, engine) ==
    LET input == PolicyInput(user, action, requested)
    IN  IF engine = "decided" /\ ~Raises(input) THEN Allow(input) ELSE Dev

-----------------------------------------------------------------------------
(* api/deps.py: the network a new rule is filed under; Null stands for the *)
(* 403 of a caller with no DSO organisation or with several.               *)

ResolveFirstNetwork(user) ==    \* mutant: the first of several
    IF DsoNetworks(user) = {} THEN Null ELSE CHOOSE n \in DsoNetworks(user) : TRUE

ResolveDsoNetwork(user) ==
    IF \E n \in Networks : DsoNetworks(user) = {n}
    THEN CHOOSE n \in Networks : DsoNetworks(user) = {n}
    ELSE Null
=============================================================================
