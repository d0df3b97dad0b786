------------------------- MODULE GridRequestsProofs -------------------------
(***************************************************************************)
(* Theorems of GridRequests, for any requests, tokens, networks, outcomes  *)
(* of the policy engine and answers of the Digital Twin.                   *)
(*                                                                         *)
(* The argument: grid.rego never gives two reasons, so a decision of the   *)
(* engine is what Allow says, and Allow is membership or scope; the gate   *)
(* reads the headers that the token is extracted from; and nothing past    *)
(* the policy is reached but through it. The invariant keeps, for every    *)
(* stage of a request, what the stages before it have made sure of.        *)
(***************************************************************************)
EXTENDS GridRequests, ListTheorems

-----------------------------------------------------------------------------
(* The policy                                                              *)

(* A caller's networks are networks, and are counted.                      *)
LEMMA NetworksCounted ==
    ASSUME NEW caller \in Callers
    PROVE  /\ DsoNetworks(caller) \subseteq Networks
           /\ Cardinality(DsoNetworks(caller)) \in Nat
<1>1. caller \in JwtUser /\ IsFiniteSet(caller.organizations)
  BY AccessAssumption
<1>2. DsoNetworks(caller) \subseteq Networks
  BY <1>1 DEF DsoNetworks, JwtUser, Organization
<1> DEFINE orgs == {o \in caller.organizations : o.type = "dso" \/ "dso" \in o.attributes}
           aliases == [o \in orgs |-> o.alias]
<1>3. IsFiniteSet(orgs)
  BY <1>1, FS_Subset
<1>4. aliases \in Surjection(orgs, DsoNetworks(caller))
  BY DEF Surjection, DsoNetworks
<1>5. IsFiniteSet(DsoNetworks(caller))
  BY <1>3, <1>4, FS_Surjection
<1> QED
  BY <1>2, <1>5, FS_CardinalityType

(* No two values of `reason` hold at once.                                 *)
LEMMA OneReason ==
    ASSUME NEW caller \in Callers, NEW action \in Actions, NEW requested
    PROVE  ~Raises(PolicyInput(caller, action, requested))
<1> DEFINE input == PolicyInput(caller, action, requested)
<1>1. input.action = action /\ input.dso_count \in Nat
  BY NetworksCounted DEF PolicyInput
<1> DEFINE service   == IsService(input)
           allow     == Allow(input)
           own       == OwnsNetwork(input)
           scoped    == HasAnyScope(input, {"grid.read", "grid.admin"})
           nowhere   == input.network_id = Null
           sole      == AtMostOne(input.dso_count)
           several   == Several(input.dso_count)
<1>2. \A text \in Reasons(input) :
        \/ text = "own network" /\ ~service /\ action = "read" /\ own
        \/ text = "own rules" /\ ~service /\ action \in {"alerts.read", "alerts.write"} /\ allow
        \/ text = "service granted" /\ service /\ allow
        \/ text = "network mismatch" /\ ~allow /\ action = "read" /\ ~service /\ ~own
        \/ text = "no membership" /\ ~allow /\ action = "alerts.write" /\ ~service /\ sole
        \/ text = "ambiguous membership" /\ ~allow /\ action = "alerts.write" /\ ~service /\ several
        \/ text = "missing scope" /\ ~allow /\ action = "read" /\ service
  <2> DEFINE denied(a) == ~Allow(input) /\ input.action = a
             says(condition, text) == IF condition THEN {text} ELSE {}
             S1 == says(~IsService(input) /\ input.action = "read" /\ OwnsNetwork(input), "own network")
             S2 == says(~IsService(input) /\ input.action \in {"alerts.read", "alerts.write"}
                          /\ Allow(input), "own rules")
             S3 == says(IsService(input) /\ Allow(input), "service granted")
             S4 == says(denied("read") /\ ~IsService(input) /\ ~OwnsNetwork(input), "network mismatch")
             S5 == says(denied("alerts.write") /\ ~IsService(input) /\ input.network_id = Null
                          /\ AtMostOne(input.dso_count), "no membership")
             S6 == says(denied("alerts.write") /\ ~IsService(input) /\ input.network_id = Null
                          /\ Several(input.dso_count), "ambiguous membership")
             S7 == says(denied("read") /\ IsService(input)
                          /\ ~HasAnyScope(input, {"grid.read", "grid.admin"}), "missing scope")
  <2> SUFFICES ASSUME NEW text \in Reasons(input)
               PROVE  \/ text = "own network" /\ ~service /\ action = "read" /\ own
                      \/ text = "own rules" /\ ~service /\ action \in {"alerts.read", "alerts.write"} /\ allow
                      \/ text = "service granted" /\ service /\ allow
                      \/ text = "network mismatch" /\ ~allow /\ action = "read" /\ ~service /\ ~own
                      \/ text = "no membership" /\ ~allow /\ action = "alerts.write" /\ ~service /\ sole
                      \/ text = "ambiguous membership" /\ ~allow /\ action = "alerts.write" /\ ~service
                         /\ several
                      \/ text = "missing scope" /\ ~allow /\ action = "read" /\ service
    OBVIOUS
  <2>1. Reasons(input) = UNION {S1, S2, S3, S4, S5, S6, S7}
    BY DEF Reasons
  <2>2. text \in S1 \/ text \in S2 \/ text \in S3 \/ text \in S4 \/ text \in S5 \/ text \in S6
        \/ text \in S7
    <3> HIDE DEF S1, S2, S3, S4, S5, S6, S7
    <3> QED
      BY <2>1
  <2> HIDE DEF input
  <2> QED
    BY <1>1, <2>2
<1>3. ~ (sole /\ several)
  BY <1>1 DEF AtMostOne, Several
<1> HIDE DEF input, service, allow, own, sole, several
<1>4. \A r, q \in Reasons(input) : r = q
  BY <1>2, <1>3
<1> QED
  BY <1>4 DEF Raises, input

(* What the policy says of a read is what REQ-0006 and REQ-0007 say.       *)
LEMMA ReadAllowed ==
    ASSUME NEW caller \in Callers, NEW network \in Networks
    PROVE  Allow(PolicyInput(caller, "read", network)) <=> MayRead(caller, network)
<1> DEFINE input == PolicyInput(caller, "read", network)
           member == network \in DsoNetworks(caller)
           service == SubjectType(caller) = "service"
           scoped == caller.scopes \cap {"grid.read", "grid.admin"} # {}
<1>1. /\ input.action = "read" /\ input.type = SubjectType(caller)
      /\ input.scopes = caller.scopes /\ input.requested = network
      /\ input.network_id = IF service THEN Null ELSE DsoNetwork(caller, network)
  BY DEF PolicyInput
<1>2. ~service => (OwnsNetwork(input) <=> member)
  <2>1. network # Null
    BY ModelsAssumption
  <2>2. member => DsoNetwork(caller, network) = network
    BY DEF DsoNetwork
  <2>3. DsoNetwork(caller, network) = network => member
    BY <2>1 DEF DsoNetwork
  <2> HIDE DEF input, member
  <2> QED
    BY <1>1, <2>1, <2>2, <2>3 DEF OwnsNetwork
<1>3. service => ~member
  BY DEF SubjectType, DsoNetworks
<1>4. MayRead(caller, network) <=> member \/ (service /\ scoped)
  BY DEF MayRead, DsoNetworks, SubjectType
<1>5. Allow(input) <=> (~service /\ OwnsNetwork(input)) \/ (service /\ scoped)
  <2> HIDE DEF input
  <2> QED
    BY <1>1 DEF Allow, IsService, HasAnyScope
<1> HIDE DEF input, member, service, scoped
<1> QED
  BY <1>2, <1>3, <1>4, <1>5 DEF input

(* A person may file exactly when resolve_dso_network finds a network.     *)
LEMMA WriteAllowed ==
    ASSUME NEW caller \in Callers, SubjectType(caller) = "user"
    PROVE  Allow(PolicyInput(caller, "alerts.write", Null)) <=> ResolveDsoNetwork(caller) # Null
<1> DEFINE input == PolicyInput(caller, "alerts.write", Null)
<1>1. /\ input.action = "alerts.write" /\ input.type = "user"
      /\ input.network_id = DsoNetwork(caller, Null)
  BY DEF PolicyInput
<1>2. Null \notin DsoNetworks(caller)
  BY NetworksCounted, ModelsAssumption
<1>3. DsoNetwork(caller, Null) = ResolveDsoNetwork(caller)
  BY <1>2 DEF DsoNetwork, ResolveDsoNetwork
<1>4. Allow(input) <=> input.network_id # Null
  <2> HIDE DEF input
  <2> QED
    BY <1>1 DEF Allow, IsService
<1> QED
  BY <1>1, <1>3, <1>4

(* The network that resolve_dso_network finds is the caller's only one.    *)
LEMMA ResolvedIs ==
    ASSUME NEW caller \in Callers, ResolveDsoNetwork(caller) # Null
    PROVE  /\ ResolveDsoNetwork(caller) \in Networks
           /\ MayRead(caller, ResolveDsoNetwork(caller))
<1>1. PICK n \in Networks : DsoNetworks(caller) = {n}
  BY DEF ResolveDsoNetwork
<1>2. ResolveDsoNetwork(caller) = n
  BY <1>1 DEF ResolveDsoNetwork
<1> QED
  BY <1>1, <1>2 DEF MayRead, DsoNetworks

-----------------------------------------------------------------------------
(* The token                                                               *)

(* The gate looks for what get_user_from_request extracts.                 *)
LEMMA GateReadsTheToken ==
    ASSUME NEW r \in Requests
    PROVE  HasToken(r) <=> ExtractToken(r) # Null
<1>1. r.header \in Tokens \cup {Null} /\ r.bearer \in Tokens /\ Null \notin Tokens
  BY RequestsAssumption DEF RequestType
<1> QED
  BY <1>1 DEF HasToken, ExtractToken

(* The token that counts is the one in the proxy header, if it has one.    *)
LEMMA HeaderFirst ==
    ASSUME NEW r \in Requests, ExtractToken(r) \in Callers
    PROVE  ExtractToken(r) = IF r.header \in Callers \cup {Undecodable} THEN r.header ELSE r.bearer
<1>1. r.header \in Tokens \cup {Null} /\ Null \notin Tokens /\ Callers \subseteq Tokens
  BY RequestsAssumption DEF RequestType, Tokens
<1>2. r.header \notin {Null, Blank} <=> r.header \in Callers \cup {Undecodable}
  BY <1>1, RequestsAssumption DEF Tokens
<1> QED
  BY <1>1, <1>2 DEF ExtractToken

-----------------------------------------------------------------------------
(* The request                                                             *)

Stages == {"idle", "gate", "route", "token", "policy", "client", "query", "handler", "answered"}

Guarded == GridRoutes \cup AlertRoutes

(* What get_user_from_request has decoded, if the request came that far.   *)
Known == user \in Callers /\ user = ExtractToken(request)

(* What the engine and the policy have said of it.                         *)
LetThrough == Permitted(user, PolicyAction(request.path), Requested(request), engine)

(* On the way: what the stages behind it have made sure of.                *)
UnderWay ==
    /\ stage \in {"idle", "gate", "route", "token", "policy"} => engine = Null
    /\ stage \in {"idle", "gate", "route", "token"} => user = Null
    /\ stage \in {"policy", "client", "query", "handler"} => Known
    /\ stage \notin {"idle", "gate", "answered"} /\ request.path \notin Public =>
         ExtractToken(request) # Null
    /\ stage = "token" => request.path \in Guarded \cup {"ping", "me"}
    /\ stage = "policy" => request.path \in Guarded
    /\ stage \in {"client", "query"} => request.path \in GridRoutes
    /\ stage = "handler" => request.path \in Guarded \cup {"ping", "me"}
    /\ stage \in {"client", "query", "handler"} /\ request.path \in Guarded =>
         engine \in EngineOutcomes /\ LetThrough

(* At its end: who has answered, and why they could.                       *)
Speakers == {"gate", "cors", "router", "handler", "token", "policy", "membership", "AlertRules",
             "client", "query", "twin"}

Answered ==
    /\ answer.by \in Speakers
    /\ request.path \notin Public => (answer.by = "gate" <=> ExtractToken(request) = Null)
    /\ user # Null => Known
    /\ user = Null => engine = Null /\ asked = Null
                      /\ answer.by \notin {"policy", "client", "query", "twin"}
    /\ user # Null /\ request.path \in Guarded =>
         engine \in EngineOutcomes /\ (answer.by # "policy" <=> LetThrough)
    /\ asked # Null => asked.network = request.network
    /\ asked # Null \/ answer.by \in {"client", "query", "twin"} =>
         request.path \in GridRoutes /\ answer.by # "policy"
    /\ request.path = "me" /\ answer.status = 200 /\ ~request.preflight =>
         user # Null /\ ResolveDsoNetwork(user) # Null
         /\ answer.body.network = ResolveDsoNetwork(user)

IInv ==
    /\ stage \in Stages
    /\ engine \in EngineOutcomes \cup {Null}
    /\ stage = "idle" => request = Null
    /\ stage # "idle" => request \in Requests
    /\ stage # "answered" => asked = Null /\ answer = NoAnswer /\ UnderWay
    /\ stage = "answered" => Answered

(* The sets of routes are apart.                                           *)
LEMMA RoutesApart ==
    /\ \A p \in GridRoutes : p \notin Public \cup {"no such path", "ping", "me"} \cup AlertRoutes
    /\ \A p \in AlertRoutes : p \notin Public \cup {"no such path", "ping", "me"}
    /\ "me" \notin Public /\ "ping" \notin Public
    /\ "rules create" \in AlertRoutes
    /\ Paths = Public \cup {"no such path", "ping", "me"} \cup Guarded
  BY DEF GridRoutes, PlainRoutes, StaticRoutes, RiskRoutes, Public, AlertRoutes, Paths, Guarded

(* A request names a path and a network.                                   *)
LEMMA RequestIs ==
    ASSUME NEW r \in Requests
    PROVE  r.path \in Paths /\ r.network \in Networks /\ RequestType(r)
  BY RequestsAssumption DEF RequestType

(* A caller is no Null, and neither is an outcome of the engine.           *)
LEMMA CallersAreSomeone == Null \notin Callers
  BY RequestsAssumption DEF Tokens

-----------------------------------------------------------------------------
(* The steps                                                               *)

(* Who has nothing to extract is turned away here, and nobody else.         *)
LEMMA GateIs == ASSUME IInv, Gate PROVE IInv'
<1>1. /\ stage = "gate" /\ request \in Requests /\ UNCHANGED <<request, user, engine, asked>>
      /\ asked = Null /\ answer = NoAnswer /\ user = Null /\ engine = Null
  BY DEF Gate, IInv, UnderWay
<1>2. HasToken(request) <=> ExtractToken(request) # Null
  BY <1>1, GateReadsTheToken
<1>3. CASE (request.path \in Public \/ HasToken(request)) /\ Reach("route")
  BY <1>1, <1>2, <1>3 DEF Reach, IInv, UnderWay, Stages
<1>4. CASE request.path \notin Public /\ ~HasToken(request) /\ Refuse(401, "gate")
  <2>1. stage' = "answered" /\ answer'.by = "gate" /\ answer'.status = 401
    BY <1>4 DEF Refuse, Reply
  <2> QED
    BY <1>1, <1>2, <1>4, <2>1 DEF IInv, Answered, Stages, Speakers
<1> QED
  BY <1>3, <1>4 DEF Gate

(* What needs no token is answered here.                                   *)
LEMMA RouteIs == ASSUME IInv, Route PROVE IInv'
<1>1. /\ stage = "route" /\ request \in Requests /\ UNCHANGED <<request, user, engine, asked>>
      /\ asked = Null /\ answer = NoAnswer /\ user = Null /\ engine = Null
      /\ request.path \notin Public => ExtractToken(request) # Null
  BY DEF Route, IInv, UnderWay
<1>2. CASE /\ stage' = "answered"
           /\ \/ answer'.by = "cors" /\ request.preflight
              \/ answer'.by = "router" /\ answer'.status = 404
              \/ answer'.by = "handler" /\ request.path \in Public
  <2>1. answer'.by \in Speakers /\ answer'.by \notin {"gate", "policy", "client", "query", "twin"}
    BY <1>2 DEF Speakers
  <2>2. ~ (request.path = "me" /\ answer'.status = 200 /\ ~request.preflight)
    <3>1. 404 # 200
      OBVIOUS
    <3>2. request.path \in Public => request.path # "me"
      BY RoutesApart
    <3>3. answer'.status = 404 \/ request.preflight \/ request.path \in Public
      BY <1>2
    <3> QED
      BY <3>1, <3>2, <3>3
  <2>3. Answered'
    BY <1>1, <2>1, <2>2 DEF Answered
  <2> QED
    BY <1>1, <1>2, <2>3 DEF IInv, Stages
<1>3. CASE Reach("token") /\ request.path \notin Public \cup {"no such path"}
  <2>1. request.path \in Guarded \cup {"ping", "me"}
    BY <1>1, <1>3, RequestIs, RoutesApart
  <2> QED
    BY <1>1, <1>3, <2>1 DEF Reach, IInv, UnderWay, Stages
<1>4. \/ Reply(200, "cors", FALSE, Null) /\ request.preflight
      \/ Refuse(404, "router")
      \/ Reply(200, "handler", FALSE, Null) /\ request.path \in Public
      \/ Reach("token") /\ request.path \notin Public \cup {"no such path"}
  BY DEF Route
<1>5. CASE Reply(200, "cors", FALSE, Null) /\ request.preflight
  <2>1. stage' = "answered" /\ answer'.by = "cors" /\ request.preflight
    BY <1>5 DEF Reply
  <2> QED
    BY <1>2, <2>1
<1>6. CASE Refuse(404, "router")
  <2>1. stage' = "answered" /\ answer'.by = "router" /\ answer'.status = 404
    BY <1>6 DEF Refuse, Reply
  <2> QED
    BY <1>2, <2>1
<1>7. CASE Reply(200, "handler", FALSE, Null) /\ request.path \in Public
  <2>1. stage' = "answered" /\ answer'.by = "handler" /\ request.path \in Public
    BY <1>7 DEF Reply
  <2> QED
    BY <1>2, <2>1
<1> QED
  BY Zenon, <1>3, <1>4, <1>5, <1>6, <1>7

(* A token that is refused stays unknown.                                  *)
LEMMA RefuseTokenIs == ASSUME IInv, RefuseToken PROVE IInv'
<1>1. /\ stage = "token" /\ request \in Requests /\ UNCHANGED <<request, user, engine, asked>>
      /\ asked = Null /\ user = Null /\ engine = Null
      /\ request.path \notin Public => ExtractToken(request) # Null
      /\ request.path \in Guarded \cup {"ping", "me"}
  BY DEF RefuseToken, IInv, UnderWay
<1>2. stage' = "answered" /\ answer'.by = "token" /\ answer'.status = 401
  BY DEF RefuseToken, Refuse, Reply
<1>3. Answered'
  BY <1>1, <1>2 DEF Answered, Speakers
<1> QED
  BY <1>1, <1>2, <1>3 DEF IInv, Stages

(* A token that is accepted is the caller from here on.                    *)
LEMMA AuthenticateIs == ASSUME IInv, Authenticate PROVE IInv'
<1>1. /\ stage = "token" /\ request \in Requests /\ UNCHANGED <<request, engine, asked>>
      /\ asked = Null /\ answer = NoAnswer /\ engine = Null
      /\ request.path \notin Public => ExtractToken(request) # Null
      /\ request.path \in Guarded \cup {"ping", "me"}
  BY DEF Authenticate, IInv, UnderWay
<1>2. Known' /\ answer' = answer
  BY <1>1 DEF Authenticate, Reach, Known
<1>3. CASE request.path \in {"ping", "me"} /\ stage' = "handler"
  <2>1. request.path \notin Guarded
    BY <1>3, RoutesApart DEF Guarded
  <2>2. UnderWay'
    BY <1>1, <1>2, <1>3, <2>1 DEF UnderWay
  <2> QED
    BY <1>1, <1>2, <1>3, <2>2 DEF IInv, Stages
<1>4. CASE request.path \notin {"ping", "me"} /\ stage' = "policy"
  <2>1. request.path \in Guarded
    BY <1>1, <1>4
  <2>2. UnderWay'
    BY <1>1, <1>2, <1>4, <2>1 DEF UnderWay
  <2> QED
    BY <1>1, <1>2, <1>4, <2>2 DEF IInv, Stages
<1> QED
  BY <1>1, <1>3, <1>4 DEF Authenticate, Reach

(* The answer of the policy, for a request that it guards.                 *)
LEMMA AuthoriseIs == ASSUME IInv, Authorise PROVE IInv'
<1>1. /\ stage = "policy" /\ request \in Requests /\ UNCHANGED <<request, user, asked>>
      /\ asked = Null /\ answer = NoAnswer /\ Known
      /\ request.path \notin Public => ExtractToken(request) # Null
      /\ request.path \in Guarded /\ engine' \in EngineOutcomes
  BY DEF Authorise, IInv, UnderWay
<1>2. Known' /\ user # Null
  BY <1>1, CallersAreSomeone DEF Known
<1>3. request.path \notin Public \cup {"ping", "me"}
  BY <1>1, RoutesApart DEF Guarded
<1>4. /\ LetThrough' => Reach(IF request.path \in GridRoutes THEN "client" ELSE "handler")
      /\ ~LetThrough' => Refuse(403, "policy")
  <2>1. LetThrough' <=> Permitted(user, PolicyAction(request.path), Requested(request), engine')
    BY Zenon, <1>1 DEF LetThrough, Permitted, PolicyAction, Requested
  <2> QED
    BY Zenon, <2>1 DEF Authorise
<1>5. CASE LetThrough' /\ answer' = answer /\ stage' \in {"client", "handler"}
           /\ (stage' = "client" => request.path \in GridRoutes)
  <2>1. UnderWay'
    BY <1>1, <1>2, <1>3, <1>5 DEF UnderWay
  <2> QED
    BY <1>1, <1>5, <2>1 DEF IInv, Stages
<1>6. CASE ~LetThrough' /\ stage' = "answered" /\ answer'.by = "policy"
  <2>1. Answered'
    BY <1>1, <1>2, <1>3, <1>6 DEF Answered, Speakers
  <2> QED
    BY <1>1, <1>6, <2>1 DEF IInv, Stages
<1>7. Reach(IF request.path \in GridRoutes THEN "client" ELSE "handler") =>
        /\ answer' = answer /\ stage' \in {"client", "handler"}
        /\ stage' = "client" => request.path \in GridRoutes
  BY DEF Reach
<1>8. Refuse(403, "policy") => stage' = "answered" /\ answer'.by = "policy"
  BY DEF Refuse, Reply
<1> QED
  BY Zenon, <1>4, <1>5, <1>6, <1>7, <1>8

(* Past the policy, the decision stands.                                   *)
LEMMA DecisionStands ==
    ASSUME UNCHANGED <<request, user, engine>>
    PROVE  (LetThrough' <=> LetThrough) /\ (Known' <=> Known)
  BY Zenon DEF LetThrough, Known, Permitted, PolicyAction, Requested

(* The Digital Twin is configured, or is not.                              *)
LEMMA GetDtClientIs == ASSUME IInv, GetDtClient PROVE IInv'
<1>1. /\ stage = "client" /\ request \in Requests /\ UNCHANGED <<request, user, engine, asked>>
      /\ asked = Null /\ answer = NoAnswer /\ Known
      /\ request.path \notin Public => ExtractToken(request) # Null
      /\ request.path \in GridRoutes /\ engine \in EngineOutcomes /\ LetThrough
  BY DEF GetDtClient, IInv, UnderWay, Guarded
<1>2. Known' /\ LetThrough' /\ user # Null
  BY <1>1, DecisionStands, CallersAreSomeone DEF Known
<1>3. request.path \notin Public \cup {"ping", "me"} /\ request.path \in Guarded
  BY <1>1, RoutesApart DEF Guarded
<1>4. \/ stage' = "query" /\ answer' = answer
      \/ stage' = "answered" /\ answer'.by = "client"
  BY DEF GetDtClient, Reach, Refuse, Reply
<1>5. CASE stage' = "query" /\ answer' = answer
  BY <1>1, <1>2, <1>5 DEF IInv, UnderWay, Stages
<1>6. CASE stage' = "answered" /\ answer'.by = "client"
  <2>1. Answered'
    BY <1>1, <1>2, <1>3, <1>6 DEF Answered, Speakers
  <2> QED
    BY <1>1, <1>6, <2>1 DEF IInv, Stages
<1> QED
  BY <1>4, <1>5, <1>6

(* The query is in order, or is not.                                       *)
LEMMA ValidateIs == ASSUME IInv, Validate PROVE IInv'
<1>1. /\ stage = "query" /\ request \in Requests /\ UNCHANGED <<request, user, engine, asked>>
      /\ asked = Null /\ answer = NoAnswer /\ Known
      /\ request.path \notin Public => ExtractToken(request) # Null
      /\ request.path \in GridRoutes /\ engine \in EngineOutcomes /\ LetThrough
  BY DEF Validate, IInv, UnderWay, Guarded
<1>2. Known' /\ LetThrough' /\ user # Null
  BY <1>1, DecisionStands, CallersAreSomeone DEF Known
<1>3. request.path \notin Public \cup {"ping", "me"} /\ request.path \in Guarded
  BY <1>1, RoutesApart DEF Guarded
<1>4. \/ stage' = "handler" /\ answer' = answer
      \/ stage' = "answered" /\ answer'.by = "query"
  BY DEF Validate, Reach, Refuse, Reply
<1>5. CASE stage' = "handler" /\ answer' = answer
  BY <1>1, <1>2, <1>3, <1>5 DEF IInv, UnderWay, Stages
<1>6. CASE stage' = "answered" /\ answer'.by = "query"
  <2>1. Answered'
    BY <1>1, <1>2, <1>3, <1>6 DEF Answered, Speakers
  <2> QED
    BY <1>1, <1>6, <2>1 DEF IInv, Stages
<1> QED
  BY <1>4, <1>5, <1>6

(* A profile is told its network, when it has one.                         *)
LEMMA ProfileIs == ASSUME IInv, Profile PROVE IInv'
<1>1. /\ stage = "handler" /\ request \in Requests /\ UNCHANGED <<request, user, engine, asked>>
      /\ asked = Null /\ answer = NoAnswer /\ Known
      /\ request.path \notin Public => ExtractToken(request) # Null
      /\ request.path \in {"ping", "me"}
  BY DEF Profile, IInv, UnderWay
<1>2. Known' /\ user # Null
  BY <1>1, CallersAreSomeone DEF Known
<1>3. request.path \notin Guarded \cup Public
  BY <1>1, RoutesApart DEF Guarded
<1>4. CASE stage' = "answered" /\ answer'.by = "membership" /\ answer'.status = 403
  <2>1. Answered'
    BY <1>1, <1>2, <1>3, <1>4 DEF Answered, Speakers
  <2> QED
    BY <1>1, <1>4, <2>1 DEF IInv, Stages
<1>5. CASE /\ stage' = "answered" /\ answer'.by = "handler"
           /\ request.path = "me" => /\ ResolveDsoNetwork(user) # Null
                                     /\ answer'.body.network = ResolveDsoNetwork(user)
  <2>1. ResolveDsoNetwork(user)' = ResolveDsoNetwork(user)
    BY Zenon, <1>1 DEF ResolveDsoNetwork, DsoNetworks
  <2>2. Answered'
    BY <1>1, <1>2, <1>3, <1>5, <2>1 DEF Answered, Speakers
  <2> QED
    BY <1>1, <1>5, <2>2 DEF IInv, Stages
<1> DEFINE profile == [network |-> ResolveDsoNetwork(user), locale |-> ResolveLocale(request)]
<1>6. \/ Refuse(403, "membership")
      \/ /\ request.path = "me" => ResolveDsoNetwork(user) # Null
         /\ Reply(200, "handler", FALSE, IF request.path = "ping" THEN Null ELSE profile)
  BY Zenon DEF Profile
<1>7. profile.network = ResolveDsoNetwork(user)
  OBVIOUS
<1> HIDE DEF profile
<1>8. Refuse(403, "membership") =>
        stage' = "answered" /\ answer'.by = "membership" /\ answer'.status = 403
  BY DEF Refuse, Reply
<1>9. Reply(200, "handler", FALSE, IF request.path = "ping" THEN Null ELSE profile) =>
        /\ stage' = "answered" /\ answer'.by = "handler"
        /\ request.path = "me" => answer'.body = profile
  BY DEF Reply
<1> QED
  BY <1>4, <1>5, <1>6, <1>7, <1>8, <1>9

(* An alert route is let through to its handler, or has nowhere to file.   *)
LEMMA EnterAlertsIs == ASSUME IInv, EnterAlerts PROVE IInv'
<1>1. /\ stage = "handler" /\ request \in Requests /\ UNCHANGED <<request, user, engine, asked>>
      /\ asked = Null /\ answer = NoAnswer /\ Known
      /\ request.path \notin Public => ExtractToken(request) # Null
      /\ request.path \in AlertRoutes /\ engine \in EngineOutcomes /\ LetThrough
  BY DEF EnterAlerts, IInv, UnderWay, Guarded
<1>2. Known' /\ LetThrough' /\ user # Null
  BY <1>1, DecisionStands, CallersAreSomeone DEF Known
<1>3. request.path \notin Public \cup {"ping", "me"} /\ request.path \in Guarded
  BY <1>1, RoutesApart DEF Guarded
<1>4. stage' = "answered" /\ answer'.by \in {"membership", "AlertRules"}
  <2>1. Refuse(403, "membership") \/ Reply(0, "AlertRules", FALSE, Null)
    BY Zenon DEF EnterAlerts
  <2>2. Refuse(403, "membership") => stage' = "answered" /\ answer'.by = "membership"
    BY DEF Refuse, Reply
  <2>3. Reply(0, "AlertRules", FALSE, Null) => stage' = "answered" /\ answer'.by = "AlertRules"
    BY DEF Reply
  <2> QED
    BY Zenon, <2>1, <2>2, <2>3
<1>5. Answered'
  BY <1>1, <1>2, <1>3, <1>4 DEF Answered, Speakers
<1> QED
  BY <1>1, <1>4, <1>5 DEF IInv, Stages

(* The Digital Twin is asked about the network of the path.                *)
LEMMA CallTwinIs == ASSUME IInv, CallTwin PROVE IInv'
<1>1. /\ stage = "handler" /\ request \in Requests /\ UNCHANGED <<request, user, engine>>
      /\ asked = Null /\ answer = NoAnswer /\ Known
      /\ request.path \notin Public => ExtractToken(request) # Null
      /\ request.path \in GridRoutes /\ engine \in EngineOutcomes /\ LetThrough
  BY DEF CallTwin, IInv, UnderWay, Guarded
<1>2. Known' /\ LetThrough' /\ user # Null
  BY <1>1, DecisionStands, CallersAreSomeone DEF Known
<1>3. request.path \notin Public \cup {"ping", "me"} /\ request.path \in Guarded
  BY <1>1, RoutesApart DEF Guarded
<1>4. asked'.network = request.network
  BY DEF CallTwin
<1>5. stage' = "answered" /\ answer'.by \in {"twin", "handler"}
  <2>1. PICK o \in TwinOutcomes :
          CASE o.kind = "error" -> Refuse(DtError(o.status), "twin")
            [] o.kind = "raise" -> Refuse(500, "twin")
            [] o.kind = "rows"  ->
                 Reply(200, "handler", Cacheable(request.path),
                       IF request.path \in {"shapes", "tree-strike-spans"}
                       THEN [rows |-> o.rows, features |-> ToFeatureCollection(o.rows)]
                       ELSE [rows |-> o.rows])
    BY Zenon DEF CallTwin
  <2>2. o.kind \in {"rows", "error", "raise"}
    BY RequestsAssumption DEF OutcomeType
  <2>3. \A status : Refuse(status, "twin") => stage' = "answered" /\ answer'.by = "twin"
    BY DEF Refuse, Reply
  <2>4. \A cached, body :
          Reply(200, "handler", cached, body) => stage' = "answered" /\ answer'.by = "handler"
    BY DEF Reply
  <2> QED
    BY <2>1, <2>2, <2>3, <2>4
<1>6. Answered'
  BY <1>1, <1>2, <1>3, <1>4, <1>5 DEF Answered, Speakers
<1> QED
  BY <1>1, <1>5, <1>6 DEF IInv, Stages

-----------------------------------------------------------------------------
(* The invariant                                                           *)

(* The service waits for a request.                                        *)
LEMMA InitIs == Init => IInv
  BY DEF Init, IInv, UnderWay, Stages

(* Every step keeps the invariant.                                         *)
LEMMA NextIs == IInv /\ [Next]_vars => IInv'
<1> SUFFICES ASSUME IInv, [Next]_vars PROVE IInv'
  OBVIOUS
<1>1. CASE Receive
  BY <1>1 DEF Receive, IInv, UnderWay, Stages
<1>2. CASE Finish
  BY <1>2 DEF Finish, IInv, UnderWay, Stages
<1>3. CASE UNCHANGED vars
  <2>1. UNCHANGED <<stage, request, user, engine, asked, answer>>
    BY <1>3 DEF vars
  <2>2. (LetThrough' <=> LetThrough) /\ (Known' <=> Known)
    BY <2>1, DecisionStands
  <2>3. ResolveDsoNetwork(user)' = ResolveDsoNetwork(user)
    BY Zenon, <2>1 DEF ResolveDsoNetwork, DsoNetworks
  <2> QED
    BY <2>1, <2>2, <2>3 DEF IInv, UnderWay, Answered
<1> QED
  BY <1>1, <1>2, <1>3, GateIs, RouteIs, RefuseTokenIs, AuthenticateIs, AuthoriseIs, GetDtClientIs,
     ValidateIs, ProfileIs, EnterAlertsIs, CallTwinIs DEF Next

(* The invariant holds in every state that a request can be in.            *)
THEOREM Invariance == Spec => []IInv
<1> QED
  BY InitIs, NextIs, PTL DEF Spec

(* Every stage has the request, the caller and the answer that it needs.   *)
THEOREM TypeCorrectness == Spec => []TypeOK
<1>1. IInv => TypeOK
  <2> SUFFICES ASSUME IInv PROVE TypeOK
    OBVIOUS
  <2>1. /\ stage \in Stages /\ engine \in EngineOutcomes \cup {Null}
        /\ stage # "idle" => request # Null
        /\ request # Null => RequestType(request)
    BY RequestsAssumption DEF IInv
  <2>2. user \in Callers \cup {Null}
    <3>1. CASE stage = "answered"
      BY <3>1 DEF IInv, Answered, Known
    <3>2. CASE stage # "answered"
      BY <3>2 DEF IInv, UnderWay, Known, Stages
    <3> QED
      BY <3>1, <3>2
  <2>3. answer.by # "none" <=> stage = "answered"
    <3>1. CASE stage = "answered"
      BY <3>1 DEF IInv, Answered, Speakers
    <3>2. CASE stage # "answered"
      BY <3>2 DEF IInv, NoAnswer
    <3> QED
      BY <3>1, <3>2
  <2> QED
    BY <2>1, <2>2, <2>3 DEF TypeOK, Stages
<1> QED
  BY <1>1, Invariance, PTL

(* grid.rego: `reason` has one value at most, for any token: a decision is *)
(* never lost to an evaluation error.                                      *)
THEOREM OneReasonAtMost == Spec => []ReasonsNeverConflict
<1>1. IInv => ReasonsNeverConflict
  <2> SUFFICES ASSUME IInv, stage = "policy"
               PROVE  ~Raises(PolicyInput(user, PolicyAction(request.path), Requested(request)))
    BY DEF ReasonsNeverConflict
  <2>1. user \in Callers
    BY DEF IInv, UnderWay, Known
  <2>2. PolicyAction(request.path) \in Actions
    BY DEF PolicyAction, Actions
  <2> QED
    BY <2>1, <2>2, OneReason
<1> QED
  BY <1>1, Invariance, PTL

(* REQ-0001, REQ-0002: the gate and get_user_from_request agree on every   *)
(* header.                                                                 *)
THEOREM GateAgrees == Spec => []GateAndExtractionAgree
<1>1. IInv => GateAndExtractionAgree
  <2> SUFFICES ASSUME IInv, stage \notin {"idle", "gate"}, request.path \notin Public
               PROVE  answer.by = "gate" <=> ExtractToken(request) = Null
    BY DEF GateAndExtractionAgree
  <2>1. CASE stage = "answered"
    BY <2>1 DEF IInv, Answered
  <2>2. CASE stage # "answered"
    BY <2>2 DEF IInv, UnderWay, NoAnswer
  <2> QED
    BY <2>1, <2>2
<1> QED
  BY <1>1, Invariance, PTL

(* REQ-0006, REQ-0007, REQ-0009, REQ-0013, REQ-0052: outside dev a person  *)
(* reads the networks they are a DSO member of and no other, a service     *)
(* reads on its scope, and nobody without a decision.                      *)
THEOREM MembersRead == Spec => []MembersReadExactlyTheirNetworks
<1>1. IInv => MembersReadExactlyTheirNetworks
  <2> SUFFICES ASSUME IInv, ~Dev, stage = "answered", request.path \in GridRoutes, user # Null
               PROVE  answer.by # "policy" <=> engine = "decided" /\ MayRead(user, request.network)
    BY DEF MembersReadExactlyTheirNetworks
  <2>1. Answered /\ request \in Requests /\ request.path \in Guarded
    BY DEF IInv, Guarded
  <2>2. user \in Callers /\ (answer.by # "policy" <=> LetThrough)
    BY <2>1 DEF Answered, Known
  <2>3. PolicyAction(request.path) = "read" /\ Requested(request) = request.network
        /\ "read" \in Actions /\ request.network \in Networks
    BY <2>1, RequestIs, RoutesApart DEF PolicyAction, Requested, Actions, AlertRoutes
  <2>4. /\ ~Raises(PolicyInput(user, "read", request.network))
        /\ Allow(PolicyInput(user, "read", request.network)) <=> MayRead(user, request.network)
    BY <2>2, <2>3, OneReason, ReadAllowed
  <2>5. LetThrough <=> engine = "decided" /\ Allow(PolicyInput(user, "read", request.network))
    BY Zenon, <2>3, <2>4 DEF LetThrough, Permitted
  <2> QED
    BY Zenon, <2>2, <2>4, <2>5
<1> QED
  BY <1>1, Invariance, PTL

(* REQ-0011, REQ-0052: the policy and resolve_dso_network, written apart,  *)
(* agree on who can file a rule.                                           *)
THEOREM WritersFile == Spec => []WriteGateAgreesWithFiling
<1>1. IInv => WriteGateAgreesWithFiling
  <2> SUFFICES ASSUME IInv, stage = "answered", request.path = "rules create",
                      engine = "decided", SubjectType(user) = "user"
               PROVE  answer.by = "policy" <=> ResolveDsoNetwork(user) = Null
    BY DEF WriteGateAgreesWithFiling
  <2>1. Answered /\ request.path \in Guarded
    BY RoutesApart DEF IInv, Guarded
  <2>2. user # Null
    BY <2>1, RequestsAssumption DEF Answered
  <2>3. user \in Callers /\ (answer.by # "policy" <=> LetThrough)
    BY <2>1, <2>2 DEF Answered, Known
  <2>4. PolicyAction(request.path) = "alerts.write" /\ Requested(request) = Null
        /\ "alerts.write" \in Actions
    BY RoutesApart DEF PolicyAction, Requested, Actions
  <2>5. /\ ~Raises(PolicyInput(user, "alerts.write", Null))
        /\ Allow(PolicyInput(user, "alerts.write", Null)) <=> ResolveDsoNetwork(user) # Null
    BY <2>3, <2>4, OneReason, WriteAllowed
  <2>6. LetThrough <=> Allow(PolicyInput(user, "alerts.write", Null))
    BY Zenon, <2>4, <2>5 DEF LetThrough, Permitted
  <2> QED
    BY Zenon, <2>3, <2>5, <2>6
<1> QED
  BY <1>1, Invariance, PTL

(* REQ-0002, REQ-0023: what the Digital Twin is asked, and what a caller   *)
(* learns of it, is for those who may read the network of the path.        *)
THEOREM ReadersAsk == Spec => []TwinAskedOnlyForReaders
<1>1. IInv => TwinAskedOnlyForReaders
  <2> DEFINE token == IF request.header \in Callers \cup {Undecodable} THEN request.header
                      ELSE request.bearer
  <2> SUFFICES ASSUME IInv, asked # Null \/ answer.by \in {"client", "query", "twin"}
               PROVE  /\ asked # Null => asked.network = request.network
                      /\ token \in Callers
                      /\ Dev \/ MayRead(token, request.network)
    BY DEF TwinAskedOnlyForReaders
  <2>1. stage = "answered" /\ request \in Requests /\ Answered
    BY DEF IInv, NoAnswer
  <2>2. user # Null /\ request.path \in GridRoutes /\ answer.by # "policy"
    BY <2>1 DEF Answered
  <2>3. /\ user \in Callers /\ user = ExtractToken(request) /\ LetThrough
        /\ asked # Null => asked.network = request.network
    BY <2>1, <2>2 DEF Answered, Known, Guarded
  <2>4. user = token
    BY <2>1, <2>3, HeaderFirst
  <2>5. PolicyAction(request.path) = "read" /\ Requested(request) = request.network
        /\ request.network \in Networks
    BY <2>1, <2>2, RequestIs, RoutesApart DEF PolicyAction, Requested, AlertRoutes
  <2>6. Dev \/ Allow(PolicyInput(user, "read", request.network))
    BY Zenon, <2>3, <2>5 DEF LetThrough, Permitted
  <2>7. Dev \/ MayRead(user, request.network)
    BY <2>3, <2>5, <2>6, ReadAllowed
  <2> QED
    BY Zenon, <2>3, <2>4, <2>7
<1> QED
  BY <1>1, Invariance, PTL

(* REQ-0004, REQ-0052: the network that /api/me tells a caller is theirs   *)
(* is one that the grid routes let them read.                              *)
THEOREM OwnNetworkRead == Spec => []OwnNetworkIsReadable
<1>1. IInv => OwnNetworkIsReadable
  <2> SUFFICES ASSUME IInv, request # Null, request.path = "me", answer.status = 200, ~request.preflight
               PROVE  Permitted(user, "read", answer.body.network, "decided")
    BY DEF OwnNetworkIsReadable
  <2> DEFINE network == answer.body.network
  <2>1. stage = "answered" /\ Answered
    BY DEF IInv, NoAnswer
  <2>2. /\ user \in Callers /\ ResolveDsoNetwork(user) # Null
        /\ network = ResolveDsoNetwork(user)
    BY <2>1 DEF Answered, Known
  <2>3. network \in Networks /\ MayRead(user, network)
    BY <2>2, ResolvedIs
  <2>4. "read" \in Actions
    BY DEF Actions
  <2> HIDE DEF network
  <2>5. /\ ~Raises(PolicyInput(user, "read", network))
        /\ Allow(PolicyInput(user, "read", network))
    BY <2>2, <2>3, <2>4, OneReason, ReadAllowed
  <2>6. Permitted(user, "read", network, "decided")
    BY Zenon, <2>5 DEF Permitted
  <2> QED
    BY Zenon, <2>6 DEF network
<1> QED
  BY <1>1, Invariance, PTL

-----------------------------------------------------------------------------
(* What an answer says                                                     *)

(* A map is built from the rows of the Digital Twin, a profile from the    *)
(* headers of its request.                                                 *)
Told ==
    stage = "answered" /\ answer.status = 200 =>
        /\ asked # Null /\ asked.route \in {"shapes", "tree-strike-spans"} =>
             \E o \in TwinOutcomes :
                answer.body = [rows |-> o.rows, features |-> ToFeatureCollection(o.rows)]
        /\ request.path = "me" /\ ~request.preflight =>
             answer.body.locale = ResolveLocale(request)

(* A refusal is no 200.                                                    *)
LEMMA RefusalsDiffer ==
    ASSUME NEW status, NEW by, status # 200, Refuse(status, by)
    PROVE  Told'
BY DEF Refuse, Reply, Told

(* No step but CallTwin asks, and no step but Profile tells a profile.     *)
LEMMA ToldStays == ASSUME IInv, Told, [Next]_vars PROVE Told'
<1>1. CASE UNCHANGED vars
  BY <1>1 DEF vars, Told
<1>2. CASE \/ stage' # "answered"
           \/ UNCHANGED asked /\ stage # "answered" /\ UNCHANGED request
              /\ (request.path # "me" \/ request.preflight)
  BY <1>2 DEF Told, IInv
<1>3. CASE Receive \/ Finish
  <2>1. stage' # "answered"
    BY <1>3 DEF Receive, Finish
  <2> QED
    BY <1>2, <2>1
<1>4. CASE Gate
  <2>1. stage' # "answered" \/ Refuse(401, "gate")
    BY <1>4 DEF Gate, Reach
  <2> QED
    BY <1>2, <2>1, RefusalsDiffer
<1>5. CASE Route
  <2>1. UNCHANGED <<request, asked>> /\ stage = "route"
    BY <1>5 DEF Route
  <2>2. \/ request.preflight \/ Refuse(404, "router") \/ request.path \in Public \/ stage' # "answered"
    BY <1>5 DEF Route, Reach
  <2>3. request.path \in Public => request.path # "me"
    BY RoutesApart
  <2> QED
    BY <1>2, <2>1, <2>2, <2>3, RefusalsDiffer
<1>6. CASE RefuseToken
  BY <1>6, RefusalsDiffer DEF RefuseToken
<1>7. CASE Authenticate
  <2>1. stage' # "answered"
    BY <1>7 DEF Authenticate, Reach
  <2> QED
    BY <1>2, <2>1
<1>8. CASE Authorise
  <2>1. stage' # "answered" \/ Refuse(403, "policy")
    BY <1>8 DEF Authorise, Reach
  <2> QED
    BY <1>2, <2>1, RefusalsDiffer
<1>9. CASE GetDtClient
  <2>1. stage' # "answered" \/ Refuse(503, "client")
    BY <1>9 DEF GetDtClient, Reach
  <2> QED
    BY <1>2, <2>1, RefusalsDiffer
<1>10. CASE Validate
  <2>1. stage' # "answered" \/ Refuse(422, "query")
    BY <1>10 DEF Validate, Reach
  <2> QED
    BY <1>2, <2>1, RefusalsDiffer
<1>11. CASE Profile
  <2>1. UNCHANGED <<request, asked>> /\ stage = "handler"
    BY <1>11 DEF Profile
  <2>2. asked' = Null
    BY <2>1 DEF IInv
  <2>3. \/ Refuse(403, "membership")
        \/ request.path # "me"
        \/ answer'.body.locale = ResolveLocale(request)
    BY <1>11 DEF Profile, Reply
  <2>4. CASE answer'.body.locale = ResolveLocale(request)
    <3>1. answer'.body.locale = ResolveLocale(request')
      BY <2>1, <2>4
    <3> QED
      BY <2>2, <3>1 DEF Told
  <2> QED
    BY <1>2, <2>1, <2>3, <2>4, RefusalsDiffer
<1>12. CASE EnterAlerts
  <2>1. UNCHANGED <<request, asked>> /\ stage = "handler" /\ request.path \in AlertRoutes
    BY <1>12 DEF EnterAlerts
  <2>2. request.path # "me"
    BY <2>1, RoutesApart
  <2> QED
    BY <1>2, <2>1, <2>2
<1>13. CASE CallTwin
  <2>1. /\ request.path \in GridRoutes /\ UNCHANGED request /\ asked'.route = request.path
    BY <1>13 DEF CallTwin
  <2>2. request.path # "me" /\ request'.path # "me"
    BY <2>1, RoutesApart
  <2>3. PICK o \in TwinOutcomes :
          CASE o.kind = "error" -> Refuse(DtError(o.status), "twin")
            [] o.kind = "raise" -> Refuse(500, "twin")
            [] o.kind = "rows"  ->
                 Reply(200, "handler", Cacheable(request.path),
                       IF request.path \in {"shapes", "tree-strike-spans"}
                       THEN [rows |-> o.rows, features |-> ToFeatureCollection(o.rows)]
                       ELSE [rows |-> o.rows])
    BY <1>13 DEF CallTwin
  <2>4. OutcomeType(o)
    BY RequestsAssumption
  <2>5. CASE Refuse(DtError(o.status), "twin")
    <3>1. o.status = 0 \/ o.status \in 400 .. 599
      BY ONLY <2>4 DEF OutcomeType
    <3>2. ASSUME o.status = 0 PROVE DtError(o.status) # 200
      BY ONLY <3>2 DEF DtError
    <3>3. ASSUME o.status \in 400 .. 599 PROVE DtError(o.status) # 200
      BY ONLY <3>3 DEF DtError
    <3>4. DtError(o.status) # 200
      BY <3>1, <3>2, <3>3
    <3> QED
      BY <2>5, <3>4, RefusalsDiffer
  <2>6. CASE Refuse(500, "twin")
    BY <2>6, RefusalsDiffer
  <2>7. CASE Reply(200, "handler", Cacheable(request.path),
                   IF request.path \in {"shapes", "tree-strike-spans"}
                   THEN [rows |-> o.rows, features |-> ToFeatureCollection(o.rows)]
                   ELSE [rows |-> o.rows])
    <3>1. request.path \in {"shapes", "tree-strike-spans"} =>
            answer'.body = [rows |-> o.rows, features |-> ToFeatureCollection(o.rows)]
      BY <2>7 DEF Reply
    <3> QED
      BY <2>1, <2>2, <3>1 DEF Told
  <2>8. o.kind \in {"rows", "error", "raise"}
    BY <2>4 DEF OutcomeType
  <2>9. \/ Refuse(DtError(o.status), "twin") \/ Refuse(500, "twin")
        \/ Reply(200, "handler", Cacheable(request.path),
                 IF request.path \in {"shapes", "tree-strike-spans"}
                 THEN [rows |-> o.rows, features |-> ToFeatureCollection(o.rows)]
                 ELSE [rows |-> o.rows])
    BY <2>3, <2>8
  <2> QED
    BY <2>5, <2>6, <2>7, <2>9
<1> QED
  BY <1>1, <1>3, <1>4, <1>5, <1>6, <1>7, <1>8, <1>9, <1>10, <1>11, <1>12, <1>13 DEF Next

(* What is told to the caller is that, in every reachable state.           *)
LEMMA AlwaysTold == Spec => []Told
<1>1. Init => Told
  BY DEF Init, Told
<1>2. IInv /\ Told /\ [Next]_vars => Told'
  BY ToldStays
<1> QED
  BY <1>1, <1>2, Invariance, PTL DEF Spec

(* REQ-0026, REQ-0027: a row without a usable geometry costs itself and no *)
(* other.                                                                  *)
THEOREM BadRowsCostThemselves == Spec => []OneBadRowCostsOnlyItself
<1>1. IInv /\ Told => OneBadRowCostsOnlyItself
  <2> SUFFICES ASSUME IInv, Told, asked # Null, answer.status = 200,
                      asked.route \in {"shapes", "tree-strike-spans"}
               PROVE  LET rows == answer.body.rows
                          good == {i \in DOMAIN rows :
                                     /\ rows[i].form \notin {"absent", "null"}
                                     /\ rows[i].content \notin {"not JSON", "no object", "null geometry"}}
                      IN  /\ Len(answer.body.features) = Cardinality(good)
                          /\ \A i \in good :
                               answer.body.features[Cardinality({j \in good : j <= i})] = rows[i]
    BY DEF OneBadRowCostsOnlyItself
  <2>1. stage = "answered"
    BY DEF IInv, NoAnswer
  <2>2. PICK o \in TwinOutcomes :
          answer.body = [rows |-> o.rows, features |-> ToFeatureCollection(o.rows)]
    BY <2>1 DEF Told
  <2> DEFINE rows == answer.body.rows
             usable == {row \in Range(rows) : Usable(row)}
             good == {i \in DOMAIN rows :
                        /\ rows[i].form \notin {"absent", "null"}
                        /\ rows[i].content \notin {"not JSON", "no object", "null geometry"}}
  <2>3. rows \in Seq(Row)
    <3>1. rows = o.rows
      BY <2>2
    <3> QED
      BY <3>1, RequestsAssumption DEF OutcomeType
  <2>4. Placed(rows, Places(rows, usable), ToFeatureCollection(rows))
    <3> HIDE DEF usable, rows
    <3>1. Placed(rows, Places(rows, usable), Those(rows, usable))
      BY <2>3, ThosePlaces
    <3> QED
      BY <3>1 DEF ToFeatureCollection, usable
  <2>5. Places(rows, usable) = good
    <3> HIDE DEF rows
    <3>1. ASSUME NEW i \in DOMAIN rows
          PROVE  rows[i] \in usable <=>
                   /\ rows[i].form \notin {"absent", "null"}
                   /\ rows[i].content \notin {"not JSON", "no object", "null geometry"}
      <4>1. rows[i] \in Range(rows) /\ rows[i] \in Row
        BY <2>3, ElementOfSeq, LenProperties DEF Range
      <4>2. /\ rows[i].form \in {"absent", "null", "string", "object"}
            /\ rows[i].content \in {"not JSON", "no object", "null geometry", "feature", "bare"}
        BY <4>1 DEF Row, RawForms, RawContents
      <4> QED
        BY <4>1, <4>2 DEF Usable
    <3> QED
      BY <3>1 DEF Places
  <2>6. answer.body.features = ToFeatureCollection(rows)
    BY <2>2
  <2> HIDE DEF rows, usable, good
  <2>7. Len(answer.body.features) = Cardinality(good)
    BY <2>4, <2>5, <2>6 DEF Placed
  <2>8. \A i \in good : answer.body.features[Cardinality({j \in good : j <= i})] = rows[i]
    BY <2>4, <2>5, <2>6 DEF Placed, UpTo
  <2> QED
    BY <2>7, <2>8 DEF rows, good
<1> QED
  BY <1>1, Invariance, AlwaysTold, PTL

(* A place comes before another with a higher q, or the same q and a       *)
(* smaller index: a strict total order.                                    *)
LEMMA PreferenceOrders ==
    ASSUME NEW languages \in Seq([tag : Tags, q : Qualities])
    PROVE  /\ IsFiniteSet(Acceptable(languages))
           /\ Acceptable(languages) \subseteq Nat
           /\ Orders(Preferred(languages), Acceptable(languages))
<1> DEFINE A == Acceptable(languages)
           q == [i \in DOMAIN languages |-> Quality(languages[i].q)]
<1>1. DOMAIN languages = 1 .. Len(languages) /\ Len(languages) \in Nat
  BY LenProperties
<1>2. A \subseteq 1 .. Len(languages)
  BY <1>1 DEF Acceptable
<1>3. IsFiniteSet(A)
  <2>1. IsFiniteSet(1 .. Len(languages))
    BY <1>1, FS_Interval
  <2> HIDE DEF A
  <2> QED
    BY <1>2, <2>1, FS_Subset
<1>4. ASSUME NEW i \in A PROVE q[i] \in Int /\ i \in Int
  <2>1. i \in DOMAIN languages /\ languages[i] \in [tag : Tags, q : Qualities]
    BY <1>1, <1>2, ElementOfSeq
  <2>2. languages[i].q \in -20 .. 20 \cup {Malformed, NaN}
    BY <2>1 DEF Qualities, Tenths
  <2>3. Quality(languages[i].q) \in -20 .. 20
    BY <2>2 DEF Quality
  <2>4. ASSUME NEW n \in -20 .. 20 PROVE n \in Int
    OBVIOUS
  <2>5. q[i] = Quality(languages[i].q)
    BY <2>1
  <2>6. Quality(languages[i].q) \in Int
    BY <2>3, <2>4
  <2> HIDE DEF A, q
  <2> QED
    BY <1>1, <2>1, <2>5, <2>6
<1>5. \A i, j \in A : <<i, j>> \in Preferred(languages) <=> q[i] > q[j] \/ (q[i] = q[j] /\ i < j)
  <2> SUFFICES ASSUME NEW i \in A, NEW j \in A
               PROVE  <<i, j>> \in Preferred(languages) <=> q[i] > q[j] \/ (q[i] = q[j] /\ i < j)
    OBVIOUS
  <2>1. q[i] = Quality(languages[i].q) /\ q[j] = Quality(languages[j].q)
    BY DEF Acceptable
  <2>2. <<i, j>> \in A \X A /\ <<i, j>>[1] = i /\ <<i, j>>[2] = j
    OBVIOUS
  <2> HIDE DEF A, q
  <2> QED
    BY <2>1, <2>2 DEF Preferred, A
<1> HIDE DEF A, q
<1>6. Orders(Preferred(languages), A)
  BY <1>4, <1>5 DEF Orders
<1> QED
  BY <1>1, <1>2, <1>3, <1>6 DEF A

(* The language of a header is that of its best place, and there is none   *)
(* when no place names one with a q above 0.                               *)
BestOf(listed, locale) ==
    LET spoken == {i \in DOMAIN listed : PrimarySubtag(listed[i].tag) # Null /\ Quality(listed[i].q) > 0}
        better(i, j) == \/ Quality(listed[i].q) > Quality(listed[j].q)
                        \/ Quality(listed[i].q) = Quality(listed[j].q) /\ i < j
    IN  /\ locale = Null <=> spoken = {}
        /\ locale # Null => \E i \in spoken :
             /\ locale = PrimarySubtag(listed[i].tag)
             /\ \A j \in spoken \ {i} : better(i, j)

(* from_accept_language finds that language.                               *)
LEMMA HeaderBest ==
    ASSUME NEW languages \in Seq([tag : Tags, q : Qualities])
    PROVE  BestOf(languages, FromAcceptLanguage(languages))
<1> DEFINE A == Acceptable(languages)
           before == Preferred(languages)
           ranked == InOrder(A, before)
           speaking == {i \in DOMAIN languages : PrimarySubtag(languages[i].tag) # Null}
           out == Those(ranked, speaking)
           spoken == {i \in DOMAIN languages :
                        PrimarySubtag(languages[i].tag) # Null /\ Quality(languages[i].q) > 0}
           locale == FromAcceptLanguage(languages)
<1>1. IsFiniteSet(A) /\ Orders(before, A)
  BY PreferenceOrders
<1>2. spoken = A \cap speaking
  BY DEF Acceptable, PrimarySubtag
<1>3. /\ ranked \in Seq(A) /\ Range(ranked) = A
      /\ \A i, j \in 1 .. Len(ranked) : i < j => <<ranked[i], ranked[j]>> \in before
  <2> HIDE DEF A, before
  <2> QED
    BY <1>1, InOrderIs
<1>4. DOMAIN ranked = 1 .. Len(ranked) /\ Len(ranked) \in Nat
  <2> HIDE DEF ranked
  <2> QED
    BY <1>3, LenProperties
<1>5. /\ out = <<>> <=> \A k \in DOMAIN ranked : ranked[k] \notin speaking
      /\ \A k \in DOMAIN ranked :
           ranked[k] \in speaking /\ (\A l \in 1 .. k - 1 : ranked[l] \notin speaking)
           => Head(out) = ranked[k]
  <2> HIDE DEF ranked, speaking, A
  <2> QED
    BY <1>3, ThoseFirst
<1>6. locale = IF out = <<>> THEN Null ELSE PrimarySubtag(languages[Head(out)].tag)
  BY DEF FromAcceptLanguage
<1>7. \A k \in DOMAIN ranked : ranked[k] \in A
  <2> HIDE DEF ranked, A
  <2> QED
    BY <1>3, <1>4, ElementOfSeq
<1>8. CASE spoken = {}
  <2> HIDE DEF ranked, out, speaking, A, locale
  <2>1. out = <<>>
    BY <1>2, <1>5, <1>7, <1>8
  <2>2. locale = Null
    BY <1>6, <2>1
  <2> QED
    BY <1>8, <2>2 DEF BestOf, locale
<1>9. CASE spoken # {}
  <2> DEFINE P == {k \in DOMAIN ranked : ranked[k] \in speaking}
  <2> HIDE DEF ranked, out, speaking, A, locale, before
  <2>1. P \subseteq Nat /\ P # {}
    BY <1>2, <1>3, <1>4, <1>9 DEF Range
  <2>2. PICK k \in P : \A l \in P : k <= l
    <3> HIDE DEF P
    <3> QED
      BY <2>1, LeastOf
  <2> DEFINE i == ranked[k]
  <2>3. i \in spoken
    BY <1>2, <1>7
  <2>4. \A l \in 1 .. k - 1 : ranked[l] \notin speaking
    <3> SUFFICES ASSUME NEW l \in 1 .. k - 1, ranked[l] \in speaking PROVE FALSE
      OBVIOUS
    <3>1. k \in 1 .. Len(ranked)
      BY <1>4
    <3>2. l \in DOMAIN ranked /\ l < k
      BY <1>4, <3>1
    <3>3. l \in P
      BY <3>2
    <3> QED
      BY <1>4, <2>2, <3>1, <3>2, <3>3
  <2>5. Head(out) = i /\ out # <<>>
    BY <1>5, <2>4
  <2>6. locale = PrimarySubtag(languages[i].tag) /\ locale # Null
    BY <1>6, <2>3, <2>5
  <2>7. ASSUME NEW j \in spoken \ {i}
        PROVE  \/ Quality(languages[i].q) > Quality(languages[j].q)
               \/ Quality(languages[i].q) = Quality(languages[j].q) /\ i < j
    <3>1. PICK l \in DOMAIN ranked : ranked[l] = j
      BY <1>2, <1>3 DEF Range
    <3>2. l \in P
      BY <1>2, <3>1
    <3>3. k \in 1 .. Len(ranked) /\ l \in 1 .. Len(ranked) /\ k < l
      BY <1>4, <2>2, <3>1, <3>2
    <3>4. <<i, j>> \in before
      BY <1>3, <3>1, <3>3
    <3> HIDE DEF i
    <3>5. <<i, j>>[1] = i /\ <<i, j>>[2] = j
      OBVIOUS
    <3> QED
      BY <3>4, <3>5 DEF before, Preferred
  <2> HIDE DEF i
  <2> QED
    BY <1>9, <2>3, <2>6, <2>7 DEF BestOf, locale
<1> QED
  BY <1>8, <1>9

(* REQ-0044: the token's language if it names one, else the language of    *)
(* the highest q above 0, the first of several with the same q, else none. *)
THEOREM PreferenceFollowed == Spec => []LocaleFollowsPreference
<1>1. IInv /\ Told => LocaleFollowsPreference
  <2> SUFFICES ASSUME IInv, Told, request # Null, request.path = "me", answer.status = 200,
                      ~request.preflight
               PROVE  IF request.claim # Null /\ PrimarySubtag(request.claim) # Null
                      THEN answer.body.locale = PrimarySubtag(request.claim)
                      ELSE BestOf(request.languages, answer.body.locale)
    BY DEF LocaleFollowsPreference, BestOf
  <2>1. stage = "answered" /\ request \in Requests
    BY DEF IInv, NoAnswer
  <2>2. answer.body.locale = ResolveLocale(request)
    BY <2>1 DEF Told
  <2>3. request.languages \in Seq([tag : Tags, q : Qualities])
    BY <2>1, RequestIs DEF RequestType
  <2>4. BestOf(request.languages, FromAcceptLanguage(request.languages))
    BY <2>3, HeaderBest
  <2> QED
    BY <2>2, <2>4 DEF ResolveLocale
<1> QED
  BY <1>1, Invariance, AlwaysTold, PTL
=============================================================================
