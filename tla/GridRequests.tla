----------------------------- MODULE GridRequests -----------------------------
(***************************************************************************)
(* One HTTP request from the first middleware to its answer: the token gate*)
(* of security/middleware.py, the dependencies of api/deps.py in the order *)
(* FastAPI solves them, and the handlers of api/grid.py and api/user.py.   *)
(* The handlers of the alert rules and settings are AlertRules and         *)
(* UserSettings: here a request is followed up to their door.              *)
(*                                                                         *)
(* Requests share nothing on this way but settings and the policy, so one  *)
(* at a time is looked at. What a token says is a caller of GridAccess;    *)
(* its `locale` claim is kept with the request.                            *)
(***************************************************************************)
EXTENDS GridAccess, Lists

CONSTANTS
    Requests,           \* the requests that may arrive
    TwinOutcomes,       \* what the Digital Twin may do with a call
    TwinConfigured,     \* whether DIGITAL_TWIN_API_URL is set, as a set of cases
    Undecodable,        \* a token that JwtUser.from_token refuses
    Blank,              \* an empty string
    Malformed, NaN      \* a q that float() refuses; one that it reads as nan

VARIABLES
    stage,      \* how far the request has come
    request,    \* what was asked, with its headers
    user,       \* the caller its token was decoded to
    engine,     \* what the policy engine did for it
    asked,      \* the call made to the Digital Twin
    answer      \* the response

vars == <<stage, request, user, engine, asked, answer>>

Public == {"health", "docs"}

PlainRoutes  == {"substations/map", "filters", "summary"}
StaticRoutes == {"tile-index", "shapes", "tree-strike-spans"}
RiskRoutes   == {"risks", "risks-now", "risk-km", "risks-8h", "trendline"}
GridRoutes   == PlainRoutes \cup StaticRoutes \cup RiskRoutes
AlertRoutes  == {"rules list", "rules create"}

Paths == Public \cup {"no such path", "ping", "me"} \cup GridRoutes \cup AlertRoutes

(* The query parameters a route takes; those it cannot do without; those   *)
(* whose value it checks.                                                  *)
Accepted(route) ==
    CASE route = "shapes"            -> {"asset_type", "tile_id"}
      [] route = "tree-strike-spans" -> {"tile_id"}
      [] route = "risks"             -> {"dates", "risk_vector"}
      [] route = "risks-now"         -> {"risk_vector"}
      [] route = "risk-km"           -> {"dates", "level", "risk_vector", "operational_unit",
                                         "line_name", "substation_name", "min_level"}
      [] route = "risks-8h"          -> {"dates", "slot", "risk_vector"}
      [] route = "trendline"         -> {"date_from", "date_to", "risk_vector"}
      [] OTHER                       -> {}

Required(route) == Accepted(route) \cap
    (IF route = "trendline" THEN {"date_from", "date_to"}
     ELSE IF route \in {"risk-km", "risks-8h"} THEN {"dates"} ELSE {})

Checked(route) == Accepted(route) \cap {"level", "min_level", "slot"}

Tokens == Callers \cup {Undecodable, Blank}

Tags      == {"it", "it-IT", "en", "*", "", "1x"}
Tenths    == -20 .. 20              \* float() does not mind a q below 0 or above 1
Qualities == Tenths \cup {Malformed, NaN}

RequestType(r) ==
    /\ r.path \in Paths
    /\ r.preflight \in BOOLEAN
    /\ r.network \in Networks
    /\ r.header \in Tokens \cup {Null}
    /\ r.scheme \in {"bearer", "other", "none"} /\ r.bearer \in Tokens
    /\ r.given \subseteq UNION {Accepted(g) : g \in GridRoutes}
    /\ r.ill \subseteq r.given
    /\ r.claim \in Tags \cup {Null}
    /\ r.languages \in Seq([tag : Tags, q : Qualities])

(* The feature_geojson column of a row: absent, null, a JSON string or an  *)
(* object; and what the string or the object is.                           *)
RawForms    == {"absent", "null", "string", "object"}
RawContents == {"not JSON", "no object", "null geometry", "feature", "bare"}

Row == [id : Nat, form : RawForms, content : RawContents]

OutcomeType(o) ==
    /\ o.kind \in {"rows", "error", "raise"}
    /\ o.status \in {0} \cup 400 .. 599
    /\ o.rows \in Seq(Row)

ASSUME RequestsAssumption ==
    /\ \A r \in Requests : RequestType(r)
    /\ \A o \in TwinOutcomes : OutcomeType(o)
    /\ TwinConfigured \subseteq BOOLEAN
    /\ Null \notin Requests
    /\ Null \notin Tokens \cup {"decided", "raised", "missing"}
    /\ Undecodable \notin Callers /\ Blank \notin Callers /\ Undecodable # Blank
    /\ {Malformed, NaN} \cap Tenths = {} /\ Malformed # NaN

-----------------------------------------------------------------------------
(* The token                                                               *)

HasTokenInHeader(r) == r.header \notin {Null, Blank}    \* mutant: the setting alone

(* middleware.py: a header with something in it, or a bearer scheme.       *)
HasToken(r) == r.header \notin {Null, Blank} \/ r.scheme = "bearer"

BearerFirst(r) ==                                       \* mutant: the order swapped
    IF r.scheme = "bearer" THEN r.bearer
    ELSE IF r.header \notin {Null, Blank} THEN r.header ELSE Null

(* deps.py: the header that the settings name, then the bearer.            *)
ExtractToken(r) ==
    IF r.header \notin {Null, Blank} THEN r.header
    ELSE IF r.scheme = "bearer" THEN r.bearer ELSE Null

-----------------------------------------------------------------------------
(* api/grid.py: the assembly of the map                                    *)

(* parsed.get("geometry", parsed): an object without that key is its own   *)
(* geometry.                                                               *)
Usable(row) ==
    /\ row.form \in {"string", "object"}
    /\ row.content \in {"feature", "bare"}

AllOrNothing(rows) ==               \* mutant: a row that does not parse is fatal
    IF \A i \in DOMAIN rows : Usable(rows[i]) THEN rows ELSE <<>>

ToFeatureCollection(rows) == Those(rows, {row \in Range(rows) : Usable(row)})

-----------------------------------------------------------------------------
(* api/user.py: the language of a profile                                  *)

PrimarySubtag(tag) ==
    CASE tag \in {"it", "it-IT"} -> "it"
      [] tag = "en"              -> "en"
      [] OTHER                   -> Null

(* In tenths. What float() cannot read counts as 1.0; "nan" it can read,   *)
(* and nan > 0 is false.                                                   *)
Quality(q) == IF q = Malformed THEN 10 ELSE IF q = NaN THEN 0 ELSE q

FirstListed(languages) ==           \* mutant: the header's order, whatever q says
    LET spoken == Those(languages, {e \in Range(languages) :
                                      PrimarySubtag(e.tag) # Null /\ Quality(e.q) > 0})
    IN  IF spoken = <<>> THEN Null ELSE PrimarySubtag(Head(spoken).tag)

(* The places of the header that count, and their order: the code sorts on *)
(* (-q, index).                                                            *)
Acceptable(languages) ==
    {i \in DOMAIN languages : languages[i].tag \notin {"", "*"} /\ Quality(languages[i].q) > 0}

Preferred(languages) ==
    LET q(i) == Quality(languages[i].q)
    IN  {pair \in Acceptable(languages) \X Acceptable(languages) :
            \/ q(pair[1]) > q(pair[2])
            \/ q(pair[1]) = q(pair[2]) /\ pair[1] < pair[2]}

FromAcceptLanguage(languages) ==
    LET ranked == InOrder(Acceptable(languages), Preferred(languages))
        spoken == Those(ranked, {i \in DOMAIN languages : PrimarySubtag(languages[i].tag) # Null})
    IN  IF spoken = <<>> THEN Null ELSE PrimarySubtag(languages[Head(spoken)].tag)

ResolveLocale(r) ==
    IF r.claim # Null /\ PrimarySubtag(r.claim) # Null
    THEN PrimarySubtag(r.claim)
    ELSE FromAcceptLanguage(r.languages)

-----------------------------------------------------------------------------

NoAnswer == [status |-> 0, by |-> "none", cached |-> FALSE, body |-> Null]

Init ==
    /\ stage = "idle"
    /\ request = Null /\ user = Null /\ engine = Null /\ asked = Null
    /\ answer = NoAnswer

Receive ==
    /\ stage = "idle"
    /\ request' \in Requests
    /\ stage' = "gate"
    /\ UNCHANGED <<user, engine, asked, answer>>

Reply(status, by, cached, body) ==
    /\ stage' = "answered"
    /\ answer' = [status |-> status, by |-> by, cached |-> cached, body |-> body]

Refuse(status, by) == Reply(status, by, FALSE, Null)

Reach(next) == stage' = next /\ UNCHANGED answer

(* PolicyMiddleware is added last, so it is the outermost: it sees also    *)
(* the preflights that CORSMiddleware would answer.                        *)
Gate ==
    /\ stage = "gate"
    /\ IF request.path \in Public \/ HasToken(request)
       THEN Reach("route")
       ELSE Refuse(401, "gate")
    /\ UNCHANGED <<request, user, engine, asked>>

(* CORSMiddleware, then the routes that need no dependency. The API        *)
(* documents are mounted in dev only.                                      *)
Route ==
    /\ stage = "route"
    /\ CASE request.preflight                           -> Reply(200, "cors", FALSE, Null)
         [] request.path = "no such path"               -> Refuse(404, "router")
         [] request.path = "docs" /\ ~Dev               -> Refuse(404, "router")
         [] request.path \in Public                     -> Reply(200, "handler", FALSE, Null)
         [] OTHER                                       -> Reach("token")
    /\ UNCHANGED <<request, user, engine, asked>>

(* get_user_from_request. A good token is refused, too, while Keycloak     *)
(* cannot be asked for its keys.                                           *)
RefuseToken ==
    /\ stage = "token"
    /\ Refuse(401, "token")
    /\ UNCHANGED <<request, user, engine, asked>>

AuthenticateUnverified ==                       \* mutant: the token is not decoded
    /\ stage = "token"
    /\ ExtractToken(request) # Null
    /\ user' = ExtractToken(request)
    /\ Reach(IF request.path \in {"ping", "me"} THEN "handler" ELSE "policy")
    /\ UNCHANGED <<request, engine, asked>>

Authenticate ==
    /\ stage = "token"
    /\ ExtractToken(request) \in Callers
    /\ user' = ExtractToken(request)
    /\ Reach(IF request.path \in {"ping", "me"} THEN "handler" ELSE "policy")
    /\ UNCHANGED <<request, engine, asked>>

PolicyAction(path) ==
    CASE path = "rules list"   -> "alerts.read"
      [] path = "rules create" -> "alerts.write"
      [] OTHER                 -> "read"

Requested(r) == IF r.path \in GridRoutes THEN r.network ELSE Null

(* require_network_read, require_alerts_read, require_alerts_write         *)
Authorise ==
    /\ stage = "policy"
    /\ engine' \in EngineOutcomes
    /\ IF Permitted(user, PolicyAction(request.path), Requested(request), engine')
       THEN Reach(IF request.path \in GridRoutes THEN "client" ELSE "handler")
       ELSE Refuse(403, "policy")
    /\ UNCHANGED <<request, user, asked>>

(* get_dt_client, which is solved after the policy and before the query    *)
(* parameters are validated.                                               *)
GetDtClient ==
    /\ stage = "client"
    /\ \E configured \in TwinConfigured :
         IF configured THEN Reach("query") ELSE Refuse(503, "client")
    /\ UNCHANGED <<request, user, engine, asked>>

Validate ==
    /\ stage = "query"
    /\ IF Required(request.path) \subseteq request.given
          /\ request.ill \cap Checked(request.path) = {}
       THEN Reach("handler")
       ELSE Refuse(422, "query")
    /\ UNCHANGED <<request, user, engine, asked>>

(* GET /api/ping and GET /api/me                                           *)
Profile ==
    /\ stage = "handler"
    /\ request.path \in {"ping", "me"}
    /\ IF request.path = "me" /\ ResolveDsoNetwork(user) = Null
       THEN Refuse(403, "membership")
       ELSE Reply(200, "handler", FALSE,
                  IF request.path = "ping" THEN Null
                  ELSE [network |-> ResolveDsoNetwork(user), locale |-> ResolveLocale(request)])
    /\ UNCHANGED <<request, user, engine, asked>>

(* POST /api/alert-rules resolves the network once more, by itself.        *)
EnterAlerts ==
    /\ stage = "handler"
    /\ request.path \in AlertRoutes
    /\ IF request.path = "rules create" /\ ResolveDsoNetwork(user) = Null
       THEN Refuse(403, "membership")
       ELSE Reply(0, "AlertRules", FALSE, Null)
    /\ UNCHANGED <<request, user, engine, asked>>

DtError(status) == IF status = 0 THEN 502 ELSE status

Cacheable(route) == route \in StaticRoutes

(* A filter that is absent is left to the Digital Twin's own default, and  *)
(* only /risks fills in an empty list of dates.                            *)
Forwarded(r) ==
    (r.given \cap Accepted(r.path)) \cup (IF r.path = "risks" THEN {"dates"} ELSE {})

CallTwin ==
    /\ stage = "handler"
    /\ request.path \in GridRoutes
    /\ asked' = [network |-> request.network, route |-> request.path, filters |-> Forwarded(request)]
    /\ \E o \in TwinOutcomes :
         CASE o.kind = "error" -> Refuse(DtError(o.status), "twin")
           [] o.kind = "raise" -> Refuse(500, "twin")
           [] o.kind = "rows"  ->
                Reply(200, "handler", Cacheable(request.path),
                      IF request.path \in {"shapes", "tree-strike-spans"}
                      THEN [rows |-> o.rows, features |-> ToFeatureCollection(o.rows)]
                      ELSE [rows |-> o.rows])
    /\ UNCHANGED <<request, user, engine>>

(* The response is sent, and nothing is kept.                              *)
Finish ==
    /\ stage = "answered"
    /\ stage' = "idle"
    /\ request' = Null /\ user' = Null /\ engine' = Null /\ asked' = Null
    /\ answer' = NoAnswer

Next ==
    \/ Receive \/ Gate \/ Route \/ RefuseToken \/ Authenticate \/ Authorise
    \/ GetDtClient \/ Validate \/ Profile \/ EnterAlerts \/ CallTwin \/ Finish

Spec == Init /\ [][Next]_vars

-----------------------------------------------------------------------------
(* Properties                                                              *)

TypeOK ==
    /\ stage \in {"idle", "gate", "route", "token", "policy", "client", "query", "handler", "answered"}
    /\ request # Null => RequestType(request)
    /\ stage # "idle" => request # Null
    /\ user \in Callers \cup {Null}
    /\ engine \in EngineOutcomes \cup {Null}
    /\ answer.by # "none" <=> stage = "answered"

(* REQ-0006, REQ-0007 in their own words: the DSO members of the network,  *)
(* and the services with a grid scope.                                     *)
MayRead(caller, network) ==
    \/ \E org \in caller.organizations :
         org.alias = network /\ (org.type = "dso" \/ "dso" \in org.attributes)
    \/ /\ caller.organizations = {}
       /\ caller.is_service_account
       /\ caller.scopes \cap {"grid.read", "grid.admin"} # {}

(* grid.rego: no two values of `reason` hold at once. A conflict is an     *)
(* evaluation error, which denies what the policy allows (and allows what  *)
(* it denies, in dev).                                                     *)
ReasonsNeverConflict ==
    stage = "policy" => ~Raises(PolicyInput(user, PolicyAction(request.path), Requested(request)))

(* REQ-0006, REQ-0007, REQ-0009, REQ-0013, REQ-0052: outside dev a person  *)
(* is let through to the networks they are a DSO member of, all of those   *)
(* and no other, wherever they stand in the token; a service on its scope; *)
(* and nobody when the engine is missing or raises.                        *)
MembersReadExactlyTheirNetworks ==
    ~Dev /\ stage = "answered" /\ request.path \in GridRoutes /\ user # Null =>
        (answer.by # "policy" <=> engine = "decided" /\ MayRead(user, request.network))

(* REQ-0011, REQ-0052: the policy and resolve_dso_network, written apart,  *)
(* agree on who can file a rule: a person whom the policy lets write is    *)
(* not refused afterwards, and one whom it stops had no sole network.      *)
WriteGateAgreesWithFiling ==
    /\ stage = "answered" /\ request.path = "rules create"
    /\ engine = "decided" /\ SubjectType(user) = "user"
    => (answer.by = "policy" <=> ResolveDsoNetwork(user) = Null)

(* REQ-0002, REQ-0023: the Digital Twin is asked about a network, and a    *)
(* caller learns whether it is configured and what it wants to be asked,   *)
(* only when the token that counts may read the network of the path; with  *)
(* a token in both headers that is the one in the proxy header.            *)
TwinAskedOnlyForReaders ==
    asked # Null \/ answer.by \in {"client", "query", "twin"} =>
        LET token == IF request.header \in Callers \cup {Undecodable} THEN request.header
                     ELSE request.bearer
        IN  /\ asked # Null => asked.network = request.network
            /\ token \in Callers
            /\ Dev \/ MayRead(token, request.network)

(* REQ-0001, REQ-0002 (and issue 22, where they had parted): the gate and  *)
(* get_user_from_request read the same headers. The gate turns away who    *)
(* has nothing to extract and nobody else, on every path but the public    *)
(* ones, whether or not there is such a path.                              *)
GateAndExtractionAgree ==
    stage \notin {"idle", "gate"} /\ request.path \notin Public =>
        (answer.by = "gate" <=> ExtractToken(request) = Null)

(* REQ-0004, REQ-0052: the network that /api/me tells a caller is theirs   *)
(* is one that the grid routes then let them read.                         *)
OwnNetworkIsReadable ==
    request # Null /\ request.path = "me" /\ answer.status = 200 /\ ~request.preflight =>
        Permitted(user, "read", answer.body.network, "decided")

(* REQ-0026, REQ-0027: a row without a usable geometry costs itself and no *)
(* other: the collection has the others, each once and in their order.     *)
OneBadRowCostsOnlyItself ==
    asked # Null /\ answer.status = 200 /\ asked.route \in {"shapes", "tree-strike-spans"} =>
        LET rows == answer.body.rows
            good == {i \in DOMAIN rows : /\ rows[i].form \notin {"absent", "null"}
                                         /\ rows[i].content \notin {"not JSON", "no object", "null geometry"}}
        IN  /\ Len(answer.body.features) = Cardinality(good)
            /\ \A i \in good : answer.body.features[Cardinality({j \in good : j <= i})] = rows[i]

(* REQ-0044: the token's language if it names one, else the language of    *)
(* the highest q above 0, the first of several with the same q, else none. *)
LocaleFollowsPreference ==
    request # Null /\ request.path = "me" /\ answer.status = 200 /\ ~request.preflight =>
        LET locale == answer.body.locale
            listed == request.languages
            spoken == {i \in DOMAIN listed : PrimarySubtag(listed[i].tag) # Null /\ Quality(listed[i].q) > 0}
            better(i, j) == \/ Quality(listed[i].q) > Quality(listed[j].q)
                            \/ Quality(listed[i].q) = Quality(listed[j].q) /\ i < j
        IN  IF request.claim # Null /\ PrimarySubtag(request.claim) # Null
            THEN locale = PrimarySubtag(request.claim)
            ELSE /\ locale = Null <=> spoken = {}
                 /\ locale # Null => \E i \in spoken :
                      /\ locale = PrimarySubtag(listed[i].tag)
                      /\ \A j \in spoken \ {i} : better(i, j)
=============================================================================
