---------------------------- MODULE MCGridRequests ----------------------------
(***************************************************************************)
(* The tokens with up to two organisations, of every kind, with one header *)
(* each; and a few tokens with every combination of headers, on every      *)
(* path, with every answer of the Digital Twin.                            *)
(***************************************************************************)
EXTENDS GridRequests

CONSTANTS ada, north, south

AllCallers ==
    {u \in [sub : {ada}, organizations : SUBSET Organization,
            is_service_account : BOOLEAN, scopes : SUBSET Scopes] :
        \A o, p \in u.organizations : o.alias = p.alias => o = p}

Dso(n) == [alias |-> n, type |-> "dso", attributes |-> {}]

Operator(organizations) ==
    [sub |-> ada, organizations |-> organizations, is_service_account |-> FALSE, scopes |-> {}]

OneNetwork == Operator({Dso(north)})
NoNetwork  == Operator({})

(* What stays the same when nothing else is said.                          *)
Plain ==
    [path |-> "me", preflight |-> FALSE, network |-> north, header |-> OneNetwork,
     scheme |-> "none", bearer |-> Blank, given |-> {}, ill |-> {}, claim |-> Null,
     languages |-> <<>>]

EveryToken ==
    {[Plain EXCEPT !.path = p, !.network = n, !.header = u] :
        p \in {"summary", "me", "rules list", "rules create"}, n \in Networks, u \in AllCallers}

EveryHeader ==
    {[Plain EXCEPT !.path = p, !.preflight = f, !.header = h, !.scheme = s, !.bearer = b] :
        p \in {"health", "docs", "no such path", "ping", "summary"},
        f \in BOOLEAN,
        h \in {OneNetwork, NoNetwork, Undecodable, Blank, Null},
        s \in {"bearer", "other", "none"},
        b \in {OneNetwork, NoNetwork, Undecodable, Blank}}

Filters == UNION {Accepted(g) : g \in GridRoutes}

(* Nothing given, all of it, and all but one; each of them ill-formed.     *)
EveryQuery ==
    {[Plain EXCEPT !.path = g, !.given = q, !.ill = i] :
        g \in GridRoutes,
        q \in {{}, Filters} \cup {Filters \ {f} : f \in Filters},
        i \in {{}} \cup {{f} : f \in Filters}}

Entries == [tag : {"it-IT", "en", "*", "1x"}, q : {-5, 0, 5, 10, 20, Malformed, NaN}]

EveryLanguage ==
    {[Plain EXCEPT !.claim = c, !.languages = l] :
        c \in {Null, "it", "1x"}, l \in UNION {[1 .. n -> Entries] : n \in 0 .. 2}}
    \cup {[Plain EXCEPT !.languages = l] : l \in [1 .. 3 -> [tag : {"it", "en", ""}, q : {0, 5, 10}]]}

SomeRequests ==
    {r \in EveryToken \cup EveryHeader \cup EveryQuery \cup EveryLanguage : r.ill \subseteq r.given}

Rows(contents) ==
    [kind |-> "rows", status |-> 0,
     rows |-> [i \in DOMAIN contents |-> [id |-> i, form |-> contents[i][1], content |-> contents[i][2]]]]

Good == <<"string", "feature">>

SomeOutcomes ==
    {[kind |-> "error", status |-> s, rows |-> <<>>] : s \in {0, 401, 500}}
    \cup {[kind |-> "raise", status |-> 0, rows |-> <<>>], Rows(<<>>)}
    \cup {Rows(<<Good, <<f, c>>, <<"object", "bare">>>>) : f \in RawForms, c \in RawContents}
=============================================================================
