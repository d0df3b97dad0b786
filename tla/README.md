# A TLA+ model of celine-grid

celine-grid is the backend of the grid-resilience UI of a distribution system
operator (DSO). Operators file *alert rules*; when the grid pipeline finishes a
run, the service asks the Digital Twin for the exposure of each network,
decides which rules trigger, and hands one *risk report* per recipient list to
nudging-tool, which mails it. This directory holds TLA+ modules translated from
the source, the TLC instances that check them, and theorems that TLAPS proves.

    tlc -workers 2 -config MCAlertRules.cfg MCAlertRules.tla
    tlapm AlertRulesProofs.tla

Paths below are relative to `src/celine/grid/` of the repository unless they
start at its root. `PROJECT.json` maps every definition to its lines.

## 1. Inventory

| component | source | state it keeps | operations | talks to |
|---|---|---|---|---|
| alert rule endpoints | `api/alerts.py:24-72` | table `alert_rules` | list, create, update, delete | policy, database |
| notification settings endpoints | `api/alerts.py:79-108` | table `notification_settings` | get (creates), put (merges) | policy, database |
| access policy | `security/policy.py`, `policies/grid.rego`, `api/deps.py` | the loaded bundle | three decisions, `resolve_dso_network` | token, Rego engine |
| middleware, token extraction | `security/middleware.py`, `api/deps.py:24-50` | – | token headers, 401 | SDK, Keycloak |
| grid proxy | `api/grid.py` | – | eleven routes, feature collections, error statuses, caching | Digital Twin |
| profile, locale | `api/user.py` | – | `/api/ping`, `/api/me` | token |
| models, schemas | `db/models.py`, `api/schemas.py` | – | validation, the columns an UPDATE sets | – |
| sessions | `db/session.py` | SQLAlchemy's pool | one session per request, `init_db` | PostgreSQL |
| pipeline listener | `services/pipeline_listener.py` | two clients and a broker, set at startup | one handler per MQTT message | broker, database, dispatcher |
| alert dispatcher | `services/alert_dispatcher.py` | none between calls | one call per network of a run | database, Digital Twin, nudging-tool |
| recipients | `services/notification_recipients.py` | – | parse, de-duplicate, identity of an inbox | – |
| risk summary | `services/risk_summary.py` | – | what triggers; the report body | – |
| startup | `main.py`, `security/posture.py`, `create_broker` | configuration, broker link, clients | posture, `create_all`, connect, subscribe, disconnect | database, broker |
| migrations | `alembic/` | the schema and its number | 001, 002, 003 up and down | database |
| settings, routes | `settings.py`, `routes.py` | – | declarations | – |
| packaging, CI, tests | `pyproject.toml`, `Dockerfile`, ... | – | none of the service | – |

Everything runs in one asyncio process: handlers are coroutines that interleave
at every `await`, and no handler takes a lock. What they share is the database.
The endpoints and the dispatcher never call each other: the dispatcher reads
the tables the endpoints write, in its own session. Migrations run before the
service starts (`docker-compose.yml` waits for its `migrate` service).

What is hard here:

- **check, await, write.** An update and a delete select the caller's row,
  await, and commit; the settings handlers select, find nothing, and insert.
- **reads at different moments.** A dispatch reads the rules of a network once,
  awaits the Digital Twin, and reads the settings of each rule's operator
  afterwards, while both tables change.
- **one step of several failing.** A fetch fails for one network of many, a
  send for one report of many, a statement in the middle of a run, a refresh
  after its commit, one row of a map, the broker between connect and subscribe.
- **decisions taken twice.** The policy and `resolve_dso_network` each decide
  whether the caller has one network; the middleware and the dependencies each
  read the token's headers; the migrations and the models each make the table.
- **order.** The dependencies of a route decide who learns what; the posture
  comes before anything is touched; the lines of a report are filtered, sorted,
  cut and rounded.
- **deliveries and restarts.** The broker may deliver a run again, or two runs
  at once; the process may die anywhere; releases come and go over one database.

What makes each component correct:

- *rules*: only the owner's own requests write a row; an update writes the
  columns it names and no other; a deleted rule never comes back; a rule is
  filed under its author's one network.
- *settings*: one row per user; a write merges.
- *policy*: a member reads exactly their networks, wherever they stand in the
  token; the two gates agree; no two reasons at once.
- *requests*: the two readers of the headers agree; the Digital Twin is asked
  only for who may read; one bad row costs itself; the language is the best one.
- *dispatch*: every rule whose hazard the rows call for is in a report; a
  report names only what triggered, reaches an inbox once per network, and
  stays in its network; failures cost only what failed; a run ends.
- *recipients*: spelling and order of a list do not change who it is.
- *risk summary*: the report shows what triggered; units add up to the network;
  nothing worse than a listed line is left out.
- *startup*: an insecure configuration touches nothing; nothing but an
  unbounded call to the broker holds a start; a service that is up listens or
  has let go.
- *migrations*: the schema of the models, whatever the path; no rule is lost,
  watches more, or changes its network.

## 2. Modules

    GridModels              rows, bodies, the columns an UPDATE sets
      GridAccess            the token, the policy, the Rego decision
        AlertRules          the rule endpoints              --implements--> RuleRegistry
          AlertRulesProofs
        UserSettings        the settings endpoints
          UserSettingsProofs
        GridRequests        a request, from the middleware to its answer
          GridRequestsProofs
      RuleRegistry          what the rules table promises
      Recipients            parsing and identity of a recipients field
      RiskSummary           what triggers, and the body of a report
        Reports             fields that are retyped, tables that grow (on Recipients too)
          ReportsProofs
        AlertDispatch       listener + dispatcher           --implements--> ReportDelivery
                            (on Recipients and RiskSummary, beside RuleRegistry)
          AlertDispatchProofs
          AlertDispatchHistory   history variables and the properties over them
            AlertDispatchHistoryProofs
    ReportDelivery          what a delivery promises to the inboxes
    Lists                   comprehensions, sums, sorts and slices
      ListTheorems          what they do; RiskSummary and GridRequests are on Lists
    Lifespan                startup and shutdown
    Migrations              revisions, alembic's operations, create_all
      Deployment            the service over its database's life (both of these)
        DeploymentProofs
    MC...                   instances for TLC

**GridModels.** An `AlertRule` is a record of the columns a property looks at;
the key is the index of the table. JSON bodies distinguish a field that is
absent (`Unset`) from one that is null (`Null`), because the code does
(`exclude_unset`). `Written` is the one place where a `setattr` followed by a
flush is modelled: SQLAlchemy sends the columns whose value differs from the
value this session loaded, and none when none differs. A text field is a model
value, or in the dispatcher a sequence of words.

**GridAccess.** `PolicyInput` and `Allow`/`Reasons` follow `policy.py` and
`grid.rego` rule by rule. A complete Rego rule with two values is an evaluation
error, so `Reasons` is a set and `Permitted` asks that it is not two. The
engine may decide, raise, or be missing.

**AlertRules.** A *slot* is one request in flight; `pc` says which database
statement it is at: `select`, then `insert`, `update` or `delete` (the flush
and COMMIT), then `refresh`. The code between two statements is one step, as no
other coroutine runs in it. Refusals are `RefuseByPolicy`, `RefuseBody` and
`RefuseNetwork`. `Fail` is a statement that fails anywhere, including a COMMIT
whose acknowledgement is lost; `Crash` loses the requests in flight. PostgreSQL
is at READ COMMITTED (the default; the engine is created without another
level): a SELECT sees what is committed when it runs, and an UPDATE or DELETE
acts on the row as it is then. An answered slot keeps what its client knows.

**RuleRegistry.** The abstract table: file under a fresh key and a real
network, amend without changing owner or network, remove for good, one rule at
a time. `AlertRules` implements it (`RegistrySpec`; the mapping is the identity
on `rules` and `issued`, and everything about requests is hidden), and the
operators of `AlertDispatch` act by it, so what is shown about the dispatcher
holds beside the real endpoints. That is how the two halves are composed.

**UserSettings.** The same grain for the settings; `Unique` is the UNIQUE
constraint, which decides when two first requests race.

**GridRequests.** One request through its stages: `gate` (`PolicyMiddleware`,
the outermost), `route` (CORS, public and missing paths), `token`
(`get_user_from_request`), `policy`, `client` (`get_dt_client`), `query`
(validation), `handler`. Requests share nothing on this way, so one at a time
is looked at; `Finish` forgets it. The rows of a map are what `_to_feature_collection`
tells apart, a language header is a sequence of tags with qualities in tenths,
and an outcome of the Digital Twin is a table, an error with a status, or
something else that raises. A request for the alert rules is followed to the
door of `AlertRules`.

**Recipients.** A field is a sequence of words, each the address it spells
(`Null` when it is not one) and a spelling. SHA-256 is taken to be injective.

**RiskSummary.** Kilometres are integers in metres, which a report shows to ten
metres; shares and indices are in tenths, as the code rounds them (`Nearest`,
`RoundKm`). `TriggeredVectors` decides what triggers from rows; `BuildDays`
makes the body of a report: units, lines within the floor, totals.

**Lists.** What the code does to Python lists, on sequences: a comprehension
with a condition (`Those`), `sum` (`SumOf`), `sorted` (`InOrder`), a slice
(`First`). They take a set or a sequence, never an operator, so that a lemma can
say of each what it does.

**Reports** puts the two to work: it has no counterpart in the service but the
inputs, fields that are typed and retyped and tables to which rows are added,
and states what the parser and the summaries make of them.

**AlertDispatch.** A *handler* is one delivery; `job[h].pc` is `list` (which
networks), `next` (the rules of the next network), `fetch`, `resolve` (the
triggered rules and their recipients, one rule per step), `send`. `Return`
forgets the locals of one `dispatch_grid_alerts`. The Digital Twin answers with
any of the given exposures, with a part of one when it is larger than
`RISK_KM_LIMIT`, with nothing, or fails. Row order and network order are left
open, which covers every order the database may return. `EditRule` and
`EditSettings` are the operators.

**ReportDelivery.** What the inboxes see of a delivery: it takes up the
networks of the run one after the other, each at most once, tells an inbox of
the network in hand and of no other, once, and may give up at any moment.
`AlertDispatch` implements it under the mapping at `Delivery`: `open` is `todo`,
`current` the network in hand, `told` the pairs of network and identity that
nudging-tool accepted. Rules, rows, failures and edits are stutters.

**AlertDispatchHistory** records what the tables held while a run was under
way; it never constrains a step.

**Lifespan.** `stage` is where `lifespan` is (posture, database, broker,
connecting, subscribing, abandoning, serving), `link` what the broker holds of
it, `clients` what `create_broker` made. A timeout may cut a connection that is
half made (`ConnectTimesOut`; `ConnectFails` is an error of the broker's). The
disconnect of a failed start is guarded by nothing and may raise. `OwnStep` is
what a start does without waiting for anybody, or not for long.

**Migrations.** A database is its revision, the columns of `alert_rules`, which
of them are nullable, the rows, and whether `notification_settings` exists.
Each revision is the sequence of `op.` calls it makes, and `Failed` when one of
them would be refused (a NULL under NOT NULL, a table that exists); alembic
runs them in one transaction, so a failed step changes nothing.

**Deployment** composes the two: alembic acts while the service is down,
`init_db` within its startup; older releases file rows at revisions 1 and 2,
this one files, updates and deletes while it serves.

## 3. Runs

| run | question | instance | states |
|---|---|---|---|
| `alert_rules` | do interleaved requests keep ownership, fields, deletions and networks; is it a `RuleRegistry` | 2 requests, 2 keys, 2 operators, dev with a raising engine, a legacy row | 120 k |
| `requests` | who is let through to what, and with which answer | every token with ≤ 2 organisations, every combination of headers, every route, 3 engine outcomes | 209 k |
| `reports` | is a list the same however it is typed; does a body say what triggered | pairs of fields of ≤ 3 words; tables of ≤ 4 of 9 kinds of rows | 32 k |
| `deployment` | does the schema survive its history; what can hold a start | 2 rules, 3 revisions, 10 configurations, fairness | 49 k |
| `user_settings` | do first requests and writes race safely | 2 requests, 3 users, 2 keys | 8 k |
| `dispatch_reports` | is everybody due told once, of what triggered; what may a run say while operators edit | 3 rules meeting in one inbox, or 2 rules and 2 edits; 2 networks, failures, horizon 0 | 544 k |
| `dispatch_runs` | do runs stay in their network, end, and implement `ReportDelivery` | 2 deliveries, every message, legacy rows, 1 edit, fairness | 141 k |

Five more runs have `expect: violation`; each shows a place where the code does
not do what a document of the repository says (section 6).

*Why the bounds are enough.* The properties of the rules relate one row, the
request that writes it and one that had loaded it before: two slots and two
keys have every such pair, a key that is freed and a key that is new. In the
settings, two slots are the two sides of the race, and a third user is the one
whose row must not be touched. A request is alone, so its run is exhaustive in
what distinguishes requests: two organisations have every way in which a caller
has none, one or two networks, and the network asked for in either place. In
the dispatcher, merging is over at least two rules in one group and one outside
it, hence three; two networks have one before and one after a failure; two
edits suffice to move a list from one table to the other. Three rules with two
edits would be millions of states that show nothing new, as an edit touches one
rule and a merge needs no edit: `dispatch_reports` has the two as scenes
(`SceneSpec` of `MCAlertDispatchHistory`), which its `Init` chooses between. The exposures are the
two that tell hazards and thresholds apart (only a wind alert; a wind warning
with a heat alert and a calm row). The rows of `reports` have a line across two
units, a unit without a name, stretches whose index would differ as a mean and
as a sum, one of no length and two of a few metres; four of them fill a list of
two lines and leave two out. Two rules of a deployment are one filed before a
revision and one after it. `MaxEdits`, `MaxWords`, `MaxRows` and the key sets
are the only bounds; handlers, requests, messages, migrations and restarts
recur without end. The theorems of section 5 lift most of it to any instance.

*Symmetry* is used in `alert_rules` and `user_settings`, over slots and keys,
which no property and no `CHOOSE` names; not in a run that checks liveness.

*Fairness.* `AlertDispatch!FairSpec` asks for weak fairness of `Progress(h)`: a
coroutine that is ready is scheduled by asyncio, and the calls it awaits return
or raise (the HTTP clients of the SDK and the database driver do not wait for
ever). Messages, edits, failing statements and crashes are never obliged to
happen. Under it `EveryRunEnds` says that a delivery ends, however often fetches
and sends fail.

`Deployment!FairSpec` asks for weak fairness of `OwnStep` and of nothing else:
the posture and `create_broker` are synchronous, and the connect is bounded by
`wait_for` (main.py:31-34; a connect that were to swallow its cancellation would
hold it, which is the SDK's part). The code bounds neither the subscribe
(main.py:35) nor the disconnect of a failed start (42, 45), and they are not
obliged to return; nor is `init_db`; nor is anybody obliged to start, stop or
migrate the service. What the code does achieve under this fairness is
`OnlyBrokerCallsHoldAStart`: a start that has its tables ends in a service that
is up, or one of three named things befalls it (it dies, it stays in the
subscribe or in the disconnect for ever, the disconnect raises). A connect that
never answers is none of them. That this is less than REQ-0040 asks is what the
run `broker_startup` shows.

## 4. Properties

Each property is stated above its definition. The ones with most to say:

- `WritesOnlyNamedFields`: across sessions, an update never resets what another
  session saved between its SELECT and its commit.
- `AcknowledgedDeleteIsFinal`: no request that had loaded the row brings it back.
- `FiledUnderSoleNetwork`: also in dev, where a raising engine lets everybody by.
- `WriteGateAgreesWithFiling`: the policy and `resolve_dso_network` agree;
  `GateAndExtractionAgree`: so do the two readers of the token's headers, which
  had once parted; `OwnNetworkIsReadable`: and the profile and the policy.
- `TwinAskedOnlyForReaders`: neither a query error nor a missing client is told
  to a caller who may not read; with two tokens, the proxy's counts.
- `ReasonsNeverConflict`: no evaluation error hides in the seven reasons.
- `LocaleFollowsPreference`: ties, zeros, `nan`, out-of-range and malformed
  qualities.
- `TriggeredRulesAreCovered`, `ReportsNameOnlyWhatTriggered`: the merge loses
  and invents nothing, by the wording of REQ-0032 to REQ-0034, written
  independently of the code's operators (`Calls`).
- `NoNetworkForgotten`: failures before it do not cost a network its evaluation.
- `RecipientsAreTheOperators`: whatever is edited, a report is sent to a list
  one of its own rules or operators held during the run.
- `ReportAgreesWithTriggers`: the mail shows kilometres for a hazard exactly
  when the rule fires on it, but for stretches of a few metres.
- `UnitsAddUpToTotals`: the index of the network is the mean of the units'
  weighted by length, at every grain; never an average of indices.
- `FlagMarksUnattributed`: through every up and down of the revisions, with
  rows of every release.
- `MigrationsKeepRules`: a JSON null under `risk_types` makes the downgrade of
  002 fail rather than lose the row.

Every property of a passing run has a mutant in `PROJECT.json`: a change of one
definition, of the kind a careless edit of the code would make, that breaks it.
The operators marked `mutant` in the modules are those changes and are used by
nothing else.

## 5. Theorems

Each proof module EXTENDS the module it is about and proves, for any value of
its constants:

| module | theorem | property |
|---|---|---|
| `AlertRulesProofs` | `TypeCorrectness` | `[]TypeOK` |
| | `DeletesAreFinal` | `[]AcknowledgedDeleteIsFinal` |
| | `AnswersAreOwn` | `[]AnswersShowOwnRules` |
| | `OwnersOnly` | `OwnerOnlyWrites` |
| | `OnlyNamedFields` | `WritesOnlyNamedFields` |
| | `FiledUnderOwnNetwork` | `FiledUnderSoleNetwork` |
| | `ImplementsRegistry` | `RegistrySpec`, the refinement |
| | `NullIsTheOnlyWay` | `[]EveryRuleNamesAHazard`, if no PATCH sends null |
| `UserSettingsProofs` | `OneRowEach` | `[]OneRowPerUser` |
| | `OwnSettingsShown` | `[]AnswersShowOwnSettings` |
| | `PutsMerge` | `WritesMerge` |
| | `OnlyRacesFail` | `[]FirstUseIsServed`, if nobody has two requests in flight |
| `GridRequestsProofs` | `OneReasonAtMost` | `[]ReasonsNeverConflict` |
| | `GateAgrees` | `[]GateAndExtractionAgree` |
| | `MembersRead` | `[]MembersReadExactlyTheirNetworks` |
| | `WritersFile` | `[]WriteGateAgreesWithFiling` |
| | `ReadersAsk` | `[]TwinAskedOnlyForReaders` |
| | `OwnNetworkRead` | `[]OwnNetworkIsReadable` |
| | `BadRowsCostThemselves` | `[]OneBadRowCostsOnlyItself` |
| | `PreferenceFollowed` | `[]LocaleFollowsPreference` |
| | `TypeCorrectness` | `[]TypeOK` |
| `ReportsProofs` | `FirstSpellingsKept` | `[]ParsingKeepsFirstSpellings` |
| | `InboxesAreAddressSets` | `[]SameAddressesSameInbox` |
| | `ReportsAgree` | `[]ReportAgreesWithTriggers` |
| | `NothingWorseLeftOut` | `[]NothingWorseIsLeftOut` |
| | `UnitsAddUp` | `[]UnitsAddUpToTotals` |
| | `OnlyShortStretchesAreLeftOut` | `[]LinesAtThresholdAreListed`, if no stretch is under five metres |
| | `TypeCorrect` | `[]TypeOK` |
| `AlertDispatchProofs` | `TypeCorrectness` | `[]TypeOK` |
| | `OncePerInbox` | `[]OneReportPerInbox` |
| | `NetworksStayApart` | `[]ReportsStayInTheirNetwork` |
| | `ImplementsDelivery` | `DeliverySpec`, the refinement |
| | `LivesBesideRegistry` | `Registry!Spec`: its table moves as the endpoints may move it |
| | `RunsGetOn` | the safety half of `EveryRunEnds` |
| | `OnlyImpossibleTimestampsCancel` | `TimestampNeverCancels`, if every day named exists |
| `AlertDispatchHistoryProofs` | `OnlyActiveRulesSpeak` | `[]ReportedRulesWereActive` |
| | `EveryNetworkIsAskedFor` | `[]NoNetworkForgotten` |
| | `EveryTriggerIsTold` | `[]TriggeredRulesAreCovered` |
| | `NothingElseIsTold` | `[]ReportsNameOnlyWhatTriggered` |
| | `ListsComeFromTheRules` | `[]RecipientsAreTheOperators` |
| `DeploymentProofs` | `TypeCorrectness` | `[]TypeOK` |
| | `SchemaIsTheModels` | `[]SchemaMatchesModel` |
| | `FlagIsTheNetworks` | `[]FlagMarksUnattributed` |
| | `ServesSoundly` | `[]ListensOrLetsGo` |
| | `PostureComesFirst` | `InsecureTouchesNothing` |
| | `RulesSurviveMigrations` | `MigrationsKeepRules` |
| | `StartsGetOn` | the safety half of `OnlyBrokerCallsHoldAStart` |

*Assumptions*: `ModelsAssumption`, `DispatchAssumption`, `RequestsAssumption`,
`SettingsAssumption`, `MigrationsAssumption` (special values are different from
the data; parameters have their types), `RulesAssumption` and
`AccessAssumption` (likewise, and a token lists finitely many organisations),
`ConfigsAssumption`, and `ReportsAssumption` (likewise, and the stretches of a
row in alert and in warning do not overlap, which is the Digital Twin's part).
TLC evaluates them in every run that extends the modules. `RunsGetOn` assumes in
its statement that rules and networks are finitely many, as those of a table are.

Each module about a system that runs has an inductive invariant (`IInv`, or
`HIInv`), which the theorems read their properties off; none of the properties
is inductive by itself. The arguments:

*AlertRules.* That an answer shows the caller's rule depends on what the request
in flight knew, and that on what the table did since. `IInv` adds (1) every
stored key was issued, and (2) for each slot, `SlotInv`: a request past its
SELECT or INSERT holds an issued key, and the row under that key is its caller's
*or is gone*. The step lemma is split in two. `TableStep` says what any step may
do to issued keys: no row changes owner, none comes back. `Frame` says that
`TableStep` is enough for `SlotInv` of every slot the step does not serve. So
each action is looked at only for its own slot. `TableChanges` lists the three
ways in which the table changes, and the action properties and the refinement
are read off them.

*UserSettings.* Rows never go and never change hands (`RowsStay`), so what a
session has found stays its caller's; a row is added only when `Unique` lets it,
so no two rows have one user (`OneOwner`).

*GridRequests.* Lemmas about the policy come first: `grid.rego` never gives two
reasons for any token, an allowed read is membership or scope, an allowed write
is a sole network. Then the invariant keeps, for every stage, what the stages
before it have made sure of (`UnderWay`), and for an answer, who gave it and why
they could (`Answered`).

*AlertDispatch.* A network leaves `todo` when it is taken up, and nothing was
sent about one that is still there (`SentOK`); so what was sent about the network
in hand was sent since, one report at a time, from a set in which each inbox
stands once (`ReportsOK`, from the lemmas about `MergeByRecipients`). What a
delivery holds of the rules was read under its network, and `RuleRegistry` never
moves a rule to another (`FiledUnder`). The refinement looks at every action
once: a step of the dispatcher is a step of `ReportDelivery` or a stutter.

*AlertDispatchHistory.* Its invariant `HIInv` extends that of the dispatcher.
What each step does to a delivery and to the logs is stated first (`FetchDoes`,
`MergeDoes`, ..., `PagesTurn`), so that the rest never unfolds an action. Then:
what is loaded was active (`StirredOK`); a rule that was active all along is
active whenever a network is listed or passed over, so its network is still in
`todo` or was asked for (`AskedOK`); a report rests on triggered rules, these on
rows and on a list that the tables held (`HeldOK`, `FoundedOK`); and whatever
the rows call for is behind a report, or its rule has triggered, or is still to
be looked at (`CoveredOK`), which leaves a finished run only the first. The
merge comes in by `MergeCovers`: it neither adds nor drops a hazard, and its
threshold is the lowest of its rules.

*Deployment.* The revision determines the columns, and the columns what a row
holds (`Row1`, `Row2`, `Row3`); each operation of alembic is shown to lead from
one shape to the next, so a revision that does not fail does too. A database
that `create_all` made has the shape of the head without its number.
`StartupOK` is what the startup has behind it at each stage.

*ListTheorems.* A fold of the community modules is a recursive function over
sets of indices, emptied from the largest down. That such a function exists is
shown once (`FoldExists`); `ThoseUpwards` and `SumUpwards` turn it into a
recurrence over the prefixes of a sequence, and the rest is proved from what
happens when an element is appended. Neither prover can instantiate the
library's induction theorems, whose property is an operator; `Induct` and
`SeqInduct` have a set in its place, which is shown to hold every number or
every sequence. `SelectSeq` and `SortSeq` take operators as well, which a proof
can say nothing of; the models say `Those` and `InOrder`, of which it can:
`ThosePlaces` and `ThoseRange` (what is kept, in its order), `SumOfParts` (a sum
over a table is the sum over its groups), `InOrderIs` (each element once,
smaller before larger).

*GridRequests, the language.* `LocaleFollowsPreference` describes the answer by
what was asked and preferred, not by how the header is walked through. That an
answered profile has the language `ResolveLocale` gave it (`Told`), that the
preference orders the tags totally (`PreferenceOrders`) and that the first of
the sort is the best (`HeaderBest`) join the two.

*Reports.* `DedupeEmails` is a fold of its own and is unrolled likewise. That
the report and the triggers agree, and that what is left out is not worse, are
read off what a summary shows of a group and where it stands in the sort. That
the units add up is arithmetic: lengths and severities of the groups sum to
those of the day's rows exactly (`KmPartition`, `SeverityPartition`); a rounded
length is off by at most five metres, and a rounded index times the length it
weighs by at most half a tenth of that length and five metres times the index,
which is at most 1000 because stretches do not overlap (`StretchesFit`); both
errors are summed over the units (`RoundedPartition`, `WeightPartition`).

*The liveness properties*, as far as they are safety. `StepsLeft` of a delivery
is a natural number that every step it takes lowers: networks still to do
weigh more than all that one network can cost, which is bounded because a merge
makes no more reports than there were triggered rules (`MergeIsSmall`,
`ReportsAreFew`). So a fan-out ends after a bounded number of steps of its own,
at most 2 + n (2r + 4) for n networks and r rules, and all that `EveryRunEnds`
asks for besides is that they are taken. `StartsGetOn` says the same of a
startup, with six stages; for three of them the code itself sees to it.

*The findings.* For each run that expects a violation a theorem says that what
it shows is the only cause: without the null of a PATCH (`NullIsTheOnlyWay`),
two requests of one person at once (`OnlyRacesFail`), a day that does not exist
(`OnlyImpossibleTimestampsCancel`), stretches of less than five metres
(`OnlyShortStretchesAreLeftOut`), the documents are right of the code, under
every interleaving, failure and table. For `broker_startup` it is `StartsGetOn`:
from the connect on, a step of the start leads towards a service that is up or
out of the disconnect that raises, so only that, a crash, or a call that does
not return keeps it from being up.

*Model-checked only*: liveness under fairness (`EveryRunEnds`,
`OnlyBrokerCallsHoldAStart`), of which the prover has neither the fairness nor
`ENABLED`.

## 6. Where the code and its documents differ

| run | document | code |
|---|---|---|
| `null_hazards` | REQ-0017: `risk_types` is a non-empty list | `PATCH {"risk_types": null}` is stored; the list endpoint of that owner then fails |
| `settings_race` | REQ-0020: settings exist as soon as they are asked for | two first requests at once: one is a 500 |
| `dispatch_date` | REQ-0037: an unreadable timestamp starts the horizon today | `2026-02-30` raises out of the handler |
| `broker_startup` | REQ-0040 (`docs/specifications/operability.md:44-48`): an unavailable broker does not stop the service; startup waits `MQTT_STARTUP_TIMEOUT_SECONDS`, warns and carries on | (1) `subscribe` (main.py:35) is outside `wait_for`: a broker that accepts the connection and never acknowledges the subscription holds the startup for ever; (2) the disconnect of a failed start (main.py:42, 45) is inside no `try`: when it raises, `lifespan` raises before its `yield` |
| `report_rounding` | REQ-0046: the lines with kilometres at or above the threshold | a line of 4 m at ALERT sends the report and is not listed in it: the floor looks at rounded kilometres |

`broker_startup` shows both of its cases in one behaviour. Its property is that
one of the two at least never occurs, which is less than REQ-0040 says; the
counterexample is a start whose connect fails and whose disconnect raises
(`abandoned`), the service started again, connected, and in `subscribing` for
ever. A disconnect that never returns (the model may stay in `abandoning` too)
has the effect of the first case.

Also met, without a run of its own:

- The docstrings at `api/deps.py:117` and `security/policy.py:178` ask a scope of
  users as well; `grid.rego` asks it of services only, and REQ-0006 agrees with
  the policy. `Allow` follows the policy.
- A fan-out sends one report per recipient list and network, where REQ-0031
  may be read as one per list of the whole run. `OneReportPerInbox` is stated
  per network, as the code and its tests have it.
- A rule and the settings of its operator are read at two moments of a
  dispatch: an operator who moves a list from the settings to the rule in
  between is reported to under their `sub`, without the list.
- The hazards without a property in `PROJECT.json`: a POST that commits and is
  answered 500, a PATCH that another session overtakes with the same value, a
  database error that ends the whole fan-out, reports lost by a crash, a
  network truncated at 20000 rows, a session held across slow calls. The models
  have all but the last of these behaviours; no document promises otherwise.

Documents that are stale: they disagree with the code, and with a requirement,
a docstring or a test that says what the code does. The models follow the code.

| document | says | code, and what agrees with it |
|---|---|---|
| `docs/specifications/alert-rules.md:17-18` | dispatch sends one nudge per rule | one per recipient list (`_merge_by_recipients`), as REQ-0031 and the dispatcher's tests have it; `OneReportPerInbox` |
| `docs/architecture.md:95` | one event per triggered rule, `thunderstorm` when both hazards trigger | one report per recipient list, with the set of hazards; REQ-0031 |
| `docs/architecture.md:57` | the first organisation of type `dso` becomes the caller's `network_id` | `resolve_dso_network` demands exactly one, as REQ-0052 does; `FiledUnderSoleNetwork` |
| `docs/architecture.md:97` | dispatch is cancelled when a window field is missing from the event | the handler reads no window field; a timestamp it cannot read starts the horizon today (REQ-0037) |

## 7. What is outside

External, and modelled only by what the code relies on: PostgreSQL at READ
COMMITTED, SQLAlchemy's unit of work, alembic's operations, the MQTT broker, the
Digital Twin, nudging-tool, Keycloak and the verification of a token (which may
refuse any token: `RefuseToken`).

Left out of modelled components: a `create_broker` that raises (main.py:29, which
is outside the `try`), the errors of a CORS preflight, `CELINE_PUBLIC_DOCS` (which
the model has unset); time stamps, logging, wording of errors, names
of hosts and topics; the organisation groups of a token, which no rule of the
policy reads; the sums of `summary`'s proxied body, which the service does not
look at.

Not modelled:

- *the connection pool*: acquiring, queueing and its timeout are SQLAlchemy's;
  no line of the repository holds or releases a connection but through a
  session, and sessions are closed on every path by `async with`. A model of
  the pool would be a model of SQLAlchemy;
- *settings and routes*: declarations. The parsing of the environment is
  pydantic's; the values that matter are CONSTANTS here;
- *packaging, CI, tests*: no behaviour of the service.

## 8. What is left

Every invariant, action property and refinement that a run checks is proved,
and so is the safety half of the two liveness properties. The six hazards
without a property are listed in section 6. `GridRequests` and `AlertRules` meet
at the door of the handler (`EnterAlerts`); a composition with several requests
in flight would add states and, as requests share only the database, no new
behaviour.
