-------------------------------- MODULE Reports --------------------------------
(***************************************************************************)
(* The pure parts of a report, put to work: recipients fields that are     *)
(* typed and retyped, and tables of exposure rows that grow. Nothing here  *)
(* is state of the service: it is what its parser and its summaries are    *)
(* given. While one of the two varies the other is empty.                  *)
(***************************************************************************)
EXTENDS Recipients, RiskSummary

CONSTANTS
    Words,      \* what a recipients field is made of
    Fields,     \* the fields that may be typed
    Days,       \* the horizons of the pipeline
    RowKinds,   \* the rows that an exposure table is made of
    MaxRows,    \* how many rows it has at most
    TopN        \* TOP_LINES

VARIABLES field, retyped, table

vars == <<field, retyped, table>>

(* A tratta of the Digital Twin: what it is in alert and in warning are    *)
(* stretches of it that do not overlap.                                    *)
ExposureRow ==
    [date : Days, risk_vector : Hazards, operational_unit : Nat, line_name : Nat,
     km_total : Nat, km_alert : Nat, km_warning : Nat, worst_level : DOMAIN LevelRank]

ASSUME ReportsAssumption ==
    /\ Fields \subseteq Seq(Words) /\ Null \notin Fields
    /\ RowKinds \subseteq ExposureRow
    /\ \A row \in RowKinds : row.km_alert + row.km_warning <= row.km_total
    /\ TopN \in Nat

Init == field \in Fields /\ retyped = field /\ table = <<>>

Retype == table = <<>> /\ retyped' \in Fields /\ UNCHANGED <<field, table>>

(* A full table gives way to the next one.                                 *)
Grow ==
    /\ field = <<>> /\ retyped = <<>>
    /\ \E row \in RowKinds :
         table' = IF Len(table) < MaxRows THEN Append(table, row) ELSE <<row>>
    /\ UNCHANGED <<field, retyped>>

Next == Retype \/ Grow

Spec == Init /\ [][Next]_vars

-----------------------------------------------------------------------------
(* Properties                                                              *)

TypeOK ==
    /\ field \in Fields /\ retyped \in Fields
    /\ table \in Seq(RowKinds)

IsFirst(text, i) ==
    text[i].address # Null /\ \A j \in 1 .. i - 1 : text[j].address # text[i].address

Firsts(text) == {i \in DOMAIN text : IsFirst(text, i)}

(* REQ-0035: what is parsed are the words that are the first spelling of   *)
(* an address, each once, in the order they were typed.                    *)
ParsingKeepsFirstSpellings ==
    LET parsed == ParseRecipients(retyped)
    IN  /\ Len(parsed) = Cardinality(Firsts(retyped))
        /\ \A i \in Firsts(retyped) :
             parsed[Cardinality({j \in Firsts(retyped) : j <= i})] = retyped[i]

(* REQ-0036: the identity of an inbox depends on the set of its addresses  *)
(* alone: reordering, re-casing or repeating them does not change it, and  *)
(* another set of addresses is another identity.                           *)
SameAddressesSameInbox ==
    LET addresses(text) == {text[i].address : i \in DOMAIN text} \ {Null}
    IN  addresses(field) = addresses(retyped) <=>
            SyntheticEmailUserId(ParseRecipients(field))
              = SyntheticEmailUserId(ParseRecipients(retyped))

Body(threshold) == BuildDays(table, Days, Hazards, threshold, TopN)

(* The index a line deserves, from all of its rows of that day and hazard. *)
Deserved(row) ==
    LET alike(r) == r.date = row.date /\ r.risk_vector = row.risk_vector
                    /\ r.line_name = row.line_name
    IN  IndexOfSums(Those(table, {r \in Range(table) : alike(r)}))

(* A row whose kilometres at the threshold survive the rounding.           *)
Visible(row, threshold) ==
    row.km_alert >= 5 \/ (threshold = "WARNING" /\ row.km_warning >= 5)

(* REQ-0046: a stretch at or above the threshold is on the report of its   *)
(* day and hazard: in the figures of its unit, and in the list of lines    *)
(* unless that is full of lines that are as bad or worse.                  *)
NothingWorseIsLeftOut ==
    \A threshold \in Thresholds : LET body == Body(threshold) IN
        \A row \in {r \in Range(table) : Visible(r, threshold)} :
            LET day == body[row.date][row.risk_vector]
            IN  /\ \E unit \in Range(day.units) :
                     /\ unit.key = row.operational_unit
                     /\ KmAtOrAbove(unit, threshold) > 0
                     /\ LevelRank[unit.worst_level] >= LevelRank[row.worst_level]
                /\ \/ \E line \in Range(day.top_lines) : line.key = row.line_name
                   \/ /\ Len(day.top_lines) = TopN
                      /\ \A line \in Range(day.top_lines) : line.risk_index >= Deserved(row)

Magnitude(n) == IF n < 0 THEN -n ELSE n

(* REQ-0046: the figures add up. The tratte of the units are those of the  *)
(* network, their kilometres are up to the rounding, and the index of the  *)
(* network is the mean of the units' weighted by their length: the same    *)
(* arithmetic at every grain, never an average of indices.                 *)
UnitsAddUpToTotals ==
    LET body == Body("ALERT") IN
    \A date \in Days, vector \in Hazards :
        LET units  == body[date][vector].units
            totals == body[date][vector].totals
            over(f(_)) == SumOf([i \in DOMAIN units |-> f(units[i])])
            weight(u) == IF u.risk_index = NoShare THEN 0 ELSE u.risk_index * u.km_total
        IN  /\ over(LAMBDA u : u.n_tratte) = totals.n_tratte
            /\ Magnitude(over(LAMBDA u : u.km_alert) - totals.km_alert) <= 5 * (Len(units) + 1)
            /\ Magnitude(over(LAMBDA u : u.km_total) - totals.km_total) <= 5 * (Len(units) + 1)
            /\ Magnitude(over(weight) - weight(totals)) <= totals.km_total + 5000 * (Len(units) + 1)

(* REQ-0032, REQ-0046: the report of a rule shows kilometres at its        *)
(* threshold for a hazard, on some day, exactly when the rule triggers on  *)
(* that hazard, unless all that triggered it are stretches of less than    *)
(* five metres.                                                            *)
ReportAgreesWithTriggers ==
    \A threshold \in Thresholds :
        LET rule  == [risk_types |-> Hazards, threshold |-> threshold]
            body  == Body(threshold)
            shown == {v \in Hazards : \E date \in Days :
                        KmAtOrAbove(body[date][v].totals, threshold) > 0}
            at(v) == {row \in Range(table) : row.risk_vector = v /\ KmAtOrAbove(row, threshold) > 0}
        IN  /\ shown \subseteq TriggeredVectors(Range(table), rule)
            /\ \A v \in TriggeredVectors(Range(table), rule) \ shown :
                 at(v) # {} /\ \A row \in at(v) : ~Visible(row, threshold)

(* REQ-0046 as written: "the lines with kilometres at or above the         *)
(* threshold" are listed, unless fifteen others are.                       *)
LinesAtThresholdAreListed ==
    \A threshold \in Thresholds : LET body == Body(threshold) IN
        \A row \in {r \in Range(table) : KmAtOrAbove(r, threshold) > 0} :
            LET lines == body[row.date][row.risk_vector].top_lines
            IN  Len(lines) = TopN \/ \E line \in Range(lines) : line.key = row.line_name
=============================================================================
