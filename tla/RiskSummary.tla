----------------------------- MODULE RiskSummary -----------------------------
(***************************************************************************)
(* services/risk_summary.py: what triggers, and the body of a report.      *)
(*                                                                         *)
(* A row is one tratta of the Digital Twin for a date and a hazard. Its    *)
(* kilometres are counted in metres, a report shows them to ten metres;    *)
(* percentages and the index are in tenths. Units and lines are naturals   *)
(* in the order of their names, 0 the missing name, which the code reads   *)
(* as ''. The projection of a summary onto the fields of the payload is    *)
(* left out.                                                               *)
(***************************************************************************)
EXTENDS GridModels, Lists

(* An unknown threshold is the strict floor.                               *)
KmAtOrAbove(row, threshold) ==
    row.km_alert + (IF threshold = "WARNING" THEN row.km_warning ELSE 0)

WatchedVectors(rows, rule) ==                   \* mutant: all that a triggered rule watches
    IF rule.risk_types # Null /\ \E row \in rows : row.risk_vector \in rule.risk_types
                                               /\ KmAtOrAbove(row, rule.threshold) > 0
    THEN rule.risk_types ELSE {}

TriggeredVectors(rows, rule) ==
    {v \in (IF rule.risk_types = Null THEN {} ELSE rule.risk_types) :
        \E row \in rows : row.risk_vector = v /\ KmAtOrAbove(row, rule.threshold) > 0}

-----------------------------------------------------------------------------

LevelRank == [NORMAL |-> 0, WARNING |-> 1, ALERT |-> 2]

(* round() to the nearest. Python takes a tie to the even neighbour of a   *)
(* number that is binary anyhow; here it goes up.                          *)
Nearest(n, d) == (2 * n + d) \div (2 * d)

RoundKm(metres) == 10 * Nearest(metres, 10)

(* None, which sorts as -1.                                                *)
NoShare == -1

Share(part, total) == IF total = 0 THEN NoShare ELSE Nearest(1000 * part, total)

KmOf(group, level) == SumOf([i \in DOMAIN group |-> group[i][level]])

(* An ALERT counts in full, a WARNING for a half.                          *)
IndexOfSums(group) ==
    IF KmOf(group, "km_total") = 0 THEN NoShare
    ELSE Nearest(500 * (2 * KmOf(group, "km_alert") + KmOf(group, "km_warning")),
                 KmOf(group, "km_total"))

IndexOfMean(group) ==                           \* mutant: the mean of the rows' indices
    Nearest(SumOf([i \in DOMAIN group |-> IndexOfSums(<<group[i]>>)]), Len(group))

RiskIndex(group) == IndexOfSums(group)

Keys(rows, key) == {row[key] : row \in Range(rows)}

Group(rows, key, k) == Those(rows, {row \in Range(rows) : row[key] = k})

Line(k, group) ==
    [key |-> k, risk_index |-> RiskIndex(group),
     km_alert |-> KmOf(group, "km_alert"), km_warning |-> KmOf(group, "km_warning")]

(* The lines of a unit, worst first, before any rounding of kilometres.    *)
SummariseLinesWithin(rows) ==
    LET lines == {Line(k, Group(rows, "line_name", k)) : k \in Keys(rows, "line_name")}
        worse(a, b) ==
            \/ a.risk_index > b.risk_index
            \/ a.risk_index = b.risk_index /\ a.km_alert > b.km_alert
            \/ a.risk_index = b.risk_index /\ a.km_alert = b.km_alert /\ a.key < b.key
    IN  InOrder(lines, {pair \in lines \X lines : worse(pair[1], pair[2])})

WorstLines(group) ==
    {line.key : line \in {l \in Range(First(SummariseLinesWithin(group), 3)) :
                             KmAtOrAbove(l, "WARNING") > 0}}

Summary(k, group, key) ==
    [key |-> k, n_tratte |-> Len(group),
     km_total   |-> RoundKm(KmOf(group, "km_total")),
     km_alert   |-> RoundKm(KmOf(group, "km_alert")),
     km_warning |-> RoundKm(KmOf(group, "km_warning")),
     pct_alert   |-> Share(KmOf(group, "km_alert"), KmOf(group, "km_total")),
     pct_warning |-> Share(KmOf(group, "km_warning"), KmOf(group, "km_total")),
     risk_index  |-> RiskIndex(group),
     worst_level |-> CHOOSE lvl \in Keys(group, "worst_level") :
                       \A other \in Keys(group, "worst_level") : LevelRank[lvl] >= LevelRank[other],
     operational_units |-> Keys(group, "operational_unit") \ {0},
     worst_lines |-> IF key = "line_name" THEN {} ELSE WorstLines(group)]

Worse(a, b) == a.risk_index > b.risk_index \/ (a.risk_index = b.risk_index /\ a.key < b.key)

Summaries(rows, key) == {Summary(k, Group(rows, key, k), key) : k \in Keys(rows, key)}

(* Their keys all differ, so this is a total order.                        *)
Summarise(rows, key) ==
    LET out == Summaries(rows, key)
    IN  InOrder(out, {pair \in out \X out : Worse(pair[1], pair[2])})

(* What the whole network adds up to, or zeros.                            *)
Totals(rows) ==
    IF rows # <<>> THEN Summary(0, rows, "_all")
    ELSE [key |-> 0, n_tratte |-> 0, km_total |-> 0, km_alert |-> 0, km_warning |-> 0,
          pct_alert |-> NoShare, pct_warning |-> NoShare, risk_index |-> NoShare,
          worst_level |-> "NORMAL", operational_units |-> {}, worst_lines |-> {}]

Listed(lines, threshold) ==
    Those(lines, {line \in Range(lines) : KmAtOrAbove(line, threshold) > 0})

TopLinesCutFirst(rows, threshold, top_n) ==     \* mutant: cut before the floor is applied
    Listed(First(Summarise(rows, "line_name"), top_n), threshold)

(* The floor looks at the kilometres of the summary, which are rounded.    *)
TopLines(rows, threshold, top_n) ==
    First(Listed(Summarise(rows, "line_name"), threshold), top_n)

Subset(rows, date, vector) ==
    Those(rows, {row \in Range(rows) : row.date = date /\ row.risk_vector = vector})

Day(subset, threshold, top_n) ==
    [units     |-> Summarise(subset, "operational_unit"),
     top_lines |-> TopLines(subset, threshold, top_n),
     totals    |-> Totals(subset)]

(* The report body, by date and hazard.                                    *)
BuildDays(rows, dates, vectors, threshold, top_n) ==
    [date \in dates |-> [vector \in vectors |->
        Day(Subset(rows, date, vector), threshold, top_n)]]
=============================================================================
