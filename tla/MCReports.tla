------------------------------ MODULE MCReports ------------------------------
(***************************************************************************)
(* Reports, over all the inputs of a bound.                                *)
(*                                                                         *)
(* The recipients: every field of up to MaxWords words, over two addresses *)
(* that are spelled in two ways each and a word that is no address, and    *)
(* every field it may be retyped as.                                       *)
(*                                                                         *)
(* The body: every table of up to MaxRows rows, for one horizon and both   *)
(* thresholds.                                                             *)
(***************************************************************************)
EXTENDS Reports

CONSTANT MaxWords   \* words of a recipients field

SomeWords == [address : {"a@x", "b@x"}, spelling : {1, 2}] \cup {[address |-> Null, spelling |-> 0]}

SomeFields == UNION {[1 .. n -> SomeWords] : n \in 0 .. MaxWords}

Row(date, v, unit, line, total, alert, warning) ==
    [date |-> date, risk_vector |-> v, operational_unit |-> unit, line_name |-> line,
     km_total |-> total, km_alert |-> alert, km_warning |-> warning,
     worst_level |-> IF alert > 0 THEN "ALERT" ELSE IF warning > 0 THEN "WARNING" ELSE "NORMAL"]

(* Three lines, one of them across two units, one without a unit; long and *)
(* short stretches, so that means and sums of indices differ; another      *)
(* hazard, another day, a tratta of no length, one of a few metres.        *)
SomeRows ==
    {Row(1, "wind", 1, 1, 1000, 200, 0), Row(1, "wind", 1, 2, 1000, 0, 1000),
     Row(1, "wind", 2, 2, 120, 120, 0),  Row(1, "wind", 2, 3, 3000, 0, 0),
     Row(1, "wind", 0, 3, 600, 16, 300), Row(1, "wind", 2, 1, 0, 0, 0),
     Row(1, "heat", 1, 1, 1000, 0, 400), Row(2, "wind", 1, 1, 1000, 0, 400),
     Row(2, "wind", 2, 3, 400, 4, 0)}

TwoDays == 1 .. 2
=============================================================================
