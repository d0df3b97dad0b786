--------------------------- MODULE MCAlertDispatch ---------------------------
(***************************************************************************)
(* Two operators, two networks, and rules that meet in one inbox although  *)
(* it is spelled in two ways. The exposure of a network is nothing but a   *)
(* wind alert, or a wind warning with a heat alert.                        *)
(***************************************************************************)
EXTENDS AlertDispatch

CONSTANTS ada, ben, north, south, i1, i2, i3, h1, h2

Word(a, k) == [address |-> a, spelling |-> k]
Lower == <<Word("a@x", 1)>>
Upper == <<Word(Null, 0), Word("a@x", 2)>>

AllTexts == {Lower, Upper}

Run(namespace, timestamp) ==
    [parses |-> TRUE, status |-> "completed", flow |-> "grid",
     namespace |-> namespace, timestamp |-> timestamp]

ThePipelineRun == {Run(PipelineNamespace, "readable")}

(* Runs of every kind, and each reason for which a message is not one.     *)
AllEvents ==
    {Run(n, t) : n \in {PipelineNamespace, north, Unattributed},
                 t \in {"readable", "unreadable", "impossible"}}
    \cup {[Run(north, "readable") EXCEPT !.parses = FALSE],
          [Run(north, "readable") EXCEPT !.status = "failed"],
          [Run(north, "readable") EXCEPT !.flow = "other"]}

DatedEvents == {e \in AllEvents : e.timestamp # "impossible"}

Row(v, a, w) == [risk_vector |-> v, km_alert |-> a, km_warning |-> w]

OneExposure  == {{Row("wind", 1, 0)}}
TwoExposures == {{Row("wind", 1, 0)}, {Row("wind", 0, 1), Row("heat", 1, 0), Row("heat", 0, 0)}}

Rule(u, n, hazards, threshold, text, active) ==
    [user_id |-> u, network_id |-> n, risk_types |-> hazards, threshold |-> threshold,
     recipients |-> text, active |-> active]

(* Ada watches the wind of north with an inbox of her own and of the       *)
(* settings, Ben watches all of north and the wind of south.               *)
SomeRules ==
    {Rule(ada, north, {"wind"}, "ALERT", Lower, TRUE),
     Rule(ada, north, {"wind"}, "ALERT", Null, FALSE),
     Rule(ben, north, {"wind", "heat"}, "WARNING", Upper, TRUE),
     Rule(ben, south, {"wind"}, "ALERT", Null, TRUE)}

EditedRules ==
    {Rule(ada, north, {"wind"}, "ALERT", Lower, TRUE),
     Rule(ada, north, {"wind"}, "ALERT", Null, TRUE),
     Rule(ada, north, {"wind"}, "ALERT", Lower, FALSE),
     Rule(ben, south, {"wind"}, "ALERT", Null, TRUE)}

AnyRules == SomeRules \cup EditedRules

LegacyRules ==
    {Rule(ada, Unattributed, {"wind"}, "ALERT", Lower, TRUE),
     Rule(ben, north, {"wind"}, "ALERT", Upper, TRUE),
     Rule(ada, north, Null, "ALERT", Lower, TRUE)}

SomeSettings == {Null, Upper}
=============================================================================
