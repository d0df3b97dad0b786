----------------------- MODULE MCAlertDispatchHistory -----------------------
(***************************************************************************)
(* The instances of MCAlertDispatch, with the history variables. A run is  *)
(* looked at in two scenes: up to three rules that meet in one inbox, and  *)
(* up to two rules that are edited under its feet. In the first the key i3 *)
(* is taken from the start; in the second it is never filed.               *)
(***************************************************************************)
EXTENDS AlertDispatchHistory, MCAlertDispatch

Tables(versions) == [RuleIds -> versions \cup {NoRow}]

Meeting == i3 \in issued

SceneInit ==
    /\ HInit
    /\ rules \in Tables(IF Meeting THEN SomeRules ELSE EditedRules)

SceneNext ==
    /\ HNext
    /\ edits' # edits => ~Meeting' /\ rules' \in Tables(EditedRules)

SceneSpec == SceneInit /\ [][SceneNext]_hvars
=============================================================================
