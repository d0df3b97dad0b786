--------------------------- MODULE ReportDelivery ---------------------------
(***************************************************************************)
(* What a delivery of a pipeline run promises to the inboxes, whatever     *)
(* fails on the way:                                                       *)
(*   - it takes up the networks of the run one after the other, each at    *)
(*     most once;                                                          *)
(*   - it tells an inbox about the network it has taken up and no other,   *)
(*     and of each network at most once;                                   *)
(*   - it may give up a network, or the run, at any moment.                *)
(* AlertDispatch implements it.                                            *)
(***************************************************************************)
EXTENDS Sequences

CONSTANTS
    Handlers,   \* deliveries that may be under way at once
    Places,     \* the networks
    Nowhere     \* no network

VARIABLES
    stage,      \* of each handler: idle, listing its networks, or working
    open,       \* the networks it has not taken up yet
    current,    \* the one it has
    told        \* the <<network, inbox>> it has told, in order

vars == <<stage, open, current, told>>

Init ==
    /\ stage = [h \in Handlers |-> "idle"]
    /\ open = [h \in Handlers |-> {}]
    /\ current = [h \in Handlers |-> Nowhere]
    /\ told = [h \in Handlers |-> <<>>]

(* A run of one network, or of those that a list will name.                *)
Begin(h) ==
    /\ stage[h] = "idle"
    /\ \/ \E n \in Places : /\ stage' = [stage EXCEPT ![h] = "working"]
                            /\ open' = [open EXCEPT ![h] = {n}]
       \/ /\ stage' = [stage EXCEPT ![h] = "listing"]
          /\ UNCHANGED open
    /\ told' = [told EXCEPT ![h] = <<>>]
    /\ UNCHANGED current

(* A message that is no run to report on.                                  *)
TurnAway(h) ==
    /\ stage[h] = "idle"
    /\ told' = [told EXCEPT ![h] = <<>>]
    /\ UNCHANGED <<stage, open, current>>

List(h) ==
    /\ stage[h] = "listing"
    /\ stage' = [stage EXCEPT ![h] = "working"]
    /\ \E networks \in SUBSET Places : open' = [open EXCEPT ![h] = networks]
    /\ UNCHANGED <<current, told>>

(* A network is taken up, or passed over.                                  *)
TakeUp(h) ==
    /\ stage[h] = "working"
    /\ current[h] = Nowhere
    /\ \E n \in open[h] :
         /\ open' = [open EXCEPT ![h] = @ \ {n}]
         /\ \E m \in {n, Nowhere} : current' = [current EXCEPT ![h] = m]
    /\ UNCHANGED <<stage, told>>

Inboxes(log) == {log[k][2] : k \in DOMAIN log}

Tell(h) ==
    /\ current[h] # Nowhere
    /\ \E inbox \in Inboxes(told'[h]) :
         /\ \A k \in DOMAIN told[h] : told[h][k] # <<current[h], inbox>>
         /\ told' = [told EXCEPT ![h] = Append(@, <<current[h], inbox>>)]
    /\ UNCHANGED <<stage, open, current>>

PutDown(h) ==
    /\ current' = [current EXCEPT ![h] = Nowhere]
    /\ UNCHANGED <<stage, open, told>>

End(h) ==
    /\ stage' = [stage EXCEPT ![h] = "idle"]
    /\ open' = [open EXCEPT ![h] = {}]
    /\ current' = [current EXCEPT ![h] = Nowhere]
    /\ UNCHANGED told

Crash ==
    /\ stage' = [h \in Handlers |-> "idle"]
    /\ open' = [h \in Handlers |-> {}]
    /\ current' = [h \in Handlers |-> Nowhere]
    /\ UNCHANGED told

Next ==
    \/ \E h \in Handlers : \/ Begin(h) \/ TurnAway(h) \/ List(h)
                           \/ TakeUp(h) \/ Tell(h) \/ PutDown(h) \/ End(h)
    \/ Crash

Spec == Init /\ [][Next]_vars

-----------------------------------------------------------------------------

(* REQ-0031: a run tells an inbox of a network at most once.               *)
AtMostOnce ==
    \A h \in Handlers : \A k, l \in DOMAIN told[h] : k # l => told[h][k] # told[h][l]
=============================================================================
