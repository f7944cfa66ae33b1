--------------------------- MODULE MCResourceGate ---------------------------
(* ResourceGate for TLC: a relay zone, whose outcomes the action registry   *)
(* floors at Tier C and a safety condition may license at Tier D, and a     *)
(* constrained-device (CoAP) or host resource, whose commands have no       *)
(* opposite and run at Tier B or C.                                         *)
EXTENDS ResourceGate

RelayKinds ==
  [outcome : {"open", "close"}, tier : {TierC}, approval : {TRUE}]
    \cup [outcome : {"open", "close"}, tier : {TierD}, approval : {FALSE}]

CommandKinds ==
  [outcome : {"put", "post"}, tier : {2}, approval : BOOLEAN]
    \cup [outcome : {"put"}, tier : {TierC}, approval : {TRUE}]

AllKinds == RelayKinds \cup CommandKinds

\* Dispatches and events are interchangeable: of the plans that differ only by
\* a renaming of them, those are kept that are sorted by kind and then event,
\* and where the first dispatch with an event has the first event.
Rank(k, e) == 100 * k.tier + (IF k.approval THEN 40 ELSE 0)
                + 10 * (CASE k.outcome = "open" -> 0 [] k.outcome = "close" -> 1
                          [] k.outcome = "put" -> 2 [] k.outcome = "post" -> 3)
                + e

PlansOver(kinds, events) ==
  {plan \in [kind : [Dispatches -> kinds], event : [Dispatches -> events \cup {NoEvent}]] :
     /\ \A d \in Dispatches : plan.kind[d].tier = TierD => plan.event[d] # NoEvent
     /\ \A c, d \in Dispatches :
          c < d => Rank(plan.kind[c], plan.event[c]) <= Rank(plan.kind[d], plan.event[d])
     /\ \A d \in Dispatches :
          plan.event[d] = 2 => \E c \in Dispatches : c < d /\ plan.event[c] = 1}

RelayPlans == PlansOver(RelayKinds, Events)
AllPlans   == RelayPlans \cup PlansOver(CommandKinds, {1})
=============================================================================
