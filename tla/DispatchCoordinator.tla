------------------------ MODULE DispatchCoordinator ------------------------
(***************************************************************************)
(* The dispatch coordinator: what one delivered event goes through         *)
(* (handle_event and dispatch_event of ori/reasoning/                      *)
(* dispatch_coordinator.py), with the claim window, the in-flight hold of  *)
(* a trigger and the cooldown it is charged.                               *)
(*                                                                         *)
(* A dispatch is suspended while it discovers matches (conditions, hooks   *)
(* and history are awaited), while its Tier D acts run and until the       *)
(* reasoning tasks it scheduled have settled; what lies between is one     *)
(* step.  Which triggers match, how an act or a task ends, whether a skill *)
(* was removed meanwhile and when a cooldown has passed are inputs.  Every *)
(* trigger has a cooldown: one without is never held and repeats freely.   *)
(***************************************************************************)
EXTENDS Naturals, Sequences, FiniteSets, SequencesExt

CONSTANTS
  Deliveries,  \* calls of handle_event
  Events,      \* event identifiers
  Arrivals,    \* which event each delivery may carry: some of [Deliveries -> Events]
  TierD,       \* triggers whose plan grants Tier D
  Others,      \* the other triggers
  Window       \* _CLAIM_WINDOW

ASSUME ArrivalsAssumption == Arrivals \subseteq [Deliveries -> Events]
ASSUME TriggersAssumption == TierD \cap Others = {}
ASSUME WindowAssumption == Window \in Nat \ {0}

Triggers == TierD \cup Others

VARIABLES
  event,      \* the event each delivery carries
  claimed,    \* _claimed, oldest first
  claims,     \* every claim ever made, in order
  phase,      \* where the dispatch of a delivery is
  found,      \* matches not yet held
  plans,      \* the plans that were kept
  holds,      \* of those, the ones with holds_in_flight
  held,       \* of those, the ones with remainder_held
  trips,      \* Tier D acts under way
  tripped,    \* Tier D acts that have ended
  running,    \* scheduled reasoning tasks that have not settled
  inFlight,   \* _in_flight
  cooling     \* triggers inside their cooldown

discovery == <<event, claimed, claims>>
vars == <<event, claimed, claims, phase, found, plans, holds, held, trips, tripped,
          running, inFlight, cooling>>

Init ==
  /\ event \in Arrivals
  /\ claimed = <<>>
  /\ claims = <<>>
  /\ phase = [d \in Deliveries |-> "idle"]
  /\ found = [d \in Deliveries |-> {}]
  /\ plans = [d \in Deliveries |-> {}]
  /\ holds = [d \in Deliveries |-> {}]
  /\ held = [d \in Deliveries |-> {}]
  /\ trips = [d \in Deliveries |-> {}]
  /\ tripped = [d \in Deliveries |-> {}]
  /\ running = [d \in Deliveries |-> {}]
  /\ inFlight = {}
  /\ cooling = {}

-----------------------------------------------------------------------------
(* The claim *)

\* Mutant: the newest claim is the one forgotten.
RememberOldest(seq, e) == IF Len(seq) < Window THEN Append(seq, e) ELSE seq

\* The oldest claims are forgotten beyond the window.
Remember(seq, e) ==
  LET all == Append(seq, e)
  IN IF Len(all) > Window THEN Tail(all) ELSE all

\* The first handler of an event claims it and schedules its dispatch.
HandleEvent(d) ==
  /\ phase[d] = "idle"
  /\ IF event[d] \in Range(claimed)
     THEN /\ phase' = [phase EXCEPT ![d] = "dropped"]
          /\ UNCHANGED <<claimed, claims>>
     ELSE /\ phase' = [phase EXCEPT ![d] = "discovering_tier_d"]
          /\ claimed' = Remember(claimed, event[d])
          /\ claims' = Append(claims, event[d])
  /\ UNCHANGED <<event, found, plans, holds, held, trips, tripped, running, inFlight,
                 cooling>>

-----------------------------------------------------------------------------
(* The in-flight hold *)

\* Mutant: the cooldown read in discovery is not read again.
WaitingForPlan(t) == t \in inFlight

\* A trigger whose plan is in flight, or whose cooldown was charged meanwhile.
Waiting(t) == t \in inFlight \/ t \in cooling

\* Mutant: a waiting trigger is dropped whatever it grants.
KeptIfFree(S) == {t \in S : ~Waiting(t)}

\* A plan that grants Tier D is kept even then, with its other actions held.
Kept(S) == {t \in S : ~Waiting(t) \/ t \in TierD}

HoldInFlight(d, S) ==
  LET free == {t \in S : ~Waiting(t)}
  IN /\ plans' = [plans EXCEPT ![d] = @ \cup Kept(S)]
     /\ held' = [held EXCEPT ![d] = @ \cup (Kept(S) \ free)]
     /\ holds' = [holds EXCEPT ![d] = @ \cup free]
     /\ inFlight' = inFlight \cup free

-----------------------------------------------------------------------------
(* Discovery, Tier D, and the rest *)

\* Tier D matches are read from the reading alone, whatever is cooling, and
\* attempted at once and together.
DiscoverTierD(d, S) ==
  /\ phase[d] = "discovering_tier_d"
  /\ S \subseteq TierD
  /\ found' = [found EXCEPT ![d] = S]
  /\ HoldInFlight(d, S)
  /\ trips' = [trips EXCEPT ![d] = Kept(S)]
  /\ phase' = [phase EXCEPT ![d] = IF S = {} THEN "discovering_rest" ELSE "tripping"]
  /\ UNCHANGED <<discovery, tripped, running, cooling>>

TripEnds(d, t) ==
  /\ t \in trips[d]
  /\ trips' = [trips EXCEPT ![d] = @ \ {t}]
  /\ tripped' = [tripped EXCEPT ![d] = @ \cup {t}]
  /\ UNCHANGED <<discovery, phase, found, plans, holds, held, running, inFlight, cooling>>

\* The incident's own notices are scheduled, except for a plan whose remainder
\* waits or whose skill is gone, and given a bounded head start.
ScheduleTierD(d, gone) ==
  /\ phase[d] = "tripping"
  /\ trips[d] = {}
  /\ gone \subseteq plans[d]
  /\ running' = [running EXCEPT ![d] = plans[d] \ (held[d] \cup gone)]
  /\ phase' = [phase EXCEPT ![d] = "discovering_rest"]
  /\ UNCHANGED <<discovery, found, plans, holds, held, trips, tripped, inFlight, cooling>>

\* The other triggers are matched, none inside its cooldown when it is read.
DiscoverRest(d, S) ==
  /\ phase[d] = "discovering_rest"
  /\ S \subseteq Others \ cooling
  /\ found' = [found EXCEPT ![d] = @ \cup S]
  /\ phase' = [phase EXCEPT ![d] = IF S = {} /\ plans[d] = {} THEN "done" ELSE "discovered"]
  /\ UNCHANGED <<discovery, plans, holds, held, trips, tripped, running, inFlight, cooling>>

\* The trigger of a plan is let go: only by the plan that holds it.
Release(d, S) ==
  /\ holds' = [holds EXCEPT ![d] = @ \ S]
  /\ inFlight' = inFlight \ (holds[d] \cap S)

\* They are held and scheduled with no await in between, and a plan that
\* scheduled nothing is charged nothing and lets its trigger go.
ScheduleRest(d, gone) ==
  LET free == {t \in found[d] \cap Others : ~Waiting(t)}
      scheduled == free \ gone
      unscheduled == (plans[d] \cup free) \ (running[d] \cup scheduled)
  IN /\ phase[d] = "discovered"
     /\ gone \subseteq free
     /\ plans' = [plans EXCEPT ![d] = @ \cup free]
     /\ running' = [running EXCEPT ![d] = @ \cup scheduled]
     /\ holds' = [holds EXCEPT ![d] = (@ \cup free) \ unscheduled]
     /\ inFlight' = (inFlight \cup free) \ ((holds[d] \cup free) \cap unscheduled)
     /\ phase' = [phase EXCEPT ![d] = "settling"]
     /\ UNCHANGED <<discovery, found, held, trips, tripped, cooling>>

\* A reasoning task settles: its plan is charged if it acted or asked, not if
\* it was refused, and its trigger is let go.
RemainderEnds(d, t, consumes) ==
  /\ t \in running[d]
  /\ running' = [running EXCEPT ![d] = @ \ {t}]
  /\ cooling' = IF consumes THEN cooling \cup {t} ELSE cooling
  /\ Release(d, {t})
  /\ UNCHANGED <<discovery, phase, found, plans, held, trips, tripped>>

\* Everything scheduled has settled: the event's scope is closed.
EventSettled(d) ==
  /\ phase[d] = "settling"
  /\ running[d] = {}
  /\ phase' = [phase EXCEPT ![d] = "done"]
  /\ Release(d, plans[d])
  /\ UNCHANGED <<discovery, found, plans, held, trips, tripped, running, cooling>>

\* The clock passes the end of a trigger's window.
CooldownEnds(t) ==
  /\ t \in cooling
  /\ cooling' = cooling \ {t}
  /\ UNCHANGED <<discovery, phase, found, plans, holds, held, trips, tripped, running,
                 inFlight>>

-----------------------------------------------------------------------------

Dispatch(d) ==
  \/ \E S \in SUBSET TierD : DiscoverTierD(d, S)
  \/ \E gone \in SUBSET TierD : ScheduleTierD(d, gone)
  \/ \E S \in SUBSET Others : DiscoverRest(d, S)
  \/ \E gone \in SUBSET Others : ScheduleRest(d, gone)
  \/ EventSettled(d)

Next ==
  \/ \E d \in Deliveries :
       \/ HandleEvent(d)
       \/ Dispatch(d)
       \/ \E t \in TierD : TripEnds(d, t)
       \/ \E t \in Triggers, consumes \in BOOLEAN : RemainderEnds(d, t, consumes)
  \/ \E t \in Triggers : CooldownEnds(t)

Spec == Init /\ [][Next]_vars

\* The loop runs a scheduled dispatch; an act and a reasoning task end, since
\* what they wait for, executors, models and operators, is bounded in time.
Fairness ==
  \A d \in Deliveries :
    /\ WF_vars(Dispatch(d))
    /\ \A t \in TierD : WF_vars(TripEnds(d, t))
    /\ \A t \in Triggers : WF_vars(\E consumes \in BOOLEAN : RemainderEnds(d, t, consumes))

FairSpec == Spec /\ Fairness

-----------------------------------------------------------------------------
(* Properties *)

TypeOK ==
  /\ event \in Arrivals
  /\ claimed \in Seq(Events)
  /\ claims \in Seq(Events)
  /\ phase \in [Deliveries -> {"idle", "dropped", "discovering_tier_d", "tripping",
                               "discovering_rest", "discovered", "settling", "done"}]
  /\ found \in [Deliveries -> SUBSET Triggers]
  /\ plans \in [Deliveries -> SUBSET Triggers]
  /\ holds \in [Deliveries -> SUBSET Triggers]
  /\ held \in [Deliveries -> SUBSET Triggers]
  /\ trips \in [Deliveries -> SUBSET TierD]
  /\ tripped \in [Deliveries -> SUBSET TierD]
  /\ running \in [Deliveries -> SUBSET Triggers]
  /\ inFlight \subseteq Triggers
  /\ cooling \subseteq Triggers

\* A reasoning task of trigger t that was not running before this step.
Started(t) == \E d \in Deliveries : t \in running'[d] \ running[d]

\* One dispatch of a trigger per window: its reasoning starts only when none is
\* under way and its cooldown is not being sat out, however many events matched
\* it while discovery awaited or while Tier D acts ran (_hold_in_flight).
OneTurnPerWindow ==
  [][\A t \in Triggers : Started(t) =>
       /\ t \notin cooling
       /\ \A d \in Deliveries : t \notin running[d]
       /\ Cardinality({d \in Deliveries : t \in running'[d]}) = 1]_vars

\* An event is evaluated again only after a whole window of other events was
\* claimed in between (_claim).
ReclaimedOnlyPastWindow ==
  \A i, j \in 1..Len(claims) :
    (i < j /\ claims[i] = claims[j])
      => Cardinality({claims[k] : k \in (i + 1)..(j - 1)}) >= Window

\* A claimed event settles: each of its Tier D matches was attempted, even of a
\* trigger in flight or cooling, and no trigger stays held for it
\* (dispatch_event, _hold_in_flight, _release).
EventSettles ==
  \A d \in Deliveries :
    (phase[d] = "discovering_tier_d")
      ~> (phase[d] = "done" /\ found[d] \cap TierD = tripped[d] /\ holds[d] = {})
=============================================================================
