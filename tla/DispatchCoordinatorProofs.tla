---------------------- MODULE DispatchCoordinatorProofs ----------------------
(***************************************************************************)
(* Proofs about DispatchCoordinator, for any deliveries, events and        *)
(* triggers and for every size of the claim window.                        *)
(***************************************************************************)
EXTENDS DispatchCoordinator, FiniteSetTheorems, SequenceTheorems, TLAPS

-----------------------------------------------------------------------------
(* The inductive invariant *)

\* The claim window is the tail of all the claims ever made.
WindowIsTail ==
  /\ Len(claimed) <= Window
  /\ Len(claimed) <= Len(claims)
  /\ Len(claimed) = Window \/ Len(claimed) = Len(claims)
  /\ \A i \in 1..Len(claimed) : claimed[i] = claims[Len(claims) - Len(claimed) + i]

\* It names no event twice.
WindowDistinct ==
  \A i, j \in 1..Len(claimed) : claimed[i] = claimed[j] => i = j

ClaimInv == WindowIsTail /\ WindowDistinct

\* A trigger in flight is held by one dispatch.
OneHolder ==
  /\ \A d \in Deliveries : holds[d] \subseteq inFlight
  /\ \A d, e \in Deliveries : holds[d] \cap holds[e] # {} => d = e

\* What reasons holds its trigger.
RunningHolds == \A d \in Deliveries : running[d] \subseteq holds[d]

\* Before its Tier D matches are known a dispatch has kept and holds nothing;
\* until its Tier D acts have ended nothing of it reasons.
NothingYet ==
  \A d \in Deliveries :
    /\ phase[d] \in {"idle", "discovering_tier_d"} => plans[d] = {} /\ holds[d] = {}
    /\ phase[d] \in {"idle", "discovering_tier_d", "tripping"} => running[d] = {}

\* While its Tier D acts run, the plans a dispatch may still schedule are the
\* ones it holds, and nobody else could charge their cooldown.
TrippingHolds ==
  \A d \in Deliveries : phase[d] = "tripping" =>
    /\ plans[d] \subseteq holds[d] \cup held[d]
    /\ holds[d] \cap cooling = {}

\* The Tier D matches of a dispatch are under way or have ended, all of them
\* ended once the others are looked for; it holds only what it has kept.
MatchesAttempted ==
  \A d \in Deliveries :
    /\ found[d] \cap TierD = trips[d] \cup tripped[d]
    /\ phase[d] # "tripping" => trips[d] = {}
    /\ phase[d] \in {"idle", "discovering_tier_d"} => found[d] = {}
    /\ holds[d] \subseteq plans[d]

\* What the end of a dispatch leaves behind.
Settled ==
  \A d \in Deliveries :
    phase[d] = "done" => found[d] \cap TierD = tripped[d] /\ holds[d] = {}

TurnInv == OneHolder /\ RunningHolds /\ NothingYet /\ TrippingHolds

-----------------------------------------------------------------------------
(* Helpers *)

\* What remembering an event does to the window (_claim).
LEMMA RememberFacts ==
  ASSUME NEW s \in Seq(Events), NEW e \in Events
  PROVE  /\ Remember(s, e) \in Seq(Events)
         /\ IF Len(s) < Window
            THEN /\ Len(Remember(s, e)) = Len(s) + 1
                 /\ \A i \in 1..Len(s) : Remember(s, e)[i] = s[i]
                 /\ Remember(s, e)[Len(s) + 1] = e
            ELSE /\ Len(Remember(s, e)) = Len(s)
                 /\ \A i \in 1..(Len(s) - 1) : Remember(s, e)[i] = s[i + 1]
                 /\ Len(s) > 0 => Remember(s, e)[Len(s)] = e
<1> DEFINE all == Append(s, e)
<1>1. /\ all \in Seq(Events) /\ all # <<>>
      /\ Len(all) = Len(s) + 1 /\ Len(s) \in Nat
      /\ \A i \in 1..Len(s) : all[i] = s[i]
      /\ all[Len(s) + 1] = e
  BY AppendProperties, LenProperties
<1>2. /\ Tail(all) \in Seq(Events)
      /\ Len(Tail(all)) = Len(all) - 1
      /\ \A i \in 1..Len(Tail(all)) : Tail(all)[i] = all[i + 1]
  BY <1>1, HeadTailProperties
<1>3. Remember(s, e) = IF Len(s) < Window THEN all ELSE Tail(all)
  BY <1>1, WindowAssumption DEF Remember
<1> HIDE DEF all
<1> QED BY <1>1, <1>2, <1>3, WindowAssumption

-----------------------------------------------------------------------------
(* Type correctness *)

\* One step of any kind.
LEMMA TypeStep == TypeOK /\ [Next]_vars => TypeOK'
<1> SUFFICES ASSUME TypeOK, [Next]_vars PROVE TypeOK'
  OBVIOUS
<1> USE DEF TypeOK, Triggers
<1>1. ASSUME NEW d \in Deliveries, HandleEvent(d) PROVE TypeOK'
  <2>1. event[d] \in Events
    BY ArrivalsAssumption
  <2>2. Remember(claimed, event[d]) \in Seq(Events)
    BY <2>1, RememberFacts
  <2>3. Append(claims, event[d]) \in Seq(Events)
    BY <2>1, AppendProperties
  <2> QED BY <1>1, <2>2, <2>3 DEF HandleEvent
<1>2. ASSUME NEW d \in Deliveries, NEW S \in SUBSET TierD, DiscoverTierD(d, S) PROVE TypeOK'
  BY <1>2 DEF DiscoverTierD, HoldInFlight, Kept, Waiting, discovery
<1>3. ASSUME NEW d \in Deliveries, NEW gone \in SUBSET TierD, ScheduleTierD(d, gone) PROVE TypeOK'
  BY <1>3 DEF ScheduleTierD, discovery
<1>4. ASSUME NEW d \in Deliveries, NEW S \in SUBSET Others, DiscoverRest(d, S) PROVE TypeOK'
  BY <1>4 DEF DiscoverRest, discovery
<1>5. ASSUME NEW d \in Deliveries, NEW gone \in SUBSET Others, ScheduleRest(d, gone) PROVE TypeOK'
  BY <1>5 DEF ScheduleRest, discovery, Waiting
<1>6. ASSUME NEW d \in Deliveries, EventSettled(d) PROVE TypeOK'
  BY <1>6 DEF EventSettled, Release, discovery
<1>7. ASSUME NEW d \in Deliveries, NEW t \in TierD, TripEnds(d, t) PROVE TypeOK'
  BY <1>7 DEF TripEnds, discovery
<1>8. ASSUME NEW d \in Deliveries, NEW t \in Triggers, NEW consumes \in BOOLEAN,
             RemainderEnds(d, t, consumes)
      PROVE  TypeOK'
  BY <1>8 DEF RemainderEnds, Release, discovery
<1>9. ASSUME NEW t \in Triggers, CooldownEnds(t) PROVE TypeOK'
  BY <1>9 DEF CooldownEnds, discovery
<1>10. CASE UNCHANGED vars
  BY <1>10 DEF vars
<1> QED BY <1>1, <1>2, <1>3, <1>4, <1>5, <1>6, <1>7, <1>8, <1>9, <1>10 DEF Next, Dispatch

LEMMA TypeInit == Init => TypeOK
  BY DEF Init, TypeOK, Triggers

\* Every reachable state of the coordinator is well typed.
THEOREM TypeCorrect == Spec => []TypeOK
  BY TypeInit, TypeStep, PTL DEF Spec

-----------------------------------------------------------------------------
(* The claim window *)

\* Only a claim changes what was claimed.
LEMMA ClaimsChange ==
  ASSUME TypeOK, [Next]_vars
  PROVE  \/ UNCHANGED <<claimed, claims>>
         \/ \E e \in Events : /\ e \notin Range(claimed)
                             /\ claimed' = Remember(claimed, e)
                             /\ claims' = Append(claims, e)
<1>1. ASSUME NEW d \in Deliveries, HandleEvent(d), ~UNCHANGED <<claimed, claims>>
      PROVE  \E e \in Events : /\ e \notin Range(claimed)
                              /\ claimed' = Remember(claimed, e)
                              /\ claims' = Append(claims, e)
  <2>1. event[d] \in Events
    BY ArrivalsAssumption DEF TypeOK
  <2> QED BY <1>1, <2>1 DEF HandleEvent
<1>2. ASSUME NEW d \in Deliveries, Dispatch(d) PROVE UNCHANGED <<claimed, claims>>
  BY <1>2 DEF Dispatch, DiscoverTierD, ScheduleTierD, DiscoverRest, ScheduleRest,
              EventSettled, discovery
<1>3. ASSUME NEW d \in Deliveries, NEW t, TripEnds(d, t) PROVE UNCHANGED <<claimed, claims>>
  BY <1>3 DEF TripEnds, discovery
<1>4. ASSUME NEW d \in Deliveries, NEW t, NEW consumes, RemainderEnds(d, t, consumes)
      PROVE  UNCHANGED <<claimed, claims>>
  BY <1>4 DEF RemainderEnds, discovery
<1>5. ASSUME NEW t, CooldownEnds(t) PROVE UNCHANGED <<claimed, claims>>
  BY <1>5 DEF CooldownEnds, discovery
<1>6. CASE UNCHANGED vars
  BY <1>6 DEF vars
<1> QED BY <1>1, <1>2, <1>3, <1>4, <1>5, <1>6 DEF Next

\* The window stays the tail of the claims, each event in it once.
LEMMA WindowStep ==
  ASSUME NEW e \in Events, e \notin Range(claimed), TypeOK, ClaimInv,
         claimed' = Remember(claimed, e), claims' = Append(claims, e)
  PROVE  ClaimInv'
<1>1. /\ claimed \in Seq(Events) /\ claims \in Seq(Events)
      /\ Len(claimed) \in Nat /\ Len(claims) \in Nat
  BY LenProperties DEF TypeOK
<1>2. /\ Len(claims') = Len(claims) + 1
      /\ \A i \in 1..Len(claims) : claims'[i] = claims[i]
      /\ claims'[Len(claims) + 1] = e
  BY <1>1, AppendProperties
<1>3. \A i \in 1..Len(claimed) : claimed[i] # e
  BY <1>1, LenProperties DEF Range
<1>4. CASE Len(claimed) < Window
  <2>1. /\ Len(claimed') = Len(claimed) + 1
        /\ \A i \in 1..Len(claimed) : claimed'[i] = claimed[i]
        /\ claimed'[Len(claimed) + 1] = e
    BY <1>1, <1>4, RememberFacts
  <2>2. WindowIsTail'
    BY <1>1, <1>2, <1>4, <2>1, WindowAssumption DEF ClaimInv, WindowIsTail
  <2>3. ASSUME NEW i \in 1..Len(claimed'), NEW j \in 1..Len(claimed'),
               claimed'[i] = claimed'[j]
        PROVE  i = j
    <3>1. \A k \in 1..Len(claimed') : k \in 1..Len(claimed) \/ k = Len(claimed) + 1
      BY <1>1, <2>1
    <3> QED BY <1>1, <1>3, <2>1, <2>3, <3>1 DEF ClaimInv, WindowDistinct
  <2> QED BY <2>2, <2>3 DEF ClaimInv, WindowDistinct
<1>5. CASE ~(Len(claimed) < Window)
  <2>0. Len(claimed) = Window /\ Len(claimed) > 0
    BY <1>1, <1>5, WindowAssumption DEF ClaimInv, WindowIsTail
  <2>1. /\ Len(claimed') = Len(claimed)
        /\ \A i \in 1..(Len(claimed) - 1) : claimed'[i] = claimed[i + 1]
        /\ claimed'[Len(claimed)] = e
    BY <1>1, <1>5, <2>0, RememberFacts
  <2>2. WindowIsTail'
    <3>1. ASSUME NEW i \in 1..Len(claimed')
          PROVE  claimed'[i] = claims'[Len(claims') - Len(claimed') + i]
      <4>1. CASE i = Len(claimed)
        BY <1>1, <1>2, <2>1, <4>1
      <4>2. CASE i # Len(claimed)
        <5>1. i + 1 \in 1..Len(claimed) /\ i \in 1..(Len(claimed) - 1)
          BY <1>1, <2>1, <4>2
        <5>2. claimed[i + 1] = claims[Len(claims) - Len(claimed) + (i + 1)]
          BY <5>1 DEF ClaimInv, WindowIsTail
        <5>3. Len(claims) - Len(claimed) + (i + 1) \in 1..Len(claims)
          BY <1>1, <5>1 DEF ClaimInv, WindowIsTail
        <5>4. Len(claims') - Len(claimed') + i = Len(claims) - Len(claimed) + (i + 1)
          BY <1>1, <1>2, <2>1, <5>1
        <5> QED BY <1>2, <2>1, <5>1, <5>2, <5>3, <5>4
      <4> QED BY <4>1, <4>2
    <3> QED BY <1>1, <1>2, <2>0, <2>1, <3>1 DEF ClaimInv, WindowIsTail
  <2>3. WindowDistinct'
    BY <1>1, <1>3, <2>1, WindowAssumption DEF ClaimInv, WindowDistinct
  <2> QED BY <2>2, <2>3 DEF ClaimInv
<1> QED BY <1>1, <1>4, <1>5, WindowAssumption

\* The events of a full window are as many as the window is long, and they lie
\* between any earlier claim of e and the new one.
LEMMA FullWindowBetween ==
  ASSUME NEW e \in Events, e \notin Range(claimed), TypeOK, ClaimInv,
         NEW i \in 1..Len(claims), claims[i] = e
  PROVE  Cardinality({claims[k] : k \in (i + 1)..Len(claims)}) >= Window
<1> DEFINE between == {claims[k] : k \in (i + 1)..Len(claims)}
           place == [k \in 1..Window |-> claimed[k]]
           named == [k \in (i + 1)..Len(claims) |-> claims[k]]
<1>1. /\ claimed \in Seq(Events) /\ claims \in Seq(Events)
      /\ Len(claimed) \in Nat /\ Len(claims) \in Nat
  BY LenProperties DEF TypeOK
<1>2. \A k \in 1..Len(claimed) : claimed[k] # e
  BY <1>1, LenProperties DEF Range
<1>3. i <= Len(claims) - Len(claimed)
  <2> SUFFICES ASSUME i > Len(claims) - Len(claimed) PROVE FALSE
    BY <1>1
  <2> DEFINE k == i - (Len(claims) - Len(claimed))
  <2>1. k \in 1..Len(claimed) /\ Len(claims) - Len(claimed) + k = i
    BY <1>1 DEF ClaimInv, WindowIsTail
  <2>2. claimed[k] = e
    BY <2>1 DEF ClaimInv, WindowIsTail
  <2> QED BY <1>2, <2>1, <2>2
<1>4. Len(claimed) = Window
  BY <1>1, <1>3 DEF ClaimInv, WindowIsTail
<1>5. ASSUME NEW k \in 1..Window PROVE claimed[k] \in between
  <2>1. Len(claims) - Len(claimed) + k \in (i + 1)..Len(claims)
    BY <1>1, <1>3, <1>4 DEF ClaimInv, WindowIsTail
  <2>2. claimed[k] = claims[Len(claims) - Len(claimed) + k]
    BY <1>4 DEF ClaimInv, WindowIsTail
  <2> QED BY <2>1, <2>2
<1>6. place \in Injection(1..Window, between)
  BY <1>4, <1>5 DEF Injection, IsInjective, ClaimInv, WindowDistinct
<1>7. IsFiniteSet(between)
  <2>1. named \in Surjection((i + 1)..Len(claims), between)
    BY DEF Surjection
  <2>2. IsFiniteSet((i + 1)..Len(claims))
    BY <1>1, FS_Interval
  <2> QED BY <2>1, <2>2, FS_Surjection
<1>8. Cardinality(1..Window) = Window
  BY FS_Interval, WindowAssumption
<1>9. Cardinality(1..Window) <= Cardinality(between)
  BY <1>6, <1>7, FS_Injection
<1>10. Cardinality(between) \in Nat
  BY <1>7, FS_CardinalityType
<1> QED BY <1>8, <1>9, <1>10, WindowAssumption

\* A claim keeps the property: the pairs that end before it are as they were.
LEMMA ReclaimedStep ==
  ASSUME NEW e \in Events, e \notin Range(claimed), TypeOK, ClaimInv,
         ReclaimedOnlyPastWindow, claims' = Append(claims, e)
  PROVE  ReclaimedOnlyPastWindow'
<1>1. claims \in Seq(Events) /\ Len(claims) \in Nat
  BY LenProperties DEF TypeOK
<1>2. /\ Len(claims') = Len(claims) + 1
      /\ \A i \in 1..Len(claims) : claims'[i] = claims[i]
      /\ claims'[Len(claims) + 1] = e
  BY <1>1, AppendProperties
<1> SUFFICES ASSUME NEW i \in 1..Len(claims'), NEW j \in 1..Len(claims'),
                    i < j, claims'[i] = claims'[j]
             PROVE  Cardinality({claims'[k] : k \in (i + 1)..(j - 1)}) >= Window
  BY DEF ReclaimedOnlyPastWindow
<1>3. {claims'[k] : k \in (i + 1)..(j - 1)} = {claims[k] : k \in (i + 1)..(j - 1)}
  BY <1>1, <1>2
<1>4. CASE j <= Len(claims)
  BY <1>1, <1>2, <1>3, <1>4 DEF ReclaimedOnlyPastWindow
<1>5. CASE j = Len(claims) + 1
  <2>1. i \in 1..Len(claims) /\ claims[i] = e /\ j - 1 = Len(claims)
    BY <1>1, <1>2, <1>5
  <2>2. Cardinality({claims[k] : k \in (i + 1)..Len(claims)}) >= Window
    BY <2>1, FullWindowBetween
  <2>3. {claims'[k] : k \in (i + 1)..(j - 1)} = {claims[k] : k \in (i + 1)..Len(claims)}
    BY <1>3, <2>1, Zenon
  <2> QED BY <2>2, <2>3, Zenon
<1>6. j <= Len(claims) \/ j = Len(claims) + 1
  BY <1>1, <1>2
<1> QED BY <1>4, <1>5, <1>6, Zenon

LEMMA ClaimInit == Init => ClaimInv /\ ReclaimedOnlyPastWindow
  BY WindowAssumption DEF Init, ClaimInv, WindowIsTail, WindowDistinct, ReclaimedOnlyPastWindow

LEMMA ClaimStep ==
  TypeOK /\ ClaimInv /\ ReclaimedOnlyPastWindow /\ [Next]_vars
    => ClaimInv' /\ ReclaimedOnlyPastWindow'
<1> SUFFICES ASSUME TypeOK, ClaimInv, ReclaimedOnlyPastWindow, [Next]_vars
             PROVE  ClaimInv' /\ ReclaimedOnlyPastWindow'
  OBVIOUS
<1>1. CASE UNCHANGED <<claimed, claims>>
  BY <1>1 DEF ClaimInv, WindowIsTail, WindowDistinct, ReclaimedOnlyPastWindow
<1>2. ASSUME NEW e \in Events, e \notin Range(claimed),
             claimed' = Remember(claimed, e), claims' = Append(claims, e)
      PROVE  ClaimInv' /\ ReclaimedOnlyPastWindow'
  BY <1>2, WindowStep, ReclaimedStep
<1> QED BY <1>1, <1>2, ClaimsChange

\* Whatever the size of the window and however events repeat, an event is
\* evaluated again only after a whole window of other events (_claim).
THEOREM ReclaimsOnlyPastWindow == Spec => []ReclaimedOnlyPastWindow
<1>1. Init => TypeOK /\ ClaimInv /\ ReclaimedOnlyPastWindow
  BY TypeInit, ClaimInit
<1>2. TypeOK /\ ClaimInv /\ ReclaimedOnlyPastWindow /\ [Next]_vars
        => (TypeOK /\ ClaimInv /\ ReclaimedOnlyPastWindow)'
  BY TypeStep, ClaimStep
<1> QED BY <1>1, <1>2, PTL DEF Spec

-----------------------------------------------------------------------------
(* One turn per window *)

LEMMA TurnInit == Init => TurnInv
  BY DEF Init, TurnInv, OneHolder, RunningHolds, NothingYet, TrippingHolds

\* The steps that hold or let go of triggers keep one holder for each.
LEMMA TurnStep == TypeOK /\ TurnInv /\ [Next]_vars => TurnInv'
<1> SUFFICES ASSUME TypeOK, TurnInv, [Next]_vars PROVE TurnInv'
  OBVIOUS
<1> USE DEF TypeOK, Triggers, TurnInv, OneHolder, RunningHolds, NothingYet, TrippingHolds
<1>1. ASSUME NEW d \in Deliveries, HandleEvent(d) PROVE TurnInv'
  <2>1. /\ phase[d] = "idle"
        /\ phase' = [phase EXCEPT ![d] = "dropped"] \/ phase' = [phase EXCEPT ![d] = "discovering_tier_d"]
        /\ UNCHANGED <<plans, holds, held, running, inFlight, cooling>>
    BY <1>1, Zenon DEF HandleEvent
  <2> QED BY <2>1
<1>2. ASSUME NEW d \in Deliveries, NEW S \in SUBSET TierD, DiscoverTierD(d, S) PROVE TurnInv'
  <2> DEFINE free == {t \in S : ~Waiting(t)}
  <2>1. /\ phase[d] = "discovering_tier_d" /\ plans[d] = {} /\ holds[d] = {} /\ running[d] = {}
        /\ holds' = [holds EXCEPT ![d] = free]
        /\ plans' = [plans EXCEPT ![d] = Kept(S)]
        /\ held' = [held EXCEPT ![d] = @ \cup (Kept(S) \ free)]
        /\ inFlight' = inFlight \cup free
        /\ phase' = [phase EXCEPT ![d] = IF S = {} THEN "discovering_rest" ELSE "tripping"]
        /\ running' = running /\ cooling' = cooling
    BY <1>2 DEF DiscoverTierD, HoldInFlight
  <2>2. free \cap inFlight = {} /\ free \cap cooling = {}
    BY DEF Waiting
  <2> HIDE DEF free
  <2>3. OneHolder'
    BY <2>1, <2>2
  <2>4. RunningHolds' /\ NothingYet'
    BY <2>1
  <2>5. TrippingHolds'
    BY <2>1, <2>2
  <2> QED BY <2>3, <2>4, <2>5
<1>3. ASSUME NEW d \in Deliveries, NEW gone \in SUBSET TierD, ScheduleTierD(d, gone) PROVE TurnInv'
  BY <1>3 DEF ScheduleTierD
<1>4. ASSUME NEW d \in Deliveries, NEW S \in SUBSET Others, DiscoverRest(d, S) PROVE TurnInv'
  BY <1>4 DEF DiscoverRest
<1>5. ASSUME NEW d \in Deliveries, NEW gone \in SUBSET Others, ScheduleRest(d, gone) PROVE TurnInv'
  <2> DEFINE free == {t \in found[d] \cap Others : ~Waiting(t)}
             unscheduled == (plans[d] \cup free) \ (running[d] \cup (free \ gone))
  <2>1. /\ phase[d] = "discovered"
        /\ holds' = [holds EXCEPT ![d] = (@ \cup free) \ unscheduled]
        /\ running' = [running EXCEPT ![d] = @ \cup (free \ gone)]
        /\ plans' = [plans EXCEPT ![d] = @ \cup free]
        /\ inFlight' = (inFlight \cup free) \ ((holds[d] \cup free) \cap unscheduled)
        /\ phase' = [phase EXCEPT ![d] = "settling"]
        /\ held' = held /\ cooling' = cooling
    BY <1>5 DEF ScheduleRest
  <2>2. free \cap inFlight = {}
    BY DEF Waiting
  <2>3. unscheduled \cap (running[d] \cup (free \ gone)) = {}
    OBVIOUS
  <2> HIDE DEF free, unscheduled
  <2>4. OneHolder'
    BY <2>1, <2>2
  <2>5. RunningHolds'
    BY <2>1, <2>3
  <2>6. NothingYet' /\ TrippingHolds'
    BY <2>1
  <2> QED BY <2>4, <2>5, <2>6
<1>6. ASSUME NEW d \in Deliveries, EventSettled(d) PROVE TurnInv'
  BY <1>6 DEF EventSettled, Release
<1>7. ASSUME NEW d \in Deliveries, NEW t \in TierD, TripEnds(d, t) PROVE TurnInv'
  BY <1>7 DEF TripEnds
<1>8. ASSUME NEW d \in Deliveries, NEW t \in Triggers, NEW consumes \in BOOLEAN,
             RemainderEnds(d, t, consumes)
      PROVE  TurnInv'
  BY <1>8 DEF RemainderEnds, Release
<1>9. ASSUME NEW t \in Triggers, CooldownEnds(t) PROVE TurnInv'
  BY <1>9 DEF CooldownEnds
<1>10. CASE UNCHANGED vars
  BY <1>10 DEF vars
<1> HIDE DEF TypeOK, Triggers, TurnInv
<1> QED BY <1>1, <1>2, <1>3, <1>4, <1>5, <1>6, <1>7, <1>8, <1>9, <1>10, Zenon DEF Next, Dispatch

\* What a step that starts the reasoning of t finds.
Turn(t) ==
  /\ t \notin cooling
  /\ \A d \in Deliveries : t \notin running[d]
  /\ Cardinality({d \in Deliveries : t \in running'[d]}) = 1

\* A step that adds t to the reasoning of one dispatch, and nothing to another's,
\* when nobody else holds t.
LEMMA TurnOfOne ==
  ASSUME NEW d \in Deliveries, NEW t, t \notin cooling, TypeOK,
         \A e \in Deliveries : t \notin running[e],
         running' = [running EXCEPT ![d] = running'[d]], t \in running'[d]
  PROVE  Turn(t)
<1>1. {e \in Deliveries : t \in running'[e]} = {d}
  BY DEF TypeOK
<1> QED BY <1>1, FS_Singleton DEF Turn

LEMMA TurnTaken ==
  TypeOK /\ TurnInv /\ [Next]_vars => \A t \in Triggers : Started(t) => Turn(t)
<1> SUFFICES ASSUME TypeOK, TurnInv, [Next]_vars, NEW t \in Triggers, Started(t)
             PROVE  Turn(t)
  OBVIOUS
<1>1. ASSUME NEW d \in Deliveries, NEW gone \in SUBSET TierD, ScheduleTierD(d, gone) PROVE Turn(t)
  <2>1. /\ phase[d] = "tripping"
        /\ running' = [running EXCEPT ![d] = plans[d] \ (held[d] \cup gone)]
    BY <1>1 DEF ScheduleTierD
  <2>2. t \in running'[d] /\ t \in plans[d] \ held[d]
    BY <2>1 DEF TypeOK, Started
  <2>3. t \in holds[d] /\ t \notin cooling /\ running[d] = {}
    BY <2>1, <2>2 DEF TurnInv, TrippingHolds, NothingYet
  <2>4. \A e \in Deliveries : t \notin running[e]
    BY <2>3 DEF TurnInv, RunningHolds, OneHolder
  <2>5. running' = [running EXCEPT ![d] = running'[d]]
    BY <2>1 DEF TypeOK
  <2> QED BY <2>2, <2>3, <2>4, <2>5, TurnOfOne
<1>2. ASSUME NEW d \in Deliveries, NEW gone \in SUBSET Others, ScheduleRest(d, gone) PROVE Turn(t)
  <2> DEFINE free == {u \in found[d] \cap Others : ~Waiting(u)}
  <2>1. running' = [running EXCEPT ![d] = @ \cup (free \ gone)]
    BY <1>2 DEF ScheduleRest
  <2>2. t \in running'[d] /\ t \in free
    BY <2>1 DEF TypeOK, Started
  <2>3. t \notin inFlight /\ t \notin cooling
    BY <2>2 DEF Waiting
  <2>4. \A e \in Deliveries : t \notin running[e]
    BY <2>3 DEF TurnInv, RunningHolds, OneHolder
  <2>5. running' = [running EXCEPT ![d] = running'[d]]
    BY <2>1 DEF TypeOK
  <2> QED BY <2>2, <2>3, <2>4, <2>5, TurnOfOne
<1>3. ASSUME NEW d \in Deliveries, NEW u, NEW consumes, RemainderEnds(d, u, consumes) PROVE Turn(t)
  BY <1>3 DEF RemainderEnds, Started, TypeOK
<1>4. CASE running' = running
  BY <1>4 DEF Started
<1> QED BY <1>1, <1>2, <1>3, <1>4 DEF Next, Dispatch, HandleEvent, DiscoverTierD, DiscoverRest,
           EventSettled, TripEnds, CooldownEnds, vars

\* One dispatch of a trigger per window, for any number of events that match it
\* while discovery awaits or Tier D acts run (_hold_in_flight).
THEOREM TurnsDoNotOverlap == Spec => OneTurnPerWindow
<1>1. Init => TypeOK /\ TurnInv
  BY TypeInit, TurnInit
<1>2. TypeOK /\ TurnInv /\ [Next]_vars => (TypeOK /\ TurnInv)'
  BY TypeStep, TurnStep
<1>3. TypeOK /\ TurnInv /\ [Next]_vars
        => [\A t \in Triggers : Started(t) =>
              /\ t \notin cooling
              /\ \A d \in Deliveries : t \notin running[d]
              /\ Cardinality({d \in Deliveries : t \in running'[d]}) = 1]_vars
  BY TurnTaken DEF Turn
<1> QED BY <1>1, <1>2, <1>3, PTL DEF Spec, OneTurnPerWindow

\* No trigger is held by two dispatches, and none reasons without holding its
\* trigger (_hold_in_flight, _release).
THEOREM HeldByOne == Spec => [](OneHolder /\ RunningHolds)
<1>1. Init => TypeOK /\ TurnInv
  BY TypeInit, TurnInit
<1>2. TypeOK /\ TurnInv /\ [Next]_vars => (TypeOK /\ TurnInv)'
  BY TypeStep, TurnStep
<1>3. TurnInv => OneHolder /\ RunningHolds
  BY DEF TurnInv
<1> QED BY <1>1, <1>2, <1>3, PTL DEF Spec

-----------------------------------------------------------------------------
(* What a settled event leaves behind *)

SettleInv == MatchesAttempted /\ Settled

LEMMA SettleInit == Init => SettleInv
  BY DEF Init, SettleInv, MatchesAttempted, Settled

LEMMA SettleStep == TypeOK /\ SettleInv /\ [Next]_vars => SettleInv'
<1> SUFFICES ASSUME TypeOK, SettleInv, [Next]_vars PROVE SettleInv'
  OBVIOUS
<1> USE DEF TypeOK, Triggers, SettleInv, MatchesAttempted, Settled
<1>1. ASSUME NEW d \in Deliveries, HandleEvent(d) PROVE SettleInv'
  <2>1. /\ phase[d] = "idle"
        /\ phase' = [phase EXCEPT ![d] = "dropped"] \/ phase' = [phase EXCEPT ![d] = "discovering_tier_d"]
        /\ UNCHANGED <<found, plans, holds, trips, tripped>>
    BY <1>1, Zenon DEF HandleEvent
  <2> QED BY <2>1
<1>2. ASSUME NEW d \in Deliveries, NEW S \in SUBSET TierD, DiscoverTierD(d, S) PROVE SettleInv'
  <2> DEFINE free == {t \in S : ~Waiting(t)}
  <2>1. /\ phase[d] = "discovering_tier_d" /\ found[d] = {} /\ trips[d] = {} /\ tripped[d] = {}
        /\ holds' = [holds EXCEPT ![d] = @ \cup free]
        /\ plans' = [plans EXCEPT ![d] = @ \cup Kept(S)]
        /\ found' = [found EXCEPT ![d] = S]
        /\ trips' = [trips EXCEPT ![d] = Kept(S)]
        /\ phase' = [phase EXCEPT ![d] = IF S = {} THEN "discovering_rest" ELSE "tripping"]
        /\ tripped' = tripped
    BY <1>2 DEF DiscoverTierD, HoldInFlight
  <2>2. Kept(S) = S /\ free \subseteq S
    BY DEF Kept
  <2> HIDE DEF free
  <2> QED BY <2>1, <2>2
<1>3. ASSUME NEW d \in Deliveries, NEW gone \in SUBSET TierD, ScheduleTierD(d, gone) PROVE SettleInv'
  BY <1>3 DEF ScheduleTierD
<1>4. ASSUME NEW d \in Deliveries, NEW S \in SUBSET Others, DiscoverRest(d, S) PROVE SettleInv'
  <2>1. /\ phase[d] = "discovering_rest" /\ S \cap TierD = {}
        /\ found' = [found EXCEPT ![d] = @ \cup S]
        /\ phase' = [phase EXCEPT ![d] = IF S = {} /\ plans[d] = {} THEN "done" ELSE "discovered"]
        /\ UNCHANGED <<plans, holds, trips, tripped>>
    BY <1>4, TriggersAssumption DEF DiscoverRest
  <2> QED BY <2>1
<1>5. ASSUME NEW d \in Deliveries, NEW gone \in SUBSET Others, ScheduleRest(d, gone) PROVE SettleInv'
  <2>1. PICK free, unscheduled :
          /\ phase[d] = "discovered"
          /\ holds' = [holds EXCEPT ![d] = (@ \cup free) \ unscheduled]
          /\ plans' = [plans EXCEPT ![d] = @ \cup free]
          /\ phase' = [phase EXCEPT ![d] = "settling"]
          /\ UNCHANGED <<found, trips, tripped>>
    BY <1>5 DEF ScheduleRest
  <2> QED BY <2>1
<1>6. ASSUME NEW d \in Deliveries, EventSettled(d) PROVE SettleInv'
  BY <1>6 DEF EventSettled, Release
<1>7. ASSUME NEW d \in Deliveries, NEW t \in TierD, TripEnds(d, t) PROVE SettleInv'
  BY <1>7 DEF TripEnds
<1>8. ASSUME NEW d \in Deliveries, NEW t \in Triggers, NEW consumes \in BOOLEAN,
             RemainderEnds(d, t, consumes)
      PROVE  SettleInv'
  BY <1>8 DEF RemainderEnds, Release
<1>9. ASSUME NEW t \in Triggers, CooldownEnds(t) PROVE SettleInv'
  BY <1>9 DEF CooldownEnds
<1>10. CASE UNCHANGED vars
  BY <1>10 DEF vars
<1> HIDE DEF TypeOK, Triggers, SettleInv
<1> QED BY <1>1, <1>2, <1>3, <1>4, <1>5, <1>6, <1>7, <1>8, <1>9, <1>10, Zenon DEF Next, Dispatch

\* When the dispatch of an event is done, each of its Tier D matches was
\* attempted, even of a trigger in flight or cooling, and it holds no trigger
\* (dispatch_event, _release): the state EventSettles says is reached.
THEOREM NothingLeftBehind == Spec => []Settled
<1>1. Init => TypeOK /\ SettleInv
  BY TypeInit, SettleInit
<1>2. TypeOK /\ SettleInv /\ [Next]_vars => (TypeOK /\ SettleInv)'
  BY TypeStep, SettleStep
<1>3. SettleInv => Settled
  BY DEF SettleInv
<1> QED BY <1>1, <1>2, <1>3, PTL DEF Spec
=============================================================================
