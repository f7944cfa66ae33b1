---------------------------- MODULE ResourceGate ----------------------------
(***************************************************************************)
(* The runtime-global admission gate (ori/reasoning/resource_gate.py) and  *)
(* the dispatcher's use of it (ActionDispatcher._admit_and_run), for ONE   *)
(* resource: a decision about a resource_key reads and writes only that    *)
(* key's record and the entries filed for it, so the keys are independent. *)
(*                                                                         *)
(* The gate's lock is never held across a suspension point, so each of its *)
(* operations is one step.  The dispatcher calls `request` and, when no    *)
(* operator is asked, `mark_running` with no suspension between them; both *)
(* are one action here, and a record is never left RESERVED between steps. *)
(* The RESERVED arms of `_opposing` are therefore out of reach of the      *)
(* dispatcher and are not modelled.                                        *)
(***************************************************************************)
EXTENDS Naturals

CONSTANTS
  Dispatches,  \* calls of ActionDispatcher.dispatch that reach the gate
  Events,      \* sensor events, each an arbitration scope
  Kinds,       \* what a dispatch may ask for: [outcome, tier, approval]
  Plans,       \* the requests considered: [kind, event] of every dispatch
  NoEvent,     \* the scope of a dispatch made outside any event
  None         \* no dispatch

TierC == 3
TierD == 4
Tiers == 1..4           \* tier_rank of A, B, C, D

ASSUME KindsAssumption ==
  /\ \A k \in Kinds : /\ k.tier \in Tiers
                      /\ k.approval \in BOOLEAN
                      /\ k.tier = TierC => k.approval
                      /\ k.tier = TierD => ~k.approval
  /\ None \notin Dispatches
  /\ NoEvent \notin Events

\* A trip is always dispatched for an event.
ASSUME PlansAssumption ==
  \A plan \in Plans :
    /\ plan.kind \in [Dispatches -> Kinds]
    /\ plan.event \in [Dispatches -> Events \cup {NoEvent}]
    /\ \A d \in Dispatches : plan.kind[d].tier = TierD => plan.event[d] \in Events

VARIABLES
  kind,      \* the request each dispatch makes, fixed when it is built
  event,     \* the scope it carries (_ARBITRATION_SCOPE)
  pc,        \* how far the dispatch has got
  holder,    \* _records[resource_key]: the admitted dispatch, or None
  state,     \* _Record.state of the record a dispatch was admitted with
  invalid,   \* _Record.invalidated
  entered,   \* _Record.entered
  asked,     \* _Record.asked
  joinedTo,  \* the dispatch whose act a coalesced dispatch joined, or None
  scopes,    \* the arbitration scope of each event: unopened, open or closed
  entries,   \* _scopes: what each event's completed acts left
  verdict    \* what a detached executor reported, until the gate is told

vars == <<kind, event, pc, holder, state, invalid, entered, asked, joinedTo,
          scopes, entries, verdict>>

HolderStates == {"unborn", "proposal", "running", "uncertain", "retired"}

\* idle: not requested; waiting: the operator is being asked; driving: the
\* executor is entered; detached: the dispatch was cancelled and its shielded
\* Tier D executor is still driving; reported: that executor is done and the
\* gate has not been told; joined, refused, done: the dispatch has returned.
Phases == {"idle", "waiting", "driving", "detached", "reported",
           "joined", "refused", "done"}

Entry == [act : Dispatches, tier : Tiers, entered : BOOLEAN, ran : BOOLEAN,
          holdsD : BOOLEAN, asked : BOOLEAN]

Outcome(d) == kind[d].outcome
Tier(d)    == kind[d].tier

\* dispatch_plan.opposes: opposite acts on one resource.
Opposes(d1, d2) ==
  /\ Outcome(d1) # Outcome(d2)
  /\ {Outcome(d1), Outcome(d2)} \subseteq {"open", "close"}

IsOpen(e) == e \in Events /\ scopes[e] = "open"

\* _Record.contributors: the admitted dispatch and those that joined it.
Contributors(d) == {c \in Dispatches : c = d \/ joinedTo[c] = d}

ClaimsIn(d, e) == {c \in Contributors(d) : event[c] = e}

HighestTier(S) == CHOOSE t \in {Tier(c) : c \in S} : \A c \in S : Tier(c) <= t

-----------------------------------------------------------------------------
(* Foreclosing entries *)

EntryFor(d, e, rec, ran) ==
  [act |-> d, tier |-> HighestTier(ClaimsIn(d, e)), entered |-> rec.entered,
   ran |-> ran /\ rec.entered, asked |-> rec.asked,
   holdsD |-> \E c \in ClaimsIn(d, e) : Tier(c) = TierD]

\* Mutant: only the admitting event forecloses, not the ones that joined.
RecordEntriesForAdmitterOnly(d, rec, ran) ==
  entries' = [e \in Events |->
                IF IsOpen(e) /\ event[d] = e
                  THEN {x \in entries[e] : x.act # d}
                         \cup {EntryFor(d, e, rec, ran)}
                  ELSE entries[e]]

\* _record_entries: the act's account is filed under every open event that
\* claims it, in place of what was filed before; a closed event gets nothing.
RecordEntries(d, rec, ran) ==
  entries' = [e \in Events |->
                IF IsOpen(e) /\ ClaimsIn(d, e) # {}
                  THEN {x \in entries[e] : x.act # d}
                         \cup {EntryFor(d, e, rec, ran)}
                  ELSE entries[e]]

OpposingEntries(d) ==
  {x \in UNION {entries[e] : e \in {f \in Events : IsOpen(f)}} :
     x.entered /\ Opposes(x.act, d)}

-----------------------------------------------------------------------------
(* The decision, in the order of `request` *)

HolderOpposes(d) == holder # None /\ Opposes(holder, d)

\* _refuse_opposing: rules 1 to 3, before any join.
SafetyConflict(d) ==
  /\ Tier(d) >= TierD
  /\ \/ HolderOpposes(d) /\ \E c \in Contributors(holder) : Tier(c) = TierD
     \/ \E x \in OpposingEntries(d) : x.holdsD

OpposesUncertain(d) == HolderOpposes(d) /\ state[holder] = "uncertain"

Foreclosed(d) == \E x \in OpposingEntries(d) : Tier(d) <= x.tier

RefuseOpposing(d) == SafetyConflict(d) \/ OpposesUncertain(d) \/ Foreclosed(d)

\* Mutant: a higher tier preempts an executor that is already driving.
DisplacesRunning(d) ==
  /\ holder # None
  /\ \/ state[holder] = "proposal" /\ Outcome(holder) = Outcome(d) /\ Tier(d) >= TierD
     \/ Outcome(holder) # Outcome(d) /\ Tier(d) > Tier(holder)

\* Mutant: Tier D joins a proposal for its own outcome.
DisplacesOpposingOnly(d) ==
  /\ holder # None /\ state[holder] = "proposal"
  /\ Opposes(holder, d) /\ Tier(d) > Tier(holder)

\* _same_outcome and _opposing: a proposal gives way to Tier D for the same
\* outcome, and to a strictly higher tier for the opposite one.
Displaces(d) ==
  /\ holder # None /\ state[holder] = "proposal"
  /\ \/ Outcome(holder) = Outcome(d) /\ Tier(d) >= TierD
     \/ Opposes(holder, d) /\ Tier(d) > Tier(holder)

JoinsHolder(d) ==
  holder # None /\ Outcome(holder) = Outcome(d) /\ ~Displaces(d)

HolderRefuses(d) == holder # None /\ ~Displaces(d) /\ ~JoinsHolder(d)

\* Mutant: an ask that was declined is not joined.
JoinableRanOnly(d) ==
  IF holder = None /\ IsOpen(event[d])
    THEN {x \in entries[event[d]] : Outcome(x.act) = Outcome(d) /\ x.ran}
    ELSE {}

\* _join_completed: the entries of the requester's own event it may join.
Joinable(d) ==
  IF holder = None /\ IsOpen(event[d])
    THEN {x \in entries[event[d]] :
            /\ Outcome(x.act) = Outcome(d)
            /\ x.ran \/ (Tier(d) < TierD /\ ~x.entered /\ x.asked)}
    ELSE {}

-----------------------------------------------------------------------------
(* Operations of the gate *)

\* _admit, with the mark_running the dispatcher makes at once unless an
\* operator is to be asked.
Admit(d) ==
  /\ holder' = d
  /\ state' = [state EXCEPT ![d] = IF kind[d].approval THEN "proposal" ELSE "running"]
  /\ entered' = [entered EXCEPT ![d] = ~kind[d].approval]
  /\ pc' = [pc EXCEPT ![d] = IF kind[d].approval THEN "waiting" ELSE "driving"]

Refused(d) ==
  /\ pc' = [pc EXCEPT ![d] = "refused"]
  /\ UNCHANGED <<holder, state, invalid, entered, joinedTo, entries>>

\* A request that joins a completed act which ran files its own authority
\* beside it.
JoinEntry(d, x) ==
  /\ pc' = [pc EXCEPT ![d] = "joined"]
  /\ joinedTo' = [joinedTo EXCEPT ![d] = x.act]
  /\ entries' = IF x.ran
                  THEN [entries EXCEPT ![event[d]] = @ \cup
                          {[act |-> x.act, tier |-> Tier(d), entered |-> TRUE, ran |-> TRUE,
                            holdsD |-> Tier(d) = TierD, asked |-> FALSE]}]
                  ELSE entries
  /\ UNCHANGED <<holder, state, invalid, entered>>

\* Mutant: a record leaves `_records` whoever is there.
RetirePopsAny(d, ran) ==
  /\ RecordEntries(d, [entered |-> entered[d], asked |-> asked[d]], ran)
  /\ state' = [state EXCEPT ![d] = "retired"]
  /\ holder' = None
  /\ pc' = [pc EXCEPT ![d] = "done"]

\* retire: a record displaced by another leaves `_records` as it is.
Retire(d, ran) ==
  /\ RecordEntries(d, [entered |-> entered[d], asked |-> asked[d]], ran)
  /\ state' = [state EXCEPT ![d] = "retired"]
  /\ holder' = IF holder = d THEN None ELSE holder
  /\ pc' = [pc EXCEPT ![d] = "done"]

\* reply_admitted: whether an operator's YES may still act.
ReplyAdmitted(d) == ~invalid[d] /\ holder = d

-----------------------------------------------------------------------------
(* Actions *)

Init ==
  /\ \E plan \in Plans : kind = plan.kind /\ event = plan.event
  /\ pc = [d \in Dispatches |-> "idle"]
  /\ holder = None
  /\ state = [d \in Dispatches |-> "unborn"]
  /\ invalid = [d \in Dispatches |-> FALSE]
  /\ entered = [d \in Dispatches |-> FALSE]
  /\ asked = [d \in Dispatches |-> FALSE]
  /\ joinedTo = [d \in Dispatches |-> None]
  /\ scopes = [e \in Events |-> "unopened"]
  /\ entries = [e \in Events |-> {}]
  /\ verdict = [d \in Dispatches |-> FALSE]

OpenScope(e) ==
  /\ scopes[e] = "unopened"
  /\ scopes' = [scopes EXCEPT ![e] = "open"]
  /\ UNCHANGED <<kind, event, pc, holder, state, invalid, entered, asked, joinedTo,
                 entries, verdict>>

\* close_scope: the coordinator closes an event once every dispatch it
\* started has returned.  A detached executor does not hold it open.
Returned(d) == pc[d] \in {"detached", "reported", "joined", "refused", "done"}

CloseScope(e) ==
  /\ scopes[e] = "open"
  /\ \A d \in Dispatches : event[d] = e => pc[d] = "idle" \/ Returned(d)
  /\ scopes' = [scopes EXCEPT ![e] = "closed"]
  /\ entries' = [entries EXCEPT ![e] = {}]
  /\ UNCHANGED <<kind, event, pc, holder, state, invalid, entered, asked, joinedTo,
                 verdict>>

\* dispatch_event attempts every Tier D act of an event, and waits for them,
\* before it schedules anything else of that event.
DueInEvent(d) ==
  \/ event[d] = NoEvent
  \/ /\ IsOpen(event[d])
     /\ Tier(d) < TierD =>
          \A c \in Dispatches : event[c] = event[d] /\ Tier(c) = TierD => Returned(c)

\* _admit_and_run up to the first suspension: the gate's answer.
Request(d) ==
  /\ pc[d] = "idle"
  /\ DueInEvent(d)
  /\ \/ /\ RefuseOpposing(d)
        /\ Refused(d)
     \/ /\ ~RefuseOpposing(d) /\ HolderRefuses(d)
        /\ Refused(d)
     \/ /\ ~RefuseOpposing(d) /\ JoinsHolder(d)
        /\ pc' = [pc EXCEPT ![d] = "joined"]
        /\ joinedTo' = [joinedTo EXCEPT ![d] = holder]
        /\ UNCHANGED <<holder, state, invalid, entered, entries>>
     \/ /\ ~RefuseOpposing(d) /\ Displaces(d)
        /\ invalid' = [invalid EXCEPT ![holder] = TRUE]
        /\ Admit(d)
        /\ UNCHANGED <<joinedTo, entries>>
     \/ /\ ~RefuseOpposing(d)
        /\ \E x \in Joinable(d) : JoinEntry(d, x)
     \/ /\ ~RefuseOpposing(d) /\ holder = None /\ Joinable(d) = {}
        /\ Admit(d)
        /\ UNCHANGED <<invalid, joinedTo, entries>>
  /\ UNCHANGED <<kind, event, asked, scopes, verdict>>

\* _ask_operator: the ask was accepted for delivery, or a console listens.
Asked(d) ==
  /\ pc[d] = "waiting" /\ ~asked[d]
  /\ asked' = [asked EXCEPT ![d] = TRUE]
  /\ UNCHANGED <<kind, event, pc, holder, state, invalid, entered, joinedTo, scopes,
                 entries, verdict>>

\* The operator says YES: reply_admitted, and the executor is entered.
Approve(d) ==
  /\ pc[d] = "waiting"
  /\ ReplyAdmitted(d)
  /\ state' = [state EXCEPT ![d] = "running"]
  /\ entered' = [entered EXCEPT ![d] = TRUE]
  /\ pc' = [pc EXCEPT ![d] = "driving"]
  /\ UNCHANGED <<kind, event, holder, invalid, asked, joinedTo, scopes, entries, verdict>>

\* The proposal ends without an act: NO, no reply before the deadline, a late
\* YES refused by the gate, or the dispatch cancelled while it waits.
EndProposal(d) ==
  /\ pc[d] = "waiting"
  /\ Retire(d, FALSE)
  /\ UNCHANGED <<kind, event, invalid, entered, asked, joinedTo, scopes, verdict>>

\* The executor returns to its dispatch, which retires the record.
ExecutorReturns(d, ok) ==
  /\ pc[d] = "driving"
  /\ Retire(d, ok)
  /\ UNCHANGED <<kind, event, invalid, entered, asked, joinedTo, scopes, verdict>>

\* The dispatch is cancelled while its executor drives.  Below Tier D the
\* executor is cancelled with it and reports nothing; a Tier D executor is
\* shielded, and its command becomes uncertain (mark_uncertain).
CancelDriving(d) ==
  /\ pc[d] = "driving"
  /\ \/ /\ Tier(d) < TierD
        /\ Retire(d, FALSE)
     \/ /\ Tier(d) = TierD
        /\ RecordEntries(d, [entered |-> TRUE, asked |-> asked[d]], FALSE)
        /\ state' = [state EXCEPT ![d] = "uncertain"]
        /\ pc' = [pc EXCEPT ![d] = "detached"]
        /\ UNCHANGED holder
  /\ UNCHANGED <<kind, event, invalid, entered, asked, joinedTo, scopes, verdict>>

\* The shielded executor ends; its done callback schedules resolve_uncertain.
DetachedEnds(d, ok) ==
  /\ pc[d] = "detached"
  /\ pc' = [pc EXCEPT ![d] = "reported"]
  /\ verdict' = [verdict EXCEPT ![d] = ok]
  /\ UNCHANGED <<kind, event, holder, state, invalid, entered, asked, joinedTo, scopes,
                 entries>>

\* Mutant: an uncertain command is retired by nothing, the late report included.
ResolveUncertainNoOp(d) ==
  /\ pc[d] = "reported"
  /\ pc' = [pc EXCEPT ![d] = "done"]
  /\ UNCHANGED <<kind, event, holder, state, invalid, entered, asked, joinedTo, scopes,
                 entries, verdict>>

\* resolve_uncertain: only the driver's report clears an uncertain command.
ResolveUncertain(d) ==
  /\ pc[d] = "reported"
  /\ Retire(d, verdict[d])
  /\ UNCHANGED <<kind, event, invalid, entered, asked, joinedTo, scopes, verdict>>

Next ==
  \/ \E e \in Events : OpenScope(e) \/ CloseScope(e)
  \/ \E d \in Dispatches :
       \/ Request(d) \/ Asked(d) \/ Approve(d) \/ EndProposal(d)
       \/ CancelDriving(d) \/ ResolveUncertain(d)
       \/ \E ok \in BOOLEAN : ExecutorReturns(d, ok) \/ DetachedEnds(d, ok)

Spec == Init /\ [][Next]_vars

\* A proposal has a deadline, drivers return, and the loop runs callbacks.
Fairness ==
  \A d \in Dispatches :
    /\ WF_vars(EndProposal(d))
    /\ WF_vars(\E ok \in BOOLEAN : ExecutorReturns(d, ok))
    /\ WF_vars(\E ok \in BOOLEAN : DetachedEnds(d, ok))
    /\ WF_vars(ResolveUncertain(d))

FairSpec == Spec /\ Fairness

-----------------------------------------------------------------------------
(* Properties *)

\* The shape of the gate's records and entries; an entry is only ever filed
\* under a tier some request of its act had (_entry_for).
TypeOK ==
  /\ kind \in [Dispatches -> Kinds]
  /\ event \in [Dispatches -> Events \cup {NoEvent}]
  /\ pc \in [Dispatches -> Phases]
  /\ holder \in Dispatches \cup {None}
  /\ state \in [Dispatches -> HolderStates]
  /\ invalid \in [Dispatches -> BOOLEAN]
  /\ entered \in [Dispatches -> BOOLEAN]
  /\ asked \in [Dispatches -> BOOLEAN]
  /\ joinedTo \in [Dispatches -> Dispatches \cup {None}]
  /\ scopes \in [Events -> {"unopened", "open", "closed"}]
  /\ entries \in [Events -> SUBSET Entry]
  /\ verdict \in [Dispatches -> BOOLEAN]

InFlight(d) == pc[d] \in {"driving", "detached"}

\* One executor at a time drives the resource, whatever was preempted,
\* joined, cancelled or left uncertain: neither opposite commands nor the
\* same command twice are ever in flight together (module docstring of
\* resource_gate.py; the cancelled-dispatch comment of _admit_and_run).
AtMostOneExecutor ==
  \A d1, d2 \in Dispatches : InFlight(d1) /\ InFlight(d2) => d1 = d2

\* Tier D never waits for a human: a Tier D request that coalesced did so
\* with an act whose executor was entered, never with a proposal
\* (_same_outcome, _join_completed).
JoinedTripRestsOnAnAct ==
  \A d \in Dispatches :
    joinedTo[d] # None /\ Tier(d) = TierD => entered[joinedTo[d]]

\* A proposal answers for the resource until a higher tier displaces it, and
\* from that step it is marked: reply_admitted never meets a proposal that
\* lost its record unmarked (PROPOSAL_NO_LONGER_HELD), nor a marked one that
\* is still the holder, whatever the displaced and displacing acts do later.
ProposalHeldUntilDisplaced ==
  \A d \in Dispatches : pc[d] = "waiting" => (holder = d <=> ~invalid[d])

Starts(d) == pc[d] # "driving" /\ pc'[d] = "driving"

Claims(c, a) == c = a \/ joinedTo[c] = a

\* While an event is open, no executor is entered for the opposite of an act
\* the event drove or joined, unless at a strictly higher tier than the one
\* the event put behind it; whatever has happened to the record since
\* (_record_entries, _refuse_opposing, and reply_admitted, which does not
\* look at the entries).
ForeclosureHonoured ==
  [][\A d, a, c \in Dispatches :
       /\ Starts(d)
       /\ entered[a] /\ Opposes(a, d)
       /\ Claims(c, a) /\ IsOpen(event[c])
       => Tier(c) < Tier(d)]_vars

\* Nothing holds the resource for ever: every admitted dispatch, a cancelled
\* one included, gives it up (retire, resolve_uncertain).
ResourceComesFree == holder # None ~> holder = None

-----------------------------------------------------------------------------
(* What makes the safety properties inductive *)

Live(d) == pc[d] \in {"driving", "detached", "reported"}

\* An entered executor's dispatch is the holder, and the record's state says
\* how far it has got.
HolderInv ==
  /\ \A d \in Dispatches :
       /\ Live(d) => holder = d /\ entered[d]
       /\ pc[d] = "driving" => state[d] = "running"
       /\ pc[d] \in {"detached", "reported"} => state[d] = "uncertain"
       /\ pc[d] = "waiting" => state[d] = "proposal"
  /\ holder # None => pc[holder] = "waiting" \/ Live(holder)

\* What a dispatch can have done by each phase.
PhaseInv ==
  \A d \in Dispatches :
    /\ pc[d] = "idle" => ~invalid[d] /\ joinedTo[d] = None
    /\ entered[d] => Live(d) \/ pc[d] = "done"
    /\ event[d] \in Events /\ scopes[event[d]] = "unopened" => pc[d] = "idle"

\* Entries exist only in open events, only for attempts that ended or became
\* uncertain, and tell whether the executor was entered.
EntryInv ==
  \A e \in Events :
    /\ ~IsOpen(e) => entries[e] = {}
    /\ \A x \in entries[e] :
         /\ pc[x.act] \in {"detached", "reported", "done"}
         /\ x.entered = entered[x.act]
         /\ x.ran => x.entered

\* A finished act is answered for in every open event that claims it, at the
\* claim's tier or above.
ClaimInv ==
  \A a, c \in Dispatches :
    entered[a] /\ pc[a] = "done" /\ Claims(c, a) /\ IsOpen(event[c])
      => \E x \in entries[event[c]] : x.act = a /\ x.tier >= Tier(c)

\* A proposal that holds the resource outranks every opposing entry.
ProposalInv ==
  holder # None /\ pc[holder] = "waiting"
    => \A e \in Events : \A x \in entries[e] :
         x.entered /\ Opposes(x.act, holder) => x.tier < Tier(holder)

IInv ==
  /\ TypeOK /\ HolderInv /\ PhaseInv /\ EntryInv /\ ClaimInv /\ ProposalInv
  /\ JoinedTripRestsOnAnAct /\ ProposalHeldUntilDisplaced

-----------------------------------------------------------------------------
(* A promise of the documentation *)

AsksAgain(d, p) ==
  /\ d # p /\ ~asked[d] /\ asked'[d] /\ asked[p] /\ ~entered[p]
  /\ event[d] = event[p] /\ event[d] # NoEvent /\ Outcome(d) = Outcome(p)

\* docs/DISPATCH_PLAN.md: a proposal that was declined, expired or
\* invalidated and whose operator was asked is not asked again by the same
\* event.  The code keeps that for the commands that have no opposite, such
\* as a write to a constrained device (_join_completed); an outcome of a zone
\* may be asked for again before its invalidated proposal has retired.
CommandAskedOnce ==
  [][\A d, p \in Dispatches :
       AsksAgain(d, p) => Outcome(d) \in {"open", "close"}]_vars
=============================================================================
