---------------------------- MODULE TierCApproval ----------------------------
(***************************************************************************)
(* The governed Tier C approval: the dispatcher's live workflow            *)
(* (_governed_approval_workflow and what it calls in action_dispatcher.py) *)
(* over the durable proposal rows of ori/state/_tier_c.py, with the        *)
(* settlement of a previous process's proposals at start, the closing of   *)
(* open ones at a graceful stop, and operator reconciliation.              *)
(*                                                                         *)
(* Each store operation is one transaction on the store's single writer,   *)
(* so it is one step; between two of them the coroutine is suspended and   *)
(* everything else may happen.  A store call may raise, and then it did    *)
(* nothing.  A call in flight when its coroutine is cancelled still runs.  *)
(* What the operator's reply says, whether binding and authority still     *)
(* match, and whether the resource gate still holds the proposal's record  *)
(* are inputs.  A token is one more kind of YES; a reply that decides      *)
(* nothing leaves the workflow listening and is no step.                   *)
(***************************************************************************)
EXTENDS Naturals, FiniteSets

CONSTANTS
  Proposals,  \* proposal identifiers
  Keys,       \* the (zone_id, outcome) pairs a proposal may command
  Assignments, \* which proposals command what: some of [Proposals -> Keys]
  Ceiling     \* _PENDING_OUTCOME_CEILING

ASSUME CeilingAssumption == Ceiling \in Nat \ {0}
ASSUME ProposalsAssumption == IsFiniteSet(Proposals)
ASSUME AssignmentsAssumption == Assignments \subseteq [Proposals -> Keys]

VARIABLES
  mode,        \* what the runtime process is doing
  failed,      \* _tier_c_recovery_failed
  key,         \* the zone and outcome each proposal commands
  row,         \* tier_c_proposals.decision_state, or "none"
  intent,      \* tier_c_safe_default_intents.outcome, or "none"
  phase,       \* where the workflow, and the settler, of each proposal is
  target,      \* the decision a workflow is closing its proposal with
  expired,     \* proposals whose monotonic deadline has passed
  pending,     \* _pending_outcomes
  append,      \* the outcome a running append task carries, or "none"
  unappended,  \* _append_failed
  unknown,     \* _unknown_live
  marking,     \* running dispatch-started marker tasks
  swept,       \* what this settlement has already taken up
  driven,      \* whether the executor was ever entered for the proposal
  defaulted    \* whether its safe default was ever attempted

store  == <<row, intent>>
memory == <<pending, append, unappended, unknown, marking>>
ghosts == <<driven, defaulted>>
vars   == <<mode, failed, key, row, intent, phase, target, expired, pending, append,
            unappended, unknown, marking, swept, driven, defaulted>>

-----------------------------------------------------------------------------
(* Decision states *)

Uncertain == {"dispatch_outcome_unknown", "dispatch_not_proven"}
InFlight  == {"approved_pending_dispatch", "dispatch_started"}
Blocking  == InFlight \cup Uncertain

\* Closed with no act: each owes the proposal's one safe default.
Declined ==
  {"rejected", "proposal_expired", "proposal_aborted_restart", "approval_binding_changed",
   "proposal_blocked_uncertain_outcome", "approval_expired_undispatched",
   "dispatch_refused_contention"}

\* The outcomes an executor's answer is recorded as.
Reported == {"executed", "dispatch_failed", "dispatch_outcome_unknown"}

Reconciled == {"reconciled_executed", "reconciled_not_executed"}

DecisionStates == {"proposed"} \cup Blocking \cup Declined \cup Reported \cup Reconciled

Workers == {"workflow", "settler"}

\* proposing, admitting, closing, ensuring, marking: a store call is awaited;
\* listening: a reply is; admitted: the approval is committed; driving: the
\* executor is entered; attempting: the safe default runs; over: it returned.
Phases == {"idle", "proposing", "listening", "admitting", "admitted", "driving",
           "closing", "ensuring", "attempting", "marking", "over"}

Goto(w, p, ph) == phase' = [phase EXCEPT ![w][p] = ph]

Live == mode \in {"ready", "stopping"}

Rivals(p) == {q \in Proposals : q # p /\ key[q] = key[p]}

-----------------------------------------------------------------------------
(* The proposal row *)

\* tier_c_outcome_held_live
HeldLive(p) == \E q \in unappended \cup unknown : key[q] = key[p]

\* A new governed proposal: refused over an outcome this process could not
\* append, and while recovery at start did not complete.
Propose(p) ==
  /\ mode = "ready" /\ ~failed
  /\ phase["workflow"][p] = "idle"
  /\ \/ HeldLive(p) /\ Goto("workflow", p, "over")
     \/ ~HeldLive(p) /\ Goto("workflow", p, "proposing")
  /\ UNCHANGED <<mode, failed, key, store, target, expired, memory, swept, ghosts>>

\* create_tier_c_proposal: only an unresolved uncertainty blocks it here.
CreateRow(p) ==
  /\ Live /\ phase["workflow"][p] = "proposing"
  /\ \/ /\ ~\E q \in Rivals(p) : row[q] \in Uncertain
        /\ row' = [row EXCEPT ![p] = "proposed"]
        /\ Goto("workflow", p, "listening")
     \/ Goto("workflow", p, "over") /\ UNCHANGED row
  /\ UNCHANGED <<mode, failed, key, intent, target, expired, memory, swept, ghosts>>

-----------------------------------------------------------------------------
(* Listening and admission *)

DeadlinePasses(p) ==
  /\ Live /\ p \notin expired
  /\ phase["workflow"][p] \in {"proposing", "listening", "admitting", "admitted"}
  /\ expired' = expired \cup {p}
  /\ UNCHANGED <<mode, failed, key, store, phase, target, memory, swept, ghosts>>

\* An affirmative reply in time goes to the store.
ReplyYes(p) ==
  /\ Live /\ phase["workflow"][p] = "listening" /\ p \notin expired
  /\ Goto("workflow", p, "admitting")
  /\ UNCHANGED <<mode, failed, key, store, target, expired, memory, swept, ghosts>>

\* A NO, a deadline, or a listener that ended.
EndListening(p, decision) ==
  /\ Live /\ phase["workflow"][p] = "listening"
  /\ Goto("workflow", p, "closing")
  /\ target' = [target EXCEPT ![p] = decision]
  /\ UNCHANGED <<mode, failed, key, store, expired, memory, swept, ghosts>>

\* Mutant: at admission too only an uncertainty blocks.
BlockedByUncertaintyOnly(p) == \E q \in Rivals(p) : row[q] \in Uncertain

\* _tier_c_outcome_blocked at reply admission.
Blocked(p) == \E q \in Rivals(p) : row[q] \in Blocking

\* Mutant: one more than the structure holds.
RoomForOneMore == Cardinality({q \in Proposals : row[q] \in InFlight}) <= Ceiling

\* The reservation of the terminal record.
Room == Cardinality({q \in Proposals : row[q] \in InFlight}) < Ceiling

\* The answer of admit_tier_c_approval to a reply whose binding and authority
\* bytes match the row's or do not: the state the row is moved to.
Admission(p, same) ==
  CASE row[p] # "proposed" -> row[p]
    [] row[p] = "proposed" /\ ~same -> "approval_binding_changed"
    [] row[p] = "proposed" /\ same /\ Blocked(p) -> "proposal_blocked_uncertain_outcome"
    [] row[p] = "proposed" /\ same /\ ~Blocked(p) /\ ~Room -> "proposed"
    [] row[p] = "proposed" /\ same /\ ~Blocked(p) /\ Room -> "approved_pending_dispatch"

\* Mutant: the intent is left to whoever closes the proposal next.
OweNothing(p, state) == UNCHANGED intent

\* _insert_tier_c_intent, in the transaction that closes the proposal.
Owe(p, state) ==
  intent' = IF state \in Declined /\ intent[p] = "none"
              THEN [intent EXCEPT ![p] = "pending"] ELSE intent

\* The admission transaction.  A refusal that leaves the proposal open leaves
\* its workflow listening; a cancelled workflow never hears the answer.
Admit(p, same) ==
  /\ Live /\ phase["workflow"][p] = "admitting"
  /\ row' = [row EXCEPT ![p] = Admission(p, same)]
  /\ Owe(p, row'[p])
  /\ \/ Goto("workflow", p, CASE row'[p] = "approved_pending_dispatch" -> "admitted"
                              [] row'[p] = "proposed" -> "listening"
                              [] OTHER -> "ensuring")
     \/ mode = "stopping" /\ Goto("workflow", p, "over")
  /\ UNCHANGED <<mode, failed, key, target, expired, memory, swept, ghosts>>

\* The store could not answer, and the reply is not an approval.
AdmitRaises(p) ==
  /\ Live /\ phase["workflow"][p] = "admitting"
  /\ Goto("workflow", p, "listening")
  /\ UNCHANGED <<mode, failed, key, store, target, expired, memory, swept, ghosts>>

-----------------------------------------------------------------------------
(* Dispatch of a committed approval: _dispatch_admitted *)

\* Mutant: the deadline is not looked at again after the admission.
InTimeUnchecked(p) == TRUE

InTime(p) == p \notin expired

RefuseDispatch(p, decision) ==
  /\ Goto("workflow", p, "closing")
  /\ target' = [target EXCEPT ![p] = decision]
  /\ UNCHANGED <<pending, marking, driven>>

\* The deadline again, the resource gate, and the act with its marker beside.
Dispatch(p, gateHolds) ==
  /\ Live /\ phase["workflow"][p] = "admitted"
  /\ \/ ~InTime(p) /\ RefuseDispatch(p, "approval_expired_undispatched")
     \/ InTime(p) /\ ~gateHolds /\ RefuseDispatch(p, "dispatch_refused_contention")
     \/ /\ InTime(p) /\ gateHolds
        /\ Goto("workflow", p, "driving")
        /\ pending' = pending \cup {p}
        /\ marking' = marking \cup {p}
        /\ driven' = [driven EXCEPT ![p] = TRUE]
        /\ UNCHANGED target
  /\ UNCHANGED <<mode, failed, key, store, expired, append, unappended, unknown, swept,
                 defaulted>>

\* advance_tier_c_proposal: forward from a named state, or not at all.
Advance(p, from, to) == row' = IF row[p] \in from THEN [row EXCEPT ![p] = to] ELSE row

\* The marker task: dispatch_started, unless the outcome was there first.
MarkStarted(p, ok) ==
  /\ Live /\ p \in marking
  /\ marking' = marking \ {p}
  /\ IF ok THEN Advance(p, {"approved_pending_dispatch"}, "dispatch_started")
           ELSE UNCHANGED row
  /\ UNCHANGED <<mode, failed, key, intent, phase, target, expired, pending, append, unappended,
                 unknown, swept, ghosts>>

\* The executor answers, or raises, or is cancelled: _record_outcome.
ExecutorAnswers(p, outcome) ==
  /\ Live /\ phase["workflow"][p] = "driving"
  /\ Goto("workflow", p, "over")
  /\ IF Cardinality(pending) > Ceiling
       THEN /\ pending' = pending \ {p}
            /\ unknown' = unknown \cup {p}
            /\ UNCHANGED append
       ELSE /\ append' = [append EXCEPT ![p] = outcome]
            /\ UNCHANGED <<pending, unknown>>
  /\ UNCHANGED <<mode, failed, key, store, target, expired, unappended, marking, swept, ghosts>>

\* Mutant: the marker must have landed before the outcome may.
AppendableOnceMarked == {"dispatch_started"}

Appendable == InFlight

\* The append task: tried until the store takes it.
AppendOutcome(p) ==
  /\ Live /\ append[p] # "none"
  /\ Advance(p, Appendable, append[p])
  /\ append' = [append EXCEPT ![p] = "none"]
  /\ pending' = pending \ {p}
  /\ unappended' = unappended \ {p}
  /\ UNCHANGED <<mode, failed, key, intent, phase, target, expired, unknown, marking, swept,
                 ghosts>>

AppendRaises(p) ==
  /\ Live /\ append[p] # "none" /\ p \notin unappended
  /\ unappended' = unappended \cup {p}
  /\ UNCHANGED <<mode, failed, key, store, phase, target, expired, pending, append, unknown,
                 marking, swept, ghosts>>

-----------------------------------------------------------------------------
(* Closing a proposal and its one safe default *)

ClosableFrom(decision) ==
  IF decision \in {"approval_expired_undispatched", "dispatch_refused_contention"}
    THEN {"approved_pending_dispatch"} ELSE {"proposed"}

Decision(w, p) == IF w = "settler" THEN "proposal_aborted_restart" ELSE target[p]

\* Mutant: the safe default is attempted although the row was elsewhere.
AfterCloseAlways(w, moved) == "ensuring"

AfterClose(w, moved) == IF moved \/ w = "workflow" THEN "ensuring" ELSE "over"

\* _close_now moves the row and owes the default in one transaction; a row
\* found elsewhere is left.  A settler then stops, a workflow goes on.
Close(w, p) ==
  /\ mode # "down" /\ phase[w][p] = "closing"
  /\ LET moved == row[p] \in ClosableFrom(Decision(w, p))
     IN /\ Advance(p, ClosableFrom(Decision(w, p)), Decision(w, p))
        /\ Owe(p, row'[p])
        /\ \/ Goto(w, p, AfterClose(w, moved))
           \/ mode = "stopping" /\ Goto(w, p, "over")
  /\ UNCHANGED <<mode, failed, key, target, expired, memory, swept, ghosts>>

\* Six attempts raised: the row stays for the next start.
CloseLost(w, p) ==
  /\ mode # "down" /\ phase[w][p] = "closing"
  /\ Goto(w, p, IF w = "workflow" THEN "ensuring" ELSE "over")
  /\ UNCHANGED <<mode, failed, key, store, target, expired, memory, swept, ghosts>>

\* ensure_tier_c_safe_default_intent: attempted while pending, and also when
\* the store could not say.
EnsureIntent(w, p) ==
  /\ mode # "down" /\ phase[w][p] = "ensuring"
  /\ \/ /\ intent' = [intent EXCEPT ![p] = IF @ = "none" THEN "pending" ELSE @]
        /\ Goto(w, p, IF intent[p] = "done" THEN "over" ELSE "attempting")
     \/ Goto(w, p, "attempting") /\ UNCHANGED intent
  /\ UNCHANGED <<mode, failed, key, row, target, expired, memory, swept, ghosts>>

AttemptDefault(w, p) ==
  /\ mode # "down" /\ phase[w][p] = "attempting"
  /\ defaulted' = [defaulted EXCEPT ![p] = TRUE]
  /\ Goto(w, p, "marking")
  /\ UNCHANGED <<mode, failed, key, store, target, expired, memory, swept, driven>>

\* mark_tier_c_safe_default_intent updates the row there is; a mark that
\* raised leaves the intent pending for the next start.
MarkIntent(w, p) ==
  /\ mode # "down" /\ phase[w][p] = "marking"
  /\ \/ intent' = [intent EXCEPT ![p] = IF @ = "none" THEN "none" ELSE "done"]
     \/ UNCHANGED intent
  /\ Goto(w, p, "over")
  /\ UNCHANGED <<mode, failed, key, row, target, expired, memory, swept, ghosts>>

-----------------------------------------------------------------------------
(* Start, stop, crash *)

Quiet == \A p \in Proposals : phase["settler"][p] \in {"idle", "over"}

Start ==
  /\ mode = "down"
  /\ mode' = "recovering" /\ failed' = FALSE /\ swept' = {}
  /\ UNCHANGED <<key, store, phase, target, expired, memory, ghosts>>

\* Mutant: an approval no marker accompanies is taken as never dispatched.
SettledAsUndispatched(p) ==
  IF row[p] = "approved_pending_dispatch"
    THEN "approval_expired_undispatched" ELSE "dispatch_outcome_unknown"

\* What a restart makes of an approval without an outcome; never a replay.
SettledAs(p) ==
  IF row[p] = "approved_pending_dispatch"
    THEN "dispatch_not_proven" ELSE "dispatch_outcome_unknown"

\* recover_tier_c_at_start, one in-flight approval.
RecoverApproval(p) ==
  /\ mode = "recovering" /\ Quiet /\ row[p] \in InFlight
  /\ row' = [row EXCEPT ![p] = SettledAs(p)]
  /\ UNCHANGED <<mode, failed, key, intent, phase, target, expired, memory, swept, ghosts>>

\* _abort_open_proposal, at start and at a graceful stop.
AbortOpen(p) ==
  /\ mode \in {"recovering", "stopping"} /\ Quiet
  /\ row[p] = "proposed" /\ p \notin swept
  /\ swept' = swept \cup {p}
  /\ Goto("settler", p, "closing")
  /\ UNCHANGED <<mode, failed, key, store, target, expired, memory, ghosts>>

\* Every row is settled: the safe defaults still owed come next.
RowsRecovered ==
  /\ mode = "recovering" /\ Quiet
  /\ \A p \in Proposals : row[p] \notin InFlight /\ (row[p] = "proposed" => p \in swept)
  /\ mode' = "resuming" /\ swept' = {}
  /\ UNCHANGED <<failed, key, store, phase, target, expired, memory, ghosts>>

ResumeDefault(p) ==
  /\ mode = "resuming" /\ Quiet
  /\ intent[p] = "pending" /\ p \notin swept
  /\ swept' = swept \cup {p}
  /\ Goto("settler", p, "ensuring")
  /\ UNCHANGED <<mode, failed, key, store, target, expired, memory, ghosts>>

RecoveryEnds ==
  /\ mode = "resuming" /\ Quiet
  /\ \A p \in Proposals : intent[p] = "pending" => p \in swept
  /\ mode' = "ready"
  /\ UNCHANGED <<failed, key, store, phase, target, expired, memory, swept, ghosts>>

\* A store call of the recovery raised: Tier C fails closed, not the start.
RecoveryRaises ==
  /\ mode \in {"recovering", "resuming"} /\ Quiet
  /\ mode' = "ready" /\ failed' = TRUE
  /\ UNCHANGED <<key, store, phase, target, expired, memory, swept, ghosts>>

\* A graceful stop: nothing new is proposed, and tasks may be cancelled.
Stop ==
  /\ mode = "ready"
  /\ mode' = "stopping" /\ swept' = {}
  /\ UNCHANGED <<failed, key, store, phase, target, expired, memory, ghosts>>

\* A cancelled workflow that has no store call in flight.
Cancel(p) ==
  /\ mode = "stopping"
  /\ phase["workflow"][p] \in {"listening", "admitted", "attempting"}
  /\ Goto("workflow", p, "over")
  /\ UNCHANGED <<mode, failed, key, store, target, expired, memory, swept, ghosts>>

\* The process is gone, at the end of a stop or without one; the rows stay.
Crash ==
  /\ mode # "down"
  /\ mode' = "down"
  /\ phase' = [w \in Workers |-> [p \in Proposals |->
                 IF w = "workflow" /\ phase[w][p] # "idle" THEN "over" ELSE "idle"]]
  /\ target' = [p \in Proposals |-> "none"]
  /\ expired' = {} /\ pending' = {} /\ unappended' = {} /\ unknown' = {} /\ marking' = {}
  /\ append' = [p \in Proposals |-> "none"]
  /\ UNCHANGED <<failed, key, store, swept, ghosts>>

\* reconcile_tier_c: an operator's observation of an uncertain dispatch.
Reconcile(p, observed) ==
  /\ Live /\ row[p] \in Uncertain
  /\ row' = [row EXCEPT ![p] = observed]
  /\ unknown' = unknown \ {p}
  /\ UNCHANGED <<mode, failed, key, intent, phase, target, expired, pending, append, unappended,
                 marking, swept, ghosts>>

-----------------------------------------------------------------------------
Init ==
  /\ mode = "down" /\ failed = FALSE
  /\ key \in Assignments
  /\ row = [p \in Proposals |-> "none"]
  /\ intent = [p \in Proposals |-> "none"]
  /\ phase = [w \in Workers |-> [p \in Proposals |-> "idle"]]
  /\ target = [p \in Proposals |-> "none"]
  /\ expired = {} /\ pending = {} /\ unappended = {} /\ unknown = {} /\ marking = {}
  /\ append = [p \in Proposals |-> "none"]
  /\ swept = {}
  /\ driven = [p \in Proposals |-> FALSE]
  /\ defaulted = [p \in Proposals |-> FALSE]

Workflow(p) ==
  \/ Propose(p) \/ CreateRow(p) \/ ReplyYes(p) \/ AdmitRaises(p)
  \/ \E decision \in {"rejected", "proposal_expired"} : EndListening(p, decision)
  \/ \E same \in BOOLEAN : Admit(p, same)
  \/ \E gateHolds \in BOOLEAN : Dispatch(p, gateHolds)
  \/ \E outcome \in Reported : ExecutorAnswers(p, outcome)

Closing(w, p) ==
  \/ Close(w, p) \/ CloseLost(w, p) \/ EnsureIntent(w, p)
  \/ AttemptDefault(w, p) \/ MarkIntent(w, p)

Recovery ==
  \/ RowsRecovered \/ RecoveryEnds
  \/ \E p \in Proposals : RecoverApproval(p) \/ AbortOpen(p) \/ ResumeDefault(p)

Next ==
  \/ Start \/ Stop \/ Crash \/ Recovery \/ RecoveryRaises
  \/ \E p \in Proposals :
       \/ Workflow(p) \/ DeadlinePasses(p) \/ Cancel(p)
       \/ \E w \in Workers : Closing(w, p)
       \/ \E ok \in BOOLEAN : MarkStarted(p, ok)
       \/ AppendOutcome(p) \/ AppendRaises(p)
       \/ \E observed \in Reconciled : Reconcile(p, observed)

Spec == Init /\ [][Next]_vars

\* The runtime is started again; the loop runs every ready task; a deadline
\* comes; the store asked for ever takes the outcome.  Nothing is asked of
\* the operator, the executor's answer or any other store call.
Fairness ==
  /\ WF_vars(Start) /\ WF_vars(Recovery)
  /\ \A p \in Proposals :
       /\ WF_vars(Workflow(p)) /\ WF_vars(DeadlinePasses(p))
       /\ \A w \in Workers : WF_vars(Closing(w, p))
       /\ WF_vars(AppendOutcome(p))

FairSpec == Spec /\ Fairness

-----------------------------------------------------------------------------
(* Properties *)

\* DecisionStates leaves out approval_aborted_undispatched: no code path moves
\* a proposal there.
TypeOK ==
  /\ mode \in {"down", "recovering", "resuming", "ready", "stopping"}
  /\ failed \in BOOLEAN
  /\ key \in [Proposals -> Keys]
  /\ row \in [Proposals -> DecisionStates \cup {"none"}]
  /\ intent \in [Proposals -> {"none", "pending", "done"}]
  /\ phase \in [Workers -> [Proposals -> Phases]]
  /\ target \in [Proposals -> Declined \cup {"none"}]
  /\ expired \subseteq Proposals
  /\ pending \subseteq Proposals /\ unappended \subseteq Proposals
  /\ unknown \subseteq Proposals /\ marking \subseteq Proposals /\ swept \subseteq Proposals
  /\ append \in [Proposals -> Reported \cup {"none"}]
  /\ driven \in [Proposals -> BOOLEAN] /\ defaulted \in [Proposals -> BOOLEAN]

\* At most one approval of an outcome on a zone is in flight or unresolved,
\* across workflows, restarts and reconciliations (admit_tier_c_approval).
OneUnresolved ==
  \A p, q \in Proposals :
    p # q /\ key[p] = key[q] => ~(row[p] \in Blocking /\ row[q] \in Blocking)

\* Whatever crashed, no row says that an act the executor was entered for was
\* declined, expired or never dispatched (_dispatch_admitted,
\* recover_tier_c_at_start: "absence of the marker does not prove dispatch
\* never began").
RowNeverDeniesAct ==
  \A p \in Proposals :
    driven[p] => row[p] \notin Declined \cup {"none", "proposed"}

\* A proposal is carried out or answered by its safe default, never both,
\* although a stop, a restart and the workflow may all attempt the default
\* (_safe_default_intent).
ActOrDefault == \A p \in Proposals : ~(driven[p] /\ defaulted[p])

\* The reservation the approval took is kept: the outcome of an act always
\* has room among the pending outcomes, so _record_outcome never leaves a
\* live unknown while the store exists.
OutcomeAlwaysHeld == unknown = {}

\* A proposal closed without an act owes its safe default durably, from the
\* same transaction on (advance_tier_c_proposal, admit_tier_c_approval).
ClosedOwesDefault ==
  \A p \in Proposals : row[p] \in Declined => intent[p] # "none"

Acts(p) == ~driven[p] /\ driven'[p]

\* No act begins while an earlier act of the same outcome on the same zone
\* has no known end, in this process or one before it.
NoActOverUncertainty ==
  [][\A p \in Proposals : Acts(p) =>
       \A q \in Rivals(p) : driven[q] => row[q] \notin Blocking]_vars

\* No act begins after its proposal's deadline, however long the admission
\* waited on the store.
NoLateAct == [][\A p \in Proposals : Acts(p) => p \notin expired]_vars

Settles == mode = "ready" /\ ~failed

\* In a process that stays up after a complete recovery, the outcome of every
\* act reaches its row (_record_outcome, recover_tier_c_at_start).
OutcomeLands ==
  <>[]Settles => []<>(\A p \in Proposals : driven[p] => row[p] \notin InFlight)

\* In such a process every proposal closed without an act has had its safe
\* default attempted, the ones a crash or a cancelled task left included
\* (_safe_default_intent, recover_tier_c_at_start).
DefaultAttempted ==
  <>[]Settles => []<>(\A p \in Proposals : row[p] \in Declined => defaulted[p])
=============================================================================
