------------------------ MODULE TierCApprovalProofs ------------------------
(***************************************************************************)
(* What the governed Tier C approval guarantees for every number of        *)
(* proposals, outcomes and pending records: the theorems at the end, from  *)
(* the invariant IInv.  The safety properties are not inductive as they    *)
(* stand: a row says nothing false only because of where the workflow and  *)
(* the settler that may still write it are, which Sound records.           *)
(***************************************************************************)
EXTENDS TierCApproval, FiniteSetTheorems, TLAPS

\* Where the workflow of p is, and what the row, the intent and the act are then.
WorkflowSound(p) ==
  LET at == phase["workflow"][p] IN
  /\ at \in {"idle", "proposing"} =>
       row[p] = "none" /\ intent[p] = "none" /\ ~driven[p] /\ ~defaulted[p]
  /\ at \in {"listening", "admitting"} =>
       /\ ~driven[p]
       /\ row[p] \in {"proposed", "proposal_aborted_restart"}
       /\ row[p] = "proposed" => intent[p] = "none" /\ ~defaulted[p]
  /\ at = "admitted" =>
       /\ row[p] = "approved_pending_dispatch"
       /\ intent[p] = "none" /\ ~driven[p] /\ ~defaulted[p]
  /\ at = "closing" => ~driven[p] /\ target[p] # "none"
  /\ at \in {"ensuring", "attempting", "marking"} => ~driven[p]
  /\ at = "driving" =>
       driven[p] /\ row[p] \in InFlight /\ p \in pending /\ append[p] = "none"
  /\ ~Live => at \in {"idle", "over"}

\* What the tasks beside it, the settler and the rows rest on.
RowSound(p) ==
  /\ append[p] # "none" =>
       /\ driven[p] /\ row[p] \in InFlight /\ p \in pending
       /\ phase["workflow"][p] = "over"
  /\ p \in pending => driven[p] /\ row[p] \in InFlight
  /\ p \in marking => driven[p]
  /\ driven[p] => /\ intent[p] = "none" /\ ~defaulted[p]
                  /\ row[p] \notin Declined \cup {"none", "proposed"}
  /\ phase["settler"][p] \in {"ensuring", "attempting", "marking"} => intent[p] # "none"
  /\ row[p] \in Declined => intent[p] # "none"
  /\ ~Live => p \notin pending /\ p \notin marking /\ append[p] = "none"

Sound(p) == WorkflowSound(p) /\ RowSound(p)

\* The rows that have reserved room for their outcome.
Reserving == {q \in Proposals : row[q] \in InFlight}

Reserved == Cardinality(Reserving) <= Ceiling

IInv ==
  /\ TypeOK
  /\ \A p \in Proposals : Sound(p)
  /\ OneUnresolved
  /\ Reserved
  /\ OutcomeAlwaysHeld

-----------------------------------------------------------------------------
(* A step that concerns one proposal *)

\* The step leaves everything Sound(q) speaks of alone.
Untouched(q) ==
  /\ row'[q] = row[q] /\ intent'[q] = intent[q]
  /\ phase'["workflow"][q] = phase["workflow"][q]
  /\ phase'["settler"][q] = phase["settler"][q]
  /\ target'[q] = target[q] /\ append'[q] = append[q]
  /\ driven'[q] = driven[q] /\ defaulted'[q] = defaulted[q]
  /\ (q \in pending') = (q \in pending)
  /\ (q \in marking') = (q \in marking)

\* A coroutine that moves leaves every other where it is.
LEMMA GotoLemma ==
  ASSUME TypeOK, NEW w \in Workers, NEW p \in Proposals, NEW ph \in Phases,
         Goto(w, p, ph)
  PROVE  /\ phase' \in [Workers -> [Proposals -> Phases]]
         /\ phase'[w][p] = ph
         /\ \A v \in Workers : \A q \in Proposals :
              v # w \/ q # p => phase'[v][q] = phase[v][q]
  BY DEF TypeOK, Goto

\* What an untouched proposal satisfied, it still does.
LEMMA UntouchedLemma ==
  ASSUME NEW q \in Proposals, Sound(q), Untouched(q), mode' = mode
  PROVE  Sound(q)'
<1> Live' = Live
  BY DEF Live
<1>1. WorkflowSound(q)'
  BY DEF Sound, WorkflowSound, Untouched
<1>2. RowSound(q)'
  BY DEF Sound, RowSound, Untouched
<1> QED  BY <1>1, <1>2 DEF Sound

\* No row enters a blocking or a reserving state: what holds of them holds on.
LEMMA RecedingLemma ==
  ASSUME OneUnresolved, Reserved, key' = key,
         \A q \in Proposals : row'[q] \in Blocking => row[q] \in Blocking,
         \A q \in Proposals : row'[q] \in InFlight => row[q] \in InFlight
  PROVE  OneUnresolved' /\ Reserved'
<1>1. OneUnresolved'
  BY DEF OneUnresolved, Blocking, InFlight, Uncertain
<1>2. IsFiniteSet(Reserving)
  BY ProposalsAssumption, FS_Subset DEF Reserving
<1>3. Reserving' \subseteq Reserving
  BY DEF Reserving, InFlight
<1>4. Cardinality(Reserving') <= Cardinality(Reserving) /\ IsFiniteSet(Reserving')
  BY <1>2, <1>3, FS_Subset
<1>5. Cardinality(Reserving) \in Nat /\ Cardinality(Reserving') \in Nat
  BY <1>2, <1>4, FS_CardinalityType
<1>6. Reserved'
  BY <1>4, <1>5, CeilingAssumption DEF Reserved
<1> QED  BY <1>1, <1>6

\* A step of one proposal whose row enters no such state.
LEMMA StepLemma ==
  ASSUME IInv, NEW p \in Proposals, TypeOK', Sound(p)',
         mode' = mode, key' = key, unknown' = unknown,
         \A q \in Proposals \ {p} : Untouched(q),
         row'[p] \in Blocking => row[p] \in Blocking,
         row'[p] \in InFlight => row[p] \in InFlight
  PROVE  IInv'
<1>1. \A q \in Proposals : Sound(q)'
  BY UntouchedLemma DEF IInv
<1>2. OneUnresolved' /\ Reserved'
  <2>1. \A q \in Proposals : row'[q] \in Blocking => row[q] \in Blocking
    BY DEF Untouched
  <2>2. \A q \in Proposals : row'[q] \in InFlight => row[q] \in InFlight
    BY DEF Untouched
  <2> QED  BY <2>1, <2>2, RecedingLemma DEF IInv
<1>3. OutcomeAlwaysHeld'
  BY DEF IInv, OutcomeAlwaysHeld
<1> QED  BY <1>1, <1>2, <1>3 DEF IInv


\* A step that only moves a coroutine of one proposal.
LEMMA MoveLemma ==
  ASSUME IInv, NEW w \in Workers, NEW p \in Proposals, NEW ph \in Phases,
         Goto(w, p, ph), Sound(p)',
         UNCHANGED <<mode, failed, key, store, expired, memory, ghosts>>,
         target' \in [Proposals -> Declined \cup {"none"}],
         \A q \in Proposals \ {p} : target'[q] = target[q],
         swept' \subseteq Proposals
  PROVE  IInv'
<1>0. TypeOK
  BY DEF IInv
<1>1. TypeOK'
  BY <1>0, GotoLemma DEF TypeOK, store, memory, ghosts
<1>2. \A q \in Proposals \ {p} : Untouched(q)
  BY <1>0, GotoLemma DEF Untouched, Workers, store, memory, ghosts
<1> QED  BY <1>1, <1>2, StepLemma DEF store, memory

-----------------------------------------------------------------------------
(* The workflow up to the admission *)

\* The steps that only move the workflow or its deadline.
LEMMA ListeningLemma ==
  ASSUME IInv, NEW p \in Proposals,
         \/ Propose(p) \/ ReplyYes(p) \/ AdmitRaises(p) \/ Cancel(p) \/ DeadlinePasses(p)
         \/ \E decision \in {"rejected", "proposal_expired"} : EndListening(p, decision)
  PROVE  IInv'
<1> USE DEF Workers, Phases, Declined
<1>0. TypeOK /\ Sound(p)
  BY DEF IInv
<1>1. CASE Propose(p)
  <2>1. PICK ph \in {"over", "proposing"} : Goto("workflow", p, ph)
    BY <1>1 DEF Propose
  <2>2. Sound(p)'
    BY <1>0, <1>1, <2>1, GotoLemma
       DEF Sound, WorkflowSound, RowSound, Live, Propose, store, memory, ghosts
  <2> QED  BY <1>0, <1>1, <2>1, <2>2, MoveLemma DEF Propose, TypeOK
<1>2. CASE ReplyYes(p)
  <2>1. Sound(p)'
    BY <1>0, <1>2, GotoLemma
       DEF Sound, WorkflowSound, RowSound, Live, ReplyYes, store, memory, ghosts
  <2> QED  BY <1>0, <1>2, <2>1, MoveLemma DEF ReplyYes, TypeOK
<1>3. CASE AdmitRaises(p)
  <2>1. Sound(p)'
    BY <1>0, <1>3, GotoLemma
       DEF Sound, WorkflowSound, RowSound, Live, AdmitRaises, store, memory, ghosts
  <2> QED  BY <1>0, <1>3, <2>1, MoveLemma DEF AdmitRaises, TypeOK
<1>4. CASE Cancel(p)
  <2>1. Sound(p)'
    BY <1>0, <1>4, GotoLemma
       DEF Sound, WorkflowSound, RowSound, Live, Cancel, store, memory, ghosts
  <2> QED  BY <1>0, <1>4, <2>1, MoveLemma DEF Cancel, TypeOK
<1>5. CASE DeadlinePasses(p)
  <2>1. TypeOK'
    BY <1>0, <1>5 DEF TypeOK, DeadlinePasses, store, memory, ghosts
  <2>2. \A q \in Proposals : Untouched(q)
    BY <1>5 DEF Untouched, DeadlinePasses, store, memory, ghosts
  <2>3. Sound(p)'
    BY <1>0, <1>5, <2>2, UntouchedLemma DEF DeadlinePasses
  <2> QED  BY <1>5, <2>1, <2>2, <2>3, StepLemma DEF DeadlinePasses, store, memory
<1>6. CASE \E decision \in {"rejected", "proposal_expired"} : EndListening(p, decision)
  <2>0. PICK decision \in {"rejected", "proposal_expired"} : EndListening(p, decision)
    BY <1>6
  <2>1. Sound(p)'
    BY <1>0, <2>0, GotoLemma
       DEF Sound, WorkflowSound, RowSound, Live, EndListening, store, memory, ghosts, TypeOK
  <2> QED  BY <1>0, <2>0, <2>1, MoveLemma DEF EndListening, TypeOK
<1> QED  BY <1>1, <1>2, <1>3, <1>4, <1>5, <1>6

\* The insert of the row.
LEMMA CreateLemma ==
  ASSUME IInv, NEW p \in Proposals, CreateRow(p)
  PROVE  IInv'
<1> USE DEF Workers, Phases, Declined, Uncertain, InFlight, Blocking, DecisionStates
<1>0. TypeOK /\ Sound(p)
  BY DEF IInv
<1>1. PICK ph \in {"over", "listening"} : Goto("workflow", p, ph)
  BY DEF CreateRow
<1>2. row' \in [Proposals -> DecisionStates \cup {"none"}]
  BY <1>0 DEF CreateRow, TypeOK
<1>3. TypeOK'
  BY <1>0, <1>1, <1>2, GotoLemma DEF TypeOK, CreateRow, memory, ghosts
<1>4. \A q \in Proposals \ {p} : Untouched(q)
  BY <1>0, <1>1, GotoLemma DEF Untouched, CreateRow, memory, ghosts, TypeOK
<1>5. \/ row'[p] = "proposed" /\ phase'["workflow"][p] = "listening"
      \/ row'[p] = row[p] /\ phase'["workflow"][p] = "over"
  BY <1>0, GotoLemma DEF CreateRow, TypeOK
<1>6. Sound(p)'
  BY <1>0, <1>1, <1>5, GotoLemma
     DEF Sound, WorkflowSound, RowSound, Live, CreateRow, memory, ghosts
<1> QED  BY <1>3, <1>4, <1>5, <1>6, StepLemma DEF CreateRow, memory

\* The admission: the one step that takes a row into a blocking state, and
\* only past _tier_c_outcome_blocked and the reservation.
LEMMA AdmitLemma ==
  ASSUME IInv, NEW p \in Proposals, NEW same \in BOOLEAN, Admit(p, same)
  PROVE  IInv'
<1> USE DEF Workers, Phases, Declined, Uncertain, InFlight, Blocking, DecisionStates
<1>0. TypeOK /\ Sound(p) /\ OneUnresolved /\ Reserved
  BY DEF IInv
<1>1. row[p] \in {"proposed", "proposal_aborted_restart"} /\ ~driven[p]
  BY <1>0 DEF Admit, Sound, WorkflowSound
<1>2. /\ row' = [row EXCEPT ![p] = Admission(p, same)]
      /\ row'[p] = Admission(p, same)
  BY <1>0 DEF Admit, TypeOK
<1>3. \/ row[p] = "proposal_aborted_restart" /\ row'[p] = row[p]
      \/ /\ row[p] = "proposed"
         /\ row'[p] \in {"proposed", "approval_binding_changed",
                         "proposal_blocked_uncertain_outcome"}
      \/ /\ row[p] = "proposed" /\ row'[p] = "approved_pending_dispatch"
         /\ ~Blocked(p) /\ Room
  BY <1>1, <1>2 DEF Admission
<1>4. /\ intent' \in [Proposals -> {"none", "pending", "done"}]
      /\ \A q \in Proposals \ {p} : intent'[q] = intent[q]
      /\ row'[p] \in Declined => intent'[p] # "none"
      /\ row'[p] \notin Declined => intent'[p] = intent[p]
      /\ intent[p] # "none" => intent'[p] # "none"
  BY <1>0 DEF Admit, Owe, TypeOK
<1>5. PICK ph \in {"admitted", "listening", "ensuring", "over"} :
        /\ Goto("workflow", p, ph)
        /\ ph = "admitted" => row'[p] = "approved_pending_dispatch"
        /\ ph = "listening" => row'[p] = "proposed"
  BY DEF Admit
<1>6. TypeOK'
  <2>1. row' \in [Proposals -> DecisionStates \cup {"none"}]
    BY <1>0, <1>2, <1>3 DEF TypeOK
  <2>2. phase' \in [Workers -> [Proposals -> Phases]]
    BY <1>0, <1>5, GotoLemma
  <2>3. UNCHANGED <<mode, failed, key, target, expired, memory, swept, ghosts>>
    BY DEF Admit
  <2> QED  BY <1>0, <1>4, <2>1, <2>2, <2>3 DEF TypeOK, memory, ghosts
<1>7. \A q \in Proposals \ {p} : Untouched(q)
  BY <1>0, <1>2, <1>4, <1>5, GotoLemma DEF Untouched, Admit, memory, ghosts, TypeOK
<1>8. Sound(p)'
  <2>1. WorkflowSound(p)'
    BY <1>0, <1>1, <1>3, <1>4, <1>5, GotoLemma
       DEF Sound, WorkflowSound, Live, Admit, memory, ghosts
  <2>2. RowSound(p)'
    BY <1>0, <1>1, <1>3, <1>4, <1>5, GotoLemma
       DEF Sound, RowSound, Live, Admit, memory, ghosts
  <2> QED  BY <2>1, <2>2 DEF Sound
<1>9. CASE row'[p] # "approved_pending_dispatch"
  <2>1. row'[p] \notin Blocking
    BY <1>3, <1>9
  <2> QED  BY <1>6, <1>7, <1>8, <2>1, StepLemma DEF Admit, memory
<1>10. CASE row'[p] = "approved_pending_dispatch"
  <2>1. ~Blocked(p) /\ Room
    BY <1>3, <1>10
  <2>2. \A q \in Proposals : Sound(q)'
    BY <1>7, <1>8, UntouchedLemma DEF IInv, Admit
  <2>3. OneUnresolved'
    BY <1>0, <1>7, <2>1 DEF OneUnresolved, Blocked, Rivals, Untouched, Admit
  <2>4. Reserved'
    <3>1. IsFiniteSet(Reserving) /\ Cardinality(Reserving) \in Nat
      BY ProposalsAssumption, FS_Subset, FS_CardinalityType DEF Reserving
    <3>2. Reserving' = Reserving \cup {p}
      BY <1>7, <1>10 DEF Reserving, Untouched
    <3>3. Cardinality(Reserving) < Ceiling
      BY <2>1 DEF Room, Reserving
    <3>4. Cardinality(Reserving \cup {p}) <= Cardinality(Reserving) + 1
      BY <3>1, FS_AddElement
    <3>5. Cardinality(Reserving \cup {p}) \in Nat
      BY <3>1, FS_AddElement, FS_CardinalityType
    <3>6. Cardinality(Reserving \cup {p}) <= Ceiling
      BY <3>1, <3>3, <3>4, <3>5, CeilingAssumption
    <3> QED  BY <3>2, <3>6 DEF Reserved
  <2>5. OutcomeAlwaysHeld'
    BY DEF IInv, OutcomeAlwaysHeld, Admit, memory
  <2> QED  BY <1>6, <2>2, <2>3, <2>4, <2>5 DEF IInv
<1> QED  BY <1>9, <1>10

-----------------------------------------------------------------------------
(* The act and its outcome *)

\* The executor is entered, or the approval closed undispatched.
LEMMA DispatchLemma ==
  ASSUME IInv, NEW p \in Proposals, NEW gateHolds \in BOOLEAN, Dispatch(p, gateHolds)
  PROVE  IInv'
<1> USE DEF Workers, Phases, Declined, InFlight
<1>0. TypeOK /\ Sound(p)
  BY DEF IInv
<1>1. CASE \E decision \in {"approval_expired_undispatched", "dispatch_refused_contention"} :
             RefuseDispatch(p, decision)
  <2>0. PICK decision \in {"approval_expired_undispatched", "dispatch_refused_contention"} :
          RefuseDispatch(p, decision)
    BY <1>1
  <2>1. UNCHANGED <<mode, failed, key, store, expired, memory, ghosts, swept>>
    BY <2>0 DEF Dispatch, RefuseDispatch, store, memory, ghosts
  <2>2. Sound(p)'
    BY <1>0, <2>0, <2>1, GotoLemma
       DEF Sound, WorkflowSound, RowSound, Live, Dispatch, RefuseDispatch, store, memory,
           ghosts, TypeOK
  <2> QED  BY <1>0, <2>0, <2>1, <2>2, MoveLemma DEF RefuseDispatch, TypeOK
<1>2. CASE /\ Goto("workflow", p, "driving")
           /\ pending' = pending \cup {p}
           /\ marking' = marking \cup {p}
           /\ driven' = [driven EXCEPT ![p] = TRUE]
           /\ UNCHANGED target
  <2>1. TypeOK'
    BY <1>0, <1>2, GotoLemma DEF TypeOK, Dispatch, store
  <2>2. \A q \in Proposals \ {p} : Untouched(q)
    BY <1>0, <1>2, GotoLemma DEF Untouched, Dispatch, store, TypeOK
  <2>3. Sound(p)'
    BY <1>0, <1>2, GotoLemma
       DEF Sound, WorkflowSound, RowSound, Live, Dispatch, store, TypeOK
  <2> QED  BY <2>1, <2>2, <2>3, StepLemma DEF Dispatch, store
<1> QED  BY <1>1, <1>2 DEF Dispatch

\* The marker beside the act.
LEMMA MarkLemma ==
  ASSUME IInv, NEW p \in Proposals, NEW ok \in BOOLEAN, MarkStarted(p, ok)
  PROVE  IInv'
<1> USE DEF Workers, Declined, InFlight, Uncertain, Blocking, DecisionStates
<1>0. TypeOK /\ Sound(p)
  BY DEF IInv
<1>1. /\ row' \in [Proposals -> DecisionStates \cup {"none"}]
      /\ \A q \in Proposals \ {p} : row'[q] = row[q]
      /\ \/ row'[p] = row[p]
         \/ row[p] = "approved_pending_dispatch" /\ row'[p] = "dispatch_started"
  BY <1>0 DEF MarkStarted, Advance, TypeOK
<1>2. TypeOK'
  BY <1>0, <1>1 DEF TypeOK, MarkStarted, ghosts
<1>3. \A q \in Proposals \ {p} : Untouched(q)
  BY <1>0, <1>1 DEF Untouched, MarkStarted, ghosts
<1>4. Sound(p)'
  BY <1>0, <1>1 DEF Sound, WorkflowSound, RowSound, Live, MarkStarted, ghosts
<1> QED  BY <1>1, <1>2, <1>3, <1>4, StepLemma DEF MarkStarted

\* The outcome is kept: the reservation leaves room for it.
LEMMA AnswerLemma ==
  ASSUME IInv, NEW p \in Proposals, NEW outcome \in Reported, ExecutorAnswers(p, outcome)
  PROVE  IInv'
<1> USE DEF Workers, Phases, Reported, InFlight
<1>0. TypeOK /\ Sound(p) /\ Reserved
  BY DEF IInv
<1>1. ~(Cardinality(pending) > Ceiling)
  <2>1. pending \subseteq Reserving
    BY DEF IInv, TypeOK, Sound, RowSound, Reserving
  <2>2. IsFiniteSet(Reserving)
    BY ProposalsAssumption, FS_Subset DEF Reserving
  <2>3. /\ Cardinality(pending) <= Cardinality(Reserving)
        /\ Cardinality(pending) \in Nat /\ Cardinality(Reserving) \in Nat
    BY <2>1, <2>2, FS_Subset, FS_CardinalityType
  <2> QED  BY <1>0, <2>3, CeilingAssumption DEF Reserved
<1>2. append' = [append EXCEPT ![p] = outcome] /\ UNCHANGED <<pending, unknown>>
  BY <1>1 DEF ExecutorAnswers
<1>3. TypeOK'
  BY <1>0, <1>2, GotoLemma DEF TypeOK, ExecutorAnswers, store, ghosts
<1>4. \A q \in Proposals \ {p} : Untouched(q)
  BY <1>0, <1>2, GotoLemma DEF Untouched, ExecutorAnswers, store, ghosts, TypeOK
<1>5. Sound(p)'
  BY <1>0, <1>2, GotoLemma
     DEF Sound, WorkflowSound, RowSound, Live, ExecutorAnswers, store, ghosts, TypeOK
<1> QED  BY <1>2, <1>3, <1>4, <1>5, StepLemma DEF ExecutorAnswers, store

\* The append task.
LEMMA AppendLemma ==
  ASSUME IInv, NEW p \in Proposals, AppendOutcome(p) \/ AppendRaises(p)
  PROVE  IInv'
<1> USE DEF Workers, Declined, InFlight, Uncertain, Blocking, DecisionStates, Reported
<1>0. TypeOK /\ Sound(p)
  BY DEF IInv
<1>1. CASE AppendOutcome(p)
  <2>1. append[p] \in Reported /\ row[p] \in InFlight /\ driven[p]
    BY <1>0, <1>1 DEF AppendOutcome, Sound, RowSound, TypeOK
  <2>2. /\ row' \in [Proposals -> DecisionStates \cup {"none"}]
        /\ \A q \in Proposals \ {p} : row'[q] = row[q]
        /\ row'[p] = append[p]
    BY <1>0, <1>1, <2>1 DEF AppendOutcome, Advance, Appendable, TypeOK
  <2>3. TypeOK'
    BY <1>0, <1>1, <2>2 DEF TypeOK, AppendOutcome, ghosts
  <2>4. \A q \in Proposals \ {p} : Untouched(q)
    BY <1>0, <1>1, <2>2 DEF Untouched, AppendOutcome, ghosts, TypeOK
  <2>5. Sound(p)'
    BY <1>0, <1>1, <2>1, <2>2
       DEF Sound, WorkflowSound, RowSound, Live, AppendOutcome, ghosts, TypeOK
  <2> QED  BY <1>1, <2>1, <2>2, <2>3, <2>4, <2>5, StepLemma DEF AppendOutcome
<1>2. CASE AppendRaises(p)
  <2>1. TypeOK'
    BY <1>0, <1>2 DEF TypeOK, AppendRaises, store, ghosts
  <2>2. \A q \in Proposals : Untouched(q)
    BY <1>2 DEF Untouched, AppendRaises, store, ghosts
  <2>3. Sound(p)'
    BY <1>0, <1>2, <2>2, UntouchedLemma DEF AppendRaises
  <2> QED  BY <1>2, <2>1, <2>2, <2>3, StepLemma DEF AppendRaises, store
<1> QED  BY <1>1, <1>2

\* An operator's observation of an uncertain dispatch.
LEMMA ReconcileLemma ==
  ASSUME IInv, NEW p \in Proposals, NEW observed \in Reconciled, Reconcile(p, observed)
  PROVE  IInv'
<1> USE DEF Workers, Declined, InFlight, Uncertain, Blocking, DecisionStates, Reconciled
<1>0. TypeOK /\ Sound(p) /\ OutcomeAlwaysHeld
  BY DEF IInv
<1>1. TypeOK'
  BY <1>0 DEF TypeOK, Reconcile, ghosts
<1>2. \A q \in Proposals \ {p} : Untouched(q)
  BY <1>0 DEF Untouched, Reconcile, ghosts, TypeOK
<1>3. row[p] \in Uncertain /\ row'[p] = observed
  BY <1>0 DEF Reconcile, TypeOK
<1>4. Sound(p)'
  BY <1>0, <1>3 DEF Sound, WorkflowSound, RowSound, Live, Reconcile, ghosts
<1> QED  BY <1>0, <1>1, <1>2, <1>3, <1>4, StepLemma DEF Reconcile, OutcomeAlwaysHeld

-----------------------------------------------------------------------------
(* Closing and the safe default *)

\* The close itself: a driven row is never the one that moves.
LEMMA CloseLemma ==
  ASSUME IInv, NEW w \in Workers, NEW p \in Proposals, Close(w, p)
  PROVE  IInv'
<1> USE DEF Workers, Phases, Declined, InFlight, Uncertain, Blocking, DecisionStates
<1>0. TypeOK /\ Sound(p)
  BY DEF IInv
<1> DEFINE decision == Decision(w, p)
           moved    == row[p] \in ClosableFrom(decision)
<1>1. decision \in Declined /\ (w = "workflow" => ~driven[p])
  BY <1>0 DEF Close, Decision, Sound, WorkflowSound, TypeOK
<1>2. moved => ~driven[p] /\ (w = "settler" => row[p] = "proposed")
  BY <1>0, <1>1 DEF ClosableFrom, Decision, Sound, RowSound
<1>3. /\ row' \in [Proposals -> DecisionStates \cup {"none"}]
      /\ \A q \in Proposals \ {p} : row'[q] = row[q]
      /\ row'[p] = IF moved THEN decision ELSE row[p]
  BY <1>0, <1>1 DEF Close, Advance, TypeOK
<1>4. /\ intent' \in [Proposals -> {"none", "pending", "done"}]
      /\ \A q \in Proposals \ {p} : intent'[q] = intent[q]
      /\ row'[p] \in Declined => intent'[p] # "none"
      /\ row'[p] \notin Declined => intent'[p] = intent[p]
      /\ intent[p] # "none" => intent'[p] # "none"
  BY <1>0 DEF Close, Owe, TypeOK
<1>5. PICK ph \in {"ensuring", "over"} :
        /\ Goto(w, p, ph)
        /\ ph = "ensuring" => moved \/ w = "workflow"
  BY DEF Close, AfterClose
<1>6. UNCHANGED <<mode, failed, key, target, expired, memory, swept, ghosts>>
  BY DEF Close
<1>7. TypeOK'
  <2>1. phase' \in [Workers -> [Proposals -> Phases]]
    BY <1>0, <1>5, GotoLemma
  <2> QED  BY <1>0, <1>3, <1>4, <1>6, <2>1 DEF TypeOK, memory, ghosts
<1>8. \A q \in Proposals \ {p} : Untouched(q)
  BY <1>0, <1>3, <1>4, <1>5, <1>6, GotoLemma DEF Untouched, memory, ghosts
<1>9. driven[p] => row'[p] = row[p] /\ intent'[p] = intent[p]
  <2>1. driven[p] => row'[p] = row[p]
    BY <1>2, <1>3
  <2> QED  BY <1>0, <1>4, <2>1 DEF Sound, RowSound
<1>10. WorkflowSound(p)'
  <2>1. CASE w = "workflow"
    BY <1>0, <1>1, <1>5, <1>6, <2>1, GotoLemma
       DEF Close, Sound, WorkflowSound, Live, memory, ghosts
  <2>2. CASE w = "settler"
    <3>1. decision = "proposal_aborted_restart"
      BY <2>2 DEF Decision
    <3>2. phase'["workflow"][p] = phase["workflow"][p]
      BY <1>0, <1>5, <2>2, GotoLemma
    <3>3. \/ row'[p] = row[p] /\ (row[p] \notin Declined => intent'[p] = intent[p])
          \/ row[p] = "proposed" /\ row'[p] = "proposal_aborted_restart"
      BY <1>2, <1>3, <1>4, <2>2, <3>1
    <3> QED  BY <1>0, <1>6, <3>2, <3>3
             DEF Sound, WorkflowSound, Live, memory, ghosts
  <2> QED  BY <2>1, <2>2
<1>11. RowSound(p)'
  <2>1. append[p] # "none" => phase'["workflow"][p] = "over"
    BY <1>0, <1>5, GotoLemma DEF Close, Sound, RowSound
  <2>2. phase'["settler"][p] \in {"ensuring", "attempting", "marking"} => intent'[p] # "none"
    BY <1>0, <1>1, <1>3, <1>4, <1>5, GotoLemma DEF Sound, RowSound
  <2> QED  BY <1>0, <1>4, <1>6, <1>9, <2>1, <2>2
           DEF Sound, RowSound, Live, memory, ghosts
<1>12. row'[p] \in Blocking => row[p] \in Blocking /\ row'[p] = row[p]
  BY <1>1, <1>3
<1>13. Sound(p)'
  BY <1>10, <1>11 DEF Sound
<1> QED  BY <1>6, <1>7, <1>8, <1>12, <1>13, StepLemma DEF memory

\* A close that was lost, and the safe default's three steps: none of them is
\* taken for a driven proposal.
LEMMA DefaultLemma ==
  ASSUME IInv, NEW w \in Workers, NEW p \in Proposals,
         CloseLost(w, p) \/ EnsureIntent(w, p) \/ AttemptDefault(w, p) \/ MarkIntent(w, p)
  PROVE  IInv'
<1> USE DEF Workers, Phases, Declined
<1>0. TypeOK /\ Sound(p)
  BY DEF IInv
<1>1. CASE CloseLost(w, p)
  <2>1. PICK ph \in {"ensuring", "over"} :
          Goto(w, p, ph) /\ (w = "settler" => ph = "over")
    BY <1>1 DEF CloseLost
  <2>2. Sound(p)'
    BY <1>0, <1>1, <2>1, GotoLemma
       DEF Sound, WorkflowSound, RowSound, Live, CloseLost, store, memory, ghosts
  <2> QED  BY <1>0, <1>1, <2>1, <2>2, MoveLemma DEF CloseLost, TypeOK
<1>2. CASE EnsureIntent(w, p)
  <2>1. PICK ph \in {"attempting", "over"} : Goto(w, p, ph)
    BY <1>2 DEF EnsureIntent
  <2>2. ~driven[p]
    BY <1>0, <1>2 DEF EnsureIntent, Sound, WorkflowSound, RowSound
  <2>3. /\ intent' \in [Proposals -> {"none", "pending", "done"}]
        /\ \A q \in Proposals \ {p} : intent'[q] = intent[q]
        /\ intent[p] # "none" => intent'[p] = intent[p]
    BY <1>0, <1>2 DEF EnsureIntent, TypeOK
  <2>4. UNCHANGED <<mode, failed, key, row, target, expired, memory, swept, ghosts>>
    BY <1>2 DEF EnsureIntent
  <2>5. TypeOK'
    <3>1. phase' \in [Workers -> [Proposals -> Phases]]
      BY <1>0, <2>1, GotoLemma
    <3> QED  BY <1>0, <2>3, <2>4, <3>1 DEF TypeOK, memory, ghosts
  <2>6. \A q \in Proposals \ {p} : Untouched(q)
    BY <1>0, <2>1, <2>3, <2>4, GotoLemma DEF Untouched, memory, ghosts
  <2>7. Sound(p)'
    <3>1. CASE w = "workflow"
      BY <1>0, <1>2, <2>1, <2>2, <2>3, <2>4, <3>1, GotoLemma
         DEF EnsureIntent, Sound, WorkflowSound, RowSound, Live, memory, ghosts
    <3>2. CASE w = "settler"
      BY <1>0, <1>2, <2>1, <2>2, <2>3, <2>4, <3>2, GotoLemma
         DEF EnsureIntent, Sound, WorkflowSound, RowSound, Live, memory, ghosts
    <3> QED  BY <3>1, <3>2
  <2> QED  BY <2>4, <2>5, <2>6, <2>7, StepLemma DEF memory
<1>3. CASE AttemptDefault(w, p)
  <2>1. ~driven[p] /\ (w = "settler" => intent[p] # "none")
    BY <1>0, <1>3 DEF AttemptDefault, Sound, WorkflowSound, RowSound
  <2>2. TypeOK'
    BY <1>0, <1>3, GotoLemma DEF TypeOK, AttemptDefault, store, memory
  <2>3. \A q \in Proposals \ {p} : Untouched(q)
    BY <1>0, <1>3, GotoLemma DEF Untouched, AttemptDefault, store, memory, TypeOK
  <2>4. Sound(p)'
    <3>1. CASE w = "workflow"
      BY <1>0, <1>3, <2>1, <3>1, GotoLemma
         DEF AttemptDefault, Sound, WorkflowSound, RowSound, Live, store, memory
    <3>2. CASE w = "settler"
      BY <1>0, <1>3, <2>1, <3>2, GotoLemma
         DEF AttemptDefault, Sound, WorkflowSound, RowSound, Live, store, memory
    <3> QED  BY <3>1, <3>2
  <2> QED  BY <1>3, <2>2, <2>3, <2>4, StepLemma DEF AttemptDefault, store, memory
<1>4. CASE MarkIntent(w, p)
  <2>1. ~driven[p] /\ (w = "settler" => intent[p] # "none")
    BY <1>0, <1>4 DEF MarkIntent, Sound, WorkflowSound, RowSound
  <2>2. /\ intent' \in [Proposals -> {"none", "pending", "done"}]
        /\ \A q \in Proposals \ {p} : intent'[q] = intent[q]
        /\ (intent'[p] = "none") = (intent[p] = "none")
    BY <1>0, <1>4 DEF MarkIntent, TypeOK
  <2>3. TypeOK'
    BY <1>0, <1>4, <2>2, GotoLemma DEF TypeOK, MarkIntent, memory, ghosts
  <2>4. \A q \in Proposals \ {p} : Untouched(q)
    BY <1>0, <1>4, <2>2, GotoLemma DEF Untouched, MarkIntent, memory, ghosts
  <2>5. Sound(p)'
    BY <1>0, <1>4, <2>1, <2>2, GotoLemma
       DEF MarkIntent, Sound, WorkflowSound, RowSound, Live, memory, ghosts
  <2> QED  BY <1>4, <2>3, <2>4, <2>5, StepLemma DEF MarkIntent, memory
<1> QED  BY <1>1, <1>2, <1>3, <1>4

-----------------------------------------------------------------------------
(* Start, stop, crash *)

\* A step that changes only what the process is doing.
LEMMA ModeLemma ==
  ASSUME IInv, TypeOK', Live => Live',
         UNCHANGED <<key, store, phase, target, memory, ghosts>>
  PROVE  IInv'
<1>1. \A p \in Proposals : Sound(p)'
  BY DEF IInv, Sound, WorkflowSound, RowSound, store, memory, ghosts
<1>2. OneUnresolved' /\ Reserved'
  BY RecedingLemma DEF IInv, store
<1>3. OutcomeAlwaysHeld'
  BY DEF IInv, OutcomeAlwaysHeld, memory
<1> QED  BY <1>1, <1>2, <1>3 DEF IInv

\* Starting, finishing the recovery, giving it up, and a graceful stop.
LEMMA ProcessLemma ==
  ASSUME IInv, Start \/ Stop \/ RowsRecovered \/ RecoveryEnds \/ RecoveryRaises
  PROVE  IInv'
<1>1. TypeOK
  BY DEF IInv
<1>2. TypeOK'
  BY <1>1 DEF TypeOK, Start, Stop, RowsRecovered, RecoveryEnds, RecoveryRaises,
              store, memory, ghosts
<1>3. Live => Live'
  BY DEF Live, Start, Stop, RowsRecovered, RecoveryEnds, RecoveryRaises
<1>4. UNCHANGED <<key, store, phase, target, memory, ghosts>>
  BY DEF Start, Stop, RowsRecovered, RecoveryEnds, RecoveryRaises
<1> QED  BY <1>2, <1>3, <1>4, ModeLemma

\* The process is gone: what was volatile is, and what the rows say stays true.
LEMMA CrashLemma ==
  ASSUME IInv, Crash
  PROVE  IInv'
<1> USE DEF Workers, Phases
<1>0. TypeOK
  BY DEF IInv
<1>1. \A p \in Proposals :
        /\ phase'["settler"][p] = "idle"
        /\ phase'["workflow"][p] = IF phase["workflow"][p] = "idle" THEN "idle" ELSE "over"
  BY DEF Crash
<1>2. TypeOK'
  BY <1>0 DEF TypeOK, Crash, store, ghosts
<1>3. ASSUME NEW p \in Proposals PROVE Sound(p)'
  <2>1. Sound(p)
    BY DEF IInv
  <2>2. p \notin pending' /\ p \notin marking' /\ append'[p] = "none"
    BY DEF Crash
  <2> QED  BY <1>1, <2>1, <2>2
           DEF Sound, WorkflowSound, RowSound, Live, Crash, store, ghosts
<1>4. OneUnresolved' /\ Reserved'
  BY RecedingLemma DEF IInv, Crash, store
<1>5. OutcomeAlwaysHeld'
  BY DEF Crash, OutcomeAlwaysHeld
<1> QED  BY <1>2, <1>3, <1>4, <1>5 DEF IInv

\* The settlement of one approval, and a settler that takes up one proposal.
LEMMA SettlementLemma ==
  ASSUME IInv, NEW p \in Proposals,
         RecoverApproval(p) \/ AbortOpen(p) \/ ResumeDefault(p)
  PROVE  IInv'
<1> USE DEF Workers, Phases, Declined, InFlight, Uncertain, Blocking, DecisionStates
<1>0. TypeOK /\ Sound(p)
  BY DEF IInv
<1>1. CASE RecoverApproval(p)
  <2>1. /\ row' \in [Proposals -> DecisionStates \cup {"none"}]
        /\ \A q \in Proposals \ {p} : row'[q] = row[q]
        /\ row[p] \in InFlight /\ row'[p] \in Uncertain
    BY <1>0, <1>1 DEF RecoverApproval, SettledAs, TypeOK
  <2>2. TypeOK'
    BY <1>0, <1>1, <2>1 DEF TypeOK, RecoverApproval, memory, ghosts
  <2>3. \A q \in Proposals \ {p} : Untouched(q)
    BY <1>1, <2>1 DEF Untouched, RecoverApproval, memory, ghosts
  <2>4. phase["workflow"][p] \in {"idle", "over"} /\ append[p] = "none" /\ p \notin pending
    BY <1>0, <1>1 DEF RecoverApproval, Sound, WorkflowSound, RowSound, Live
  <2>5. Sound(p)'
    BY <1>0, <1>1, <2>1, <2>4
       DEF Sound, WorkflowSound, RowSound, Live, RecoverApproval, memory, ghosts
  <2> QED  BY <1>1, <2>1, <2>2, <2>3, <2>5, StepLemma DEF RecoverApproval, memory
<1>2. CASE AbortOpen(p)
  <2>1. Sound(p)'
    BY <1>0, <1>2, GotoLemma
       DEF Sound, WorkflowSound, RowSound, Live, AbortOpen, store, memory, ghosts
  <2> QED  BY <1>0, <1>2, <2>1, MoveLemma DEF AbortOpen, TypeOK
<1>3. CASE ResumeDefault(p)
  <2>1. Sound(p)'
    BY <1>0, <1>3, GotoLemma
       DEF Sound, WorkflowSound, RowSound, Live, ResumeDefault, store, memory, ghosts
  <2> QED  BY <1>0, <1>3, <2>1, MoveLemma DEF ResumeDefault, TypeOK
<1> QED  BY <1>1, <1>2, <1>3

-----------------------------------------------------------------------------
(* The theorems *)

\* No proposal, a process that is down: the invariant holds.
LEMMA InitIInv == Init => IInv
<1> SUFFICES ASSUME Init PROVE IInv
  OBVIOUS
<1> USE DEF Init
<1>1. TypeOK
  BY AssignmentsAssumption DEF TypeOK, Workers, Phases, DecisionStates
<1>2. \A p \in Proposals : Sound(p)
  BY DEF Sound, WorkflowSound, RowSound, Workers, Declined, Live
<1>3. OneUnresolved /\ OutcomeAlwaysHeld
  BY DEF OneUnresolved, OutcomeAlwaysHeld, Blocking, InFlight, Uncertain
<1>4. Reserved
  <2>1. Reserving = {}
    BY DEF Reserving, InFlight
  <2> QED  BY <2>1, FS_EmptySet, CeilingAssumption DEF Reserved
<1> QED  BY <1>1, <1>2, <1>3, <1>4 DEF IInv

\* Every step of the runtime, its store and its operators preserves it.
LEMMA NextIInv == IInv /\ [Next]_vars => IInv'
<1> SUFFICES ASSUME IInv, [Next]_vars PROVE IInv'
  OBVIOUS
<1>1. CASE UNCHANGED vars
  <2>1. TypeOK'
    BY <1>1 DEF IInv, TypeOK, vars
  <2> QED  BY <1>1, <2>1, ModeLemma DEF vars, store, memory, ghosts, Live
<1>2. CASE Start \/ Stop \/ Crash \/ Recovery \/ RecoveryRaises
  BY <1>2, ProcessLemma, CrashLemma, SettlementLemma DEF Recovery
<1>3. ASSUME NEW p \in Proposals, Workflow(p) PROVE IInv'
  BY <1>3, ListeningLemma, CreateLemma, AdmitLemma, DispatchLemma, AnswerLemma DEF Workflow
<1>4. ASSUME NEW p \in Proposals, DeadlinePasses(p) \/ Cancel(p) PROVE IInv'
  BY <1>4, ListeningLemma
<1>5. ASSUME NEW p \in Proposals, NEW w \in Workers, Closing(w, p) PROVE IInv'
  BY <1>5, CloseLemma, DefaultLemma DEF Closing
<1>6. ASSUME NEW p \in Proposals,
             \/ \E ok \in BOOLEAN : MarkStarted(p, ok)
             \/ AppendOutcome(p) \/ AppendRaises(p)
             \/ \E observed \in Reconciled : Reconcile(p, observed)
      PROVE  IInv'
  BY <1>6, MarkLemma, AppendLemma, ReconcileLemma
<1> QED  BY <1>1, <1>2, <1>3, <1>4, <1>5, <1>6 DEF Next

\* So it holds in every reachable state.
LEMMA SpecIInv == Spec => []IInv
  BY InitIInv, NextIInv, PTL DEF Spec

\* Every variable keeps its type; in particular no row ever takes a state
\* outside DECISION_STATES, or approval_aborted_undispatched.
THEOREM TypeCorrect == Spec => []TypeOK
<1>1. IInv => TypeOK
  BY DEF IInv
<1> QED  BY <1>1, SpecIInv, PTL

\* However many proposals compete for an outcome on a zone, at most one of
\* them is approved and unresolved (admit_tier_c_approval).
THEOREM SingleApproval == Spec => []OneUnresolved
<1>1. IInv => OneUnresolved
  BY DEF IInv
<1> QED  BY <1>1, SpecIInv, PTL

\* No row denies an act the executor was entered for (_dispatch_admitted,
\* recover_tier_c_at_start, _close_now).
THEOREM RowsAdmitActs == Spec => []RowNeverDeniesAct
<1>1. IInv => RowNeverDeniesAct
  BY DEF IInv, Sound, RowSound, RowNeverDeniesAct
<1> QED  BY <1>1, SpecIInv, PTL

\* A proposal is never both carried out and answered by its safe default
\* (_safe_default_intent).
THEOREM NeverBoth == Spec => []ActOrDefault
<1>1. IInv => ActOrDefault
  BY DEF IInv, Sound, RowSound, ActOrDefault
<1> QED  BY <1>1, SpecIInv, PTL

\* The safe default is owed from the transaction that closes the proposal on
\* (_insert_tier_c_intent).
THEOREM DefaultOwed == Spec => []ClosedOwesDefault
<1>1. IInv => ClosedOwesDefault
  BY DEF IInv, Sound, RowSound, ClosedOwesDefault
<1> QED  BY <1>1, SpecIInv, PTL

\* For every ceiling the reservation of the approval keeps room for its
\* outcome (_record_outcome, _admit_tier_c_approval_sync).
THEOREM ReservationHolds == Spec => []OutcomeAlwaysHeld
<1>1. IInv => OutcomeAlwaysHeld
  BY DEF IInv
<1> QED  BY <1>1, SpecIInv, PTL

\* An executor is entered only by _dispatch_admitted.
LEMMA ActsByDispatch ==
  ASSUME IInv, [Next]_vars, NEW p \in Proposals, Acts(p)
  PROVE  \E gateHolds \in BOOLEAN : Dispatch(p, gateHolds)
<1>0. TypeOK
  BY DEF IInv
<1>1. ~UNCHANGED driven
  BY DEF Acts
<1>2. PICK q \in Proposals : \E gateHolds \in BOOLEAN : Dispatch(q, gateHolds)
  BY <1>1 DEF Next, vars, Start, Stop, Crash, Recovery, RecoveryRaises, RowsRecovered,
     RecoveryEnds, RecoverApproval, AbortOpen, ResumeDefault, Workflow, Propose, CreateRow,
     ReplyYes, AdmitRaises, EndListening, Admit, ExecutorAnswers, DeadlinePasses, Cancel,
     Closing, Close, CloseLost, EnsureIntent, AttemptDefault, MarkIntent, MarkStarted,
     AppendOutcome, AppendRaises, Reconcile, ghosts
<1>3. q = p
  BY <1>0, <1>1, <1>2 DEF Acts, Dispatch, RefuseDispatch, TypeOK
<1> QED  BY <1>2, <1>3

\* No act begins while an earlier one of the same outcome on the same zone
\* has no known end (admit_tier_c_approval, recover_tier_c_at_start).
THEOREM ActsOverNoUncertainty == Spec => NoActOverUncertainty
<1>1. ASSUME IInv, [Next]_vars, NEW p \in Proposals, Acts(p), NEW q \in Rivals(p), driven[q]
      PROVE  row[q] \notin Blocking
  <2>1. phase["workflow"][p] = "admitted"
    BY <1>1, ActsByDispatch DEF Dispatch
  <2>2. row[p] = "approved_pending_dispatch"
    BY <1>1, <2>1 DEF IInv, Sound, WorkflowSound
  <2> QED  BY <1>1, <2>2 DEF IInv, OneUnresolved, Rivals, Blocking, InFlight
<1>2. IInv /\ [Next]_vars =>
        [\A p \in Proposals : Acts(p) =>
           \A q \in Rivals(p) : driven[q] => row[q] \notin Blocking]_vars
  BY <1>1
<1> QED  BY <1>2, SpecIInv, PTL DEF Spec, NoActOverUncertainty

\* No act begins past its proposal's deadline (_dispatch_admitted).
THEOREM ActsInTime == Spec => NoLateAct
<1>1. ASSUME IInv, [Next]_vars, NEW p \in Proposals, Acts(p)
      PROVE  p \notin expired
  BY <1>1, ActsByDispatch DEF Dispatch, RefuseDispatch, InTime, Acts
<1>2. IInv /\ [Next]_vars => [\A p \in Proposals : Acts(p) => p \notin expired]_vars
  BY <1>1
<1> QED  BY <1>2, SpecIInv, PTL DEF Spec, NoLateAct
=============================================================================
