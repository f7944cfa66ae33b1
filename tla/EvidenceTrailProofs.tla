------------------------ MODULE EvidenceTrailProofs ------------------------
(***************************************************************************)
(* Proofs about EvidenceTrail, for any acts and any number of lives,       *)
(* faults and checkpoints.                                                 *)
(***************************************************************************)
EXTENDS EvidenceTrail, SequenceTheorems, WellFoundedInduction, TLAPS

-----------------------------------------------------------------------------
(* The inductive invariant *)

\* A process that is down holds nothing in memory.
DownIsEmpty ==
  ~up => /\ work = <<>> /\ rec = "off" /\ boot = 0
         /\ \A a \in Acts : emit[a] = "idle"

\* Only the worker's head is under way: an act whose chain row is there, or a
\* checkpoint whose boot is claimed.
WorkInOrder ==
  \A i \in DOMAIN work :
    /\ i # 1 => work[i].at = "queued"
    /\ work[i].at = "appended" => work[i].act # Checkpoint /\ Attested(work[i].act)
    /\ work[i].at = "numbered" => work[i].act = Checkpoint /\ boot # 0
    /\ work[i].act = Checkpoint => work[i].stamp = "at_emission"

\* Reconciliation has one call at most, for the row it is at.
OneLateCall ==
  /\ \A i \in DOMAIN work : work[i].stamp = "reconciled_late" =>
       rec = "asking" /\ work[i].act = Min(todo)
  /\ \A i, j \in DOMAIN work :
       work[i].stamp = "reconciled_late" /\ work[j].stamp = "reconciled_late" => i = j

\* The rows a pass still has to come to are rows, and it is at one of them.
AtARow == rec \in {"asking", "seq", "none"} => todo # {}

\* Who was told of a seq was told of an envelope.
ToldIsSealed ==
  /\ \A a \in Acts : emit[a] = "seq" => Sealed(a)
  /\ rec = "seq" => Sealed(Min(todo))

\* A claimed boot is the counter's; the checkpoints of this life carry it and
\* no others do.
BootIsOfLife ==
  /\ boot # 0 => boot = counter
  /\ \A i \in DOMAIN outbox :
       /\ outbox[i].boot <= counter
       /\ outbox[i].life <= life
       /\ outbox[i].high <= Len(ledger)
       /\ boot # 0 => (outbox[i].boot = boot <=> outbox[i].life = life)
       /\ up /\ boot = 0 => outbox[i].life < life

-----------------------------------------------------------------------------
(* Helpers *)

\* A set of acts that is not empty has a least one.
LEMMA LeastAct ==
  ASSUME NEW S \in SUBSET Acts, S # {}
  PROVE  Min(S) \in S
<1>1. S \subseteq Nat
  BY ActsAssumption
<1> DEFINE R == {ss \in Nat \X Nat : ss[1] < ss[2]}
<1>2. IsWellFoundedOn(R, Nat)
  BY NatLessThanWellFounded, Zenon DEF OpToRel
<1>3. \A x, y \in S : ~(<<y, x>> \in R) => x =< y
  BY <1>1
<1> HIDE DEF R
<1>4. \E x \in S : \A y \in S : ~(<<y, x>> \in R)
  BY <1>1, <1>2, WFMin, Zenon
<1>5. \E x \in S : \A y \in S : x =< y
  BY <1>3, <1>4
<1> QED BY <1>5 DEF Min

\* Taking one call out of the queue moves those behind it up.
LEMMA RemoveAtFacts ==
  ASSUME NEW S, NEW s \in Seq(S), NEW i \in DOMAIN s
  PROVE  /\ RemoveAt(s, i) \in Seq(S)
         /\ Len(RemoveAt(s, i)) = Len(s) - 1
         /\ \A k \in 1..(Len(s) - 1) :
              RemoveAt(s, i)[k] = IF k < i THEN s[k] ELSE s[k + 1]
<1>1. i \in 1..Len(s) /\ Len(s) \in Nat
  BY LenProperties
<1> DEFINE front == SubSeq(s, 1, i - 1)
           back == SubSeq(s, i + 1, Len(s))
<1>2. /\ front \in Seq(S) /\ Len(front) = i - 1
      /\ \A k \in 1..(i - 1) : front[k] = s[k]
  BY <1>1, SMT
<1>3. /\ back \in Seq(S) /\ Len(back) = Len(s) - i
      /\ \A k \in 1..(Len(s) - i) : back[k] = s[i + k]
  BY <1>1, SMT
<1>4. RemoveAt(s, i) = front \o back
  BY DEF RemoveAt
<1> HIDE DEF front, back
<1>5. /\ front \o back \in Seq(S)
      /\ Len(front \o back) = Len(front) + Len(back)
      /\ \A k \in 1..(Len(front) + Len(back)) :
           (front \o back)[k] = IF k <= Len(front) THEN front[k] ELSE back[k - Len(front)]
  BY <1>2, <1>3, ConcatProperties
<1>6. ASSUME NEW k \in 1..(Len(s) - 1)
      PROVE  (front \o back)[k] = IF k < i THEN s[k] ELSE s[k + 1]
  <2>1. CASE k < i
    BY <1>1, <1>2, <1>3, <1>5, <2>1
  <2>2. CASE ~(k < i)
    <3>1. k - (i - 1) \in 1..(Len(s) - i) /\ i + (k - (i - 1)) = k + 1
      BY <1>1, <2>2
    <3>2. k \in 1..(Len(front) + Len(back)) /\ ~(k <= Len(front)) /\ Len(front) = i - 1
      BY <1>1, <1>2, <1>3, <2>2
    <3>4. (front \o back)[k] = back[k - (i - 1)]
      BY <1>5, <3>2, Zenon
    <3>3. back[k - (i - 1)] = s[k + 1]
      BY <1>3, <3>1
    <3> QED BY <2>2, <3>4, <3>3
  <2> QED BY <2>1, <2>2
<1>7. Len(front \o back) = Len(s) - 1
  BY <1>1, <1>2, <1>3, <1>5
<1> QED BY <1>4, <1>5, <1>6, <1>7

\* What a queue of calls becomes when its head moves on.
LEMMA AdvanceFacts ==
  ASSUME TypeOK, work # <<>>, NEW at \in {"queued", "appended", "numbered"}, Advance(at)
  PROVE  /\ work' \in Seq(Calls) /\ DOMAIN work' = DOMAIN work
         /\ 1 \in DOMAIN work /\ Head(work) = work[1]
         /\ work'[1].act = work[1].act /\ work'[1].stamp = work[1].stamp /\ work'[1].at = at
         /\ \A i \in DOMAIN work : i # 1 => work'[i] = work[i]
<1>1. work \in Seq(Calls) /\ Len(work) \in Nat /\ DOMAIN work = 1..Len(work)
  BY LenProperties DEF TypeOK
<1>2. Len(work) > 0 /\ 1 \in DOMAIN work /\ Head(work) = work[1]
  BY <1>1, EmptySeq
<1>3. work[1] \in Calls
  BY <1>1, <1>2, ElementOfSeq
<1> DEFINE moved == [work[1] EXCEPT !.at = at]
<1>4. /\ moved \in Calls /\ moved.act = work[1].act /\ moved.stamp = work[1].stamp
      /\ moved.at = at
  BY <1>3 DEF Calls
<1>5. work' = [work EXCEPT ![1] = moved]
  BY DEF Advance
<1> HIDE DEF moved
<1>6. work' \in Seq(Calls)
  BY <1>1, <1>2, <1>4, <1>5, ExceptSeq
<1> QED BY <1>1, <1>2, <1>4, <1>5, <1>6

\* What it becomes when a call is answered, and who is told.
LEMMA AnswerFacts ==
  ASSUME TypeOK, work # <<>>, NEW answer \in {"seq", "none"}, Answer(answer)
  PROVE  /\ work' \in Seq(Calls) /\ Len(work') = Len(work) - 1
         /\ \A i \in DOMAIN work' : i + 1 \in DOMAIN work /\ work'[i] = work[i + 1]
         /\ 1 \in DOMAIN work /\ Head(work) = work[1] /\ Head(work) \in Calls
         /\ \/ emit' = emit
            \/ /\ work[1].act \in Acts /\ work[1].stamp = "at_emission"
               /\ emit[work[1].act] = "asking"
               /\ emit' = [emit EXCEPT ![work[1].act] = answer]
         /\ rec' = IF work[1].stamp = "reconciled_late" THEN answer ELSE rec
<1>1. work \in Seq(Calls) /\ Len(work) \in Nat /\ DOMAIN work = 1..Len(work)
  BY LenProperties DEF TypeOK
<1>2. Len(work) > 0 /\ 1 \in DOMAIN work /\ Head(work) = work[1]
  BY <1>1, EmptySeq
<1>3. work[1] \in Calls
  BY <1>1, <1>2, ElementOfSeq
<1>4. work' = Tail(work)
  BY DEF Answer
<1>5. /\ work' \in Seq(Calls) /\ Len(work') = Len(work) - 1
      /\ \A i \in 1..Len(work') : work'[i] = work[i + 1]
  BY <1>1, <1>4, HeadTailProperties
<1>6. \A i \in DOMAIN work' : i + 1 \in DOMAIN work /\ work'[i] = work[i + 1]
  BY <1>1, <1>5, LenProperties
<1>7. work[1].act # Checkpoint => work[1].act \in Acts
  BY <1>3 DEF Calls
<1> QED BY <1>2, <1>3, <1>5, <1>6, <1>7 DEF Answer

\* What it becomes when a call is given to the worker.
LEMMA GivenFacts ==
  ASSUME TypeOK, NEW a \in Acts \cup {Checkpoint}, NEW stamp \in Stamps,
         work' = Append(work, Call(a, stamp))
  PROVE  /\ work' \in Seq(Calls) /\ work' # <<>>
         /\ \A i \in DOMAIN work' :
              \/ i \in DOMAIN work /\ work'[i] = work[i]
              \/ i = Len(work) + 1 /\ work'[i] = Call(a, stamp)
<1>1. work \in Seq(Calls) /\ Len(work) \in Nat /\ DOMAIN work = 1..Len(work)
  BY LenProperties DEF TypeOK
<1>2. Call(a, stamp) \in Calls
  BY DEF Call, Calls
<1>3. /\ work' \in Seq(Calls) /\ work' # <<>> /\ Len(work') = Len(work) + 1
      /\ \A i \in 1..Len(work) : work'[i] = work[i]
      /\ work'[Len(work) + 1] = Call(a, stamp)
  BY <1>1, <1>2, AppendProperties
<1>4. \A i \in DOMAIN work' : i \in 1..Len(work) \/ i = Len(work) + 1
  BY <1>1, <1>3, LenProperties
<1>5. \A i \in DOMAIN work' :
        \/ i \in DOMAIN work /\ work'[i] = work[i]
        \/ i = Len(work) + 1 /\ work'[i] = Call(a, stamp)
  <2> TAKE i \in DOMAIN work'
  <2>1. CASE i \in 1..Len(work)
    BY <1>1, <1>3, <2>1
  <2>2. CASE i = Len(work) + 1
    BY <1>3, <2>2
  <2> QED BY <1>4, <2>1, <2>2
<1> QED BY <1>3, <1>5, Zenon

\* A queue that is not empty has a head.
LEMMA HeadFacts ==
  ASSUME TypeOK, work # <<>>
  PROVE  1 \in DOMAIN work /\ Head(work) = work[1] /\ Head(work) \in Calls
<1>1. work \in Seq(Calls) /\ Len(work) \in Nat /\ DOMAIN work = 1..Len(work)
  BY LenProperties DEF TypeOK
<1>2. Len(work) > 0 /\ 1 \in DOMAIN work /\ Head(work) = work[1]
  BY <1>1, EmptySeq
<1> QED BY <1>1, <1>2, ElementOfSeq

-----------------------------------------------------------------------------
(* Type correctness *)

\* The types of emit and rec (TypeOK).
EmissionStates == [Acts -> {"idle", "logged", "asking", "seq", "none", "unlicensed"}]
PassStates == {"off", "due", "pass", "asking", "seq", "none"}

\* Going down leaves memory well typed.
LEMMA DownFacts ==
  ASSUME GoDown
  PROVE  /\ work' \in Seq(Calls) /\ emit' \in EmissionStates /\ rec' \in PassStates
         /\ todo' = {} /\ boot' = 0 /\ up' \in BOOLEAN
<1>1. work' \in Seq(Calls)
  BY EmptySeq, Zenon DEF GoDown
<1>2. emit' \in EmissionStates /\ rec' \in PassStates
  BY DEF GoDown, EmissionStates, PassStates
<1> QED BY <1>1, <1>2, Zenon DEF GoDown

LEMMA TypeInit == Init => TypeOK
<1> SUFFICES ASSUME Init PROVE TypeOK
  OBVIOUS
<1>1. /\ chain \in Seq([act : Acts, stamp : Stamps]) /\ ledger \in Seq(Acts)
      /\ outbox \in Seq([boot : Nat, high : Nat, life : Nat]) /\ work \in Seq(Calls)
  BY EmptySeq, Zenon DEF Init
<1>2. row \in [Acts -> Statuses] /\ kind \in [Acts -> Kinds] /\ emit \in EmissionStates
  BY DEF Init, Statuses, Kinds, EmissionStates
<1>3. life \in 0..MaxLives /\ faults \in 0..MaxFaults /\ counter \in Nat /\ boot \in 0..counter
  BY BoundsAssumption DEF Init
<1> QED BY <1>1, <1>2, <1>3, Zenon DEF Init, TypeOK, EmissionStates

LEMMA TypeStep == TypeOK /\ WorkInOrder /\ [Next]_vars => TypeOK'
<1> SUFFICES ASSUME TypeOK, WorkInOrder, [Next]_vars PROVE TypeOK'
  OBVIOUS
<1> USE DEF TypeOK, durable, evidence, history, EmissionStates, PassStates
<1>1. CASE Start
  BY <1>1, BoundsAssumption DEF Start
<1>2. CASE Crash
  <2>1. GoDown /\ UNCHANGED <<durable, history>>
    BY <1>2 DEF Crash
  <2> QED BY <2>1, DownFacts
<1>3. CASE Scan
  BY <1>3, BoundsAssumption DEF Scan, Fault, NeedAttestation
<1>4. CASE Retry
  <2> DEFINE a == Min(todo)
  <2>1. a \in Acts /\ todo \ {a} \subseteq Acts
    BY <1>4, LeastAct DEF Retry
  <2>2. faults' = faults \/ Fault
    BY <1>4 DEF Retry
  <2>3. faults' \in 0..MaxFaults
    BY <2>2, BoundsAssumption DEF Fault
  <2>4. UNCHANGED <<kind, evidence, life>>
    BY <1>4 DEF Retry
  <2>5. CASE todo' = todo \ {a} /\ UNCHANGED <<row, work, rec, emit, boot, up, faults>>
    BY <2>1, <2>4, <2>5
  <2>6. CASE /\ row' = [row EXCEPT ![a] = "refused"] /\ todo' = todo \ {a}
             /\ UNCHANGED <<work, rec, emit, boot, up, faults>>
    BY <2>1, <2>4, <2>6 DEF Statuses
  <2>7. CASE GoDown /\ UNCHANGED row
    BY <2>3, <2>4, <2>7, DownFacts
  <2>8. CASE /\ work' = Append(work, Call(a, "reconciled_late")) /\ rec' = "asking"
             /\ UNCHANGED <<row, todo, emit, boot, up, faults>>
    <3>1. work' \in Seq(Calls)
      BY <2>1, <2>8, GivenFacts DEF Stamps
    <3> QED BY <2>4, <2>8, <3>1
  <2>9. CASE rec' = "none" /\ UNCHANGED <<row, todo, work, emit, boot, up>>
    BY <2>3, <2>4, <2>9
  <2> HIDE DEF TypeOK
  <2> QED BY <1>4, <2>5, <2>6, <2>7, <2>8, <2>9, Zenon DEF Retry
<1>5. CASE RetryTold
  <2> DEFINE a == Min(todo)
             status == IF rec = "seq" THEN "reconciled" ELSE "failed"
  <2>1. /\ todo' = todo \ {a}
        /\ \/ row' = [row EXCEPT ![a] = status] /\ UNCHANGED faults
           \/ Fault /\ UNCHANGED row
    BY <1>5, Zenon DEF RetryTold
  <2>2. row' \in [Acts -> Statuses]
    BY <2>1 DEF Statuses
  <2>3. faults' \in 0..MaxFaults
    BY <2>1, BoundsAssumption DEF Fault
  <2> QED BY <1>5, <2>1, <2>2, <2>3 DEF RetryTold
<1>6. CASE ChainAppend
  <2> DEFINE entry == [act |-> Head(work).act, stamp |-> Head(work).stamp]
             Rows == [act : Acts, stamp : Stamps]
  <2>1. work # <<>> /\ Head(work).act # Checkpoint /\ Head(work) \in Calls
    BY <1>6, HeadFacts DEF ChainAppend, Busy
  <2>2. entry \in Rows
    BY <2>1 DEF Calls
  <2>3. chain' = chain \/ chain' = Append(chain, entry)
    BY <1>6 DEF ChainAppend
  <2>4. chain' \in Seq(Rows)
    <3>1. chain \in Seq(Rows)
      OBVIOUS
    <3> HIDE DEF entry, Rows
    <3>2. Append(chain, entry) \in Seq(Rows)
      BY <2>2, <3>1, AppendProperties, Zenon
    <3> QED BY <2>3, <3>1, <3>2, Zenon
  <2>5. \/ Advance("appended") /\ UNCHANGED <<emit, rec>>
        \/ Answer("none")
    BY <1>6 DEF ChainAppend
  <2>6. work' \in Seq(Calls) /\ emit' \in EmissionStates /\ rec' \in PassStates
    <3>1. CASE Advance("appended") /\ UNCHANGED <<emit, rec>>
      BY <2>1, <3>1, AdvanceFacts
    <3>2. CASE Answer("none")
      BY <2>1, <3>2, AnswerFacts
    <3> QED BY <2>5, <3>1, <3>2
  <2> QED BY <1>6, <2>4, <2>6 DEF ChainAppend
<1>7. CASE Seal
  <2>1. work # <<>> /\ Head(work).at = "appended" /\ Answer("seq") /\ Head(work) = work[1]
        /\ Head(work) \in Calls /\ 1 \in DOMAIN work
    BY <1>7, HeadFacts DEF Seal, Busy
  <2>2. Head(work).act \in Acts
    BY <2>1 DEF WorkInOrder, Calls
  <2>3. ledger' \in Seq(Acts)
    BY <1>7, <2>2, AppendProperties DEF Seal
  <2>4. work' \in Seq(Calls) /\ emit' \in EmissionStates /\ rec' \in PassStates
    BY <2>1, AnswerFacts
  <2> QED BY <1>7, <2>3, <2>4 DEF Seal
<1>8. CASE WorkRaises
  <2>1. work' \in Seq(Calls) /\ emit' \in EmissionStates /\ rec' \in PassStates
    BY <1>8, AnswerFacts DEF WorkRaises
  <2> QED BY <1>8, <2>1, BoundsAssumption DEF WorkRaises, Fault
<1>9. CASE ClaimBoot
  <2>1. work' \in Seq(Calls)
    BY <1>9, AdvanceFacts DEF ClaimBoot, Busy
  <2> QED BY <1>9, <2>1 DEF ClaimBoot
<1>10. CASE RetainCheckpoint
  <2> DEFINE c == [boot |-> boot, high |-> Len(ledger), life |-> life]
  <2>1. c \in [boot : Nat, high : Nat, life : Nat]
    BY LenProperties
  <2>2. outbox' \in Seq([boot : Nat, high : Nat, life : Nat])
    BY <1>10, <2>1, AppendProperties DEF RetainCheckpoint
  <2>3. work' \in Seq(Calls) /\ emit' \in EmissionStates /\ rec' \in PassStates
    BY <1>10, AnswerFacts DEF RetainCheckpoint, Busy
  <2> QED BY <1>10, <2>2, <2>3 DEF RetainCheckpoint
<1>11. CASE AskCheckpoint
  <2>1. work' \in Seq(Calls)
    BY <1>11, GivenFacts DEF AskCheckpoint, Stamps
  <2> QED BY <1>11, <2>1 DEF AskCheckpoint
<1>12. ASSUME NEW a \in Acts, LogAction(a) PROVE TypeOK'
  BY <1>12 DEF LogAction, Statuses
<1>13. ASSUME NEW a \in Acts, LeavePending(a) PROVE TypeOK'
  BY <1>13 DEF LeavePending
<1>14. ASSUME NEW a \in Acts, Attest(a) PROVE TypeOK'
  <2>1. work' \in Seq(Calls)
    BY <1>14, GivenFacts DEF Attest, Stamps
  <2>2. \E told \in {"unlicensed", "asking", "none"} : emit' = [emit EXCEPT ![a] = told]
    BY <1>14 DEF Attest
  <2>3. faults' = faults \/ Fault
    BY <1>14 DEF Attest
  <2>4. faults' \in 0..MaxFaults
    BY <2>3, BoundsAssumption DEF Fault
  <2> QED BY <1>14, <2>1, <2>2, <2>4 DEF Attest
<1>15. ASSUME NEW a \in Acts, BoundPasses(a) PROVE TypeOK'
  <2>1. work' \in Seq(Calls)
    BY <1>15, RemoveAtFacts DEF BoundPasses
  <2> QED BY <1>15, <2>1 DEF BoundPasses
<1>16. ASSUME NEW a \in Acts, EmissionTold(a) PROVE TypeOK'
  BY <1>16, BoundsAssumption DEF EmissionTold, Fault, Statuses
<1>17. CASE UNCHANGED vars
  BY <1>17 DEF vars
<1> HIDE DEF TypeOK
<1> QED BY <1>1, <1>2, <1>3, <1>4, <1>5, <1>6, <1>7, <1>8, <1>9, <1>10, <1>11, <1>12, <1>13,
           <1>14, <1>15, <1>16, <1>17, Zenon DEF Next, Worker

-----------------------------------------------------------------------------
(* How the worker's queue may change *)

\* Calls may leave the queue; the others keep their order.
Thinned ==
  \E f \in [DOMAIN work' -> DOMAIN work] :
    /\ \A i \in DOMAIN work' : work'[i] = work[f[i]] /\ f[i] >= i
    /\ \A i, j \in DOMAIN work' : f[i] = f[j] => i = j

LEMMA SameIsThinned ==
  ASSUME TypeOK, work' = work
  PROVE  Thinned
<1> DEFINE f == [i \in DOMAIN work |-> i]
<1>1. DOMAIN work \subseteq Nat
  BY LenProperties DEF TypeOK
<1>2. f \in [DOMAIN work' -> DOMAIN work]
  OBVIOUS
<1>3. \A i \in DOMAIN work' : work'[i] = work[f[i]] /\ f[i] >= i
  BY <1>1
<1>4. \A i, j \in DOMAIN work' : f[i] = f[j] => i = j
  OBVIOUS
<1> HIDE DEF f
<1> QED BY <1>2, <1>3, <1>4 DEF Thinned

LEMMA EmptyIsThinned ==
  ASSUME TypeOK, work' = <<>>
  PROVE  Thinned
<1>1. DOMAIN work' = {}
  OBVIOUS
<1>2. [i \in {} |-> i] \in [DOMAIN work' -> DOMAIN work]
  BY <1>1
<1> QED BY <1>1, <1>2, Zenon DEF Thinned

LEMMA AnsweredIsThinned ==
  ASSUME TypeOK, work # <<>>, NEW answer \in {"seq", "none"}, Answer(answer)
  PROVE  Thinned
<1> DEFINE f == [i \in DOMAIN work' |-> i + 1]
<1>1. /\ work' \in Seq(Calls)
      /\ \A i \in DOMAIN work' : i + 1 \in DOMAIN work /\ work'[i] = work[i + 1]
  BY AnswerFacts
<1>2. DOMAIN work' \subseteq Nat
  BY <1>1, LenProperties
<1>3. f \in [DOMAIN work' -> DOMAIN work]
  BY <1>1
<1>4. \A i \in DOMAIN work' : work'[i] = work[f[i]] /\ f[i] >= i
  BY <1>1, <1>2
<1>5. \A i, j \in DOMAIN work' : f[i] = f[j] => i = j
  BY <1>2
<1> HIDE DEF f
<1> QED BY <1>3, <1>4, <1>5 DEF Thinned

LEMMA RemovedIsThinned ==
  ASSUME TypeOK, NEW i \in DOMAIN work, work' = RemoveAt(work, i)
  PROVE  Thinned
<1> DEFINE f == [k \in DOMAIN work' |-> IF k < i THEN k ELSE k + 1]
<1>1. work \in Seq(Calls) /\ Len(work) \in Nat /\ DOMAIN work = 1..Len(work)
  BY LenProperties DEF TypeOK
<1>2. /\ work' \in Seq(Calls) /\ Len(work') = Len(work) - 1
      /\ \A k \in 1..(Len(work) - 1) : work'[k] = IF k < i THEN work[k] ELSE work[k + 1]
  BY <1>1, RemoveAtFacts
<1>3. DOMAIN work' = 1..(Len(work) - 1)
  BY <1>2, LenProperties
<1>4. f \in [DOMAIN work' -> DOMAIN work]
  BY <1>1, <1>3
<1>5. \A k \in DOMAIN work' : work'[k] = work[f[k]] /\ f[k] >= k
  BY <1>1, <1>2, <1>3
<1>6. \A k, j \in DOMAIN work' : f[k] = f[j] => k = j
  BY <1>1, <1>3
<1> QED BY <1>4, <1>5, <1>6 DEF Thinned

-----------------------------------------------------------------------------
(* The chain and the ledger only grow *)

LEMMA ChainGrows ==
  ASSUME TypeOK, NEW e, chain' = chain \/ chain' = Append(chain, e), NEW a, Attested(a)
  PROVE  Attested(a)'
<1>1. chain \in Seq([act : Acts, stamp : Stamps]) /\ DOMAIN chain = 1..Len(chain)
      /\ Len(chain) \in Nat
  BY LenProperties DEF TypeOK
<1>2. CASE chain' = chain
  BY <1>2 DEF Attested
<1>3. CASE chain' = Append(chain, e)
  <2>1. /\ DOMAIN chain' = 1..(Len(chain) + 1)
        /\ \A i \in 1..Len(chain) : chain'[i] = chain[i]
    BY <1>1, <1>3
  <2> QED BY <1>1, <2>1 DEF Attested
<1> QED BY <1>2, <1>3

LEMMA LedgerGrows ==
  ASSUME TypeOK, NEW e, ledger' = ledger \/ ledger' = Append(ledger, e)
  PROVE  /\ \A a : Sealed(a) => Sealed(a)'
         /\ Len(ledger) <= Len(ledger')
<1>1. ledger \in Seq(Acts) /\ DOMAIN ledger = 1..Len(ledger) /\ Len(ledger) \in Nat
  BY LenProperties DEF TypeOK
<1>2. CASE ledger' = ledger
  BY <1>1, <1>2 DEF Sealed
<1>3. CASE ledger' = Append(ledger, e)
  <2>1. /\ DOMAIN ledger' = 1..(Len(ledger) + 1) /\ Len(ledger') = Len(ledger) + 1
        /\ \A i \in 1..Len(ledger) : ledger'[i] = ledger[i]
    BY <1>1, <1>3
  <2> QED BY <1>1, <2>1 DEF Sealed
<1> QED BY <1>2, <1>3

\* Of the steps, only the append adds to the chain and only the seal to the
\* ledger.
LEMMA StepGrows ==
  ASSUME TypeOK, [Next]_vars
  PROVE  /\ \A a : Attested(a) => Attested(a)'
         /\ \A a : Sealed(a) => Sealed(a)'
         /\ Len(ledger) <= Len(ledger')
<1>1. \E e : chain' = chain \/ chain' = Append(chain, e)
  <2>1. CASE ChainAppend
    BY <2>1 DEF ChainAppend
  <2>2. CASE ~ChainAppend
    <3>1. chain' = chain
      BY <2>2 DEF Next, Worker, Start, Crash, Scan, Retry, RetryTold, Seal, WorkRaises, ClaimBoot,
             RetainCheckpoint, AskCheckpoint, LogAction, LeavePending, Attest, BoundPasses,
             EmissionTold, vars, durable, evidence
    <3> QED BY <3>1
  <2> QED BY <2>1, <2>2
<1>2. \E e : ledger' = ledger \/ ledger' = Append(ledger, e)
  <2>1. CASE Seal
    BY <2>1 DEF Seal
  <2>2. CASE ~Seal
    <3>1. ledger' = ledger
      BY <2>2 DEF Next, Worker, Start, Crash, Scan, Retry, RetryTold, ChainAppend, WorkRaises, ClaimBoot,
             RetainCheckpoint, AskCheckpoint, LogAction, LeavePending, Attest, BoundPasses,
             EmissionTold, vars, durable, evidence
    <3> QED BY <3>1
  <2> QED BY <2>1, <2>2
<1> QED BY <1>1, <1>2, ChainGrows, LedgerGrows

-----------------------------------------------------------------------------
(* The worker's queue stays in order *)

LEMMA ThinnedInOrder ==
  ASSUME TypeOK, TypeOK', WorkInOrder, Thinned, boot' = boot,
         \A a : Attested(a) => Attested(a)'
  PROVE  WorkInOrder'
<1>1. DOMAIN work' \subseteq Nat \ {0} /\ DOMAIN work \subseteq Nat \ {0}
  BY LenProperties DEF TypeOK
<1>2. PICK f \in [DOMAIN work' -> DOMAIN work] :
        \A i \in DOMAIN work' : work'[i] = work[f[i]] /\ f[i] >= i
  BY DEF Thinned
<1>3. \A i \in DOMAIN work' : i # 1 => f[i] # 1
  BY <1>1, <1>2
<1> QED BY <1>2, <1>3 DEF WorkInOrder

LEMMA GivenInOrder ==
  ASSUME TypeOK, WorkInOrder, NEW a \in Acts \cup {Checkpoint}, NEW stamp \in Stamps,
         a = Checkpoint => stamp = "at_emission",
         work' = Append(work, Call(a, stamp)), boot' = boot, UNCHANGED chain
  PROVE  WorkInOrder'
<1>1. \A i \in DOMAIN work' :
        \/ i \in DOMAIN work /\ work'[i] = work[i]
        \/ work'[i] = Call(a, stamp)
  BY GivenFacts
<1>2. Call(a, stamp).at = "queued" /\ Call(a, stamp).act = a /\ Call(a, stamp).stamp = stamp
  BY DEF Call
<1>3. \A b : Attested(b) => Attested(b)'
  BY DEF Attested
<1> QED BY <1>1, <1>2, <1>3 DEF WorkInOrder

LEMMA WorkInOrderStep ==
  TypeOK /\ TypeOK' /\ WorkInOrder /\ [Next]_vars => WorkInOrder'
<1> SUFFICES ASSUME TypeOK, TypeOK', WorkInOrder, [Next]_vars PROVE WorkInOrder'
  OBVIOUS
<1> USE DEF durable, evidence, history
<1>0. \A a : Attested(a) => Attested(a)'
  BY StepGrows
<1> DEFINE Idle == UNCHANGED <<work, boot>>
           Emptied == work' = <<>>
           Ended == work # <<>> /\ UNCHANGED boot /\ (Answer("seq") \/ Answer("none"))
<1>1. CASE Idle
  BY <1>0, <1>1, SameIsThinned, ThinnedInOrder
<1>2. CASE Emptied
  BY <1>2 DEF WorkInOrder
<1>3. CASE Ended
  BY <1>0, <1>3, AnsweredIsThinned, ThinnedInOrder
<1>4. CASE Start \/ Scan \/ RetryTold \/ UNCHANGED vars
  BY <1>1, <1>4 DEF Start, Scan, RetryTold, vars
<1>5. CASE Crash
  BY <1>2, <1>5 DEF Crash, GoDown
<1>6. CASE Retry
  <2>1. todo # {} /\ Min(todo) \in Acts
    BY <1>6, LeastAct DEF Retry, TypeOK
  <2>2. \/ Idle
        \/ Emptied
        \/ work' = Append(work, Call(Min(todo), "reconciled_late")) /\ UNCHANGED <<boot, chain>>
    BY <1>6 DEF Retry, GoDown
  <2>3. Min(todo) # Checkpoint
    BY <2>1, ActsAssumption DEF Checkpoint
  <2> QED BY <1>1, <1>2, <2>1, <2>2, <2>3, GivenInOrder DEF Stamps
<1>7. CASE ChainAppend
  <2>1. CASE Answer("none")
    BY <1>3, <1>7, <2>1 DEF ChainAppend, Busy
  <2>2. CASE Advance("appended") /\ ~Answer("none")
    <3>1. work # <<>> /\ Head(work).act # Checkpoint /\ UNCHANGED boot
      BY <1>7 DEF ChainAppend, Busy
    <3>2. Head(work) = work[1] /\ 1 \in DOMAIN work
      BY <3>1, HeadFacts
    <3>3. ASSUME NEW b, b = work[1].act PROVE Attested(b)'
      <4> DEFINE entry == [act |-> b, stamp |-> work[1].stamp]
      <4>1. chain' = Append(chain, entry) \/ (Contains(chain, entry) /\ chain' = chain)
        BY <1>7, <2>2, <3>2, <3>3 DEF ChainAppend
      <4>2. chain \in Seq([act : Acts, stamp : Stamps]) /\ Len(chain) \in Nat
            /\ DOMAIN chain = 1..Len(chain)
        BY LenProperties DEF TypeOK
      <4>3. CASE chain' = Append(chain, entry)
        <5>1. Len(chain) + 1 \in DOMAIN chain' /\ chain'[Len(chain) + 1] = entry
          BY <4>2, <4>3
        <5> QED BY <5>1 DEF Attested
      <4>4. CASE Contains(chain, entry) /\ chain' = chain
        BY <4>2, <4>4 DEF Contains, Attested
      <4> QED BY <4>1, <4>3, <4>4
    <3> QED BY <1>0, <2>2, <3>1, <3>2, <3>3, AdvanceFacts DEF WorkInOrder
  <2> QED BY <1>7, <2>1, <2>2 DEF ChainAppend
<1>8. CASE Seal \/ WorkRaises \/ RetainCheckpoint
  BY <1>3, <1>8 DEF Seal, WorkRaises, RetainCheckpoint, Busy
<1>9. CASE ClaimBoot
  <2>1. work # <<>> /\ Head(work).act = Checkpoint /\ Advance("numbered") /\ UNCHANGED chain
    BY <1>9 DEF ClaimBoot, Busy
  <2>2. boot' # 0
    BY <1>9 DEF ClaimBoot, TypeOK
  <2> QED BY <1>0, <2>1, <2>2, AdvanceFacts DEF WorkInOrder
<1>10. CASE AskCheckpoint
  BY <1>10, GivenInOrder DEF AskCheckpoint, Stamps
<1>11. ASSUME NEW a \in Acts, LogAction(a) \/ LeavePending(a) \/ EmissionTold(a)
       PROVE  WorkInOrder'
  BY <1>1, <1>11 DEF LogAction, LeavePending, EmissionTold
<1>12. ASSUME NEW a \in Acts, Attest(a) PROVE WorkInOrder'
  <2>1. a # Checkpoint
    BY ActsAssumption DEF Checkpoint
  <2>2. \/ Idle
        \/ work' = Append(work, Call(a, "at_emission")) /\ UNCHANGED <<boot, chain>>
    BY <1>12 DEF Attest
  <2> QED BY <1>1, <2>1, <2>2, GivenInOrder DEF Stamps
<1>13. ASSUME NEW a \in Acts, BoundPasses(a) PROVE WorkInOrder'
  <2>1. UNCHANGED boot /\ (Idle \/ \E i \in DOMAIN work : work' = RemoveAt(work, i))
    BY <1>13 DEF BoundPasses
  <2> QED BY <1>0, <1>1, <2>1, RemovedIsThinned, ThinnedInOrder
<1> QED BY <1>4, <1>5, <1>6, <1>7, <1>8, <1>9, <1>10, <1>11, <1>12, <1>13 DEF Next, Worker

-----------------------------------------------------------------------------
(* A process that is down holds nothing *)

LEMMA DownStep == TypeOK /\ DownIsEmpty /\ [Next]_vars => DownIsEmpty'
<1> SUFFICES ASSUME TypeOK, DownIsEmpty, [Next]_vars PROVE DownIsEmpty'
  OBVIOUS
<1> USE DEF durable, evidence, history
<1>1. CASE up
  <2>1. up' \/ GoDown
    BY <1>1 DEF Next, Worker, Start, Crash, Scan, Retry, RetryTold, ChainAppend, Seal, WorkRaises,
           ClaimBoot, RetainCheckpoint, AskCheckpoint, LogAction, LeavePending, Attest,
           BoundPasses, EmissionTold, vars
  <2> QED BY <2>1 DEF DownIsEmpty, GoDown
<1>2. CASE ~up
  <2>1. work = <<>> /\ rec = "off" /\ \A a \in Acts : emit[a] = "idle"
    BY <1>2 DEF DownIsEmpty
  <2>2. Start \/ UNCHANGED vars
    BY <1>2, <2>1 DEF Next, Worker, Crash, Scan, Retry, RetryTold, ChainAppend, Seal, WorkRaises,
           ClaimBoot, RetainCheckpoint, AskCheckpoint, LogAction, LeavePending, Attest,
           BoundPasses, EmissionTold, Busy
  <2> QED BY <2>2 DEF DownIsEmpty, Start, vars
<1> QED BY <1>1, <1>2

-----------------------------------------------------------------------------
(* Reconciliation is at one row *)

\* Without a call of reconciliation in the queue there is none in a thinned one.
LEMMA LateThinned ==
  ASSUME OneLateCall, Thinned, UNCHANGED <<rec, todo>>
  PROVE  OneLateCall'
<1>1. PICK f \in [DOMAIN work' -> DOMAIN work] :
        /\ \A i \in DOMAIN work' : work'[i] = work[f[i]]
        /\ \A i, j \in DOMAIN work' : f[i] = f[j] => i = j
  BY DEF Thinned
<1> QED BY <1>1 DEF OneLateCall

LEMMA LateAnswered ==
  ASSUME TypeOK, OneLateCall, AtARow, work # <<>>, NEW answer \in {"seq", "none"},
         Answer(answer), UNCHANGED todo
  PROVE  OneLateCall' /\ AtARow'
<1>1. 1 \in DOMAIN work /\ rec' = IF work[1].stamp = "reconciled_late" THEN answer ELSE rec
  BY AnswerFacts
<1>2. CASE work[1].stamp = "reconciled_late"
  <2>1. /\ work' \in Seq(Calls)
        /\ \A i \in DOMAIN work' : i + 1 \in DOMAIN work /\ work'[i] = work[i + 1]
    BY AnswerFacts
  <2>2. \A i \in DOMAIN work' : i + 1 # 1
    BY <2>1, LenProperties
  <2>3. \A i \in DOMAIN work' : work'[i].stamp # "reconciled_late"
    BY <1>1, <1>2, <2>1, <2>2 DEF OneLateCall
  <2>4. rec = "asking"
    BY <1>1, <1>2 DEF OneLateCall
  <2> QED BY <2>3, <2>4 DEF OneLateCall, AtARow
<1>3. CASE work[1].stamp # "reconciled_late"
  BY <1>1, <1>3, AnsweredIsThinned, LateThinned DEF AtARow
<1> QED BY <1>2, <1>3

\* A call given to the worker is the one late call, or is none.
LEMMA LateGiven ==
  ASSUME TypeOK, OneLateCall, NEW a \in Acts \cup {Checkpoint}, NEW stamp \in Stamps,
         work' = Append(work, Call(a, stamp)), todo' = todo,
         \/ stamp = "at_emission" /\ rec' = rec
         \/ rec = "pass" /\ rec' = "asking" /\ a = Min(todo)
  PROVE  OneLateCall'
<1>1. \A i \in DOMAIN work' :
        \/ i \in DOMAIN work /\ work'[i] = work[i]
        \/ i = Len(work) + 1 /\ work'[i] = Call(a, stamp)
  BY GivenFacts
<1>2. Call(a, stamp).act = a /\ Call(a, stamp).stamp = stamp
  BY DEF Call
<1>3. CASE stamp = "at_emission" /\ rec' = rec
  BY <1>1, <1>2, <1>3 DEF OneLateCall
<1>4. CASE rec = "pass" /\ rec' = "asking" /\ a = Min(todo)
  <2>1. \A i \in DOMAIN work : work[i].stamp # "reconciled_late"
    BY <1>4 DEF OneLateCall
  <2>2. \A i \in DOMAIN work' : work'[i].stamp = "reconciled_late" =>
          i = Len(work) + 1 /\ work'[i].act = a
    BY <1>1, <1>2, <2>1
  <2> QED BY <1>4, <2>2 DEF OneLateCall
<1> QED BY <1>3, <1>4

LEMMA LateStep ==
  TypeOK /\ DownIsEmpty /\ OneLateCall /\ AtARow /\ [Next]_vars => OneLateCall' /\ AtARow'
<1> SUFFICES ASSUME TypeOK, DownIsEmpty, OneLateCall, AtARow, [Next]_vars
             PROVE  OneLateCall' /\ AtARow'
  OBVIOUS
<1> USE DEF durable, evidence, history
<1> DEFINE Idle == UNCHANGED <<work, rec, todo>>
           Emptied == work' = <<>> /\ rec' = "off"
           Resumed == rec # "asking" /\ rec' \in {"due", "pass"} /\ work' = work
           Ended == work # <<>> /\ UNCHANGED todo /\ (Answer("seq") \/ Answer("none"))
<1>1. CASE Idle
  BY <1>1 DEF OneLateCall, AtARow
<1>2. CASE Emptied
  BY <1>2 DEF OneLateCall, AtARow
<1>3. CASE Resumed
  BY <1>3 DEF OneLateCall, AtARow
<1>4. CASE Ended
  BY <1>4, LateAnswered
<1>5. CASE Start
  <2>1. Resumed
    BY <1>5 DEF Start, DownIsEmpty
  <2> QED BY <1>3, <2>1
<1>6. CASE Crash
  BY <1>2, <1>6 DEF Crash, GoDown
<1>7. CASE Scan \/ RetryTold
  <2>1. Resumed
    BY <1>7 DEF Scan, RetryTold
  <2> QED BY <1>3, <2>1
<1>8. CASE Retry
  <2>1. rec = "pass" /\ todo # {} /\ Min(todo) \in Acts
    BY <1>8, LeastAct DEF Retry, TypeOK
  <2>2. \/ Resumed
        \/ Emptied
        \/ UNCHANGED <<work, todo>> /\ rec' = "none"
        \/ /\ work' = Append(work, Call(Min(todo), "reconciled_late"))
           /\ rec' = "asking" /\ UNCHANGED todo
    BY <1>8, <2>1 DEF Retry, GoDown
  <2>3. CASE UNCHANGED <<work, todo>> /\ rec' = "none"
    BY <2>1, <2>3 DEF OneLateCall, AtARow
  <2>4. CASE /\ work' = Append(work, Call(Min(todo), "reconciled_late"))
             /\ rec' = "asking" /\ UNCHANGED todo
    <3>1. OneLateCall'
      BY <2>1, <2>4, LateGiven DEF Stamps
    <3> QED BY <2>1, <2>4, <3>1 DEF AtARow
  <2> QED BY <1>2, <1>3, <2>2, <2>3, <2>4
<1>9. CASE ChainAppend
  <2>1. CASE Answer("none")
    BY <1>4, <1>9, <2>1 DEF ChainAppend, Busy
  <2>2. CASE Advance("appended") /\ UNCHANGED <<rec, todo>>
    BY <1>9, <2>2, AdvanceFacts DEF ChainAppend, Busy, OneLateCall, AtARow
  <2> QED BY <1>9, <2>1, <2>2 DEF ChainAppend
<1>10. CASE Seal \/ WorkRaises \/ RetainCheckpoint
  BY <1>4, <1>10 DEF Seal, WorkRaises, RetainCheckpoint, Busy
<1>11. CASE ClaimBoot
  BY <1>11, AdvanceFacts DEF ClaimBoot, Busy, OneLateCall, AtARow
<1>12. CASE AskCheckpoint
  BY <1>12, LateGiven DEF AskCheckpoint, Stamps, AtARow
<1>13. ASSUME NEW a \in Acts, LogAction(a) \/ LeavePending(a) \/ EmissionTold(a)
       PROVE  OneLateCall' /\ AtARow'
  BY <1>1, <1>13 DEF LogAction, LeavePending, EmissionTold
<1>14. ASSUME NEW a \in Acts, Attest(a) PROVE OneLateCall' /\ AtARow'
  <2>1. \/ Idle
        \/ work' = Append(work, Call(a, "at_emission")) /\ UNCHANGED <<rec, todo>>
    BY <1>14 DEF Attest
  <2> QED BY <1>1, <2>1, LateGiven DEF Stamps, AtARow
<1>15. ASSUME NEW a \in Acts, BoundPasses(a) PROVE OneLateCall' /\ AtARow'
  <2>1. UNCHANGED <<rec, todo>> /\ (Idle \/ \E i \in DOMAIN work : work' = RemoveAt(work, i))
    BY <1>15 DEF BoundPasses
  <2> QED BY <1>1, <2>1, RemovedIsThinned, LateThinned DEF AtARow
<1>16. CASE UNCHANGED vars
  BY <1>1, <1>16 DEF vars
<1> QED BY <1>5, <1>6, <1>7, <1>8, <1>9, <1>10, <1>11, <1>12, <1>13, <1>14, <1>15, <1>16
        DEF Next, Worker

-----------------------------------------------------------------------------
(* Who is told of a seq is told of an envelope *)

LEMMA SealSeals ==
  ASSUME TypeOK, Seal, NEW a, a = Head(work).act
  PROVE  Sealed(a)'
<1>1. ledger \in Seq(Acts) /\ DOMAIN ledger = 1..Len(ledger) /\ Len(ledger) \in Nat
  BY LenProperties DEF TypeOK
<1>2. CASE Sealed(a)
  BY <1>2 DEF Seal, Sealed
<1>3. CASE ~Sealed(a)
  <2>1. ledger' = Append(ledger, a)
    BY <1>3 DEF Seal
  <2>2. Len(ledger) + 1 \in DOMAIN ledger' /\ ledger'[Len(ledger) + 1] = a
    BY <1>1, <2>1
  <2> QED BY <2>2 DEF Sealed
<1> QED BY <1>2, <1>3

\* A step that tells nobody new of a seq.
LEMMA ToldKept ==
  ASSUME TypeOK, [Next]_vars, ToldIsSealed,
         \A a \in Acts : emit'[a] = "seq" => emit[a] = "seq",
         rec' = "seq" => rec = "seq" /\ todo' = todo
  PROVE  ToldIsSealed'
<1>1. \A a : Sealed(a) => Sealed(a)'
  BY StepGrows
<1>2. ASSUME rec' = "seq" PROVE Sealed(Min(todo))'
  <2>1. rec = "seq" /\ todo' = todo
    BY <1>2
  <2>2. PICK b : b = Min(todo)
    OBVIOUS
  <2>3. Sealed(b)'
    BY <1>1, <2>1, <2>2 DEF ToldIsSealed
  <2> QED BY <2>1, <2>2, <2>3
<1> QED BY <1>1, <1>2 DEF ToldIsSealed

LEMMA ToldStep ==
  TypeOK /\ WorkInOrder /\ OneLateCall /\ ToldIsSealed /\ [Next]_vars => ToldIsSealed'
<1> SUFFICES ASSUME TypeOK, WorkInOrder, OneLateCall, ToldIsSealed, [Next]_vars
             PROVE  ToldIsSealed'
  OBVIOUS
<1> USE DEF durable, evidence, history
<1>0. emit \in EmissionStates
  BY DEF TypeOK, EmissionStates
<1> DEFINE Quiet == /\ \A a \in Acts : emit'[a] = "seq" => emit[a] = "seq"
                    /\ rec' = "seq" => rec = "seq" /\ todo' = todo
<1>1. CASE Quiet
  BY <1>1, ToldKept
<1>2. CASE work # <<>> /\ Answer("none") /\ UNCHANGED todo
  <2>1. Quiet
    BY <1>0, <1>2, AnswerFacts DEF EmissionStates
  <2> QED BY <1>1, <2>1
<1>3. CASE Start \/ Scan \/ RetryTold \/ AskCheckpoint \/ ClaimBoot \/ UNCHANGED vars
  <2>1. Quiet
    BY <1>3 DEF Start, Scan, RetryTold, AskCheckpoint, ClaimBoot, vars
  <2> QED BY <1>1, <2>1
<1>4. CASE Crash
  <2>1. Quiet
    BY <1>4 DEF Crash, GoDown
  <2> QED BY <1>1, <2>1
<1>5. CASE Retry
  <2>1. Quiet
    BY <1>5 DEF Retry, GoDown
  <2> QED BY <1>1, <2>1
<1>6. CASE ChainAppend
  <2>1. work # <<>> /\ UNCHANGED todo /\ (UNCHANGED <<emit, rec>> \/ Answer("none"))
    BY <1>6 DEF ChainAppend, Busy
  <2> QED BY <1>1, <1>2, <2>1
<1>7. CASE WorkRaises
  BY <1>2, <1>7 DEF WorkRaises
<1>8. CASE Seal
  <2>1. work # <<>> /\ Answer("seq") /\ UNCHANGED todo
    BY <1>8 DEF Seal, Busy
  <2>2. PICK b : b = work[1].act
    OBVIOUS
  <2>3. Sealed(b)' /\ \A a : Sealed(a) => Sealed(a)'
    BY <1>8, <2>1, <2>2, HeadFacts, SealSeals, StepGrows
  <2>4. ASSUME NEW a \in Acts, emit'[a] = "seq" PROVE Sealed(a)'
    <3>1. emit[a] = "seq" \/ a = b
      BY <1>0, <2>1, <2>2, <2>4, AnswerFacts DEF EmissionStates
    <3> QED BY <2>3, <3>1 DEF ToldIsSealed
  <2>5. ASSUME rec' = "seq" PROVE Sealed(Min(todo))'
    <3>1. PICK c : c = Min(todo)
      OBVIOUS
    <3>2. rec = "seq" \/ c = b
      BY <2>1, <2>2, <2>5, <3>1, AnswerFacts DEF OneLateCall
    <3>3. Sealed(c)'
      BY <2>3, <3>1, <3>2 DEF ToldIsSealed
    <3> QED BY <2>1, <3>1, <3>3
  <2> QED BY <2>4, <2>5 DEF ToldIsSealed
<1>9. CASE RetainCheckpoint
  <2>1. work # <<>> /\ Answer("seq") /\ Head(work).at = "numbered" /\ UNCHANGED todo
    BY <1>9 DEF RetainCheckpoint, Busy
  <2>2. 1 \in DOMAIN work /\ work[1].at = "numbered"
    BY <2>1, HeadFacts
  <2>3. work[1].act \notin Acts /\ work[1].stamp = "at_emission"
    BY <2>2, ActsAssumption DEF WorkInOrder, Checkpoint
  <2>4. Quiet
    BY <1>0, <2>1, <2>3, AnswerFacts
  <2> QED BY <1>1, <2>4
<1>10. ASSUME NEW a \in Acts,
              LogAction(a) \/ LeavePending(a) \/ Attest(a) \/ BoundPasses(a) \/ EmissionTold(a)
       PROVE  ToldIsSealed'
  <2>1. Quiet
    BY <1>0, <1>10 DEF LogAction, LeavePending, Attest, BoundPasses, EmissionTold, EmissionStates
  <2> QED BY <1>1, <2>1
<1> QED BY <1>3, <1>4, <1>5, <1>6, <1>7, <1>8, <1>9, <1>10 DEF Next, Worker

LEMMA SignedStep ==
  TypeOK /\ ToldIsSealed /\ SignedMeansSealed /\ [Next]_vars => SignedMeansSealed'
<1> SUFFICES ASSUME TypeOK, ToldIsSealed, SignedMeansSealed, [Next]_vars,
                    NEW a \in Acts, row'[a] \in {"signed", "reconciled"}
             PROVE  Sealed(a)'
  BY DEF SignedMeansSealed
<1> USE DEF durable, evidence, history
<1>1. Sealed(a) => Sealed(a)'
  BY StepGrows
<1>2. CASE row'[a] = row[a]
  BY <1>1, <1>2 DEF SignedMeansSealed
<1>3. CASE RetryTold
  <2>1. row' = row \/ a # Min(todo) \/ rec = "seq"
    BY <1>3 DEF RetryTold, TypeOK
  <2>2. row'[a] = row[a] \/ a = Min(todo)
    BY <1>3 DEF RetryTold, TypeOK
  <2> QED BY <1>1, <1>2, <2>1, <2>2 DEF ToldIsSealed
<1>4. ASSUME NEW b \in Acts, EmissionTold(b) PROVE Sealed(a)'
  <2>1. row'[a] = row[a] \/ (a = b /\ emit[b] = "seq")
    BY <1>4 DEF EmissionTold, TypeOK
  <2> QED BY <1>1, <1>2, <2>1 DEF ToldIsSealed
<1>5. CASE Retry
  <2>1. row' = row \/ row' = [row EXCEPT ![Min(todo)] = "refused"]
    BY <1>5 DEF Retry
  <2> QED BY <1>2, <2>1 DEF TypeOK
<1>6. ASSUME NEW b \in Acts, LogAction(b) PROVE Sealed(a)'
  BY <1>2, <1>6 DEF LogAction, TypeOK
<1>7. CASE \/ Start \/ Crash \/ Scan \/ Worker \/ AskCheckpoint \/ UNCHANGED vars
           \/ \E b \in Acts : LeavePending(b) \/ Attest(b) \/ BoundPasses(b)
  <2>1. row' = row
    BY <1>7 DEF Start, Crash, Scan, Worker, ChainAppend, Seal, WorkRaises, ClaimBoot,
           RetainCheckpoint, AskCheckpoint, LeavePending, Attest, BoundPasses, vars
  <2> QED BY <1>2, <2>1
<1> QED BY <1>3, <1>4, <1>5, <1>6, <1>7 DEF Next

-----------------------------------------------------------------------------
(* One chain row and one envelope *)

LEMMA OnceStep == TypeOK /\ WorkInOrder /\ AttestedOnce /\ [Next]_vars => AttestedOnce'
<1> SUFFICES ASSUME TypeOK, WorkInOrder, AttestedOnce, [Next]_vars PROVE AttestedOnce'
  OBVIOUS
<1> USE DEF durable, evidence, history
<1>0. \A a : Attested(a) => Attested(a)'
  BY StepGrows
<1>1. /\ chain \in Seq([act : Acts, stamp : Stamps]) /\ Len(chain) \in Nat
      /\ DOMAIN chain = 1..Len(chain)
  BY LenProperties DEF TypeOK
<1>2. ledger \in Seq(Acts) /\ Len(ledger) \in Nat /\ DOMAIN ledger = 1..Len(ledger)
  BY LenProperties DEF TypeOK
<1>3. CASE UNCHANGED <<chain, ledger>>
  BY <1>3 DEF AttestedOnce, Attested
<1>4. CASE ChainAppend
  <2>1. ledger' = ledger
    BY <1>4 DEF ChainAppend
  <2>2. CASE chain' = chain
    BY <1>3, <2>1, <2>2
  <2>3. CASE chain' # chain
    <3>1. PICK e : ~Attested(e.act) /\ chain' = Append(chain, e)
      BY <1>4, <2>3 DEF ChainAppend
    <3>2. /\ DOMAIN chain' = 1..(Len(chain) + 1) /\ chain'[Len(chain) + 1] = e
          /\ \A i \in 1..Len(chain) : chain'[i] = chain[i]
      BY <1>1, <3>1
    <3>3. \A i \in 1..Len(chain) : chain[i].act # e.act
      BY <1>1, <3>1 DEF Attested
    <3>4. \A i, j \in DOMAIN chain' : chain'[i].act = chain'[j].act => i = j
      BY <1>1, <3>2, <3>3 DEF AttestedOnce
    <3> QED BY <1>0, <2>1, <3>4 DEF AttestedOnce
  <2> QED BY <2>2, <2>3
<1>5. CASE Seal
  <2>1. chain' = chain /\ work # <<>> /\ Head(work).at = "appended"
    BY <1>5 DEF Seal, Busy
  <2>2. PICK b : b = Head(work).act
    OBVIOUS
  <2>3. Attested(b)
    BY <2>1, <2>2, HeadFacts DEF WorkInOrder
  <2>4. CASE Sealed(b)
    BY <1>3, <1>5, <2>2, <2>4 DEF Seal
  <2>5. CASE ~Sealed(b)
    <3>1. ledger' = Append(ledger, b)
      BY <1>5, <2>2, <2>5 DEF Seal
    <3>2. /\ DOMAIN ledger' = 1..(Len(ledger) + 1) /\ ledger'[Len(ledger) + 1] = b
          /\ \A i \in 1..Len(ledger) : ledger'[i] = ledger[i]
      BY <1>2, <3>1
    <3>3. \A i \in 1..Len(ledger) : ledger[i] # b
      BY <1>2, <2>5 DEF Sealed
    <3>4. \A i, j \in DOMAIN ledger' : ledger'[i] = ledger'[j] => i = j
      BY <1>2, <3>2, <3>3 DEF AttestedOnce
    <3>5. ASSUME NEW i \in DOMAIN ledger' PROVE Attested(ledger[i])' 
      <4>1. PICK c : c = ledger'[i]
        OBVIOUS
      <4>2. c = b \/ \E j \in DOMAIN ledger : c = ledger[j]
        BY <1>2, <3>2, <3>5, <4>1
      <4>3. Attested(c)
        BY <2>3, <4>2 DEF AttestedOnce
      <4> QED BY <2>1, <4>1, <4>3 DEF Attested
    <3> QED BY <2>1, <3>4, <3>5 DEF AttestedOnce
  <2> QED BY <2>4, <2>5
<1>6. CASE ~ChainAppend /\ ~Seal
  <2>1. UNCHANGED <<chain, ledger>>
    BY <1>6 DEF Next, Worker, Start, Crash, Scan, Retry, RetryTold, WorkRaises, ClaimBoot,
           RetainCheckpoint, AskCheckpoint, LogAction, LeavePending, Attest, BoundPasses,
           EmissionTold, vars
  <2> QED BY <1>3, <2>1
<1> QED BY <1>4, <1>5, <1>6

-----------------------------------------------------------------------------
(* The boot identifier tells the lives apart *)

LEMMA BootStep ==
  TypeOK /\ DownIsEmpty /\ WorkInOrder /\ BootIsOfLife /\ BootTellsRestarts /\ [Next]_vars
    => BootIsOfLife' /\ BootTellsRestarts'
<1> SUFFICES ASSUME TypeOK, DownIsEmpty, WorkInOrder, BootIsOfLife, BootTellsRestarts, [Next]_vars
             PROVE  BootIsOfLife' /\ BootTellsRestarts'
  OBVIOUS
<1> USE DEF durable, evidence, history
<1> DEFINE Checkpoints == [boot : Nat, high : Nat, life : Nat]
<1>0. Len(ledger) <= Len(ledger')
  BY StepGrows
<1>1. /\ outbox \in Seq(Checkpoints) /\ Len(outbox) \in Nat /\ DOMAIN outbox = 1..Len(outbox)
      /\ counter \in Nat /\ boot \in Nat /\ boot <= counter /\ life \in Nat
      /\ Len(ledger) \in Nat
  BY LenProperties, BoundsAssumption DEF TypeOK
<1>2. ASSUME NEW i \in DOMAIN outbox
      PROVE  outbox[i].boot \in Nat /\ outbox[i].high \in Nat /\ outbox[i].life \in Nat
  <2>1. outbox[i] \in Checkpoints
    BY <1>1, ElementOfSeq
  <2> QED BY <2>1
<1>3. Len(ledger') \in Nat
  <2>1. \E e : ledger' = ledger \/ ledger' = Append(ledger, e)
    BY DEF Next, Worker, Start, Crash, Scan, Retry, RetryTold, ChainAppend, Seal, WorkRaises,
           ClaimBoot, RetainCheckpoint, AskCheckpoint, LogAction, LeavePending, Attest,
           BoundPasses, EmissionTold, vars
  <2>2. ledger \in Seq(Acts)
    BY DEF TypeOK
  <2> QED BY <1>1, <2>1, <2>2
<1> HIDE DEF Checkpoints
<1>4. CASE Start
  BY <1>1, <1>2, <1>4 DEF Start, DownIsEmpty, BootIsOfLife, BootTellsRestarts
<1>5. CASE UNCHANGED <<outbox, counter, life, ledger>> /\ ~up' /\ boot' = 0
  BY <1>1, <1>2, <1>5 DEF BootIsOfLife, BootTellsRestarts
<1>6. CASE ClaimBoot
  <2>1. /\ UNCHANGED <<outbox, life, ledger, up>> /\ up
        /\ counter' = (IF boot = 0 THEN counter + 1 ELSE counter)
        /\ boot' = (IF boot = 0 THEN counter + 1 ELSE boot)
    BY <1>6 DEF ClaimBoot, Busy, DownIsEmpty
  <2>2. CASE boot = 0
    BY <1>1, <1>2, <2>1, <2>2 DEF BootIsOfLife, BootTellsRestarts
  <2>3. CASE boot # 0
    BY <1>1, <1>2, <2>1, <2>3 DEF BootIsOfLife, BootTellsRestarts
  <2> QED BY <2>2, <2>3
<1>7. CASE RetainCheckpoint
  <2> DEFINE c == [boot |-> boot, high |-> Len(ledger), life |-> life]
  <2>1. outbox' = Append(outbox, c) /\ UNCHANGED <<boot, counter, life, ledger, up>>
    BY <1>7 DEF RetainCheckpoint
  <2>2. boot # 0 /\ boot = counter
    BY <1>7, HeadFacts DEF RetainCheckpoint, Busy, WorkInOrder, BootIsOfLife
  <2>3. c.boot = boot /\ c.high = Len(ledger) /\ c.life = life
    OBVIOUS
  <2> HIDE DEF c
  <2>4. /\ DOMAIN outbox' = 1..(Len(outbox) + 1) /\ outbox'[Len(outbox) + 1] = c
        /\ \A i \in 1..Len(outbox) : outbox'[i] = outbox[i]
    BY <1>1, <2>1
  <2>5. \A i \in DOMAIN outbox' :
          \/ i \in DOMAIN outbox /\ outbox'[i] = outbox[i]
          \/ i = Len(outbox) + 1 /\ outbox'[i] = c
    BY <1>1, <2>4
  <2>6. BootIsOfLife'
    BY <1>1, <1>2, <2>1, <2>2, <2>3, <2>5 DEF BootIsOfLife
  <2>7. ASSUME NEW i \in DOMAIN outbox', NEW j \in DOMAIN outbox', i < j
        PROVE  /\ outbox'[i].high <= outbox'[j].high
               /\ outbox'[i].boot <= outbox'[j].boot
               /\ outbox'[i].boot = outbox'[j].boot <=> outbox'[i].life = outbox'[j].life
    <3>1. i \in DOMAIN outbox /\ outbox'[i] = outbox[i]
      BY <1>1, <2>4, <2>7
    <3>2. CASE j \in DOMAIN outbox /\ outbox'[j] = outbox[j]
      BY <2>7, <3>1, <3>2 DEF BootTellsRestarts
    <3>3. CASE outbox'[j] = c
      BY <1>1, <1>2, <2>2, <2>3, <3>1, <3>3 DEF BootIsOfLife
    <3> QED BY <2>5, <3>2, <3>3
  <2> QED BY <2>6, <2>7 DEF BootTellsRestarts
<1>8. CASE UNCHANGED <<outbox, counter, life, boot, up>>
  BY <1>0, <1>1, <1>2, <1>3, <1>8 DEF BootIsOfLife, BootTellsRestarts
<1>9. \/ Start \/ ClaimBoot \/ RetainCheckpoint
      \/ UNCHANGED <<outbox, counter, life, ledger>> /\ ~up' /\ boot' = 0
      \/ UNCHANGED <<outbox, counter, life, boot, up>>
  BY DEF Next, Worker, Crash, GoDown, Scan, Retry, RetryTold, ChainAppend, Seal, WorkRaises,
         AskCheckpoint, LogAction, LeavePending, Attest, BoundPasses, EmissionTold, vars
<1> QED BY <1>4, <1>5, <1>6, <1>7, <1>8, <1>9

-----------------------------------------------------------------------------
(* The theorems *)

Inv ==
  /\ TypeOK /\ DownIsEmpty /\ WorkInOrder /\ OneLateCall /\ AtARow /\ ToldIsSealed
  /\ AttestedOnce /\ SignedMeansSealed /\ BootIsOfLife /\ BootTellsRestarts

LEMMA InvInit == Init => Inv
<1> SUFFICES ASSUME Init PROVE Inv
  OBVIOUS
<1>1. TypeOK
  BY TypeInit
<1>2. DownIsEmpty /\ AtARow /\ ToldIsSealed /\ SignedMeansSealed
  BY DEF Init, DownIsEmpty, AtARow, ToldIsSealed, SignedMeansSealed
<1>3. work = <<>> /\ chain = <<>> /\ ledger = <<>> /\ outbox = <<>> /\ boot = 0
  BY DEF Init
<1>4. WorkInOrder /\ OneLateCall /\ AttestedOnce
  BY <1>3 DEF WorkInOrder, OneLateCall, AttestedOnce
<1>5. BootIsOfLife /\ BootTellsRestarts
  BY <1>3 DEF BootIsOfLife, BootTellsRestarts
<1> QED BY <1>1, <1>2, <1>4, <1>5, Zenon DEF Inv

LEMMA InvStep == Inv /\ [Next]_vars => Inv'
<1> SUFFICES ASSUME Inv, [Next]_vars PROVE Inv'
  OBVIOUS
<1>1. TypeOK'
  BY TypeStep, Zenon DEF Inv
<1>2. DownIsEmpty' /\ WorkInOrder'
  BY <1>1, DownStep, WorkInOrderStep, Zenon DEF Inv
<1>3. OneLateCall' /\ AtARow' /\ ToldIsSealed'
  BY LateStep, ToldStep, Zenon DEF Inv
<1>4. AttestedOnce' /\ SignedMeansSealed'
  BY OnceStep, SignedStep, Zenon DEF Inv
<1>5. BootIsOfLife' /\ BootTellsRestarts'
  BY BootStep, Zenon DEF Inv
<1> QED BY <1>1, <1>2, <1>3, <1>4, <1>5, Zenon DEF Inv

LEMMA Invariance == Spec => []Inv
<1> QED BY InvInit, InvStep, PTL DEF Spec

\* The types of the action log, the chain, the ledger, the outbox and the
\* worker's queue.
THEOREM TypeCorrect == Spec => []TypeOK
<1>1. Inv => TypeOK
  BY Zenon DEF Inv
<1> QED BY <1>1, Invariance, PTL

\* An act attested by its emission, by a late call whose wait was abandoned
\* and by the retries of later starts has one chain row and one envelope at
\* most (EvidenceChain.append, EvidenceDeliveryLedger.seal).
THEOREM OneRowOneEnvelope == Spec => []AttestedOnce
<1>1. Inv => AttestedOnce
  BY Zenon DEF Inv
<1> QED BY <1>1, Invariance, PTL

\* No interleaving of emissions, retries, faults and crashes marks a row
\* signed or reconciled whose envelope is not there (_attest_action,
\* _reconcile_pending_attestations).
THEOREM SignedIsSealed == Spec => []SignedMeansSealed
<1>1. Inv => SignedMeansSealed
  BY Zenon DEF Inv
<1> QED BY <1>1, Invariance, PTL

\* Retained checkpoints share a boot identifier exactly when one life signed
\* them, and neither it nor the high water falls (boot_id, checkpoint).
THEOREM BootsTellRestarts == Spec => []BootTellsRestarts
<1>1. Inv => BootTellsRestarts
  BY Zenon DEF Inv
<1> QED BY <1>1, Invariance, PTL
=============================================================================
