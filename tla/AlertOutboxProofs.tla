------------------------- MODULE AlertOutboxProofs -------------------------
(***************************************************************************)
(* Proofs about AlertOutbox, for any notices, kinds, batch size, limit and *)
(* number of crashes.                                                      *)
(***************************************************************************)
EXTENDS AlertOutbox, FiniteSetTheorems, SequenceTheorems, WellFoundedInduction, TLAPS

Read == [alert : Alerts, attempts : 0..Limit]

\* The row the loop is at, as it was read.
At == IF loop = "polling" THEN Head(polls) ELSE Head(batch)

\* What the loop hears and charges the row an attempt for.
Charged == Failed \cup {"terminal"}

-----------------------------------------------------------------------------
(* The inductive invariant *)

\* Every recorded notice has one place in the retry order, and nothing else has.
InOrder ==
  /\ Range(order) = {a \in Alerts : status[a] # "none"}
  /\ IsInjective(order)

\* An answer is about a row the loop holds, and of the part of the loop it is in.
AtARow ==
  /\ loop = "polling" /\ answer # "none" =>
       polls # <<>> /\ answer \in Receipts \cup {"abandon"}
  /\ loop = "retrying" /\ answer # "none" =>
       batch # <<>> /\ answer \in Results \cup {"abandon"}
  /\ loop \notin {"polling", "retrying"} => answer = "none"

\* What the loop read is of recorded rows, and no count has fallen since.
ReadIsOld ==
  /\ \A i \in DOMAIN polls :
       status[polls[i].alert] # "none" /\ polls[i].attempts <= attempts[polls[i].alert]
  /\ \A i \in DOMAIN batch :
       status[batch[i].alert] # "none" /\ batch[i].attempts <= attempts[batch[i].alert]

\* Whoever is about to record an acceptance heard it from a provider.
AcceptanceHeard ==
  /\ \A a \in Alerts : first[a] = "accepted" => a \in taken
  /\ loop = "retrying" /\ answer = "accepted" => At.alert \in taken

\* No row is charged more attempts than have failed; the failure the loop is
\* about to charge is one more, unless the limit is reached; and it gives up
\* only a row whose limit is.
ChargedHasFailed ==
  /\ \A a \in Alerts : attempts[a] <= failures[a]
  /\ answer \in Charged /\ At.alert \in Optional =>
       failures[At.alert] = Limit \/ attempts[At.alert] < failures[At.alert]
  /\ answer = "abandon" => At.alert \in Optional /\ failures[At.alert] = Limit

\* The loop has recorded what became of the row it is at.
Recorded == loop' = loop /\ answer' # answer /\ answer \in Results \cup Receipts

\* Unless that took the row out of the lane the loop read it from, the row is
\* now last.
TriedGoesLast ==
  /\ Recorded /\ loop = "retrying" /\ status'[retried] \in Queued => Last(order') = retried
  /\ Recorded /\ loop = "polling" /\ polled \in Awaiting' => Last(order') = polled

\* A row ahead of another stays so until it goes to the end itself.
NoneOvertaken ==
  \A a, b \in Alerts : Ahead(a, b) => Ahead(a, b)' \/ Last(order') = a

Inv ==
  /\ TypeOK
  /\ InOrder
  /\ AtARow
  /\ ReadIsOld
  /\ AcceptanceHeard
  /\ ChargedHasFailed
  /\ ObligationKept

-----------------------------------------------------------------------------
(* Helpers *)

\* Taking one row out moves those behind it up.
LEMMA RemoveAtFacts ==
  ASSUME NEW S, NEW s \in Seq(S), NEW i \in DOMAIN s
  PROVE  /\ RemoveAt(s, i) \in Seq(S)
         /\ Len(RemoveAt(s, i)) = Len(s) - 1
         /\ \A k \in 1..(Len(s) - 1) :
              RemoveAt(s, i)[k] = IF k < i THEN s[k] ELSE s[k + 1]
<1>1. i \in 1..Len(s) /\ Len(s) \in Nat
  BY LenProperties
<1> DEFINE front == SubSeq(s, 1, i - 1)
           back == SubSeq(s, i + 1, Len(s))
<1>2. /\ front \in Seq(S) /\ Len(front) = i - 1
      /\ \A k \in 1..(i - 1) : front[k] = s[k]
  BY <1>1, SMT
<1>3. /\ back \in Seq(S) /\ Len(back) = Len(s) - i
      /\ \A k \in 1..(Len(s) - i) : back[k] = s[i + k]
  BY <1>1, SMT
<1>4. RemoveAt(s, i) = front \o back
  BY DEF RemoveAt
<1> HIDE DEF front, back
<1>5. /\ front \o back \in Seq(S)
      /\ Len(front \o back) = Len(front) + Len(back)
      /\ \A k \in 1..(Len(front) + Len(back)) :
           (front \o back)[k] = IF k <= Len(front) THEN front[k] ELSE back[k - Len(front)]
  BY <1>2, <1>3, ConcatProperties
<1>6. ASSUME NEW k \in 1..(Len(s) - 1)
      PROVE  (front \o back)[k] = IF k < i THEN s[k] ELSE s[k + 1]
  <2>1. CASE k < i
    BY <1>1, <1>2, <1>3, <1>5, <2>1
  <2>2. CASE ~(k < i)
    <3>1. k - (i - 1) \in 1..(Len(s) - i) /\ i + (k - (i - 1)) = k + 1
      BY <1>1, <2>2
    <3>2. k \in 1..(Len(front) + Len(back)) /\ ~(k <= Len(front)) /\ Len(front) = i - 1
      BY <1>1, <1>2, <1>3, <2>2
    <3>4. (front \o back)[k] = back[k - (i - 1)]
      BY <1>5, <3>2, Zenon
    <3>3. back[k - (i - 1)] = s[k + 1]
      BY <1>3, <3>1
    <3> QED BY <2>2, <3>4, <3>3
  <2> QED BY <2>1, <2>2
<1>7. Len(front \o back) = Len(s) - 1
  BY <1>1, <1>2, <1>3, <1>5
<1> QED BY <1>4, <1>5, <1>6, <1>7

\* The row taken out is the one asked for.
LEMMA RemoveFirstFacts ==
  ASSUME NEW s \in Seq(Alerts), NEW a \in Alerts, a \in Range(s)
  PROVE  \E i \in DOMAIN s : s[i] = a /\ RemoveFirst(s, a) = RemoveAt(s, i)
<1> DEFINE places == {i \in 1..Len(s) : s[i] = a}
<1>1. Len(s) \in Nat /\ DOMAIN s = 1..Len(s)
  BY LenProperties
<1>2. places # {} /\ places \subseteq Nat
  BY <1>1 DEF Range
<1>3. Min(places) \in places
  <2> DEFINE R == {ss \in Nat \X Nat : ss[1] < ss[2]}
  <2>1. IsWellFoundedOn(R, Nat)
    BY NatLessThanWellFounded, Zenon DEF OpToRel
  <2> HIDE DEF places
  <2>2. \A x, y \in places : ~(<<y, x>> \in R) => x =< y
    BY <1>2
  <2> HIDE DEF R
  <2>3. \E x \in places : \A y \in places : ~(<<y, x>> \in R)
    BY <1>2, <2>1, WFMin, Zenon
  <2>4. \E x \in places : \A y \in places : x =< y
    BY <2>2, <2>3
  <2> QED BY <2>4 DEF Min
<1>4. SelectInSeq(s, LAMBDA v : v = a) = Min(places)
  BY <1>2 DEF SelectInSeq
<1>5. RemoveFirst(s, a) = RemoveAt(s, Min(places))
  <2>1. \E i \in 1..Len(s) : s[i] = a
    BY <1>2
  <2> QED BY <2>1, <1>4, Zenon DEF RemoveFirst
<1> QED BY <1>1, <1>3, <1>5

\* A row sent to the back keeps one place, and so does every other.
LEMMA BackFacts ==
  ASSUME TypeOK, NEW a \in Alerts
  PROVE  /\ ToTheBack(a) \in Seq(Alerts)
         /\ IsInjective(order) =>
              /\ IsInjective(ToTheBack(a))
              /\ Range(ToTheBack(a)) = Range(order) \cup {a}
<1> DEFINE front == RemoveFirst(order, a)
<1>1. order \in Seq(Alerts) /\ Len(order) \in Nat /\ DOMAIN order = 1..Len(order)
  BY LenProperties DEF TypeOK
<1>2. /\ front \in Seq(Alerts)
      /\ IsInjective(order) =>
           IsInjective(front) /\ a \notin Range(front) /\ Range(front) \cup {a} = Range(order) \cup {a}
  <2>1. CASE a \notin Range(order)
    <3>1. front = order
      BY <1>1, <2>1 DEF RemoveFirst, Range
    <3> QED BY <1>1, <2>1, <3>1
  <2>2. CASE a \in Range(order)
    <3>1. PICK i \in DOMAIN order : order[i] = a /\ front = RemoveAt(order, i)
      BY <1>1, <2>2, RemoveFirstFacts
    <3>2. /\ front \in Seq(Alerts) /\ Len(front) = Len(order) - 1
          /\ \A k \in 1..(Len(order) - 1) :
               front[k] = IF k < i THEN order[k] ELSE order[k + 1]
      BY <1>1, <3>1, RemoveAtFacts
    <3> HIDE DEF front
    <3>3. DOMAIN front = 1..(Len(order) - 1)
      BY <3>2, LenProperties
    <3>4. SUFFICES ASSUME IsInjective(order)
                   PROVE  IsInjective(front) /\ a \notin Range(front) /\ Range(front) \cup {a} = Range(order) \cup {a}
      BY <3>2
    <3>5. IsInjective(front)
      <4> SUFFICES ASSUME NEW j \in DOMAIN front, NEW k \in DOMAIN front, front[j] = front[k]
                   PROVE  j = k
        BY DEF IsInjective
      <4> DEFINE was(x) == IF x < i THEN x ELSE x + 1
      <4>1. \A x \in DOMAIN front : was(x) \in DOMAIN order /\ front[x] = order[was(x)]
        BY <1>1, <3>1, <3>2, <3>3
      <4>2. \A x, y \in DOMAIN front : was(x) = was(y) => x = y
        BY <1>1, <3>1, <3>3
      <4> HIDE DEF was
      <4>3. was(j) = was(k)
        BY <3>4, <4>1, Zenon DEF IsInjective
      <4> QED BY <4>2, <4>3
    <3>6. a \notin Range(front)
      BY <1>1, <3>1, <3>2, <3>3, <3>4 DEF IsInjective, Range
    <3>7. \A b : b \in Range(front) => b \in Range(order)
      BY <1>1, <3>1, <3>2, <3>3 DEF Range
    <3>8. ASSUME NEW b \in Range(order), b # a
          PROVE  b \in Range(front)
      <4>1. PICK j \in DOMAIN order : order[j] = b
        BY DEF Range
      <4>2. j # i
        BY <3>1, <3>8, <4>1
      <4>3. CASE j < i
        <5>1. j \in DOMAIN front /\ front[j] = b
          BY <1>1, <3>1, <3>2, <3>3, <4>1, <4>3
        <5> QED BY <5>1 DEF Range
      <4>4. CASE j > i
        <5>1. j - 1 \in DOMAIN front /\ front[j - 1] = b
          BY <1>1, <3>1, <3>2, <3>3, <4>1, <4>4
        <5> QED BY <5>1 DEF Range
      <4> QED BY <1>1, <4>2, <4>3, <4>4
    <3> QED BY <3>5, <3>6, <3>7, <3>8
  <2> QED BY <2>1, <2>2
<1>3. ToTheBack(a) = Append(front, a)
  BY DEF ToTheBack
<1> HIDE DEF front
<1>4. /\ Append(front, a) \in Seq(Alerts)
      /\ Len(Append(front, a)) = Len(front) + 1
      /\ \A i \in 1..Len(front) : Append(front, a)[i] = front[i]
      /\ Append(front, a)[Len(front) + 1] = a
  BY <1>2, AppendProperties
<1>5. /\ Len(front) \in Nat /\ DOMAIN front = 1..Len(front)
      /\ DOMAIN Append(front, a) = 1..(Len(front) + 1)
  BY <1>2, <1>4, LenProperties
<1>6. ASSUME IsInjective(order)
      PROVE  IsInjective(Append(front, a))
  BY <1>2, <1>4, <1>5, <1>6 DEF IsInjective, Range
<1>7. Range(Append(front, a)) = Range(front) \cup {a}
  BY <1>4, <1>5 DEF Range
<1> QED BY <1>2, <1>3, <1>4, <1>6, <1>7

\* A charge: by one, up to the limit, and only of an optional notice.
LEMMA OneMoreFacts ==
  ASSUME NEW count \in [Alerts -> 0..Limit], NEW a \in Alerts
  PROVE  /\ OneMore(count, a) \in [Alerts -> 0..Limit]
         /\ \A b \in Alerts : count[b] <= OneMore(count, a)[b]
         /\ \A b \in Alerts \ {a} : OneMore(count, a)[b] = count[b]
         /\ a \notin Optional => OneMore(count, a)[a] = count[a]
         /\ a \in Optional => \/ OneMore(count, a)[a] = Limit /\ count[a] = Limit
                              \/ OneMore(count, a)[a] = count[a] + 1
  BY SizesAssumption DEF OneMore

\* The notices are finitely many, so a read is a sequence of at most n rows.
LEMMA OldestFacts ==
  ASSUME NEW S \in SUBSET Alerts, NEW n \in Nat, NEW s \in Oldest(S, n)
  PROVE  s \in Seq(S) /\ s \in Seq(Alerts) /\ Len(s) \in Nat /\ Len(s) <= n
<1>1. Cardinality(S) \in Nat
  BY BoundsAssumption, FS_Subset, FS_CardinalityType
<1>2. AtMost(Cardinality(S), n) \in Nat /\ AtMost(Cardinality(S), n) <= n
  BY <1>1 DEF AtMost
<1>3. s \in [1..AtMost(Cardinality(S), n) -> S]
  BY DEF Oldest
<1>4. s \in Seq(S) /\ Len(s) = AtMost(Cardinality(S), n)
  BY <1>2, <1>3
<1> QED BY <1>2, <1>3, <1>4

\* What is kept of a read: the alert and the count of each row.
LEMMA AsReadFacts ==
  ASSUME TypeOK, NEW S \in SUBSET Alerts, NEW s \in Seq(S)
  PROVE  /\ AsRead(s) \in Seq(Read)
         /\ \A i \in DOMAIN AsRead(s) :
              AsRead(s)[i].alert \in S /\ AsRead(s)[i].attempts = attempts[AsRead(s)[i].alert]
<1>1. Len(s) \in Nat /\ DOMAIN s = 1..Len(s) /\ \A i \in DOMAIN s : s[i] \in S
  BY LenProperties, ElementOfSeq
<1>2. \A i \in DOMAIN s : [alert |-> s[i], attempts |-> attempts[s[i]]] \in Read
  BY <1>1 DEF TypeOK, Read
<1>3. AsRead(s) \in [1..Len(s) -> Read]
  BY <1>1, <1>2 DEF AsRead
<1>4. AsRead(s) \in Seq(Read)
  BY <1>1, <1>3
<1> QED BY <1>1, <1>4 DEF AsRead

\* The rest of a read, once its first row is done with.
LEMMA TailFacts ==
  ASSUME NEW s \in Seq(Read), s # <<>>
  PROVE  /\ Head(s) \in Read /\ Head(s) = s[1] /\ 1 \in DOMAIN s
         /\ Tail(s) \in Seq(Read)
         /\ \A i \in DOMAIN Tail(s) : i + 1 \in DOMAIN s /\ Tail(s)[i] = s[i + 1]
<1>1. Len(s) \in Nat /\ DOMAIN s = 1..Len(s) /\ Len(s) > 0
  BY LenProperties, EmptySeq
<1>2. Tail(s) \in Seq(Read) /\ Len(Tail(s)) = Len(s) - 1
  BY <1>1, HeadTailProperties
<1>3. DOMAIN Tail(s) = 1..(Len(s) - 1)
  BY <1>2, LenProperties
<1>4. Head(s) = s[1] /\ s[1] \in Read
  BY <1>1, ElementOfSeq
<1>5. \A i \in 1..(Len(s) - 1) : Tail(s)[i] = s[i + 1]
  BY <1>1
<1> QED BY <1>1, <1>2, <1>3, <1>4, <1>5

-----------------------------------------------------------------------------
(* What the operations of the store do to its rows *)

\* An operation on the row of a: the others stay as they are, no row goes away
\* or loses its place, and no count falls.
RowStep(a) ==
  /\ status' \in [Alerts -> {"none", "pending", "failed", "accepted", "abandoned"}]
  /\ attempts' \in [Alerts -> 0..Limit]
  /\ order' \in Seq(Alerts)
  /\ delivered' \in [Alerts -> BOOLEAN]
  /\ InOrder'
  /\ \A b \in Alerts : status[b] # "none" => status'[b] # "none"
  /\ \A b \in Alerts : attempts[b] <= attempts'[b]
  /\ \A b \in Alerts \ {a} : status'[b] = status[b] /\ attempts'[b] = attempts[b]

LEMMA RowsKept ==
  ASSUME TypeOK, InOrder, UNCHANGED rows, NEW a
  PROVE  RowStep(a)
<1>1. /\ status' = status /\ attempts' = attempts /\ order' = order /\ delivered' = delivered
  BY DEF rows
<1>2. InOrder'
  BY <1>1 DEF InOrder
<1>3. \A b \in Alerts : attempts[b] \in 0..Limit
  BY DEF TypeOK
<1> QED BY <1>1, <1>2, <1>3, SizesAssumption DEF RowStep, TypeOK

\* A row that has moved to the back, or keeps its place, and is recorded.
LEMMA PlaceKept ==
  ASSUME TypeOK, InOrder, NEW a \in Alerts,
         status' \in [Alerts -> {"none", "pending", "failed", "accepted", "abandoned"}],
         \A b \in Alerts \ {a} : status'[b] = status[b],
         status'[a] # "none",
         order' = ToTheBack(a) \/ (order' = order /\ status[a] # "none")
  PROVE  InOrder' /\ order' \in Seq(Alerts)
<1>1. CASE order' = ToTheBack(a)
  <2>1. /\ order' \in Seq(Alerts) /\ IsInjective(order')
        /\ Range(order') = Range(order) \cup {a}
    BY <1>1, BackFacts DEF InOrder
  <2>2. Range(order') = {b \in Alerts : status'[b] # "none"}
    BY <2>1 DEF InOrder
  <2> QED BY <2>1, <2>2 DEF InOrder
<1>2. CASE order' = order /\ status[a] # "none"
  <2>1. Range(order') = {b \in Alerts : status'[b] # "none"}
    BY <1>2 DEF InOrder
  <2> QED BY <1>2, <2>1 DEF InOrder, TypeOK
<1> QED BY <1>1, <1>2

\* The status of a row, and where it ends up, after an operation that records it.
LEMMA StatusSet ==
  ASSUME TypeOK, InOrder, NEW a \in Alerts,
         NEW st \in {"pending", "failed", "accepted", "abandoned"},
         status' = [status EXCEPT ![a] = st],
         order' = ToTheBack(a) \/ (order' = order /\ status[a] # "none"),
         attempts' = attempts \/ attempts' = OneMore(attempts, a),
         delivered' \in [Alerts -> BOOLEAN]
  PROVE  RowStep(a) /\ status'[a] = st
<1>1. /\ status' \in [Alerts -> {"none", "pending", "failed", "accepted", "abandoned"}]
      /\ \A b \in Alerts \ {a} : status'[b] = status[b]
      /\ status'[a] = st /\ st # "none"
  BY DEF TypeOK
<1>2. InOrder' /\ order' \in Seq(Alerts)
  BY <1>1, PlaceKept
<1>3. /\ attempts' \in [Alerts -> 0..Limit]
      /\ \A b \in Alerts : attempts[b] <= attempts'[b]
      /\ \A b \in Alerts \ {a} : attempts'[b] = attempts[b]
  <2>1. attempts \in [Alerts -> 0..Limit]
    BY DEF TypeOK
  <2>2. CASE attempts' = attempts
    BY <2>1, <2>2, SizesAssumption
  <2>3. CASE attempts' = OneMore(attempts, a)
    BY <2>1, <2>3, OneMoreFacts
  <2> QED BY <2>2, <2>3
<1> QED BY <1>1, <1>2, <1>3 DEF RowStep

\* A row sent to the back and not otherwise changed, if it is sent at all.
LEMMA StatusKept ==
  ASSUME TypeOK, InOrder, NEW a \in Alerts, UNCHANGED <<status, attempts>>,
         delivered' \in [Alerts -> BOOLEAN],
         (order' = ToTheBack(a) /\ status[a] # "none") \/ order' = order
  PROVE  RowStep(a)
<1>1. InOrder' /\ order' \in Seq(Alerts)
  <2>1. CASE order' = ToTheBack(a) /\ status[a] # "none"
    BY <2>1, PlaceKept DEF TypeOK
  <2>2. CASE order' = order
    BY <2>2 DEF InOrder, TypeOK
  <2> QED BY <2>1, <2>2
<1>2. \A b \in Alerts : attempts[b] \in 0..Limit
  BY DEF TypeOK
<1> QED BY <1>1, <1>2, SizesAssumption DEF RowStep, TypeOK

LEMMA EnqueueRow ==
  ASSUME TypeOK, InOrder, NEW a \in Alerts, EnqueueAlert(a)
  PROVE  RowStep(a) /\ status'[a] = "pending" /\ attempts' = attempts
  BY StatusSet DEF EnqueueAlert, TypeOK

LEMMA AcceptedRow ==
  ASSUME TypeOK, InOrder, NEW a \in Alerts, MarkAlertAccepted(a)
  PROVE  RowStep(a) /\ status'[a] = "accepted" /\ attempts' = attempts
<1>1. delivered' \in [Alerts -> BOOLEAN]
  BY DEF MarkAlertAccepted, TypeOK
<1> QED BY <1>1, StatusSet DEF MarkAlertAccepted

LEMMA FailedRow ==
  ASSUME TypeOK, InOrder, NEW a \in Alerts, MarkAlertAttemptFailed(a)
  PROVE  RowStep(a) /\ status'[a] = "failed" /\ attempts' = OneMore(attempts, a)
  BY StatusSet DEF MarkAlertAttemptFailed, TypeOK

LEMMA DeferredRow ==
  ASSUME TypeOK, InOrder, NEW a \in Alerts, DeferAlert(a)
  PROVE  RowStep(a) /\ status' = status /\ attempts' = attempts
  BY StatusKept DEF DeferAlert, TypeOK, Queued

LEMMA RequeuedRow ==
  ASSUME TypeOK, InOrder, NEW a \in Alerts, RequeueReceiptPoll(a)
  PROVE  RowStep(a) /\ status' = status /\ attempts' = attempts
  BY StatusKept DEF RequeueReceiptPoll, TypeOK

LEMMA ReportedRow ==
  ASSUME TypeOK, InOrder, NEW a \in Alerts, NEW terminal \in BOOLEAN,
         RecordDeliveryStatus(a, terminal)
  PROVE  /\ RowStep(a)
         /\ status' = status \/ status'[a] = "failed"
         /\ attempts' = attempts \/ (terminal /\ attempts' = OneMore(attempts, a))
<1>1. CASE status[a] # "accepted"
  BY <1>1, RowsKept DEF RecordDeliveryStatus, rows
<1>2. CASE status[a] = "accepted" /\ terminal
  BY <1>2, StatusSet DEF RecordDeliveryStatus, TypeOK
<1>3. CASE status[a] = "accepted" /\ ~terminal
  <2>1. delivered' \in [Alerts -> BOOLEAN]
    BY <1>3 DEF RecordDeliveryStatus, TypeOK
  <2> QED BY <1>3, <2>1, StatusKept DEF RecordDeliveryStatus
<1> QED BY <1>1, <1>2, <1>3

LEMMA AbandonedRow ==
  ASSUME TypeOK, InOrder, NEW a \in Alerts, status[a] # "none", MarkAlertAbandoned(a)
  PROVE  RowStep(a) /\ attempts' = attempts /\ (status' = status \/ status'[a] = "abandoned")
<1>1. CASE a \in Optional
  BY <1>1, StatusSet DEF MarkAlertAbandoned, TypeOK
<1>2. CASE a \notin Optional
  BY <1>2, StatusKept DEF MarkAlertAbandoned, TypeOK
<1> QED BY <1>1, <1>2

-----------------------------------------------------------------------------
(* What the loop read before *)

\* What was read before an operation on a row is old after it too.
LEMMA ReadStaysOld ==
  ASSUME TypeOK, ReadIsOld, NEW a, RowStep(a),
         polls' = polls \/ (polls # <<>> /\ polls' = Tail(polls)) \/ polls' = <<>>,
         batch' = batch \/ (batch # <<>> /\ batch' = Tail(batch)) \/ batch' = <<>>
  PROVE  ReadIsOld' /\ polls' \in Seq(Read) /\ batch' \in Seq(Read)
<1>1. ASSUME NEW s \in Seq(Read), NEW t, t = s \/ (s # <<>> /\ t = Tail(s)) \/ t = <<>>,
             \A i \in DOMAIN s :
               status[s[i].alert] # "none" /\ s[i].attempts <= attempts[s[i].alert]
      PROVE  /\ t \in Seq(Read)
             /\ \A i \in DOMAIN t :
                  status'[t[i].alert] # "none" /\ t[i].attempts <= attempts'[t[i].alert]
  <2>1. t \in Seq(Read) /\ \A i \in DOMAIN t : \E j \in DOMAIN s : t[i] = s[j]
    <3>1. CASE t = s
      BY <1>1, <3>1
    <3>2. CASE s # <<>> /\ t = Tail(s)
      BY <1>1, <3>2, TailFacts
    <3>3. CASE t = <<>>
      <4>1. t \in Seq(Read)
        BY <3>3, EmptySeq, Zenon
      <4> QED BY <3>3, <4>1
    <3> QED BY <1>1, <3>1, <3>2, <3>3
  <2>2. ASSUME NEW r \in Read, status[r.alert] # "none", r.attempts <= attempts[r.alert]
        PROVE  status'[r.alert] # "none" /\ r.attempts <= attempts'[r.alert]
    <3>1. /\ r.alert \in Alerts /\ r.attempts \in Nat /\ attempts[r.alert] \in Nat
          /\ attempts'[r.alert] \in Nat
      BY SizesAssumption DEF Read, RowStep, TypeOK
    <3>2. attempts[r.alert] <= attempts'[r.alert] /\ status'[r.alert] # "none"
      BY <2>2, <3>1 DEF RowStep
    <3> QED BY <2>2, <3>1, <3>2
  <2>3. \A j \in DOMAIN s : s[j] \in Read
    BY ElementOfSeq, LenProperties
  <2> QED BY <1>1, <2>1, <2>2, <2>3
<1>2. polls \in Seq(Read) /\ batch \in Seq(Read)
  BY DEF TypeOK, Read
<1>3. /\ polls' \in Seq(Read)
      /\ \A i \in DOMAIN polls' :
           status'[polls'[i].alert] # "none" /\ polls'[i].attempts <= attempts'[polls'[i].alert]
  BY <1>1, <1>2, Zenon DEF ReadIsOld
<1>4. /\ batch' \in Seq(Read)
      /\ \A i \in DOMAIN batch' :
           status'[batch'[i].alert] # "none" /\ batch'[i].attempts <= attempts'[batch'[i].alert]
  BY <1>1, <1>2, Zenon DEF ReadIsOld
<1> QED BY <1>3, <1>4 DEF ReadIsOld

\* The row the loop is at.
LEMMA AtFacts ==
  ASSUME Inv, answer # "none"
  PROVE  /\ At \in Read /\ At.alert \in Alerts /\ At.attempts \in Nat
         /\ status[At.alert] # "none"
         /\ attempts[At.alert] \in Nat /\ failures[At.alert] \in 0..Limit
         /\ At.attempts <= attempts[At.alert]
         /\ \/ loop = "polling" /\ polls # <<>> /\ At = Head(polls) /\ answer \in Receipts \cup {"abandon"}
            \/ loop = "retrying" /\ batch # <<>> /\ At = Head(batch) /\ answer \in Results \cup {"abandon"}
<1>1. \/ loop = "polling" /\ polls # <<>> /\ At = Head(polls) /\ answer \in Receipts \cup {"abandon"}
      \/ loop = "retrying" /\ batch # <<>> /\ At = Head(batch) /\ answer \in Results \cup {"abandon"}
  BY DEF Inv, AtARow, TypeOK, At
<1>2. polls \in Seq(Read) /\ batch \in Seq(Read)
  BY DEF Inv, TypeOK, Read
<1>3. /\ At \in Read /\ status[At.alert] # "none"
      /\ At.attempts <= attempts[At.alert]
  <2>1. CASE loop = "polling" /\ polls # <<>> /\ At = Head(polls)
    <3>1. At \in Read /\ At = polls[1] /\ 1 \in DOMAIN polls
      BY <1>2, <2>1, TailFacts
    <3> QED BY <3>1 DEF Inv, ReadIsOld
  <2>2. CASE loop = "retrying" /\ batch # <<>> /\ At = Head(batch)
    <3>1. At \in Read /\ At = batch[1] /\ 1 \in DOMAIN batch
      BY <1>2, <2>2, TailFacts
    <3> QED BY <3>1 DEF Inv, ReadIsOld
  <2> QED BY <1>1, <2>1, <2>2
<1>4. At.alert \in Alerts /\ At.attempts \in Nat
  BY <1>3, SizesAssumption DEF Read
<1>5. attempts[At.alert] \in Nat /\ failures[At.alert] \in 0..Limit
  BY <1>4, SizesAssumption DEF Inv, TypeOK
<1> QED BY <1>1, <1>3, <1>4, <1>5

-----------------------------------------------------------------------------
(* What providers answer *)

\* Acceptances are not taken back and failures are counted.
WorldStep ==
  /\ kind' = kind
  /\ crashes' \in 0..MaxCrashes
  /\ taken \subseteq taken' /\ taken' \subseteq Alerts
  /\ failures' \in [Alerts -> 0..Limit]
  /\ \A b \in Alerts : failures[b] <= failures'[b]

\* Whoever charges a row has a failure to charge it for.
FairCharge ==
  \A b \in Alerts :
    \/ attempts'[b] = attempts[b]
    \/ attempts'[b] = attempts[b] + 1 /\ (failures'[b] = Limit \/ failures'[b] = failures[b] + 1)

LEMMA WorldKept ==
  ASSUME TypeOK, UNCHANGED world
  PROVE  WorldStep /\ taken' = taken /\ failures' = failures
<1>1. \A b \in Alerts : failures[b] \in 0..Limit
  BY DEF TypeOK
<1> QED BY <1>1, SizesAssumption DEF world, WorldStep, TypeOK

\* A first send's answer changes only who has taken the notice.
LEMMA HeardFacts ==
  ASSUME TypeOK, NEW a \in Alerts, NEW result, Heard(a, result),
         UNCHANGED <<kind, failures, crashes>>
  PROVE  WorldStep /\ (result = "accepted" => a \in taken')
<1>1. \A b \in Alerts : failures[b] \in 0..Limit
  BY DEF TypeOK
<1>2. taken' = IF result = "accepted" THEN taken \cup {a} ELSE taken
  BY DEF Heard
<1> QED BY <1>1, <1>2, SizesAssumption DEF WorldStep, TypeOK

\* A try of the loop is counted if it failed.
LEMMA TriedFacts ==
  ASSUME TypeOK, NEW a \in Alerts, NEW result, Heard(a, result), UNCHANGED <<kind, crashes>>,
         failures' = IF result \in Failed THEN OneMore(failures, a) ELSE failures
  PROVE  /\ WorldStep
         /\ result = "accepted" => a \in taken'
         /\ result \in Failed /\ a \in Optional =>
              failures'[a] = Limit \/ failures'[a] = failures[a] + 1
<1>1. failures \in [Alerts -> 0..Limit]
  BY DEF TypeOK
<1>2. CASE result \in Failed
  <2>1. failures' = OneMore(failures, a) /\ taken' = taken
    BY <1>2 DEF Heard, Failed
  <2>2. /\ failures' \in [Alerts -> 0..Limit]
        /\ \A b \in Alerts : failures[b] <= failures'[b]
        /\ a \in Optional => failures'[a] = Limit \/ failures'[a] = failures[a] + 1
    BY <1>1, <2>1, OneMoreFacts
  <2> QED BY <1>2, <2>1, <2>2 DEF WorldStep, TypeOK, Failed
<1>3. CASE result \notin Failed
  BY <1>3, HeardFacts
<1> QED BY <1>2, <1>3

LEMMA HeardLaterFacts ==
  ASSUME TypeOK, NEW a \in Alerts, NEW terminal \in BOOLEAN, HeardLater(a, terminal)
  PROVE  /\ WorldStep /\ taken' = taken
         /\ failures' = IF terminal THEN OneMore(failures, a) ELSE failures
         /\ terminal /\ a \in Optional => failures'[a] = Limit \/ failures'[a] = failures[a] + 1
<1>1. failures \in [Alerts -> 0..Limit]
  BY DEF TypeOK
<1>2. CASE terminal
  <2>1. failures' = OneMore(failures, a) /\ UNCHANGED <<kind, taken, crashes>>
    BY <1>2 DEF HeardLater
  <2>2. /\ failures' \in [Alerts -> 0..Limit]
        /\ \A b \in Alerts : failures[b] <= failures'[b]
        /\ a \in Optional => failures'[a] = Limit \/ failures'[a] = failures[a] + 1
    BY <1>1, <2>1, OneMoreFacts
  <2> QED BY <1>2, <2>1, <2>2 DEF WorldStep, TypeOK
<1>3. CASE ~terminal
  <2>1. failures' = failures /\ UNCHANGED <<kind, taken, crashes>>
    BY <1>3 DEF HeardLater
  <2>2. \A b \in Alerts : failures[b] <= failures'[b]
    BY <1>1, <2>1, SizesAssumption
  <2> QED BY <1>1, <1>3, <2>1, <2>2 DEF WorldStep, TypeOK
<1> QED BY <1>2, <1>3

\* A fair charge keeps the counts of the rows within the failures.
LEMMA ChargeKept ==
  ASSUME Inv, WorldStep, FairCharge, attempts' \in [Alerts -> 0..Limit]
  PROVE  /\ \A b \in Alerts : attempts'[b] <= failures'[b]
         /\ \A b \in Alerts : failures[b] = Limit => failures'[b] = Limit
         /\ \A b \in Alerts : failures[b] = Limit \/ attempts[b] < failures[b] =>
              failures'[b] = Limit \/ attempts'[b] < failures'[b]
         /\ Optional' = Optional
<1>1. Optional' = Optional
  BY DEF WorldStep, Optional, Mandatory
<1>2. ASSUME NEW b \in Alerts
      PROVE  /\ attempts'[b] <= failures'[b]
             /\ failures[b] = Limit => failures'[b] = Limit
             /\ failures[b] = Limit \/ attempts[b] < failures[b] =>
                  failures'[b] = Limit \/ attempts'[b] < failures'[b]
  <2>1. /\ attempts[b] \in 0..Limit /\ failures[b] \in 0..Limit
        /\ attempts'[b] \in 0..Limit /\ failures'[b] \in 0..Limit
        /\ attempts[b] <= failures[b] /\ failures[b] <= failures'[b]
    BY DEF Inv, TypeOK, WorldStep, ChargedHasFailed
  <2>2. \/ attempts'[b] = attempts[b]
        \/ attempts'[b] = attempts[b] + 1 /\ (failures'[b] = Limit \/ failures'[b] = failures[b] + 1)
    BY DEF FairCharge
  <2> QED BY <2>1, <2>2, SizesAssumption
<1> QED BY <1>1, <1>2

\* What a step of a first send, of the webhook or of a crash keeps: it leaves the
\* loop as it is.
LEMMA BesideTheLoop ==
  ASSUME Inv, NEW a \in Alerts, RowStep(a), WorldStep, FairCharge, UNCHANGED looping,
         first' \in [Alerts -> {"idle", "sending", "accepted", "done"}],
         \A b \in Alerts : first'[b] = "accepted" => b \in taken',
         status'[a] = "accepted" => a \in taken',
         status'[a] = "abandoned" => status[a] = "abandoned"
  PROVE  Inv'
<1>1. /\ loop' = loop /\ polls' = polls /\ batch' = batch /\ answer' = answer /\ spare' = spare
      /\ At' = At
  BY DEF looping, At
<1>2. ReadIsOld' /\ polls' \in Seq(Read) /\ batch' \in Seq(Read)
  BY <1>1, ReadStaysOld DEF Inv
<1>3. TypeOK'
  BY <1>1 DEF Inv, TypeOK, RowStep, WorldStep, Results, Receipts
<1>4. InOrder'
  BY DEF RowStep
<1>5. AtARow'
  BY <1>1 DEF Inv, AtARow, Receipts, Results
<1>6. AcceptanceHeard'
  BY <1>1 DEF Inv, AcceptanceHeard, WorldStep
<1>7. /\ \A b \in Alerts : attempts'[b] <= failures'[b]
      /\ \A b \in Alerts : failures[b] = Limit => failures'[b] = Limit
      /\ \A b \in Alerts : failures[b] = Limit \/ attempts[b] < failures[b] =>
           failures'[b] = Limit \/ attempts'[b] < failures'[b]
      /\ Optional' = Optional
  BY ChargeKept DEF RowStep
<1>8. ChargedHasFailed'
  <2>1. answer # "none" => At.alert \in Alerts
    BY AtFacts
  <2>2. ASSUME answer' \in Charged, At'.alert \in Optional'
        PROVE  failures'[At'.alert] = Limit \/ attempts'[At'.alert] < failures'[At'.alert]
    BY <1>1, <1>7, <2>1, <2>2 DEF Inv, ChargedHasFailed, Charged, Failed
  <2>3. ASSUME answer' = "abandon"
        PROVE  At'.alert \in Optional' /\ failures'[At'.alert] = Limit
    BY <1>1, <1>7, <2>1, <2>3 DEF Inv, ChargedHasFailed
  <2> QED BY <1>7, <2>2, <2>3 DEF ChargedHasFailed
<1>9. ObligationKept'
  <2>1. ASSUME NEW b \in Alerts
        PROVE  /\ status'[b] = "accepted" => b \in taken'
               /\ status'[b] = "abandoned" => status[b] = "abandoned"
    BY DEF Inv, ObligationKept, RowStep, WorldStep
  <2>2. \A b \in Alerts : status'[b] = "abandoned" => b \in Optional' /\ failures'[b] = Limit
    BY <1>7, <2>1 DEF Inv, ObligationKept
  <2> QED BY <2>1, <2>2 DEF ObligationKept
<1> QED BY <1>2, <1>3, <1>4, <1>5, <1>6, <1>8, <1>9 DEF Inv

-----------------------------------------------------------------------------
(* First sends and the webhook *)

LEMMA QueueInv ==
  ASSUME Inv, NEW a \in Alerts, Queue(a)
  PROVE  Inv'
<1>1. RowStep(a) /\ status'[a] = "pending" /\ attempts' = attempts
  BY EnqueueRow DEF Inv, Queue
<1>2. WorldStep /\ taken' = taken
  BY WorldKept DEF Inv, Queue
<1>3. /\ first' \in [Alerts -> {"idle", "sending", "accepted", "done"}]
      /\ \A b \in Alerts : first'[b] = "accepted" => b \in taken'
  BY <1>2 DEF Inv, Queue, TypeOK, AcceptanceHeard
<1>4. FairCharge
  BY <1>1 DEF FairCharge
<1> QED BY <1>1, <1>2, <1>3, <1>4, BesideTheLoop DEF Queue

\* A first send that leaves the rows alone.
LEMMA UnrecordedInv ==
  ASSUME Inv, NEW a \in Alerts,
         Withhold(a) \/ AcceptanceNotRecorded(a) \/ \E result \in Results : Submit(a, result)
  PROVE  Inv'
<1>1. UNCHANGED rows /\ UNCHANGED looping
  BY DEF Withhold, AcceptanceNotRecorded, Submit
<1>2. RowStep(a) /\ status' = status /\ attempts' = attempts
  BY <1>1, RowsKept DEF Inv, rows
<1>3. /\ WorldStep
      /\ first' \in [Alerts -> {"idle", "sending", "accepted", "done"}]
      /\ \A b \in Alerts : first'[b] = "accepted" => b \in taken'
  <2>1. CASE Withhold(a) \/ AcceptanceNotRecorded(a)
    <3>1. WorldStep /\ taken' = taken
      BY <2>1, WorldKept DEF Inv, Withhold, AcceptanceNotRecorded
    <3>2. first' = [first EXCEPT ![a] = "done"]
      BY <2>1 DEF Withhold, AcceptanceNotRecorded
    <3> QED BY <3>1, <3>2 DEF Inv, TypeOK, AcceptanceHeard
  <2>2. ASSUME NEW result \in Results, Submit(a, result)
        PROVE  /\ WorldStep
               /\ first' \in [Alerts -> {"idle", "sending", "accepted", "done"}]
               /\ \A b \in Alerts : first'[b] = "accepted" => b \in taken'
    <3>1. WorldStep /\ (result = "accepted" => a \in taken')
      BY <2>2, HeardFacts DEF Inv, Submit
    <3>2. first' = [first EXCEPT ![a] = IF result = "accepted" THEN "accepted" ELSE "done"]
      BY <2>2 DEF Submit
    <3>3. \A b \in Alerts : first'[b] = "accepted" => b \in taken'
      BY <3>1, <3>2 DEF Inv, TypeOK, AcceptanceHeard, WorldStep
    <3> QED BY <3>1, <3>2, <3>3 DEF Inv, TypeOK
  <2> QED BY <2>1, <2>2
<1>4. FairCharge
  BY <1>2 DEF FairCharge
<1>5. status'[a] = "accepted" => a \in taken'
  BY <1>2, <1>3 DEF Inv, ObligationKept, WorldStep
<1> QED BY <1>1, <1>2, <1>3, <1>4, <1>5, BesideTheLoop

\* The acceptance a first send records was heard before.
LEMMA RecordAcceptanceInv ==
  ASSUME Inv, NEW a \in Alerts, RecordAcceptance(a)
  PROVE  Inv'
<1>1. RowStep(a) /\ status'[a] = "accepted" /\ attempts' = attempts
  BY AcceptedRow DEF Inv, RecordAcceptance
<1>2. WorldStep /\ taken' = taken
  BY WorldKept DEF Inv, RecordAcceptance
<1>3. /\ first' \in [Alerts -> {"idle", "sending", "accepted", "done"}]
      /\ \A b \in Alerts : first'[b] = "accepted" => b \in taken'
      /\ a \in taken'
  BY <1>2 DEF Inv, RecordAcceptance, TypeOK, AcceptanceHeard
<1>4. FairCharge
  BY <1>1 DEF FairCharge
<1> QED BY <1>1, <1>2, <1>3, <1>4, BesideTheLoop DEF RecordAcceptance

\* A report charges the row and is counted at once.
LEMMA DeliveryReportInv ==
  ASSUME Inv, NEW a \in Alerts, NEW terminal \in BOOLEAN, DeliveryReport(a, terminal)
  PROVE  Inv'
<1>1. /\ RowStep(a)
      /\ status' = status \/ status'[a] = "failed"
      /\ attempts' = attempts \/ (terminal /\ attempts' = OneMore(attempts, a))
  BY ReportedRow DEF Inv, DeliveryReport
<1>2. /\ WorldStep /\ taken' = taken
      /\ terminal /\ a \in Optional => failures'[a] = Limit \/ failures'[a] = failures[a] + 1
  BY HeardLaterFacts DEF Inv, DeliveryReport
<1>3. FairCharge
  <2>1. CASE attempts' = attempts
    BY <2>1 DEF FairCharge
  <2>2. CASE terminal /\ attempts' = OneMore(attempts, a)
    <3>1. attempts \in [Alerts -> 0..Limit]
      BY DEF Inv, TypeOK
    <3>2. /\ \A b \in Alerts \ {a} : attempts'[b] = attempts[b]
          /\ a \notin Optional => attempts'[a] = attempts[a]
          /\ a \in Optional => \/ attempts'[a] = Limit /\ attempts[a] = Limit
                               \/ attempts'[a] = attempts[a] + 1
      BY <2>2, <3>1, OneMoreFacts
    <3> QED BY <1>2, <2>2, <3>2 DEF FairCharge
  <2> QED BY <1>1, <2>1, <2>2
<1>4. first' = first
  BY DEF DeliveryReport
<1>5. /\ first' \in [Alerts -> {"idle", "sending", "accepted", "done"}]
      /\ \A b \in Alerts : first'[b] = "accepted" => b \in taken'
  BY <1>2, <1>4 DEF Inv, TypeOK, AcceptanceHeard
<1>6. status'[a] = "accepted" => a \in taken'
  BY <1>1, <1>2 DEF Inv, ObligationKept
<1>7. status'[a] = "abandoned" => status[a] = "abandoned"
  BY <1>1
<1> QED BY <1>1, <1>2, <1>3, <1>5, <1>6, <1>7, BesideTheLoop DEF DeliveryReport

-----------------------------------------------------------------------------
(* The delivery loop *)

Loops == {"waiting", "polling", "retrying", "dead"}

\* What a step of the loop has to establish.
LEMMA OfTheLoop ==
  ASSUME Inv, NEW a, RowStep(a), WorldStep, first' = first,
         loop' \in Loops, spare' \in BOOLEAN,
         answer' \in {"none", "abandon"} \cup Receipts \cup Results,
         polls' \in Seq(Read), batch' \in Seq(Read),
         ReadIsOld', AtARow', ChargedHasFailed', ObligationKept',
         loop' = "retrying" /\ answer' = "accepted" => At'.alert \in taken'
  PROVE  Inv'
<1>1. TypeOK'
  BY DEF Inv, TypeOK, RowStep, WorldStep, Results, Receipts, Loops, Read
<1>2. InOrder'
  BY DEF RowStep
<1>3. AcceptanceHeard'
  BY DEF Inv, AcceptanceHeard, WorldStep
<1> QED BY <1>1, <1>2, <1>3 DEF Inv

\* A step that writes no row and leaves no answer pending.
LEMMA QuietInv ==
  ASSUME Inv, UNCHANGED rows, WorldStep, taken' = taken, failures' = failures,
         answer' = "none", loop' \in Loops, spare' \in BOOLEAN,
         polls' \in Seq(Read), batch' \in Seq(Read), ReadIsOld',
         \A b \in Alerts : first'[b] = "accepted" => first[b] = "accepted",
         first' \in [Alerts -> {"idle", "sending", "accepted", "done"}]
  PROVE  Inv'
<1>1. status' = status /\ attempts' = attempts /\ order' = order /\ delivered' = delivered
  BY DEF rows
<1>2. TypeOK'
  BY <1>1 DEF Inv, TypeOK, WorldStep, Loops, Read
<1>3. InOrder'
  BY <1>1 DEF Inv, InOrder
<1>4. AtARow'
  BY DEF AtARow
<1>5. AcceptanceHeard'
  BY DEF Inv, AcceptanceHeard
<1>6. ChargedHasFailed'
  BY <1>1 DEF Inv, ChargedHasFailed, Charged, Failed
<1>7. ObligationKept'
  <2>1. Optional' = Optional
    BY DEF WorldStep, Optional, Mandatory
  <2> QED BY <1>1, <2>1 DEF Inv, ObligationKept
<1> QED BY <1>2, <1>3, <1>4, <1>5, <1>6, <1>7 DEF Inv

\* The end of a pass, a store that raises, and a crash.
LEMMA PausesInv ==
  ASSUME Inv, FetchFails \/ BatchDone \/ StoreRaises \/ Crash
  PROVE  Inv'
<1>1. UNCHANGED rows
  BY DEF FetchFails, BatchDone, StoreRaises, Crash
<1>2. WorldStep /\ taken' = taken /\ failures' = failures
  <2>1. CASE FetchFails \/ BatchDone \/ StoreRaises
    BY <2>1, WorldKept DEF Inv, FetchFails, BatchDone, StoreRaises
  <2>2. CASE Crash
    <3>1. crashes' \in 0..MaxCrashes
      BY <2>2, BoundsAssumption DEF Inv, TypeOK, Crash
    <3>2. \A b \in Alerts : failures[b] \in 0..Limit
      BY DEF Inv, TypeOK
    <3> QED BY <2>2, <3>1, <3>2, SizesAssumption DEF Inv, TypeOK, Crash, WorldStep
  <2> QED BY <2>1, <2>2
<1>3. /\ loop' \in Loops /\ spare' \in BOOLEAN /\ answer' = "none"
      /\ polls' = polls \/ polls' = <<>>
      /\ batch' = batch \/ batch' = <<>>
  BY DEF Inv, TypeOK, AtARow, FetchFails, BatchDone, StoreRaises, Crash, Loops
<1>4. ReadIsOld' /\ polls' \in Seq(Read) /\ batch' \in Seq(Read)
  <2>1. RowStep(0)
    BY <1>1, RowsKept DEF Inv
  <2> QED BY <1>3, <2>1, ReadStaysOld DEF Inv
<1>5. /\ first' \in [Alerts -> {"idle", "sending", "accepted", "done"}]
      /\ \A b \in Alerts : first'[b] = "accepted" => first[b] = "accepted"
  BY DEF Inv, TypeOK, FetchFails, BatchDone, StoreRaises, Crash
<1> QED BY <1>1, <1>2, <1>3, <1>4, <1>5, QuietInv

\* The accepted rows a pass polls are read as they are.
LEMMA WakeInv ==
  ASSUME Inv, NEW fetched \in BOOLEAN, Wake(fetched)
  PROVE  Inv'
<1>1. UNCHANGED rows /\ first' = first /\ spare' = spare /\ loop' = "polling"
  BY DEF Wake
<1>2. WorldStep /\ taken' = taken /\ failures' = failures
  BY WorldKept DEF Inv, Wake
<1>3. answer' = "none"
  BY DEF Wake, Inv, AtARow
<1>4. PICK read \in Oldest(Awaiting, Batch) : polls' = IF fetched THEN AsRead(read) ELSE <<>>
  BY DEF Wake
<1>5. Awaiting \in SUBSET Alerts /\ Batch \in Nat
  BY SizesAssumption DEF Awaiting
<1>6. read \in Seq(Awaiting)
  BY <1>5, OldestFacts
<1>7. /\ AsRead(read) \in Seq(Read)
      /\ \A i \in DOMAIN AsRead(read) :
           /\ AsRead(read)[i].alert \in Awaiting
           /\ AsRead(read)[i].attempts = attempts[AsRead(read)[i].alert]
  BY <1>5, <1>6, AsReadFacts DEF Inv
<1>8. /\ polls' \in Seq(Read)
      /\ \A i \in DOMAIN polls' :
           polls'[i].alert \in Awaiting /\ polls'[i].attempts = attempts[polls'[i].alert]
  <2>1. CASE fetched
    BY <1>4, <1>7, <2>1
  <2>2. CASE ~fetched
    <3>1. polls' = <<>>
      BY <1>4, <2>2
    <3>2. polls' \in Seq(Read)
      BY <3>1, EmptySeq, Zenon
    <3> QED BY <3>1, <3>2
  <2> QED BY <2>1, <2>2
<1>9. ReadIsOld' /\ batch' \in Seq(Read)
  <2>1. batch' = batch /\ status' = status /\ attempts' = attempts
    BY <1>1 DEF Wake, rows
  <2>2. \A b \in Awaiting : status[b] # "none" /\ attempts[b] <= attempts[b]
    BY SizesAssumption DEF Inv, TypeOK, Awaiting
  <2> QED BY <1>8, <2>1, <2>2 DEF Inv, ReadIsOld, TypeOK, Read
<1> QED BY <1>1, <1>2, <1>3, <1>8, <1>9, QuietInv DEF Inv, TypeOK, Loops

\* A batch is made of queued rows, as they are.
LEMMA FetchInv ==
  ASSUME Inv, Fetch
  PROVE  Inv'
<1>1. UNCHANGED rows /\ first' = first /\ spare' \in BOOLEAN /\ loop' = "retrying"
  BY DEF Fetch
<1>2. WorldStep /\ taken' = taken /\ failures' = failures
  BY WorldKept DEF Inv, Fetch
<1>3. answer' = "none"
  BY DEF Fetch, Inv, AtARow
<1> DEFINE S == {a \in Alerts : status[a] \in Queued}
<1>4. PICK mandatory \in Oldest(Lane(Mandatory), Batch), optional \in Oldest(Lane(Optional), Batch) :
        batch' = AsRead(NextRetryBatch(mandatory, optional))
  BY DEF Fetch
<1>5. /\ Lane(Mandatory) \in SUBSET Alerts /\ Lane(Optional) \in SUBSET Alerts
      /\ Lane(Mandatory) \subseteq S /\ Lane(Optional) \subseteq S
      /\ Batch \in Nat /\ S \in SUBSET Alerts
  BY SizesAssumption DEF Lane, Mandatory, Optional
<1>6. /\ mandatory \in Seq(Lane(Mandatory)) /\ Len(mandatory) \in Nat /\ Len(mandatory) <= Batch
      /\ optional \in Seq(Lane(Optional)) /\ Len(optional) \in Nat /\ Len(optional) <= Batch
  BY <1>5, OldestFacts
<1> HIDE DEF S
<1>7. mandatory \in Seq(S) /\ optional \in Seq(S)
  BY <1>5, <1>6
<1> DEFINE take == Take(mandatory, optional)
<1>8. take \in Nat /\ take <= Len(mandatory) /\ take <= Batch
  <2>1. Share \in Nat
    BY SizesAssumption DEF Share
  <2> QED BY <1>6, <2>1, SizesAssumption DEF Take, AtMost
<1> DEFINE more == AtMost(Len(optional), Batch - take)
<1>9. more \in Nat /\ more <= Len(optional)
  BY <1>6, <1>8, SizesAssumption DEF AtMost
<1>10. NextRetryBatch(mandatory, optional) = SubSeq(mandatory, 1, take) \o SubSeq(optional, 1, more)
  BY DEF NextRetryBatch
<1> HIDE DEF take, more
<1>11. SubSeq(mandatory, 1, take) \in Seq(S) /\ SubSeq(optional, 1, more) \in Seq(S)
  BY <1>6, <1>7, <1>8, <1>9
<1>12. NextRetryBatch(mandatory, optional) \in Seq(S)
  BY <1>10, <1>11, ConcatProperties
<1>13. /\ batch' \in Seq(Read)
       /\ \A i \in DOMAIN batch' :
            batch'[i].alert \in S /\ batch'[i].attempts = attempts[batch'[i].alert]
  BY <1>4, <1>5, <1>12, AsReadFacts DEF Inv
<1>14. ReadIsOld' /\ polls' \in Seq(Read)
  <2>1. polls' = polls /\ status' = status /\ attempts' = attempts
    BY <1>1 DEF Fetch, rows
  <2>2. \A b \in S : status[b] # "none" /\ attempts[b] <= attempts[b]
    BY SizesAssumption DEF Inv, TypeOK, S, Queued
  <2> QED BY <1>13, <2>1, <2>2 DEF Inv, ReadIsOld, TypeOK, Read
<1> QED BY <1>1, <1>2, <1>3, <1>13, <1>14, QuietInv DEF Inv, TypeOK, Loops

\* A failure the loop heard covers the charge it makes.
LEMMA ChargeHeard ==
  ASSUME Inv, WorldStep, failures' = failures,
         \/ attempts' = attempts
         \/ answer \in Charged /\ attempts' = OneMore(attempts, At.alert)
  PROVE  \A b \in Alerts : attempts'[b] <= failures'[b]
<1>1. CASE attempts' = attempts
  BY <1>1 DEF Inv, ChargedHasFailed
<1>2. CASE answer \in Charged /\ attempts' = OneMore(attempts, At.alert)
  <2>1. At.alert \in Alerts
    BY <1>2, AtFacts DEF Charged, Failed
  <2>2. attempts \in [Alerts -> 0..Limit] /\ failures \in [Alerts -> 0..Limit]
    BY DEF Inv, TypeOK
  <2>3. /\ attempts' \in [Alerts -> 0..Limit]
        /\ \A b \in Alerts \ {At.alert} : attempts'[b] = attempts[b]
        /\ At.alert \notin Optional => attempts'[At.alert] = attempts[At.alert]
        /\ At.alert \in Optional =>
             \/ attempts'[At.alert] = Limit /\ attempts[At.alert] = Limit
             \/ attempts'[At.alert] = attempts[At.alert] + 1
    BY <1>2, <2>1, <2>2, OneMoreFacts
  <2>4. ASSUME At.alert \in Optional
        PROVE  attempts'[At.alert] <= failures[At.alert]
    <3>1. failures[At.alert] = Limit \/ attempts[At.alert] < failures[At.alert]
      BY <1>2, <2>4 DEF Inv, ChargedHasFailed
    <3>2. /\ attempts[At.alert] \in 0..Limit /\ failures[At.alert] \in 0..Limit
          /\ attempts'[At.alert] \in 0..Limit /\ attempts[At.alert] <= failures[At.alert]
      BY <2>1, <2>2, <2>3 DEF Inv, ChargedHasFailed
    <3> QED BY <2>3, <2>4, <3>1, <3>2, SizesAssumption
  <2>5. \A b \in Alerts : attempts[b] <= failures[b]
    BY DEF Inv, ChargedHasFailed
  <2> QED BY <2>1, <2>3, <2>4, <2>5
<1> QED BY <1>1, <1>2

\* The count the loop read may be old, but never ahead of the failures.
LEMMA LimitReached ==
  ASSUME Inv, answer \in Charged, At.alert \in Optional,
         At.attempts + 1 >= Limit
  PROVE  failures[At.alert] = Limit
<1>1. /\ At.attempts \in Nat /\ attempts[At.alert] \in Nat /\ failures[At.alert] \in 0..Limit
      /\ At.attempts <= attempts[At.alert]
  BY AtFacts DEF Charged, Failed
<1>2. failures[At.alert] = Limit \/ attempts[At.alert] < failures[At.alert]
  BY DEF Inv, ChargedHasFailed
<1> QED BY <1>1, <1>2, SizesAssumption

\* The provider answers about the row the loop is at.
LEMMA HearsInv ==
  ASSUME Inv,
         (\E receipt \in Receipts : Poll(receipt)) \/ (\E result \in Results : Retry(result))
  PROVE  Inv'
<1>1. /\ UNCHANGED rows /\ first' = first /\ loop' = loop /\ polls' = polls /\ batch' = batch
      /\ spare' = spare /\ answer = "none"
  BY DEF Poll, Retry
<1>2. status' = status /\ attempts' = attempts /\ At' = At
  BY <1>1 DEF rows, At
<1>3. RowStep(0)
  BY <1>1, RowsKept DEF Inv
<1>4. ReadIsOld' /\ polls' \in Seq(Read) /\ batch' \in Seq(Read)
  BY <1>1, <1>3, ReadStaysOld DEF Inv
<1>5. FairCharge
  BY <1>2 DEF FairCharge
<1>6. ASSUME NEW x \in Read, x = At, WorldStep,
             answer' \in Receipts \cup Results, AtARow',
             loop' = "retrying" /\ answer' = "accepted" => x.alert \in taken',
             answer' \in Charged /\ x.alert \in Optional =>
               failures'[x.alert] = Limit \/ failures'[x.alert] = failures[x.alert] + 1
      PROVE  Inv'
  <2>1. /\ \A b \in Alerts : attempts'[b] <= failures'[b]
        /\ \A b \in Alerts : failures[b] = Limit => failures'[b] = Limit
        /\ Optional' = Optional
    BY <1>3, <1>5, <1>6, ChargeKept DEF RowStep
  <2>2. x.alert \in Alerts
    BY DEF Read
  <2>3. attempts[x.alert] <= failures[x.alert] /\ attempts[x.alert] \in Nat /\ failures[x.alert] \in Nat
    BY <2>2, SizesAssumption DEF Inv, ChargedHasFailed, TypeOK
  <2>4. ChargedHasFailed'
    <3>1. answer' \in Charged /\ x.alert \in Optional =>
            failures'[x.alert] = Limit \/ attempts'[x.alert] < failures'[x.alert]
      BY <1>2, <1>6, <2>3
    <3>2. answer' # "abandon"
      BY <1>6 DEF Receipts, Results
    <3> QED BY <1>2, <1>6, <2>1, <3>1, <3>2 DEF ChargedHasFailed
  <2>5. ObligationKept'
    BY <1>2, <1>6, <2>1 DEF Inv, ObligationKept, WorldStep
  <2>6. loop' \in Loops /\ spare' \in BOOLEAN
    BY <1>1 DEF Inv, TypeOK, Loops
  <2>7. loop' = "retrying" /\ answer' = "accepted" => At'.alert \in taken'
    BY <1>2, <1>6
  <2> QED BY <1>1, <1>3, <1>4, <1>6, <2>4, <2>5, <2>6, <2>7, OfTheLoop
<1>7. ASSUME NEW receipt \in Receipts, Poll(receipt)
      PROVE  Inv'
  <2>1. polls # <<>> /\ loop = "polling" /\ answer' = receipt
    BY <1>7 DEF Poll
  <2>2. At = Head(polls) /\ At \in Read
    BY <2>1, TailFacts DEF Inv, TypeOK, Read, At
  <2>3. At.alert \in Alerts
    BY <2>2 DEF Read
  <2>4. HeardLater(At.alert, receipt = "terminal")
    BY <1>7, <2>2 DEF Poll, polled
  <2>5. /\ WorldStep
        /\ receipt = "terminal" /\ At.alert \in Optional =>
             failures'[At.alert] = Limit \/ failures'[At.alert] = failures[At.alert] + 1
    BY <2>3, <2>4, HeardLaterFacts DEF Inv
  <2>6. AtARow' /\ answer' \notin Failed /\ answer' \in Receipts \cup Results
    BY <1>1, <2>1 DEF AtARow, Receipts, Failed
  <2> QED BY <1>1, <1>6, <2>1, <2>2, <2>5, <2>6 DEF Charged
<1>8. ASSUME NEW result \in Results, Retry(result)
      PROVE  Inv'
  <2>1. batch # <<>> /\ loop = "retrying" /\ answer' = result
    BY <1>8 DEF Retry
  <2>2. At = Head(batch) /\ At \in Read
    BY <2>1, TailFacts DEF Inv, TypeOK, Read, At
  <2>3. At.alert \in Alerts
    BY <2>2 DEF Read
  <2>4. /\ Heard(At.alert, result) /\ UNCHANGED <<kind, crashes>>
        /\ failures' = IF result \in Failed THEN OneMore(failures, At.alert) ELSE failures
    BY <1>8, <2>2 DEF Retry, retried
  <2>5. /\ WorldStep
        /\ result = "accepted" => At.alert \in taken'
        /\ result \in Failed /\ At.alert \in Optional =>
             failures'[At.alert] = Limit \/ failures'[At.alert] = failures[At.alert] + 1
    BY <2>3, <2>4, TriedFacts DEF Inv
  <2>6. AtARow' /\ answer' # "terminal" /\ answer' \in Receipts \cup Results
    BY <1>1, <2>1 DEF AtARow, Results
  <2> QED BY <1>1, <1>6, <2>1, <2>2, <2>5, <2>6 DEF Charged
<1> QED BY <1>7, <1>8

\* Once the answer is recorded, the loop goes on to the next row or gives this
\* one up.
LEMMA RecordedInv ==
  ASSUME Inv, NEW a \in Alerts, a = At.alert, answer # "none", RowStep(a), UNCHANGED world,
         first' = first, loop' = loop, spare' = spare,
         \/ attempts' = attempts
         \/ answer \in Charged /\ attempts' = OneMore(attempts, a),
         status'[a] = "accepted" => a \in taken,
         status'[a] = "abandoned" => a \in Optional /\ failures[a] = Limit,
         \/ /\ answer' = "abandon" /\ polls' = polls /\ batch' = batch
            /\ answer \in Charged /\ a \in Optional /\ At.attempts + 1 >= Limit
         \/ /\ answer' = "none" /\ loop = "polling"
            /\ polls # <<>> /\ polls' = Tail(polls) /\ batch' = batch
         \/ /\ answer' = "none" /\ loop = "retrying"
            /\ batch # <<>> /\ batch' = Tail(batch) /\ polls' = polls
  PROVE  Inv'
<1>1. WorldStep /\ taken' = taken /\ failures' = failures
  BY WorldKept DEF Inv
<1>2. ReadIsOld' /\ polls' \in Seq(Read) /\ batch' \in Seq(Read)
  BY ReadStaysOld DEF Inv
<1>3. Optional' = Optional
  BY <1>1 DEF WorldStep, Optional, Mandatory
<1>4. \A b \in Alerts : attempts'[b] <= failures'[b]
  BY <1>1, ChargeHeard
<1>5. answer' = "abandon" => At' = At /\ failures[a] = Limit /\ a \in Optional
  BY LimitReached DEF At
<1>6. ChargedHasFailed'
  BY <1>1, <1>3, <1>4, <1>5 DEF ChargedHasFailed, Charged, Failed
<1>7. ObligationKept'
  <2>1. \A b \in Alerts \ {a} : status'[b] = status[b]
    BY DEF RowStep
  <2> QED BY <1>1, <1>3, <2>1 DEF Inv, ObligationKept
<1>8. AtARow'
  <2>1. CASE answer' = "none"
    BY <2>1 DEF AtARow
  <2>2. CASE answer' = "abandon" /\ polls' = polls /\ batch' = batch
    BY <2>2 DEF Inv, AtARow
  <2> QED BY <2>1, <2>2
<1>9. loop' \in Loops /\ spare' \in BOOLEAN /\ answer' \in {"none", "abandon"}
  BY DEF Inv, TypeOK, Loops
<1> QED BY <1>1, <1>2, <1>6, <1>7, <1>8, <1>9, OfTheLoop

LEMMA ApplyReceiptInv ==
  ASSUME Inv, ApplyReceipt
  PROVE  Inv'
<1>1. /\ loop = "polling" /\ polls # <<>> /\ answer \in {"unsettled", "delivered", "terminal"}
      /\ first' = first /\ loop' = loop /\ batch' = batch /\ spare' = spare /\ UNCHANGED world
  BY DEF ApplyReceipt, Inv, TypeOK, Receipts, Results
<1>2. At = Head(polls) /\ At.alert \in Alerts
  BY <1>1, AtFacts DEF At
<1> DEFINE a == At.alert
<1>3. polled = a
  BY <1>2 DEF polled
<1>4. /\ RowStep(a)
      /\ status' = status \/ status'[a] = "failed"
      /\ attempts' = attempts \/ (answer = "terminal" /\ attempts' = OneMore(attempts, a))
  <2>1. CASE answer = "unsettled"
    <3>1. RequeueReceiptPoll(a)
      BY <1>3, <2>1 DEF ApplyReceipt
    <3> QED BY <1>2, <3>1, RequeuedRow DEF Inv
  <2>2. CASE answer = "delivered"
    <3>1. RecordDeliveryStatus(a, FALSE)
      BY <1>3, <2>2 DEF ApplyReceipt
    <3> QED BY <1>2, <3>1, ReportedRow DEF Inv
  <2>3. CASE answer = "terminal"
    <3>1. RecordDeliveryStatus(a, TRUE)
      BY <1>3, <2>3 DEF ApplyReceipt
    <3> QED BY <1>2, <2>3, <3>1, ReportedRow DEF Inv
  <2> QED BY <1>1, <2>1, <2>2, <2>3
<1>5. /\ status'[a] = "accepted" => a \in taken
      /\ status'[a] = "abandoned" => a \in Optional /\ failures[a] = Limit
  BY <1>2, <1>4 DEF Inv, ObligationKept
<1>6. \/ /\ answer' = "abandon" /\ polls' = polls
         /\ answer = "terminal" /\ a \in Optional /\ At.attempts + 1 >= Limit
      \/ answer' = "none" /\ polls' = Tail(polls)
  BY <1>2, <1>3 DEF ApplyReceipt
<1> QED BY <1>1, <1>2, <1>4, <1>5, <1>6, RecordedInv DEF Charged

LEMMA RecordRetryInv ==
  ASSUME Inv, RecordRetry
  PROVE  Inv'
<1>1. /\ loop = "retrying" /\ batch # <<>> /\ answer \in Failed \cup {"accepted", "cap_spent"}
      /\ first' = first /\ loop' = loop /\ polls' = polls /\ spare' = spare /\ UNCHANGED world
  BY DEF RecordRetry
<1>2. At = Head(batch) /\ At.alert \in Alerts
  BY <1>1, AtFacts DEF At, Failed
<1> DEFINE a == At.alert
<1>3. retried = a
  BY <1>2 DEF retried
<1>4. /\ RowStep(a)
      /\ \/ status' = status
         \/ status'[a] = "failed"
         \/ status'[a] = "accepted" /\ a \in taken
      /\ attempts' = attempts \/ (answer \in Failed /\ attempts' = OneMore(attempts, a))
  <2>1. CASE answer = "accepted"
    <3>1. MarkAlertAccepted(a)
      BY <1>3, <2>1 DEF RecordRetry, ApplyRetry, Failed
    <3>2. a \in taken
      BY <1>1, <2>1 DEF Inv, AcceptanceHeard
    <3> QED BY <1>2, <3>1, <3>2, AcceptedRow DEF Inv
  <2>2. CASE answer = "cap_spent"
    <3>1. DeferAlert(a)
      BY <1>3, <2>2 DEF RecordRetry, ApplyRetry, Failed
    <3> QED BY <1>2, <3>1, DeferredRow DEF Inv
  <2>3. CASE answer \in Failed
    <3>1. MarkAlertAttemptFailed(a)
      BY <1>3, <2>3 DEF RecordRetry, ApplyRetry, Failed
    <3> QED BY <1>2, <2>3, <3>1, FailedRow DEF Inv
  <2> QED BY <1>1, <2>1, <2>2, <2>3
<1>5. /\ status'[a] = "accepted" => a \in taken
      /\ status'[a] = "abandoned" => a \in Optional /\ failures[a] = Limit
  BY <1>2, <1>4 DEF Inv, ObligationKept
<1>6. \/ /\ answer' = "abandon" /\ batch' = batch
         /\ answer \in Failed /\ a \in Optional /\ At.attempts + 1 >= Limit
      \/ answer' = "none" /\ batch' = Tail(batch)
  BY <1>2, <1>3 DEF RecordRetry
<1>7. answer # "none" /\ (answer \in Failed => answer \in Charged)
  BY <1>1 DEF Failed, Charged
<1> QED BY <1>1, <1>2, <1>4, <1>5, <1>6, <1>7, RecordedInv

\* A row is given up where its limit of failures is reached.
LEMMA AbandonsInv ==
  ASSUME Inv, AbandonPolled \/ AbandonRetried
  PROVE  Inv'
<1>1. /\ answer = "abandon" /\ answer' = "none" /\ first' = first /\ loop' = loop
      /\ spare' = spare /\ UNCHANGED world
  BY DEF AbandonPolled, AbandonRetried
<1>2. At.alert \in Alerts /\ status[At.alert] # "none"
  BY <1>1, AtFacts
<1> DEFINE a == At.alert
<1>3. /\ MarkAlertAbandoned(a)
      /\ \/ loop = "polling" /\ polls # <<>> /\ polls' = Tail(polls) /\ batch' = batch
         \/ loop = "retrying" /\ batch # <<>> /\ batch' = Tail(batch) /\ polls' = polls
  BY <1>1, AtFacts DEF AbandonPolled, AbandonRetried, polled, retried
<1>4. RowStep(a) /\ attempts' = attempts /\ (status' = status \/ status'[a] = "abandoned")
  BY <1>2, <1>3, AbandonedRow DEF Inv
<1>5. a \in Optional /\ failures[a] = Limit
  BY <1>1 DEF Inv, ChargedHasFailed
<1>6. status'[a] = "accepted" => a \in taken
  BY <1>2, <1>4 DEF Inv, ObligationKept
<1> QED BY <1>1, <1>2, <1>3, <1>4, <1>5, <1>6, RecordedInv

-----------------------------------------------------------------------------
(* The theorems *)

LEMMA InitInv == Init => Inv
<1> SUFFICES ASSUME Init PROVE Inv
  OBVIOUS
<1>1. TypeOK
  <2>1. order \in Seq(Alerts) /\ polls \in Seq(Read) /\ batch \in Seq(Read)
    BY EmptySeq, Zenon DEF Init
  <2> QED BY <2>1, SizesAssumption, BoundsAssumption DEF Init, TypeOK, Read
<1>2. InOrder
  BY DEF Init, InOrder, Range, IsInjective
<1>3. AtARow /\ ReadIsOld /\ AcceptanceHeard
  BY DEF Init, AtARow, ReadIsOld, AcceptanceHeard
<1>4. ChargedHasFailed /\ ObligationKept
  BY DEF Init, ChargedHasFailed, ObligationKept, Charged, Failed
<1> QED BY <1>1, <1>2, <1>3, <1>4 DEF Inv

LEMMA StutterInv ==
  ASSUME Inv, UNCHANGED vars
  PROVE  Inv'
<1>1. UNCHANGED <<kind, status, attempts, order, delivered, first, loop, polls, batch, answer,
                  spare, taken, failures, crashes>>
  BY DEF vars
<1>2. TypeOK'
  BY <1>1 DEF Inv, TypeOK
<1>3. InOrder' /\ AtARow' /\ ReadIsOld'
  BY <1>1 DEF Inv, InOrder, AtARow, ReadIsOld
<1>4. At' = At /\ Optional' = Optional
  BY <1>1 DEF At, Optional, Mandatory
<1>5. AcceptanceHeard' /\ ChargedHasFailed' /\ ObligationKept'
  BY <1>1, <1>4 DEF Inv, AcceptanceHeard, ChargedHasFailed, ObligationKept
<1> QED BY <1>2, <1>3, <1>5 DEF Inv

LEMMA NextInv ==
  ASSUME Inv, Next
  PROVE  Inv'
<1>1. ASSUME NEW a \in Alerts, Queue(a) PROVE Inv'
  BY <1>1, QueueInv
<1>2. ASSUME NEW a \in Alerts,
             Withhold(a) \/ AcceptanceNotRecorded(a) \/ \E result \in Results : Submit(a, result)
      PROVE  Inv'
  BY <1>2, UnrecordedInv
<1>3. ASSUME NEW a \in Alerts, RecordAcceptance(a) PROVE Inv'
  BY <1>3, RecordAcceptanceInv
<1>4. ASSUME NEW a \in Alerts, NEW terminal \in BOOLEAN, DeliveryReport(a, terminal) PROVE Inv'
  BY <1>4, DeliveryReportInv
<1>5. ASSUME NEW fetched \in BOOLEAN, Wake(fetched) PROVE Inv'
  BY <1>5, WakeInv
<1>6. CASE (\E receipt \in Receipts : Poll(receipt)) \/ (\E result \in Results : Retry(result))
  BY <1>6, HearsInv
<1>7. CASE ApplyReceipt
  BY <1>7, ApplyReceiptInv
<1>8. CASE RecordRetry
  BY <1>8, RecordRetryInv
<1>9. CASE AbandonPolled \/ AbandonRetried
  BY <1>9, AbandonsInv
<1>10. CASE Fetch
  BY <1>10, FetchInv
<1>11. CASE FetchFails \/ BatchDone \/ StoreRaises \/ Crash
  BY <1>11, PausesInv
<1> QED BY <1>1, <1>2, <1>3, <1>4, <1>5, <1>6, <1>7, <1>8, <1>9, <1>10, <1>11 DEF Next

LEMMA Invariance == Spec => []Inv
<1>1. Inv /\ [Next]_vars => Inv'
  BY NextInv, StutterInv
<1> QED BY <1>1, InitInv, PTL DEF Spec

\* The outbox is well typed in every reachable state, whatever the notices, the
\* batch size and the limit (the columns of alert_outbox, _alert_delivery_loop).
THEOREM TypeCorrect == Spec => []TypeOK
<1>1. Inv => TypeOK
  BY DEF Inv
<1> QED BY <1>1, Invariance, PTL

\* A recorded notice stays an obligation until a provider took it, and only an
\* optional one is given up, after the delivery loop failed to send it, or it
\* was reported undeliverable, as often as its limit says, although the loop
\* decides from a count it read earlier (mark_alert_accepted,
\* mark_alert_attempt_failed, _settle_failed_retry).
THEOREM ObligationsKept == Spec => []ObligationKept
<1>1. Inv => ObligationKept
  BY DEF Inv
<1> QED BY <1>1, Invariance, PTL

-----------------------------------------------------------------------------
(* The retry order *)

\* A row sent to the back is last, and every other keeps its place among the rest.
LEMMA BackOrder ==
  ASSUME TypeOK, NEW a \in Alerts
  PROVE  /\ Last(ToTheBack(a)) = a
         /\ \A b \in Alerts \ {a}, c \in Alerts : Ahead(b, c) =>
              \E i, j \in DOMAIN ToTheBack(a) :
                i < j /\ ToTheBack(a)[i] = b /\ ToTheBack(a)[j] = c
<1> DEFINE front == RemoveFirst(order, a)
           back == ToTheBack(a)
<1>1. order \in Seq(Alerts) /\ Len(order) \in Nat /\ DOMAIN order = 1..Len(order)
  BY LenProperties DEF TypeOK
<1>2. front \in Seq(Alerts) /\ Len(front) \in Nat
  <2>1. CASE a \notin Range(order)
    BY <1>1, <2>1 DEF RemoveFirst, Range
  <2>2. CASE a \in Range(order)
    <3>1. PICK i \in DOMAIN order : order[i] = a /\ front = RemoveAt(order, i)
      BY <1>1, <2>2, RemoveFirstFacts
    <3> HIDE DEF front
    <3>2. front \in Seq(Alerts)
      BY <1>1, <3>1, RemoveAtFacts
    <3> QED BY <3>2, LenProperties
  <2> QED BY <2>1, <2>2
<1>3. ASSUME NEW p \in DOMAIN order, NEW q \in DOMAIN order, p < q, order[p] # a
      PROVE  \E r \in 1..Len(front) :
               /\ front[r] = order[p]
               /\ order[q] = a \/ \E t \in 1..Len(front) : r < t /\ front[t] = order[q]
  <2>1. CASE a \notin Range(order)
    <3>1. front = order
      BY <1>1, <2>1 DEF RemoveFirst, Range
    <3> QED BY <1>1, <1>3, <3>1
  <2>2. CASE a \in Range(order)
    <3>1. PICK i \in DOMAIN order : order[i] = a /\ front = RemoveAt(order, i)
      BY <1>1, <2>2, RemoveFirstFacts
    <3> HIDE DEF front
    <3>2. /\ Len(front) = Len(order) - 1
          /\ \A k \in 1..(Len(order) - 1) :
               front[k] = IF k < i THEN order[k] ELSE order[k + 1]
      BY <1>1, <3>1, RemoveAtFacts
    <3> DEFINE now(x) == IF x < i THEN x ELSE x - 1
    <3>3. \A x \in DOMAIN order : x # i => now(x) \in 1..Len(front) /\ front[now(x)] = order[x]
      BY <1>1, <3>1, <3>2
    <3>4. q # i => now(p) < now(q)
      BY <1>1, <1>3, <3>1
    <3>5. p # i /\ (q = i => order[q] = a)
      BY <1>3, <3>1
    <3> HIDE DEF now
    <3> QED BY <3>3, <3>4, <3>5
  <2> QED BY <2>1, <2>2
<1>4. back = Append(front, a)
  BY DEF ToTheBack
<1> HIDE DEF front, back
<1>5. /\ back \in Seq(Alerts) /\ Len(back) = Len(front) + 1
      /\ \A i \in 1..Len(front) : back[i] = front[i]
      /\ back[Len(front) + 1] = a
  BY <1>2, <1>4, AppendProperties
<1>6. DOMAIN back = 1..(Len(front) + 1)
  BY <1>2, <1>5, LenProperties
<1>7. Last(back) = a
  BY <1>5 DEF Last
<1>8. ASSUME NEW b \in Alerts \ {a}, NEW c \in Alerts, Ahead(b, c)
      PROVE  \E i, j \in DOMAIN back : i < j /\ back[i] = b /\ back[j] = c
  <2>1. PICK p \in DOMAIN order, q \in DOMAIN order : p < q /\ order[p] = b /\ order[q] = c
    BY <1>8 DEF Ahead
  <2>2. PICK r \in 1..Len(front) :
          /\ front[r] = b
          /\ c = a \/ \E t \in 1..Len(front) : r < t /\ front[t] = c
    BY <1>3, <2>1
  <2>3. r \in DOMAIN back /\ back[r] = b /\ r < Len(front) + 1 /\ Len(front) + 1 \in DOMAIN back
    BY <1>2, <1>5, <1>6, <2>2
  <2>4. CASE c = a
    BY <1>5, <2>3, <2>4
  <2>5. CASE \E t \in 1..Len(front) : r < t /\ front[t] = c
    BY <1>2, <1>5, <1>6, <2>3, <2>5
  <2> QED BY <2>2, <2>4, <2>5
<1> QED BY <1>7, <1>8 DEF back

\* The row at the head of a read is one of the notices.
LEMMA HeadFacts ==
  ASSUME Inv
  PROVE  /\ polls # <<>> => polled \in Alerts
         /\ batch # <<>> => retried \in Alerts
<1>1. polls \in Seq(Read) /\ batch \in Seq(Read)
  BY DEF Inv, TypeOK, Read
<1>2. polls # <<>> => Head(polls) \in Read
  BY <1>1, TailFacts
<1>3. batch # <<>> => Head(batch) \in Read
  BY <1>1, TailFacts
<1> QED BY <1>2, <1>3 DEF Read, polled, retried

\* A step moves at most one row, and that to the end.
LEMMA MovesOne ==
  ASSUME Inv, [Next]_vars
  PROVE  order' = order \/ \E a \in Alerts : order' = ToTheBack(a)
<1>1. ASSUME NEW a \in Alerts,
             \/ Queue(a)
             \/ Withhold(a)
             \/ \E result \in Results : Submit(a, result)
             \/ RecordAcceptance(a)
             \/ AcceptanceNotRecorded(a)
             \/ \E terminal \in BOOLEAN : DeliveryReport(a, terminal)
      PROVE  order' = order \/ order' = ToTheBack(a)
  BY <1>1 DEF rows, Queue, EnqueueAlert, Withhold, Submit, RecordAcceptance,
     MarkAlertAccepted, AcceptanceNotRecorded, DeliveryReport, RecordDeliveryStatus
<1>2. CASE \/ \E fetched \in BOOLEAN : Wake(fetched)
           \/ \E receipt \in Receipts : Poll(receipt)
           \/ Fetch \/ FetchFails \/ BatchDone \/ StoreRaises \/ Crash
           \/ \E result \in Results : Retry(result)
           \/ UNCHANGED vars
  BY <1>2 DEF rows, vars, Wake, Poll, Fetch, FetchFails, BatchDone, StoreRaises, Crash, Retry
<1>3. CASE AbandonPolled \/ AbandonRetried
  BY <1>3 DEF AbandonPolled, AbandonRetried, MarkAlertAbandoned
<1>4. CASE ApplyReceipt
  <2>1. polled \in Alerts
    BY <1>4, HeadFacts DEF ApplyReceipt
  <2>2. order' = order \/ order' = ToTheBack(polled)
    <3>1. CASE answer = "unsettled"
      BY <1>4, <3>1 DEF ApplyReceipt, RequeueReceiptPoll
    <3>2. CASE answer = "delivered"
      BY <1>4, <3>2 DEF ApplyReceipt, RecordDeliveryStatus, rows
    <3>3. CASE answer = "terminal"
      BY <1>4, <3>3 DEF ApplyReceipt, RecordDeliveryStatus, rows
    <3> QED BY <1>4, <3>1, <3>2, <3>3 DEF ApplyReceipt
  <2> QED BY <2>1, <2>2
<1>5. CASE RecordRetry
  <2>1. retried \in Alerts
    BY <1>5, HeadFacts DEF RecordRetry
  <2>2. order' = order \/ order' = ToTheBack(retried)
    BY <1>5 DEF RecordRetry, ApplyRetry, Failed, MarkAlertAccepted, DeferAlert,
       MarkAlertAttemptFailed
  <2> QED BY <2>1, <2>2
<1> QED BY <1>1, <1>2, <1>3, <1>4, <1>5 DEF Next

\* What the loop records is of a retry or of a poll.
LEMMA RecordedBy ==
  ASSUME Inv, [Next]_vars, Recorded
  PROVE  /\ loop = "retrying" => RecordRetry
         /\ loop = "polling" => ApplyReceipt
<1>1. loop' = loop /\ answer' # answer /\ answer # "none" /\ answer # "abandon"
  BY DEF Recorded, Results, Receipts
<1>2. RecordRetry \/ ApplyReceipt
  <2>1. ~UNCHANGED vars /\ ~Fetch /\ ~FetchFails /\ ~BatchDone
    BY <1>1 DEF vars, Fetch, FetchFails, BatchDone
  <2>2. ~AbandonPolled /\ ~AbandonRetried
    BY <1>1 DEF AbandonPolled, AbandonRetried
  <2>3. ~StoreRaises /\ ~Crash
    BY <1>1 DEF StoreRaises, Crash, Inv, AtARow
  <2>4. \A fetched \in BOOLEAN : ~Wake(fetched)
    BY <1>1 DEF Wake
  <2>5. (\A receipt \in Receipts : ~Poll(receipt)) /\ \A result \in Results : ~Retry(result)
    BY <1>1 DEF Poll, Retry
  <2>6. ASSUME NEW a \in Alerts,
               \/ Queue(a)
               \/ Withhold(a)
               \/ \E result \in Results : Submit(a, result)
               \/ RecordAcceptance(a)
               \/ AcceptanceNotRecorded(a)
               \/ \E terminal \in BOOLEAN : DeliveryReport(a, terminal)
        PROVE  FALSE
    BY <1>1, <2>6 DEF Queue, Withhold, Submit, RecordAcceptance, AcceptanceNotRecorded,
       DeliveryReport, looping
  <2> QED BY <2>1, <2>2, <2>3, <2>4, <2>5, <2>6 DEF Next
<1> QED BY <1>2 DEF RecordRetry, ApplyReceipt

\* The retry order is fair: a row the loop has tried, or polled, and which stays
\* in the lane it was read from is behind every other row when the loop goes on
\* to the next, and no row falls behind another but by going to the very end
\* (mark_alert_attempt_failed, defer_alert, requeue_alert_receipt_poll).
THEOREM TriedRowsGoLast == Spec => [][TriedGoesLast /\ NoneOvertaken]_vars
<1>1. ASSUME Inv, [Next]_vars PROVE NoneOvertaken
  <2>1. CASE order' = order
    BY <2>1 DEF NoneOvertaken, Ahead
  <2>2. ASSUME NEW a \in Alerts, order' = ToTheBack(a) PROVE NoneOvertaken
    <3>1. /\ Last(order') = a
          /\ \A b \in Alerts \ {a}, c \in Alerts : Ahead(b, c) =>
               \E i, j \in DOMAIN order' : i < j /\ order'[i] = b /\ order'[j] = c
      BY <1>1, <2>2, BackOrder DEF Inv
    <3> QED BY <3>1 DEF NoneOvertaken, Ahead
  <2> QED BY <1>1, <2>1, <2>2, MovesOne
<1>2. ASSUME Inv, [Next]_vars, Recorded, loop = "retrying", status'[retried] \in Queued
      PROVE  Last(order') = retried
  <2>1. RecordRetry /\ retried \in Alerts
    BY <1>2, RecordedBy, HeadFacts DEF RecordRetry
  <2>2. order' = ToTheBack(retried)
    <3>1. CASE answer = "accepted"
      <4>1. status'[retried] = "accepted"
        BY <1>2, <2>1, <3>1
           DEF RecordRetry, ApplyRetry, Failed, MarkAlertAccepted, Inv, TypeOK
      <4> QED BY <1>2, <4>1 DEF Queued
    <3>2. CASE answer = "cap_spent"
      BY <1>2, <2>1, <3>2 DEF RecordRetry, ApplyRetry, Failed, DeferAlert
    <3>3. CASE answer \in Failed
      BY <2>1, <3>3 DEF RecordRetry, ApplyRetry, Failed, MarkAlertAttemptFailed
    <3> QED BY <2>1, <3>1, <3>2, <3>3 DEF RecordRetry
  <2> QED BY <1>2, <2>1, <2>2, BackOrder DEF Inv
<1>3. ASSUME Inv, [Next]_vars, Recorded, loop = "polling", polled \in Awaiting'
      PROVE  Last(order') = polled
  <2>1. ApplyReceipt /\ polled \in Alerts
    BY <1>3, RecordedBy, HeadFacts DEF ApplyReceipt
  <2>2. status'[polled] = "accepted" /\ ~delivered'[polled]
    BY <1>3 DEF Awaiting
  <2>3. order' = ToTheBack(polled)
    <3>1. CASE answer = "unsettled"
      BY <2>1, <2>2, <3>1 DEF ApplyReceipt, RequeueReceiptPoll
    <3>2. CASE answer = "delivered"
      <4>1. RecordDeliveryStatus(polled, FALSE)
        BY <2>1, <3>2 DEF ApplyReceipt
      <4> QED BY <1>3, <2>1, <2>2, <4>1 DEF RecordDeliveryStatus, rows, Inv, TypeOK
    <3>3. CASE answer = "terminal"
      <4>1. RecordDeliveryStatus(polled, TRUE)
        BY <2>1, <3>3 DEF ApplyReceipt
      <4> QED BY <1>3, <2>1, <2>2, <4>1 DEF RecordDeliveryStatus, rows, Inv, TypeOK
    <3> QED BY <2>1, <3>1, <3>2, <3>3 DEF ApplyReceipt
  <2> QED BY <1>3, <2>1, <2>3, BackOrder DEF Inv
<1>4. Inv /\ [Next]_vars => [TriedGoesLast /\ NoneOvertaken]_vars
  BY <1>1, <1>2, <1>3 DEF TriedGoesLast
<1> QED BY <1>4, Invariance, PTL DEF Spec
=============================================================================
