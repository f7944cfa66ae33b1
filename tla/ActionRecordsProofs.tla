------------------------ MODULE ActionRecordsProofs ------------------------
(***************************************************************************)
(* Proofs about ActionRecords, for any acts, any Tier D acts among them    *)
(* and any ceiling.                                                        *)
(***************************************************************************)
EXTENDS ActionRecords, SequenceTheorems, TLAPS

-----------------------------------------------------------------------------
(* The inductive invariant: the writer *)

\* The call that hands over record r, and the one that sets a contributor's
\* future once its holder's is done.
Handing(r) == [fn |-> "settled", record |-> r]
Following(b) == [fn |-> "settle", record |-> <<b, "row">>]

Queued(r) == \E i \in DOMAIN queue : queue[i] = r
Scheduled(c) == \E i \in DOMAIN calls : calls[i] = c

\* The queue holds the records that wait, each once.
WaitingIsQueued ==
  /\ \A r \in Records : fate[r] = "waiting" <=> Queued(r)
  /\ \A i, j \in DOMAIN queue : queue[i] = queue[j] => i = j

\* There is a writer task exactly while there is a queue, and a write exactly
\* while the task awaits one; a writer that close() cancels is there.
TaskIsForQueue ==
  /\ task = "none" <=> queue = <<>>
  /\ task = "writing" <=> write # "none"
  /\ stop = "gather" => task # "none"

\* What is in the store was written, is in doubt, or is the record in flight.
StoredIsKnown ==
  /\ \A r \in Records : IsStored(r) =>
       \/ fate[r] \in {"written", "cancelled", "unknown"}
       \/ queue # <<>> /\ r = Head(queue) /\ write \in {"landed", "ok", "cancelled"}
  /\ write \in {"landed", "ok"} => IsStored(Head(queue))
  /\ \A r \in Records : fate[r] = "written" => IsStored(r)

\* A statement left on the store's thread is of a record in doubt, and only
\* a closed writer is in doubt.
AdriftIsUnknown ==
  /\ \A r \in adrift : fate[r] = "unknown" /\ ~IsStored(r)
  /\ \A r \in Records : fate[r] = "unknown" => stop = "closed"

-----------------------------------------------------------------------------
(* The inductive invariant: the dispatcher *)

Done(a) == future[a] \in {"set", "cancelled"}

\* A record is handed over once, after its act's future is done.
HandedOnce ==
  /\ \A r \in Records : Scheduled(Handing(r)) => Done(r[1]) /\ fate[r] = "none"
  /\ \A r \in Records : fate[r] # "none" => Done(r[1])
  /\ \A i, j \in DOMAIN calls : calls[i] = calls[j] => i = j

\* Nobody's record is dropped between the future and the writer.
HandedOver ==
  \A r \in Records :
    future[r[1]] = "set" => Scheduled(Handing(r)) \/ fate[r] # "none" \/ r \in said

\* A contributor waits behind one future, or its own is about to be set.
FollowersWait ==
  /\ \A h \in Acts : \A i \in DOMAIN followers[h] :
       /\ holder[followers[h][i]] = h
       /\ ~Done(h) => future[followers[h][i]] = "pending"
  /\ \A h \in Acts : \A i, j \in DOMAIN followers[h] :
       followers[h][i] = followers[h][j] => i = j
  /\ \A a \in Acts : holder[a] # None => followers[a] = <<>>
  /\ \A i \in DOMAIN calls : calls[i].fn = "settle" =>
       \E b \in Acts : /\ calls[i] = Following(b)
                       /\ future[b] = "pending" /\ holder[b] # None
                       /\ Done(holder[b])

\* Only a stop says of a record that it did not settle.
SaidAtStop == said # {} => closed

-----------------------------------------------------------------------------
(* The inductive invariant: the order of a contributor's row *)

HolderRow(a) == <<holder[a], "row">>

\* The holder's row needs no place before the contributor's.
Excused(a) == future[holder[a]] = "cancelled" \/ fate[HolderRow(a)] \in Accounted!Lost

\* Wherever the contributor's row is, the holder's is ahead of it.
HolderIsAhead(a) ==
  /\ \A j \in DOMAIN calls : calls[j] = Handing(<<a, "row">>) =>
       \/ Excused(a)
       \/ HolderRow(a) \in said
       \/ fate[HolderRow(a)] # "none"
       \/ \E i \in DOMAIN calls : i < j /\ calls[i] = Handing(HolderRow(a))
  /\ \A j \in DOMAIN queue : queue[j] = <<a, "row">> =>
       \/ Excused(a)
       \/ IsStored(HolderRow(a))
       \/ \E i \in DOMAIN queue : i < j /\ queue[i] = HolderRow(a)
  /\ <<a, "row">> \in adrift => Excused(a) \/ IsStored(HolderRow(a))

HolderAhead == \A a \in Acts : holder[a] # None => HolderIsAhead(a)

-----------------------------------------------------------------------------
(* Helpers *)

CallSet == [fn : {"settled", "settle"}, record : Records]

LEMMA RecordFacts ==
  /\ \A r \in Records : r[1] \in Acts /\ r # <<None, "row">>
  /\ \A a \in Acts : <<a, "row">> \in Records
  /\ \A r \in Records : Handing(r) \in CallSet
  /\ \A a \in Acts : Following(a) \in CallSet
<1>1. \A r \in Records : r[1] \in Acts
  BY TierDAssumption DEF Records
<1>2. \A r \in Records : r # <<None, "row">>
  BY <1>1, NoneAssumption
<1>3. \A a \in Acts : <<a, "row">> \in Records
  BY DEF Records
<1> QED BY <1>1, <1>2, <1>3 DEF Handing, Following, CallSet

\* The calls are told apart by their function and their record.
LEMMA CallFacts ==
  /\ \A r, s : Handing(r) = Handing(s) => r = s
  /\ \A a, b : Following(a) = Following(b) => a = b
  /\ \A r, b : Handing(r) # Following(b)
  /\ \A r : Handing(r).fn = "settled" /\ Handing(r).record = r
  /\ \A b : Following(b).fn = "settle" /\ Following(b).record = <<b, "row">>
<1>1. \A r : Handing(r).fn = "settled" /\ Handing(r).record = r
  BY DEF Handing
<1>2. \A b : Following(b).fn = "settle" /\ Following(b).record = <<b, "row">>
  BY DEF Following
<1>3. \A r, s : Handing(r) = Handing(s) => r = s
  BY <1>1
<1>4. \A a, b : Following(a) = Following(b) => a = b
  <2> TAKE a, b
  <2>1. ASSUME Following(a) = Following(b) PROVE <<a, "row">> = <<b, "row">>
    BY <1>2, <2>1
  <2> QED BY <2>1
<1> QED BY <1>1, <1>2, <1>3, <1>4

LEMMA RecordsOfFacts ==
  ASSUME NEW a \in Acts
  PROVE  /\ RecordsOf(a) \in Seq(Records) /\ Len(RecordsOf(a)) \in Nat
         /\ \A i \in 1..Len(RecordsOf(a)) : RecordsOf(a)[i] \in Records /\ RecordsOf(a)[i][1] = a
         /\ \A i, j \in 1..Len(RecordsOf(a)) : RecordsOf(a)[i] = RecordsOf(a)[j] => i = j
         /\ \A r \in Records : r[1] = a => \E i \in 1..Len(RecordsOf(a)) : RecordsOf(a)[i] = r
<1>1. CASE a \in TierD
  <2>1. <<a, "override">> \in Records /\ <<a, "row">> \in Records
    BY <1>1 DEF Records
  <2>2. RecordsOf(a) = <<<<a, "override">>, <<a, "row">>>>
    BY <1>1 DEF RecordsOf
  <2>3. \A r \in Records : r[1] = a => r = <<a, "override">> \/ r = <<a, "row">>
    BY DEF Records
  <2> QED BY <2>1, <2>2, <2>3
<1>2. CASE a \notin TierD
  <2>1. <<a, "row">> \in Records
    BY DEF Records
  <2>2. RecordsOf(a) = <<<<a, "row">>>>
    BY <1>2 DEF RecordsOf
  <2>3. \A r \in Records : r[1] = a => r = <<a, "row">>
    BY <1>2 DEF Records
  <2> QED BY <2>1, <2>2, <2>3
<1> QED BY <1>1, <1>2

\* A concatenation, place by place.
LEMMA ConcatFacts ==
  ASSUME NEW S, NEW s \in Seq(S), NEW t \in Seq(S)
  PROVE  /\ s \o t \in Seq(S) /\ Len(s) \in Nat /\ Len(t) \in Nat
         /\ Len(s \o t) = Len(s) + Len(t)
         /\ \A k \in 1..Len(s) : k \in 1..Len(s \o t) /\ (s \o t)[k] = s[k]
         /\ \A k \in 1..Len(t) : Len(s) + k \in 1..Len(s \o t) /\ (s \o t)[Len(s) + k] = t[k]
         /\ \A k \in 1..Len(s \o t) : k \in 1..Len(s) \/ \E m \in 1..Len(t) : k = Len(s) + m
<1>1. Len(s) \in Nat /\ Len(t) \in Nat
  BY LenProperties
<1>2. /\ s \o t \in Seq(S) /\ Len(s \o t) = Len(s) + Len(t)
      /\ \A k \in 1..(Len(s) + Len(t)) :
           (s \o t)[k] = IF k <= Len(s) THEN s[k] ELSE t[k - Len(s)]
  BY ConcatProperties
<1>3. \A k \in 1..Len(s) : k \in 1..Len(s \o t) /\ (s \o t)[k] = s[k]
  BY <1>1, <1>2
<1>4. ASSUME NEW k \in 1..Len(t)
      PROVE  Len(s) + k \in 1..Len(s \o t) /\ (s \o t)[Len(s) + k] = t[k]
  <2>1. /\ Len(s) + k \in 1..(Len(s) + Len(t)) /\ ~(Len(s) + k <= Len(s))
        /\ (Len(s) + k) - Len(s) = k
    BY <1>1
  <2> QED BY <1>2, <2>1
<1>5. ASSUME NEW k \in 1..Len(s \o t), k \notin 1..Len(s)
      PROVE  \E m \in 1..Len(t) : k = Len(s) + m
  <2>1. k - Len(s) \in 1..Len(t) /\ k = Len(s) + (k - Len(s))
    BY <1>1, <1>2, <1>5
  <2> QED BY <2>1
<1> QED BY <1>1, <1>2, <1>3, <1>4, <1>5

\* The callbacks of a future: a hand-over for each record of the act, and the
\* future of each follower, none of them twice.
LEMMA CallbacksFacts ==
  ASSUME NEW a \in Acts, followers \in [Acts -> Seq(Acts)],
         \A i, j \in DOMAIN followers[a] : followers[a][i] = followers[a][j] => i = j
  PROVE  /\ Callbacks(a) \in Seq(CallSet)
         /\ \A k \in 1..Len(Callbacks(a)) :
              \/ \E r \in Records : r[1] = a /\ Callbacks(a)[k] = Handing(r)
              \/ \E m \in DOMAIN followers[a] :
                   followers[a][m] \in Acts /\ Callbacks(a)[k] = Following(followers[a][m])
         /\ \A k, m \in 1..Len(Callbacks(a)) : Callbacks(a)[k] = Callbacks(a)[m] => k = m
         /\ \A r \in Records : r[1] = a => \E k \in 1..Len(Callbacks(a)) : Callbacks(a)[k] = Handing(r)
<1> DEFINE R == RecordsOf(a)
           F == followers[a]
           hand == [i \in 1..Len(R) |-> Handing(R[i])]
           follow == [i \in 1..Len(F) |-> Following(F[i])]
<1>1. /\ R \in Seq(Records) /\ Len(R) \in Nat
      /\ \A i \in 1..Len(R) : R[i] \in Records /\ R[i][1] = a
      /\ \A i, j \in 1..Len(R) : R[i] = R[j] => i = j
      /\ \A r \in Records : r[1] = a => \E i \in 1..Len(R) : R[i] = r
  BY RecordsOfFacts
<1>2. F \in Seq(Acts) /\ Len(F) \in Nat /\ DOMAIN F = 1..Len(F)
  BY LenProperties
<1>3. \A i \in 1..Len(F) : F[i] \in Acts
  BY <1>2, ElementOfSeq
<1>4. Callbacks(a) = hand \o follow
  BY DEF Callbacks, Handing, Following
<1>5. /\ hand \in Seq(CallSet) /\ Len(hand) = Len(R)
      /\ \A i \in 1..Len(R) : hand[i] = Handing(R[i])
  <2>1. \A i \in 1..Len(R) : Handing(R[i]) \in CallSet
    BY <1>1, RecordFacts
  <2> HIDE DEF R
  <2> QED BY <1>1, <2>1, IsASeq
<1>6. /\ follow \in Seq(CallSet) /\ Len(follow) = Len(F)
      /\ \A i \in 1..Len(F) : follow[i] = Following(F[i])
  <2>1. \A i \in 1..Len(F) : Following(F[i]) \in CallSet
    BY <1>3, RecordFacts
  <2> HIDE DEF F
  <2> QED BY <1>2, <2>1, IsASeq
<1> HIDE DEF R, hand, follow
<1> DEFINE C == hand \o follow
<1>7. hand \in Seq(CallSet) /\ follow \in Seq(CallSet)
  BY <1>5, <1>6
<1>8. C \in Seq(CallSet) /\ Len(C) = Len(hand) + Len(follow)
  BY <1>7, ConcatFacts
<1>9. \A k \in 1..Len(hand) : k \in 1..Len(C) /\ C[k] = hand[k]
  BY <1>7, ConcatFacts
<1>10. \A k \in 1..Len(follow) : Len(hand) + k \in 1..Len(C) /\ C[Len(hand) + k] = follow[k]
  BY <1>7, ConcatFacts
<1>11. \A k \in 1..Len(C) :
           k \in 1..Len(hand) \/ \E m \in 1..Len(follow) : k = Len(hand) + m
  BY <1>7, ConcatFacts
<1> HIDE DEF C
<1>12. \A k \in 1..Len(C) :
        \/ k \in 1..Len(R) /\ C[k] = Handing(R[k])
        \/ \E m \in 1..Len(F) : k = Len(R) + m /\ C[k] = Following(F[m])
  BY <1>5, <1>6, <1>9, <1>10, <1>11
<1>13. \A k, m \in 1..Len(C) : C[k] = C[m] => k = m
  <2> SUFFICES ASSUME NEW k \in 1..Len(C), NEW m \in 1..Len(C), C[k] = C[m] PROVE k = m
    OBVIOUS
  <2>0. \A i, j : Handing(R[i]) # Following(F[j])
    BY CallFacts
  <2>1. CASE k \in 1..Len(R) /\ m \in 1..Len(R) /\ R[k] = R[m]
    BY <1>1, <2>1
  <2>2. ASSUME NEW p \in 1..Len(F), NEW q \in 1..Len(F), k = Len(R) + p, m = Len(R) + q, F[p] = F[q]
        PROVE  k = m
    BY <1>2, <2>2
  <2> HIDE DEF F
  <2> DEFINE First(i) == i \in 1..Len(R) /\ C[i] = Handing(R[i])
             Second(i) == \E p \in 1..Len(F) : i = Len(R) + p /\ C[i] = Following(F[p])
  <2>3. (First(k) \/ Second(k)) /\ (First(m) \/ Second(m))
    BY <1>12, Zenon
  <2>4. CASE First(k) /\ First(m)
    BY <2>1, <2>4, CallFacts
  <2>5. CASE Second(k) /\ Second(m)
    BY <2>2, <2>5, CallFacts
  <2>6. ~(First(k) /\ Second(m)) /\ ~(Second(k) /\ First(m))
    BY <2>0
  <2> QED BY <2>3, <2>4, <2>5, <2>6, Zenon
<1>14. ASSUME NEW r \in Records, r[1] = a
       PROVE  \E k \in 1..Len(C) : C[k] = Handing(r)
  <2>1. PICK i \in 1..Len(R) : R[i] = r
    BY <1>1, <1>14
  <2> QED BY <1>5, <1>9, <2>1
<1>15. \A k \in 1..Len(C) :
         \/ \E r \in Records : r[1] = a /\ C[k] = Handing(r)
         \/ \E m \in DOMAIN F : F[m] \in Acts /\ C[k] = Following(F[m])
  BY <1>1, <1>2, <1>3, <1>12
<1>16. Callbacks(a) = C
  BY <1>4 DEF C
<1> QED BY <1>8, <1>13, <1>14, <1>15, <1>16

\* A sequence that is not empty, its head and the rest, place by place.
LEMMA TailFacts ==
  ASSUME NEW S, NEW s \in Seq(S), s # <<>>
  PROVE  /\ 1 \in DOMAIN s /\ Head(s) = s[1] /\ Head(s) \in S
         /\ Tail(s) \in Seq(S) /\ DOMAIN s \subseteq Nat \ {0} /\ DOMAIN Tail(s) \subseteq Nat \ {0}
         /\ \A i \in DOMAIN Tail(s) : i + 1 \in DOMAIN s /\ Tail(s)[i] = s[i + 1]
         /\ \A i \in DOMAIN s : i # 1 => i - 1 \in DOMAIN Tail(s) /\ Tail(s)[i - 1] = s[i]
<1>1. Len(s) \in Nat /\ DOMAIN s = 1..Len(s)
  BY LenProperties
<1>2. Len(s) > 0 /\ 1 \in DOMAIN s /\ Head(s) = s[1]
  BY <1>1, EmptySeq
<1>3. s[1] \in S
  BY <1>1, <1>2, ElementOfSeq
<1>4. /\ Tail(s) \in Seq(S) /\ Len(Tail(s)) = Len(s) - 1
      /\ \A i \in 1..Len(Tail(s)) : Tail(s)[i] = s[i + 1]
  BY HeadTailProperties
<1>5. DOMAIN Tail(s) = 1..(Len(s) - 1)
  BY <1>4, LenProperties
<1>6. \A i \in DOMAIN Tail(s) : i + 1 \in DOMAIN s /\ Tail(s)[i] = s[i + 1]
  BY <1>1, <1>4, <1>5
<1>7. ASSUME NEW i \in DOMAIN s, i # 1
      PROVE  i - 1 \in DOMAIN Tail(s) /\ Tail(s)[i - 1] = s[i]
  <2>1. i - 1 \in DOMAIN Tail(s) /\ (i - 1) + 1 = i
    BY <1>1, <1>5, <1>7
  <2> QED BY <1>6, <2>1
<1> QED BY <1>1, <1>2, <1>3, <1>4, <1>5, <1>6, <1>7

\* A sequence with one more at its end, place by place.
LEMMA AppendFacts ==
  ASSUME NEW S, NEW s \in Seq(S), NEW e \in S
  PROVE  /\ Append(s, e) \in Seq(S) /\ Len(s) \in Nat
         /\ Len(s) + 1 \in DOMAIN Append(s, e) /\ Append(s, e)[Len(s) + 1] = e
         /\ Len(Append(s, e)) = Len(s) + 1
         /\ \A i \in DOMAIN s : i < Len(s) + 1 /\ i \in DOMAIN Append(s, e) /\ Append(s, e)[i] = s[i]
         /\ \A i \in DOMAIN Append(s, e) : i \in DOMAIN s \/ i = Len(s) + 1
<1>1. Len(s) \in Nat /\ DOMAIN s = 1..Len(s)
  BY LenProperties
<1>2. /\ Append(s, e) \in Seq(S) /\ Len(Append(s, e)) = Len(s) + 1
      /\ \A i \in 1..Len(s) : Append(s, e)[i] = s[i]
      /\ Append(s, e)[Len(s) + 1] = e
  BY AppendProperties
<1>3. DOMAIN Append(s, e) = 1..(Len(s) + 1)
  BY <1>2, LenProperties
<1> QED BY <1>1, <1>2, <1>3

\* What is scheduled when a future is done: everything that was, and then the
\* future's callbacks.
LEMMA FinishFacts ==
  ASSUME NEW a \in Acts, followers \in [Acts -> Seq(Acts)],
         \A i, j \in DOMAIN followers[a] : followers[a][i] = followers[a][j] => i = j,
         NEW scheduled \in Seq(CallSet), calls' = scheduled \o Callbacks(a)
  PROVE  /\ calls' \in Seq(CallSet)
         /\ DOMAIN scheduled \subseteq Nat /\ DOMAIN calls' \subseteq Nat
         /\ \A k \in DOMAIN scheduled : k \in DOMAIN calls' /\ calls'[k] = scheduled[k]
         /\ \A k \in DOMAIN calls', i \in DOMAIN scheduled : k \notin DOMAIN scheduled => i < k
         /\ \A k \in DOMAIN calls' : k \notin DOMAIN scheduled =>
              \/ \E r \in Records : r[1] = a /\ calls'[k] = Handing(r)
              \/ \E m \in DOMAIN followers[a] :
                   followers[a][m] \in Acts /\ calls'[k] = Following(followers[a][m])
         /\ \A k, m \in DOMAIN calls' :
              k \notin DOMAIN scheduled /\ m \notin DOMAIN scheduled /\ calls'[k] = calls'[m] => k = m
         /\ \A r \in Records : r[1] = a => \E k \in DOMAIN calls' : calls'[k] = Handing(r)
<1> DEFINE T == Callbacks(a)
           C == scheduled \o T
<1>1. T \in Seq(CallSet)
  BY CallbacksFacts
<1>2. \A k \in 1..Len(T) :
        \/ \E r \in Records : r[1] = a /\ T[k] = Handing(r)
        \/ \E m \in DOMAIN followers[a] :
             followers[a][m] \in Acts /\ T[k] = Following(followers[a][m])
  BY CallbacksFacts
<1>3. \A k, m \in 1..Len(T) : T[k] = T[m] => k = m
  BY CallbacksFacts
<1>4. \A r \in Records : r[1] = a => \E k \in 1..Len(T) : T[k] = Handing(r)
  BY CallbacksFacts
<1> HIDE DEF T
<1>5. C \in Seq(CallSet) /\ Len(scheduled) \in Nat /\ Len(T) \in Nat
      /\ Len(C) = Len(scheduled) + Len(T)
  BY <1>1, ConcatFacts
<1>6. \A k \in 1..Len(scheduled) : k \in 1..Len(C) /\ C[k] = scheduled[k]
  BY <1>1, ConcatFacts
<1>7. \A k \in 1..Len(T) : Len(scheduled) + k \in 1..Len(C) /\ C[Len(scheduled) + k] = T[k]
  BY <1>1, ConcatFacts
<1>8. \A k \in 1..Len(C) :
        k \in 1..Len(scheduled) \/ \E m \in 1..Len(T) : k = Len(scheduled) + m
  BY <1>1, ConcatFacts
<1>9. calls' = C
  BY DEF T
<1> HIDE DEF C
<1>10. DOMAIN C = 1..Len(C) /\ DOMAIN scheduled = 1..Len(scheduled)
  BY <1>5, LenProperties
<1>11. \A k \in DOMAIN C : k \notin DOMAIN scheduled =>
         \E m \in 1..Len(T) : k = Len(scheduled) + m /\ C[k] = T[m]
  <2> SUFFICES ASSUME NEW k \in DOMAIN C, k \notin DOMAIN scheduled
               PROVE  \E m \in 1..Len(T) : k = Len(scheduled) + m /\ C[k] = T[m]
    OBVIOUS
  <2>1. PICK m \in 1..Len(T) : k = Len(scheduled) + m
    BY <1>8, <1>10
  <2> QED BY <1>7, <2>1
<1>12. \A k \in DOMAIN C, i \in DOMAIN scheduled : k \notin DOMAIN scheduled => i < k
  BY <1>5, <1>10
<1>13. \A k \in DOMAIN C : k \notin DOMAIN scheduled =>
         \/ \E r \in Records : r[1] = a /\ C[k] = Handing(r)
         \/ \E m \in DOMAIN followers[a] :
              followers[a][m] \in Acts /\ C[k] = Following(followers[a][m])
  BY <1>2, <1>11
<1>14. \A k, m \in DOMAIN C :
         k \notin DOMAIN scheduled /\ m \notin DOMAIN scheduled /\ C[k] = C[m] => k = m
  <2> SUFFICES ASSUME NEW k \in DOMAIN C, NEW m \in DOMAIN C, C[k] = C[m],
                      k \notin DOMAIN scheduled, m \notin DOMAIN scheduled
               PROVE  k = m
    OBVIOUS
  <2>1. PICK p \in 1..Len(T) : k = Len(scheduled) + p /\ C[k] = T[p]
    BY <1>11
  <2>2. PICK q \in 1..Len(T) : m = Len(scheduled) + q /\ C[m] = T[q]
    BY <1>11
  <2> QED BY <1>3, <2>1, <2>2
<1>15. \A r \in Records : r[1] = a => \E k \in DOMAIN C : C[k] = Handing(r)
  BY <1>4, <1>7, <1>10
<1> QED BY <1>5, <1>6, <1>9, <1>10, <1>12, <1>13, <1>14, <1>15

-----------------------------------------------------------------------------
(* Type correctness *)

LEMMA TypeInit == Init => TypeOK
<1> SUFFICES ASSUME Init PROVE TypeOK
  OBVIOUS
<1>1. /\ calls \in Seq(CallSet) /\ queue \in Seq(Records) /\ stored \in Seq(Records)
      /\ <<>> \in Seq(Acts)
  BY EmptySeq, Zenon DEF Init
<1>2. /\ future \in [Acts -> {"none", "pending", "set", "cancelled"}]
      /\ holder \in [Acts -> Acts \cup {None}]
      /\ fate \in [Records -> Accounted!Fates]
  BY DEF Init, Accounted!Fates
<1>3. followers \in [Acts -> Seq(Acts)]
  BY <1>1, Zenon DEF Init
<1> QED BY <1>1, <1>2, <1>3 DEF Init, TypeOK, CallSet

\* The types of the two parts.
DispatcherTypes ==
  /\ future \in [Acts -> {"none", "pending", "set", "cancelled"}]
  /\ holder \in [Acts -> Acts \cup {None}]
  /\ followers \in [Acts -> Seq(Acts)]
  /\ calls \in Seq(CallSet)
  /\ awaiting \in Nat
  /\ unsettled \in Nat
  /\ said \subseteq Records

WriterTypes ==
  /\ stop \in {"up", "grace", "gather", "closed"}
  /\ queue \in Seq(Records)
  /\ task \in {"none", "created", "writing", "sleeping"}
  /\ write \in {"none", "running", "landed", "ok", "busy", "error", "cancelled"}
  /\ adrift \subseteq Records
  /\ fate \in [Records -> Accounted!Fates]
  /\ stored \in Seq(Records)

LEMMA Types == TypeOK <=> DispatcherTypes /\ WriterTypes
  BY Zenon DEF TypeOK, DispatcherTypes, WriterTypes, CallSet

LEMMA FinishTypes ==
  ASSUME DispatcherTypes, FollowersWait, NEW a \in Acts, NEW how \in {"set", "cancelled"},
         NEW scheduled \in Seq(CallSet), Finish(a, how, scheduled)
  PROVE  /\ future' \in [Acts -> {"none", "pending", "set", "cancelled"}]
         /\ calls' \in Seq(CallSet)
<1>1. calls' = scheduled \o Callbacks(a) /\ future' = [future EXCEPT ![a] = how]
  BY DEF Finish
<1>2. \A i, j \in DOMAIN followers[a] : followers[a][i] = followers[a][j] => i = j
  BY DEF FollowersWait
<1>3. followers \in [Acts -> Seq(Acts)]
  BY DEF DispatcherTypes
<1>4. calls' \in Seq(CallSet)
  BY <1>1, <1>2, <1>3, FinishFacts
<1> QED BY <1>1, <1>4 DEF DispatcherTypes

LEMMA DispatcherTypesStep ==
  TypeOK /\ FollowersWait /\ [Next]_vars => DispatcherTypes'
<1> SUFFICES ASSUME TypeOK, FollowersWait, [Next]_vars PROVE DispatcherTypes'
  OBVIOUS
<1>0. DispatcherTypes
  BY Types
<1> USE DEF dispatcher, writer
<1>1. ASSUME NEW a \in Acts, Open(a) PROVE DispatcherTypes'
  <2>1. Len(RecordsOf(a)) \in Nat
    BY RecordsOfFacts
  <2> QED BY <1>0, <1>1, <2>1 DEF DispatcherTypes, Open
<1>2. ASSUME NEW a \in Acts, Settle(a) \/ Cancel(a) PROVE DispatcherTypes'
  <2>1. calls \in Seq(CallSet)
    BY <1>0 DEF DispatcherTypes
  <2>2. Finish(a, "set", calls) \/ Finish(a, "cancelled", calls)
    BY <1>2 DEF Settle, Cancel
  <2>3. /\ future' \in [Acts -> {"none", "pending", "set", "cancelled"}]
        /\ calls' \in Seq(CallSet)
    BY <1>0, <2>1, <2>2, FinishTypes
  <2> QED BY <1>0, <1>2, <2>3 DEF DispatcherTypes, Settle, Cancel
<1>3. ASSUME NEW a \in Acts, NEW h \in Acts, Join(a, h) PROVE DispatcherTypes'
  <2>1. calls \in Seq(CallSet)
    BY <1>0 DEF DispatcherTypes
  <2>2. CASE UNCHANGED <<future, calls>> /\ followers' = [followers EXCEPT ![h] = Append(@, a)]
    <3>1. Append(followers[h], a) \in Seq(Acts)
      BY <1>0, AppendFacts DEF DispatcherTypes
    <3>2. followers' \in [Acts -> Seq(Acts)]
      BY <1>0, <2>2, <3>1 DEF DispatcherTypes
    <3> QED BY <1>0, <1>3, <2>2, <3>2 DEF DispatcherTypes, Join
  <2>3. CASE Finish(a, "set", calls) /\ UNCHANGED followers
    <3>1. /\ future' \in [Acts -> {"none", "pending", "set", "cancelled"}]
          /\ calls' \in Seq(CallSet)
      BY <1>0, <2>1, <2>3, FinishTypes
    <3> QED BY <1>0, <1>3, <2>3, <3>1 DEF DispatcherTypes, Join
  <2> QED BY <1>3, <2>2, <2>3 DEF Join, RecordAfterHolder
<1>4. CASE RunSettled
  <2>1. calls # <<>> /\ calls' = Tail(calls) /\ Settled(Head(calls).record)
    BY <1>4 DEF RunSettled
  <2>2. Head(calls) \in CallSet /\ calls' \in Seq(CallSet)
    BY <1>0, <2>1, TailFacts DEF DispatcherTypes
  <2>3. Head(calls).record \in Records
    BY <2>2 DEF CallSet
  <2>4. awaiting' \in Nat
    BY <1>0, <2>1 DEF DispatcherTypes, Settled
  <2>5. unsettled' \in Nat /\ said' \subseteq Records
    BY <1>0, <2>1, <2>3 DEF DispatcherTypes, Settled
  <2> QED BY <1>0, <1>4, <2>2, <2>4, <2>5 DEF DispatcherTypes, RunSettled
<1>5. CASE RunSettle
  <2>1. calls # <<>> /\ Finish(Head(calls).record[1], "set", Tail(calls))
    BY <1>5 DEF RunSettle
  <2>2. Head(calls) \in CallSet /\ Tail(calls) \in Seq(CallSet)
    BY <1>0, <2>1, TailFacts DEF DispatcherTypes
  <2>3. Head(calls).record[1] \in Acts
    BY <2>2, RecordFacts DEF CallSet
  <2>4. /\ future' \in [Acts -> {"none", "pending", "set", "cancelled"}]
        /\ calls' \in Seq(CallSet)
    BY <1>0, <2>1, <2>2, <2>3, FinishTypes
  <2> QED BY <1>0, <1>5, <2>4 DEF DispatcherTypes, RunSettle
<1>6. CASE Abandon
  BY <1>0, <1>6 DEF DispatcherTypes, Abandon
<1>7. CASE UNCHANGED <<dispatcher, calls>>
  BY <1>0, <1>7 DEF DispatcherTypes
<1>8. CASE \/ Begin \/ Land \/ Resume \/ BackOff \/ Retry \/ GraceEnds \/ Strand \/ UNCHANGED vars
           \/ \E how \in {"ok", "busy", "error", "cancelled"} : WriteEnds(how)
           \/ \E r \in Records, lands \in BOOLEAN : LandAdrift(r, lands)
  <2>1. UNCHANGED <<dispatcher, calls>>
    BY <1>8 DEF Begin, Land, Resume, BackOff, Retry, GraceEnds, Strand, vars, WriteEnds, LandAdrift
  <2> QED BY <1>7, <2>1
<1> QED BY <1>1, <1>2, <1>3, <1>4, <1>5, <1>6, <1>8 DEF Next

LEMMA WriterTypesStep ==
  TypeOK /\ TaskIsForQueue /\ [Next]_vars => WriterTypes'
<1> SUFFICES ASSUME TypeOK, TaskIsForQueue, [Next]_vars PROVE WriterTypes'
  OBVIOUS
<1>0. WriterTypes
  BY Types
<1> USE DEF dispatcher, writer, Accounted!Fates
<1>1. CASE UNCHANGED <<stop, writer, adrift, stored>>
  BY <1>0, <1>1 DEF WriterTypes
<1>2. CASE RunSettled
  <2>1. calls # <<>> /\ Settled(Head(calls).record) /\ UNCHANGED <<stop, adrift, stored>>
    BY <1>2 DEF RunSettled
  <2>2. Head(calls).record \in Records
    <3>1. calls \in Seq(CallSet)
      BY DEF TypeOK, CallSet
    <3>2. Head(calls) \in CallSet
      BY <2>1, <3>1, TailFacts
    <3> QED BY <3>2 DEF CallSet
  <2>3. UNCHANGED writer \/ Submit(Head(calls).record)
    BY <2>1 DEF Settled
  <2>4. CASE Submit(Head(calls).record)
    <3>1. queue' \in Seq(Records)
      BY <1>0, <2>2, <2>4, AppendFacts DEF WriterTypes, Submit
    <3> QED BY <1>0, <2>1, <2>4, <3>1 DEF WriterTypes, Submit
  <2> QED BY <1>1, <2>1, <2>3, <2>4
<1>3. ASSUME NEW rest \in Seq(Records), Proceed(rest), UNCHANGED <<stop, adrift, stored>>,
             fate' \in [Records -> Accounted!Fates]
      PROVE  WriterTypes'
  BY <1>0, <1>3 DEF WriterTypes, Proceed
<1>4. CASE Begin \/ Retry
  <2>1. queue \in Seq(Records) /\ Proceed(queue) /\ UNCHANGED <<stop, adrift, stored, fate>>
    BY <1>0, <1>4 DEF Begin, Retry, WriterTypes
  <2> QED BY <1>0, <1>3, <2>1 DEF WriterTypes
<1>5. CASE Land
  <2>1. queue # <<>>
    BY <1>5 DEF Land, TaskIsForQueue
  <2>2. Head(queue) \in Records
    BY <1>0, <2>1, TailFacts DEF WriterTypes
  <2>3. stored' \in Seq(Records)
    BY <1>0, <1>5, <2>2, AppendFacts DEF WriterTypes, Land
  <2> QED BY <1>0, <1>5, <2>3 DEF WriterTypes, Land
<1>6. CASE Resume
  <2>1. queue # <<>> /\ Proceed(Tail(queue)) /\ UNCHANGED <<stop, adrift, stored>>
    BY <1>6 DEF Resume, TaskIsForQueue
  <2>2. Tail(queue) \in Seq(Records)
    BY <1>0, <2>1, TailFacts DEF WriterTypes
  <2>3. fate' \in [Records -> Accounted!Fates]
    BY <1>0, <1>6 DEF WriterTypes, Resume, FateOf
  <2> QED BY <1>3, <2>1, <2>2, <2>3
<1>7. CASE Strand
  <2>1. queue # <<>>
    BY <1>7 DEF Strand, TaskIsForQueue
  <2>2. Head(queue) \in Records
    BY <1>0, <2>1, TailFacts DEF WriterTypes
  <2>3. queue' \in Seq(Records)
    BY <1>7, EmptySeq, Zenon DEF Strand
  <2>4. fate' \in [Records -> Accounted!Fates]
    BY <1>0, <1>7 DEF WriterTypes, Strand, StrandedFate
  <2> QED BY <1>0, <1>7, <2>2, <2>3, <2>4 DEF WriterTypes, Strand
<1>8. ASSUME NEW r \in Records, NEW lands \in BOOLEAN, LandAdrift(r, lands) PROVE WriterTypes'
  <2>1. stored' \in Seq(Records)
    BY <1>0, <1>8, AppendFacts DEF WriterTypes, LandAdrift
  <2> QED BY <1>0, <1>8, <2>1 DEF WriterTypes, LandAdrift
<1>9. CASE BackOff \/ Abandon \/ GraceEnds
  BY <1>0, <1>9 DEF WriterTypes, BackOff, Abandon, GraceEnds
<1>10. ASSUME NEW how \in {"ok", "busy", "error", "cancelled"}, WriteEnds(how) PROVE WriterTypes'
  BY <1>0, <1>10 DEF WriterTypes, WriteEnds
<1>11. CASE \/ \E a \in Acts : Open(a) \/ Settle(a) \/ Cancel(a) \/ \E h \in Acts : Join(a, h)
            \/ RunSettle \/ UNCHANGED vars
  <2>1. UNCHANGED <<stop, writer, adrift, stored>>
    BY <1>11 DEF Open, Settle, Cancel, Join, RunSettle, vars
  <2> QED BY <1>1, <2>1
<1> QED BY <1>2, <1>4, <1>5, <1>6, <1>7, <1>8, <1>9, <1>10, <1>11 DEF Next

-----------------------------------------------------------------------------
(* The writer keeps its part *)

WriterInv == WaitingIsQueued /\ TaskIsForQueue /\ StoredIsKnown /\ AdriftIsUnknown

\* A row the store takes is one more row of the store.
LEMMA StoredFacts ==
  ASSUME stored \in Seq(Records), NEW e \in Records, stored' = Append(stored, e)
  PROVE  \A r : IsStored(r)' <=> IsStored(r) \/ r = e
<1>1. stored' \in Seq(Records)
  BY AppendFacts
<1>2. DOMAIN stored = 1..Len(stored) /\ DOMAIN stored' = 1..Len(stored')
  BY <1>1, LenProperties
<1>3. /\ Len(stored) + 1 \in DOMAIN stored' /\ stored'[Len(stored) + 1] = e
      /\ \A i \in DOMAIN stored : i \in DOMAIN stored' /\ stored'[i] = stored[i]
      /\ \A i \in DOMAIN stored' : i \in DOMAIN stored \/ i = Len(stored) + 1
  BY AppendFacts
<1> QED BY <1>2, <1>3 DEF IsStored

\* The head of a queue waits, and of the others only those behind it.
LEMMA HeadWaits ==
  ASSUME WriterTypes, WaitingIsQueued, queue # <<>>
  PROVE  /\ Head(queue) \in Records /\ fate[Head(queue)] = "waiting"
         /\ Tail(queue) \in Seq(Records)
         /\ \A r : (\E i \in DOMAIN Tail(queue) : Tail(queue)[i] = r)
                    <=> Queued(r) /\ r # Head(queue)
         /\ \A i, j \in DOMAIN Tail(queue) : Tail(queue)[i] = Tail(queue)[j] => i = j
<1>1. queue \in Seq(Records)
  BY DEF WriterTypes
<1>2. /\ 1 \in DOMAIN queue /\ Head(queue) = queue[1] /\ Head(queue) \in Records
      /\ Tail(queue) \in Seq(Records)
      /\ DOMAIN queue \subseteq Nat \ {0} /\ DOMAIN Tail(queue) \subseteq Nat \ {0}
      /\ \A i \in DOMAIN Tail(queue) : i + 1 \in DOMAIN queue /\ Tail(queue)[i] = queue[i + 1]
      /\ \A i \in DOMAIN queue : i # 1 => i - 1 \in DOMAIN Tail(queue) /\ Tail(queue)[i - 1] = queue[i]
  BY <1>1, TailFacts
<1>3. \A i, j \in DOMAIN queue : queue[i] = queue[j] => i = j
  BY DEF WaitingIsQueued
<1>4. fate[Head(queue)] = "waiting"
  BY <1>2 DEF WaitingIsQueued, Queued
<1>5. \A i, j \in DOMAIN Tail(queue) : Tail(queue)[i] = Tail(queue)[j] => i = j
  BY <1>2, <1>3
<1>6. ASSUME NEW i \in DOMAIN Tail(queue)
      PROVE  Queued(Tail(queue)[i]) /\ Tail(queue)[i] # Head(queue)
  <2>1. i + 1 \in DOMAIN queue /\ i + 1 # 1 /\ Tail(queue)[i] = queue[i + 1]
    BY <1>2
  <2> QED BY <1>2, <1>3, <2>1 DEF Queued
<1>7. ASSUME NEW r, Queued(r), r # Head(queue)
      PROVE  \E i \in DOMAIN Tail(queue) : Tail(queue)[i] = r
  BY <1>2, <1>7 DEF Queued
<1> QED BY <1>2, <1>4, <1>5, <1>6, <1>7

\* submit(): the record has no fate yet.
LEMMA SubmitKeeps ==
  ASSUME WriterTypes, WriterInv, NEW r \in Records, fate[r] = "none", Submit(r),
         UNCHANGED <<stop, adrift, stored>>
  PROVE  WriterInv'
<1> USE DEF WriterTypes, WriterInv
<1>1. \A s : IsStored(s)' <=> IsStored(s)
  BY DEF IsStored
<1>2. CASE fate' = [fate EXCEPT ![r] = "turned_away"] /\ UNCHANGED <<queue, task, write>>
  <2>1. WaitingIsQueued'
    BY <1>2 DEF WaitingIsQueued, Queued
  <2>2. TaskIsForQueue'
    BY <1>2 DEF TaskIsForQueue
  <2>3. StoredIsKnown'
    <3>1. ~IsStored(r)
      BY HeadWaits DEF StoredIsKnown
    <3>2. write \in {"landed", "ok"} => IsStored(Head(queue))
      BY DEF StoredIsKnown
    <3>3. (write \in {"landed", "ok"} => IsStored(Head(queue)))'
      BY <1>2, <3>2 DEF IsStored
    <3> QED BY <1>1, <1>2, <3>1, <3>3 DEF StoredIsKnown
  <2>4. AdriftIsUnknown'
    BY <1>1, <1>2 DEF AdriftIsUnknown
  <2> QED BY <2>1, <2>2, <2>3, <2>4
<1>3. CASE /\ queue' = Append(queue, r) /\ fate' = [fate EXCEPT ![r] = "waiting"]
           /\ task' = (IF task = "none" THEN "created" ELSE task) /\ UNCHANGED write
  <2>1. /\ queue' \in Seq(Records) /\ Len(queue) \in Nat
        /\ Len(queue) + 1 \in DOMAIN queue' /\ queue'[Len(queue) + 1] = r
        /\ Len(queue') = Len(queue) + 1
        /\ \A i \in DOMAIN queue : i < Len(queue) + 1 /\ i \in DOMAIN queue' /\ queue'[i] = queue[i]
        /\ \A i \in DOMAIN queue' : i \in DOMAIN queue \/ i = Len(queue) + 1
    BY <1>3, AppendFacts
  <2>2. queue' # <<>>
    BY <2>1
  <2>3. ~Queued(r)
    BY DEF WaitingIsQueued
  <2>4. WaitingIsQueued'
    <3>1. \A s \in Records : fate'[s] = "waiting" <=> s = r \/ fate[s] = "waiting"
      BY <1>3
    <3>2. \A s : Queued(s)' <=> s = r \/ Queued(s)
      BY <2>1 DEF Queued
    <3>3. \A i, j \in DOMAIN queue' : queue'[i] = queue'[j] => i = j
      BY <2>1, <2>3 DEF Queued, WaitingIsQueued
    <3> QED BY <3>1, <3>2, <3>3 DEF WaitingIsQueued
  <2>5. TaskIsForQueue'
    BY <1>3, <2>2 DEF TaskIsForQueue
  <2>6. queue # <<>> => Head(queue') = Head(queue)
    BY <1>3, TailFacts, <2>1
  <2>7. StoredIsKnown'
    <3>1. ~IsStored(r)
      BY HeadWaits DEF StoredIsKnown
    <3>2. write # "none" => queue # <<>>
      BY DEF TaskIsForQueue
    <3>3. (write \in {"landed", "ok"} => IsStored(Head(queue)))'
      BY <1>3, <2>6, <3>2 DEF IsStored, StoredIsKnown
    <3> QED BY <1>1, <1>3, <2>2, <2>6, <3>1, <3>2, <3>3 DEF StoredIsKnown
  <2>8. AdriftIsUnknown'
    BY <1>1, <1>3 DEF AdriftIsUnknown
  <2> QED BY <2>4, <2>5, <2>7, <2>8
<1> QED BY <1>2, <1>3 DEF Submit

\* The record of the write in flight is the head's, and it is not in the store
\* until the write landed.
LEMMA InFlightFacts ==
  ASSUME WriterTypes, WriterInv, queue # <<>>
  PROVE  /\ write \in {"none", "running", "busy", "error"} => ~IsStored(Head(queue))
         /\ task \in {"writing", "sleeping"} => InFlight = Head(queue)
         /\ task = "created" => InFlight \notin Records
<1>1. Head(queue) \in Records /\ fate[Head(queue)] = "waiting"
  BY HeadWaits DEF WriterInv
<1>2. write \in {"none", "running", "busy", "error"} => ~IsStored(Head(queue))
  BY <1>1 DEF WriterInv, StoredIsKnown
<1> QED BY <1>2, RecordFacts DEF InFlight

\* A step of the task that only moves the write on.
LEMMA WriteMoves ==
  ASSUME WriterTypes, WriterInv, UNCHANGED <<stop, queue, adrift, fate, stored>>,
         task' # "none", task # "none", task' = "writing" <=> write' # "none",
         write' \in {"landed", "ok", "cancelled"} \/ write \notin {"landed", "ok", "cancelled"},
         write' \in {"landed", "ok"} => write = "landed"
  PROVE  WriterInv'
<1> USE DEF WriterTypes, WriterInv
<1>1. \A s : IsStored(s)' <=> IsStored(s)
  BY DEF IsStored
<1>2. WaitingIsQueued'
  BY DEF WaitingIsQueued, Queued
<1>3. TaskIsForQueue'
  BY DEF TaskIsForQueue
<1>4. StoredIsKnown'
  <2>1. (write \in {"landed", "ok"} => IsStored(Head(queue)))'
    BY DEF IsStored, StoredIsKnown
  <2> QED BY <1>1, <2>1 DEF StoredIsKnown
<1>5. AdriftIsUnknown'
  BY <1>1 DEF AdriftIsUnknown
<1> QED BY <1>2, <1>3, <1>4, <1>5

LEMMA LandKeeps ==
  ASSUME WriterTypes, WriterInv, Land
  PROVE  WriterInv'
<1> USE DEF WriterTypes, WriterInv
<1>1. queue # <<>>
  BY DEF Land, TaskIsForQueue
<1>2. Head(queue) \in Records /\ fate[Head(queue)] = "waiting"
  BY <1>1, HeadWaits
<1>3. PICK e \in Records : e = Head(queue)
  BY <1>2
<1>4. \A s : IsStored(s)' <=> IsStored(s) \/ s = e
  BY <1>3, StoredFacts DEF Land
<1>5. WaitingIsQueued' /\ TaskIsForQueue'
  BY DEF Land, WaitingIsQueued, Queued, TaskIsForQueue
<1>6. StoredIsKnown'
  <2>1. e = Head(queue')
    BY <1>3 DEF Land
  <2>2. (write \in {"landed", "ok"} => IsStored(Head(queue)))'
    <3>1. IsStored(e)'
      BY <1>4
    <3> QED BY <2>1, <3>1
  <2> QED BY <1>1, <1>3, <1>4, <2>2 DEF Land, StoredIsKnown
<1>7. AdriftIsUnknown'
  BY <1>2, <1>3, <1>4 DEF Land, AdriftIsUnknown
<1> QED BY <1>5, <1>6, <1>7

LEMMA ResumeKeeps ==
  ASSUME WriterTypes, WriterInv, Resume
  PROVE  WriterInv'
<1> USE DEF WriterTypes, WriterInv
<1>1. queue # <<>>
  BY DEF Resume, TaskIsForQueue
<1>2. PICK e : e = Head(queue)
  OBVIOUS
<1>3. /\ e \in Records /\ fate[e] = "waiting" /\ Tail(queue) \in Seq(Records)
      /\ \A r : (\E i \in DOMAIN Tail(queue) : Tail(queue)[i] = r) <=> Queued(r) /\ r # e
      /\ \A i, j \in DOMAIN Tail(queue) : Tail(queue)[i] = Tail(queue)[j] => i = j
  BY <1>1, <1>2, HeadWaits
<1>4. /\ queue' = Tail(queue) /\ UNCHANGED <<stop, adrift, stored>> /\ stop # "gather"
      /\ fate' = [fate EXCEPT ![e] = FateOf(write)] /\ FateOf(write) # "waiting"
      /\ FateOf(write) # "unknown"
  BY <1>2 DEF Resume, Proceed, FateOf
<1>5. \A s : IsStored(s)' <=> IsStored(s)
  BY <1>4 DEF IsStored
<1>6. WaitingIsQueued'
  <2>1. \A r : Queued(r)' <=> Queued(r) /\ r # e
    BY <1>3, <1>4 DEF Queued
  <2>2. \A r \in Records : fate'[r] = "waiting" <=> fate[r] = "waiting" /\ r # e
    BY <1>3, <1>4
  <2>3. \A i, j \in DOMAIN queue' : queue'[i] = queue'[j] => i = j
    BY <1>3, <1>4
  <2> QED BY <2>1, <2>2, <2>3 DEF WaitingIsQueued
<1>7. TaskIsForQueue'
  BY <1>4 DEF Resume, Proceed, TaskIsForQueue
<1>8. StoredIsKnown'
  <2>1. write' \in {"none", "running"}
    BY DEF Resume, Proceed
  <2>2. \A r \in Records : r # e => fate'[r] = fate[r]
    BY <1>3, <1>4
  <2>3. fate'[e] = FateOf(write)
    BY <1>3, <1>4
  <2>4. IsStored(e) => FateOf(write) \in {"written", "cancelled"}
    BY <1>2, <1>3 DEF StoredIsKnown, FateOf, Resume
  <2>5. FateOf(write) = "written" => IsStored(e)
    BY <1>2 DEF StoredIsKnown, FateOf, Resume
  <2>6. \A r \in Records : IsStored(r) => fate'[r] \in {"written", "cancelled", "unknown"}
    BY <1>2, <2>2, <2>3, <2>4 DEF StoredIsKnown
  <2>7. \A r \in Records : fate'[r] = "written" => IsStored(r)
    BY <2>2, <2>3, <2>5 DEF StoredIsKnown
  <2> QED BY <1>5, <2>1, <2>6, <2>7 DEF StoredIsKnown
<1>9. AdriftIsUnknown'
  BY <1>3, <1>4, <1>5 DEF AdriftIsUnknown
<1> QED BY <1>6, <1>7, <1>8, <1>9

LEMMA StrandKeeps ==
  ASSUME WriterTypes, WriterInv, Strand
  PROVE  WriterInv'
<1> USE DEF WriterTypes, WriterInv
<1>1. queue # <<>> /\ task # "none"
  BY DEF Strand, TaskIsForQueue
<1>2. PICK e : e = Head(queue)
  OBVIOUS
<1>3. e \in Records /\ fate[e] = "waiting"
  BY <1>1, <1>2, HeadWaits
<1>4. /\ write \in {"none", "running", "busy", "error"} => ~IsStored(e)
      /\ task = "writing" => InFlight = e
  BY <1>1, <1>2, InFlightFacts
<1>5. /\ stop' = "closed" /\ queue' = <<>> /\ task' = "none" /\ write' = "none" /\ stored' = stored
      /\ adrift' = IF write = "running" THEN {e} ELSE {}
      /\ \A r \in Records : fate'[r] = IF fate[r] = "waiting" THEN StrandedFate(r) ELSE fate[r]
      /\ \A r : StrandedFate(r) \in {"unknown", "stranded"}
  BY <1>2 DEF Strand, StrandedFate
<1>6. \A s : IsStored(s)' <=> IsStored(s)
  BY <1>5 DEF IsStored
<1>7. task = "writing" <=> write # "none"
  BY DEF TaskIsForQueue
<1>8. task = "writing" => fate'[e] = "unknown"
  BY <1>3, <1>4, <1>5 DEF StrandedFate
<1>9. WaitingIsQueued' /\ TaskIsForQueue'
  <2>1. DOMAIN queue' = {}
    BY <1>5
  <2>2. \A r \in Records : fate'[r] # "waiting"
    BY <1>5
  <2>3. WaitingIsQueued'
    BY <2>1, <2>2 DEF WaitingIsQueued, Queued
  <2> QED BY <1>5, <2>3 DEF TaskIsForQueue
<1>10. StoredIsKnown'
  <2>1. ASSUME NEW r \in Records, IsStored(r) PROVE fate'[r] \in {"written", "cancelled", "unknown"}
    <3>1. CASE r = e
      BY <1>4, <1>7, <1>8, <2>1, <3>1
    <3>2. CASE r # e
      BY <1>2, <1>5, <2>1, <3>2 DEF StoredIsKnown
    <3> QED BY <3>1, <3>2
  <2>2. \A r \in Records : fate'[r] = "written" => IsStored(r)
    BY <1>5 DEF StoredIsKnown
  <2> QED BY <1>5, <1>6, <2>1, <2>2 DEF StoredIsKnown
<1>11. AdriftIsUnknown'
  <2>1. \A r \in adrift' : fate'[r] = "unknown" /\ ~IsStored(r)
    BY <1>4, <1>5, <1>7, <1>8
  <2> QED BY <1>5, <1>6, <2>1 DEF AdriftIsUnknown
<1> QED BY <1>9, <1>10, <1>11

LEMMA LandAdriftKeeps ==
  ASSUME WriterTypes, WriterInv, NEW r \in Records, NEW lands \in BOOLEAN, LandAdrift(r, lands)
  PROVE  WriterInv'
<1> USE DEF WriterTypes, WriterInv
<1>1. r \in adrift /\ adrift' = adrift \ {r} /\ UNCHANGED <<stop, queue, task, write, fate>>
      /\ (stored' = stored \/ stored' = Append(stored, r))
  BY DEF LandAdrift, writer
<1>2. fate[r] = "unknown"
  BY <1>1 DEF AdriftIsUnknown
<1>3. \A s : IsStored(s) => IsStored(s)'
  <2>1. CASE stored' = stored
    BY <2>1 DEF IsStored
  <2>2. CASE stored' = Append(stored, r)
    BY <2>2, StoredFacts
  <2> QED BY <1>1, <2>1, <2>2
<1>4. \A s : IsStored(s)' => IsStored(s) \/ s = r
  <2>1. CASE stored' = stored
    BY <2>1 DEF IsStored
  <2>2. CASE stored' = Append(stored, r)
    BY <2>2, StoredFacts
  <2> QED BY <1>1, <2>1, <2>2
<1>5. WaitingIsQueued' /\ TaskIsForQueue'
  BY <1>1 DEF WaitingIsQueued, Queued, TaskIsForQueue
<1>6. StoredIsKnown'
  <2>1. PICK e : e = Head(queue)
    OBVIOUS
  <2>2. write \in {"landed", "ok"} => IsStored(e)'
    BY <1>3, <2>1 DEF StoredIsKnown
  <2>3. (write \in {"landed", "ok"} => IsStored(Head(queue)))'
    BY <1>1, <2>1, <2>2
  <2> QED BY <1>1, <1>2, <1>3, <1>4, <2>3 DEF StoredIsKnown
<1>7. AdriftIsUnknown'
  BY <1>1, <1>4 DEF AdriftIsUnknown
<1> QED BY <1>5, <1>6, <1>7

\* The head of the scheduled calls, when it hands a record over.
LEMMA HeadHands ==
  ASSUME DispatcherTypes, HandedOnce, RunSettled
  PROVE  \E r \in Records :
           /\ calls # <<>> /\ calls[1] = Handing(r) /\ Settled(r) /\ calls' = Tail(calls)
           /\ 1 \in DOMAIN calls /\ Done(r[1]) /\ fate[r] = "none"
<1>1. calls # <<>> /\ Head(calls).fn = "settled" /\ Settled(Head(calls).record) /\ calls' = Tail(calls)
  BY DEF RunSettled
<1>2. 1 \in DOMAIN calls /\ Head(calls) = calls[1] /\ Head(calls) \in CallSet
  BY <1>1, TailFacts DEF DispatcherTypes
<1>3. calls[1].record \in Records /\ calls[1] = Handing(calls[1].record)
  BY <1>1, <1>2 DEF CallSet, Handing
<1>4. Scheduled(Handing(calls[1].record))
  BY <1>2, <1>3 DEF Scheduled
<1>5. Done(calls[1].record[1]) /\ fate[calls[1].record] = "none"
  BY <1>3, <1>4 DEF HandedOnce
<1> QED BY <1>1, <1>2, <1>3, <1>5

LEMMA WriterStep ==
  TypeOK /\ WriterInv /\ HandedOnce /\ [Next]_vars => WriterInv'
<1> SUFFICES ASSUME TypeOK, WriterInv, HandedOnce, [Next]_vars PROVE WriterInv'
  OBVIOUS
<1>0. DispatcherTypes /\ WriterTypes
  BY Types
<1> USE DEF dispatcher, writer
<1>1. CASE UNCHANGED <<stop, writer, adrift, stored>>
  BY <1>1 DEF WriterInv, WaitingIsQueued, Queued, TaskIsForQueue, StoredIsKnown, AdriftIsUnknown,
         IsStored
<1>2. CASE RunSettled
  <2>1. PICK r \in Records : Settled(r) /\ fate[r] = "none"
    BY <1>0, <1>2, HeadHands
  <2>2. UNCHANGED <<stop, adrift, stored>>
    BY <1>2 DEF RunSettled
  <2>3. UNCHANGED writer \/ Submit(r)
    BY <2>1 DEF Settled
  <2> QED BY <1>0, <1>1, <2>1, <2>2, <2>3, SubmitKeeps
<1>3. CASE Begin \/ Retry
  <2>1. /\ task \in {"created", "sleeping"} /\ Proceed(queue)
        /\ UNCHANGED <<stop, queue, adrift, fate, stored>>
    BY <1>3 DEF Begin, Retry, Proceed
  <2>2. queue # <<>> /\ write = "none"
    BY <1>0, <2>1 DEF WriterInv, TaskIsForQueue
  <2>3. task' = "writing" /\ write' = "running"
    BY <2>1, <2>2 DEF Proceed
  <2> QED BY <1>0, <2>1, <2>2, <2>3, WriteMoves
<1>4. ASSUME NEW how \in {"ok", "busy", "error", "cancelled"}, WriteEnds(how) PROVE WriterInv'
  <2>1. /\ task = "writing" /\ task' = task /\ write' = how
        /\ write = "running" => how \in {"busy", "error", "cancelled"}
        /\ write = "landed" => how \in {"ok", "cancelled"}
        /\ write \in {"running", "landed"}
        /\ UNCHANGED <<stop, queue, adrift, fate, stored>>
    BY <1>4 DEF WriteEnds
  <2> QED BY <1>0, <2>1, WriteMoves
<1>5. CASE BackOff
  <2>1. /\ task = "writing" /\ task' = "sleeping" /\ write = "busy" /\ write' = "none"
        /\ UNCHANGED <<stop, queue, adrift, fate, stored>>
    BY <1>5 DEF BackOff
  <2> QED BY <1>0, <2>1, WriteMoves
<1>6. CASE Abandon \/ GraceEnds
  <2>1. /\ UNCHANGED <<queue, task, write, adrift, fate, stored>>
        /\ stop' = "gather" => task # "none"
        /\ stop # "closed"
    BY <1>6 DEF Abandon, GraceEnds
  <2>2. WaitingIsQueued' /\ TaskIsForQueue' /\ StoredIsKnown'
    BY <2>1 DEF WriterInv, WaitingIsQueued, Queued, TaskIsForQueue, StoredIsKnown, IsStored
  <2>3. AdriftIsUnknown'
    BY <2>1 DEF WriterInv, AdriftIsUnknown, IsStored
  <2> QED BY <2>2, <2>3 DEF WriterInv
<1>7. CASE \/ \E a \in Acts : Open(a) \/ Settle(a) \/ Cancel(a) \/ \E h \in Acts : Join(a, h)
           \/ RunSettle \/ UNCHANGED vars
  <2>1. UNCHANGED <<stop, writer, adrift, stored>>
    BY <1>7 DEF Open, Settle, Cancel, Join, RunSettle, vars
  <2> QED BY <1>1, <2>1
<1>8. CASE Land \/ Resume \/ Strand
  BY <1>0, <1>8, LandKeeps, ResumeKeeps, StrandKeeps
<1>9. ASSUME NEW r \in Records, NEW lands \in BOOLEAN, LandAdrift(r, lands) PROVE WriterInv'
  BY <1>0, <1>9, LandAdriftKeeps
<1> QED BY <1>2, <1>3, <1>4, <1>5, <1>6, <1>7, <1>8, <1>9 DEF Next

LEMMA SaidStep == SaidAtStop /\ [Next]_vars => SaidAtStop'
<1> SUFFICES ASSUME SaidAtStop, [Next]_vars PROVE SaidAtStop'
  OBVIOUS
<1> USE DEF dispatcher, writer
<1>1. CASE RunSettled
  BY <1>1 DEF RunSettled, Settled, SaidAtStop, closed
<1>2. said' = said \/ RunSettled
  BY DEF Next, Open, Settle, Cancel, Join, RunSettle, Begin, Land, WriteEnds, Resume, BackOff, Retry,
         Abandon, GraceEnds, Strand, LandAdrift, vars
<1>3. closed => closed'
  BY DEF Next, Open, Settle, Cancel, Join, RunSettled, RunSettle, Begin, Land, WriteEnds, Resume,
         BackOff, Retry, Abandon, GraceEnds, Strand, LandAdrift, vars, closed
<1> QED BY <1>1, <1>2, <1>3 DEF SaidAtStop

-----------------------------------------------------------------------------
(* A future is done: the dispatcher keeps its part *)

DispatcherInv == HandedOnce /\ HandedOver /\ FollowersWait /\ HolderAhead

\* A record that is anywhere but with its act belongs to an act that is done.
LEMMA PendingIsNowhere ==
  ASSUME WriterTypes, WriterInv, HandedOnce, NEW r \in Records, ~Done(r[1])
  PROVE  /\ ~Scheduled(Handing(r)) /\ fate[r] = "none" /\ ~Queued(r)
         /\ r \notin adrift /\ ~IsStored(r)
<1>1. ~Scheduled(Handing(r)) /\ fate[r] = "none"
  BY DEF HandedOnce
<1>2. ~Queued(r)
  BY <1>1 DEF WriterInv, WaitingIsQueued
<1>3. r \notin adrift
  BY <1>1 DEF WriterInv, AdriftIsUnknown
<1>4. ~IsStored(r)
  BY <1>1, HeadWaits DEF WriterInv, StoredIsKnown
<1> QED BY <1>1, <1>2, <1>3, <1>4

\* The future of a is done, and its callbacks follow what was scheduled, which
\* is all of the calls or all but the first (d of them taken off).
Finishes(a, how, scheduled, d) ==
  /\ future[a] = "pending" /\ Finish(a, how, scheduled)
  /\ \A j \in DOMAIN scheduled : j + d \in DOMAIN calls /\ scheduled[j] = calls[j + d]
  /\ \A i \in DOMAIN calls : \/ i - d \in DOMAIN scheduled /\ scheduled[i - d] = calls[i]
                             \/ calls[i].fn = "settle"
  /\ \A j \in DOMAIN scheduled : scheduled[j] # Following(a)
  /\ \A h \in Acts : \A i \in DOMAIN followers[h] :
       followers[h][i] = a => Done(h) /\ holder'[a] = holder[a]
  /\ \A b \in Acts : b # a => holder'[b] = holder[b]
  /\ holder'[a] # None => followers[a] = <<>> /\ holder'[a] \in Acts /\ Done(holder'[a])
  /\ UNCHANGED <<followers, said, writer, adrift, stored>>

LEMMA FinishKeeps ==
  ASSUME TypeOK, WriterInv, DispatcherInv, NEW a \in Acts, NEW how \in {"set", "cancelled"},
         NEW scheduled \in Seq(CallSet), NEW d \in {0, 1}, Finishes(a, how, scheduled, d)
  PROVE  DispatcherInv'
<1>0. DispatcherTypes /\ WriterTypes
  BY Types
<1>1. /\ calls' \in Seq(CallSet) /\ DOMAIN scheduled \subseteq Nat /\ DOMAIN calls' \subseteq Nat
      /\ \A k \in DOMAIN scheduled : k \in DOMAIN calls' /\ calls'[k] = scheduled[k]
      /\ \A k \in DOMAIN calls', i \in DOMAIN scheduled : k \notin DOMAIN scheduled => i < k
      /\ \A k \in DOMAIN calls' : k \notin DOMAIN scheduled =>
           \/ \E r \in Records : r[1] = a /\ calls'[k] = Handing(r)
           \/ \E m \in DOMAIN followers[a] :
                followers[a][m] \in Acts /\ calls'[k] = Following(followers[a][m])
      /\ \A k, m \in DOMAIN calls' :
           k \notin DOMAIN scheduled /\ m \notin DOMAIN scheduled /\ calls'[k] = calls'[m] => k = m
      /\ \A r \in Records : r[1] = a => \E k \in DOMAIN calls' : calls'[k] = Handing(r)
  <2>1. \A i, j \in DOMAIN followers[a] : followers[a][i] = followers[a][j] => i = j
    BY DEF DispatcherInv, FollowersWait
  <2>2. followers \in [Acts -> Seq(Acts)] /\ calls' = scheduled \o Callbacks(a)
    BY <1>0 DEF DispatcherTypes, Finishes, Finish
  <2> QED BY <2>1, <2>2, FinishFacts
<1>2. /\ future[a] = "pending" /\ ~Done(a) /\ Done(a)'
      /\ \A b \in Acts : b # a => future'[b] = future[b] /\ Done(b)' = Done(b)
  BY <1>0 DEF Finishes, Finish, Done, DispatcherTypes
<1>3. \A b \in Acts : Done(b) => Done(b)'
  BY <1>2
<1>4. \A j \in DOMAIN scheduled : Scheduled(scheduled[j])
  BY DEF Finishes, Scheduled
<1>5. UNCHANGED <<followers, said, queue, task, write, fate, adrift, stored>>
  BY DEF Finishes, writer
<1>6. \A m \in DOMAIN followers[a] : LET f == followers[a][m]
                                     IN  f # a /\ future[f] = "pending" /\ holder[f] = a
  BY <1>2 DEF Finishes, DispatcherInv, FollowersWait
<1>7. HandedOnce'
  <2>1. ASSUME NEW r \in Records, Scheduled(Handing(r))' PROVE Done(r[1])' /\ fate'[r] = "none"
    <3>1. PICK k \in DOMAIN calls' : calls'[k] = Handing(r)
      BY <2>1 DEF Scheduled
    <3>2. CASE k \in DOMAIN scheduled
      <4>1. Scheduled(Handing(r))
        BY <1>1, <1>4, <3>1, <3>2
      <4> QED BY <1>3, <1>5, <4>1, RecordFacts DEF DispatcherInv, HandedOnce
    <3>3. CASE k \notin DOMAIN scheduled
      <4>1. r[1] = a
        BY <1>1, <3>1, <3>3, CallFacts
      <4> QED BY <1>2, <1>5, <4>1 DEF DispatcherInv, HandedOnce
    <3> QED BY <3>2, <3>3
  <2>2. \A r \in Records : fate'[r] # "none" => Done(r[1])'
    BY <1>3, <1>5, RecordFacts DEF DispatcherInv, HandedOnce
  <2>3. ASSUME NEW k \in DOMAIN scheduled, NEW m \in DOMAIN calls', m \notin DOMAIN scheduled
        PROVE  calls'[k] # calls'[m]
    <3>1. Scheduled(calls'[k])
      BY <1>1, <1>4
    <3>2. CASE \E r \in Records : r[1] = a /\ calls'[m] = Handing(r)
      BY <1>2, <3>1, <3>2 DEF DispatcherInv, HandedOnce
    <3>3. CASE \E p \in DOMAIN followers[a] : calls'[m] = Following(followers[a][p])
      <4>1. PICK p \in DOMAIN followers[a] : calls'[m] = Following(followers[a][p])
        BY <3>3
      <4>2. ~Scheduled(Following(followers[a][p]))
        BY <1>2, <1>6, CallFacts DEF Scheduled, DispatcherInv, FollowersWait
      <4> QED BY <3>1, <4>1, <4>2
    <3> QED BY <1>1, <2>3, <3>2, <3>3
  <2>4. \A k, m \in DOMAIN scheduled : calls'[k] = calls'[m] => k = m
    BY <1>1 DEF Finishes, DispatcherInv, HandedOnce
  <2>5. \A k, m \in DOMAIN calls' : calls'[k] = calls'[m] => k = m
    BY <1>1, <2>3, <2>4
  <2> QED BY <2>1, <2>2, <2>5 DEF HandedOnce
<1>8. HandedOver'
  <2> SUFFICES ASSUME NEW r \in Records, future'[r[1]] = "set"
               PROVE  Scheduled(Handing(r))' \/ fate'[r] # "none" \/ r \in said'
    BY DEF HandedOver
  <2>1. CASE r[1] = a
    BY <1>1, <2>1 DEF Scheduled
  <2>2. CASE r[1] # a
    <3>1. Scheduled(Handing(r)) \/ fate[r] # "none" \/ r \in said
      BY <1>2, <2>2, RecordFacts DEF DispatcherInv, HandedOver
    <3>2. Scheduled(Handing(r)) => Scheduled(Handing(r))'
      BY <1>1, CallFacts DEF Scheduled, Finishes
    <3> QED BY <1>5, <3>1, <3>2
  <2> QED BY <2>1, <2>2
<1>9. FollowersWait'
  <2>1. ASSUME NEW h \in Acts, NEW i \in DOMAIN followers[h]
        PROVE  /\ holder'[followers[h][i]] = h
               /\ ~Done(h)' => future'[followers[h][i]] = "pending"
    <3>1. followers[h][i] \in Acts /\ holder[followers[h][i]] = h
      BY <1>0, ElementOfSeq DEF DispatcherTypes, DispatcherInv, FollowersWait
    <3>2. holder'[followers[h][i]] = h
      BY <3>1 DEF Finishes
    <3>3. ASSUME ~Done(h)' PROVE future'[followers[h][i]] = "pending"
      <4>1. ~Done(h)
        BY <1>3, <3>3
      <4>2. followers[h][i] # a /\ future[followers[h][i]] = "pending"
        BY <4>1 DEF Finishes, DispatcherInv, FollowersWait
      <4> QED BY <1>2, <3>1, <4>2
    <3> QED BY <3>2, <3>3
  <2>2. \A h \in Acts : \A i, j \in DOMAIN followers'[h] : followers'[h][i] = followers'[h][j] => i = j
    BY <1>5 DEF DispatcherInv, FollowersWait
  <2>3. \A b \in Acts : holder'[b] # None => followers'[b] = <<>>
    BY <1>5 DEF Finishes, DispatcherInv, FollowersWait
  <2>4. ASSUME NEW k \in DOMAIN calls', calls'[k].fn = "settle"
        PROVE  \E b \in Acts : /\ calls'[k] = Following(b)
                               /\ future'[b] = "pending" /\ holder'[b] # None /\ Done(holder[b])'
    <3>1. CASE k \in DOMAIN scheduled
      <4>1. calls'[k] = scheduled[k] /\ k + d \in DOMAIN calls /\ scheduled[k] = calls[k + d]
        BY <1>1, <3>1 DEF Finishes
      <4>2. PICK b \in Acts : /\ calls[k + d] = Following(b)
                              /\ future[b] = "pending" /\ holder[b] # None /\ Done(holder[b])
        BY <2>4, <4>1 DEF DispatcherInv, FollowersWait
      <4>3. b # a
        BY <3>1, <4>1, <4>2 DEF Finishes
      <4>4. holder'[b] = holder[b] /\ future'[b] = "pending"
        BY <1>2, <4>2, <4>3 DEF Finishes
      <4>5. holder[b] \in Acts
        BY <1>0, <4>2 DEF DispatcherTypes
      <4>6. PICK c \in Acts : c = holder[b]
        BY <4>5
      <4>7. Done(c)'
        BY <1>3, <4>2, <4>6
      <4>8. Done(holder[b])'
        BY <4>4, <4>6, <4>7
      <4> QED BY <4>1, <4>2, <4>4, <4>8
    <3>2. CASE k \notin DOMAIN scheduled
      <4>1. PICK m \in DOMAIN followers[a] :
              followers[a][m] \in Acts /\ calls'[k] = Following(followers[a][m])
        BY <1>1, <2>4, <3>2, CallFacts
      <4>2. PICK f \in Acts : f = followers[a][m]
        BY <4>1
      <4>3. f # a /\ future'[f] = "pending" /\ holder'[f] = a
        BY <1>2, <1>6, <4>2 DEF Finishes
      <4>4. Done(holder[f])'
        BY <1>2, <4>3
      <4> QED BY <4>1, <4>2, <4>3, <4>4, NoneAssumption
    <3> QED BY <3>1, <3>2
  <2>5. \A h \in Acts : \A i \in DOMAIN followers'[h] :
          /\ holder'[followers'[h][i]] = h
          /\ ~Done(h)' => future'[followers'[h][i]] = "pending"
    BY <1>5, <2>1
  <2> QED BY <2>2, <2>3, <2>4, <2>5 DEF FollowersWait
<1>10. HolderAhead'
  <2> SUFFICES ASSUME NEW b \in Acts, holder'[b] # None
               PROVE  HolderIsAhead(b)'
    BY DEF HolderAhead
  <2>1. holder'[b] \in Acts
    BY <1>0 DEF Finishes, DispatcherTypes
  <2>2. PICK h \in Acts : h = holder'[b]
    BY <2>1
  <2> DEFINE B == <<b, "row">>
             H == <<h, "row">>
             Out == future'[h] = "cancelled" \/ fate[H] \in Accounted!Lost
  <2>3. B \in Records /\ H \in Records /\ B[1] = b /\ H[1] = h
    BY RecordFacts
  <2>4. b # a => holder[b] = h
    BY <2>2 DEF Finishes
  <2>5. ASSUME b # a, Excused(b) PROVE Out
    BY <1>2, <2>4, <2>5 DEF Excused, HolderRow
  <2>6. ASSUME NEW j \in DOMAIN calls', calls'[j] = Handing(B)
        PROVE  \/ Out \/ H \in said \/ fate[H] # "none"
               \/ \E i \in DOMAIN calls' : i < j /\ calls'[i] = Handing(H)
    <3>1. CASE j \in DOMAIN scheduled
      <4>1. j + d \in DOMAIN calls /\ calls[j + d] = Handing(B)
        BY <1>1, <2>6, <3>1 DEF Finishes
      <4>2. b # a
        BY <1>2, <2>3, <4>1 DEF DispatcherInv, HandedOnce, Scheduled
      <4>3. \/ Excused(b) \/ H \in said \/ fate[H] # "none"
            \/ \E i \in DOMAIN calls : i < j + d /\ calls[i] = Handing(H)
        BY <2>2, <2>4, <4>1, <4>2, NoneAssumption DEF DispatcherInv, HolderAhead, HolderIsAhead, HolderRow
      <4>4. ASSUME NEW i \in DOMAIN calls, i < j + d, calls[i] = Handing(H)
            PROVE  \E k \in DOMAIN calls' : k < j /\ calls'[k] = Handing(H)
        <5>1. i - d \in DOMAIN scheduled /\ scheduled[i - d] = Handing(H)
          BY <4>4, CallFacts DEF Finishes
        <5>2. i \in Nat
          BY <1>0, <4>4, LenProperties DEF DispatcherTypes
        <5>3. i - d \in DOMAIN calls' /\ calls'[i - d] = Handing(H) /\ i - d < j
          BY <1>1, <3>1, <4>4, <5>1, <5>2
        <5> QED BY <5>3
      <4> QED BY <2>5, <4>2, <4>3, <4>4
    <3>2. CASE j \notin DOMAIN scheduled
      <4>1. b = a
        BY <1>1, <2>3, <2>6, <3>2, CallFacts
      <4>2. Done(h) /\ h # a
        BY <1>2, <2>2, <4>1 DEF Finishes
      <4>3. CASE future[h] = "cancelled"
        BY <1>2, <4>2, <4>3
      <4>4. CASE future[h] = "set"
        <5>1. Scheduled(Handing(H)) \/ fate[H] # "none" \/ H \in said
          BY <2>3, <4>4 DEF DispatcherInv, HandedOver
        <5>2. ASSUME Scheduled(Handing(H))
              PROVE  \E i \in DOMAIN calls' : i < j /\ calls'[i] = Handing(H)
          <6>1. PICK i \in DOMAIN calls : calls[i] = Handing(H)
            BY <5>2 DEF Scheduled
          <6>2. i - d \in DOMAIN scheduled /\ scheduled[i - d] = Handing(H)
            BY <6>1, CallFacts DEF Finishes
          <6>3. i - d \in DOMAIN calls' /\ calls'[i - d] = Handing(H) /\ i - d < j
            BY <1>1, <3>2, <6>2
          <6> QED BY <6>3
        <5> QED BY <5>1, <5>2
      <4> QED BY <4>2, <4>3, <4>4 DEF Done
    <3> QED BY <3>1, <3>2
  <2>7. ASSUME NEW j \in DOMAIN queue, queue[j] = B
        PROVE  Out \/ IsStored(H) \/ \E i \in DOMAIN queue : i < j /\ queue[i] = H
    <3>1. b # a
      BY <1>0, <1>2, <2>3, <2>7, PendingIsNowhere DEF DispatcherInv, Queued
    <3> QED BY <2>2, <2>4, <2>5, <2>7, <3>1, NoneAssumption
            DEF DispatcherInv, HolderAhead, HolderIsAhead, HolderRow
  <2>8. ASSUME B \in adrift PROVE Out \/ IsStored(H)
    <3>1. b # a
      BY <1>0, <1>2, <2>3, <2>8, PendingIsNowhere DEF DispatcherInv
    <3> QED BY <2>2, <2>4, <2>5, <2>8, <3>1, NoneAssumption
            DEF DispatcherInv, HolderAhead, HolderIsAhead, HolderRow
  <2> HIDE DEF Out
  <2>9. HolderRow(b)' = H /\ (Out => Excused(b)') /\ (IsStored(H) => IsStored(H)')
    BY <1>5, <2>2 DEF HolderRow, Excused, Out, IsStored
  <2> QED BY <1>5, <2>6, <2>7, <2>8, <2>9 DEF HolderIsAhead
<1> QED BY <1>7, <1>8, <1>9, <1>10 DEF DispatcherInv

LEMMA SettleKeeps ==
  ASSUME TypeOK, WriterInv, DispatcherInv, NEW a \in Acts, Settle(a) \/ Cancel(a)
  PROVE  DispatcherInv'
<1>0. DispatcherTypes
  BY Types
<1>1. calls \in Seq(CallSet) /\ DOMAIN calls \subseteq Nat
  BY <1>0, LenProperties DEF DispatcherTypes
<1>2. /\ future[a] = "pending" /\ holder[a] = None
      /\ UNCHANGED <<holder, followers, said, writer, adrift, stored>>
  BY DEF Settle, Cancel, writer
<1>3. PICK how \in {"set", "cancelled"} : Finish(a, how, calls)
  BY DEF Settle, Cancel
<1>4. \A j \in DOMAIN calls : calls[j] # Following(a)
  BY <1>2, CallFacts DEF DispatcherInv, FollowersWait
<1>5. \A h \in Acts : \A i \in DOMAIN followers[h] : followers[h][i] # a
  BY <1>2, NoneAssumption DEF DispatcherInv, FollowersWait
<1>6. Finishes(a, how, calls, 0)
  BY <1>1, <1>2, <1>3, <1>4, <1>5 DEF Finishes
<1> QED BY <1>1, <1>6, FinishKeeps

LEMMA JoinKeeps ==
  ASSUME TypeOK, WriterInv, DispatcherInv, NEW a \in Acts, NEW h \in Acts, Join(a, h)
  PROVE  DispatcherInv'
<1>0. DispatcherTypes /\ WriterTypes
  BY Types
<1>1. calls \in Seq(CallSet) /\ DOMAIN calls \subseteq Nat
  BY <1>0, LenProperties DEF DispatcherTypes
<1>2. /\ a # h /\ future[a] = "pending" /\ future[h] # "none" /\ holder[a] = None
      /\ holder[h] = None /\ followers[a] = <<>> /\ holder' = [holder EXCEPT ![a] = h]
      /\ UNCHANGED <<said, queue, task, write, fate, adrift, stored>>
  BY DEF Join, writer
<1>3. holder'[a] = h /\ \A b \in Acts : b # a => holder'[b] = holder[b]
  BY <1>0, <1>2 DEF DispatcherTypes
<1>4. \A j \in DOMAIN calls : calls[j] # Following(a)
  BY <1>2, CallFacts DEF DispatcherInv, FollowersWait
<1>5. \A g \in Acts : \A i \in DOMAIN followers[g] : followers[g][i] # a
  BY <1>2, NoneAssumption DEF DispatcherInv, FollowersWait
<1>6. CASE future[h] # "pending"
  <2>1. Finish(a, "set", calls) /\ UNCHANGED followers
    BY <1>6 DEF Join, RecordAfterHolder
  <2>2. Done(h)
    BY <1>0, <1>2, <1>6 DEF DispatcherTypes, Done
  <2>3. Finishes(a, "set", calls, 0)
    BY <1>1, <1>2, <1>3, <1>4, <1>5, <2>1, <2>2 DEF Finishes, writer
  <2> QED BY <1>1, <2>3, FinishKeeps
<1>7. CASE future[h] = "pending"
  <2>1. followers' = [followers EXCEPT ![h] = Append(followers[h], a)] /\ UNCHANGED <<future, calls>>
    BY <1>7 DEF Join, RecordAfterHolder
  <2>2. \A b \in Acts : Done(b)' <=> Done(b)
    BY <2>1 DEF Done
  <2>3. \A g \in Acts : g # h => followers'[g] = followers[g]
    BY <1>0, <2>1 DEF DispatcherTypes
  <2>4. followers'[h] = Append(followers[h], a) /\ followers[h] \in Seq(Acts)
    BY <1>0, <2>1 DEF DispatcherTypes
  <2>5. /\ \A i \in DOMAIN followers'[h] :
             \/ i \in DOMAIN followers[h] /\ followers'[h][i] = followers[h][i]
             \/ i = Len(followers[h]) + 1 /\ followers'[h][i] = a
    BY <2>4, AppendFacts
  <2>6. HandedOnce' /\ HandedOver'
    BY <1>2, <2>1, <2>2, RecordFacts DEF DispatcherInv, HandedOnce, HandedOver, Scheduled
  <2>7. FollowersWait'
    <3>1. ASSUME NEW g \in Acts, NEW i \in DOMAIN followers'[g]
          PROVE  /\ holder'[followers'[g][i]] = g
                 /\ ~Done(g)' => future'[followers'[g][i]] = "pending"
      <4>1. CASE i \in DOMAIN followers[g] /\ followers'[g][i] = followers[g][i]
        <5>1. followers[g][i] \in Acts /\ followers[g][i] # a
          BY <1>0, <1>5, <4>1, ElementOfSeq DEF DispatcherTypes
        <5> QED BY <1>3, <2>1, <2>2, <4>1, <5>1 DEF DispatcherInv, FollowersWait
      <4>2. CASE g = h /\ followers'[g][i] = a
        BY <1>2, <1>3, <2>1, <4>2
      <4> QED BY <2>3, <2>5, <4>1, <4>2
    <3>2. ASSUME NEW g \in Acts, NEW i \in DOMAIN followers'[g], NEW j \in DOMAIN followers'[g],
                 followers'[g][i] = followers'[g][j]
          PROVE  i = j
      <4>1. CASE g # h
        BY <2>3, <3>2, <4>1 DEF DispatcherInv, FollowersWait
      <4>2. CASE g = h
        BY <1>5, <2>5, <3>2, <4>2 DEF DispatcherInv, FollowersWait
      <4> QED BY <4>1, <4>2
    <3>3. \A b \in Acts : holder'[b] # None => followers'[b] = <<>>
      BY <1>2, <1>3, <2>3 DEF DispatcherInv, FollowersWait
    <3>4. ASSUME NEW k \in DOMAIN calls', calls'[k].fn = "settle"
          PROVE  \E b \in Acts : /\ calls'[k] = Following(b)
                                 /\ future'[b] = "pending" /\ holder'[b] # None /\ Done(holder[b])'
      <4>1. PICK b \in Acts : /\ calls[k] = Following(b)
                              /\ future[b] = "pending" /\ holder[b] # None /\ Done(holder[b])
        BY <2>1, <3>4 DEF DispatcherInv, FollowersWait
      <4>2. b # a
        BY <1>2, <4>1
      <4>3. PICK c \in Acts : c = holder[b]
        BY <1>0, <4>1 DEF DispatcherTypes
      <4>4. Done(c)' /\ holder'[b] = c
        BY <1>3, <2>2, <4>1, <4>2, <4>3
      <4>5. Done(holder[b])'
        BY <4>4
      <4> QED BY <2>1, <4>1, <4>3, <4>4, <4>5
    <3> QED BY <3>1, <3>2, <3>3, <3>4 DEF FollowersWait
  <2>8. HolderAhead'
    <3> SUFFICES ASSUME NEW b \in Acts, holder'[b] # None PROVE HolderIsAhead(b)'
      BY DEF HolderAhead
    <3>1. CASE b = a
      <4>1. <<a, "row">> \in Records /\ <<a, "row">>[1] = a /\ ~Done(a)
        BY <1>2, RecordFacts DEF Done
      <4>2. ~Scheduled(Handing(<<a, "row">>)) /\ ~Queued(<<a, "row">>) /\ <<a, "row">> \notin adrift
        BY <1>0, <4>1, PendingIsNowhere DEF DispatcherInv
      <4> QED BY <1>2, <2>1, <3>1, <4>2 DEF HolderIsAhead, Scheduled, Queued
    <3>2. CASE b # a
      <4>1. holder'[b] = holder[b] /\ HolderIsAhead(b)
        BY <1>3, <3>2 DEF DispatcherInv, HolderAhead
      <4> QED BY <1>2, <2>1, <4>1 DEF HolderIsAhead, HolderRow, Excused, IsStored
    <3> QED BY <3>1, <3>2
  <2> QED BY <2>6, <2>7, <2>8 DEF DispatcherInv
<1> QED BY <1>6, <1>7

LEMMA OpenKeeps ==
  ASSUME TypeOK, WriterInv, DispatcherInv, NEW a \in Acts, Open(a)
  PROVE  DispatcherInv'
<1>0. DispatcherTypes /\ WriterTypes
  BY Types
<1>1. /\ future[a] = "none"
      /\ UNCHANGED <<holder, followers, calls, said, queue, task, write, fate, adrift, stored>>
  BY DEF Open, writer
<1>2. future'[a] = "pending" /\ \A b \in Acts : b # a => future'[b] = future[b]
  BY <1>0 DEF Open, DispatcherTypes
<1>3. \A b \in Acts : Done(b)' <=> Done(b)
  BY <1>1, <1>2 DEF Done
<1>4. HandedOnce' /\ HandedOver'
  BY <1>1, <1>2, <1>3, RecordFacts DEF DispatcherInv, HandedOnce, HandedOver, Scheduled
<1>5. FollowersWait'
  <2>1. ASSUME NEW g \in Acts, NEW i \in DOMAIN followers[g], ~Done(g)
        PROVE  future'[followers[g][i]] = "pending"
    <3>1. followers[g][i] \in Acts /\ future[followers[g][i]] = "pending"
      BY <1>0, <2>1, ElementOfSeq DEF DispatcherTypes, DispatcherInv, FollowersWait
    <3> QED BY <1>1, <1>2, <3>1
  <2>2. ASSUME NEW k \in DOMAIN calls', calls'[k].fn = "settle"
        PROVE  \E b \in Acts : /\ calls'[k] = Following(b)
                               /\ future'[b] = "pending" /\ holder'[b] # None /\ Done(holder[b])'
    <3>1. PICK b \in Acts : /\ calls[k] = Following(b)
                            /\ future[b] = "pending" /\ holder[b] # None /\ Done(holder[b])
      BY <1>1, <2>2 DEF DispatcherInv, FollowersWait
    <3>2. PICK c \in Acts : c = holder[b]
      BY <1>0, <3>1 DEF DispatcherTypes
    <3>3. Done(c)' /\ holder'[b] = c
      BY <1>1, <1>3, <3>1, <3>2
    <3>4. Done(holder[b])'
      BY <3>3
    <3>5. b # a
      BY <1>1, <3>1
    <3> QED BY <1>1, <1>2, <3>1, <3>4, <3>5
  <2>3. \A g \in Acts : \A i \in DOMAIN followers'[g] :
          /\ holder'[followers'[g][i]] = g
          /\ ~Done(g)' => future'[followers'[g][i]] = "pending"
    BY <1>1, <1>3, <2>1 DEF DispatcherInv, FollowersWait
  <2> QED BY <1>1, <2>2, <2>3 DEF DispatcherInv, FollowersWait
<1>6. HolderAhead'
  <2> SUFFICES ASSUME NEW b \in Acts, holder'[b] # None PROVE HolderIsAhead(b)'
    BY DEF HolderAhead
  <2>1. HolderIsAhead(b) /\ holder[b] \in Acts
    BY <1>0, <1>1 DEF DispatcherInv, HolderAhead, DispatcherTypes
  <2>2. Excused(b) => Excused(b)'
    BY <1>1, <1>2, <2>1 DEF Excused, HolderRow
  <2> QED BY <1>1, <2>1, <2>2 DEF HolderIsAhead, HolderRow, IsStored
<1> QED BY <1>4, <1>5, <1>6 DEF DispatcherInv

LEMMA RunSettleKeeps ==
  ASSUME TypeOK, WriterInv, DispatcherInv, RunSettle
  PROVE  DispatcherInv'
<1>0. DispatcherTypes
  BY Types
<1>1. calls # <<>> /\ Head(calls).fn = "settle" /\ Finish(Head(calls).record[1], "set", Tail(calls))
      /\ UNCHANGED <<holder, followers, said, writer, adrift, stored>>
  BY DEF RunSettle, writer
<1>2. /\ 1 \in DOMAIN calls /\ Head(calls) = calls[1]
      /\ Tail(calls) \in Seq(CallSet) /\ DOMAIN calls \subseteq Nat \ {0}
      /\ DOMAIN Tail(calls) \subseteq Nat \ {0}
      /\ \A i \in DOMAIN Tail(calls) : i + 1 \in DOMAIN calls /\ Tail(calls)[i] = calls[i + 1]
      /\ \A i \in DOMAIN calls : i # 1 => i - 1 \in DOMAIN Tail(calls) /\ Tail(calls)[i - 1] = calls[i]
  BY <1>0, <1>1, TailFacts DEF DispatcherTypes
<1>3. PICK a \in Acts : /\ calls[1] = Following(a)
                        /\ future[a] = "pending" /\ holder[a] # None /\ Done(holder[a])
  BY <1>1, <1>2 DEF DispatcherInv, FollowersWait
<1>4. Finish(a, "set", Tail(calls))
  BY <1>1, <1>2, <1>3, CallFacts
<1>5. \A j \in DOMAIN Tail(calls) : Tail(calls)[j] # Following(a)
  <2> TAKE j \in DOMAIN Tail(calls)
  <2>1. j + 1 \in DOMAIN calls /\ j + 1 # 1 /\ Tail(calls)[j] = calls[j + 1]
    BY <1>2
  <2>2. calls[j + 1] # calls[1]
    BY <1>2, <2>1 DEF DispatcherInv, HandedOnce
  <2> QED BY <1>3, <2>1, <2>2
<1>6. \A h \in Acts : \A i \in DOMAIN followers[h] : followers[h][i] = a => Done(h)
  BY <1>3 DEF DispatcherInv, FollowersWait
<1>7. holder[a] \in Acts /\ followers[a] = <<>>
  BY <1>0, <1>3 DEF DispatcherTypes, DispatcherInv, FollowersWait
<1>8. \A i \in DOMAIN calls : \/ i - 1 \in DOMAIN Tail(calls) /\ Tail(calls)[i - 1] = calls[i]
                             \/ calls[i].fn = "settle"
  BY <1>1, <1>2
<1>9. Finishes(a, "set", Tail(calls), 1)
  BY <1>1, <1>2, <1>3, <1>4, <1>5, <1>6, <1>7, <1>8 DEF Finishes
<1> QED BY <1>2, <1>9, FinishKeeps

-----------------------------------------------------------------------------
(* A record is handed over: the dispatcher keeps its part *)

LEMMA RunSettledKeeps ==
  ASSUME TypeOK, WriterInv, DispatcherInv, SaidAtStop, RunSettled
  PROVE  DispatcherInv'
<1>0. DispatcherTypes /\ WriterTypes
  BY Types
<1>1. PICK r \in Records :
        /\ calls # <<>> /\ calls[1] = Handing(r) /\ Settled(r) /\ calls' = Tail(calls)
        /\ 1 \in DOMAIN calls /\ Done(r[1]) /\ fate[r] = "none"
  BY <1>0, HeadHands DEF DispatcherInv
<1>2. UNCHANGED <<future, holder, followers, stop, adrift, stored>>
  BY DEF RunSettled
<1>3. /\ DOMAIN calls \subseteq Nat \ {0} /\ DOMAIN calls' \subseteq Nat \ {0}
      /\ \A i \in DOMAIN calls' : i + 1 \in DOMAIN calls /\ calls'[i] = calls[i + 1]
      /\ \A i \in DOMAIN calls : i # 1 => i - 1 \in DOMAIN calls' /\ calls'[i - 1] = calls[i]
  BY <1>0, <1>1, TailFacts DEF DispatcherTypes
<1>4. \/ future[r[1]] = "cancelled" /\ UNCHANGED <<said, writer>>
      \/ said' = said \cup {r} /\ UNCHANGED writer
      \/ Submit(r) /\ UNCHANGED said
  BY <1>1 DEF Settled
<1>5. Submit(r) => fate' = [fate EXCEPT ![r] = "turned_away"] \/ fate' = [fate EXCEPT ![r] = "waiting"]
  BY DEF Submit
<1>6. /\ \A s \in Records : s # r => fate'[s] = fate[s]
      /\ future[r[1]] = "cancelled" \/ r \in said' \/ fate'[r] # "none"
      /\ said \subseteq said'
  BY <1>0, <1>4, <1>5 DEF WriterTypes, writer
<1>7. \A i \in DOMAIN calls' : calls'[i] # Handing(r)
  <2> TAKE i \in DOMAIN calls'
  <2>1. i + 1 \in DOMAIN calls /\ i + 1 # 1 /\ calls'[i] = calls[i + 1]
    BY <1>3
  <2>2. calls[i + 1] # calls[1]
    BY <1>1, <2>1 DEF DispatcherInv, HandedOnce
  <2> QED BY <1>1, <2>1, <2>2
<1>8. \A b : Done(b)' <=> Done(b)
  BY <1>2 DEF Done
<1>9. HandedOnce'
  <2>1. ASSUME NEW s \in Records, Scheduled(Handing(s))' PROVE Done(s[1])' /\ fate'[s] = "none"
    <3>1. PICK i \in DOMAIN calls' : calls'[i] = Handing(s)
      BY <2>1 DEF Scheduled
    <3>2. s # r /\ Scheduled(Handing(s))
      BY <1>3, <1>7, <3>1 DEF Scheduled
    <3> QED BY <1>6, <1>8, <3>2 DEF DispatcherInv, HandedOnce
  <2>2. \A s \in Records : fate'[s] # "none" => Done(s[1])'
    BY <1>1, <1>6, <1>8 DEF DispatcherInv, HandedOnce
  <2>3. \A i, j \in DOMAIN calls' : calls'[i] = calls'[j] => i = j
    BY <1>3 DEF DispatcherInv, HandedOnce
  <2> QED BY <2>1, <2>2, <2>3 DEF HandedOnce
<1>10. HandedOver'
  <2> SUFFICES ASSUME NEW s \in Records, future'[s[1]] = "set"
               PROVE  Scheduled(Handing(s))' \/ fate'[s] # "none" \/ s \in said'
    BY DEF HandedOver
  <2>1. CASE s = r
    BY <1>2, <1>6, <2>1
  <2>2. CASE s # r
    <3>1. Scheduled(Handing(s)) \/ fate[s] # "none" \/ s \in said
      BY <1>2 DEF DispatcherInv, HandedOver
    <3>2. Scheduled(Handing(s)) => Scheduled(Handing(s))'
      <4>1. ASSUME NEW i \in DOMAIN calls, calls[i] = Handing(s)
            PROVE  \E k \in DOMAIN calls' : calls'[k] = Handing(s)
        <5>1. i # 1
          BY <1>1, <2>2, <4>1, CallFacts
        <5> QED BY <1>3, <4>1, <5>1
      <4> QED BY <4>1 DEF Scheduled
    <3> QED BY <1>6, <2>2, <3>1, <3>2
  <2> QED BY <2>1, <2>2
<1>11. FollowersWait'
  <2>1. ASSUME NEW k \in DOMAIN calls', calls'[k].fn = "settle"
        PROVE  \E b \in Acts : /\ calls'[k] = Following(b)
                               /\ future'[b] = "pending" /\ holder'[b] # None /\ Done(holder[b])'
    BY <1>2, <1>3, <1>8, <2>1 DEF DispatcherInv, FollowersWait
  <2> QED BY <1>2, <1>8, <2>1 DEF DispatcherInv, FollowersWait
<1>12. HolderAhead'
  <2> SUFFICES ASSUME NEW b \in Acts, holder[b] # None PROVE HolderIsAhead(b)'
    BY <1>2 DEF HolderAhead
  <2>1. PICK h \in Acts : h = holder[b]
    BY <1>0 DEF DispatcherTypes
  <2> DEFINE B == <<b, "row">>
             H == <<h, "row">>
             Out == future[h] = "cancelled" \/ fate[H] \in Accounted!Lost
             Outs == future[h] = "cancelled" \/ fate'[H] \in Accounted!Lost
  <2>2. B \in Records /\ H \in Records /\ H[1] = h
    BY RecordFacts
  <2>3. HolderIsAhead(b) /\ HolderRow(b) = H /\ (Excused(b) <=> Out)
    BY <2>1 DEF DispatcherInv, HolderAhead, HolderRow, Excused
  <2>4. Out => Outs
    <3>1. fate[H] \in Accounted!Lost => H # r
      BY <1>1 DEF Accounted!Lost
    <3> QED BY <1>6, <2>2, <3>1
  <2>5. fate[H] # "none" => fate'[H] # "none"
    BY <1>1, <1>6, <2>2
  <2>6. H = r => Outs \/ H \in said' \/ fate'[H] # "none"
    BY <1>6, <2>2
  <2>7. ASSUME NEW j \in DOMAIN calls', calls'[j] = Handing(B)
        PROVE  \/ Outs \/ H \in said' \/ fate'[H] # "none"
               \/ \E i \in DOMAIN calls' : i < j /\ calls'[i] = Handing(H)
    <3>1. j + 1 \in DOMAIN calls /\ calls[j + 1] = Handing(B)
      BY <1>3, <2>7
    <3>2. \/ Out \/ H \in said \/ fate[H] # "none"
          \/ \E i \in DOMAIN calls : i < j + 1 /\ calls[i] = Handing(H)
      BY <2>3, <3>1 DEF HolderIsAhead
    <3>3. ASSUME NEW i \in DOMAIN calls, i < j + 1, calls[i] = Handing(H), H # r
          PROVE  \E k \in DOMAIN calls' : k < j /\ calls'[k] = Handing(H)
      <4>1. i # 1
        BY <1>1, <3>3, CallFacts
      <4>2. i - 1 \in DOMAIN calls' /\ calls'[i - 1] = Handing(H) /\ i - 1 < j
        BY <1>3, <3>3, <4>1
      <4> QED BY <4>2
    <3> QED BY <1>6, <2>4, <2>5, <2>6, <3>2, <3>3
  <2>8. ASSUME NEW j \in DOMAIN queue', queue'[j] = B
        PROVE  Outs \/ IsStored(H) \/ \E i \in DOMAIN queue' : i < j /\ queue'[i] = H
    <3>1. CASE queue' = queue
      BY <2>3, <2>4, <2>8, <3>1 DEF HolderIsAhead
    <3>2. CASE queue' # queue
      <4>1. ~closed /\ queue' = Append(queue, r) /\ queue \in Seq(Records)
        BY <1>0, <1>4, <3>2 DEF Submit, writer, WriterTypes
      <4>2. /\ Len(queue) \in Nat
            /\ \A i \in DOMAIN queue : i < Len(queue) + 1 /\ i \in DOMAIN queue' /\ queue'[i] = queue[i]
            /\ \A i \in DOMAIN queue' : i \in DOMAIN queue \/ i = Len(queue) + 1
            /\ queue'[Len(queue) + 1] = r
        BY <4>1, AppendFacts
      <4>3. CASE j \in DOMAIN queue
        <5>1. Out \/ IsStored(H) \/ \E i \in DOMAIN queue : i < j /\ queue[i] = H
          BY <2>3, <2>8, <4>2, <4>3 DEF HolderIsAhead
        <5> QED BY <2>4, <4>2, <5>1
      <4>4. CASE j = Len(queue) + 1
        <5>1. B = r
          BY <2>8, <4>2, <4>4
        <5>2. Out \/ H \in said \/ fate[H] # "none"
          BY <1>1, <1>3, <2>3, <5>1 DEF HolderIsAhead
        <5>3. H \notin said /\ fate[H] # "unknown"
          BY <2>2, <4>1 DEF SaidAtStop, WriterInv, AdriftIsUnknown, closed
        <5>4. fate[H] = "written" => IsStored(H)
          BY <2>2 DEF WriterInv, StoredIsKnown
        <5>5. fate[H] = "waiting" => \E i \in DOMAIN queue' : i < j /\ queue'[i] = H
          BY <2>2, <4>2, <4>4 DEF WriterInv, WaitingIsQueued, Queued
        <5>6. fate[H] \in {"none", "waiting", "written", "unknown"} \/ fate[H] \in Accounted!Lost
          BY <1>0, <2>2 DEF WriterTypes, Accounted!Fates, Accounted!Lost
        <5> QED BY <2>4, <5>2, <5>3, <5>4, <5>5, <5>6
      <4> QED BY <2>8, <4>2, <4>3, <4>4
    <3> QED BY <3>1, <3>2
  <2>9. B \in adrift => Outs \/ IsStored(H)
    BY <2>3, <2>4 DEF HolderIsAhead
  <2> HIDE DEF Outs, Out
  <2>10. HolderRow(b)' = H /\ (Outs => Excused(b)') /\ (IsStored(H) => IsStored(H)')
    BY <1>2, <2>1 DEF HolderRow, Excused, Outs, IsStored
  <2> QED BY <1>2, <2>7, <2>8, <2>9, <2>10 DEF HolderIsAhead
<1> QED BY <1>9, <1>10, <1>11, <1>12 DEF DispatcherInv

-----------------------------------------------------------------------------
(* The writer's steps keep the dispatcher's part *)

\* A step of the writer: no record is handed over, none loses its fate, and
\* the store only grows.
WriterMoves ==
  /\ UNCHANGED <<future, holder, followers, calls, said>>
  /\ \A r \in Records : /\ fate'[r] = "none" <=> fate[r] = "none"
                        /\ fate[r] \in Accounted!Lost => fate'[r] \in Accounted!Lost
  /\ \A r : IsStored(r) => IsStored(r)'

LEMMA WriterMovesFacts ==
  ASSUME TypeOK, WriterInv,
         \/ Begin \/ Land \/ Resume \/ BackOff \/ Retry \/ Abandon \/ GraceEnds \/ Strand
         \/ \E how \in {"ok", "busy", "error", "cancelled"} : WriteEnds(how)
         \/ \E r \in Records, lands \in BOOLEAN : LandAdrift(r, lands)
         \/ UNCHANGED vars
  PROVE  WriterMoves
<1>0. WriterTypes
  BY Types
<1> USE DEF dispatcher, writer
<1>1. UNCHANGED <<future, holder, followers, calls, said>>
  BY DEF Begin, Land, Resume, BackOff, Retry, Abandon, GraceEnds, Strand, WriteEnds, LandAdrift, vars
<1>2. \A r : IsStored(r) => IsStored(r)'
  <2>1. stored' = stored \/ \E e \in Records : stored' = Append(stored, e)
    <3>1. CASE Land
      <4>1. Head(queue) \in Records
        BY <1>0, <3>1, HeadWaits DEF Land, WriterInv, TaskIsForQueue
      <4> QED BY <3>1, <4>1 DEF Land
    <3>2. CASE ~Land
      BY <3>2 DEF Begin, Resume, BackOff, Retry, Abandon, GraceEnds, Strand, WriteEnds, LandAdrift, vars
    <3> QED BY <3>1, <3>2
  <2>2. CASE stored' = stored
    BY <2>2 DEF IsStored
  <2>3. CASE \E e \in Records : stored' = Append(stored, e)
    BY <1>0, <2>3, StoredFacts DEF WriterTypes
  <2> QED BY <2>1, <2>2, <2>3
<1>3. ASSUME NEW r \in Records
      PROVE  fate'[r] = fate[r] \/ (fate[r] = "waiting" /\ fate'[r] # "none")
  <2>1. CASE Resume
    <3>1. queue # <<>>
      BY <2>1 DEF Resume, WriterInv, TaskIsForQueue
    <3>2. fate[Head(queue)] = "waiting" /\ Head(queue) \in Records
      BY <1>0, <3>1, HeadWaits DEF WriterInv
    <3>3. fate' = [fate EXCEPT ![Head(queue)] = FateOf(write)] /\ FateOf(write) # "none"
      BY <2>1 DEF Resume, FateOf
    <3> QED BY <1>0, <3>2, <3>3 DEF WriterTypes
  <2>2. CASE Strand
    BY <2>2 DEF Strand, StrandedFate
  <2>3. CASE ~Resume /\ ~Strand
    BY <2>3 DEF Begin, Land, BackOff, Retry, Abandon, GraceEnds, WriteEnds, LandAdrift, vars
  <2> QED BY <2>1, <2>2, <2>3
<1>4. "waiting" \notin Accounted!Lost
  BY DEF Accounted!Lost
<1> QED BY <1>1, <1>2, <1>3, <1>4 DEF WriterMoves

LEMMA WriterMovesKeep ==
  ASSUME TypeOK, WriterInv, WriterInv', DispatcherInv, WriterMoves,
         \/ UNCHANGED queue /\ adrift' \subseteq adrift
         \/ Resume
         \/ Strand
  PROVE  DispatcherInv'
<1>0. DispatcherTypes /\ WriterTypes
  BY Types
<1>1. UNCHANGED <<future, holder, followers, calls, said>>
  BY DEF WriterMoves
<1>2. HandedOnce' /\ HandedOver'
  BY <1>1 DEF WriterMoves, DispatcherInv, HandedOnce, HandedOver, Scheduled, Done
<1>3. FollowersWait'
  BY <1>1 DEF DispatcherInv, FollowersWait, Done
<1>4. HolderAhead'
  <2> SUFFICES ASSUME NEW b \in Acts, holder[b] # None PROVE HolderIsAhead(b)'
    BY <1>1 DEF HolderAhead
  <2>1. PICK h \in Acts : h = holder[b]
    BY <1>0 DEF DispatcherTypes
  <2> DEFINE B == <<b, "row">>
             H == <<h, "row">>
             Out == future[h] = "cancelled" \/ fate[H] \in Accounted!Lost
             Outs == future[h] = "cancelled" \/ fate'[H] \in Accounted!Lost
  <2>2. B \in Records /\ H \in Records
    BY RecordFacts
  <2>3. HolderIsAhead(b) /\ HolderRow(b) = H /\ (Excused(b) <=> Out)
    BY <2>1 DEF DispatcherInv, HolderAhead, HolderRow, Excused
  <2>4. /\ Out => Outs
        /\ fate[H] # "none" => fate'[H] # "none"
        /\ IsStored(H) => IsStored(H)'
    BY <2>2 DEF WriterMoves
  <2>5. /\ HolderRow(b)' = H
        /\ Outs => Excused(b)'
    BY <1>1, <2>1 DEF HolderRow, Excused
  <2>6. ASSUME NEW j \in DOMAIN calls, calls[j] = Handing(B)
        PROVE  \/ Outs \/ H \in said \/ fate'[H] # "none"
               \/ \E i \in DOMAIN calls : i < j /\ calls[i] = Handing(H)
    BY <2>3, <2>4, <2>6 DEF HolderIsAhead
  <2>7. ASSUME NEW j \in DOMAIN queue', queue'[j] = B
        PROVE  Outs \/ IsStored(H)' \/ \E i \in DOMAIN queue' : i < j /\ queue'[i] = H
    <3>1. CASE UNCHANGED queue
      BY <2>3, <2>4, <2>7, <3>1 DEF HolderIsAhead
    <3>2. CASE Resume
      <4>1. queue # <<>> /\ queue' = Tail(queue)
        BY <3>2 DEF Resume, Proceed, WriterInv, TaskIsForQueue
      <4>2. /\ 1 \in DOMAIN queue /\ Head(queue) = queue[1] /\ Head(queue) \in Records
            /\ DOMAIN queue \subseteq Nat \ {0} /\ DOMAIN queue' \subseteq Nat \ {0}
            /\ \A i \in DOMAIN queue' : i + 1 \in DOMAIN queue /\ queue'[i] = queue[i + 1]
            /\ \A i \in DOMAIN queue : i # 1 => i - 1 \in DOMAIN queue' /\ queue'[i - 1] = queue[i]
        BY <1>0, <4>1, TailFacts DEF WriterTypes
      <4>3. Out \/ IsStored(H) \/ \E i \in DOMAIN queue : i < j + 1 /\ queue[i] = H
        BY <2>3, <2>7, <4>2 DEF HolderIsAhead
      <4>4. ASSUME NEW i \in DOMAIN queue, i < j + 1, queue[i] = H
            PROVE  Outs \/ IsStored(H)' \/ \E k \in DOMAIN queue' : k < j /\ queue'[k] = H
        <5>1. CASE i = 1
          <6>1. fate'[H] = FateOf(write)
            <7>1. Head(queue) = H /\ fate' = [fate EXCEPT ![Head(queue)] = FateOf(write)]
              BY <3>2, <4>2, <4>4, <5>1 DEF Resume
            <7> QED BY <1>0, <2>2, <7>1 DEF WriterTypes
          <6>2. FateOf(write) = "written" \/ FateOf(write) \in Accounted!Lost
            BY <3>2 DEF Resume, FateOf, Accounted!Lost
          <6>3. fate'[H] = "written" => IsStored(H)'
            BY <2>2 DEF WriterInv, StoredIsKnown
          <6> QED BY <6>1, <6>2, <6>3
        <5>2. CASE i # 1
          <6>1. i - 1 \in DOMAIN queue' /\ queue'[i - 1] = H /\ i - 1 < j
            BY <4>2, <4>4, <5>2
          <6> QED BY <6>1
        <5> QED BY <5>1, <5>2
      <4> QED BY <2>4, <4>3, <4>4
    <3>3. CASE Strand
      BY <2>7, <3>3 DEF Strand
    <3> QED BY <3>1, <3>2, <3>3
  <2>8. ASSUME B \in adrift' PROVE Outs \/ IsStored(H)'
    <3>1. CASE adrift' \subseteq adrift
      BY <2>3, <2>4, <2>8, <3>1 DEF HolderIsAhead
    <3>2. CASE Strand
      <4>1. B = Head(queue) /\ queue # <<>>
        BY <2>8, <3>2 DEF Strand, WriterInv, TaskIsForQueue
      <4>2. 1 \in DOMAIN queue /\ queue[1] = B /\ DOMAIN queue \subseteq Nat \ {0}
        BY <1>0, <4>1, TailFacts DEF WriterTypes
      <4>3. Out \/ IsStored(H) \/ \E i \in DOMAIN queue : i < 1 /\ queue[i] = H
        BY <2>3, <4>2 DEF HolderIsAhead
      <4> QED BY <2>4, <4>2, <4>3
    <3>3. CASE Resume
      BY <3>1, <3>3 DEF Resume
    <3> QED BY <3>1, <3>2, <3>3
  <2> HIDE DEF Outs, Out
  <2> QED BY <1>1, <2>5, <2>6, <2>7, <2>8 DEF HolderIsAhead
<1> QED BY <1>2, <1>3, <1>4 DEF DispatcherInv

LEMMA DispatcherStep ==
  TypeOK /\ WriterInv /\ WriterInv' /\ SaidAtStop /\ DispatcherInv /\ [Next]_vars => DispatcherInv'
<1> SUFFICES ASSUME TypeOK, WriterInv, WriterInv', SaidAtStop, DispatcherInv, [Next]_vars
             PROVE  DispatcherInv'
  OBVIOUS
<1> USE DEF dispatcher, writer
<1>1. ASSUME NEW a \in Acts, Open(a) PROVE DispatcherInv'
  BY <1>1, OpenKeeps
<1>2. ASSUME NEW a \in Acts, Settle(a) \/ Cancel(a) PROVE DispatcherInv'
  BY <1>2, SettleKeeps
<1>3. ASSUME NEW a \in Acts, NEW h \in Acts, Join(a, h) PROVE DispatcherInv'
  BY <1>3, JoinKeeps
<1>4. CASE RunSettled
  BY <1>4, RunSettledKeeps
<1>5. CASE RunSettle
  BY <1>5, RunSettleKeeps
<1>6. CASE \/ Begin \/ Land \/ Resume \/ BackOff \/ Retry \/ Abandon \/ GraceEnds \/ Strand
           \/ \E how \in {"ok", "busy", "error", "cancelled"} : WriteEnds(how)
           \/ \E r \in Records, lands \in BOOLEAN : LandAdrift(r, lands)
           \/ UNCHANGED vars
  <2>1. WriterMoves
    BY <1>6, WriterMovesFacts
  <2>2. Resume \/ Strand \/ (UNCHANGED queue /\ adrift' \subseteq adrift)
    BY <1>6 DEF Begin, Land, BackOff, Retry, Proceed, Abandon, GraceEnds, WriteEnds, LandAdrift, vars
  <2> QED BY <2>1, <2>2, WriterMovesKeep
<1> QED BY <1>1, <1>2, <1>3, <1>4, <1>5, <1>6, Zenon DEF Next

-----------------------------------------------------------------------------
(* A contributor's row follows its holder's *)

\* What excuses a holder stays: its future stays cancelled, its loss counted.
LEMMA ExcuseStays ==
  ASSUME TypeOK, WriterInv, DispatcherInv, [Next]_vars
  PROVE  /\ \A h \in Acts : future[h] = "cancelled" => future'[h] = "cancelled"
         /\ \A r \in Records : fate[r] \in Accounted!Lost => fate'[r] \in Accounted!Lost
<1>0. DispatcherTypes /\ WriterTypes
  BY Types
<1> USE DEF dispatcher, writer
<1>1. ASSUME NEW a \in Acts, Open(a) \/ Settle(a) \/ Cancel(a) \/ \E h \in Acts : Join(a, h)
      PROVE  /\ future' = future \/ (future[a] # "cancelled" /\ \A h \in Acts : h # a => future'[h] = future[h])
             /\ fate' = fate
  BY <1>0, <1>1 DEF Open, Settle, Cancel, Join, RecordAfterHolder, Finish, DispatcherTypes
<1>2. CASE RunSettled
  <2>1. PICK r \in Records : Settled(r) /\ fate[r] = "none"
    BY <1>0, <1>2, HeadHands DEF DispatcherInv
  <2>2. \A s \in Records : s # r => fate'[s] = fate[s]
    BY <1>0, <2>1 DEF Settled, Submit, WriterTypes
  <2>3. future' = future
    BY <1>2 DEF RunSettled
  <2> QED BY <2>1, <2>2, <2>3 DEF Accounted!Lost
<1>3. CASE RunSettle
  <2>1. calls # <<>> /\ Head(calls).fn = "settle" /\ fate' = fate
        /\ future' = [future EXCEPT ![Head(calls).record[1]] = "set"]
    BY <1>3 DEF RunSettle, Finish
  <2>2. 1 \in DOMAIN calls /\ Head(calls) = calls[1]
    BY <1>0, <2>1, TailFacts DEF DispatcherTypes
  <2>3. PICK b \in Acts : calls[1] = Following(b) /\ future[b] = "pending"
    BY <2>1, <2>2 DEF DispatcherInv, FollowersWait
  <2>4. Head(calls).record[1] = b
    BY <2>2, <2>3, CallFacts
  <2> QED BY <1>0, <2>1, <2>3, <2>4 DEF DispatcherTypes
<1>4. CASE \/ Begin \/ Land \/ Resume \/ BackOff \/ Retry \/ Abandon \/ GraceEnds \/ Strand
           \/ \E how \in {"ok", "busy", "error", "cancelled"} : WriteEnds(how)
           \/ \E r \in Records, lands \in BOOLEAN : LandAdrift(r, lands)
           \/ UNCHANGED vars
  <2>1. WriterMoves
    BY <1>4, WriterMovesFacts
  <2> QED BY <2>1 DEF WriterMoves
<1> QED BY <1>1, <1>2, <1>3, <1>4 DEF Next

\* A row the store takes comes behind every row it has.
LEMMA StoredBehind ==
  ASSUME stored \in Seq(Records), NEW e \in Records, stored' = Append(stored, e)
  PROVE  /\ \A r : IsStored(r) => Before(r, e)'
         /\ \A r, s : Before(r, s) => Before(r, s)'
<1>1. /\ stored' \in Seq(Records) /\ Len(stored) \in Nat /\ Len(stored') = Len(stored) + 1
      /\ stored'[Len(stored) + 1] = e
      /\ \A i \in DOMAIN stored : stored'[i] = stored[i]
  BY AppendFacts
<1>2. DOMAIN stored = 1..Len(stored)
  BY LenProperties
<1> QED BY <1>1, <1>2 DEF IsStored, Before

\* Who takes a row into the store: the write in flight, or a cancelled one.
LEMMA WhoStores ==
  ASSUME TypeOK, WriterInv, [Next]_vars, stored' # stored
  PROVE  \E e \in Records :
           /\ stored' = Append(stored, e) /\ holder' = holder
           /\ \/ Land /\ 1 \in DOMAIN queue /\ e = queue[1] /\ DOMAIN queue \subseteq Nat \ {0}
              \/ e \in adrift
<1>0. WriterTypes
  BY Types
<1> USE DEF dispatcher, writer
<1>1. Land \/ \E r \in Records, lands \in BOOLEAN : LandAdrift(r, lands)
  BY DEF Next, Open, Settle, Cancel, Join, RunSettled, RunSettle, Begin, WriteEnds, Resume, BackOff,
         Retry, Abandon, GraceEnds, Strand, vars
<1>2. CASE Land
  <2>1. queue # <<>> /\ stored' = Append(stored, Head(queue)) /\ holder' = holder
    BY <1>2 DEF Land, WriterInv, TaskIsForQueue
  <2>2. /\ 1 \in DOMAIN queue /\ Head(queue) = queue[1] /\ Head(queue) \in Records
        /\ DOMAIN queue \subseteq Nat \ {0}
    BY <1>0, <2>1, TailFacts DEF WriterTypes
  <2> QED BY <1>2, <2>1, <2>2
<1>3. CASE \E r \in Records, lands \in BOOLEAN : LandAdrift(r, lands)
  BY <1>3 DEF LandAdrift
<1> QED BY <1>1, <1>2, <1>3

LEMMA ContributorStep ==
  TypeOK /\ WriterInv /\ DispatcherInv /\ ContributorFollowsHolder /\ [Next]_vars
    => ContributorFollowsHolder'
<1> SUFFICES ASSUME TypeOK, WriterInv, DispatcherInv, ContributorFollowsHolder, [Next]_vars,
                    NEW b \in Acts, holder'[b] # None, IsStored(<<b, "row">>)'
             PROVE  \/ Before(<<holder[b], "row">>, <<b, "row">>)'
                    \/ future'[holder'[b]] = "cancelled"
                    \/ fate'[<<holder'[b], "row">>] \in Accounted!Lost
  BY DEF ContributorFollowsHolder
<1>0. DispatcherTypes /\ WriterTypes
  BY Types
<1> USE DEF dispatcher, writer
<1> DEFINE B == <<b, "row">>
<1>1. B \in Records /\ B[1] = b
  BY RecordFacts
<1>2. holder' = holder \/ (stored' = stored /\ (~Done(b) \/ holder'[b] = holder[b]))
  <2>1. CASE \E a, h \in Acts : Join(a, h)
    BY <1>0, <2>1 DEF Join, Done, DispatcherTypes
  <2>2. CASE ~ \E a, h \in Acts : Join(a, h)
    BY <2>2 DEF Next, Open, Settle, Cancel, RunSettled, RunSettle, Begin, Land, WriteEnds, Resume,
           BackOff, Retry, Abandon, GraceEnds, Strand, LandAdrift, vars
  <2> QED BY <2>1, <2>2
<1>3. holder'[b] = holder[b]
  <2>1. CASE stored' = stored
    <3>1. IsStored(B)
      BY <2>1 DEF IsStored
    <3>2. Done(b)
      BY <1>0, <1>1, <3>1, PendingIsNowhere DEF DispatcherInv
    <3> QED BY <1>2, <3>2
  <2> QED BY <1>2, <2>1
<1>4. PICK h \in Acts : h = holder[b] /\ h = holder'[b]
  BY <1>0, <1>3 DEF DispatcherTypes
<1> DEFINE H == <<h, "row">>
<1>5. H \in Records
  BY RecordFacts
<1>6. /\ future[h] = "cancelled" => future'[h] = "cancelled"
      /\ fate[H] \in Accounted!Lost => fate'[H] \in Accounted!Lost
  BY <1>5, ExcuseStays
<1>7. CASE stored' = stored
  <2>1. IsStored(B) /\ (Before(H, B) => Before(H, B)')
    BY <1>7 DEF IsStored, Before
  <2>2. Before(H, B) \/ future[h] = "cancelled" \/ fate[H] \in Accounted!Lost
    BY <1>4, <2>1 DEF ContributorFollowsHolder
  <2> QED BY <1>4, <1>6, <2>1, <2>2
<1>8. CASE stored' # stored
  <2>1. PICK e \in Records :
          /\ stored' = Append(stored, e)
          /\ \/ Land /\ 1 \in DOMAIN queue /\ e = queue[1] /\ DOMAIN queue \subseteq Nat \ {0}
             \/ e \in adrift
    BY <1>8, WhoStores
  <2>2. /\ \A r : IsStored(r)' <=> IsStored(r) \/ r = e
        /\ \A r : IsStored(r) => Before(r, e)'
        /\ \A r, s : Before(r, s) => Before(r, s)'
    BY <1>0, <2>1, StoredFacts, StoredBehind DEF WriterTypes
  <2>3. CASE IsStored(B)
    <3>1. Before(H, B) \/ future[h] = "cancelled" \/ fate[H] \in Accounted!Lost
      BY <1>4, <2>3 DEF ContributorFollowsHolder
    <3>2. Before(H, B)' \/ future'[h] = "cancelled" \/ fate'[H] \in Accounted!Lost
      BY <1>6, <2>2, <3>1
    <3> QED BY <1>4, <3>2
  <2>4. CASE B = e
    <3>1. HolderIsAhead(b) /\ HolderRow(b) = H
      BY <1>4, NoneAssumption DEF DispatcherInv, HolderAhead, HolderRow
    <3>2. ASSUME 1 \in DOMAIN queue, e = queue[1], DOMAIN queue \subseteq Nat \ {0}
          PROVE  Excused(b) \/ IsStored(H)
      <4>1. ~ \E i \in DOMAIN queue : i < 1 /\ queue[i] = H
        BY <3>2
      <4> QED BY <2>4, <3>1, <3>2, <4>1 DEF HolderIsAhead
    <3>3. Excused(b) \/ IsStored(H)
      BY <2>1, <2>4, <3>1, <3>2 DEF HolderIsAhead
    <3>4. Before(H, B)' \/ future'[h] = "cancelled" \/ fate'[H] \in Accounted!Lost
      BY <1>4, <1>6, <2>2, <2>4, <3>1, <3>3 DEF Excused
    <3> QED BY <1>4, <3>4
  <2> QED BY <2>2, <2>3, <2>4
<1> QED BY <1>7, <1>8

-----------------------------------------------------------------------------
(* Every step is a step of AccountedQueue, or none *)

AbstractStep == [Accounted!Next]_(Accounted!vars)

LEMMA OfferIsAbstract ==
  ASSUME NEW r \in Records, fate[r] = "none", Submit(r), UNCHANGED <<stop, stored>>,
         queue \in Seq(Records)
  PROVE  Accounted!Offer(r)
<1>0. Len(queue) \in Nat /\ Ceiling \in Nat
  BY CeilingAssumption, LenProperties
<1>1. CASE stop = "up" /\ Len(queue) < Ceiling
  <2>1. ~(closed \/ Len(queue) >= Ceiling)
    BY <1>0, <1>1 DEF closed
  <2> QED BY <1>1, <2>1 DEF Submit, Accounted!Offer
<1>2. CASE ~(stop = "up" /\ Len(queue) < Ceiling)
  <2>1. closed \/ Len(queue) >= Ceiling
    BY <1>0, <1>2 DEF closed
  <2> QED BY <1>2, <2>1 DEF Submit, Accounted!Offer
<1> QED BY <1>1, <1>2

LEMMA ResumeIsAbstract ==
  ASSUME WriterTypes, WriterInv, Resume
  PROVE  \E f \in {"written", "refused", "cancelled"} : Accounted!Leave(f)
<1>1. queue # <<>> /\ queue' = Tail(queue) /\ UNCHANGED <<stop, stored>>
      /\ fate' = [fate EXCEPT ![Head(queue)] = FateOf(write)]
      /\ write \in {"ok", "error", "cancelled"}
  BY DEF Resume, Proceed, WriterInv, TaskIsForQueue
<1>2. /\ write = "error" => ~IsStored(Head(queue))
      /\ write = "ok" => IsStored(Head(queue))
  BY <1>1, InFlightFacts DEF WriterInv, StoredIsKnown
<1>3. FateOf(write) \in {"written", "refused", "cancelled"}
  BY <1>1 DEF FateOf
<1>4. /\ FateOf(write) = "written" => IsStored(Head(queue))
      /\ FateOf(write) = "refused" => ~IsStored(Head(queue))
  BY <1>1, <1>2 DEF FateOf
<1>5. Accounted!Leave(FateOf(write))
  BY <1>1, <1>4 DEF Accounted!Leave, Accounted!IsStored, IsStored
<1> QED BY <1>3, <1>5

LEMMA StrandIsAbstract ==
  ASSUME WriterTypes, WriterInv, Strand
  PROVE  Accounted!GiveUp
<1>1. queue # <<>> /\ task # "none" /\ stop = "gather" /\ stop' = "closed" /\ queue' = <<>>
      /\ stored' = stored
  BY DEF Strand, WriterInv, TaskIsForQueue
<1> DEFINE doubt == task \in {"writing", "sleeping"}
<1>2. doubt \in BOOLEAN
  OBVIOUS
<1>3. /\ doubt => InFlight = Head(queue)
      /\ ~doubt => InFlight \notin Records
  BY <1>1, InFlightFacts DEF WriterTypes
<1>4. ~doubt => ~IsStored(Head(queue))
  BY <1>1, InFlightFacts DEF WriterInv, TaskIsForQueue, WriterTypes
<1> HIDE DEF doubt
<1>5. fate' = [r \in Records |-> IF fate[r] # "waiting" THEN fate[r]
                                ELSE IF doubt /\ r = Head(queue) THEN "unknown" ELSE "stranded"]
  <2>1. fate' = [r \in Records |-> IF fate[r] = "waiting" THEN StrandedFate(r) ELSE fate[r]]
    BY DEF Strand
  <2>2. \A r \in Records : StrandedFate(r) = IF doubt /\ r = Head(queue) THEN "unknown" ELSE "stranded"
    BY <1>3 DEF StrandedFate
  <2> QED BY <2>1, <2>2
<1>6. \E u \in BOOLEAN :
        /\ ~u => ~Accounted!IsStored(Head(queue))
        /\ fate' = [r \in Records |-> IF fate[r] # "waiting" THEN fate[r]
                                      ELSE IF u /\ r = Head(queue) THEN "unknown" ELSE "stranded"]
  BY <1>2, <1>4, <1>5 DEF Accounted!IsStored, IsStored
<1> QED BY <1>1, <1>6 DEF Accounted!GiveUp

LEMMA StepIsAbstract == TypeOK /\ WriterInv /\ HandedOnce /\ [Next]_vars => AbstractStep
<1> SUFFICES ASSUME TypeOK, WriterInv, HandedOnce, [Next]_vars PROVE AbstractStep
  OBVIOUS
<1>0. DispatcherTypes /\ WriterTypes
  BY Types
<1> USE DEF dispatcher, writer
<1>1. CASE UNCHANGED <<queue, fate, stored>> /\ (stop' = "up" <=> stop = "up")
  BY <1>1 DEF AbstractStep, Accounted!vars
<1>2. CASE RunSettled
  <2>1. PICK r \in Records : Settled(r) /\ fate[r] = "none"
    BY <1>0, <1>2, HeadHands
  <2>2. UNCHANGED <<stop, stored>> /\ (UNCHANGED writer \/ Submit(r))
    BY <1>2, <2>1 DEF RunSettled, Settled
  <2>3. CASE Submit(r)
    <3>1. Accounted!Offer(r)
      BY <1>0, <2>1, <2>2, <2>3, OfferIsAbstract DEF WriterTypes
    <3> QED BY <3>1 DEF AbstractStep, Accounted!Next
  <2> QED BY <1>1, <2>2, <2>3
<1>3. CASE Land
  <2>1. queue # <<>> /\ write = "running"
    BY <1>3 DEF Land, WriterInv, TaskIsForQueue
  <2>2. ~IsStored(Head(queue))
    BY <1>0, <2>1, InFlightFacts
  <2>3. Accounted!Store
    BY <1>3, <2>1, <2>2 DEF Land, Accounted!Store, Accounted!IsStored, IsStored
  <2> QED BY <2>3 DEF AbstractStep, Accounted!Next
<1>4. CASE Resume
  <2>1. \E f \in {"written", "refused", "cancelled"} : Accounted!Leave(f)
    BY <1>0, <1>4, ResumeIsAbstract
  <2> QED BY <2>1 DEF AbstractStep, Accounted!Next
<1>5. CASE Strand
  <2>1. Accounted!GiveUp
    BY <1>0, <1>5, StrandIsAbstract
  <2> QED BY <2>1 DEF AbstractStep, Accounted!Next
<1>6. CASE Abandon
  <2>1. stop = "up" /\ stop' # "up" /\ UNCHANGED <<queue, fate, stored>>
    BY <1>6 DEF Abandon
  <2>2. Accounted!Shut
    BY <2>1 DEF Accounted!Shut
  <2> QED BY <2>2 DEF AbstractStep, Accounted!Next
<1>7. ASSUME NEW r \in Records, NEW lands \in BOOLEAN, LandAdrift(r, lands) PROVE AbstractStep
  <2>1. CASE lands
    <3>1. fate[r] = "unknown" /\ ~IsStored(r)
      BY <1>7 DEF LandAdrift, WriterInv, AdriftIsUnknown
    <3>2. Accounted!LandLate(r)
      BY <1>7, <2>1, <3>1 DEF LandAdrift, Accounted!LandLate, Accounted!IsStored, IsStored
    <3> QED BY <3>2 DEF AbstractStep, Accounted!Next
  <2>2. CASE ~lands
    BY <1>1, <1>7, <2>2 DEF LandAdrift
  <2> QED BY <2>1, <2>2
<1>8. CASE \/ \E a \in Acts : Open(a) \/ Settle(a) \/ Cancel(a) \/ \E h \in Acts : Join(a, h)
           \/ RunSettle \/ Begin \/ BackOff \/ Retry \/ GraceEnds \/ UNCHANGED vars
           \/ \E how \in {"ok", "busy", "error", "cancelled"} : WriteEnds(how)
  <2>1. UNCHANGED <<queue, fate, stored>> /\ (stop' = "up" <=> stop = "up")
    BY <1>8 DEF Open, Settle, Cancel, Join, RunSettle, Begin, BackOff, Retry, Proceed, GraceEnds,
           WriteEnds, vars
  <2> QED BY <1>1, <2>1
<1> QED BY <1>2, <1>3, <1>4, <1>5, <1>6, <1>7, <1>8 DEF Next

-----------------------------------------------------------------------------
(* The theorems *)

Inv == TypeOK /\ WriterInv /\ DispatcherInv /\ SaidAtStop /\ ContributorFollowsHolder

LEMMA InvInit == Init => Inv
<1> SUFFICES ASSUME Init PROVE Inv
  OBVIOUS
<1>1. TypeOK
  BY TypeInit
<1>2. /\ calls = <<>> /\ queue = <<>> /\ stored = <<>> /\ adrift = {} /\ said = {} /\ stop = "up"
      /\ task = "none" /\ write = "none"
      /\ \A a \in Acts : future[a] = "none" /\ holder[a] = None /\ followers[a] = <<>>
      /\ \A r \in Records : fate[r] = "none"
  BY DEF Init
<1>3. \A r : ~IsStored(r)
  BY <1>2 DEF IsStored
<1>4. WriterInv
  BY <1>2, <1>3 DEF WriterInv, WaitingIsQueued, Queued, TaskIsForQueue, StoredIsKnown, AdriftIsUnknown
<1>5. HandedOnce /\ HandedOver
  BY <1>2, RecordFacts DEF HandedOnce, HandedOver, Scheduled
<1>6. FollowersWait
  BY <1>2 DEF FollowersWait
<1>7. HolderAhead /\ SaidAtStop /\ ContributorFollowsHolder
  BY <1>2 DEF HolderAhead, SaidAtStop, ContributorFollowsHolder
<1> QED BY <1>1, <1>4, <1>5, <1>6, <1>7, Zenon DEF Inv, DispatcherInv

LEMMA InvStep == Inv /\ [Next]_vars => Inv'
<1> SUFFICES ASSUME Inv, [Next]_vars PROVE Inv'
  OBVIOUS
<1>1. TypeOK /\ WriterInv /\ DispatcherInv /\ SaidAtStop /\ ContributorFollowsHolder
  BY Zenon DEF Inv
<1>2. HandedOnce /\ FollowersWait /\ TaskIsForQueue
  BY <1>1, Zenon DEF DispatcherInv, WriterInv
<1>3. DispatcherTypes' /\ WriterTypes'
  BY <1>1, <1>2, DispatcherTypesStep, WriterTypesStep, Zenon
<1>4. TypeOK'
  BY <1>3, Zenon DEF TypeOK, DispatcherTypes, WriterTypes, CallSet
<1>5. WriterInv'
  BY <1>1, <1>2, WriterStep, Zenon
<1>6. DispatcherInv'
  BY <1>1, <1>5, DispatcherStep, Zenon
<1>7. SaidAtStop' /\ ContributorFollowsHolder'
  BY <1>1, SaidStep, ContributorStep, Zenon
<1> QED BY <1>4, <1>5, <1>6, <1>7, Zenon DEF Inv

LEMMA Invariance == Spec => []Inv
<1> QED BY InvInit, InvStep, PTL DEF Spec

\* The types of the dispatcher's futures and calls and of the writer's queue.
THEOREM TypeCorrect == Spec => []TypeOK
<1>1. Inv => TypeOK
  BY Zenon DEF Inv
<1> QED BY <1>1, Invariance, PTL

\* The deferred writer, with its task, its store thread, its back-offs and its
\* close, implements the queue its docstring promises (deferred_writer.py).
THEOREM WriterIsAccounted == Spec => QueueIsAccounted
<1>1. Init => Accounted!Init
  BY DEF Init, Accounted!Init
<1>2. Inv /\ [Next]_vars => [Accounted!Next]_(Accounted!vars)
  BY StepIsAbstract, Zenon DEF Inv, DispatcherInv, AbstractStep
<1> QED BY <1>1, <1>2, Invariance, PTL DEF Spec, QueueIsAccounted, Accounted!Spec

\* A contributor's row is in the store only behind its holder's, unless the
\* holder has none to write or its loss is counted (_record_after_holder).
THEOREM ContributorComesAfter == Spec => []ContributorFollowsHolder
<1>1. Inv => ContributorFollowsHolder
  BY Zenon DEF Inv
<1> QED BY <1>1, Invariance, PTL

\* The record of an act that reported is about to be handed over, waits in a
\* queue that has its writer, has a fate the writer stated, or was said.
RecordIsSomewhere ==
  \A r \in Records : future[r[1]] = "set" =>
    \/ Scheduled(Handing(r))
    \/ Queued(r) /\ task # "none"
    \/ fate[r] \in {"written", "unknown"} \cup Accounted!Lost
    \/ r \in said

\* No record is dropped between the act and its fate: the part of
\* RecordSettles that needs no fairness (_defer_record, submit, close).
THEOREM NoRecordDropped == Spec => []RecordIsSomewhere
<1>1. Inv => RecordIsSomewhere
  <2> SUFFICES ASSUME Inv, NEW r \in Records, future[r[1]] = "set"
               PROVE  \/ Scheduled(Handing(r))
                      \/ Queued(r) /\ task # "none"
                      \/ fate[r] \in {"written", "unknown"} \cup Accounted!Lost
                      \/ r \in said
    BY DEF RecordIsSomewhere
  <2>1. Scheduled(Handing(r)) \/ fate[r] # "none" \/ r \in said
    BY DEF Inv, DispatcherInv, HandedOver
  <2>2. fate[r] = "waiting" => Queued(r)
    BY DEF Inv, WriterInv, WaitingIsQueued
  <2>3. Queued(r) => task # "none"
    BY DEF Inv, WriterInv, TaskIsForQueue, Queued
  <2>4. fate[r] \in {"none", "waiting", "written", "unknown"} \cup Accounted!Lost
    BY DEF Inv, TypeOK, Accounted!Fates, Accounted!Lost
  <2> QED BY <2>1, <2>2, <2>3, <2>4
<1> QED BY <1>1, Invariance, PTL
=============================================================================
