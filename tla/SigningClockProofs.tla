------------------------ MODULE SigningClockProofs ------------------------
(***************************************************************************)
(* Proofs about SigningClock, for any number of clocks, any reservation,   *)
(* low water and ceiling, and any movement of the wall clock.              *)
(***************************************************************************)
EXTENDS SigningClock, SequenceTheorems, TLAPS

-----------------------------------------------------------------------------
(* The inductive invariant *)

\* Clock c may yet issue v: it lies in a range c has claimed.
Owns(c, v) ==
  \/ \E i \in DOMAIN ranges[c] : ranges[c][i].low <= v /\ v <= ranges[c][i].high
  \/ phase[c] = "holding" /\ claimed[c].low <= v /\ v <= claimed[c].high

\* No claim is empty.
ClaimsProper ==
  \A c \in Clocks :
    /\ \A i \in DOMAIN ranges[c] : ranges[c][i].low <= ranges[c][i].high
    /\ phase[c] = "holding" => claimed[c].low <= claimed[c].high

\* The stored mark is at or past whatever has been claimed or issued.
MarkCovers ==
  /\ \A v \in issued : v <= mark
  /\ \A c \in Clocks : last[c] <= mark
  /\ \A c \in Clocks : \A v \in Nat : Owns(c, v) => v <= mark

\* No value is claimed by two clocks.
ClaimsDisjoint ==
  \A c, d \in Clocks : \A v \in Nat : Owns(c, v) /\ Owns(d, v) => c = d

\* Of what a clock has claimed, only values up to its last one are issued.
SpentBehindLast ==
  \A c \in Clocks : \A v \in issued : Owns(c, v) => v <= last[c]

\* What a claim under way may reach.
WantedSound ==
  \A c \in Clocks : phase[c] = "claiming" =>
    /\ Reservation <= wanted[c]
    /\ wanted[c] <= peak + Reservation \/ wanted[c] <= mark + 2 * LowWater

PeakSound == wall <= peak

IInv ==
  /\ TypeOK
  /\ ClaimsProper
  /\ MarkCovers
  /\ ClaimsDisjoint
  /\ SpentBehindLast
  /\ WantedSound
  /\ PeakSound
  /\ LeadBounded

-----------------------------------------------------------------------------
(* Helpers *)

\* The low water is at most half a reservation (__init__).
LEMMA LowWaterFacts == LowWater \in Nat /\ 2 * LowWater <= Reservation
  BY ReservationAssumption, BoundsAssumption DEF LowWater, Smaller

\* It is not zero, as a reservation is at least two.
LEMMA LowWaterPositive == 0 < LowWater
  BY ReservationAssumption, BoundsAssumption DEF LowWater, Smaller

\* Dropping spent ranges keeps the others as they were (issue).
LEMMA DropSpent ==
  ASSUME NEW s \in Seq(ClaimedRange), NEW i \in DOMAIN s
  PROVE  /\ SubSeq(s, i, Len(s)) \in Seq(ClaimedRange)
         /\ \A k \in DOMAIN SubSeq(s, i, Len(s)) :
              \E j \in DOMAIN s : SubSeq(s, i, Len(s))[k] = s[j]
<1>1. i \in 1 .. Len(s) /\ Len(s) \in Nat
  BY LenProperties
<1>2. SubSeq(s, i, Len(s)) \in Seq(ClaimedRange)
  BY <1>1, SMT
<1>3. ASSUME NEW k \in DOMAIN SubSeq(s, i, Len(s))
      PROVE  \E j \in DOMAIN s : SubSeq(s, i, Len(s))[k] = s[j]
  BY <1>1, <1>3, SMT
<1> QED BY <1>2, <1>3

-----------------------------------------------------------------------------
(* Steps *)

\* A step that claims and issues nothing keeps what is known of claims, even
\* when a clock forgets what it has claimed.
LEMMA NothingClaimed ==
  ASSUME IInv, issued' = issued, mark' = mark,
         \A c \in Clocks : \A v \in Nat : Owns(c, v)' => Owns(c, v),
         \A c \in Clocks :
           \/ last'[c] = last[c]
           \/ last'[c] = None /\ \A v \in Nat : ~ Owns(c, v)'
  PROVE  MarkCovers' /\ ClaimsDisjoint' /\ SpentBehindLast'
<1> USE DEF IInv
<1>0. issued \subseteq Nat /\ mark \in Int /\ None <= mark
  BY BoundsAssumption DEF TypeOK, None
<1>1. MarkCovers'
  BY <1>0 DEF MarkCovers
<1>2. ClaimsDisjoint'
  BY DEF ClaimsDisjoint
<1>3. SpentBehindLast'
  BY <1>0 DEF SpentBehindLast
<1> QED BY <1>1, <1>2, <1>3

\* issue() from a live range: the value is claimed by this clock alone and is
\* past its last one, so nobody has issued it.
LEMMA IssuedIsFresh ==
  ASSUME IInv, NEW c \in Clocks, NEW i \in DOMAIN ranges[c], FirstLive(c, i)
  PROVE  /\ Yield(c, i) \in Nat
         /\ Owns(c, Yield(c, i))
         /\ last[c] < Yield(c, i)
         /\ Yield(c, i) \notin issued
<1> USE DEF IInv
<1>1. /\ ranges[c][i] \in ClaimedRange /\ last[c] \in Nat \cup {None} /\ wall \in Nat
  BY BoundsAssumption DEF TypeOK
<1>2. Yield(c, i) \in Nat /\ last[c] < Yield(c, i)
  BY <1>1 DEF Yield, NextValue, Larger, ClaimedRange, None
<1>3. Owns(c, Yield(c, i))
  <2>1. ranges[c][i].low <= Yield(c, i) /\ Yield(c, i) <= ranges[c][i].high
    BY <1>1 DEF Yield, NextValue, Larger, ClaimedRange, None, FirstLive, ClaimsProper
  <2> QED BY <2>1 DEF Owns
<1>4. Yield(c, i) \notin issued
  BY <1>1, <1>2, <1>3 DEF SpentBehindLast, None
<1> QED BY <1>2, <1>3, <1>4

\* The writer's decision, a claim that is refused, the thread's life and the
\* wall clock leave every claim where it is.
LEMMA ClaimsStay ==
  ASSUME IInv, UNCHANGED <<mark, last, ranges, claimed, issued>>,
         \A c \in Clocks : phase'[c] = "holding" => phase[c] = "holding"
  PROVE  ClaimsProper' /\ MarkCovers' /\ ClaimsDisjoint' /\ SpentBehindLast'
<1>1. ClaimsProper'
  BY DEF IInv, ClaimsProper
<1>2. \A c \in Clocks : \A v \in Nat : Owns(c, v)' => Owns(c, v)
  BY DEF Owns
<1>3. MarkCovers' /\ ClaimsDisjoint' /\ SpentBehindLast'
  BY <1>2, NothingClaimed
<1> QED BY <1>1, <1>3

\* issue() moves last past the value it has issued, and forgets spent ranges.
LEMMA IssueStep == ASSUME IInv, NEW c \in Clocks, Issue(c) PROVE IInv'
<1> USE DEF IInv
<1>0. /\ ranges \in [Clocks -> Seq(ClaimedRange)] /\ ranges[c] \in Seq(ClaimedRange)
      /\ last \in [Clocks -> Nat \cup {None}] /\ issued \subseteq Nat
  BY DEF TypeOK
<1>1. UNCHANGED <<wall, mark, phase, stopped, wanted, claimed, peak>>
  BY DEF Issue
<1>2. WantedSound' /\ PeakSound' /\ LeadBounded'
  BY <1>1 DEF WantedSound, PeakSound, LeadBounded
<1>3. CASE IssueRefused(c)
  <2>1. ranges' = [ranges EXCEPT ![c] = <<>>] /\ last' = last /\ issued' = issued
    BY <1>3 DEF IssueRefused
  <2>2. <<>> \in Seq(ClaimedRange) /\ DOMAIN <<>> = {}
    OBVIOUS
  <2>3. TypeOK' /\ ClaimsProper'
    BY <1>1, <2>1, <2>2 DEF TypeOK, ClaimsProper
  <2>4. \A d \in Clocks : \A v \in Nat : Owns(d, v)' => Owns(d, v)
    BY <1>0, <1>1, <2>1, <2>2 DEF Owns
  <2>5. MarkCovers' /\ ClaimsDisjoint' /\ SpentBehindLast'
    BY <1>1, <2>1, <2>4, NothingClaimed
  <2> QED BY <1>2, <2>3, <2>5
<1>4. CASE \E i \in DOMAIN ranges[c] : FirstLive(c, i) /\ IssueFrom(c, i)
  <2>1. PICK i \in DOMAIN ranges[c] : FirstLive(c, i) /\ IssueFrom(c, i)
    BY <1>4
  <2> DEFINE rest == SubSeq(ranges[c], i, Len(ranges[c]))
  <2>2. ranges' = [ranges EXCEPT ![c] = rest]
    BY <2>1 DEF IssueFrom
  <2>3. /\ rest \in Seq(ClaimedRange)
        /\ \A k \in DOMAIN rest : \E j \in DOMAIN ranges[c] : rest[k] = ranges[c][j]
    BY <1>0, DropSpent
  <2> HIDE DEF rest
  <2>4. /\ Yield(c, i) \in Nat /\ Owns(c, Yield(c, i))
        /\ last[c] < Yield(c, i) /\ Yield(c, i) \notin issued
    BY <2>1, IssuedIsFresh
  <2>5. \/ last' = last /\ issued' = issued
        \/ /\ last' = [last EXCEPT ![c] = Yield(c, i)]
           /\ issued' = issued \cup {Yield(c, i)}
    BY <2>1 DEF IssueFrom
  <2>6. TypeOK'
    BY <1>1, <2>2, <2>3, <2>4, <2>5 DEF TypeOK
  <2>7. ClaimsProper'
    BY <1>0, <1>1, <2>2, <2>3 DEF ClaimsProper
  <2>8. \A d \in Clocks : \A v \in Nat : Owns(d, v)' => Owns(d, v)
    BY <1>0, <1>1, <2>2, <2>3 DEF Owns
  <2>9. ClaimsDisjoint'
    BY <2>8 DEF ClaimsDisjoint
  <2>10. MarkCovers'
    BY <1>0, <1>1, <2>4, <2>5, <2>8 DEF MarkCovers
  <2>11. SpentBehindLast'
    <3> SUFFICES ASSUME NEW d \in Clocks, NEW v \in issued', Owns(d, v)'
                 PROVE  v <= last'[d]
      BY DEF SpentBehindLast
    <3>1. v \in Nat /\ Owns(d, v)
      BY <1>0, <2>4, <2>5, <2>8
    <3>2. CASE v = Yield(c, i) /\ v \in issued' /\ v \notin issued
      <4>1. d = c
        BY <2>4, <3>1, <3>2 DEF ClaimsDisjoint
      <4> QED BY <1>0, <2>5, <3>1, <3>2, <4>1
    <3>3. CASE v \in issued
      <4>1. v <= last[d] /\ last[d] \in Nat \cup {None} /\ last[c] \in Nat \cup {None}
        BY <1>0, <3>1, <3>3 DEF SpentBehindLast
      <4>2. last'[d] = last[d] \/ (d = c /\ last'[d] = Yield(c, i))
        BY <1>0, <2>5
      <4>3. CASE last'[d] = last[d]
        BY <4>1, <4>3
      <4>4. CASE d = c /\ last'[d] = Yield(c, i)
        BY <2>4, <3>1, <4>1, <4>4 DEF None
      <4> QED BY <4>2, <4>3, <4>4
    <3> QED BY <2>4, <2>5, <3>2, <3>3
  <2> QED BY <1>2, <2>6, <2>7, <2>9, <2>10, <2>11
<1> QED BY <1>3, <1>4 DEF Issue

\* A claim takes only values past the stored mark, and raises it past them.
LEMMA ClaimStep == ASSUME IInv, NEW c \in Clocks, Claim(c) PROVE IInv'
<1> USE DEF IInv
<1> USE ReservationAssumption, BoundsAssumption, LowWaterFacts
<1>0. /\ phase[c] = "claiming" /\ Claimable(c)
      /\ phase' = [phase EXCEPT ![c] = "holding"]
      /\ claimed' = [claimed EXCEPT ![c] = [low |-> Low(c), high |-> High(c)]]
      /\ mark' = Larger(mark, High(c))
      /\ UNCHANGED <<wall, last, ranges, stopped, wanted, issued, peak>>
  BY DEF Claim
<1>1. /\ mark \in (0 .. MarkCeiling) \cup {None} /\ wall \in Nat /\ peak \in Nat
      /\ wanted[c] \in Nat /\ Reservation <= wanted[c] /\ wall <= peak
      /\ phase \in [Clocks -> Phases] /\ claimed \in [Clocks -> ClaimedRange]
      /\ issued \subseteq Nat /\ last \in [Clocks -> Nat \cup {None}]
      /\ ranges \in [Clocks -> Seq(ClaimedRange)]
  BY <1>0 DEF TypeOK, WantedSound, PeakSound
\* The claim starts past the mark and ends under the ceiling.
<1>2. Low(c) \in Nat /\ mark < Low(c)
  BY <1>1 DEF Low, None
<1>3. High(c) \in Nat /\ High(c) <= MarkCeiling /\ Low(c) <= High(c)
  BY <1>0, <1>1, <1>2 DEF High, Larger, Smaller, Claimable
<1>4. mark' = High(c)
  BY <1>0, <1>1, <1>2, <1>3 DEF Larger, None
<1>5. TypeOK'
  <2>1. [low |-> Low(c), high |-> High(c)] \in ClaimedRange
    BY <1>2, <1>3 DEF ClaimedRange
  <2> QED BY <1>0, <1>3, <1>4, <2>1 DEF TypeOK, Phases
<1>6. ClaimsProper'
  BY <1>0, <1>1, <1>3 DEF ClaimsProper
<1>7. \A d \in Clocks : \A v \in Nat :
        Owns(d, v)' => Owns(d, v) \/ (d = c /\ Low(c) <= v /\ v <= High(c))
  BY <1>0, <1>1 DEF Owns
<1>8. \A d \in Clocks : \A v \in Nat : Owns(d, v) => v < Low(c)
  BY <1>1, <1>2 DEF MarkCovers, None
<1>9. \A v \in issued : v < Low(c)
  BY <1>1, <1>2 DEF MarkCovers, None
<1>10. MarkCovers'
  <2>1. \A v \in issued' : v <= mark'
    BY <1>0, <1>1, <1>2, <1>3, <1>4, <1>9
  <2>2. \A d \in Clocks : last'[d] <= mark'
    <3>1. \A d \in Clocks : last[d] \in Int /\ last[d] <= mark
      BY DEF MarkCovers, TypeOK, None
    <3>2. mark \in Int /\ mark <= mark' /\ mark' \in Int
      BY <1>1, <1>2, <1>3, <1>4 DEF None
    <3> QED BY <1>0, <3>1, <3>2
  <2>3. \A d \in Clocks : \A v \in Nat : Owns(d, v)' => v <= mark'
    BY <1>2, <1>3, <1>4, <1>7, <1>8
  <2> QED BY <2>1, <2>2, <2>3 DEF MarkCovers
<1>11. ClaimsDisjoint'
  <2> SUFFICES ASSUME NEW d \in Clocks, NEW e \in Clocks, NEW v \in Nat,
                      Owns(d, v)', Owns(e, v)'
               PROVE  d = e
    BY DEF ClaimsDisjoint
  <2>1. CASE Owns(d, v) /\ Owns(e, v)
    BY <2>1 DEF ClaimsDisjoint
  <2>2. CASE ~ (Owns(d, v) /\ Owns(e, v))
    <3>1. Low(c) <= v
      BY <1>7, <2>2
    <3>2. ~ Owns(d, v) /\ ~ Owns(e, v)
      BY <1>2, <1>8, <3>1
    <3> QED BY <1>7, <3>2
  <2> QED BY <2>1, <2>2
<1>12. SpentBehindLast'
  <2> SUFFICES ASSUME NEW d \in Clocks, NEW v \in issued', Owns(d, v)'
               PROVE  v <= last'[d]
    BY DEF SpentBehindLast
  <2>1. v \in issued /\ v \in Nat /\ v < Low(c)
    BY <1>0, <1>1, <1>9
  <2>2. Owns(d, v)
    BY <1>2, <1>7, <2>1
  <2> QED BY <1>0, <2>1, <2>2 DEF SpentBehindLast
<1>13. WantedSound'
  <2> SUFFICES ASSUME NEW d \in Clocks, phase'[d] = "claiming"
               PROVE  /\ Reservation <= wanted[d]
                      /\ wanted[d] <= peak + Reservation \/ wanted[d] <= mark' + 2 * LowWater
    BY <1>0 DEF WantedSound, LowWater, Smaller
  <2>1. phase[d] = "claiming" /\ wanted[d] \in Nat
    BY <1>0, <1>1 DEF TypeOK
  <2>2. /\ Reservation <= wanted[d]
        /\ wanted[d] <= peak + Reservation \/ wanted[d] <= mark + 2 * LowWater
    BY <2>1 DEF WantedSound
  <2> QED BY <1>1, <1>2, <1>3, <1>4, <2>1, <2>2 DEF None
\* A claim made past a mark that is ahead reaches a short step past it, and
\* starts no more than a reservation ahead of the wall clock.
<1>14. LeadBounded'
  <2>1. Low(c) <= wall + Reservation
    BY <1>0, <1>1, <1>2 DEF Claimable, TooFarAhead
  <2>2. wanted[c] <= peak + Reservation \/ wanted[c] <= mark + 2 * LowWater
    BY <1>0 DEF WantedSound
  <2>3. wanted[c] < peak + Reservation + 2 * LowWater
    BY <1>1, <1>2, <2>1, <2>2, LowWaterPositive DEF None
  <2>4. High(c) < peak + Reservation + 2 * LowWater
    BY <1>1, <1>2, <2>1, <2>3, LowWaterPositive DEF High, Larger, Smaller
  <2>5. mark' < peak + Reservation + 2 * LowWater
    BY <1>4, <2>4
  <2> QED BY <1>0, <2>5 DEF LeadBounded, LowWater, Smaller
<1>15. PeakSound'
  BY <1>0 DEF PeakSound
<1> QED BY <1>5, <1>6, <1>10, <1>11, <1>12, <1>13, <1>14, <1>15

\* The claimed range joins the others: nothing is newly claimed.
LEMMA KeepStep == ASSUME IInv, NEW c \in Clocks, Keep(c) PROVE IInv'
<1> USE DEF IInv
<1>0. /\ phase[c] = "holding" /\ phase' = [phase EXCEPT ![c] = "serving"]
      /\ ranges' = [ranges EXCEPT ![c] = Append(@, claimed[c])]
      /\ UNCHANGED <<wall, mark, last, stopped, wanted, claimed, issued, peak>>
  BY DEF Keep
<1>1. /\ ranges \in [Clocks -> Seq(ClaimedRange)] /\ ranges[c] \in Seq(ClaimedRange)
      /\ claimed[c] \in ClaimedRange /\ phase \in [Clocks -> Phases]
  BY DEF TypeOK
<1> DEFINE grown == Append(ranges[c], claimed[c])
<1>2. /\ grown \in Seq(ClaimedRange)
      /\ \A k \in DOMAIN grown :
           grown[k] = claimed[c] \/ \E j \in DOMAIN ranges[c] : grown[k] = ranges[c][j]
  BY <1>1
<1>3. ranges' = [ranges EXCEPT ![c] = grown]
  BY <1>0
<1> HIDE DEF grown
<1>4. TypeOK'
  BY <1>0, <1>1, <1>2, <1>3 DEF TypeOK, Phases
<1>5. ClaimsProper'
  BY <1>0, <1>1, <1>2, <1>3 DEF ClaimsProper
<1>6. \A d \in Clocks : \A v \in Nat : Owns(d, v)' => Owns(d, v)
  BY <1>0, <1>1, <1>2, <1>3 DEF Owns
<1>7. MarkCovers' /\ ClaimsDisjoint' /\ SpentBehindLast'
  BY <1>0, <1>6, NothingClaimed
<1>8. WantedSound' /\ PeakSound' /\ LeadBounded'
  BY <1>0, <1>1 DEF WantedSound, PeakSound, LeadBounded
<1> QED BY <1>4, <1>5, <1>7, <1>8

\* A crash forgets what the clock has claimed; the mark stays past it.
LEMMA CrashStep == ASSUME IInv, NEW c \in Clocks, Crash(c) PROVE IInv'
<1> USE DEF IInv
<1>0. /\ phase' = [phase EXCEPT ![c] = "off"] /\ last' = [last EXCEPT ![c] = None]
      /\ ranges' = [ranges EXCEPT ![c] = <<>>] /\ stopped' = [stopped EXCEPT ![c] = FALSE]
      /\ wanted' = [wanted EXCEPT ![c] = 0] /\ claimed' = [claimed EXCEPT ![c] = NoRange]
      /\ UNCHANGED <<wall, mark, issued, peak>>
  BY DEF Crash
<1>1. <<>> \in Seq(ClaimedRange) /\ DOMAIN <<>> = {} /\ NoRange \in ClaimedRange
  BY DEF NoRange, ClaimedRange
<1>2. TypeOK'
  BY <1>0, <1>1 DEF TypeOK, Phases
<1>3. ClaimsProper' /\ WantedSound' /\ PeakSound' /\ LeadBounded'
  BY <1>0, <1>1 DEF TypeOK, ClaimsProper, WantedSound, PeakSound, LeadBounded
<1>4. \A v \in Nat : ~ Owns(c, v)'
  BY <1>0, <1>1 DEF TypeOK, Owns
<1>5. \A d \in Clocks : \A v \in Nat : Owns(d, v)' => Owns(d, v)
  BY <1>0, <1>4 DEF TypeOK, Owns
<1>6. \A d \in Clocks :
        \/ last'[d] = last[d]
        \/ last'[d] = None /\ \A v \in Nat : ~ Owns(d, v)'
  BY <1>0, <1>4 DEF TypeOK
<1>7. MarkCovers' /\ ClaimsDisjoint' /\ SpentBehindLast'
  BY <1>0, <1>5, <1>6, NothingClaimed
<1> QED BY <1>2, <1>3, <1>7

\* The writer decides on a mark a reservation ahead of the wall clock, or a
\* short step past a value that is itself under the stored mark.
LEMMA WantStep == ASSUME IInv, NEW c \in Clocks, Want(c) PROVE IInv'
<1> USE DEF IInv
<1> USE ReservationAssumption, BoundsAssumption, LowWaterFacts
<1>0. /\ phase' = [phase EXCEPT ![c] = "claiming"]
      /\ wanted' = [wanted EXCEPT ![c] = WantedMark(c)]
      /\ UNCHANGED <<wall, mark, last, ranges, stopped, claimed, issued, peak>>
  BY DEF Want
<1>1. /\ wall \in Nat /\ peak \in Nat /\ wall <= peak /\ mark \in Int
      /\ last[c] \in Nat \cup {None} /\ last[c] <= mark
      /\ phase \in [Clocks -> Phases] /\ wanted \in [Clocks -> Nat]
  BY DEF TypeOK, PeakSound, MarkCovers, None
<1>2. /\ WantedMark(c) \in Nat /\ Reservation <= WantedMark(c)
      /\ \/ WantedMark(c) <= peak + Reservation
         \/ WantedMark(c) <= mark + 2 * LowWater
  <2> HIDE DEF LowWater
  <2> QED BY <1>1 DEF WantedMark, Larger, Smaller, None
<1>3. TypeOK'
  BY <1>0, <1>2 DEF TypeOK, Phases
<1>4. ClaimsProper' /\ MarkCovers' /\ ClaimsDisjoint' /\ SpentBehindLast'
  BY <1>0, <1>1, ClaimsStay
<1>5. WantedSound'
  BY <1>0, <1>1, <1>2 DEF WantedSound, LowWater, Smaller
<1>6. PeakSound' /\ LeadBounded'
  BY <1>0 DEF PeakSound, LeadBounded
<1> QED BY <1>3, <1>4, <1>5, <1>6

\* The steps that only move a thread along.
LEMMA ThreadStep ==
  ASSUME IInv, NEW c \in Clocks,
         Open(c) \/ ClaimFails(c) \/ ThreadEnds(c) \/ Start(c) \/ Stop(c)
  PROVE  IInv'
<1> USE DEF IInv
<1>0. /\ \/ phase' = phase
         \/ \E x \in Phases \ {"claiming", "holding"} : phase' = [phase EXCEPT ![c] = x]
      /\ stopped' = stopped \/ stopped' = [stopped EXCEPT ![c] = TRUE]
      /\ UNCHANGED <<wall, mark, last, ranges, wanted, claimed, issued, peak>>
  BY DEF Open, ClaimFails, ThreadEnds, Start, Stop, Phases
<1>1. phase \in [Clocks -> Phases]
  BY DEF TypeOK
<1>2. TypeOK'
  BY <1>0 DEF TypeOK
<1>3. ClaimsProper' /\ MarkCovers' /\ ClaimsDisjoint' /\ SpentBehindLast'
  BY <1>0, <1>1, ClaimsStay
<1>4. WantedSound' /\ PeakSound' /\ LeadBounded'
  BY <1>0, <1>1 DEF WantedSound, PeakSound, LeadBounded
<1> QED BY <1>2, <1>3, <1>4

\* The wall clock moves claims and values nowhere, and the peak only up.
LEMMA WallStep == ASSUME IInv, NEW w \in Times, WallMoves(w) PROVE IInv'
<1> USE DEF IInv
<1> USE ReservationAssumption, BoundsAssumption, LowWaterFacts
<1>0. /\ wall' = w /\ peak' = Larger(peak, w)
      /\ UNCHANGED <<mark, last, ranges, phase, stopped, wanted, claimed, issued>>
  BY DEF WallMoves
<1>1. peak \in Times /\ mark \in Int /\ wanted \in [Clocks -> Nat]
  BY DEF TypeOK, None
<1>2. peak' \in Times /\ peak <= peak' /\ wall' <= peak'
  BY <1>0, <1>1 DEF Larger
<1>3. TypeOK'
  BY <1>0, <1>2 DEF TypeOK
<1>4. ClaimsProper' /\ MarkCovers' /\ ClaimsDisjoint' /\ SpentBehindLast'
  BY <1>0, ClaimsStay
<1>5. WantedSound'
  BY <1>0, <1>1, <1>2 DEF WantedSound, LowWater, Smaller
<1>6. PeakSound' /\ LeadBounded'
  BY <1>0, <1>1, <1>2 DEF PeakSound, LeadBounded, LowWater, Smaller
<1> QED BY <1>3, <1>4, <1>5, <1>6

-----------------------------------------------------------------------------
(* Theorems *)

\* Every reachable state satisfies the inductive invariant.
THEOREM Inductive == Spec => []IInv
<1>1. Init => IInv
  <2> SUFFICES ASSUME Init PROVE IInv
    OBVIOUS
  <2>1. /\ <<>> \in Seq(ClaimedRange) /\ DOMAIN <<>> = {} /\ NoRange \in ClaimedRange
    BY DEF NoRange, ClaimedRange
  <2>2. TypeOK
    BY <2>1, BoundsAssumption DEF Init, TypeOK, Phases
  <2>3. \A c \in Clocks : \A v \in Nat : ~ Owns(c, v)
    BY <2>1 DEF Init, Owns
  <2>4. MarkCovers /\ ClaimsDisjoint /\ SpentBehindLast
    BY <2>3 DEF Init, MarkCovers, ClaimsDisjoint, SpentBehindLast, None
  <2>5. ClaimsProper /\ WantedSound
    BY <2>1 DEF Init, ClaimsProper, WantedSound
  <2>6. PeakSound /\ LeadBounded
    BY BoundsAssumption, ReservationAssumption, LowWaterFacts
       DEF Init, PeakSound, LeadBounded, None
  <2> QED BY <2>2, <2>4, <2>5, <2>6 DEF IInv
<1>2. IInv /\ [Next]_vars => IInv'
  <2> SUFFICES ASSUME IInv, [Next]_vars PROVE IInv'
    OBVIOUS
  <2>1. CASE UNCHANGED vars
    <3>1. ClaimsProper' /\ MarkCovers' /\ ClaimsDisjoint' /\ SpentBehindLast'
      BY <2>1, ClaimsStay DEF vars
    <3>2. TypeOK' /\ WantedSound' /\ PeakSound' /\ LeadBounded'
      BY <2>1 DEF vars, IInv, TypeOK, WantedSound, PeakSound, LeadBounded
    <3> QED BY <3>1, <3>2 DEF IInv
  <2>2. ASSUME NEW w \in Times, WallMoves(w) PROVE IInv'
    BY <2>2, WallStep
  <2>3. ASSUME NEW c \in Clocks,
               Start(c) \/ Issue(c) \/ Writer(c) \/ Stop(c) \/ Crash(c)
        PROVE  IInv'
    <3>1. CASE Issue(c)
      BY <3>1, IssueStep
    <3>2. CASE Want(c)
      BY <3>2, WantStep
    <3>3. CASE Claim(c)
      BY <3>3, ClaimStep
    <3>4. CASE Keep(c)
      BY <3>4, KeepStep
    <3>5. CASE Crash(c)
      BY <3>5, CrashStep
    <3>6. CASE Open(c) \/ ClaimFails(c) \/ ThreadEnds(c) \/ Start(c) \/ Stop(c)
      BY <3>6, ThreadStep
    <3> QED BY <2>3, <3>1, <3>2, <3>3, <3>4, <3>5, <3>6 DEF Writer
  <2> QED BY <2>1, <2>2, <2>3 DEF Next
<1> QED BY <1>1, <1>2, PTL DEF Spec

\* Every reachable state is well typed; the stored mark stays under the
\* ceiling of its column (_claim).
THEOREM TypeCorrect == Spec => []TypeOK
<1>1. IInv => TypeOK
  BY DEF IInv
<1> QED BY Inductive, <1>1, PTL

\* The stored mark stays within a reservation and twice the low water of the
\* latest time the wall clock has read, however often clocks start (_claim).
THEOREM RestartsAddNoLead == Spec => []LeadBounded
<1>1. IInv => LeadBounded
  BY DEF IInv
<1> QED BY Inductive, <1>1, PTL

\* No signing time is ever issued twice, by any of the clocks on a store,
\* through crashes and restarts and any step of the wall clock (issue).
THEOREM SigningTimesFresh == Spec => NeverRepeats
<1> DEFINE Fresh == \A c \in Clocks :
             last'[c] # last[c] /\ last'[c] # None => last'[c] \notin issued
<1>1. IInv /\ [Next]_vars => [Fresh]_vars
  <2> SUFFICES ASSUME IInv, Next, NEW d \in Clocks, last'[d] # last[d], last'[d] # None
               PROVE  last'[d] \notin issued
    BY DEF vars
  <2>1. last \in [Clocks -> Nat \cup {None}]
    BY DEF IInv, TypeOK
  <2>2. ASSUME NEW c \in Clocks, Issue(c) PROVE last'[d] \notin issued
    <3>1. CASE IssueRefused(c)
      BY <3>1 DEF IssueRefused
    <3>2. CASE \E i \in DOMAIN ranges[c] : FirstLive(c, i) /\ IssueFrom(c, i)
      <4>1. PICK i \in DOMAIN ranges[c] : FirstLive(c, i) /\ IssueFrom(c, i)
        BY <3>2
      <4>2. Yield(c, i) \notin issued
        BY <4>1, IssuedIsFresh
      <4>3. last' = last \/ last' = [last EXCEPT ![c] = Yield(c, i)]
        BY <4>1 DEF IssueFrom
      <4> QED BY <2>1, <4>2, <4>3
    <3> QED BY <2>2, <3>1, <3>2 DEF Issue
  <2>3. ASSUME NEW c \in Clocks, Crash(c) PROVE last'[d] \notin issued
    BY <2>1, <2>3 DEF Crash
  <2>4. CASE \E c \in Clocks : Issue(c) \/ Crash(c)
    BY <2>2, <2>3, <2>4
  <2>5. CASE \/ \E w \in Times : WallMoves(w)
             \/ \E c \in Clocks : Start(c) \/ Writer(c) \/ Stop(c)
    BY <2>5 DEF WallMoves, Start, Writer, Stop, Open, Want, Claim, ClaimFails, Keep, ThreadEnds
  <2> QED BY <2>4, <2>5 DEF Next
<1>2. IInv /\ [Next]_vars => [\A c \in Clocks :
         last'[c] # last[c] /\ last'[c] # None => last'[c] \notin issued]_vars
  BY <1>1
<1> QED BY Inductive, <1>2, PTL DEF Spec, NeverRepeats
=============================================================================
