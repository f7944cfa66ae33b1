---------------------------- MODULE SigningClock ----------------------------
(***************************************************************************)
(* The signing clock of runtime-gateway envelopes                          *)
(* (ori/security/signing_clock.py): several clocks, of one process or of   *)
(* processes one after another, issue signing times from ranges they have  *)
(* claimed in one state store, over a wall clock that may step either way. *)
(*                                                                         *)
(* issue() runs under the clock's lock, so it is one step; the writer      *)
(* thread decides under the lock what to claim, claims it in one immediate *)
(* transaction without the lock, and takes the lock again to keep the      *)
(* range.  Its waits and wake-ups only pace it.  A clock without a durable *)
(* store is for tests and tools and is left out.                           *)
(***************************************************************************)
EXTENDS Integers, Sequences

CONSTANTS
  Clocks,       \* SigningClock instances on the store
  Reservation,  \* _reservation_ms
  LowWaterMs,   \* _LOW_WATER_MS
  MarkCeiling,  \* MARK_CEILING
  Times         \* bound: the times the wall clock reads

ASSUME ReservationAssumption == Reservation \in Nat /\ Reservation >= 2
ASSUME BoundsAssumption ==
  /\ LowWaterMs \in Nat \ {0} /\ Times \subseteq Nat
  /\ MarkCeiling \in Nat /\ MarkCeiling >= Reservation

VARIABLES
  wall,     \* what the wall clock reads
  mark,     \* gateway_signing_clock.mark_ms, or None without a row
  last,     \* _last of each clock
  ranges,   \* _ranges of each clock
  phase,    \* where the writer thread of each clock is
  stopped,  \* _stopped
  wanted,   \* the mark its writer has decided to claim to
  claimed,  \* the range it has claimed and not yet kept
  issued,   \* every signing time ever issued
  peak      \* the latest time the wall clock has read

vars == <<wall, mark, last, ranges, phase, stopped, wanted, claimed, issued, peak>>

\* Below every time, so that the value after it is no later than any of them.
None == -1

Larger(a, b)  == IF a < b THEN b ELSE a
Smaller(a, b) == IF a < b THEN a ELSE b

LowWater == Smaller(LowWaterMs, Reservation \div 2)

ClaimedRange == [low : Nat, high : Nat]
NoRange == [low |-> 0, high |-> 0]

\* off: no such clock; opening: no connection yet; serving: between claims;
\* claiming: wanted is decided; holding: the claim is committed; ended: the
\* thread has returned.
Phases == {"off", "opening", "serving", "claiming", "holding", "ended"}

-----------------------------------------------------------------------------
(* Signing: issue *)

\* The next signing time as far as the clocks say.
NextValue(c) == Larger(wall, last[c] + 1)

\* The first range that is not spent: those before it are dropped.
FirstLive(c, i) ==
  /\ NextValue(c) <= ranges[c][i].high
  /\ \A j \in DOMAIN ranges[c] : j < i => ranges[c][j].high < NextValue(c)

\* What a live range yields, and whether that is a reservation ahead at most.
Yield(c, i) == Larger(NextValue(c), ranges[c][i].low)
InReach(v) == v <= wall + Reservation

IssueFrom(c, i) ==
  /\ ranges' = [ranges EXCEPT ![c] = SubSeq(@, i, Len(@))]
  /\ IF InReach(Yield(c, i))
       THEN /\ last' = [last EXCEPT ![c] = Yield(c, i)]
            /\ issued' = issued \cup {Yield(c, i)}
       ELSE UNCHANGED <<last, issued>>

\* Nothing claimed is left: refused, without waiting for the store.
IssueRefused(c) ==
  /\ \A i \in DOMAIN ranges[c] : ranges[c][i].high < NextValue(c)
  /\ ranges' = [ranges EXCEPT ![c] = <<>>]
  /\ UNCHANGED <<last, issued>>

Issue(c) ==
  /\ phase[c] # "off"
  /\ \/ \E i \in DOMAIN ranges[c] : FirstLive(c, i) /\ IssueFrom(c, i)
     \/ IssueRefused(c)
  /\ UNCHANGED <<wall, mark, phase, stopped, wanted, claimed, peak>>

-----------------------------------------------------------------------------
(* Claiming: the writer thread, _serve *)

ClaimedTo(c) == ranges[c][Len(ranges[c])].high

\* Mutant: only values issued use a range up, as if an idle clock stood still.
RunsLowSinceIssue(c) ==
  ranges[c] # <<>> => ClaimedTo(c) - last[c] < LowWater

\* Less than the low water is left ahead of the wall clock and of the latest
\* value issued.
RunsLow(c) ==
  ranges[c] # <<>> => ClaimedTo(c) - Larger(wall, last[c]) < LowWater

\* _wanted_mark
WantedMark(c) ==
  Smaller(IF last[c] = None THEN wall + Reservation
            ELSE Larger(wall + Reservation, last[c] + 2 * LowWater), MarkCeiling)

\* An _open that fails is tried again.
Open(c) ==
  /\ phase[c] = "opening" /\ ~stopped[c]
  /\ phase' = [phase EXCEPT ![c] = "serving"]
  /\ UNCHANGED <<wall, mark, last, ranges, stopped, wanted, claimed, issued, peak>>

Want(c) ==
  /\ phase[c] = "serving" /\ ~stopped[c] /\ RunsLow(c)
  /\ phase' = [phase EXCEPT ![c] = "claiming"]
  /\ wanted' = [wanted EXCEPT ![c] = WantedMark(c)]
  /\ UNCHANGED <<wall, mark, last, ranges, stopped, claimed, issued, peak>>

\* Mutant: a claim starts at the stored mark itself.
LowAtMark(c) == IF mark = None THEN wanted[c] - Reservation ELSE mark

\* Mutant: the first range reaches back one value more than a reservation.
LowOneEarly(c) == IF mark = None THEN wanted[c] - Reservation - 1 ELSE mark + 1

\* A claim starts one past the stored mark.
Low(c) == IF mark = None THEN wanted[c] - Reservation ELSE mark + 1

\* At least twice the low water, and a reservation past the wall clock the
\* claim lands at.
High(c) ==
  LET reach == Larger(wanted[c], Smaller(wall + Reservation, MarkCeiling))
  IN Smaller(Larger(reach, Low(c) + 2 * LowWater - 1), MarkCeiling)

\* Mutant: a mark left ahead of the wall clock is claimed past all the same.
TooFarAheadNever(c) == FALSE

\* More than a reservation ahead of the wall clock.
TooFarAhead(c) == Low(c) > wall + Reservation

Claimable(c) == ~TooFarAhead(c) /\ Low(c) <= High(c)

\* The transaction of _claim commits.
Claim(c) ==
  /\ phase[c] = "claiming" /\ Claimable(c)
  /\ phase' = [phase EXCEPT ![c] = "holding"]
  /\ claimed' = [claimed EXCEPT ![c] = [low |-> Low(c), high |-> High(c)]]
  /\ mark' = Larger(mark, High(c))
  /\ UNCHANGED <<wall, last, ranges, stopped, wanted, issued, peak>>

\* It is refused, or the store raises; tried again after a pause.
ClaimFails(c) ==
  /\ phase[c] = "claiming"
  /\ phase' = [phase EXCEPT ![c] = "serving"]
  /\ UNCHANGED <<wall, mark, last, ranges, stopped, wanted, claimed, issued, peak>>

Keep(c) ==
  /\ phase[c] = "holding"
  /\ phase' = [phase EXCEPT ![c] = "serving"]
  /\ ranges' = [ranges EXCEPT ![c] = Append(@, claimed[c])]
  /\ UNCHANGED <<wall, mark, last, stopped, wanted, claimed, issued, peak>>

-----------------------------------------------------------------------------
(* Starting, stopping, crashing; the wall clock *)

Start(c) ==
  /\ phase[c] = "off"
  /\ phase' = [phase EXCEPT ![c] = "opening"]
  /\ UNCHANGED <<wall, mark, last, ranges, stopped, wanted, claimed, issued, peak>>

Stop(c) ==
  /\ phase[c] # "off" /\ ~stopped[c]
  /\ stopped' = [stopped EXCEPT ![c] = TRUE]
  /\ UNCHANGED <<wall, mark, last, ranges, phase, wanted, claimed, issued, peak>>

ThreadEnds(c) ==
  /\ phase[c] \in {"opening", "serving"} /\ stopped[c]
  /\ phase' = [phase EXCEPT ![c] = "ended"]
  /\ UNCHANGED <<wall, mark, last, ranges, stopped, wanted, claimed, issued, peak>>

\* The clock and whatever it held are gone; the mark stays.
Crash(c) ==
  /\ phase[c] # "off"
  /\ phase' = [phase EXCEPT ![c] = "off"]
  /\ last' = [last EXCEPT ![c] = None]
  /\ ranges' = [ranges EXCEPT ![c] = <<>>]
  /\ stopped' = [stopped EXCEPT ![c] = FALSE]
  /\ wanted' = [wanted EXCEPT ![c] = 0]
  /\ claimed' = [claimed EXCEPT ![c] = NoRange]
  /\ UNCHANGED <<wall, mark, issued, peak>>

WallMoves(w) ==
  /\ wall' = w
  /\ peak' = Larger(peak, w)
  /\ UNCHANGED <<mark, last, ranges, phase, stopped, wanted, claimed, issued>>

-----------------------------------------------------------------------------
Init ==
  /\ wall \in Times /\ peak = wall
  /\ mark = None
  /\ last = [c \in Clocks |-> None]
  /\ ranges = [c \in Clocks |-> <<>>]
  /\ phase = [c \in Clocks |-> "off"]
  /\ stopped = [c \in Clocks |-> FALSE]
  /\ wanted = [c \in Clocks |-> 0]
  /\ claimed = [c \in Clocks |-> NoRange]
  /\ issued = {}

Writer(c) == Open(c) \/ Want(c) \/ Claim(c) \/ ClaimFails(c) \/ Keep(c) \/ ThreadEnds(c)

Next ==
  \/ \E w \in Times : WallMoves(w)
  \/ \E c \in Clocks : Start(c) \/ Issue(c) \/ Writer(c) \/ Stop(c) \/ Crash(c)

Spec == Init /\ [][Next]_vars

\* The writer thread runs, and a store asked for ever takes a claim at last.
FairSpec == Spec /\ \A c \in Clocks : WF_vars(Writer(c)) /\ SF_vars(Claim(c))

-----------------------------------------------------------------------------
(* Properties *)

\* The shape of a clock's state.  The stored mark never passes the ceiling, so
\* it fits its 64-bit column, and no claim starts below zero (_claim).
TypeOK ==
  /\ wall \in Times /\ peak \in Times
  /\ mark \in (0 .. MarkCeiling) \cup {None}
  /\ last \in [Clocks -> Nat \cup {None}]
  /\ ranges \in [Clocks -> Seq(ClaimedRange)]
  /\ phase \in [Clocks -> Phases]
  /\ stopped \in [Clocks -> BOOLEAN]
  /\ wanted \in [Clocks -> Nat]
  /\ claimed \in [Clocks -> ClaimedRange]
  /\ issued \subseteq Nat

\* No signing time is issued twice: by one clock, by two on one store, or by
\* a later process, however the wall clock steps (issue, _claim).
NeverRepeats ==
  [][\A c \in Clocks : last'[c] # last[c] /\ last'[c] # None => last'[c] \notin issued]_vars

\* However often clocks are started, the stored mark never runs away from the
\* latest time the wall clock has read, so signing is only refused for a
\* bounded time (_claim, _wanted_mark: "restarts add no lead").
LeadBounded == mark < peak + Reservation + 2 * LowWater

\* refusing(): issue would refuse now.
Refusing(c) ==
  \A i \in DOMAIN ranges[c] : FirstLive(c, i) => ~InReach(Yield(c, i))

Serving(c) == phase[c] # "off" /\ ~stopped[c]

\* A clock that stays up over a wall clock that no longer moves refuses in
\* the end only because its store's mark is a reservation ahead, never for
\* want of a claim: an idle signer finds a claimed value (_wanted_mark,
\* _until_low_water_s).
ServesUnlessAhead ==
  \A c \in Clocks : \A w \in Times :
    <>[](Serving(c) /\ wall = w) => []<>(Refusing(c) => mark >= w + Reservation)
=============================================================================
