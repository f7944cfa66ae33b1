--------------------------- MODULE AccountedQueue ---------------------------
(***************************************************************************)
(* What the class docstring of ori/state/deferred_writer.py promises of a  *)
(* record handed over for writing, with no tasks, threads or retries: "one *)
(* ordered writer with a hard ceiling and an honest loss count".  A record *)
(* is refused or waits in line, is stored in line order, and leaves the    *)
(* line exactly once, with a fate that is true of the store.               *)
(***************************************************************************)
EXTENDS Naturals, Sequences

CONSTANTS
  Records,    \* what may be handed over
  Ceiling     \* how many may wait

VARIABLES
  open,       \* whether records are still taken
  line,       \* the records that wait, oldest first
  fate,       \* what became of each record
  stored      \* what the store took, in its order

vars == <<open, line, fate, stored>>

Fates == {"none", "waiting", "written", "turned_away", "refused", "cancelled", "stranded",
          "unknown"}

\* The fates that the loss counter counts.
Lost == {"turned_away", "refused", "cancelled", "stranded"}

IsStored(r) == \E i \in 1..Len(stored) : stored[i] = r

Init ==
  /\ open = TRUE
  /\ line = <<>>
  /\ fate = [r \in Records |-> "none"]
  /\ stored = <<>>

\* A record is taken while there is room, and counted at once otherwise.
Offer(r) ==
  /\ fate[r] = "none"
  /\ IF open /\ Len(line) < Ceiling
     THEN /\ line' = Append(line, r)
          /\ fate' = [fate EXCEPT ![r] = "waiting"]
     ELSE /\ fate' = [fate EXCEPT ![r] = "turned_away"]
          /\ UNCHANGED line
  /\ UNCHANGED <<open, stored>>

\* The store takes the oldest record, and only once.
Store ==
  /\ line # <<>>
  /\ ~IsStored(Head(line))
  /\ stored' = Append(stored, Head(line))
  /\ UNCHANGED <<open, line, fate>>

\* The oldest record leaves the line.  Written is said of what is stored and
\* refused of what is not; a cancelled write has no result to go by.
Leave(f) ==
  /\ line # <<>>
  /\ (f = "written" => IsStored(Head(line)))
  /\ (f = "refused" => ~IsStored(Head(line)))
  /\ fate' = [fate EXCEPT ![Head(line)] = f]
  /\ line' = Tail(line)
  /\ UNCHANGED <<open, stored>>

\* No record is taken any more.
Shut ==
  /\ open = TRUE
  /\ open' = FALSE
  /\ UNCHANGED <<line, fate, stored>>

\* The line is given up.  What the store never saw is lost; only the oldest
\* record may be in doubt, and whatever is stored is in doubt.
GiveUp ==
  /\ open = FALSE
  /\ line # <<>>
  /\ \E doubt \in BOOLEAN :
       /\ (~doubt => ~IsStored(Head(line)))
       /\ fate' = [r \in Records |->
                     IF fate[r] # "waiting" THEN fate[r]
                     ELSE IF doubt /\ r = Head(line) THEN "unknown"
                     ELSE "stranded"]
  /\ line' = <<>>
  /\ UNCHANGED <<open, stored>>

\* A statement that was under way when the line was given up lands after all.
LandLate(r) ==
  /\ fate[r] = "unknown"
  /\ ~IsStored(r)
  /\ stored' = Append(stored, r)
  /\ UNCHANGED <<open, line, fate>>

Next ==
  \/ \E r \in Records : Offer(r) \/ LandLate(r)
  \/ \E f \in {"written", "refused", "cancelled"} : Leave(f)
  \/ Store
  \/ Shut
  \/ GiveUp

Spec == Init /\ [][Next]_vars
=============================================================================
