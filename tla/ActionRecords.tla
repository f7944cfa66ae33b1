---------------------------- MODULE ActionRecords ----------------------------
(***************************************************************************)
(* The records of acts: opened before an act runs, handed over when it     *)
(* settles (_defer_record, _record_after_holder and abandon_records of     *)
(* action_dispatcher.py) and written by one ordered task                   *)
(* (ori/state/deferred_writer.py).                                         *)
(*                                                                         *)
(* Three kinds of step interleave: what the event loop runs between two    *)
(* awaits, the store's write thread, and the clock (the end of a grace or  *)
(* of a back-off).  The callbacks of a future run in later turns of the    *)
(* loop, in the order they were scheduled.  Whether the store is busy,     *)
(* refuses a record for good, or a write is cancelled from within are      *)
(* inputs.                                                                 *)
(***************************************************************************)
EXTENDS Naturals, Sequences, FiniteSets, SequencesExt

CONSTANTS
  Acts,      \* dispatches
  TierD,     \* those that also owe an override entry
  Ceiling,   \* how many records the writer holds
  None

ASSUME TierDAssumption == TierD \subseteq Acts
ASSUME CeilingAssumption == Ceiling \in Nat \ {0}
ASSUME NoneAssumption == None \notin Acts

VARIABLES
  future,     \* the record future of each act
  holder,     \* the act whose row a contributor's names, or None
  followers,  \* the contributors waiting on an act's future, in order
  calls,      \* callbacks the loop has yet to run
  awaiting,   \* _records_awaiting
  unsettled,  \* _unsettled_at_close
  said,       \* records reported as unsettled, in place of a count
  stop,       \* where abandon_records is
  queue,      \* _queue
  task,       \* the writer task
  write,      \* the write of the record in flight
  adrift,     \* statements whose write was cancelled under them
  fate,       \* what the writer has said of each record
  stored      \* the rows, in the order the store took them

dispatcher == <<future, holder, followers, awaiting, unsettled, said>>
writer     == <<queue, task, write, fate>>
vars == <<future, holder, followers, calls, awaiting, unsettled, said, stop, queue, task,
          write, adrift, fate, stored>>

Records == {<<a, "override">> : a \in TierD} \cup {<<a, "row">> : a \in Acts}

\* The records of an act in the order they were registered: the override
\* entry of a Tier D act, then its row.
RecordsOf(a) == IF a \in TierD THEN <<<<a, "override">>, <<a, "row">>>> ELSE <<<<a, "row">>>>

IsStored(r) == \E i \in 1..Len(stored) : stored[i] = r

\* abandon_records has closed the writer.
closed == stop # "up"

\* _in_flight: set while a write is awaited and while a busy store is backed off.
InFlight == IF task \in {"writing", "sleeping"} THEN Head(queue) ELSE <<None, "row">>

Init ==
  /\ future = [a \in Acts |-> "none"]
  /\ holder = [a \in Acts |-> None]
  /\ followers = [a \in Acts |-> <<>>]
  /\ calls = <<>>
  /\ awaiting = 0
  /\ unsettled = 0
  /\ said = {}
  /\ stop = "up"
  /\ queue = <<>>
  /\ task = "none"
  /\ write = "none"
  /\ adrift = {}
  /\ fate = [r \in Records |-> "none"]
  /\ stored = <<>>

-----------------------------------------------------------------------------
(* The dispatcher *)

\* Every record of a dispatch is opened before the act runs.  A dispatch the
\* coordinator scheduled earlier may still start once the writer is closed.
Open(a) ==
  /\ future[a] = "none"
  /\ future' = [future EXCEPT ![a] = "pending"]
  /\ awaiting' = awaiting + Len(RecordsOf(a))
  /\ UNCHANGED <<holder, followers, calls, unsettled, said, stop, writer, adrift, stored>>

\* The callbacks of a future, in the order they were added to it.
Callbacks(a) ==
  [i \in 1..Len(RecordsOf(a)) |-> [fn |-> "settled", record |-> RecordsOf(a)[i]]]
    \o [i \in 1..Len(followers[a]) |->
          [fn |-> "settle", record |-> <<followers[a][i], "row">>]]

\* A future is given its result or cancelled: its callbacks are scheduled.
Finish(a, how, scheduled) ==
  /\ future' = [future EXCEPT ![a] = how]
  /\ calls' = scheduled \o Callbacks(a)

\* The act reports, at its return or when a still-driving executor does.
Settle(a) ==
  /\ future[a] = "pending"
  /\ holder[a] = None
  /\ Finish(a, "set", calls)
  /\ UNCHANGED <<holder, followers, awaiting, unsettled, said, stop, writer, adrift, stored>>

\* A dispatch left without a result before it reached an executor.
Cancel(a) ==
  /\ future[a] = "pending"
  /\ holder[a] = None
  /\ Finish(a, "cancelled", calls)
  /\ UNCHANGED <<holder, followers, awaiting, unsettled, said, stop, writer, adrift, stored>>

\* Mutant: the contributor's row is handed over without waiting for the holder's.
RecordAfterHolderAtOnce(a, h) == Finish(a, "set", calls) /\ UNCHANGED followers

\* The dispatch of a joined the act of h.
RecordAfterHolder(a, h) ==
  IF future[h] = "pending"
  THEN /\ followers' = [followers EXCEPT ![h] = Append(@, a)]
       /\ UNCHANGED <<future, calls>>
  ELSE /\ Finish(a, "set", calls)
       /\ UNCHANGED followers

Join(a, h) ==
  /\ a # h
  /\ future[a] = "pending"
  /\ future[h] # "none"
  /\ holder[a] = None
  /\ holder[h] = None
  /\ followers[a] = <<>>
  /\ holder' = [holder EXCEPT ![a] = h]
  /\ RecordAfterHolder(a, h)
  /\ UNCHANGED <<awaiting, unsettled, said, stop, writer, adrift, stored>>

\* Mutant: only the first record ever submitted starts a task.
SubmitToFirstTask(r) ==
  IF closed \/ Len(queue) >= Ceiling
  THEN /\ fate' = [fate EXCEPT ![r] = "turned_away"]
       /\ UNCHANGED <<queue, task, write>>
  ELSE /\ queue' = Append(queue, r)
       /\ fate' = [fate EXCEPT ![r] = "waiting"]
       /\ task' = IF \A s \in Records : fate[s] = "none" THEN "created" ELSE task
       /\ UNCHANGED write

\* DeferredWriter.submit.  A writer task is started when none is running.
Submit(r) ==
  IF closed \/ Len(queue) >= Ceiling
  THEN /\ fate' = [fate EXCEPT ![r] = "turned_away"]
       /\ UNCHANGED <<queue, task, write>>
  ELSE /\ queue' = Append(queue, r)
       /\ fate' = [fate EXCEPT ![r] = "waiting"]
       /\ task' = IF task = "none" THEN "created" ELSE task
       /\ UNCHANGED write

\* settled(): the record of a finished future is handed over, unless it was
\* already reported as unsettled at the stop.
Settled(r) ==
  /\ awaiting' = IF awaiting > 0 THEN awaiting - 1 ELSE 0
  /\ CASE future[r[1]] = "cancelled" -> UNCHANGED <<unsettled, said, writer>>
       [] future[r[1]] # "cancelled" /\ closed /\ unsettled > 0 ->
            /\ unsettled' = unsettled - 1
            /\ said' = said \cup {r}
            /\ UNCHANGED writer
       [] OTHER -> Submit(r) /\ UNCHANGED <<unsettled, said>>

RunSettled ==
  /\ calls # <<>>
  /\ Head(calls).fn = "settled"
  /\ Settled(Head(calls).record)
  /\ calls' = Tail(calls)
  /\ UNCHANGED <<future, holder, followers, stop, adrift, stored>>

\* settle(): the holder's future is done, so the contributor's is set.
RunSettle ==
  /\ calls # <<>>
  /\ Head(calls).fn = "settle"
  /\ Finish(Head(calls).record[1], "set", Tail(calls))
  /\ UNCHANGED <<holder, followers, awaiting, unsettled, said, stop, writer, adrift, stored>>

-----------------------------------------------------------------------------
(* The writer *)

\* The writer's turn comes: it takes up the head, or ends with the queue.
Proceed(rest) ==
  /\ queue' = rest
  /\ task' = IF rest = <<>> THEN "none" ELSE "writing"
  /\ write' = IF rest = <<>> THEN "none" ELSE "running"

Begin ==
  /\ task = "created"
  /\ stop # "gather"
  /\ Proceed(queue)
  /\ UNCHANGED <<dispatcher, calls, stop, adrift, fate, stored>>

\* The store's thread commits the row.  Its attestation is still awaited.
Land ==
  /\ task = "writing"
  /\ write = "running"
  /\ write' = "landed"
  /\ stored' = Append(stored, Head(queue))
  /\ UNCHANGED <<dispatcher, calls, stop, queue, task, adrift, fate>>

\* The write ends.  Attestation swallows its own failures, so once the row is
\* in only a cancellation from within can keep the write from returning; a
\* store that raises has rolled the row back.
WriteEnds(how) ==
  /\ task = "writing"
  /\ (write = "running" => how \in {"busy", "error", "cancelled"})
  /\ (write = "landed" => how \in {"ok", "cancelled"})
  /\ write \in {"running", "landed"}
  /\ write' = how
  /\ UNCHANGED <<dispatcher, calls, stop, queue, task, adrift, fate, stored>>

FateOf(how) == CASE how = "ok" -> "written"
                 [] how = "error" -> "refused"
                 [] how = "cancelled" -> "cancelled"

\* The writer hears how the write ended: the record leaves the queue.
Resume ==
  /\ task = "writing"
  /\ write \in {"ok", "error", "cancelled"}
  /\ stop # "gather"
  /\ fate' = [fate EXCEPT ![Head(queue)] = FateOf(write)]
  /\ Proceed(Tail(queue))
  /\ UNCHANGED <<dispatcher, calls, stop, adrift, stored>>

\* A busy store is tried again after a back-off; the record keeps its place.
BackOff ==
  /\ task = "writing"
  /\ write = "busy"
  /\ stop # "gather"
  /\ task' = "sleeping"
  /\ write' = "none"
  /\ UNCHANGED <<dispatcher, calls, stop, queue, adrift, fate, stored>>

Retry ==
  /\ task = "sleeping"
  /\ stop # "gather"
  /\ Proceed(queue)
  /\ UNCHANGED <<dispatcher, calls, stop, adrift, fate, stored>>

-----------------------------------------------------------------------------
(* The stop: drain_records up to its deadline, then abandon_records *)

Abandon ==
  /\ stop = "up"
  /\ unsettled' = awaiting
  /\ stop' = CASE task = "none" -> "closed"
               [] task = "created" -> "gather"
               [] OTHER -> "grace"
  /\ UNCHANGED <<future, holder, followers, calls, awaiting, said, writer, adrift, stored>>

\* The writer finished within the grace, or is cancelled at its end.
GraceEnds ==
  /\ stop = "grace"
  /\ stop' = IF task = "none" THEN "closed" ELSE "gather"
  /\ UNCHANGED <<dispatcher, calls, writer, adrift, stored>>

\* Mutant: the head is read after the cancel, which has cleared it.
StrandedFateHeadForgotten(r) == "stranded"

\* What close() counts each record of the queue as, once the writer is gone.
StrandedFate(r) == IF r = InFlight THEN "unknown" ELSE "stranded"

\* The cancelled writer has raised, its write cancelled with it; a statement
\* on the store's thread is not reached by that and may land.
Strand ==
  /\ stop = "gather"
  /\ stop' = "closed"
  /\ fate' = [r \in Records |-> IF fate[r] = "waiting" THEN StrandedFate(r) ELSE fate[r]]
  /\ adrift' = IF write = "running" THEN {Head(queue)} ELSE {}
  /\ queue' = <<>>
  /\ task' = "none"
  /\ write' = "none"
  /\ UNCHANGED <<dispatcher, calls, stored>>

\* The cancelled write's statement ends on its thread, committed or not.
LandAdrift(r, lands) ==
  /\ r \in adrift
  /\ adrift' = adrift \ {r}
  /\ stored' = IF lands THEN Append(stored, r) ELSE stored
  /\ UNCHANGED <<dispatcher, calls, stop, writer>>

-----------------------------------------------------------------------------

Next ==
  \/ \E a \in Acts :
       \/ Open(a)
       \/ Settle(a)
       \/ Cancel(a)
       \/ \E h \in Acts : Join(a, h)
  \/ RunSettled
  \/ RunSettle
  \/ Begin
  \/ Land
  \/ \E how \in {"ok", "busy", "error", "cancelled"} : WriteEnds(how)
  \/ Resume
  \/ BackOff
  \/ Retry
  \/ Abandon
  \/ GraceEnds
  \/ Strand
  \/ \E r \in Records, lands \in BOOLEAN : LandAdrift(r, lands)

Spec == Init /\ [][Next]_vars

\* The loop runs what it has scheduled, a write ends, a back-off is bounded
\* (_RETRY_MAX_S), and a store that is busy is not busy every time.
Fairness ==
  /\ WF_vars(RunSettled)
  /\ WF_vars(RunSettle)
  /\ WF_vars(Begin)
  /\ SF_vars(Land)
  /\ WF_vars(\E how \in {"ok", "busy", "error", "cancelled"} : WriteEnds(how))
  /\ WF_vars(Resume)
  /\ WF_vars(BackOff)
  /\ WF_vars(Retry)
  /\ WF_vars(Strand)
  /\ WF_vars(GraceEnds)

FairSpec == Spec /\ Fairness

-----------------------------------------------------------------------------
(* Properties *)

Accounted == INSTANCE AccountedQueue
  WITH open <- (stop = "up"), line <- queue

\* The writer with its task, its thread, its retries and its close keeps the
\* promise of AccountedQueue: records are stored in the order they were handed
\* over, each leaves the queue once, and "written", "refused", "stranded" and
\* "unknown" are true of the store (deferred_writer.py, submit, close, _run).
QueueIsAccounted == Accounted!Spec

TypeOK ==
  /\ future \in [Acts -> {"none", "pending", "set", "cancelled"}]
  /\ holder \in [Acts -> Acts \cup {None}]
  /\ followers \in [Acts -> Seq(Acts)]
  /\ calls \in Seq([fn : {"settled", "settle"}, record : Records])
  /\ awaiting \in Nat
  /\ unsettled \in Nat
  /\ said \subseteq Records
  /\ stop \in {"up", "grace", "gather", "closed"}
  /\ queue \in Seq(Records)
  /\ task \in {"none", "created", "writing", "sleeping"}
  /\ write \in {"none", "running", "landed", "ok", "busy", "error", "cancelled"}
  /\ adrift \subseteq Records
  /\ fate \in [Records -> Accounted!Fates]
  /\ stored \in Seq(Records)

Before(r, s) ==
  \E i, j \in 1..Len(stored) : i < j /\ stored[i] = r /\ stored[j] = s

\* A contributor's row names its holder's.  Wherever it is in the store, the
\* holder's row is there first, or the holder had none to write or its loss is
\* counted (_record_after_holder; get_attestation_summary relies on it).
ContributorFollowsHolder ==
  \A a \in Acts :
    (/\ holder[a] # None
     /\ IsStored(<<a, "row">>))
    => \/ Before(<<holder[a], "row">>, <<a, "row">>)
       \/ future[holder[a]] = "cancelled"
       \/ fate[<<holder[a], "row">>] \in Accounted!Lost

\* The record of an act that reported is written, counted or said: none is
\* left in the queue, behind a holder or in a writer that has ended.
RecordSettles ==
  \A r \in Records :
    (future[r[1]] = "set")
      ~> (fate[r] \in {"written", "unknown"} \cup Accounted!Lost \/ r \in said)
=============================================================================
