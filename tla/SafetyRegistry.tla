--------------------------- MODULE SafetyRegistry ---------------------------
(***************************************************************************)
(* The trip sequence of the release-owned safety registry for ONE          *)
(* zone-profile pair: ori/safety/registry.py (attempts, record writes, the *)
(* retry loop), the pair's machine in trip_state.py and its durable        *)
(* journal (ori/state/_trip_journal.py) behind the store's one writer.     *)
(*                                                                         *)
(* Two coroutines attempt the command: the sensor's poll loop, on the      *)
(* reading that trips the pair, and the retry loop.  What `_load_journal`  *)
(* reads of a journal is the status of its last record and the latest      *)
(* intent after it, so the journal is those two: an appended record ends   *)
(* the tail, and `mark_resolved` touches only what a record already ended. *)
(* A reset, an arming and a retirement have no caller in the runtime yet.  *)
(* The registry shares the zone's coil with the start of a process whose   *)
(* binding activates no profile on the zone, and with the dispatcher's     *)
(* relay executors (ori/runtime/_startup_foundation.py), which look at no  *)
(* latch.  An active pair's zone is taken to have its actuator, on which   *)
(* the production posture insists.                                         *)
(***************************************************************************)
EXTENDS Naturals, Sequences

CONSTANTS
  Bindings,   \* sequence numbers of the accepted bindings
  Terminal,   \* the zone's de_energised_terminal_state
  NoIntent    \* the tail of a journal with no intent after its last record

ASSUME TerminalAssumption == Terminal \in {"open", "closed"}
ASSUME NoIntentAssumption == NoIntent \notin Bindings

VARIABLES
  up,         \* the runtime process runs
  binding,    \* binding_seq in force
  bound,      \* the pair is active under it
  tripped,    \* ZoneTripState.state = tripped
  command,    \* command_status
  record,     \* record_state
  orphaned,   \* orphaned
  lease,      \* _driver_attempt_in_flight
  gate,       \* DeferredStartupGate.pending
  phase,      \* what each coroutine awaits
  intent,     \* the append_intent task of each coroutine's latest attempt
  unsettled,  \* _unsettled_intents[pair]: whose task, or "none"
  wrote,      \* what each coroutine's awaited journal write reported
  queue,      \* the writes waiting on the store's write lock, oldest first
  durable,    \* the journal's last record and tail
  line,       \* RelayAction.connected: the coil's line is taken
  opened,     \* the driver has accepted an opening since the pair last tripped
  coil        \* what the last command that moved it made of the circuit

vars == <<up, binding, bound, tripped, command, record, orphaned, lease, gate,
          phase, intent, unsettled, wrote, queue, durable, line, opened, coil>>

machine == <<up, binding, bound, tripped, orphaned>>
circuit == <<line, opened, coil>>

Actors == {"reading", "loop"}

Statuses == {"command_pending", "driver_refused", "command_issued"}

\* idle: the poll loop, between readings; retries, records: the retry loop,
\* before retry_pending_once and before retry_records_once; intent, driving,
\* ordering, record, mark: the awaits of an attempt; rerecord, remark: the
\* awaits of a record recovery; closing: the deferred startup command is with
\* the driver; dead: the retry loop's task has raised.
Phases == {"idle", "retries", "records", "intent", "driving", "ordering",
           "record", "mark", "rerecord", "remark", "closing", "dead"}

\* closed: by the registry's deferred startup command; released: by the plain
\* startup command or by release_relay.
Circuits == {"none", "open", "closed", "released"}

Write == [op : {"intent"}, by : Actors \cup {"stale"}, arg : Bindings]
           \cup [op : {"record"}, by : Actors, arg : Statuses]
           \cup [op : {"mark"}, by : Actors, arg : {"-"}]

-----------------------------------------------------------------------------
(* The store's writer and the journal *)

Enqueue(op, by, arg) == Append(queue, [op |-> op, by |-> by, arg |-> arg])

Settled(t) == t \in {"none", "ok", "failed"}

\* append_intent, append_record and mark_resolved, committed.
Committed(w) ==
  CASE w.op = "intent" -> [durable EXCEPT !.tail = w.arg]
    [] w.op = "record" -> [record |-> w.arg, tail |-> NoIntent]
    [] w.op = "mark"   -> durable

\* The lock's oldest waiter runs on the write thread; it commits or raises.
WriteHead(ok) ==
  /\ up /\ queue # <<>>
  /\ LET w == Head(queue)
         result == IF ok THEN "ok" ELSE "failed"
     IN /\ durable' = IF ok THEN Committed(w) ELSE durable
        /\ intent' = IF w.op = "intent" /\ w.by \in Actors
                       THEN [intent EXCEPT ![w.by] = result] ELSE intent
        /\ wrote' = IF w.op = "intent" THEN wrote ELSE [wrote EXCEPT ![w.by] = result]
  /\ queue' = Tail(queue)
  /\ UNCHANGED <<machine, command, record, lease, gate, phase, unsettled, circuit>>

\* The durable journal says the pair tripped.
TripIsDurable == durable.record # "none" \/ durable.tail # NoIntent

-----------------------------------------------------------------------------
(* Startup *)

\* What a plain de_energised command makes of the circuit.
DeEnergised == IF Terminal = "open" THEN "open" ELSE "released"

\* Mutant: an intent under another binding is retried like any other.
OrphanedByNothing(b, active) == ~active

\* startup and binding_removed: an unresolved intent under another binding,
\* or a pair the binding no longer activates.
Orphaned(b, active) == ~active \/ (durable.tail # NoIntent /\ durable.tail # b)

\* Mutant: only a full record latches.
LoadedTripRecordOnly == durable.record # "none"

LoadedTrip == TripIsDurable

\* Mutant: a status of the pre-journal vocabulary.
LoadedCommandLegacy ==
  IF durable.tail # NoIntent THEN "legacy" ELSE durable.record

LoadedCommand ==
  IF durable.tail # NoIntent THEN "command_pending" ELSE durable.record

\* What a registry and its machine hold before their first step.
Fresh ==
  /\ record' = "committed" /\ lease' = FALSE
  /\ phase' = [reading |-> "idle", loop |-> "retries"]
  /\ intent' = [a \in Actors |-> "none"]
  /\ unsettled' = "none"
  /\ wrote' = [a \in Actors |-> "none"]

\* _stage_safety_envelope and SafetyRegistry.start.  The journal decides the
\* pair's state.  Taking the line de-energises the coil, whatever the journal
\* says, and a startup command after it repeats that.  Under an active pair
\* the line is taken at once where de-energised is open, and left to the
\* registry's first command where it is closed; without one it is taken if
\* the zone is in force.
Start(b, active, taken) ==
  /\ ~up
  /\ active => taken = (Terminal = "open")
  /\ up' = TRUE /\ binding' = b /\ bound' = active
  /\ tripped' = LoadedTrip
  /\ command' = LoadedCommand
  /\ orphaned' = Orphaned(b, active)
  /\ Fresh
  /\ gate' = (active /\ ~LoadedTrip /\ Terminal = "closed")
  /\ line' = taken
  /\ coil' = IF taken THEN DeEnergised ELSE coil
  /\ UNCHANGED <<queue, durable, opened>>

\* The process's memory is lost; writes not yet made never are.
Crash ==
  /\ up
  /\ up' = FALSE
  /\ tripped' = FALSE /\ command' = "none" /\ orphaned' = FALSE /\ gate' = FALSE
  /\ Fresh
  /\ queue' = <<>>
  /\ line' = FALSE
  /\ UNCHANGED <<binding, bound, durable, opened, coil>>

-----------------------------------------------------------------------------
(* One attempt: _attempt_command *)

\* The append runs as a task of its own, from its next turn on the loop.  An
\* intent this coroutine left behind stays in the queue under no one's name.
BeginAttempt(a) ==
  /\ intent' = [intent EXCEPT ![a] = "created"]
  /\ unsettled' = a
  /\ phase' = [phase EXCEPT ![a] = "intent"]
  /\ queue' = [i \in DOMAIN queue |->
                 IF queue[i].op = "intent" /\ queue[i].by = a
                   THEN [queue[i] EXCEPT !.by = "stale"] ELSE queue[i]]

AppendIntent(a) ==
  /\ up /\ intent[a] = "created"
  /\ intent' = [intent EXCEPT ![a] = "queued"]
  /\ queue' = Enqueue("intent", a, binding)
  /\ UNCHANGED <<machine, command, record, lease, gate, phase, unsettled, wrote, durable, circuit>>

\* Mutant: the lease is not consulted.
MayBeginNoLease == tripped /\ command \in {"command_pending", "driver_refused"}

\* begin_driver_attempt, or CommandSequenceError.
MayBegin == tripped /\ command \in {"command_pending", "driver_refused"} /\ ~lease

\* The append is done, or its deadline has passed and it goes on alone.  A
\* CommandSequenceError ends a reading in its poll loop's handler and the
\* retry loop for good: nothing between it and the task catches.
BeginDriverAttempt(a) ==
  /\ up /\ phase[a] = "intent" /\ intent[a] # "created"
  /\ \/ /\ MayBegin
        /\ lease' = TRUE
        /\ phase' = [phase EXCEPT ![a] = "driving"]
     \/ /\ ~MayBegin
        /\ phase' = [phase EXCEPT ![a] = IF a = "loop" THEN "dead" ELSE "idle"]
        /\ UNCHANGED lease
  /\ UNCHANGED <<machine, command, record, gate, intent, unsettled, wrote, queue, durable, circuit>>

\* _persist_record once the attempt's own intent is done.
AppendRecord(a, status) ==
  /\ unsettled' = "none"
  /\ queue' = Enqueue("record", a, status)
  /\ wrote' = [wrote EXCEPT ![a] = "none"]
  /\ phase' = [phase EXCEPT ![a] = "record"]

\* Mutant: a refusal is filed as an acceptance.
StatusAfterAlwaysIssued(answer) ==
  IF answer = "raised" THEN command ELSE "command_issued"

\* record_driver_result, or release_driver_attempt when the call raised.
StatusAfter(answer) ==
  CASE answer = "accepted" -> "command_issued"
    [] answer = "refused"  -> "driver_refused"
    [] answer = "raised"   -> command

\* The executor returns or raises; a call that did not succeed may have moved
\* the coil all the same.
DriverAnswers(a, answer) ==
  /\ up /\ phase[a] = "driving"
  /\ lease' = FALSE
  /\ command' = StatusAfter(answer)
  /\ \/ answer = "accepted" /\ coil' = "open" /\ opened' = TRUE /\ line' = TRUE
     \/ answer # "accepted" /\ coil' \in {coil, "open"} /\ UNCHANGED <<line, opened>>
  /\ IF Settled(intent[a])
       THEN AppendRecord(a, StatusAfter(answer))
       ELSE /\ phase' = [phase EXCEPT ![a] = "ordering"]
            /\ UNCHANGED <<unsettled, queue, wrote>>
  /\ UNCHANGED <<machine, record, gate, intent, durable>>

\* The record waited for its intent.
IntentOrdered(a) ==
  /\ up /\ phase[a] = "ordering" /\ Settled(intent[a])
  /\ AppendRecord(a, command)
  /\ UNCHANGED <<machine, command, record, lease, gate, intent, durable, circuit>>

\* A coroutine's attempt is over: the poll loop settles the startup gate.
EndAttempt(a) ==
  /\ phase' = [phase EXCEPT ![a] = IF a = "loop" THEN "records" ELSE "idle"]
  /\ gate' = (gate /\ a = "loop")

\* Its grace ran out: the record is left to recovery.
GraceExpires(a) ==
  /\ up /\ phase[a] = "ordering" /\ ~Settled(intent[a])
  /\ record' = "pending"
  /\ EndAttempt(a)
  /\ UNCHANGED <<machine, command, lease, intent, unsettled, wrote, queue, durable, circuit>>

\* append_record has returned, and mark_resolved after it.
RecordWritten(a) ==
  /\ up /\ phase[a] = "record" /\ wrote[a] = "ok"
  /\ queue' = Enqueue("mark", a, "-")
  /\ wrote' = [wrote EXCEPT ![a] = "none"]
  /\ phase' = [phase EXCEPT ![a] = "mark"]
  /\ UNCHANGED <<machine, command, record, lease, gate, intent, unsettled, durable, circuit>>

MarkWritten(a) ==
  /\ up /\ phase[a] = "mark" /\ wrote[a] = "ok"
  /\ EndAttempt(a)
  /\ UNCHANGED <<machine, command, record, lease, intent, unsettled, wrote, queue, durable, circuit>>

\* Either write raised.
RecordWriteFailed(a) ==
  /\ up /\ phase[a] \in {"record", "mark"} /\ wrote[a] = "failed"
  /\ record' = "pending"
  /\ EndAttempt(a)
  /\ UNCHANGED <<machine, command, lease, intent, unsettled, wrote, queue, durable, circuit>>

-----------------------------------------------------------------------------
(* Readings: observe_reading *)

\* A credible reading beyond the trip point, on a pair that is not latched.
ObserveTrip ==
  /\ up /\ bound /\ phase["reading"] = "idle" /\ ~tripped
  /\ tripped' = TRUE
  /\ command' = "command_pending"
  /\ BeginAttempt("reading")
  /\ opened' = FALSE
  /\ UNCHANGED <<up, binding, bound, orphaned, record, lease, gate, wrote, durable, line, coil>>

\* Mutant: a latched pair does not hold the gate.
MayCloseWhateverTripped == TRUE

\* note_credible_reading: no pair of the zone is tripped.
MayClose == ~tripped

\* The first other credible reading settles the deferred startup command
\* (_settle_deferred_gate), which is sent unless the pair is latched.
SettleGate ==
  /\ up /\ bound /\ phase["reading"] = "idle" /\ gate
  /\ gate' = FALSE
  /\ phase' = [phase EXCEPT !["reading"] = IF MayClose THEN "closing" ELSE "idle"]
  /\ UNCHANGED <<machine, command, record, lease, intent, unsettled, wrote, queue, durable,
                 circuit>>

\* command_startup_de_energised takes the line at de-energised, which closes
\* the circuit, or is refused or raises with the coil moved or not.
GateAnswered(accepted) ==
  /\ up /\ phase["reading"] = "closing"
  /\ phase' = [phase EXCEPT !["reading"] = "idle"]
  /\ \/ accepted /\ coil' = "closed" /\ line' = TRUE
     \/ ~accepted /\ coil' \in {coil, "closed"} /\ line' = line
  /\ UNCHANGED <<machine, command, record, lease, gate, intent, unsettled, wrote, queue,
                 durable, opened>>

-----------------------------------------------------------------------------
(* The dispatcher's relay executors, on a line that is taken *)

ExecTripRelay ==
  /\ up /\ line
  /\ coil' = "open"
  /\ UNCHANGED <<machine, command, record, lease, gate, phase, intent, unsettled, wrote,
                 queue, durable, line, opened>>

ExecReleaseRelay ==
  /\ up /\ line
  /\ coil' = "released"
  /\ UNCHANGED <<machine, command, record, lease, gate, phase, intent, unsettled, wrote,
                 queue, durable, line, opened>>

-----------------------------------------------------------------------------
(* The retry loop: run_retry_loop *)

\* _intent_settled
IntentSettled == unsettled # "none" => Settled(intent[unsettled])

\* Mutant: a refused command is not tried again.
RetryDuePendingOnly == tripped /\ ~orphaned /\ ~lease /\ command = "command_pending" /\ bound

\* outcome_retry, and an entry in the active set.
RetryDue == tripped /\ ~orphaned /\ ~lease /\ command # "command_issued" /\ bound

\* retry_pending_once; a settled task is dropped as it is looked at.
RetryPending ==
  /\ up /\ phase["loop"] = "retries"
  /\ \/ /\ IntentSettled /\ RetryDue
        /\ BeginAttempt("loop")
     \/ /\ ~(IntentSettled /\ RetryDue)
        /\ unsettled' = IF IntentSettled THEN "none" ELSE unsettled
        /\ phase' = [phase EXCEPT !["loop"] = "records"]
        /\ UNCHANGED <<intent, queue>>
  /\ UNCHANGED <<machine, command, record, lease, gate, wrote, durable, circuit>>

\* retry_records_once, then the loop sleeps until its next pass.
RetryRecords ==
  /\ up /\ phase["loop"] = "records"
  /\ \/ /\ record = "pending" /\ IntentSettled
        /\ unsettled' = "none"
        /\ queue' = Enqueue("record", "loop", command)
        /\ wrote' = [wrote EXCEPT !["loop"] = "none"]
        /\ phase' = [phase EXCEPT !["loop"] = "rerecord"]
     \/ /\ ~(record = "pending" /\ IntentSettled)
        /\ phase' = [phase EXCEPT !["loop"] = "retries"]
        /\ UNCHANGED <<unsettled, queue, wrote>>
  /\ UNCHANGED <<machine, command, record, lease, gate, intent, durable, circuit>>

RerecordWritten ==
  /\ up /\ phase["loop"] = "rerecord" /\ wrote["loop"] = "ok"
  /\ queue' = Enqueue("mark", "loop", "-")
  /\ wrote' = [wrote EXCEPT !["loop"] = "none"]
  /\ phase' = [phase EXCEPT !["loop"] = "remark"]
  /\ UNCHANGED <<machine, command, record, lease, gate, intent, unsettled, durable, circuit>>

\* Mutant: a recovered record is still owed.
RecoveryEndsOwing ==
  /\ up /\ phase["loop"] \in {"rerecord", "remark"}
  /\ \/ wrote["loop"] = "failed"
     \/ phase["loop"] = "remark" /\ wrote["loop"] = "ok"
  /\ phase' = [phase EXCEPT !["loop"] = "retries"]
  /\ UNCHANGED <<machine, command, record, lease, gate, intent, unsettled, wrote, queue,
                 durable, circuit>>

\* record_retry(committed), or a failed recovery left for the next pass.
RecoveryEnds ==
  /\ up /\ phase["loop"] \in {"rerecord", "remark"}
  /\ \/ wrote["loop"] = "failed" /\ record' = record
     \/ phase["loop"] = "remark" /\ wrote["loop"] = "ok" /\ record' = "committed"
  /\ phase' = [phase EXCEPT !["loop"] = "retries"]
  /\ UNCHANGED <<machine, command, lease, gate, intent, unsettled, wrote, queue, durable, circuit>>

-----------------------------------------------------------------------------
Init ==
  /\ up = FALSE
  /\ binding \in Bindings
  /\ bound = FALSE /\ tripped = FALSE /\ orphaned = FALSE /\ lease = FALSE /\ gate = FALSE
  /\ command = "none" /\ record = "committed"
  /\ phase = [reading |-> "idle", loop |-> "retries"]
  /\ intent = [a \in Actors |-> "none"] /\ wrote = [a \in Actors |-> "none"]
  /\ unsettled = "none"
  /\ queue = <<>>
  /\ durable = [record |-> "none", tail |-> NoIntent]
  /\ line = FALSE /\ opened = FALSE /\ coil = "none"

Answers == {"accepted", "refused", "raised"}

Attempt(a) ==
  \/ AppendIntent(a) \/ BeginDriverAttempt(a) \/ IntentOrdered(a) \/ GraceExpires(a)
  \/ RecordWritten(a) \/ MarkWritten(a) \/ RecordWriteFailed(a)
  \/ \E answer \in Answers : DriverAnswers(a, answer)

RetryLoop == RetryPending \/ RetryRecords \/ RerecordWritten \/ RecoveryEnds

Next ==
  \/ \E b \in Bindings, active, taken \in BOOLEAN : Start(b, active, taken)
  \/ Crash
  \/ \E ok \in BOOLEAN : WriteHead(ok)
  \/ ObserveTrip \/ SettleGate
  \/ \E accepted \in BOOLEAN : GateAnswered(accepted)
  \/ ExecTripRelay \/ ExecReleaseRelay
  \/ \E a \in Actors : Attempt(a)
  \/ RetryLoop

Spec == Init /\ [][Next]_vars

\* The event loop runs every ready coroutine and the writer every write; a
\* driver asked for ever accepts at last, and the store asked for ever to
\* take a kind of write takes it at last.
Fairness ==
  /\ WF_vars(RetryLoop)
  /\ WF_vars(\E ok \in BOOLEAN : WriteHead(ok))
  /\ \A a \in Actors : WF_vars(Attempt(a)) /\ SF_vars(DriverAnswers(a, "accepted"))
  /\ \A op \in {"record", "mark"} : 
       SF_vars(queue # <<>> /\ Head(queue).op = op /\ WriteHead(TRUE))

FairSpec == Spec /\ Fairness

-----------------------------------------------------------------------------
(* Properties *)

\* The shape of the pair's machine and journal; whatever a journal of an
\* earlier process holds, the machine loads a known command_status from it
\* (_load_journal).
TypeOK ==
  /\ up \in BOOLEAN /\ binding \in Bindings /\ bound \in BOOLEAN
  /\ tripped \in BOOLEAN /\ orphaned \in BOOLEAN /\ lease \in BOOLEAN /\ gate \in BOOLEAN
  /\ command \in Statuses \cup {"none"}
  /\ record \in {"committed", "pending"}
  /\ phase \in [Actors -> Phases]
  /\ intent \in [Actors -> {"none", "created", "queued", "ok", "failed"}]
  /\ unsettled \in Actors \cup {"none"}
  /\ wrote \in [Actors -> {"none", "ok", "failed"}]
  /\ queue \in Seq(Write)
  /\ durable \in [record : Statuses \cup {"none"}, tail : Bindings \cup {NoIntent}]
  /\ line \in BOOLEAN /\ opened \in BOOLEAN /\ coil \in Circuits

\* A trip whose intent or record reached the journal is latched in every
\* process that runs after it, whatever crashed in between (startup).
DurableTripHolds == up /\ TripIsDurable => tripped

\* One physical call at a time: a retry never doubles a command that is on
\* the wire (begin_driver_attempt's lease).
OneDriverCall == ~(phase["reading"] = "driving" /\ phase["loop"] = "driving")

\* A durable "command_issued", which stops the retries of every later
\* process, is only ever written of a trip whose opening command the driver
\* accepted, and the registry has sent no closing command since: what may have
\* closed the circuit after it is release_relay or a start without the profile
\* (record_driver_result, append_record, startup, _settle_deferred_gate).
IssuedRecordMeansOpened ==
  durable.record = "command_issued" => opened /\ coil # "closed"

\* The registry's own closing command, the deferred startup command of a
\* closed-terminal zone, never takes effect on a pair that is latched or whose
\* trip is durable: neither a trip whose attempt raised before the gate was
\* settled nor one of an earlier process lets it through, and none arrives
\* while it is with the driver (note_credible_reading, note_trip, start).
NoClosingOnceTripped ==
  [][coil' = "closed" /\ coil # "closed" => ~TripIsDurable /\ ~tripped]_vars

\* An attempt left unresolved under another binding is never taken up
\* through the binding in force (outcome_retry).
OrphanNeverActuates ==
  up /\ durable.tail \notin {NoIntent, binding}
    => phase["reading"] # "driving" /\ phase["loop"] # "driving"

\* The retry loop's task has ended with an exception.
StoppedLoop == phase["loop"] = "dead"

\* In a process that stays up with its retry loop alive, the trip of a bound
\* pair does not stay unanswered: the driver accepts a command
\* (run_retry_loop, retry_pending_once), whatever reading, restart or slow
\* write came before.
TripEndsInCommand ==
  <>[](up /\ ~StoppedLoop) =>
    []<>(tripped /\ bound /\ ~orphaned => command = "command_issued")

\* On the same terms a record owed to the journal gets there
\* (retry_records_once).
RecordRecovered ==
  <>[](up /\ ~StoppedLoop) => []<>(record = "committed")

\* run_retry_loop: "Bounded backoff, no terminal limit, stops only on
\* shutdown".
RetryLoopStopsOnlyOnShutdown == up => ~StoppedLoop

\* outcome_retry: "An accepted command is never re-issued".
AcceptedNeverReissued ==
  [][\A a \in Actors : phase[a] # "driving" /\ phase'[a] = "driving"
       => durable.record # "command_issued"]_vars
=============================================================================
