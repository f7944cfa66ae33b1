# TLA+ verification of ori-runtime

ori-runtime is the runtime of an edge controller: it reads sensors, decides
what to do, asks an operator where a human has to decide, drives relays and
other actuators, and keeps evidence of what it did. It is a Python asyncio
process over a SQLite state store, meant to run unattended and to be killed,
restarted and cut off from its network at any time.

This directory holds TLA+ models of the parts of it whose correctness depends
on interleaving, crashes and failing writes; TLC configurations that check
them on small instances; and TLAPS proofs that their safety properties hold for
every instance. `PROJECT.json` is the index: components,
runs, the source lines behind each definition, mutants, hazards, findings and
theorems.

    tlc -workers 2 -config MCResourceGate.cfg MCResourceGate   # one run
    tlapm ResourceGateProofs.tla                               # one proof module

## Inventory

Paths are under `src/`. "State" is what survives a step; "hard" is what a unit
test hardly reaches.

### Modelled

| Component | State | Operations | Hard behaviour |
|---|---|---|---|
| Resource gate, `ori/reasoning/resource_gate.py` | per resource key the holder's record; per event the entries its finished acts left | `open_scope`, `close_scope`, `request`, `reply_admitted`, `mark_running`, `mark_uncertain`, `retire`, `resolve_uncertain` | several events over one actuator; a reply to a proposal displaced meanwhile; cancelled dispatches whose executor still drives |
| Dispatcher's use of the gate, `ori/reasoning/action_dispatcher.py` (`_admit_and_run`, `_ask_operator`) | the dispatch's own progress | admission, asking, entering the executor, cancellation, the detached Tier D executor | order of retirement against the next admission |
| Dispatch coordinator, `ori/reasoning/dispatch_coordinator.py` | claim window, in-flight hold, cooldowns | `handle_event`, `dispatch_event` and what it awaits | events that overlap while discovery awaits; a forgotten claim; who releases a trigger |
| Safety registry, `ori/safety/registry.py`, `trip_state.py`, `ori/state/_trip_journal.py` | per zone-profile pair a machine (tripped, command, record, lease, orphan); a durable journal of intents and records | `start`, `observe_reading`, `_attempt_command`, `retry_pending_once`, `retry_records_once`, the deferred startup gate | poll loop against retry loop; the journal's order; crashes between intent, driver call and record; a restart under another binding; a coil others drive too |
| Tier C approval, `action_dispatcher.py` (`_governed_approval_workflow` and what it calls), `ori/state/_tier_c.py` | durable proposal rows and safe-default intents; in memory the pending outcomes, append tasks and live unknowns | propose, listen, admit a reply, dispatch, mark started, append the outcome, close, safe default, settlement at start, closing at a stop, reconciliation | every await between two transactions; a crash anywhere; the ceiling on pending outcomes |
| Records of acts, `action_dispatcher.py` (`_defer_record`, `_record_after_holder`, `abandon_records`), `ori/state/deferred_writer.py` | record futures with their callbacks; the writer's queue, task and loss counts | `submit`, `drain`, `close`, the writer task | a stop while a write is on the store's thread; the order of callbacks; a full queue |
| Evidence, `ori/security/evidence/{first_party,chain,ledger,executor}.py`, `ori/runtime/_evidence.py`, `ori/state/_actions.py` | `action_log` status, chain, envelopes, boot counter, retained checkpoints; the worker's queue | log, attest, append, seal, tell; scan and retry at a start; checkpoint | a crash between any two of these; emission and retry of one row at once; a wait that ends before its call |
| Alert outbox, `ori/runtime/_alerts.py`, `ori/state/_alerts.py`, `ori/actions/{alert_delivery,alert_failover,sms}.py` | durable rows with status, attempts and retry order | first send, the delivery loop (receipts, then a retry batch), delivery reports | decisions from a row as it was read; a crash after acceptance; starvation of a lane or of a poll |
| Signing clock, `ori/security/signing_clock.py` | the stored mark; per clock `_last`, `_ranges`, the writer thread | `issue`, `stop`, `_serve`, `_claim` | several clocks on a store, a wall clock that steps back, a crash between claim and use |

The components meet as follows. The event bus delivers sensor events to the
dispatch coordinator, which claims each event once, opens an arbitration scope
for it and dispatches its actions, Tier D ones first. The dispatcher asks the
resource gate for the actuator; a Tier C action holds it as a proposal while
the approval workflow runs, and the workflow asks the gate again
(`reply_admitted`) before it acts. A record of each act is opened before the
act and written after it by the deferred writer; the row of a Tier C or D act
is then attested on the evidence worker. The safety registry does not go
through the gate: it makes its driver calls itself, on the sensor's poll loop and on
a retry loop, though `trip_relay` and `release_relay` of the dispatcher drive the
same coil, and journals them through the state store, whose one write lock
serialises all writers. Notices of all of these go through the alert outbox.
The signing clock shares only the state store's file.

### Left out

Remote commands, the approver registry, firmware ingest, MQTT retry, telemetry
export, the circuit breaker and the deduplicator are not modelled; each decides
within one transaction or one synchronous call, or only carries data. Safety
evaluation is a pure function whose verdict is an input here. Skill loading and
sandboxing, configuration, CLI, doctor, commissioning documents, offline-token
signatures, envelope HMACs and storage migrations are parsing, cryptography or
wiring with no interleaving of their own; what the modelled parts use of them
(a binding number, a kind of YES, a transaction) is in the models. The rule
engine and the language model decide what to propose; their result is an input.
The evidence courier (carriage, receipts, custody, registrations) is not
modelled beyond the retention of what it would carry. The mobile runtime and
the installer are programs of their own. `PROJECT.json` lists every component
with its reason.

## Status and plan

1. Done: `ResourceGate`, `SafetyRegistry`, `TierCApproval`, `SigningClock`,
   with their runs and proofs.
2. Done: `DispatchCoordinator`, `ActionRecords` with the abstract specification
   `AccountedQueue` it implements, `AlertOutbox`, `EvidenceTrail`, with their
   runs and proofs, the refinement included.
3. Next, proofs: the safety halves of more liveness properties, as
   `NoRecordDropped` and `NothingLeftBehind` are of `RecordSettles` and
   `EventSettles` (what a stopped Tier C workflow still owes, what a start's
   reconciliation still has to visit).
4. Candidates for later modules: an abstract approval that `TierCApproval`
   implements, the courier's cursor and receipts, remote commands.

## Modules

| Module | Models | TLC | Proofs |
|---|---|---|---|
| `ResourceGate` | the gate and the dispatcher around it, one resource key | `MCResourceGate` | `ResourceGateProofs` |
| `SafetyRegistry` | one zone-profile pair, its two coroutines, the store's write queue and the journal | itself | `SafetyRegistryProofs` |
| `TierCApproval` | proposals over the state store, through stops, crashes and recovery | `MCTierCApproval` | `TierCApprovalProofs` |
| `SigningClock` | clocks on one store, a wall clock | itself | `SigningClockProofs` |
| `AccountedQueue` | what the deferred writer promises of a record | through `ActionRecords` | through `ActionRecordsProofs` |
| `ActionRecords` | the dispatcher's records and the deferred writer | itself | `ActionRecordsProofs` |
| `DispatchCoordinator` | deliveries of events, claims, holds and cooldowns | `MCDispatchCoordinator` | `DispatchCoordinatorProofs` |
| `AlertOutbox` | first sends, the delivery loop, reports, and the rows they share | `MCAlertOutbox` | `AlertOutboxProofs` |
| `EvidenceTrail` | from an act's row to its envelope, and checkpoints, over several lives | itself | `EvidenceTrailProofs` |

Grain of atomicity, throughout: asyncio code between two awaits is one step;
a store operation is one transaction and so one step; a driver call is two
steps, entering it and its answer; a process may crash between any two steps
and loses what is not durable. Where a coroutine is cancelled in mid-call, the
call still runs.

### ResourceGate

`pc` is how far each dispatch has got, `holder` and `state` the gate's record
(`_records`, `HolderState`), `entries` what `_record_entries` files per event.
`Request` is `request` followed, where no operator is asked, by `mark_running`:
the dispatcher calls both with no suspension between. Hence the `RESERVED`
arms of `_opposing` cannot be reached through the dispatcher and are left out.
`CancelDriving` leaves a Tier D executor running behind the cancelled dispatch
(`asyncio.shield`), `DetachedEnds` and `ResolveUncertain` are its end and the
done-callback that tells the gate. The safe default of a gate refusal does not
actuate and is no step. `_join_completed` takes the first entry that fits; the
model takes any of them, which allows more.

### SafetyRegistry

The two `Actors` are the sensor's poll loop and the retry loop. `phase` is the
await an actor is at, `queue` the writes waiting on the store's write lock,
`durable` the part of the journal `_load_journal` looks at: its last record
and the latest intent after it. GPIO drivers answer synchronously; two steps
per driver call allow slower ones, the deferred closing command included
(`SettleGate` decides and sends it, `GateAnswered` is its answer). The poll loop
awaits that answer before it takes another reading, so no trip of the pair
arrives in between.

`coil` is what the last command that moved it made of the circuit, `line`
whether its line is taken, and `opened`, for the properties, whether the driver
has accepted an opening since the pair tripped. The registry is not alone at the
coil. `Start` takes the line de-energised, at once where that is open or where
the binding activates no profile on the zone, and leaves it to the registry's
first command where an active pair's zone closes when de-energised; the plain
`de_energised` of a zone without an active profile looks at no journal, and
neither do the dispatcher's executors (`ExecTripRelay`, `ExecReleaseRelay`). So
`coil` tells `closed`, by the registry's own closing command, from `released`,
by one of the others. The properties speak of the first; the second may happen to a
latched pair, as the observations below say. A zone with an active pair is taken to have its
actuator, on which the production posture insists. Other pairs of a zone, on
other sensors, are not modelled; with the relay driver of this repository, whose
calls have no suspension point, no other poll loop comes between the gate's
check and its command. `arm`, `reset`, `append_clear`, `retire_orphan` and `effect_report` have
no caller in the runtime, so they are no actions.

### TierCApproval

`row` and `intent` are durable, the rest is the process's memory. `phase` has
one position per proposal for its workflow and one for the settler, which
closes what an earlier process left and what a stop finds open. Inputs of the
model are the reply, whether binding and authority still match, and whether
the gate still holds the proposal; the authority snapshot is read before the
admission is awaited, and no document bounds that window. `Cancel` happens
only at a stop, because workflows are held by the coordinator's task set.
`driven` and `defaulted` record, for the properties, that the executor was
entered and the safe default attempted. Attempting a safe default twice is
allowed: it is an alert, and by `_safe_default_intent` a repeated one is "a
duplicate the contract permits".

### SigningClock

`Issue` is `issue` under its lock; `Want`, `Claim`, `Keep` are the three parts
of the writer's turn (decision under the lock, transaction without it, keeping
the range under it). The pauses of `_serve` only pace it and are not modelled.
`None` is -1, so that "the value after the last one" needs no special case.
`WallMoves` sets the wall clock to any time within the bound, either way.

### DispatchCoordinator

`phase` is the await a delivery's dispatch is at. `DiscoverTierD` is
`_discover_tier_d`'s last turn with `_hold_in_flight`, which follows it without
an await; `TripEnds` is the end of one Tier D act; `ScheduleTierD` and
`ScheduleRest` schedule the reasoning tasks; `RemainderEnds` is the done
callback that charges and releases a plan. `found`, `plans`, `holds`, `held`
are the attributes of the plans. Every trigger has a cooldown: one without is
never held and may repeat freely. Which triggers match, which skill was removed
meanwhile and whether an act was refused are inputs. `TierD` are the
triggers whose plan grants a Tier D act. A Tier D rule whose plan grants none is
matched in the immediate phase all the same, has nothing to attempt there, and
is dropped while its trigger is in flight or cooling; that mixture is not
modelled, and what is said of `TierD` does not apply to it. Claims of an empty event
identifier, which the code always accepts, and cancelled dispatches, which
nothing in the runtime produces, are left out. The arbitration scope is in
`ResourceGate`.

### ActionRecords and AccountedQueue

`future` is the record future of each dispatch, `calls` the callbacks the loop
has scheduled and not yet run, in order, `queue`, `task`, `write` the writer.
The write of a record is two things: `Land`, the commit on the store's thread,
and `WriteEnds`, what the coroutine then sees; cancelling the coroutine
(`Strand`) does not reach the thread, so the statement is `adrift` and may
still land (`LandAdrift`). `Open` is possible after the stop closed the writer:
see the observations below. `said` lists the records that were reported as
unsettled, where the code has a counter.

`AccountedQueue` is the docstring of the class as a specification: an offered
record waits or is turned away, the oldest is stored at most once, and leaves
with a fate that is true of the store; at the end only the oldest may be in
doubt. The refinement mapping is `open <- (stop = "up")`, `line <- queue`, the
other variables by name.

### AlertOutbox

The variables of a row are its columns; `order` is the rows by `retry_seq`, and
`Oldest` a read by that order with a limit. The two reads of a batch, one per
lane, are one step: the lanes share no row, and what was read is used as it was
read in any case.
`polls` and `batch` hold the rows as they were read, attempt count included, so
that what the loop decides from them may be stale. `StoreRaises` is a write of
the loop outside its `try` blocks. Channels and failover are one answer:
`accepted`; `refused` by every channel tried; `cap_spent`, none tried because each
had its cap spent; or `unsent`, none tried because no sender is available or
because asking the budget raised. The loop charges an attempt for `unsent` as for
`refused`, so an optional notice can be given up without a provider ever having
been asked. `taken` and `failures` are history: that some provider accepted the
notice, and how often the loop failed to send it, either way, or it was reported
undeliverable.

### EvidenceTrail

`row` is `attestation_status`, `chain` and `ledger` the two evidence tables,
`work` the evidence worker's queue, whose head is the call it runs, with how
far it got. `emit` and `rec` are where `_attest_action` of each row and the
start's `_reconcile_pending_attestations` are. A payload is the act and its
stamp, `at_emission` or `reconciled_late`: that is all `_reconcile_replay` can
tell apart. `BoundPasses` cancels a call the worker has not taken and only
stops waiting for one it runs. `life` and `faults` are history.

## Runs

Each run asks its questions on the smallest instance that has all the cases.

| Run | Instance | Shows |
|---|---|---|
| `gate` | 3 dispatches, 2 events; open/close at Tier C (approval) and D, or commands with no opposite at Tier B and C | one executor at a time; a coalesced Tier D rests on an act; a proposal is the holder until displaced; foreclosure; a command is asked for once; the resource comes free |
| `registry` | closed terminal, 2 bindings | trips survive; one driver call; a durable `command_issued` is true; orphans rest; the registry's own closing command never meets a trip; a trip ends in an accepted command and an owed record is written |
| `registry_loop`, `registry_reissue` | open terminal, 1 binding | *findings* below |
| `tier_c` | 2 proposals, 2 keys, ceiling 2 | one unresolved approval per outcome; rows never deny an act; act or safe default; no act over uncertainty or after the deadline |
| `tier_c_keys` | 2 proposals on zones of their own, ceiling 1 | the reservation always holds the outcome; outcomes reach their rows; safe defaults are attempted |
| `signing` | 2 clocks, reservation 2, wall clock 0 or 3, ceiling 5 | no signing time repeats; restarts add no lead; a clock is not starved of claims |
| `records` | 3 acts, one Tier D, ceiling 2 | the writer implements `AccountedQueue`; a contributor's row follows its holder's; every record of an act that reported is written, counted or said |
| `coordinator` | 3 deliveries of 2 events, window 1, a Tier D and another trigger | an event is evaluated again only past the window; one turn per cooldown; every claimed event settles, its trips attempted and nothing held |
| `outbox` | 2 notices, both mandatory or one optional, batch 1, limit 2, 1 crash | a recorded notice stays an obligation, an optional one until it failed as often as its limit; every queued row gets its turn; every accepted one is polled |
| `evidence` | 2 acts, 2 checkpoints, 2 lives, 1 refused call | one chain row and one envelope per act; signed means sealed; boots tell restarts; a start seals what was never appended |
| `evidence_lost_status` | 2 acts, 2 lives | *finding* below |

Why the bounds are enough to meet the hard cases. *Gate:* a conflict involves
an act, the opposite that meets it and one dispatch that joined or displaced
it, hence three dispatches; two events, because foreclosure is per event and
an act may be claimed in one and not in the other. *Registry:* pairs share
nothing but the write lock, whose other traffic is the delay of `WriteHead`;
two bindings give the orphan; both actors and the whole queue are explored.
*Tier C:* the uniqueness and uncertainty rules relate two proposals of a key,
and the second key lets them be unrelated; ceiling 1 makes the bound bite on
the second admission, which ceiling 2 never does. *Signing clock:* a
reservation of two is the least the code allows, the two times let the wall
clock run past a claimed range and step back under it, two clocks stand for two
of one process or one process after another, and the ceiling is the least that
lets a clock serve at the later time (that no claim passes it is proved for
every ceiling). *Records:* a holder, a contributor and a stranger
between them; the Tier D act has two records, so four meet a ceiling of two.
*Coordinator:* a window of one is overrun by one other event, and three
dispatches of one trigger can be at three different awaits. *Outbox:* a batch
of one is where both the lanes' spare slot and the order within a lane decide
who is served; the crash may fall at any step. *Evidence:* act 1 is plain, act
2 of any kind, so a repair can be watched beside a row left pending or refused;
two lives are a crash and the start that repairs it (three lives were checked
once, too long for a regular run). The safety results hold for every instance,
by the proofs; liveness and the findings rest on the runs.

Deadlock is checked in the `registry`, `tier_c` and `signing` runs; the others
have finitely many dispatches, deliveries, notices or lives, and end. Symmetry
is used in `tier_c` alone, which has no liveness property. `TypeOK` is defined
in every module; the runs of `registry` and `signing` list it, since there it
depends on the code (which statuses a journal may hold, how far a mark may go).

### Fairness

- *Gate:* a proposal ends (it has a deadline), a driver call returns, the loop
  runs the callback of a finished task. Nothing is assumed of operators.
- *Registry:* the loop runs ready coroutines and the writer its queue; a
  driver asked for ever accepts at last and the store takes each kind of write
  at last (strong fairness, as both may fail any number of times before).
  Without these the retry loop, which has no terminal limit, has nothing to
  promise. The properties speak of a process that stays up with its retry loop
  alive; that it may die is a finding.
- *Tier C:* the runtime is started again, ready tasks run, deadlines come, and
  the store at last takes an outcome. The executor answers, because drivers are
  bounded; nothing is assumed of what it answers, nor of the operator. `OutcomeLands` speaks of proposals whose executor was entered:
  an approval that never got there and whose close was lost stays in flight
  until the next start, by design.
- *Signing clock:* the writer thread runs, and a store that could take the
  claim again and again takes it at last.
- *Records:* the loop runs what it scheduled, a write ends, a back-off ends
  (`_RETRY_MAX_S`), and a store that is busy is not busy every time. Nothing is
  assumed of acts: `RecordSettles` starts where one has reported.
- *Coordinator:* the loop runs a scheduled dispatch; an act and a reasoning task
  end, since what they wait for is bounded in time. Nothing is assumed of the
  arrival of events or of the cooldown clock.
- *Outbox:* the loop's task is scheduled and its calls return; the store's reads
  do not fail every time. Nothing is assumed of how a send ends: that
  is the point of both liveness properties, which hold while the loop lives.
- *Evidence:* the worker's thread and the start's own task run while the process
  does. `GapRepaired` speaks of a start in which no call is refused any more.

## Findings

1. `registry_loop` - `run_retry_loop` "stops only on shutdown". A reading's
   attempt and the loop's attempt can both pass `outcome_retry` and await their
   intents; the later one meets the lease in `begin_driver_attempt`, whose
   `CommandSequenceError` nothing catches, and the retry task ends.
2. `registry_reissue` - "An accepted command is never re-issued". The second
   attempt's intent can be appended behind the first one's `command_issued`
   record; a restart takes it for an unresolved attempt and commands again.
3. `evidence_lost_status` - `attest_action` says that retrying a row "whose
   append succeeded but whose status update was lost returns the existing seq",
   and `_append_and_seal_sync` that a crash between its steps "is repaired by
   retrying". The retry of a start stamps the payload `reconciled_late`, the
   emission `at_emission`, and `_reconcile_replay` raises on a payload that
   differs: the row is marked failed by this and every later start, and a crash
   between append and seal leaves a chain row no envelope carries.

Observed while modelling, with no run of their own:

- `docs/DISPATCH_PLAN.md:356-360` promises that an event does not ask again
  after an invalidated proposal whose operator was asked. The entry that
  prevents it is filed when the proposal's workflow retires; before that, a
  request of the same event for an outcome of a zone asks again.
  `CommandAskedOnce` states what does hold.
- `DeferredStartupGate` (`trip_state.py:428`) and its test say that "a latched
  zone's circuit is closed only by reset". The gate keeps to it, but
  `release_relay` closes the same circuit without asking for the latch, once the
  trip command itself has taken the line, and the accepted trip command is not
  issued again. A start whose binding activates no profile on the zone commands
  plain `de_energised` over a durable trip, which `docs/STARTUP_STAGES.md:180-184`
  says would release a durable latch. TLC finds the first in seven states (trip,
  accepted opening, release) when asked that an open circuit of a latched pair
  stays open.
- `_shutdown.py:104-107` says that no act starts after its records are closed,
  because the sensor loops are stopped. Dispatches the coordinator scheduled
  are neither drained nor cancelled, and may open their records later; the
  writer counts them, so the accounting stands.
- The delivery loop's store writes stand outside its `try` blocks: one that
  raises ends the task, and nothing starts another, while the log of a failing
  mandatory notice says it "will keep retrying". A malformed row is skipped
  where it stands and keeps its place in each batch. A message accepted without
  a provider identifier is never polled.
- A start that refuses an unlicensed row writes outside a `try`: a store that
  raises there ends the start. `get_actions_needing_attestation` reads 500 rows,
  so as many rows that fail for good would hide later ones.

## Proofs

Every theorem is of the form `Spec => []P`, `Spec => [][A]_vars` or, for the
refinement, `Spec => Accounted!Spec`, for every value of the constants under the
assumptions of the module:

| Module | Assumed of the constants |
|---|---|
| `ResourceGate` | Tier C requests ask for approval, Tier D ones do not, and a trip is dispatched for an event |
| `SafetyRegistry` | the terminal state is one of two; "no intent" is no binding |
| `TierCApproval` | the ceiling is positive and proposals are finitely many |
| `SigningClock` | a reservation of at least two (the code's own minimum), a positive low water, a ceiling of at least a reservation |
| `DispatchCoordinator` | each delivery carries an event; no trigger is both Tier D and another; the window is positive |
| `ActionRecords` | Tier D acts are acts, the ceiling is positive, "no holder" is no act |
| `EvidenceTrail` | acts are positive numbers, as `action_log` identifiers are; the bounds are naturals |
| `AlertOutbox` | each notice is mandatory or optional; batch and limit are positive; notices are finitely many |

TLC evaluates them on each run. No property is inductive as it stands; each
module has an inductive invariant (`IInv`, `Inv`, or `ClaimInv`, `TurnInv` and
`SettleInv` for the coordinator), checked with TLC on the run's instance before it was proved.

- `ResourceGateProofs` (`TypeCorrect`, `MutualExclusion`, `TripsRestOnActs`,
  `ProposalsHeld`, `Foreclosure`). `IInv` ties `pc` to the holder's record
  (`HolderInv`), says entries exist only in open events and tell the truth
  (`EntryInv`), that each finished act is answered for at its claim's tier in
  every open event that claims it (`ClaimInv`), and that a waiting proposal
  outranks every opposing entry (`ProposalInv`). The last is what
  `reply_admitted` rests on, since it does not look at the entries.
  `CommandsAskedOnce` adds `AskInv` (only a zone's proposals are displaced; an
  ask that came to nothing is filed; who is about to ask for a command has no
  such ask before it) and one hypothesis, `TierDIsForZones`, which is the
  registry's own rule that Tier D is reached only through a zone's outcome. It
  is needed: a command at Tier D from another event would displace the first
  ask, and until that one retires nothing would stop a second.
- `SafetyRegistryProofs` (`TypeCorrect`, `TripLatched`, `SingleDriverCall`,
  `RecordTruthful`, `OrphansRest`, `NoClosing`). `IInv` adds that whoever is in
  the driver holds the lease, that an untripped pair has nothing queued and
  both coroutines at rest, that the closing command is with the driver only
  while the pair has not tripped (the one poll loop awaits its answer), that a
  queued or durable `command_issued` follows an accepted opening and no closing
  command of the registry since, and that the tail of the journal is of this binding unless
  orphaned.
- `TierCApprovalProofs` (`TypeCorrect`, `SingleApproval`, `RowsAdmitActs`,
  `NeverBoth`, `DefaultOwed`, `ReservationHolds`, `ActsOverNoUncertainty`,
  `ActsInTime`). `IInv` says, per proposal, which row goes with which position
  of its workflow and settler and with its pending outcome (`Sound`), and counts
  the reservations (`Reserved`): pending outcomes and approvals on their way to
  one are together never more than the ceiling.
- `SigningClockProofs` (`TypeCorrect`, `RestartsAddNoLead`,
  `SigningTimesFresh`). `IInv` says that what the clocks own is disjoint, at or
  below the stored mark, and, where already issued, at or below the owner's
  `_last`; a claim starts past the mark and so meets nothing owned or issued.

- `DispatchCoordinatorProofs` (`TypeCorrect`, `ReclaimsOnlyPastWindow`,
  `TurnsDoNotOverlap`, `HeldByOne`, `NothingLeftBehind`). For the claims the
  invariant says that the window is the tail of all claims made, as long as it
  may be, and names no event twice; so an event that was forgotten has a whole
  window of others behind it. For the turns it says that a trigger in flight is
  held by one dispatch, that what reasons holds its trigger, and that while Tier
  D acts run the plans a dispatch may still schedule are held by it and out of
  cooldown. `NothingLeftBehind` is the state `EventSettles` says is reached,
  without that it is reached.
- `ActionRecordsProofs` (`TypeCorrect`, `WriterIsAccounted`,
  `ContributorComesAfter`, `NoRecordDropped`). For the writer the invariant says
  that the queue holds the waiting records, each once, that there is a task
  exactly while there is a queue, and that what is stored, in flight or adrift
  agrees with its fate. With it every step of `ActionRecords` is a step of
  `AccountedQueue` or leaves its variables alone, action by action. For the
  order it says that a record is handed over once, after its future is done,
  that a contributor waits behind one future, and that wherever a contributor's
  row is (scheduled, queued, adrift) its holder's is ahead of it, stored, or
  excused; the last is `ContributorFollowsHolder` carried back to the callbacks.
- `EvidenceTrailProofs` (`TypeCorrect`, `OneRowOneEnvelope`, `SignedIsSealed`,
  `BootsTellRestarts`). The invariant says that only the head of the worker's
  queue is under way, that an appended act has its chain row, that
  reconciliation has one call at most, for the row it is at, that who was told
  of a sequence number was told of an envelope, and that a claimed boot is the
  counter's and no earlier life's. `OneRowOneEnvelope` is the reason the status
  may be lost at any point: append and seal look the act up by its identifier.
- `AlertOutboxProofs` (`TypeCorrect`, `ObligationsKept`, `TriedRowsGoLast`). The
  loop decides from rows it read earlier. The invariant says that no count has
  fallen since they were read, that a row is charged no more attempts than really
  failed, and that the failure the loop is about to charge is one more; so a limit
  reached by the old count is reached by the failures. `TriedRowsGoLast` is the
  step behind both liveness properties: a row that was tried or polled and
  stays in its lane goes behind every other, and no row is overtaken except by going
  to the end itself, so those ahead of a waiting row only become fewer.
  The reads were written as
  `Oldest`, since the provers know nothing of a filtered sequence; the run has
  the same states as with one.

Only model-checked: the liveness properties (fairness and `ENABLED` are out of
the prover's reach) and the findings. That `Oldest` always has a member is seen
by TLC (a read that had none would stop the loop, and the liveness properties
with it) and not proved, since it takes an induction over the rows. No module
uses a recursive operator.
