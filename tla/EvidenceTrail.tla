---------------------------- MODULE EvidenceTrail ----------------------------
(***************************************************************************)
(* From the action log to the evidence chain: an act's row is committed    *)
(* first, as "pending"; the act is then signed into the chain and sealed   *)
(* into a delivery envelope by the evidence worker (two transactions on    *)
(* one thread), and the row is told.  The process may die between any two  *)
(* of these steps, and every start retries the rows left behind, while     *)
(* the dispatches of the new life already log and sign theirs.  The same   *)
(* worker signs checkpoints under the boot identifier of its life.         *)
(*                                                                         *)
(* Sources: ori/security/evidence/{first_party,chain,ledger,executor}.py,  *)
(* ori/runtime/_evidence.py, ori/reasoning/action_dispatcher.py,           *)
(* ori/state/_actions.py.                                                  *)
(***************************************************************************)
EXTENDS Naturals, Sequences, SequencesExt, FiniteSetsExt

CONSTANTS
  Acts,           \* action_log row identifiers, in the order of the scan
  Plain,          \* bound: the acts that are plain; another is of any kind
  MaxLives,       \* bound: how often the process starts
  MaxFaults,      \* bound: how often a call is refused or raises
  MaxCheckpoints  \* bound: how many checkpoints are retained

ASSUME ActsAssumption == Acts \subseteq Nat \ {0}
ASSUME BoundsAssumption == MaxLives \in Nat /\ MaxFaults \in Nat /\ MaxCheckpoints \in Nat

VARIABLES
  row,     \* durable: action_log.attestation_status, "absent" before the insert
  kind,    \* durable: what the row says of its act: a plain one, one that rests
           \* on a firmware reading, one whose licence cannot be replayed
  chain,   \* durable: evidence_chain, in chain order
  ledger,  \* durable: evidence_delivery_ledger; a place is a local_seq
  counter, \* durable: evidence_boot_counter
  outbox,  \* durable: the checkpoints of evidence_outbox, oldest first
  work,    \* the worker's queue; its head is the call it runs or runs next
  emit,    \* the attestation that follows each insert (_attest_action)
  rec,     \* the start's reconciliation (_reconcile_pending_attestations)
  todo,    \* the rows its scan read and it has not come to
  boot,    \* the ledger instance's boot identifier, 0 before it is claimed
  up,      \* whether the process runs
  life,    \* history: how often it was started
  faults   \* history: refused calls

evidence == <<chain, ledger, counter, outbox>>
durable == <<row, kind, evidence>>
history == <<life, faults>>
vars == <<durable, work, emit, rec, todo, boot, up, history>>

Statuses == {"absent", "pending", "signed", "failed", "reconciled", "refused"}
Kinds == {"plain", "firmware", "unlicensed"}
Stamps == {"at_emission", "reconciled_late"}
Checkpoint == 0
Calls == [act : Acts \cup {Checkpoint}, stamp : Stamps,
          at : {"queued", "appended", "numbered"}]
Call(a, stamp) == [act |-> a, stamp |-> stamp, at |-> "queued"]

TypeOK ==
  /\ row \in [Acts -> Statuses] /\ kind \in [Acts -> Kinds]
  /\ chain \in Seq([act : Acts, stamp : Stamps])
  /\ ledger \in Seq(Acts)
  /\ counter \in Nat /\ boot \in 0..counter
  /\ outbox \in Seq([boot : Nat, high : Nat, life : Nat])
  /\ work \in Seq(Calls)
  /\ emit \in [Acts ->
                {"idle", "logged", "asking", "seq", "none", "unlicensed"}]
  /\ rec \in {"off", "due", "pass", "asking", "seq", "none"}
  /\ todo \subseteq Acts
  /\ up \in BOOLEAN
  /\ life \in 0..MaxLives /\ faults \in 0..MaxFaults

Init ==
  /\ row = [a \in Acts |-> "absent"] /\ kind = [a \in Acts |-> "plain"]
  /\ chain = <<>> /\ ledger = <<>> /\ counter = 0 /\ outbox = <<>>
  /\ work = <<>> /\ emit = [a \in Acts |-> "idle"] /\ rec = "off" /\ todo = {}
  /\ boot = 0 /\ up = FALSE /\ life = 0 /\ faults = 0

Attested(a) == \E i \in DOMAIN chain : chain[i].act = a
Sealed(a) == \E i \in DOMAIN ledger : ledger[i] = a

\* A store, or the worker at its ceiling or closed, refuses a call.
Fault == faults < MaxFaults /\ faults' = faults + 1

-----------------------------------------------------------------------------
(* The life of the process *)

Start ==
  /\ ~up /\ life < MaxLives
  /\ up' = TRUE /\ life' = life + 1 /\ rec' = "due"
  /\ UNCHANGED <<durable, work, emit, todo, boot, faults>>

\* Whatever was queued, awaited or claimed in memory is gone.
GoDown ==
  /\ up' = FALSE /\ work' = <<>> /\ emit' = [a \in Acts |-> "idle"]
  /\ rec' = "off" /\ todo' = {} /\ boot' = 0

Crash == up /\ GoDown /\ UNCHANGED <<durable, history>>

-----------------------------------------------------------------------------
(* Emission: the row is inserted, then attested *)

\* _log_action: the insert takes the next row identifier and commits
\* "pending", and _attest_action begins.
LogAction(a) ==
  /\ up /\ row[a] = "absent" /\ \A b \in Acts : b < a => row[b] # "absent"
  /\ row' = [row EXCEPT ![a] = "pending"]
  /\ \E k \in Kinds : /\ a \in Plain => k = "plain"
                      /\ kind' = [kind EXCEPT ![a] = k]
  /\ emit' = [emit EXCEPT ![a] = "logged"]
  /\ UNCHANGED <<evidence, work, rec, todo, boot, up, history>>

\* _attest_action up to its call of attest_action: a firmware reading whose
\* epoch is not confirmed, or not in time, leaves the row pending.
LeavePending(a) ==
  /\ emit[a] = "logged" /\ kind[a] = "firmware"
  /\ emit' = [emit EXCEPT ![a] = "idle"]
  /\ UNCHANGED <<durable, work, rec, todo, boot, up, history>>

\* attest_action up to its await: the payload is built, or cannot be, and the
\* call is given to the worker, or refused by it.
Attest(a) ==
  /\ emit[a] = "logged"
  /\ \/ /\ kind[a] = "unlicensed"
        /\ emit' = [emit EXCEPT ![a] = "unlicensed"]
        /\ UNCHANGED <<work, faults>>
     \/ /\ kind[a] # "unlicensed"
        /\ emit' = [emit EXCEPT ![a] = "asking"]
        /\ work' = Append(work, Call(a, "at_emission")) /\ UNCHANGED faults
     \/ /\ Fault /\ emit' = [emit EXCEPT ![a] = "none"] /\ UNCHANGED work
  /\ UNCHANGED <<durable, rec, todo, boot, up, life>>

\* The worker may be running the emission of a.
Runs(a) == work # <<>> /\ Head(work).act = a /\ Head(work).stamp = "at_emission"

\* The bound on the wait passes: a call the worker has not taken is
\* cancelled, one it runs goes on and is answered to nobody.
BoundPasses(a) ==
  /\ emit[a] = "asking"
  /\ emit' = [emit EXCEPT ![a] = "idle"]
  /\ \/ \E i \in DOMAIN work :
          work[i] = Call(a, "at_emission") /\ work' = RemoveAt(work, i)
     \/ Runs(a) /\ UNCHANGED work
  /\ UNCHANGED <<durable, rec, todo, boot, up, history>>

\* The status the answer calls for; a store that refuses it is asked for
\* "failed", and may refuse that too.
EmissionTold(a) ==
  /\ emit[a] \in {"seq", "none", "unlicensed"}
  /\ LET status == CASE emit[a] = "seq" -> "signed"
                     [] emit[a] = "none" -> "failed"
                     [] emit[a] = "unlicensed" -> "refused"
     IN \/ row' = [row EXCEPT ![a] = status] /\ UNCHANGED faults
        \/ Fault /\ row' = [row EXCEPT ![a] = "failed"]
        \/ Fault /\ UNCHANGED row
  /\ emit' = [emit EXCEPT ![a] = "idle"]
  /\ UNCHANGED <<kind, evidence, work, rec, todo, boot, up, life>>

\* Mutant: the scan takes only the rows nobody has tried.
NeedAttestationUntried == {a \in Acts : row[a] = "pending"}

-----------------------------------------------------------------------------
(* Reconciliation: once in each start *)

NeedAttestation == {a \in Acts : row[a] \in {"pending", "failed"}}

Scan ==
  /\ rec = "due" /\ rec' = "pass"
  /\ \/ todo' = NeedAttestation /\ UNCHANGED faults
     \/ Fault /\ todo' = {}
  /\ UNCHANGED <<durable, work, emit, boot, up, life>>

\* The next row of the scan: left pending without its firmware confirmation,
\* refused without its licence (a store that refuses that write ends the
\* start), or given to the worker.
Retry ==
  /\ rec = "pass" /\ todo # {}
  /\ LET a == Min(todo)
     IN \/ /\ kind[a] = "firmware"
           /\ todo' = todo \ {a}
           /\ UNCHANGED <<row, work, rec, emit, boot, up, faults>>
        \/ /\ kind[a] = "unlicensed"
           /\ row' = [row EXCEPT ![a] = "refused"] /\ todo' = todo \ {a}
           /\ UNCHANGED <<work, rec, emit, boot, up, faults>>
        \/ kind[a] = "unlicensed" /\ Fault /\ GoDown /\ UNCHANGED row
        \/ /\ kind[a] # "unlicensed"
           /\ work' = Append(work, Call(a, "reconciled_late"))
           /\ rec' = "asking"
           /\ UNCHANGED <<row, todo, emit, boot, up, faults>>
        \/ /\ Fault /\ rec' = "none"
           /\ UNCHANGED <<row, todo, work, emit, boot, up>>
  /\ UNCHANGED <<kind, evidence, life>>

RetryTold ==
  /\ rec \in {"seq", "none"} /\ rec' = "pass"
  /\ LET a == Min(todo)
         status == IF rec = "seq" THEN "reconciled" ELSE "failed"
     IN /\ todo' = todo \ {a}
        /\ \/ row' = [row EXCEPT ![a] = status] /\ UNCHANGED faults
           \/ Fault /\ UNCHANGED row
  /\ UNCHANGED <<kind, evidence, work, emit, boot, up, life>>

-----------------------------------------------------------------------------
(* The evidence worker: one call at a time, in the order they were given *)

Busy(at) == work # <<>> /\ Head(work).at = at
Advance(at) == work' = [work EXCEPT ![1].at = at]

\* The call ends, and whoever still awaits it is told; a call whose wait was
\* abandoned tells nobody.
Answer(answer) ==
  LET call == Head(work)
      theirs == call.act # Checkpoint /\ call.stamp = "at_emission"
  IN /\ work' = Tail(work)
     /\ emit' = IF theirs /\ emit[call.act] = "asking"
                THEN [emit EXCEPT ![call.act] = answer] ELSE emit
     /\ rec' = IF call.stamp = "reconciled_late" THEN answer ELSE rec

\* Mutant: the append does not look its event up.
ChainAppendBlind ==
  /\ Busy("queued") /\ Head(work).act # Checkpoint
  /\ LET call == Head(work)
     IN chain' = Append(chain, [act |-> call.act, stamp |-> call.stamp])
  /\ Advance("appended")
  /\ UNCHANGED <<row, kind, ledger, counter, outbox, emit, rec, todo, boot, up,
                 history>>

\* EvidenceChain.append: a row of this event that says the same is returned.
\* One whose payload differs (the stamp is part of it) raises.
ChainAppend ==
  /\ Busy("queued") /\ Head(work).act # Checkpoint
  /\ LET entry == [act |-> Head(work).act, stamp |-> Head(work).stamp]
     IN \/ /\ ~Attested(entry.act)
           /\ chain' = Append(chain, entry) /\ Advance("appended")
           /\ UNCHANGED <<emit, rec>>
        \/ /\ Contains(chain, entry)
           /\ Advance("appended") /\ UNCHANGED <<chain, emit, rec>>
        \/ /\ Attested(entry.act) /\ ~Contains(chain, entry)
           /\ Answer("none") /\ UNCHANGED chain
  /\ UNCHANGED <<row, kind, ledger, counter, outbox, todo, boot, up, history>>

\* EvidenceDeliveryLedger.seal: the next local_seq, or the envelope there is.
Seal ==
  /\ Busy("appended")
  /\ ledger' = IF Sealed(Head(work).act) THEN ledger
               ELSE Append(ledger, Head(work).act)
  /\ Answer("seq")
  /\ UNCHANGED <<row, kind, chain, counter, outbox, todo, boot, up, history>>

\* Mutant: a failure after the append is logged and the seq returned.
WorkRaisesUnnoticed ==
  /\ work # <<>> /\ Fault /\ Answer("seq")
  /\ UNCHANGED <<durable, todo, boot, up, life>>

\* Any of the worker's transactions may fail; a checkpoint is also given up
\* when an authority's disposition stopped the identity's offers.
WorkRaises ==
  /\ work # <<>> /\ Fault /\ Answer("none")
  /\ UNCHANGED <<durable, todo, boot, up, life>>

-----------------------------------------------------------------------------
(* Checkpoints *)

\* The interval elapsed, or the process is about to stop.  The loop awaits
\* its call, and the stop's would only wait behind it.
AskCheckpoint ==
  /\ up /\ Len(outbox) < MaxCheckpoints
  /\ \A i \in DOMAIN work : work[i].act # Checkpoint
  /\ work' = Append(work, Call(Checkpoint, "at_emission"))
  /\ UNCHANGED <<durable, emit, rec, todo, boot, up, history>>

\* Mutant: the boot is counted in memory and never claimed in the store.
ClaimBootInMemory ==
  /\ Busy("queued") /\ Head(work).act = Checkpoint
  /\ Advance("numbered")
  /\ boot' = counter + 1
  /\ UNCHANGED <<durable, emit, rec, todo, up, history>>

\* boot_id: claimed durably by the first checkpoint of the instance, then held.
ClaimBoot ==
  /\ Busy("queued") /\ Head(work).act = Checkpoint
  /\ Advance("numbered")
  /\ counter' = IF boot = 0 THEN counter + 1 ELSE counter
  /\ boot' = IF boot = 0 THEN counter + 1 ELSE boot
  /\ UNCHANGED <<row, kind, chain, ledger, outbox, emit, rec, todo, up, history>>

\* The checkpoint is signed over the high water and the boot, and retained.
RetainCheckpoint ==
  /\ Busy("numbered")
  /\ outbox' =
       Append(outbox, [boot |-> boot, high |-> Len(ledger), life |-> life])
  /\ Answer("seq")
  /\ UNCHANGED <<row, kind, chain, ledger, counter, todo, boot, up, history>>

-----------------------------------------------------------------------------
Worker == ChainAppend \/ Seal \/ WorkRaises \/ ClaimBoot \/ RetainCheckpoint

Next ==
  \/ Start \/ Crash \/ Scan \/ Retry \/ RetryTold \/ Worker \/ AskCheckpoint
  \/ \E a \in Acts : LogAction(a) \/ LeavePending(a) \/ Attest(a)
                     \/ BoundPasses(a) \/ EmissionTold(a)

Spec == Init /\ [][Next]_vars

\* The worker's thread and the start's own task run while the process does.
Fairness == WF_vars(Worker) /\ WF_vars(Scan \/ Retry \/ RetryTold)
FairSpec == Spec /\ Fairness

-----------------------------------------------------------------------------
(* Properties *)

\* However often and by whomever an act is attested (the emission, a late
\* call whose wait was abandoned, the start's retry), it has at most one
\* chain row and one envelope, and no envelope lacks its chain row.
AttestedOnce ==
  /\ \A i, j \in DOMAIN chain : chain[i].act = chain[j].act => i = j
  /\ \A i, j \in DOMAIN ledger : ledger[i] = ledger[j] => i = j
  /\ \A i \in DOMAIN ledger : Attested(ledger[i])

\* A row that says its act is signed has an envelope a courier can carry, so
\* what cannot be carried stays visible as a gap in the action log.
SignedMeansSealed ==
  \A a \in Acts : row[a] \in {"signed", "reconciled"} => Sealed(a)

\* Retained checkpoints tell an authority of the restarts between them: two
\* carry one boot identifier exactly when one life signed them, later lives
\* carry larger ones, and the high water never falls.
BootTellsRestarts ==
  \A i, j \in DOMAIN outbox : i < j =>
    /\ outbox[i].high <= outbox[j].high
    /\ outbox[i].boot <= outbox[j].boot
    /\ outbox[i].boot = outbox[j].boot <=> outbox[i].life = outbox[j].life

\* A row the chain has not seen when a start begins, which nothing refuses,
\* is sealed by that start unless the process goes down first.
GapRepaired ==
  \A a \in Acts :
    (/\ rec = "due" /\ faults = MaxFaults
     /\ kind[a] = "plain" /\ row[a] \in {"pending", "failed"} /\ ~Attested(a))
      ~> (Sealed(a) \/ ~up)

\* The docstrings of attest_action and _append_and_seal_sync: a row whose
\* append succeeded but whose status update was lost is repaired by retrying
\* it, so a start that finds one, with no call refused, marks it reconciled.
LostStatusRepaired ==
  \A a \in Acts :
    (/\ rec = "due" /\ faults = MaxFaults
     /\ kind[a] = "plain" /\ row[a] = "pending" /\ emit[a] = "idle" /\ Attested(a))
      ~> (row[a] = "reconciled" \/ ~up)
=============================================================================
