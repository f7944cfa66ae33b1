---------------------------- MODULE AlertOutbox ----------------------------
(***************************************************************************)
(* The alert outbox: first sends (_send_or_queue_alert and                 *)
(* _send_or_queue_safety_alert), the delivery loop that retries rows and   *)
(* polls receipts (ori/runtime/_alerts.py), the provider's own delivery    *)
(* reports, and the rows of ori/state/_alerts.py they all write.           *)
(*                                                                         *)
(* Every store call and every provider call is awaited, so each is a step  *)
(* of its own.  No row operation compares the row with what its caller     *)
(* read, and a first send and the loop may both be submitting one row.     *)
(* What a provider answers, whether a preference or the monthly cap        *)
(* withholds an optional notice, and when the store raises are inputs.     *)
(* Channels, failover among them and the wording of a notice are left out: *)
(* a send is accepted, refused by every channel it may use, finds the cap  *)
(* of each spent, or submits nothing, for want of an available sender or   *)
(* because asking the budget raises.  The loop charges that last outcome   *)
(* like a refusal.  retry_seq is kept as an order of the rows.             *)
(***************************************************************************)
EXTENDS Naturals, Sequences, FiniteSets, SequencesExt

CONSTANTS
  Alerts,      \* notices, by their alert_id
  Kinds,       \* what kinds they may be of
  Batch,       \* _alert_outbox_batch_size
  Limit,       \* _alert_outbox_max_non_tier_d_attempts
  MaxCrashes   \* bound: how often the process dies

ASSUME KindsAssumption == Kinds \subseteq [Alerts -> {"mandatory", "optional"}]
ASSUME SizesAssumption == Batch \in Nat \ {0} /\ Limit \in Nat \ {0}
ASSUME BoundsAssumption == IsFiniteSet(Alerts) /\ MaxCrashes \in Nat

VARIABLES
  kind,       \* whether notice_kind is optional or any other value
  status,     \* alert_outbox.status, or "none" for no row
  attempts,   \* attempt_count of an optional row, up to Limit
  order,      \* the rows by retry_seq
  delivered,  \* whether delivered_at_ms is set, or there is no message to poll
  first,      \* the first send of each notice
  loop,       \* where the delivery loop is
  polls,      \* the awaiting rows it read, yet to be polled
  batch,      \* the queued rows it read, yet to be retried
  answer,     \* what the provider said of the row the loop is at
  spare,      \* _mandatory_takes_spare_slot
  taken,      \* notices some provider call accepted
  failures,   \* the loop's tries of a notice that failed, and terminal reports on it
  crashes

\* notice_is_mandatory
Mandatory == {a \in Alerts : kind[a] = "mandatory"}
Optional  == Alerts \ Mandatory

rows  == <<status, attempts, order, delivered>>
world == <<kind, taken, failures, crashes>>
vars  == <<kind, status, attempts, order, delivered, first, loop, polls, batch, answer,
           spare, taken, failures, crashes>>

Queued == {"pending", "failed"}

Init ==
  /\ kind \in Kinds
  /\ status = [a \in Alerts |-> "none"]
  /\ attempts = [a \in Alerts |-> 0]
  /\ order = <<>>
  /\ delivered = [a \in Alerts |-> FALSE]
  /\ first = [a \in Alerts |-> "idle"]
  /\ loop = "waiting"
  /\ polls = <<>>
  /\ batch = <<>>
  /\ answer = "none"
  /\ spare = TRUE
  /\ taken = {}
  /\ failures = [a \in Alerts |-> 0]
  /\ crashes = 0

-----------------------------------------------------------------------------
(* Operations on the rows, each one transaction *)

\* The next retry_seq: behind every other row.
ToTheBack(a) == Append(RemoveFirst(order, a), a)

AtMost(x, y) == IF x < y THEN x ELSE y

Ahead(a, b) == \E i, j \in DOMAIN order : i < j /\ order[i] = a /\ order[j] = b

\* The rows of S by retry_seq, as many as a read returns: one sequence.
Oldest(S, n) ==
  {s \in [1..AtMost(Cardinality(S), n) -> S] :
     /\ \A i, j \in DOMAIN s : i < j => Ahead(s[i], s[j])
     /\ \A i \in DOMAIN s, a \in S : a \in Range(s) \/ Ahead(s[i], a)}

\* What a caller keeps of the rows it read.
AsRead(s) == [i \in DOMAIN s |-> [alert |-> s[i], attempts |-> attempts[s[i]]]]

\* Only an optional row's count decides anything.
OneMore(count, a) ==
  [count EXCEPT ![a] = IF a \in Optional /\ @ < Limit THEN @ + 1 ELSE @]

\* The insert of a notice's only row: one already recorded is not queued or
\* sent again (ON CONFLICT DO NOTHING).
EnqueueAlert(a) ==
  /\ status' = [status EXCEPT ![a] = "pending"]
  /\ order' = ToTheBack(a)
  /\ UNCHANGED <<attempts, delivered>>

\* Some providers report delivery with the acceptance, or give the message no
\* identifier to ask for it by.
MarkAlertAccepted(a) ==
  /\ status' = [status EXCEPT ![a] = "accepted"]
  /\ order' = ToTheBack(a)
  /\ \E known \in BOOLEAN : delivered' = [delivered EXCEPT ![a] = known]
  /\ UNCHANGED attempts

MarkAlertAttemptFailed(a) ==
  /\ status' = [status EXCEPT ![a] = "failed"]
  /\ attempts' = OneMore(attempts, a)
  /\ order' = ToTheBack(a)
  /\ UNCHANGED delivered

DeferAlert(a) ==
  /\ order' = IF status[a] \in Queued THEN ToTheBack(a) ELSE order
  /\ UNCHANGED <<status, attempts, delivered>>

\* Mutant: a row whose receipt settled nothing keeps its place.
RequeueNowhere(a) == UNCHANGED rows

RequeueReceiptPoll(a) ==
  /\ order' = IF status[a] = "accepted" /\ ~delivered[a] THEN ToTheBack(a) ELSE order
  /\ UNCHANGED <<status, attempts, delivered>>

\* A receipt or a report is applied to an accepted row only.
RecordDeliveryStatus(a, terminal) ==
  IF status[a] # "accepted" THEN UNCHANGED rows
  ELSE IF terminal
  THEN /\ status' = [status EXCEPT ![a] = "failed"]
       /\ attempts' = OneMore(attempts, a)
       /\ order' = ToTheBack(a)
       /\ UNCHANGED delivered
  ELSE /\ delivered' = [delivered EXCEPT ![a] = TRUE]
       /\ UNCHANGED <<status, attempts, order>>

\* The store abandons only an optional row, whoever asks.
MarkAlertAbandoned(a) ==
  /\ status' = IF a \in Optional THEN [status EXCEPT ![a] = "abandoned"] ELSE status
  /\ UNCHANGED <<attempts, order, delivered>>

-----------------------------------------------------------------------------
(* The provider, external *)

\* A send: an optional notice may find every channel's cap spent, and any may
\* find no sender to submit through.
Answers(a) ==
  {"accepted", "refused", "unsent"} \cup (IF a \in Optional THEN {"cap_spent"} ELSE {})

\* Outcomes the loop charges an attempt for.
Failed == {"refused", "unsent"}

Heard(a, result) == taken' = IF result = "accepted" THEN taken \cup {a} ELSE taken

\* A message the provider took may later be reported undeliverable.
HeardLater(a, terminal) ==
  /\ failures' = IF terminal THEN OneMore(failures, a) ELSE failures
  /\ UNCHANGED <<kind, taken, crashes>>

-----------------------------------------------------------------------------
(* First sends *)

looping == <<loop, polls, batch, answer, spare>>

\* The notice is recorded before anything is submitted.
Queue(a) ==
  /\ first[a] = "idle"
  /\ first' = [first EXCEPT ![a] = "sending"]
  /\ EnqueueAlert(a)
  /\ UNCHANGED <<looping, world>>

\* A preference or the cap withholds an optional notice: no row, no send.
Withhold(a) ==
  /\ first[a] = "idle"
  /\ a \in Optional
  /\ first' = [first EXCEPT ![a] = "done"]
  /\ UNCHANGED <<rows, looping, world>>

Submit(a, result) ==
  /\ first[a] = "sending"
  /\ result \in Answers(a)
  /\ first' = [first EXCEPT ![a] = IF result = "accepted" THEN "accepted" ELSE "done"]
  /\ Heard(a, result)
  /\ UNCHANGED <<rows, looping, kind, failures, crashes>>

RecordAcceptance(a) ==
  /\ first[a] = "accepted"
  /\ first' = [first EXCEPT ![a] = "done"]
  /\ MarkAlertAccepted(a)
  /\ UNCHANGED <<looping, world>>

\* The store raises instead: the caller's, and the row stays as it is.
AcceptanceNotRecorded(a) ==
  /\ first[a] = "accepted"
  /\ first' = [first EXCEPT ![a] = "done"]
  /\ UNCHANGED <<rows, looping, world>>

-----------------------------------------------------------------------------
(* The delivery loop: reconcile receipts *)

\* Accepted rows that have no delivery receipt yet.
Awaiting == {a \in Alerts : status[a] = "accepted" /\ ~delivered[a]}

\* The retry interval passed.  A failed fetch polls nothing this time.
Wake(fetched) ==
  /\ loop = "waiting"
  /\ loop' = "polling"
  /\ \E read \in Oldest(Awaiting, Batch) : polls' = IF fetched THEN AsRead(read) ELSE <<>>
  /\ UNCHANGED <<rows, first, batch, answer, spare, world>>

polled == Head(polls).alert

\* What the provider says of an accepted message, or nothing that settles it.
Poll(receipt) ==
  /\ loop = "polling"
  /\ polls # <<>>
  /\ answer = "none"
  /\ answer' = receipt
  /\ HeardLater(polled, receipt = "terminal")
  /\ UNCHANGED <<rows, first, loop, polls, batch, spare>>

ApplyReceipt ==
  /\ loop = "polling"
  /\ polls # <<>>
  /\ CASE answer = "unsettled" -> RequeueReceiptPoll(polled)
       [] answer = "delivered" -> RecordDeliveryStatus(polled, FALSE)
       [] answer = "terminal" -> RecordDeliveryStatus(polled, TRUE)
       [] OTHER -> FALSE
  /\ LET over == answer = "terminal" /\ polled \in Optional
                 /\ Head(polls).attempts + 1 >= Limit
     IN /\ answer' = IF over THEN "abandon" ELSE "none"
        /\ polls' = IF over THEN polls ELSE Tail(polls)
  /\ UNCHANGED <<first, loop, batch, spare, world>>

AbandonPolled ==
  /\ loop = "polling"
  /\ answer = "abandon"
  /\ MarkAlertAbandoned(polled)
  /\ answer' = "none"
  /\ polls' = Tail(polls)
  /\ UNCHANGED <<first, loop, batch, spare, world>>

-----------------------------------------------------------------------------
(* The delivery loop: retry a batch *)

Lane(notices) == {a \in notices : status[a] \in Queued}

\* Mutant: the spare slot is always the mandatory lane's.
ShareOfMandatory == (Batch + 1) \div 2

\* An odd batch's spare slot alternates between the lanes.
Share == (Batch + (IF spare THEN 1 ELSE 0)) \div 2

\* How many of the mandatory rows read are taken, so many optional ones being
\* there: room one lane leaves goes to the other.
Take(mandatory, optional) ==
  AtMost(Len(mandatory), IF Share > Batch - Len(optional) THEN Share
                         ELSE Batch - Len(optional))

\* _next_retry_batch: two lanes, each in queue order.
NextRetryBatch(mandatory, optional) ==
  LET take == Take(mandatory, optional)
  IN  SubSeq(mandatory, 1, take)
        \o SubSeq(optional, 1, AtMost(Len(optional), Batch - take))

Fetch ==
  /\ loop = "polling"
  /\ polls = <<>>
  /\ loop' = "retrying"
  /\ \E mandatory \in Oldest(Lane(Mandatory), Batch), optional \in Oldest(Lane(Optional), Batch) :
       batch' = AsRead(NextRetryBatch(mandatory, optional))
  /\ spare' = ~spare
  /\ UNCHANGED <<rows, first, polls, answer, world>>

FetchFails ==
  /\ loop = "polling"
  /\ polls = <<>>
  /\ loop' = "waiting"
  /\ UNCHANGED <<rows, first, polls, batch, answer, spare, world>>

retried == Head(batch).alert

\* The row is submitted as it was read, whatever has become of it since.
Retry(result) ==
  /\ loop = "retrying"
  /\ batch # <<>>
  /\ answer = "none"
  /\ result \in Answers(retried)
  /\ answer' = result
  /\ Heard(retried, result)
  /\ failures' = IF result \in Failed THEN OneMore(failures, retried) ELSE failures
  /\ UNCHANGED <<rows, first, loop, polls, batch, spare, kind, crashes>>

\* Mutant: a notice no channel had budget for is charged an attempt.
ApplyRetryChargingDeferral ==
  CASE answer = "accepted" -> MarkAlertAccepted(retried)
    [] answer \in Failed \cup {"cap_spent"} -> MarkAlertAttemptFailed(retried)

\* What the loop records of the submission.
ApplyRetry ==
  CASE answer = "accepted" -> MarkAlertAccepted(retried)
    [] answer = "cap_spent" -> DeferAlert(retried)
    [] answer \in Failed -> MarkAlertAttemptFailed(retried)

RecordRetry ==
  /\ loop = "retrying"
  /\ batch # <<>>
  /\ answer \in Failed \cup {"accepted", "cap_spent"}
  /\ ApplyRetry
  /\ LET over == answer \in Failed /\ retried \in Optional
                 /\ Head(batch).attempts + 1 >= Limit
     IN /\ answer' = IF over THEN "abandon" ELSE "none"
        /\ batch' = IF over THEN batch ELSE Tail(batch)
  /\ UNCHANGED <<first, loop, polls, spare, world>>

\* _settle_failed_retry: an optional notice is given up at its limit.
AbandonRetried ==
  /\ loop = "retrying"
  /\ answer = "abandon"
  /\ MarkAlertAbandoned(retried)
  /\ answer' = "none"
  /\ batch' = Tail(batch)
  /\ UNCHANGED <<first, loop, polls, spare, world>>

BatchDone ==
  /\ loop = "retrying"
  /\ batch = <<>>
  /\ loop' = "waiting"
  /\ UNCHANGED <<rows, first, polls, batch, answer, spare, world>>

\* The writes of the loop stand outside its try blocks: a store that raises
\* ends the task, and nothing starts another.
StoreRaises ==
  /\ answer # "none"
  /\ loop' = "dead"
  /\ polls' = <<>>
  /\ batch' = <<>>
  /\ answer' = "none"
  /\ UNCHANGED <<rows, first, spare, world>>

-----------------------------------------------------------------------------
(* The webhook, and the process *)

\* ingest_delivery_report: the provider reports on an accepted message.
DeliveryReport(a, terminal) ==
  /\ status[a] = "accepted"
  /\ RecordDeliveryStatus(a, terminal)
  /\ HeardLater(a, terminal)
  /\ UNCHANGED <<first, looping>>

\* The process dies and starts again: the rows are what is left.
Crash ==
  /\ crashes < MaxCrashes
  /\ crashes' = crashes + 1
  /\ first' = [a \in Alerts |-> IF first[a] = "idle" THEN "idle" ELSE "done"]
  /\ loop' = "waiting"
  /\ polls' = <<>>
  /\ batch' = <<>>
  /\ answer' = "none"
  /\ spare' = TRUE
  /\ UNCHANGED <<kind, rows, taken, failures>>

-----------------------------------------------------------------------------

Receipts == {"unsettled", "delivered", "terminal"}
Results  == {"accepted", "refused", "unsent", "cap_spent"}

Next ==
  \/ \E a \in Alerts :
       \/ Queue(a)
       \/ Withhold(a)
       \/ \E result \in Results : Submit(a, result)
       \/ RecordAcceptance(a)
       \/ AcceptanceNotRecorded(a)
       \/ \E terminal \in BOOLEAN : DeliveryReport(a, terminal)
  \/ \E fetched \in BOOLEAN : Wake(fetched)
  \/ \E receipt \in Receipts : Poll(receipt)
  \/ ApplyReceipt
  \/ AbandonPolled
  \/ Fetch
  \/ FetchFails
  \/ \E result \in Results : Retry(result)
  \/ RecordRetry
  \/ AbandonRetried
  \/ BatchDone
  \/ StoreRaises
  \/ Crash

Spec == Init /\ [][Next]_vars

\* The loop's task is scheduled and its calls answer; the store's reads do not
\* fail every time.  Nothing is assumed of how a send ends.
Fairness ==
  /\ SF_vars(Wake(TRUE))
  /\ WF_vars(\E receipt \in Receipts : Poll(receipt))
  /\ WF_vars(ApplyReceipt)
  /\ WF_vars(AbandonPolled)
  /\ SF_vars(Fetch)
  /\ WF_vars(\E result \in Results : Retry(result))
  /\ WF_vars(RecordRetry)
  /\ WF_vars(AbandonRetried)
  /\ WF_vars(BatchDone)

FairSpec == Spec /\ Fairness

-----------------------------------------------------------------------------
(* Properties *)

TypeOK ==
  /\ kind \in Kinds
  /\ status \in [Alerts -> {"none", "pending", "failed", "accepted", "abandoned"}]
  /\ attempts \in [Alerts -> 0..Limit]
  /\ order \in Seq(Alerts)
  /\ delivered \in [Alerts -> BOOLEAN]
  /\ first \in [Alerts -> {"idle", "sending", "accepted", "done"}]
  /\ loop \in {"waiting", "polling", "retrying", "dead"}
  /\ polls \in Seq([alert : Alerts, attempts : 0..Limit])
  /\ batch \in Seq([alert : Alerts, attempts : 0..Limit])
  /\ answer \in {"none", "abandon"} \cup Receipts \cup Results
  /\ spare \in BOOLEAN
  /\ taken \subseteq Alerts
  /\ failures \in [Alerts -> 0..Limit]
  /\ crashes \in 0..MaxCrashes

\* A recorded notice stays an obligation until a provider took it; only an
\* optional one is given up, and only after the delivery loop failed to send
\* it, or a message of it was reported undeliverable, as often as its limit
\* says.  A try that found no sender counts among them; the first send and a
\* try the cap held back do not, whatever the loop, a slow first send, a report
\* and a crash did to the row meanwhile (mark_alert_accepted, defer_alert,
\* mark_alert_attempt_failed, _settle_failed_retry).
ObligationKept ==
  \A a \in Alerts :
    /\ (status[a] = "accepted" => a \in taken)
    /\ (status[a] = "abandoned" => a \in Optional /\ failures[a] = Limit)

\* A queued row of either lane gets its turn while the loop lives, however long
\* the other rows keep failing (_next_retry_batch, retry_seq).
EveryRowGetsItsTurn ==
  \A a \in Alerts :
    (status[a] \in Queued)
      ~> \/ status[a] \notin Queued
         \/ loop = "retrying" /\ batch # <<>> /\ Head(batch).alert = a
         \/ loop = "dead"

\* An accepted row whose delivery is not known is polled while the loop lives,
\* however many messages the provider never reports on
\* (_reconcile_alert_delivery_receipts, requeue_alert_receipt_poll).
EveryReceiptIsPolled ==
  \A a \in Alerts :
    (status[a] = "accepted" /\ ~delivered[a])
      ~> \/ status[a] # "accepted" \/ delivered[a]
         \/ loop = "polling" /\ polls # <<>> /\ Head(polls).alert = a
         \/ loop = "dead"
=============================================================================
