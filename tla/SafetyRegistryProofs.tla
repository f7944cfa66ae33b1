------------------------ MODULE SafetyRegistryProofs ------------------------
(***************************************************************************)
(* What the trip sequence guarantees for every set of bindings and either  *)
(* terminal state.  The properties rest on one another: a durable trip is  *)
(* latched because nothing of a pair that has not tripped is in motion, an *)
(* acceptance on record is one the driver gave because every write still   *)
(* queued says the truth, an orphaned pair drives nothing because it never *)
(* leaves rest, and no closing command meets a trip because the pair's one *)
(* poll loop is waiting for its answer.                                    *)
(***************************************************************************)
EXTENDS SafetyRegistry, TLAPS

\* No attempt of the pair is under way and none is owed a record; at most its
\* deferred startup command is with the driver.
AtRest ==
  /\ queue = <<>>
  /\ \A a \in Actors : intent[a] = "none"
  /\ phase["reading"] \in {"idle", "closing"} /\ phase["loop"] \in {"retries", "records"}
  /\ record = "committed"

\* A pair that has not tripped, and one whose attempt belongs to another
\* binding, is at rest.
RestsUnlessTripped == up /\ (~tripped \/ orphaned) => AtRest

\* Only a tripped pair has a command.
CommandOfTrip == up => (tripped = (command # "none"))

\* A driver call is made under the lease, by one coroutine.
Leased == OneDriverCall /\ \A a \in Actors : phase[a] = "driving" => lease

\* The driver accepted the opening of this trip and the registry has sent no
\* closing command since.
Held == opened /\ coil # "closed"

\* So it is wherever an acceptance is noted, queued or durable.
IssuedMeansOpened ==
  /\ up /\ command = "command_issued" => Held
  /\ \A i \in DOMAIN queue :
       queue[i].op = "record" /\ queue[i].arg = "command_issued" => Held
  /\ IssuedRecordMeansOpened

\* The closing command is with the driver only while the pair has not tripped.
ClosesUntripped == up /\ phase["reading"] = "closing" => ~tripped

\* The journal of a pair that is not orphaned speaks of the binding in force.
JournalOfBinding ==
  /\ up /\ ~orphaned =>
       /\ durable.tail \in {NoIntent, binding}
       /\ \A i \in DOMAIN queue : queue[i].op = "intent" => queue[i].arg = binding
  /\ up /\ orphaned => tripped \/ ~bound

IInv ==
  /\ TypeOK
  /\ ~up => queue = <<>>
  /\ RestsUnlessTripped
  /\ CommandOfTrip
  /\ DurableTripHolds
  /\ Leased
  /\ IssuedMeansOpened
  /\ JournalOfBinding
  /\ ClosesUntripped

-----------------------------------------------------------------------------
(* The queue *)

\* What a queued write is, by its kind.
LEMMA WriteLemma ==
  ASSUME NEW w \in Write
  PROVE  /\ w.op \in {"intent", "record", "mark"}
         /\ w.op = "intent" => w.arg \in Bindings /\ w.by \in Actors \cup {"stale"}
         /\ w.op = "record" => w.arg \in Statuses /\ w.by \in Actors
         /\ w.op = "mark" => w.by \in Actors
  BY DEF Write

\* An enqueued write is the last one; those before it keep their places.
LEMMA EnqueueLemma ==
  ASSUME TypeOK, NEW op, NEW by, NEW arg, [op |-> op, by |-> by, arg |-> arg] \in Write,
         queue' = Enqueue(op, by, arg)
  PROVE  /\ queue' \in Seq(Write)
         /\ \A i \in DOMAIN queue' :
              \/ i \in DOMAIN queue /\ queue'[i] = queue[i]
              \/ queue'[i] = [op |-> op, by |-> by, arg |-> arg]
<1>1. queue \in Seq(Write)
  BY DEF TypeOK
<1> QED  BY <1>1 DEF Enqueue

\* The writer takes the first; the rest move up.
LEMMA DequeueLemma ==
  ASSUME TypeOK, queue # <<>>, queue' = Tail(queue)
  PROVE  /\ Head(queue) \in Write /\ Head(queue) = queue[1] /\ 1 \in DOMAIN queue
         /\ queue' \in Seq(Write)
         /\ \A i \in DOMAIN queue' : i + 1 \in DOMAIN queue /\ queue'[i] = queue[i + 1]
<1>1. queue \in Seq(Write)
  BY DEF TypeOK
<1> QED  BY <1>1

\* A new attempt only renames the intent its coroutine left behind.
LEMMA BeginLemma ==
  ASSUME TypeOK, NEW a \in Actors, BeginAttempt(a)
  PROVE  /\ queue' \in Seq(Write)
         /\ DOMAIN queue' = DOMAIN queue
         /\ \A i \in DOMAIN queue :
              queue'[i].op = queue[i].op /\ queue'[i].arg = queue[i].arg
         /\ intent' \in [Actors -> {"none", "created", "queued", "ok", "failed"}]
         /\ phase' \in [Actors -> Phases]
         /\ phase'[a] = "intent"
         /\ \A b \in Actors \ {a} : phase'[b] = phase[b]
         /\ unsettled' \in Actors \cup {"none"}
<1>1. queue \in Seq(Write)
  BY DEF TypeOK
<1>2. ASSUME NEW i \in DOMAIN queue
      PROVE  /\ queue'[i] \in Write
             /\ queue'[i].op = queue[i].op /\ queue'[i].arg = queue[i].arg
  <2>1. queue[i] \in Write
    BY <1>1, <1>2
  <2>2. CASE queue[i].op = "intent" /\ queue[i].by = a
    <3>1. queue'[i] = [queue[i] EXCEPT !.by = "stale"]
      BY <2>2 DEF BeginAttempt
    <3> QED  BY <2>1, <2>2, <3>1 DEF Write
  <2>3. CASE ~(queue[i].op = "intent" /\ queue[i].by = a)
    <3>1. queue'[i] = queue[i]
      BY <2>3 DEF BeginAttempt
    <3> QED  BY <2>1, <3>1
  <2> QED  BY <2>2, <2>3
<1>3. DOMAIN queue' = DOMAIN queue /\ queue' \in Seq(Write)
  <2>1. DOMAIN queue = 1 .. Len(queue) /\ Len(queue) \in Nat
    BY <1>1
  <2>2. queue' \in [1 .. Len(queue) -> Write]
    BY <1>2, <2>1 DEF BeginAttempt
  <2> QED  BY <2>1, <2>2
<1>4. /\ intent' \in [Actors -> {"none", "created", "queued", "ok", "failed"}]
      /\ phase' \in [Actors -> Phases]
      /\ phase'[a] = "intent"
      /\ \A b \in Actors \ {a} : phase'[b] = phase[b]
      /\ unsettled' \in Actors \cup {"none"}
  BY DEF BeginAttempt, TypeOK, Phases
<1> QED  BY <1>2, <1>3, <1>4

-----------------------------------------------------------------------------
(* A step of an attempt *)

\* Whatever is in motion belongs to a tripped pair that is not orphaned.
LEMMA ActiveLemma ==
  ASSUME IInv, up, ~AtRest
  PROVE  tripped /\ ~orphaned /\ command \in Statuses
  BY DEF IInv, RestsUnlessTripped, CommandOfTrip, TypeOK

\* While it is, four parts of the invariant are left to show.
LEMMA AttemptLemma ==
  ASSUME IInv, up, tripped, ~orphaned, UNCHANGED machine,
         phase'["reading"] = "closing" => phase["reading"] = "closing",
         TypeOK', command' # "none", Leased', IssuedMeansOpened', JournalOfBinding'
  PROVE  IInv'
  BY DEF IInv, machine, RestsUnlessTripped, CommandOfTrip, DurableTripHolds, ClosesUntripped

\* A coroutine that goes anywhere but into the driver takes no lease.
LEMMA LeaseLemma ==
  ASSUME TypeOK, Leased, NEW a \in Actors, NEW ph, ph # "driving",
         phase' = [phase EXCEPT ![a] = ph], lease' = lease
  PROVE  Leased'
  BY DEF TypeOK, Leased, OneDriverCall, Actors

-----------------------------------------------------------------------------
(* The steps of an attempt *)

\* The writer: what commits says no more than what was queued.
LEMMA WriterLemma ==
  ASSUME IInv, NEW ok \in BOOLEAN, WriteHead(ok)
  PROVE  IInv'
<1>0. TypeOK /\ up /\ queue # <<>> /\ queue' = Tail(queue) /\ UNCHANGED machine
  BY DEF IInv, WriteHead
<1>1. tripped /\ ~orphaned /\ command \in Statuses
  BY <1>0, ActiveLemma DEF AtRest
<1> DEFINE w == Head(queue)
<1>2. /\ w \in Write /\ w = queue[1] /\ 1 \in DOMAIN queue /\ queue' \in Seq(Write)
      /\ \A i \in DOMAIN queue' : i + 1 \in DOMAIN queue /\ queue'[i] = queue[i + 1]
  BY <1>0, DequeueLemma
<1>3. \/ durable' = durable
      \/ w.op = "intent" /\ durable' = [durable EXCEPT !.tail = w.arg]
      \/ w.op = "record" /\ durable' = [record |-> w.arg, tail |-> NoIntent]
  BY <1>2, WriteLemma DEF WriteHead, Committed
<1>4. TypeOK'
  <2>1. durable' \in [record : Statuses \cup {"none"}, tail : Bindings \cup {NoIntent}]
    <3>1. durable \in [record : Statuses \cup {"none"}, tail : Bindings \cup {NoIntent}]
      BY <1>0 DEF TypeOK
    <3>2. CASE w.op = "intent" /\ durable' = [durable EXCEPT !.tail = w.arg]
      <4>1. w.arg \in Bindings
        BY <1>2, <3>2, WriteLemma
      <4> QED  BY <3>1, <3>2, <4>1
    <3>3. CASE w.op = "record" /\ durable' = [record |-> w.arg, tail |-> NoIntent]
      <4>1. w.arg \in Statuses
        BY <1>2, <3>3, WriteLemma
      <4> QED  BY <3>3, <4>1
    <3> QED  BY <1>3, <3>1, <3>2, <3>3
  <2>2. /\ intent' \in [Actors -> {"none", "created", "queued", "ok", "failed"}]
        /\ wrote' \in [Actors -> {"none", "ok", "failed"}]
    <3>1. w.op = "intent" \/ w.by \in Actors
      BY <1>2, WriteLemma
    <3>2. /\ intent' = IF w.op = "intent" /\ w.by \in Actors
                        THEN [intent EXCEPT ![w.by] = IF ok THEN "ok" ELSE "failed"]
                        ELSE intent
          /\ wrote' = IF w.op = "intent" THEN wrote
                        ELSE [wrote EXCEPT ![w.by] = IF ok THEN "ok" ELSE "failed"]
      BY DEF WriteHead
    <3>3. /\ intent \in [Actors -> {"none", "created", "queued", "ok", "failed"}]
          /\ wrote \in [Actors -> {"none", "ok", "failed"}]
      BY <1>0 DEF TypeOK
    <3> HIDE DEF w
    <3> QED  BY <3>1, <3>2, <3>3
  <2> QED  BY <1>0, <1>2, <2>1, <2>2 DEF TypeOK, WriteHead, machine, circuit
<1>5. Leased'
  BY DEF IInv, Leased, OneDriverCall, WriteHead
<1>6. IssuedMeansOpened'
  <2>1. durable'.record = "command_issued" => Held
    <3>1. durable'.record = durable.record \/ (w.op = "record" /\ durable'.record = w.arg)
      BY <1>0, <1>3 DEF TypeOK
    <3> QED  BY <1>2, <3>1 DEF IInv, IssuedMeansOpened, IssuedRecordMeansOpened, Held
  <2> QED  BY <1>0, <1>2, <2>1
           DEF IInv, IssuedMeansOpened, IssuedRecordMeansOpened, Held, WriteHead, machine,
               circuit
<1>7. JournalOfBinding'
  <2>1. durable'.tail \in {NoIntent, binding}
    <3>1. \/ durable'.tail = durable.tail \/ durable'.tail = NoIntent
          \/ w.op = "intent" /\ durable'.tail = w.arg
      BY <1>0, <1>3 DEF TypeOK
    <3> QED  BY <1>0, <1>1, <1>2, <3>1 DEF IInv, JournalOfBinding
  <2> QED  BY <1>0, <1>1, <1>2, <2>1 DEF IInv, JournalOfBinding, machine
<1>8. command' # "none"
  BY <1>1 DEF WriteHead, Statuses
<1>9. phase' = phase
  BY DEF WriteHead
<1> QED  BY <1>0, <1>1, <1>4, <1>5, <1>6, <1>7, <1>8, <1>9, AttemptLemma

\* The intent's append, and the lease taken or refused.
LEMMA IntentLemma ==
  ASSUME IInv, NEW a \in Actors, AppendIntent(a) \/ BeginDriverAttempt(a)
  PROVE  IInv'
<1> USE DEF Actors
<1>0. TypeOK /\ Leased /\ up /\ UNCHANGED machine
  BY DEF IInv, AppendIntent, BeginDriverAttempt
<1>1. tripped /\ ~orphaned /\ command \in Statuses
  BY <1>0, ActiveLemma DEF AtRest, AppendIntent, BeginDriverAttempt
<1>2. command' # "none"
  BY <1>1 DEF Statuses, AppendIntent, BeginDriverAttempt
<1>3. CASE AppendIntent(a)
  <2>1. [op |-> "intent", by |-> a, arg |-> binding] \in Write
    BY <1>0 DEF Write, TypeOK
  <2>2. /\ queue' \in Seq(Write)
        /\ \A i \in DOMAIN queue' :
             \/ i \in DOMAIN queue /\ queue'[i] = queue[i]
             \/ queue'[i] = [op |-> "intent", by |-> a, arg |-> binding]
    BY <1>0, <1>3, <2>1, EnqueueLemma DEF AppendIntent
  <2>3. TypeOK'
    BY <1>0, <1>3, <2>2 DEF TypeOK, AppendIntent, machine, circuit
  <2>4. Leased'
    BY <1>0, <1>3 DEF AppendIntent, Leased, OneDriverCall
  <2>5. IssuedMeansOpened'
    BY <1>0, <1>3, <2>2
       DEF IInv, IssuedMeansOpened, IssuedRecordMeansOpened, Held, AppendIntent, machine,
           circuit
  <2>6. JournalOfBinding'
    BY <1>0, <1>1, <1>3, <2>2 DEF IInv, JournalOfBinding, AppendIntent, machine
  <2>7. phase' = phase
    BY <1>3 DEF AppendIntent
  <2> QED  BY <1>0, <1>1, <1>2, <2>3, <2>4, <2>5, <2>6, <2>7, AttemptLemma
<1>4. CASE BeginDriverAttempt(a)
  <2>1. TypeOK'
    <3>1. phase' \in [Actors -> Phases] /\ lease' \in BOOLEAN
      <4>1. phase \in [Actors -> Phases] /\ lease \in BOOLEAN
        BY <1>0 DEF TypeOK
      <4>2. \E ph \in Phases : phase' = [phase EXCEPT ![a] = ph]
        BY <1>4 DEF BeginDriverAttempt, Phases
      <4>3. lease' = TRUE \/ lease' = lease
        BY <1>4 DEF BeginDriverAttempt
      <4> QED  BY <4>1, <4>2, <4>3
    <3>2. UNCHANGED <<machine, command, record, gate, intent, unsettled, wrote, queue,
                      durable, circuit>>
      BY <1>4 DEF BeginDriverAttempt
    <3> QED  BY <1>0, <3>1, <3>2 DEF TypeOK, machine, circuit
  <2>2. Leased'
    <3>1. CASE MayBegin
      BY <1>0, <1>4, <3>1 DEF TypeOK, BeginDriverAttempt, MayBegin, Leased, OneDriverCall
    <3>2. CASE ~MayBegin
      BY <1>0, <1>4, <3>2, LeaseLemma DEF BeginDriverAttempt
    <3> QED  BY <3>1, <3>2
  <2>3. IssuedMeansOpened' /\ JournalOfBinding'
    BY <1>4 DEF IInv, IssuedMeansOpened, IssuedRecordMeansOpened, Held, JournalOfBinding,
                BeginDriverAttempt, machine, circuit
  <2>4. phase'["reading"] = "closing" => phase["reading"] = "closing"
    BY <1>0, <1>4 DEF BeginDriverAttempt, TypeOK
  <2> QED  BY <1>0, <1>1, <1>2, <2>1, <2>2, <2>3, <2>4, AttemptLemma
<1> QED  BY <1>3, <1>4

\* A record that says the command's status may be queued: if it says the
\* command was issued, the driver accepted it.
LEMMA RecordLemma ==
  ASSUME IInv, NEW a \in Actors, NEW status \in Statuses, up, tripped, ~orphaned,
         UNCHANGED machine,
         queue' = Enqueue("record", a, status),
         Held => Held', status = "command_issued" => Held',
         command' = status, durable' = durable
  PROVE  queue' \in Seq(Write) /\ IssuedMeansOpened' /\ JournalOfBinding'
<1>0. TypeOK
  BY DEF IInv
<1>1. [op |-> "record", by |-> a, arg |-> status] \in Write
  BY DEF Write
<1>2. /\ queue' \in Seq(Write)
      /\ \A i \in DOMAIN queue' :
           \/ i \in DOMAIN queue /\ queue'[i] = queue[i]
           \/ queue'[i] = [op |-> "record", by |-> a, arg |-> status]
  BY <1>0, <1>1, EnqueueLemma
<1>3. IssuedMeansOpened'
  BY <1>2 DEF IInv, IssuedMeansOpened, IssuedRecordMeansOpened, Held, machine
<1>4. JournalOfBinding'
  BY <1>2 DEF IInv, JournalOfBinding, machine
<1> QED  BY <1>2, <1>3, <1>4

\* The driver's answer.
LEMMA AnswerLemma ==
  ASSUME IInv, NEW a \in Actors, NEW answer \in Answers, DriverAnswers(a, answer)
  PROVE  IInv'
<1> USE DEF Actors
<1>0. TypeOK /\ Leased /\ up /\ UNCHANGED machine
  BY DEF IInv, DriverAnswers
<1>1. tripped /\ ~orphaned /\ command \in Statuses
  BY <1>0, ActiveLemma DEF AtRest, DriverAnswers
<1> DEFINE status == StatusAfter(answer)
<1>2. status \in Statuses /\ command' = status
  BY <1>1 DEF DriverAnswers, StatusAfter, Statuses, Answers
<1>3. /\ coil' \in Circuits /\ opened' \in BOOLEAN /\ line' \in BOOLEAN
      /\ Held => Held'
      /\ status = "command_issued" => Held'
  <2>1. CASE answer = "accepted"
    BY <2>1 DEF DriverAnswers, Held, Circuits
  <2>2. CASE answer = "refused"
    BY <1>0, <2>2 DEF DriverAnswers, StatusAfter, TypeOK, Held, Circuits
  <2>3. CASE answer = "raised"
    BY <1>0, <2>3 DEF DriverAnswers, StatusAfter, IInv, IssuedMeansOpened, TypeOK, Held,
       Circuits
  <2> QED  BY <2>1, <2>2, <2>3 DEF Answers
<1>4. PICK ph \in {"record", "ordering"} : phase' = [phase EXCEPT ![a] = ph]
  BY DEF DriverAnswers, AppendRecord
<1>5. Leased'
  BY <1>0, <1>4 DEF DriverAnswers, Leased, OneDriverCall, TypeOK
<1>6. queue' \in Seq(Write) /\ IssuedMeansOpened' /\ JournalOfBinding'
  <2>1. CASE Settled(intent[a])
    <3>1. queue' = Enqueue("record", a, status) /\ durable' = durable
      BY <2>1 DEF DriverAnswers, AppendRecord
    <3> QED  BY <1>0, <1>1, <1>2, <1>3, <3>1, RecordLemma
  <2>2. CASE ~Settled(intent[a])
    <3>1. UNCHANGED <<queue, durable>>
      BY <2>2 DEF DriverAnswers
    <3> QED  BY <1>0, <1>1, <1>2, <1>3, <3>1
             DEF IInv, TypeOK, IssuedMeansOpened, IssuedRecordMeansOpened, Held,
                 JournalOfBinding, machine
  <2> QED  BY <2>1, <2>2
<1>7. TypeOK'
  <2>1. /\ unsettled' \in Actors \cup {"none"}
        /\ wrote' \in [Actors -> {"none", "ok", "failed"}]
        /\ phase' \in [Actors -> Phases]
    BY <1>0, <1>4 DEF TypeOK, DriverAnswers, AppendRecord, Phases
  <2> QED  BY <1>0, <1>2, <1>3, <1>6, <2>1 DEF TypeOK, DriverAnswers, machine
<1>8. command' # "none"
  BY <1>2 DEF Statuses
<1>9. phase'["reading"] = "closing" => phase["reading"] = "closing"
  BY <1>0, <1>4 DEF TypeOK
<1> QED  BY <1>0, <1>1, <1>5, <1>6, <1>7, <1>8, <1>9, AttemptLemma

\* What was noted, queued and durable is left alone.
LEMMA NothingSaidLemma ==
  ASSUME IInv, UNCHANGED <<machine, command, queue, durable, circuit>>
  PROVE  IssuedMeansOpened' /\ JournalOfBinding'
  BY DEF IInv, IssuedMeansOpened, IssuedRecordMeansOpened, Held, JournalOfBinding, machine,
         circuit

\* A mark says nothing `_load_journal` reads.
LEMMA MarkLemma ==
  ASSUME IInv, NEW a \in Actors, queue' = Enqueue("mark", a, "-"),
         UNCHANGED <<machine, command, durable, circuit>>
  PROVE  queue' \in Seq(Write) /\ IssuedMeansOpened' /\ JournalOfBinding'
<1>1. [op |-> "mark", by |-> a, arg |-> "-"] \in Write
  BY DEF Write
<1>2. /\ queue' \in Seq(Write)
      /\ \A i \in DOMAIN queue' :
           \/ i \in DOMAIN queue /\ queue'[i] = queue[i]
           \/ queue'[i] = [op |-> "mark", by |-> a, arg |-> "-"]
  BY <1>1, EnqueueLemma DEF IInv
<1>3. IssuedMeansOpened'
  BY <1>2 DEF IInv, IssuedMeansOpened, IssuedRecordMeansOpened, Held, machine, circuit
<1>4. JournalOfBinding'
  BY <1>2 DEF IInv, JournalOfBinding, machine
<1> QED  BY <1>2, <1>3, <1>4

\* The record's append, its mark, and the end of the attempt.
LEMMA PersistLemma ==
  ASSUME IInv, NEW a \in Actors,
         \/ IntentOrdered(a) \/ GraceExpires(a) \/ RecordWritten(a) \/ MarkWritten(a)
         \/ RecordWriteFailed(a)
  PROVE  IInv'
<1> USE DEF Actors, Phases
<1>0. /\ TypeOK /\ Leased /\ up
      /\ UNCHANGED <<machine, command, lease, intent, durable, circuit>>
  BY DEF IInv, IntentOrdered, GraceExpires, RecordWritten, MarkWritten, RecordWriteFailed
<1>1. tripped /\ ~orphaned /\ command \in Statuses
  <2>1. ~AtRest
    BY DEF AtRest, IntentOrdered, GraceExpires, RecordWritten, MarkWritten, RecordWriteFailed
  <2> QED  BY <1>0, <2>1, ActiveLemma
<1>2. command' # "none"
  BY <1>0, <1>1 DEF Statuses
<1>3. PICK ph \in Phases \ {"driving", "closing"} : phase' = [phase EXCEPT ![a] = ph]
  BY DEF IntentOrdered, AppendRecord, GraceExpires, RecordWritten, MarkWritten,
         RecordWriteFailed, EndAttempt
<1>4. Leased'
  BY <1>0, <1>3, LeaseLemma
<1>5. /\ phase' \in [Actors -> Phases]
      /\ phase'["reading"] = "closing" => phase["reading"] = "closing"
  BY <1>0, <1>3 DEF TypeOK
<1>6. CASE IntentOrdered(a)
  <2>1. queue' = Enqueue("record", a, command)
    BY <1>6 DEF IntentOrdered, AppendRecord
  <2>2. queue' \in Seq(Write) /\ IssuedMeansOpened' /\ JournalOfBinding'
    <3>1. Held => Held'
      BY <1>0 DEF Held, circuit
    <3>2. command = "command_issued" => Held'
      BY <1>0, <3>1 DEF IInv, IssuedMeansOpened
    <3> QED  BY <1>0, <1>1, <2>1, <3>1, <3>2, RecordLemma
  <2>3. /\ unsettled' \in Actors \cup {"none"}
        /\ wrote' \in [Actors -> {"none", "ok", "failed"}]
    BY <1>0, <1>6 DEF IntentOrdered, AppendRecord, TypeOK
  <2>4. TypeOK'
    BY <1>0, <1>5, <1>6, <2>2, <2>3 DEF TypeOK, IntentOrdered, machine, circuit
  <2> QED  BY <1>0, <1>1, <1>2, <1>4, <1>5, <2>2, <2>4, AttemptLemma
<1>7. CASE RecordWritten(a)
  <2>1. queue' = Enqueue("mark", a, "-")
    BY <1>7 DEF RecordWritten
  <2>2. queue' \in Seq(Write) /\ IssuedMeansOpened' /\ JournalOfBinding'
    BY <1>0, <2>1, MarkLemma
  <2>3. wrote' \in [Actors -> {"none", "ok", "failed"}]
    BY <1>0, <1>7 DEF RecordWritten, TypeOK
  <2>4. TypeOK'
    BY <1>0, <1>5, <1>7, <2>2, <2>3 DEF TypeOK, RecordWritten, machine, circuit
  <2> QED  BY <1>0, <1>1, <1>2, <1>4, <1>5, <2>2, <2>4, AttemptLemma
<1>8. CASE GraceExpires(a) \/ MarkWritten(a) \/ RecordWriteFailed(a)
  <2>1. UNCHANGED <<unsettled, wrote, queue>> /\ record' \in {"pending", record}
    BY <1>8 DEF GraceExpires, MarkWritten, RecordWriteFailed
  <2>2. gate' \in BOOLEAN
    BY <1>8 DEF GraceExpires, MarkWritten, RecordWriteFailed, EndAttempt
  <2>3. TypeOK'
    BY <1>0, <1>5, <2>1, <2>2 DEF TypeOK, machine, circuit
  <2>4. IssuedMeansOpened' /\ JournalOfBinding'
    BY <1>0, <2>1, NothingSaidLemma
  <2> QED  BY <1>0, <1>1, <1>2, <1>4, <1>5, <2>3, <2>4, AttemptLemma
<1> QED  BY <1>6, <1>7, <1>8

-----------------------------------------------------------------------------
(* Readings *)

\* The trip: the pair leaves rest with its first attempt.
LEMMA TripLemma ==
  ASSUME IInv, ObserveTrip
  PROVE  IInv'
<1> USE DEF Actors
<1>0. /\ TypeOK /\ Leased /\ AtRest /\ up /\ ~tripped /\ bound
      /\ UNCHANGED <<up, binding, bound, orphaned, lease, durable, line, coil>>
  BY DEF IInv, RestsUnlessTripped, ObserveTrip
<1>1. ~orphaned
  BY <1>0 DEF IInv, JournalOfBinding
<1>2. tripped' = TRUE /\ command' = "command_pending" /\ BeginAttempt("reading")
  BY DEF ObserveTrip
<1>3. /\ queue' \in Seq(Write) /\ DOMAIN queue' = DOMAIN queue
      /\ \A i \in DOMAIN queue : queue'[i].op = queue[i].op /\ queue'[i].arg = queue[i].arg
      /\ intent' \in [Actors -> {"none", "created", "queued", "ok", "failed"}]
      /\ phase' \in [Actors -> Phases]
      /\ phase'["reading"] = "intent" /\ phase'["loop"] = phase["loop"]
      /\ unsettled' \in Actors \cup {"none"}
  BY <1>0, <1>2, BeginLemma
<1>4. TypeOK'
  BY <1>0, <1>2, <1>3 DEF TypeOK, ObserveTrip, Statuses
<1>5. Leased'
  BY <1>0, <1>3 DEF Leased, OneDriverCall
<1>6. IssuedMeansOpened'
  <2>1. DOMAIN queue' = {} /\ durable'.record = "none"
    BY <1>0, <1>3 DEF AtRest, IInv, DurableTripHolds, TripIsDurable
  <2> QED  BY <1>2, <2>1 DEF IssuedMeansOpened, IssuedRecordMeansOpened
<1>7. JournalOfBinding'
  BY <1>0, <1>1, <1>3 DEF IInv, JournalOfBinding
<1>8. up' /\ ~orphaned' /\ RestsUnlessTripped' /\ CommandOfTrip' /\ DurableTripHolds'
  BY <1>0, <1>1, <1>2 DEF RestsUnlessTripped, CommandOfTrip, DurableTripHolds
<1>9. ClosesUntripped'
  BY <1>3 DEF ClosesUntripped
<1> QED  BY <1>4, <1>5, <1>6, <1>7, <1>8, <1>9 DEF IInv

\* The deferred startup command and its answer: closing is for a pair with no
\* trip at all.
LEMMA GateLemma ==
  ASSUME IInv, SettleGate \/ \E accepted \in BOOLEAN : GateAnswered(accepted)
  PROVE  IInv'
<1> USE DEF Actors, Phases
<1>0. /\ TypeOK /\ Leased /\ up
      /\ UNCHANGED <<machine, command, record, lease, intent, unsettled, wrote, queue,
                     durable, opened>>
  BY DEF IInv, SettleGate, GateAnswered, circuit
<1>1. PICK ph \in {"idle", "closing"} :
        /\ phase' = [phase EXCEPT !["reading"] = ph]
        /\ ph = "closing" => ~tripped
  BY DEF SettleGate, GateAnswered, MayClose
<1>2. coil' = coil \/ (~tripped /\ coil' = "closed")
  BY <1>0 DEF SettleGate, GateAnswered, circuit, IInv, ClosesUntripped
<1>3. gate' \in BOOLEAN /\ line' \in BOOLEAN
  BY <1>0 DEF SettleGate, GateAnswered, circuit, TypeOK
<1>4. TypeOK'
  BY <1>0, <1>1, <1>2, <1>3 DEF TypeOK, machine, Circuits
<1>5. IssuedMeansOpened'
  <2>1. CASE coil' = coil
    BY <1>0, <2>1 DEF IInv, IssuedMeansOpened, IssuedRecordMeansOpened, Held, machine
  <2>2. CASE ~tripped
    <3>1. command = "none" /\ queue = <<>> /\ durable.record = "none"
      BY <1>0, <2>2 DEF IInv, RestsUnlessTripped, AtRest, CommandOfTrip, DurableTripHolds,
                        TripIsDurable
    <3> QED  BY <1>0, <3>1 DEF IssuedMeansOpened, IssuedRecordMeansOpened
  <2> QED  BY <1>2, <2>1, <2>2
<1>6. Leased'
  BY <1>0, <1>1, LeaseLemma
<1>7. JournalOfBinding'
  BY <1>0 DEF IInv, JournalOfBinding, machine
<1>8. RestsUnlessTripped' /\ ClosesUntripped'
  BY <1>0, <1>1 DEF IInv, RestsUnlessTripped, AtRest, ClosesUntripped, TypeOK, machine
<1>9. CommandOfTrip' /\ DurableTripHolds'
  BY <1>0 DEF IInv, CommandOfTrip, DurableTripHolds, TripIsDurable, machine
<1> QED  BY <1>0, <1>4, <1>5, <1>6, <1>7, <1>8, <1>9 DEF IInv, machine

\* The dispatcher's executors move the coil and nothing the registry keeps; a
\* release closes the circuit, though not by the registry's command.
LEMMA ExecutorLemma ==
  ASSUME IInv, ExecTripRelay \/ ExecReleaseRelay
  PROVE  IInv'
<1>0. /\ TypeOK /\ up /\ coil' \in {"open", "released"}
      /\ UNCHANGED <<machine, command, record, lease, gate, phase, intent, unsettled, wrote,
                     queue, durable, line, opened>>
  BY DEF IInv, ExecTripRelay, ExecReleaseRelay
<1>1. TypeOK'
  BY <1>0 DEF TypeOK, machine, Circuits
<1>2. IssuedMeansOpened' /\ JournalOfBinding'
  BY <1>0 DEF IInv, IssuedMeansOpened, IssuedRecordMeansOpened, Held, JournalOfBinding,
              machine
<1>3. Leased' /\ ClosesUntripped'
  BY <1>0 DEF IInv, Leased, OneDriverCall, ClosesUntripped, machine
<1>4. RestsUnlessTripped' /\ CommandOfTrip' /\ DurableTripHolds'
  BY <1>0 DEF IInv, RestsUnlessTripped, AtRest, CommandOfTrip, DurableTripHolds,
              TripIsDurable, machine
<1> QED  BY <1>0, <1>1, <1>2, <1>3, <1>4 DEF IInv, machine

-----------------------------------------------------------------------------
(* The retry loop *)

\* A pass of the loop that finds nothing to do.
LEMMA PassLemma ==
  ASSUME IInv, phase["loop"] \in {"retries", "records"}, NEW ph \in {"retries", "records"},
         phase' = [phase EXCEPT !["loop"] = ph], unsettled' \in Actors \cup {"none"},
         UNCHANGED <<machine, command, record, lease, gate, intent, wrote, queue, durable,
                     circuit>>
  PROVE  IInv'
<1> USE DEF Actors, Phases
<1>0. TypeOK /\ Leased
  BY DEF IInv
<1>1. TypeOK'
  BY <1>0 DEF TypeOK, machine, circuit
<1>2. Leased'
  BY <1>0, LeaseLemma
<1>3. IssuedMeansOpened' /\ JournalOfBinding'
  BY NothingSaidLemma
<1>4. RestsUnlessTripped' /\ ClosesUntripped'
  BY <1>0 DEF IInv, RestsUnlessTripped, AtRest, ClosesUntripped, TypeOK, machine
<1>5. CommandOfTrip' /\ DurableTripHolds'
  BY DEF IInv, CommandOfTrip, DurableTripHolds, TripIsDurable, machine
<1> QED  BY <1>1, <1>2, <1>3, <1>4, <1>5 DEF IInv, machine

\* The retry of a command, and the recovery of a record.
LEMMA RetryLemma ==
  ASSUME IInv, RetryLoop
  PROVE  IInv'
<1> USE DEF Actors
<1>0. /\ TypeOK /\ Leased /\ up
      /\ UNCHANGED <<machine, command, lease, gate, durable, circuit>>
  BY DEF IInv, RetryLoop, RetryPending, RetryRecords, RerecordWritten, RecoveryEnds
<1>1. CASE RetryPending
  <2>1. CASE IntentSettled /\ RetryDue
    <3>1. tripped /\ ~orphaned /\ command # "none" /\ command' # "none"
      BY <1>0, <2>1 DEF RetryDue, IInv, CommandOfTrip
    <3>2. BeginAttempt("loop") /\ UNCHANGED <<record, wrote>>
      BY <1>1, <2>1 DEF RetryPending
    <3>3. /\ queue' \in Seq(Write) /\ DOMAIN queue' = DOMAIN queue
          /\ \A i \in DOMAIN queue :
               queue'[i].op = queue[i].op /\ queue'[i].arg = queue[i].arg
          /\ intent' \in [Actors -> {"none", "created", "queued", "ok", "failed"}]
          /\ phase' \in [Actors -> Phases]
          /\ phase'["loop"] = "intent" /\ phase'["reading"] = phase["reading"]
          /\ unsettled' \in Actors \cup {"none"}
      BY <1>0, <3>2, BeginLemma
    <3>4. TypeOK'
      BY <1>0, <3>2, <3>3 DEF TypeOK, machine, circuit
    <3>5. Leased'
      BY <1>0, <3>3 DEF Leased, OneDriverCall
    <3>6. IssuedMeansOpened'
      BY <1>0, <3>3 DEF IInv, IssuedMeansOpened, IssuedRecordMeansOpened, Held, machine, circuit
    <3>7. JournalOfBinding'
      BY <1>0, <3>1, <3>3 DEF IInv, JournalOfBinding, machine
    <3> QED  BY <1>0, <3>1, <3>3, <3>4, <3>5, <3>6, <3>7, AttemptLemma
  <2>2. CASE ~(IntentSettled /\ RetryDue)
    <3>1. unsettled' \in Actors \cup {"none"}
      BY <1>0, <1>1, <2>2 DEF RetryPending, TypeOK
    <3> QED  BY <1>0, <1>1, <2>2, <3>1, PassLemma DEF RetryPending
  <2> QED  BY <2>1, <2>2
<1>2. CASE RetryRecords
  <2>1. CASE record = "pending" /\ IntentSettled
    <3>1. tripped /\ ~orphaned /\ command \in Statuses
      BY <1>0, <2>1, ActiveLemma DEF AtRest
    <3>2. command' # "none"
      BY <1>0, <3>1 DEF Statuses
    <3>3. queue' = Enqueue("record", "loop", command)
      BY <1>2, <2>1 DEF RetryRecords
    <3>4. queue' \in Seq(Write) /\ IssuedMeansOpened' /\ JournalOfBinding'
      <4>1. Held => Held'
        BY <1>0 DEF Held, circuit
      <4>2. command = "command_issued" => Held'
        BY <1>0, <4>1 DEF IInv, IssuedMeansOpened
      <4> QED  BY <1>0, <3>1, <3>3, <4>1, <4>2, RecordLemma
    <3>5. /\ unsettled' = "none" /\ UNCHANGED <<record, intent>>
          /\ wrote' \in [Actors -> {"none", "ok", "failed"}]
          /\ phase' = [phase EXCEPT !["loop"] = "rerecord"]
      BY <1>0, <1>2, <2>1 DEF RetryRecords, TypeOK
    <3>6. Leased'
      BY <1>0, <3>5, LeaseLemma
    <3>7. TypeOK'
      BY <1>0, <3>4, <3>5 DEF TypeOK, machine, circuit, Phases
    <3>8. phase'["reading"] = phase["reading"]
      BY <1>0, <3>5 DEF TypeOK
    <3> QED  BY <1>0, <3>1, <3>2, <3>4, <3>6, <3>7, <3>8, AttemptLemma
  <2>2. CASE ~(record = "pending" /\ IntentSettled)
    <3>1. unsettled' \in Actors \cup {"none"}
      BY <1>0, <1>2, <2>2 DEF RetryRecords, TypeOK
    <3> QED  BY <1>0, <1>2, <2>2, <3>1, PassLemma DEF RetryRecords
  <2> QED  BY <2>1, <2>2
<1>3. CASE RerecordWritten \/ RecoveryEnds
  <2>1. tripped /\ ~orphaned /\ command \in Statuses
    <3>1. ~AtRest
      BY <1>3 DEF AtRest, RerecordWritten, RecoveryEnds
    <3> QED  BY <1>0, <3>1, ActiveLemma
  <2>2. command' # "none"
    BY <1>0, <2>1 DEF Statuses
  <2>3. PICK ph \in {"remark", "retries"} : phase' = [phase EXCEPT !["loop"] = ph]
    BY <1>3 DEF RerecordWritten, RecoveryEnds
  <2>4. Leased'
    BY <1>0, <2>3, LeaseLemma
  <2>5. queue' \in Seq(Write) /\ IssuedMeansOpened' /\ JournalOfBinding'
    <3>1. CASE RerecordWritten
      BY <1>0, <3>1, MarkLemma DEF RerecordWritten
    <3>2. CASE RecoveryEnds
      BY <1>0, <3>2, NothingSaidLemma DEF RecoveryEnds, TypeOK
    <3> QED  BY <1>3, <3>1, <3>2
  <2>6. /\ wrote' \in [Actors -> {"none", "ok", "failed"}]
        /\ record' \in {"committed", "pending"} /\ UNCHANGED <<intent, unsettled>>
    BY <1>0, <1>3 DEF RerecordWritten, RecoveryEnds, TypeOK
  <2>7. TypeOK'
    BY <1>0, <2>3, <2>5, <2>6 DEF TypeOK, machine, circuit, Phases
  <2>8. phase'["reading"] = phase["reading"]
    BY <1>0, <2>3 DEF TypeOK
  <2> QED  BY <1>0, <2>1, <2>2, <2>4, <2>5, <2>7, <2>8, AttemptLemma
<1> QED  BY <1>1, <1>2, <1>3 DEF RetryLoop

-----------------------------------------------------------------------------
(* Start and crash *)

\* The journal decides what a new process starts from.
LEMMA StartLemma ==
  ASSUME IInv, NEW b \in Bindings, NEW active \in BOOLEAN, NEW taken \in BOOLEAN,
         Start(b, active, taken)
  PROVE  IInv'
<1> USE DEF Actors
<1>0. /\ TypeOK /\ queue = <<>> /\ up' /\ binding' = b /\ bound' = active
      /\ record' = "committed" /\ UNCHANGED <<queue, durable, opened>>
  BY DEF IInv, Start, Fresh
<1>1. /\ phase'["reading"] = "idle" /\ phase'["loop"] = "retries"
      /\ \A a \in Actors : intent'[a] = "none"
  BY DEF Start, Fresh
<1>2. tripped' = TripIsDurable /\ orphaned' = Orphaned(b, active) /\ command' = LoadedCommand
  BY DEF Start, LoadedTrip
<1>3. coil' \in {coil, "open", "released"} /\ line' \in BOOLEAN
  BY DEF Start, DeEnergised
<1>4. durable.record \in Statuses \cup {"none"} /\ durable.tail \in Bindings \cup {NoIntent}
  BY <1>0 DEF TypeOK
<1>5. TypeOK'
  <2>1. command' \in Statuses \cup {"none"}
    BY <1>2, <1>4 DEF LoadedCommand, Statuses
  <2>2. /\ tripped' \in BOOLEAN /\ orphaned' \in BOOLEAN /\ lease' \in BOOLEAN
        /\ gate' \in BOOLEAN /\ up' \in BOOLEAN
    BY DEF Start, Fresh, LoadedTrip, TripIsDurable, Orphaned
  <2>3. /\ phase' \in [Actors -> Phases]
        /\ intent' \in [Actors -> {"none", "created", "queued", "ok", "failed"}]
        /\ unsettled' \in Actors \cup {"none"}
        /\ wrote' \in [Actors -> {"none", "ok", "failed"}]
    BY DEF Start, Fresh, Phases
  <2>4. coil' \in Circuits
    BY <1>0, <1>3 DEF TypeOK, Circuits
  <2> QED  BY <1>0, <1>3, <2>1, <2>2, <2>3, <2>4 DEF TypeOK
<1>6. RestsUnlessTripped' /\ DurableTripHolds' /\ ClosesUntripped'
  BY <1>0, <1>1, <1>2 DEF RestsUnlessTripped, AtRest, DurableTripHolds, TripIsDurable,
     ClosesUntripped
<1>7. CommandOfTrip'
  BY <1>0, <1>2 DEF CommandOfTrip, LoadedCommand, TripIsDurable
<1>8. Leased'
  BY <1>1 DEF Leased, OneDriverCall
<1>9. IssuedMeansOpened'
  <2>1. durable.record = "command_issued" => Held'
    BY <1>0, <1>3 DEF IInv, IssuedMeansOpened, IssuedRecordMeansOpened, Held
  <2>2. command' = "command_issued" => Held'
    BY <1>2, <2>1 DEF LoadedCommand
  <2> QED  BY <1>0, <2>1, <2>2 DEF IssuedMeansOpened, IssuedRecordMeansOpened, Held
<1>10. JournalOfBinding'
  <2>1. ~Orphaned(b, active) => durable'.tail \in {NoIntent, b}
    BY <1>0 DEF Orphaned
  <2>2. Orphaned(b, active) => TripIsDurable \/ ~active
    BY DEF Orphaned, TripIsDurable
  <2>3. DOMAIN queue' = {}
    BY <1>0
  <2> QED  BY <1>0, <1>2, <2>1, <2>2, <2>3 DEF JournalOfBinding
<1> QED  BY <1>0, <1>5, <1>6, <1>7, <1>8, <1>9, <1>10 DEF IInv

\* A crash takes the queue; what it leaves was true of it.
LEMMA CrashLemma ==
  ASSUME IInv, Crash
  PROVE  IInv'
<1>1. TypeOK'
  <2>0. queue' \in Seq(Write)
    <3>1. queue' = <<>>
      BY DEF Crash
    <3>2. <<>> \in Seq(Write)
      OBVIOUS
    <3> QED  BY <3>1, <3>2
  <2>1. /\ phase' \in [Actors -> Phases]
        /\ intent' \in [Actors -> {"none", "created", "queued", "ok", "failed"}]
        /\ wrote' \in [Actors -> {"none", "ok", "failed"}]
        /\ unsettled' \in Actors \cup {"none"}
    BY DEF Crash, Fresh, Actors, Phases
  <2>2. /\ up' = FALSE /\ tripped' = FALSE /\ orphaned' = FALSE /\ gate' = FALSE
        /\ lease' = FALSE /\ line' = FALSE /\ command' = "none" /\ record' = "committed"
        /\ UNCHANGED <<binding, bound, durable, opened, coil>>
    BY DEF Crash, Fresh
  <2>3. TypeOK
    BY DEF IInv
  <2> QED  BY <2>0, <2>1, <2>2, <2>3 DEF TypeOK
<1>2. ~up' /\ queue' = <<>>
  BY DEF Crash
<1>3. Leased'
  <2>1. phase'["reading"] = "idle" /\ phase'["loop"] = "retries"
    BY DEF Crash, Fresh
  <2> QED  BY <2>1 DEF Leased, OneDriverCall, Actors
<1>4. IssuedMeansOpened'
  BY <1>2 DEF IInv, IssuedMeansOpened, IssuedRecordMeansOpened, Crash
<1> QED  BY <1>1, <1>2, <1>3, <1>4
         DEF IInv, RestsUnlessTripped, CommandOfTrip, DurableTripHolds, JournalOfBinding,
             ClosesUntripped

-----------------------------------------------------------------------------
(* The theorems *)

\* A first start, with an empty journal.
LEMMA InitIInv == Init => IInv
<1> SUFFICES ASSUME Init PROVE IInv
  OBVIOUS
<1> USE DEF Init
<1>1. TypeOK
  <2>1. /\ phase \in [Actors -> Phases]
        /\ intent \in [Actors -> {"none", "created", "queued", "ok", "failed"}]
        /\ wrote \in [Actors -> {"none", "ok", "failed"}]
        /\ durable \in [record : Statuses \cup {"none"}, tail : Bindings \cup {NoIntent}]
    BY DEF Actors, Phases
  <2>2. queue \in Seq(Write)
    OBVIOUS
  <2>3. /\ up \in BOOLEAN /\ binding \in Bindings /\ bound \in BOOLEAN
        /\ tripped \in BOOLEAN /\ orphaned \in BOOLEAN /\ lease \in BOOLEAN
        /\ gate \in BOOLEAN /\ command \in Statuses \cup {"none"}
        /\ record \in {"committed", "pending"} /\ unsettled \in Actors \cup {"none"}
        /\ line \in BOOLEAN /\ opened \in BOOLEAN /\ coil \in Circuits
    BY DEF Circuits
  <2> HIDE DEF Init
  <2> QED  BY <2>1, <2>2, <2>3 DEF TypeOK
<1>2. Leased
  BY DEF Leased, OneDriverCall, Actors
<1> QED  BY <1>1, <1>2
         DEF IInv, RestsUnlessTripped, CommandOfTrip, DurableTripHolds, IssuedMeansOpened,
             IssuedRecordMeansOpened, JournalOfBinding, ClosesUntripped

\* Every step of the poll loop, the retry loop, the writer and the process
\* preserves it.
LEMMA NextIInv == IInv /\ [Next]_vars => IInv'
<1> SUFFICES ASSUME IInv, [Next]_vars PROVE IInv'
  OBVIOUS
<1>1. CASE UNCHANGED vars
  <2>1. TypeOK'
    BY <1>1 DEF IInv, TypeOK, vars
  <2> QED  BY <1>1, <2>1 DEF IInv, vars, RestsUnlessTripped, AtRest, CommandOfTrip,
              DurableTripHolds, TripIsDurable, Leased, OneDriverCall, IssuedMeansOpened,
              IssuedRecordMeansOpened, Held, JournalOfBinding, ClosesUntripped
<1>2. CASE \E b \in Bindings, active, taken \in BOOLEAN : Start(b, active, taken)
  BY <1>2, StartLemma
<1>3. CASE Crash
  BY <1>3, CrashLemma
<1>4. CASE \E ok \in BOOLEAN : WriteHead(ok)
  BY <1>4, WriterLemma
<1>5. CASE ObserveTrip \/ SettleGate \/ \E accepted \in BOOLEAN : GateAnswered(accepted)
  BY <1>5, TripLemma, GateLemma
<1>8. CASE ExecTripRelay \/ ExecReleaseRelay
  BY <1>8, ExecutorLemma
<1>6. ASSUME NEW a \in Actors, Attempt(a) PROVE IInv'
  BY <1>6, IntentLemma, AnswerLemma, PersistLemma DEF Attempt
<1>7. CASE RetryLoop
  BY <1>7, RetryLemma
<1> QED  BY <1>1, <1>2, <1>3, <1>4, <1>5, <1>6, <1>7, <1>8 DEF Next

\* So it holds in every reachable state.
LEMMA SpecIInv == Spec => []IInv
  BY InitIInv, NextIInv, PTL DEF Spec

\* Every variable keeps its type: in particular a record is only ever written
\* with a status of COMMAND_STATUSES.
THEOREM TypeCorrect == Spec => []TypeOK
<1>1. IInv => TypeOK
  BY DEF IInv
<1> QED  BY <1>1, SpecIInv, PTL

\* A trip the journal knows of is latched in every later process (startup).
THEOREM TripLatched == Spec => []DurableTripHolds
<1>1. IInv => DurableTripHolds
  BY DEF IInv
<1> QED  BY <1>1, SpecIInv, PTL

\* One driver call at a time (begin_driver_attempt).
THEOREM SingleDriverCall == Spec => []OneDriverCall
<1>1. IInv => OneDriverCall
  BY DEF IInv, Leased
<1> QED  BY <1>1, SpecIInv, PTL

\* An acceptance on record is one the driver gave of that trip, and the
\* registry has sent no closing command since (record_driver_result,
\* append_record, _settle_deferred_gate).
THEOREM RecordTruthful == Spec => []IssuedRecordMeansOpened
<1>1. IInv => IssuedRecordMeansOpened
  BY DEF IInv, IssuedMeansOpened
<1> QED  BY <1>1, SpecIInv, PTL

\* An attempt of another binding is never taken up (outcome_retry).
THEOREM OrphansRest == Spec => []OrphanNeverActuates
<1>1. IInv => OrphanNeverActuates
  BY DEF IInv, JournalOfBinding, RestsUnlessTripped, AtRest, OrphanNeverActuates
<1> QED  BY <1>1, SpecIInv, PTL

\* The registry's own closing command never takes effect on a pair whose trip
\* is latched or durable (note_credible_reading, start).
THEOREM NoClosing == Spec => NoClosingOnceTripped
<1>1. ASSUME IInv, [Next]_vars, coil' = "closed", coil # "closed"
      PROVE  ~TripIsDurable /\ ~tripped
  <2>1. coil' # coil
    BY <1>1
  <2>2. \E accepted \in BOOLEAN : GateAnswered(accepted)
    <3>1. ASSUME NEW a \in Actors, Attempt(a) PROVE FALSE
      <4>1. PICK answer \in Answers : DriverAnswers(a, answer)
        BY <2>1, <3>1 DEF Attempt, AppendIntent, BeginDriverAttempt, IntentOrdered,
           GraceExpires, RecordWritten, MarkWritten, RecordWriteFailed, circuit
      <4> QED  BY <1>1, <4>1 DEF DriverAnswers, Answers
    <3>2. ASSUME NEW b \in Bindings, NEW active \in BOOLEAN, NEW taken \in BOOLEAN,
                 Start(b, active, taken)
          PROVE  FALSE
      BY <1>1, <3>2 DEF Start, DeEnergised
    <3>3. ~UNCHANGED vars /\ ~Crash /\ ~RetryLoop /\ ~ObserveTrip /\ ~SettleGate
      BY <2>1 DEF vars, Crash, RetryLoop, RetryPending, RetryRecords, RerecordWritten,
                  RecoveryEnds, ObserveTrip, SettleGate, circuit
    <3>4. \A ok \in BOOLEAN : ~WriteHead(ok)
      BY <2>1 DEF WriteHead, circuit
    <3>5. ~ExecTripRelay /\ ~ExecReleaseRelay
      BY <1>1 DEF ExecTripRelay, ExecReleaseRelay
    <3> QED  BY <1>1, <3>1, <3>2, <3>3, <3>4, <3>5 DEF Next
  <2> QED  BY <1>1, <2>2 DEF GateAnswered, IInv, ClosesUntripped, DurableTripHolds
<1>2. IInv /\ [Next]_vars =>
        [coil' = "closed" /\ coil # "closed" => ~TripIsDurable /\ ~tripped]_vars
  BY <1>1
<1> QED  BY <1>2, SpecIInv, PTL DEF Spec, NoClosingOnceTripped
=============================================================================
