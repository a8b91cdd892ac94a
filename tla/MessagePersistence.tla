-------------------------- MODULE MessagePersistence --------------------------
(***************************************************************************)
(* The chat-message persistence path of kafka-service: one instance of     *)
(* MessagePersistenceConsumer reading one ordered stream of records,       *)
(* buffering them in memory, flushing the buffer to MongoDB in bulk, and   *)
(* announcing each outcome on the persistence-events topic.                *)
(*                                                                         *)
(* A step of the model is what runs between two awaits of the code.  Three *)
(* activities of one Node.js process interleave at those points: the       *)
(* eachMessage handler, the flushes started by setInterval, and stop().    *)
(* Kafka, MongoDB and Redis are external: each of their operations is      *)
(* atomic and may fail, at most MaxFaults times in a behaviour.            *)
(***************************************************************************)
EXTENDS Naturals, Sequences, FiniteSets, SequencesExt

CONSTANTS
    Event,          \* the messages, by event_id (unique per tenant)
    Conv,           \* the conversations
    NoConv,         \* what an event without a conversation_id carries
    ConvOf,         \* ConvOf[e]: the conversation an event belongs to
    TimeOf,         \* TimeOf[e]: its occurred_at, as a positive number
    Topic,          \* the records of chat.messages, in the order delivered
    BatchSize,      \* config.batchSize
    Timers,         \* slots for timer flushes: as many as may overlap
    BulkFaults,     \* the ways a bulkWrite may fail in this instance
    MaxFaults,      \* bound: failing external calls
    MaxDeaths,      \* bound: crashes and orderly exits of the process
    MaxRebalances   \* bound: consumer-group rebalances

Kinds == {"message", "rejected", "badEnvelope"}
Records == [kind : Kinds, event : Event]

ASSUME ConstantsOK ==
    /\ NoConv \notin Conv
    /\ ConvOf \in [Event -> Conv \cup {NoConv}]
    /\ TimeOf \in [Event -> Nat \ {0}]
    /\ Topic \in Seq(Records)
    /\ BatchSize \in Nat \ {0}
    /\ Timers \cap {"handler", "stop"} = {}
    /\ BulkFaults \subseteq {"writeErrors", "unavailable", "driverError"}
    /\ MaxFaults \in Nat
    /\ MaxDeaths \in Nat
    /\ MaxRebalances \in Nat

VARIABLES
    phase,      \* of the process: "up", "stopping", "disconnecting", "down"
    position,   \* records whose handler returned, in this session
    committed,  \* the offset committed in Kafka
    handler,    \* where handleMessage stands, for record position + 1
    buffer,     \* messageBuffer
    flush,      \* flush[s]: the flushBuffer call running in slot s
    stored,     \* events with a document in the messages collection
    lastAt,     \* lastAt[c]: conversations.last_message_at, 0 when unset
    dlq,        \* offsets of the records published on the DLQ topic
    notices,    \* persistence events published: <<status, event>>
    faults, deaths, rebalances      \* counters for the bounds

process == <<phase, position, handler, buffer, flush>>
outside == <<committed, stored, lastAt, dlq, notices>>
bounds  == <<faults, deaths, rebalances>>
vars    == <<process, outside, bounds>>

Slot == Timers \cup {"handler", "stop"}
NoFlush == [at |-> "none", msgs |-> <<>>, todo |-> {}]

Current == Topic[position + 1]
Offset == position + 1

Init ==
    /\ phase = "up"
    /\ position = 0
    /\ committed = 0
    /\ handler = "idle"
    /\ buffer = <<>>
    /\ flush = [s \in Slot |-> NoFlush]
    /\ stored = {}
    /\ lastAt = [c \in Conv |-> 0]
    /\ dlq = {}
    /\ notices = {}
    /\ faults = 0
    /\ deaths = 0
    /\ rebalances = 0

(* One external call fails; only MaxFaults of them do. *)
Fault == faults < MaxFaults /\ faults' = faults + 1

(* handleMessage returns: kafkajs resolves the record's offset. *)
HandlerReturns == handler' = "idle" /\ position' = position + 1

-----------------------------------------------------------------------------
(* The eachMessage handler, await by await. *)

(* kafkajs calls the handler with the next record; up to its first await   *)
(* the code parses the record and looks at its event type.                 *)
Deliver ==
    /\ phase \in {"up", "stopping"}
    /\ handler = "idle"
    /\ position < Len(Topic)
    /\ handler' = CASE Current.kind = "message"     -> "check"
                    [] Current.kind = "rejected"    -> "reject"
                    [] Current.kind = "badEnvelope" -> "envelope"
    /\ UNCHANGED <<phase, position, buffer, flush, outside, bounds>>

(* Unparsable JSON or an unsupported type: a failing publish is swallowed. *)
PublishRejected ==
    /\ handler = "reject"
    /\ \/ dlq' = dlq \cup {Offset} /\ UNCHANGED faults
       \/ Fault /\ UNCHANGED dlq
    /\ HandlerReturns
    /\ UNCHANGED <<phase, buffer, flush, committed, stored, lastAt, notices,
                   deaths, rebalances>>

(* checkDuplicate: MongoDB answers; the continuation runs later. *)
CheckDuplicate ==
    /\ handler = "check"
    /\ \/ /\ handler' = IF Current.event \in stored THEN "duplicate" ELSE "fresh"
          /\ UNCHANGED faults
       \/ Fault /\ handler' = "error"
    /\ UNCHANGED <<phase, position, buffer, flush, outside, deaths, rebalances>>

(* A notification reaches the topic or is dropped; neither call throws. *)
Announce(status, events) ==
    \E told \in SUBSET events : notices' = notices \cup {<<status, e>> : e \in told}

SkipDuplicate ==
    /\ handler = "duplicate"
    /\ Announce("success", {Current.event})
    /\ HandlerReturns
    /\ UNCHANGED <<phase, buffer, flush, committed, stored, lastAt, dlq, bounds>>

(* Seeded fault: one batch is taken, but the whole buffer is cleared. *)
StartFlushOneBatch(s, msgs) ==
    /\ buffer' = <<>>
    /\ flush' = [flush EXCEPT ![s] =
                   [at |-> "bulk", todo |-> {},
                    msgs |-> IF Len(msgs) <= BatchSize THEN msgs
                             ELSE SubSeq(msgs, 1, BatchSize)]]

StartFlush(s, msgs) ==
    /\ buffer' = <<>>
    /\ flush' = [flush EXCEPT ![s] = [at |-> "bulk", msgs |-> msgs, todo |-> {}]]

(* Push the event; the push that fills the buffer awaits its flush. *)
BufferMessage ==
    /\ handler = "fresh"
    /\ LET pushed == Append(buffer, Current.event)
       IN  \/ /\ Len(pushed) >= BatchSize
              /\ StartFlush("handler", pushed)
              /\ handler' = "flushing"
              /\ UNCHANGED position
           \/ /\ Len(pushed) < BatchSize
              /\ buffer' = pushed
              /\ HandlerReturns
              /\ UNCHANGED flush
    /\ UNCHANGED <<phase, outside, bounds>>

(* The outer catch: DLQ first, then the failure notice; when that publish  *)
(* fails, the inner catch publishes once more.                             *)
PublishError ==
    /\ handler = "error"
    /\ \/ dlq' = dlq \cup {Offset} /\ handler' = "tellFailure" /\ UNCHANGED faults
       \/ Fault /\ handler' = "envelope" /\ UNCHANGED dlq
    /\ UNCHANGED <<phase, position, buffer, flush, committed, stored, lastAt,
                   notices, deaths, rebalances>>

TellFailure ==
    /\ handler = "tellFailure"
    /\ Announce("failure", {Current.event})
    /\ HandlerReturns
    /\ UNCHANGED <<phase, buffer, flush, committed, stored, lastAt, dlq, bounds>>

(* The inner catch: this publish is not guarded, so its failure leaves the *)
(* handler by an exception and kafkajs delivers the record again.          *)
PublishEnvelope ==
    /\ handler = "envelope"
    /\ \/ dlq' = dlq \cup {Offset} /\ HandlerReturns /\ UNCHANGED faults
       \/ Fault /\ handler' = "idle" /\ UNCHANGED <<position, dlq>>
    /\ UNCHANGED <<phase, buffer, flush, committed, stored, lastAt, notices,
                   deaths, rebalances>>

-----------------------------------------------------------------------------
(* flushBuffer, in whichever slot it runs. *)

(* Seeded fault: the timer, too, waits for a full batch. *)
TimerFlushWhenFull(s) ==
    /\ phase = "up"
    /\ s \in Timers /\ flush[s].at = "none"
    /\ Len(buffer) >= BatchSize
    /\ StartFlush(s, buffer)
    /\ UNCHANGED <<phase, position, handler, outside, bounds>>

(* setInterval fires: the timer does not wait for an earlier flush. *)
TimerFlush(s) ==
    /\ phase = "up"
    /\ s \in Timers /\ flush[s].at = "none"
    /\ buffer # <<>>
    /\ StartFlush(s, buffer)
    /\ UNCHANGED <<phase, position, handler, outside, bounds>>

GoTo(s, step) == flush' = [flush EXCEPT ![s].at = step]

Batch(s) == ToSet(flush[s].msgs)
Conversations(events) == {ConvOf[e] : e \in events} \ {NoConv}

UpdateNext(s, todo) ==
    flush' = [flush EXCEPT ![s].todo = todo,
                           ![s].at = IF todo = {} THEN "ack" ELSE "convs"]

(* Seeded fault: one duplicate among the write errors is enough. *)
AfterErrorAnyDuplicate(isBulkError, dups, errors) ==
    IF isBulkError /\ (dups > 0 \/ errors = 0) THEN "ack" ELSE "nack"

(* The catch block: an error that is a MongoBulkWriteError all of whose    *)
(* write errors are duplicate keys counts as done, any other as failed.    *)
AfterError(isBulkError, dups, errors) ==
    IF isBulkError /\ dups = errors THEN "ack" ELSE "nack"

(* The unordered bulkWrite is answered.  The unique index refuses a copy   *)
(* of a stored message; the server may refuse others for its own reasons.  *)
BulkAnswered(s) ==
    /\ flush[s].at = "bulk"
    /\ LET new  == Batch(s) \ stored
           dups == Len(flush[s].msgs) - Cardinality(new)
       IN  \E refused \in SUBSET new :
              /\ \/ refused = {} /\ UNCHANGED faults
                 \/ refused # {} /\ "writeErrors" \in BulkFaults /\ Fault
              /\ stored' = stored \cup (new \ refused)
              /\ LET errors == dups + Cardinality(refused)
                 IN  IF errors = 0
                     THEN UpdateNext(s, Conversations(Batch(s)))
                     ELSE GoTo(s, AfterError(TRUE, dups, errors))
    /\ UNCHANGED <<phase, position, handler, buffer, committed, lastAt, dlq,
                   notices, deaths, rebalances>>

(* No server to write to: rejected before anything is sent. *)
BulkUnavailable(s) ==
    /\ flush[s].at = "bulk"
    /\ "unavailable" \in BulkFaults
    /\ Fault
    /\ GoTo(s, AfterError(FALSE, 0, 0))
    /\ UNCHANGED <<phase, position, handler, buffer, outside, deaths, rebalances>>

(* The connection breaks during the bulk: the driver rejects with a        *)
(* MongoBulkWriteError without write errors; any part may have been done.  *)
BulkDriverError(s) ==
    /\ flush[s].at = "bulk"
    /\ "driverError" \in BulkFaults
    /\ Fault
    /\ \E done \in SUBSET Batch(s) : stored' = stored \cup done
    /\ GoTo(s, AfterError(TRUE, 0, 0))
    /\ UNCHANGED <<phase, position, handler, buffer, committed, lastAt, dlq,
                   notices, deaths, rebalances>>

(* Seeded fault: the newest of the batch, of whichever conversation. *)
NewestOfBatch(s, c) == {e \in Batch(s) : \A f \in Batch(s) : TimeOf[f] <= TimeOf[e]}

(* The flushed events of a conversation with its latest occurred_at. *)
Newest(s, c) ==
    LET own == {e \in Batch(s) : ConvOf[e] = c}
    IN  {e \in own : \A f \in own : TimeOf[f] <= TimeOf[e]}

(* One round of the loop over conversationUpdates: $set last_message_at,   *)
(* then delete the cache entry.  Either call may fail.  The conversations  *)
(* are visited in any order: the code's Map order is one of them.          *)
UpdateConversation(s, c) ==
    /\ flush[s].at = "convs"
    /\ c \in flush[s].todo
    /\ \/ /\ \E e \in Newest(s, c) : lastAt' = [lastAt EXCEPT ![c] = TimeOf[e]]
          /\ \/ UpdateNext(s, flush[s].todo \ {c}) /\ UNCHANGED faults
             \/ Fault /\ GoTo(s, AfterError(FALSE, 0, 0))
       \/ /\ Fault
          /\ GoTo(s, AfterError(FALSE, 0, 0))
          /\ UNCHANGED lastAt
    /\ UNCHANGED <<phase, position, handler, buffer, committed, stored, dlq,
                   notices, deaths, rebalances>>

(* Seeded fault: whoever started the flush, the handler goes on. *)
FlushReturnsToHandler(s) ==
    /\ flush' = [flush EXCEPT ![s] = NoFlush]
    /\ HandlerReturns
    /\ phase' = IF s = "stop" THEN "disconnecting" ELSE phase

(* flushBuffer returns to whoever awaits it: nobody, the handler or stop. *)
FlushReturns(s) ==
    /\ flush' = [flush EXCEPT ![s] = NoFlush]
    /\ IF s = "handler" THEN HandlerReturns ELSE UNCHANGED <<handler, position>>
    /\ phase' = IF s = "stop" THEN "disconnecting" ELSE phase

NotifySuccess(s) ==
    /\ flush[s].at = "ack"
    /\ Announce("success", Batch(s))
    /\ FlushReturns(s)
    /\ UNCHANGED <<buffer, committed, stored, lastAt, dlq, bounds>>

(* Seeded fault: the failed messages are not put back. *)
NotifyFailureForgetting(s) ==
    /\ flush[s].at = "nack"
    /\ Announce("failure", Batch(s))
    /\ FlushReturns(s)
    /\ UNCHANGED <<buffer, committed, stored, lastAt, dlq, bounds>>

(* Failure notices, then the messages go back to the front of the buffer. *)
NotifyFailure(s) ==
    /\ flush[s].at = "nack"
    /\ Announce("failure", Batch(s))
    /\ buffer' = flush[s].msgs \o buffer
    /\ FlushReturns(s)
    /\ UNCHANGED <<committed, stored, lastAt, dlq, bounds>>

-----------------------------------------------------------------------------
(* The process and the consumer group. *)

(* stop(): the timer is cleared and the buffer flushed once; the consumer  *)
(* stays connected until that flush is over.                               *)
BeginStop ==
    /\ phase = "up"
    /\ deaths < MaxDeaths
    /\ \/ /\ buffer # <<>>
          /\ phase' = "stopping"
          /\ StartFlush("stop", buffer)
       \/ /\ buffer = <<>>
          /\ phase' = "disconnecting"
          /\ UNCHANGED <<buffer, flush>>
    /\ UNCHANGED <<position, handler, outside, bounds>>

(* Memory is gone; Kafka will deliver again from the committed offset. *)
ProcessGone ==
    /\ phase' = "down"
    /\ position' = committed
    /\ handler' = "idle"
    /\ buffer' = <<>>
    /\ flush' = [s \in Slot |-> NoFlush]
    /\ deaths' = deaths + 1
    /\ UNCHANGED <<outside, faults, rebalances>>

(* disconnect() waits for the running handler, then the process exits. *)
Exit == phase = "disconnecting" /\ handler = "idle" /\ ProcessGone

Crash == phase # "down" /\ deaths < MaxDeaths /\ ProcessGone

Restart ==
    /\ phase = "down"
    /\ phase' = "up"
    /\ UNCHANGED <<position, handler, buffer, flush, outside, bounds>>

(* Auto-commit of the resolved offsets, whenever kafkajs does it. *)
AutoCommit ==
    /\ phase # "down"
    /\ committed < position
    /\ committed' = position
    /\ UNCHANGED <<process, stored, lastAt, dlq, notices, bounds>>

(* The group rebalances between two records: uncommitted ones come again. *)
Rebalance ==
    /\ phase \in {"up", "stopping"}
    /\ handler = "idle"
    /\ committed < position
    /\ rebalances < MaxRebalances
    /\ position' = committed
    /\ rebalances' = rebalances + 1
    /\ UNCHANGED <<phase, handler, buffer, flush, outside, faults, deaths>>

-----------------------------------------------------------------------------
HandlerStep ==
    \/ PublishRejected \/ CheckDuplicate \/ SkipDuplicate \/ BufferMessage
    \/ PublishError \/ TellFailure \/ PublishEnvelope

FlushStep(s) ==
    \/ BulkAnswered(s) \/ BulkUnavailable(s) \/ BulkDriverError(s)
    \/ \E c \in Conv : UpdateConversation(s, c)
    \/ NotifySuccess(s) \/ NotifyFailure(s)

Next ==
    \/ Deliver
    \/ HandlerStep
    \/ \E s \in Slot : TimerFlush(s) \/ FlushStep(s)
    \/ BeginStop \/ Exit \/ Crash \/ Restart
    \/ AutoCommit \/ Rebalance

Spec == Init /\ [][Next]_vars

(* kafkajs keeps delivering, every awaited call is answered, and the       *)
(* interval timer keeps firing while the process is up.  Nothing obliges   *)
(* Kafka to rebalance or the process to stop, crash or be restarted.       *)
Fairness ==
    /\ WF_vars(Deliver)
    /\ WF_vars(HandlerStep)
    /\ \A s \in Slot : WF_vars(FlushStep(s))
    /\ WF_vars(\E s \in Timers : TimerFlush(s))

FairSpec == Spec /\ Fairness

-----------------------------------------------------------------------------
(* Correctness. *)

HandlerSteps == {"idle", "reject", "check", "duplicate", "fresh", "flushing",
                 "error", "tellFailure", "envelope"}
FlushSteps == {"none", "bulk", "convs", "ack", "nack"}
FlushType == [at : FlushSteps, msgs : Seq(Event), todo : SUBSET Conv]

(* Every variable has its type, and the committed offset never passes the  *)
(* last record whose handler returned (the offsets kafkajs may commit).    *)
TypeOK ==
    /\ phase \in {"up", "stopping", "disconnecting", "down"}
    /\ position \in 0..Len(Topic)
    /\ committed \in 0..position
    /\ handler \in HandlerSteps
    /\ buffer \in Seq(Event)
    /\ flush \in [Slot -> FlushType]
    /\ stored \subseteq Event
    /\ lastAt \in [Conv -> Nat]
    /\ dlq \subseteq 1..Len(Topic)
    /\ notices \subseteq {"success", "failure"} \X Event
    /\ faults \in 0..MaxFaults
    /\ deaths \in Nat
    /\ rebalances \in Nat

(* A message announced as persisted is in MongoDB, whatever mix of partial *)
(* bulk writes, duplicates, retries, crashes and redeliveries came before  *)
(* (lines 310-320 and 343-355: inserted + deduped are both "done").        *)
AckedIsStored == \A e \in Event : <<"success", e>> \in notices => e \in stored

(* last_message_at is unset or the time of a stored message of that very   *)
(* conversation: it is set only after the whole bulk went in (275-307).    *)
HeadIsStored ==
    \A c \in Conv : lastAt[c] # 0 =>
        \E e \in stored : ConvOf[e] = c /\ TimeOf[e] = lastAt[c]

Held == stored \cup ToSet(buffer) \cup UNION {Batch(s) : s \in Slot}

(* What the consumer owes a record once its handler has returned. *)
Settled(o) ==
    CASE Topic[o].kind = "message"     -> o \in dlq \/ Topic[o].event \in Held
      [] Topic[o].kind = "badEnvelope" -> o \in dlq
      [] Topic[o].kind = "rejected"    -> TRUE

FlushedAsDone(o) ==
    \E s \in Slot : /\ flush[s].at = "ack" /\ flush'[s].at = "none"
                    /\ Topic[o].kind = "message" /\ Topic[o].event \in Batch(s)

(* As long as the process lives, each record it has passed over is stored, *)
(* in the DLQ, or in memory on its way to the database, and stays so       *)
(* through failed flushes, retries and redeliveries (372-375); the only    *)
(* step that may let go of it is the return of a flush taken as done.      *)
DropOnlyWhenDone ==
    [][phase' # "down" =>
         \A o \in 1..position' :
            (o > position \/ Settled(o)) => Settled(o)' \/ FlushedAsDone(o)]_vars

Durable(o) ==
    Topic[o].kind = "rejected" \/ o \in dlq
        \/ (Topic[o].kind = "message" /\ Topic[o].event \in stored)

(* If the process stays up and the faults end, every record of the topic   *)
(* is at last durable: the timer drains what never fills a batch, and a    *)
(* failed flush is tried again.                                            *)
EveryRecordBecomesDurable ==
    [](phase = "up") => \A o \in DOMAIN Topic : <>Durable(o)

-----------------------------------------------------------------------------
(* The promise these steps keep: MessageLedger, whose pending messages are *)
(* those in the buffer or in a running flush and not yet in MongoDB.       *)

Pending == (ToSet(buffer) \cup UNION {Batch(s) : s \in Slot}) \ stored

Ledger == INSTANCE MessageLedger WITH
    pending <- Pending,
    Offsets <- DOMAIN Topic,
    Unsure  <- "driverError" \in BulkFaults

(* Every step of the consumer is a step of the ledger or changes nothing   *)
(* of it: flushing, splitting, putting back and redelivering (242-377)     *)
(* neither lose nor invent a message, while the process lives.             *)
KeepsLedger == Ledger!Spec

-----------------------------------------------------------------------------
(* What makes those properties inductive. *)

(* What the handler has established about the record it stands at. *)
HandlerOwes ==
    /\ handler \in {"check", "duplicate", "fresh", "flushing", "error", "tellFailure"}
           => Current.kind = "message"
    /\ handler = "reject" => Current.kind = "rejected"
    /\ handler = "duplicate" => Current.event \in stored
    /\ handler = "flushing" => Current.event \in Batch("handler")
    /\ handler = "tellFailure" => Offset \in dlq

(* What each flush has established about the messages it carries. *)
FlushOwes ==
    \A s \in Slot :
        /\ flush[s].at = "none" => Batch(s) = {}
        /\ flush[s].at = "convs" => Batch(s) \subseteq stored

(* Without connection errors in mid-bulk, "done" means stored. *)
DoneIsStored == \A s \in Slot : flush[s].at = "ack" => Batch(s) \subseteq stored
=============================================================================
