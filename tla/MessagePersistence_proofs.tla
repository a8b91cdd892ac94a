---------------------- MODULE MessagePersistence_proofs ----------------------
(***************************************************************************)
(* Theorems about MessagePersistence, for every topic, batch size, number  *)
(* of overlapping timer flushes and bound on faults, deaths, rebalances.   *)
(***************************************************************************)
EXTENDS MessagePersistence, FiniteSetTheorems, SequenceTheorems, TLAPS

-----------------------------------------------------------------------------
(* What the buffer's operations hold. *)

LEMMA ToSetOfSeq ==
    ASSUME NEW S, NEW s \in Seq(S)
    PROVE  ToSet(s) \subseteq S /\ IsFiniteSet(ToSet(s))
<1>1. s \in [1..Len(s) -> S] /\ DOMAIN s = 1..Len(s) /\ Len(s) \in Nat
    OBVIOUS
<1>2. ToSet(s) \subseteq S
    BY <1>1 DEF ToSet
<1>3. s \in Surjection(1..Len(s), ToSet(s))
    BY <1>1 DEF ToSet, Surjection
<1>4. IsFiniteSet(1..Len(s))
    BY <1>1, FS_Interval
<1>5. QED
    BY <1>2, <1>3, <1>4, FS_Surjection

LEMMA ToSetOfAppend ==
    ASSUME NEW S, NEW s \in Seq(S), NEW e \in S
    PROVE  ToSet(Append(s, e)) = ToSet(s) \cup {e}
<1>1. DOMAIN s = 1..Len(s) /\ Len(s) \in Nat
    OBVIOUS
<1>2. /\ DOMAIN Append(s, e) = 1..Len(s) + 1
      /\ \A i \in 1..Len(s) : Append(s, e)[i] = s[i]
      /\ Append(s, e)[Len(s) + 1] = e
    OBVIOUS
<1>3. 1..Len(s) + 1 = (1..Len(s)) \cup {Len(s) + 1}
    BY <1>1
<1>4. QED
    BY <1>1, <1>2, <1>3 DEF ToSet

LEMMA ToSetOfConcat ==
    ASSUME NEW S, NEW s \in Seq(S), NEW t \in Seq(S)
    PROVE  ToSet(s \o t) = ToSet(s) \cup ToSet(t)
<1> DEFINE m == Len(s)
           n == Len(t)
<1>1. m \in Nat /\ n \in Nat /\ DOMAIN s = 1..m /\ DOMAIN t = 1..n
    OBVIOUS
<1>2. /\ DOMAIN (s \o t) = 1..m + n
      /\ \A i \in 1..m + n : (s \o t)[i] = IF i <= m THEN s[i] ELSE t[i - m]
    BY ConcatProperties
<1>3. ToSet(s) \subseteq ToSet(s \o t)
    BY <1>1, <1>2 DEF ToSet
<1>4. ToSet(t) \subseteq ToSet(s \o t)
  <2>1. ASSUME NEW i \in 1..n PROVE t[i] = (s \o t)[i + m] /\ i + m \in 1..m + n
      BY <1>1, <1>2
  <2>2. QED
      BY <1>1, <1>2, <2>1 DEF ToSet
<1>5. ToSet(s \o t) \subseteq ToSet(s) \cup ToSet(t)
  <2>1. ASSUME NEW i \in 1..m + n, ~(i <= m) PROVE i - m \in 1..n
      BY <1>1, <2>1
  <2>2. QED
      BY <1>1, <1>2, <2>1 DEF ToSet
<1>6. QED
    BY <1>3, <1>4, <1>5

LEMMA ToSetOfEmpty == ToSet(<<>>) = {}
    BY DEF ToSet

-----------------------------------------------------------------------------
(* Type correctness. *)

LEMMA ConversationsType == \A events : events \subseteq Event => Conversations(events) \subseteq Conv
    BY ConstantsOK DEF Conversations

LEMMA AfterErrorType ==
    \A b, d, n : AfterError(b, d, n) \in {"ack", "nack"}
    BY DEF AfterError

(* What is announced is a well-formed notice. *)
LEMMA AnnounceType ==
    ASSUME notices \subseteq {"success", "failure"} \X Event,
           NEW status \in {"success", "failure"}, NEW events \in SUBSET Event,
           Announce(status, events)
    PROVE  notices' \subseteq {"success", "failure"} \X Event
    BY DEF Announce

LEMMA NoFlushType == NoFlush \in FlushType
    BY DEF NoFlush, FlushType, FlushSteps

(* Each way the code moves a flush keeps the type of the flush records. *)
LEMMA FlushMoves ==
    ASSUME flush \in [Slot -> FlushType], NEW s \in Slot
    PROVE  /\ \A step \in FlushSteps : GoTo(s, step) => flush' \in [Slot -> FlushType]
           /\ \A todo \in SUBSET Conv : UpdateNext(s, todo) => flush' \in [Slot -> FlushType]
           /\ \A msgs \in Seq(Event) : StartFlush(s, msgs) =>
                  flush' \in [Slot -> FlushType] /\ buffer' \in Seq(Event)
           /\ FlushReturns(s) => flush' \in [Slot -> FlushType]
<1>0. flush[s] \in FlushType
    OBVIOUS
<1>1. ASSUME NEW step \in FlushSteps, GoTo(s, step)
      PROVE  flush' \in [Slot -> FlushType]
  <2>1. [flush[s] EXCEPT !.at = step] \in FlushType
      BY <1>0 DEF FlushType
  <2>2. flush' = [flush EXCEPT ![s] = [flush[s] EXCEPT !.at = step]]
      BY <1>1 DEF GoTo
  <2>3. QED
      BY <2>1, <2>2
<1>2. ASSUME NEW todo \in SUBSET Conv, UpdateNext(s, todo)
      PROVE  flush' \in [Slot -> FlushType]
  <2> DEFINE step == IF todo = {} THEN "ack" ELSE "convs"
             next == [[flush[s] EXCEPT !.todo = todo] EXCEPT !.at = step]
  <2>1. next \in FlushType
      BY <1>0 DEF FlushType, FlushSteps
  <2>2. flush' = [flush EXCEPT ![s] = next]
      BY <1>2, <1>0 DEF UpdateNext, FlushType
  <2>3. QED
      BY <2>1, <2>2
<1>3. ASSUME NEW msgs \in Seq(Event), StartFlush(s, msgs)
      PROVE  flush' \in [Slot -> FlushType] /\ buffer' \in Seq(Event)
  <2>1. [at |-> "bulk", msgs |-> msgs, todo |-> {}] \in FlushType
      BY DEF FlushType, FlushSteps
  <2>2. QED
      BY <1>3, <2>1 DEF StartFlush
<1>4. ASSUME FlushReturns(s) PROVE flush' \in [Slot -> FlushType]
    BY <1>4, NoFlushType DEF FlushReturns
<1>5. QED
    BY <1>1, <1>2, <1>3, <1>4

LEMMA FaultType == faults \in 0..MaxFaults /\ Fault => faults' \in 0..MaxFaults
    BY ConstantsOK DEF Fault

LEMMA RecordType == ASSUME NEW o \in 1..Len(Topic)
                    PROVE  Topic[o].kind \in Kinds /\ Topic[o].event \in Event
<1>1. Topic[o] \in Records
    BY ConstantsOK
<1>2. QED
    BY <1>1 DEF Records

(* A record is being handled only while there is one. *)
HandlerHasRecord == handler # "idle" => position < Len(Topic)

(* A flush runs in the handler's slot exactly while the handler awaits it, *)
(* and in the slot of stop() only while it stops.                          *)
FlushInHandler ==
    /\ handler = "flushing" <=> flush["handler"].at # "none"
    /\ flush["stop"].at # "none" => phase = "stopping"

LEMMA CurrentType ==
    ASSUME TypeOK, HandlerHasRecord, handler # "idle" \/ position < Len(Topic)
    PROVE  /\ Current.kind \in Kinds /\ Current.event \in Event
           /\ Offset \in 1..Len(Topic)
<1>1. Offset \in 1..Len(Topic)
    BY ConstantsOK DEF TypeOK, HandlerHasRecord, Offset
<1>2. QED
    BY <1>1, RecordType DEF Current, Offset

LEMMA HandlerTypeStep ==
    ASSUME TypeOK, HandlerHasRecord, Deliver \/ HandlerStep
    PROVE  TypeOK' /\ HandlerHasRecord'
<1> USE DEF HandlerHasRecord, TypeOK, outside, bounds
<1>0. Len(Topic) \in Nat /\ "handler" \in Slot
    BY ConstantsOK DEF Slot
<1>a. ASSUME handler # "idle", HandlerReturns
      PROVE  position' \in 0..Len(Topic) /\ committed \in 0..position' /\ handler' = "idle"
    BY <1>0, <1>a DEF HandlerReturns
<1>1. CASE Deliver
  <2>1. Current.kind \in Kinds
      BY <1>1, CurrentType DEF Deliver
  <2>2. handler' \in HandlerSteps
      BY <1>1, <2>1 DEF Deliver, Kinds, HandlerSteps
  <2>3. QED
      BY <1>1, <2>2 DEF Deliver
<1>2. CASE PublishRejected
    BY <1>2, <1>a, CurrentType, FaultType DEF PublishRejected, HandlerSteps
<1>3. CASE CheckDuplicate
    BY <1>3, FaultType DEF CheckDuplicate, HandlerSteps
<1>4. CASE SkipDuplicate
  <2>1. notices' \subseteq {"success", "failure"} \X Event
      BY <1>4, CurrentType, AnnounceType DEF SkipDuplicate
  <2>2. QED
      BY <1>4, <1>a, <2>1 DEF SkipDuplicate, HandlerSteps
<1>5. CASE BufferMessage
  <2> DEFINE pushed == Append(buffer, Current.event)
  <2>1. pushed \in Seq(Event)
      BY <1>5, CurrentType, AppendProperties DEF BufferMessage
  <2>2. CASE Len(pushed) >= BatchSize /\ StartFlush("handler", pushed)
             /\ handler' = "flushing" /\ UNCHANGED position
      BY <1>0, <1>5, <2>1, <2>2, FlushMoves DEF BufferMessage, HandlerSteps
  <2>3. CASE buffer' = pushed /\ HandlerReturns /\ UNCHANGED flush
      BY <1>5, <1>a, <2>1, <2>3 DEF BufferMessage, HandlerSteps
  <2>4. QED
      BY <1>5, <2>2, <2>3 DEF BufferMessage
<1>6. CASE PublishError
    BY <1>6, CurrentType, FaultType DEF PublishError, HandlerSteps
<1>7. CASE TellFailure
  <2>1. notices' \subseteq {"success", "failure"} \X Event
      BY <1>7, CurrentType, AnnounceType DEF TellFailure
  <2>2. QED
      BY <1>7, <1>a, <2>1 DEF TellFailure, HandlerSteps
<1>8. CASE PublishEnvelope
    BY <1>8, <1>a, CurrentType, FaultType DEF PublishEnvelope, HandlerSteps
<1>9. QED
    BY <1>1, <1>2, <1>3, <1>4, <1>5, <1>6, <1>7, <1>8 DEF HandlerStep

LEMMA FlushTypeStep ==
    ASSUME TypeOK, HandlerHasRecord, FlushInHandler,
           NEW s \in Slot, TimerFlush(s) \/ FlushStep(s)
    PROVE  TypeOK' /\ HandlerHasRecord'
<1> USE DEF HandlerHasRecord, TypeOK, outside, bounds
<1>0. /\ flush[s].msgs \in Seq(Event) /\ Batch(s) \subseteq Event
      /\ flush[s].todo \subseteq Conv
    BY ToSetOfSeq DEF Batch, FlushType
<1>1. CASE TimerFlush(s)
    BY <1>1, FlushMoves DEF TimerFlush
<1>2. CASE BulkAnswered(s)
  <2>1. flush' \in [Slot -> FlushType]
      BY <1>0, <1>2, FlushMoves, AfterErrorType, ConversationsType DEF BulkAnswered, FlushSteps
  <2>2. stored' \subseteq Event /\ faults' \in 0..MaxFaults
      BY <1>0, <1>2, FaultType DEF BulkAnswered
  <2>3. QED
      BY <1>2, <2>1, <2>2 DEF BulkAnswered
<1>3. CASE BulkUnavailable(s)
  <2>1. flush' \in [Slot -> FlushType]
      BY <1>3, FlushMoves, AfterErrorType DEF BulkUnavailable, FlushSteps
  <2>2. QED
      BY <1>3, <2>1, FaultType DEF BulkUnavailable
<1>4. CASE BulkDriverError(s)
  <2>1. flush' \in [Slot -> FlushType]
      BY <1>4, FlushMoves, AfterErrorType DEF BulkDriverError, FlushSteps
  <2>2. stored' \subseteq Event
      BY <1>0, <1>4 DEF BulkDriverError
  <2>3. QED
      BY <1>4, <2>1, <2>2, FaultType DEF BulkDriverError
<1>5. ASSUME NEW c \in Conv, UpdateConversation(s, c) PROVE TypeOK' /\ HandlerHasRecord'
  <2>1. flush' \in [Slot -> FlushType]
    <3>1. flush[s].todo \ {c} \in SUBSET Conv
        BY <1>0
    <3>2. QED
        BY <1>5, <3>1, FlushMoves, AfterErrorType DEF UpdateConversation, FlushSteps
  <2>2. lastAt' \in [Conv -> Nat]
    <3>1. \A e \in Newest(s, c) : TimeOf[e] \in Nat
        BY <1>0, ConstantsOK DEF Newest
    <3>2. QED
        BY <1>5, <3>1 DEF UpdateConversation
  <2>3. faults' \in 0..MaxFaults
      BY <1>5, FaultType DEF UpdateConversation
  <2>4. QED
      BY <1>5, <2>1, <2>2, <2>3 DEF UpdateConversation
<1>6. ASSUME NotifySuccess(s) \/ NotifyFailure(s) PROVE TypeOK' /\ HandlerHasRecord'
  <2>1. flush' \in [Slot -> FlushType]
      BY <1>6, FlushMoves DEF NotifySuccess, NotifyFailure
  <2>2. notices' \subseteq {"success", "failure"} \X Event
      BY <1>0, <1>6, AnnounceType DEF NotifySuccess, NotifyFailure
  <2>3. buffer' \in Seq(Event)
      BY <1>0, <1>6, ConcatProperties DEF NotifySuccess, NotifyFailure
  <2>4. /\ position' \in 0..Len(Topic) /\ committed \in 0..position'
        /\ handler' \in HandlerSteps /\ HandlerHasRecord'
    <3>1. s = "handler" => position < Len(Topic)
        BY <1>6 DEF NotifySuccess, NotifyFailure, FlushInHandler
    <3>2. Len(Topic) \in Nat
        BY ConstantsOK
    <3>3. QED
        BY <1>6, <3>1, <3>2
        DEF NotifySuccess, NotifyFailure, FlushReturns, HandlerReturns, HandlerSteps
  <2>5. phase' \in {"up", "stopping", "disconnecting", "down"}
      BY <1>6 DEF NotifySuccess, NotifyFailure, FlushReturns
  <2>6. QED
      BY <1>6, <2>1, <2>2, <2>3, <2>4, <2>5 DEF NotifySuccess, NotifyFailure
<1>7. QED
    BY <1>1, <1>2, <1>3, <1>4, <1>5, <1>6 DEF FlushStep

LEMMA ProcessTypeStep ==
    ASSUME TypeOK, HandlerHasRecord,
           BeginStop \/ Exit \/ Crash \/ Restart \/ AutoCommit \/ Rebalance
    PROVE  TypeOK' /\ HandlerHasRecord'
<1> USE DEF HandlerHasRecord, TypeOK, process, outside, bounds
<1>0. Len(Topic) \in Nat /\ "stop" \in Slot
    BY ConstantsOK DEF Slot
<1>1. CASE BeginStop
  <2>1. flush' \in [Slot -> FlushType] /\ buffer' \in Seq(Event)
      BY <1>0, <1>1, FlushMoves DEF BeginStop
  <2>2. QED
      BY <1>1, <2>1 DEF BeginStop
<1>2. CASE Exit \/ Crash
  <2>1. flush' \in [Slot -> FlushType]
      BY <1>2, NoFlushType DEF Exit, Crash, ProcessGone
  <2>2. ProcessGone
      BY <1>2 DEF Exit, Crash
  <2>3. position' \in 0..Len(Topic) /\ committed' \in 0..position'
      BY <1>0, <2>2 DEF ProcessGone
  <2>4. buffer' \in Seq(Event) /\ handler' \in HandlerSteps /\ deaths' \in Nat
      BY <2>2 DEF ProcessGone, HandlerSteps
  <2>5. QED
      BY <2>1, <2>2, <2>3, <2>4 DEF ProcessGone
<1>3. CASE Restart
    BY <1>3 DEF Restart
<1>4. CASE AutoCommit
    BY <1>0, <1>4 DEF AutoCommit
<1>5. CASE Rebalance
    BY <1>0, <1>5 DEF Rebalance
<1>6. QED
    BY <1>1, <1>2, <1>3, <1>4, <1>5

(* Where a moved flush stands, what it carries, and that no other moved. *)
LEMMA FlushMoved ==
    ASSUME flush \in [Slot -> FlushType], NEW s \in Slot
    PROVE  /\ \A step : GoTo(s, step) =>
                 /\ flush'[s].at = step /\ flush'[s].msgs = flush[s].msgs
                 /\ flush'[s].todo = flush[s].todo
                 /\ \A t \in Slot \ {s} : flush'[t] = flush[t]
           /\ \A todo : UpdateNext(s, todo) =>
                 /\ flush'[s].at = (IF todo = {} THEN "ack" ELSE "convs")
                 /\ flush'[s].msgs = flush[s].msgs /\ flush'[s].todo = todo
                 /\ \A t \in Slot \ {s} : flush'[t] = flush[t]
<1>0. /\ flush[s] \in FlushType /\ DOMAIN flush = Slot
      /\ DOMAIN flush[s] = {"at", "msgs", "todo"}
    BY DEF FlushType
<1>1. QED
    BY <1>0 DEF GoTo, UpdateNext

(* Each step keeps the handler and stop() paired with their own flush.     *)
LEMMA FlushInHandlerStep ==
    ASSUME TypeOK, HandlerHasRecord, FlushInHandler, [Next]_vars
    PROVE  FlushInHandler'
<1> USE DEF FlushInHandler
<1>0. /\ "handler" \in Slot /\ "stop" \in Slot /\ Timers \subseteq Slot
      /\ "handler" \notin Timers /\ "stop" \notin Timers
      /\ DOMAIN flush = Slot /\ NoFlush.at = "none"
      /\ \A s \in Slot : flush[s] \in FlushType
    BY ConstantsOK DEF Slot, TypeOK, NoFlush
<1>1. CASE Deliver \/ HandlerStep
  <2>1. CASE Deliver
    <3>1. Current.kind \in Kinds
        BY <2>1, CurrentType DEF Deliver
    <3>2. QED
        BY <2>1, <3>1 DEF Deliver, Kinds
  <2>2. CASE BufferMessage
      BY <1>0, <2>2 DEF BufferMessage, HandlerReturns, StartFlush
  <2>3. CASE PublishRejected \/ SkipDuplicate \/ TellFailure
      BY <2>3 DEF PublishRejected, SkipDuplicate, TellFailure, HandlerReturns
  <2>4. CASE CheckDuplicate \/ PublishError \/ PublishEnvelope
      BY <2>4 DEF CheckDuplicate, PublishError, PublishEnvelope, HandlerReturns
  <2>5. QED
      BY <1>1, <2>1, <2>2, <2>3, <2>4 DEF HandlerStep
<1>2. ASSUME NEW s \in Slot, TimerFlush(s) PROVE FlushInHandler'
    BY <1>0, <1>2 DEF TimerFlush, StartFlush
<1>3. ASSUME NEW s \in Slot, FlushStep(s) PROVE FlushInHandler'
  <2>1. CASE NotifySuccess(s) \/ NotifyFailure(s)
      BY <1>0, <2>1 DEF NotifySuccess, NotifyFailure, FlushReturns, HandlerReturns
  <2>2. CASE BulkAnswered(s) \/ BulkUnavailable(s) \/ BulkDriverError(s)
             \/ \E c \in Conv : UpdateConversation(s, c)
    <3>1. /\ UNCHANGED <<handler, phase>>
          /\ flush[s].at # "none"
          /\ \A t \in Slot \ {s} : flush'[t] = flush[t]
        BY <1>0, <2>2 DEF BulkAnswered, BulkUnavailable, BulkDriverError, UpdateConversation,
                          GoTo, UpdateNext
    <3>2. flush'[s].at # "none"
      <4>1. flush \in [Slot -> FlushType]
          BY DEF TypeOK
      <4>2. \A step : step # "none" /\ GoTo(s, step) => flush'[s].at # "none"
          BY <4>1, FlushMoved
      <4>3. \A todo : UpdateNext(s, todo) => flush'[s].at # "none"
          BY <4>1, FlushMoved
      <4>4. CASE BulkAnswered(s)
          BY <4>2, <4>3, <4>4, AfterErrorType DEF BulkAnswered
      <4>5. CASE BulkUnavailable(s) \/ BulkDriverError(s)
          BY <4>2, <4>5, AfterErrorType DEF BulkUnavailable, BulkDriverError
      <4>6. CASE \E c \in Conv : UpdateConversation(s, c)
          BY <4>2, <4>3, <4>6, AfterErrorType DEF UpdateConversation
      <4>7. QED
          BY <2>2, <4>4, <4>5, <4>6
    <3>3. QED
        BY <1>0, <3>1, <3>2
  <2>3. QED
      BY <1>3, <2>1, <2>2 DEF FlushStep
<1>4. CASE BeginStop \/ Exit \/ Crash \/ Restart \/ AutoCommit \/ Rebalance
    BY <1>0, <1>4 DEF BeginStop, StartFlush, Exit, Crash, ProcessGone, Restart, AutoCommit,
                      Rebalance, process
<1>5. CASE UNCHANGED vars
    BY <1>5 DEF vars, process
<1>6. QED
    BY <1>1, <1>2, <1>3, <1>4, <1>5 DEF Next

TypeInv == TypeOK /\ HandlerHasRecord /\ FlushInHandler

LEMMA TypeInit == Init => TypeInv
<1> SUFFICES ASSUME Init PROVE TypeInv
    OBVIOUS
<1>1. flush \in [Slot -> FlushType]
    BY NoFlushType DEF Init
<1>2. TypeOK
    BY <1>1, ConstantsOK DEF Init, TypeOK, HandlerSteps
<1>3. HandlerHasRecord /\ FlushInHandler
    BY DEF Init, HandlerHasRecord, FlushInHandler, NoFlush, Slot
<1>4. QED
    BY <1>2, <1>3 DEF TypeInv

LEMMA TypeStep == TypeInv /\ [Next]_vars => TypeInv'
<1> SUFFICES ASSUME TypeInv, [Next]_vars PROVE TypeInv'
    OBVIOUS
<1>1. TypeOK /\ HandlerHasRecord /\ FlushInHandler /\ FlushInHandler'
    BY FlushInHandlerStep DEF TypeInv
<1>2. CASE Next
    BY <1>1, <1>2, HandlerTypeStep, FlushTypeStep, ProcessTypeStep DEF Next, TypeInv
<1>3. CASE UNCHANGED vars
    BY <1>1, <1>3 DEF vars, process, outside, bounds, TypeInv, TypeOK, HandlerHasRecord
<1>4. QED
    BY <1>2, <1>3

LEMMA TypeInvariance == Spec => []TypeInv
    BY TypeInit, TypeStep, PTL DEF Spec

(* Every reachable state is well typed: no interleaving of the handler,    *)
(* the timer and stop() commits an offset whose handler has not returned.  *)
THEOREM TypeCorrect == Spec => []TypeOK
<1>1. TypeInv => TypeOK
    BY DEF TypeInv
<1>2. QED
    BY <1>1, TypeInvariance, PTL

-----------------------------------------------------------------------------
(* What the handler and the flushes owe, and the time of the last message. *)

LEMMA SlotFacts ==
    ASSUME TypeInv
    PROVE  /\ "handler" \in Slot /\ "stop" \in Slot /\ Timers \subseteq Slot
           /\ "handler" \notin Timers /\ "stop" \notin Timers
           /\ flush \in [Slot -> FlushType] /\ NoFlush.at = "none" /\ NoFlush.msgs = <<>>
           /\ \A s \in Slot : Batch(s) \subseteq Event /\ IsFiniteSet(Batch(s))
<1>1. \A s \in Slot : flush[s].msgs \in Seq(Event)
    BY DEF TypeInv, TypeOK, FlushType
<1>2. QED
    BY <1>1, ConstantsOK, ToSetOfSeq DEF Slot, TypeInv, TypeOK, NoFlush, Batch

(* A new flush carries its messages; a finished one carries nothing.       *)
LEMMA BatchMoves ==
    ASSUME TypeInv, NEW s \in Slot
    PROVE  /\ \A msgs : StartFlush(s, msgs) =>
                 /\ flush'[s].at = "bulk" /\ Batch(s)' = ToSet(msgs)
                 /\ \A t \in Slot \ {s} : flush'[t] = flush[t] /\ Batch(t)' = Batch(t)
           /\ \A step : GoTo(s, step) =>
                 /\ flush'[s].at = step /\ \A t \in Slot : Batch(t)' = Batch(t)
                 /\ \A t \in Slot \ {s} : flush'[t] = flush[t]
           /\ \A todo : UpdateNext(s, todo) =>
                 /\ flush'[s].at = (IF todo = {} THEN "ack" ELSE "convs")
                 /\ \A t \in Slot : Batch(t)' = Batch(t)
                 /\ \A t \in Slot \ {s} : flush'[t] = flush[t]
           /\ FlushReturns(s) =>
                 /\ flush'[s].at = "none" /\ Batch(s)' = {}
                 /\ \A t \in Slot \ {s} : flush'[t] = flush[t] /\ Batch(t)' = Batch(t)
<1>0. flush \in [Slot -> FlushType] /\ DOMAIN flush = Slot
    BY DEF TypeInv, TypeOK
<1>1. ASSUME NEW msgs, StartFlush(s, msgs)
      PROVE  /\ flush'[s].at = "bulk" /\ Batch(s)' = ToSet(msgs)
             /\ \A t \in Slot \ {s} : flush'[t] = flush[t] /\ Batch(t)' = Batch(t)
    BY <1>0, <1>1 DEF StartFlush, Batch
<1>2. ASSUME NEW step, GoTo(s, step)
      PROVE  /\ flush'[s].at = step /\ \A t \in Slot : Batch(t)' = Batch(t)
             /\ \A t \in Slot \ {s} : flush'[t] = flush[t]
  <2>1. \A t \in Slot : flush'[t].msgs = flush[t].msgs
      BY <1>0, <1>2, FlushMoved
  <2>2. QED
      BY <1>0, <1>2, <2>1, FlushMoved DEF Batch
<1>3. ASSUME NEW todo, UpdateNext(s, todo)
      PROVE  /\ flush'[s].at = (IF todo = {} THEN "ack" ELSE "convs")
             /\ \A t \in Slot : Batch(t)' = Batch(t)
             /\ \A t \in Slot \ {s} : flush'[t] = flush[t]
  <2>1. \A t \in Slot : flush'[t].msgs = flush[t].msgs
      BY <1>0, <1>3, FlushMoved
  <2>2. QED
      BY <1>0, <1>3, <2>1, FlushMoved DEF Batch
<1>4. ASSUME FlushReturns(s)
      PROVE  /\ flush'[s].at = "none" /\ Batch(s)' = {}
             /\ \A t \in Slot \ {s} : flush'[t] = flush[t] /\ Batch(t)' = Batch(t)
    BY <1>0, <1>4, ToSetOfEmpty DEF FlushReturns, Batch, NoFlush
<1>5. QED
    BY <1>1, <1>2, <1>3, <1>4

(* A failed call leaves the flush about to announce, one way or the other. *)
LEMMA ErrorMoves ==
    ASSUME TypeInv, NEW s \in Slot, NEW b, NEW d, NEW n, GoTo(s, AfterError(b, d, n))
    PROVE  /\ flush'[s].at \in {"ack", "nack"}
           /\ \A t \in Slot : Batch(t)' = Batch(t)
           /\ \A t \in Slot \ {s} : flush'[t] = flush[t]
<1>1. AfterError(b, d, n) \in {"ack", "nack"}
    BY AfterErrorType
<1>2. QED
    BY <1>1, BatchMoves

(* Nothing is ever taken out of the messages collection or the DLQ.        *)
LEMMA DurableGrows == [Next]_vars => stored \subseteq stored' /\ dlq \subseteq dlq'
<1> SUFFICES ASSUME [Next]_vars PROVE stored \subseteq stored' /\ dlq \subseteq dlq'
    OBVIOUS
<1> USE DEF outside, bounds, process
<1>1. CASE Deliver \/ HandlerStep
    BY <1>1 DEF Deliver, HandlerStep, PublishRejected, CheckDuplicate, SkipDuplicate,
                BufferMessage, PublishError, TellFailure, PublishEnvelope
<1>2. ASSUME NEW s \in Slot, TimerFlush(s) \/ FlushStep(s)
      PROVE  stored \subseteq stored' /\ dlq \subseteq dlq'
    BY <1>2 DEF TimerFlush, FlushStep, BulkAnswered, BulkUnavailable, BulkDriverError,
                UpdateConversation, NotifySuccess, NotifyFailure
<1>3. CASE BeginStop \/ Exit \/ Crash \/ Restart \/ AutoCommit \/ Rebalance
    BY <1>3 DEF BeginStop, Exit, Crash, ProcessGone, Restart, AutoCommit, Rebalance
<1>4. CASE UNCHANGED vars
    BY <1>4 DEF vars
<1>5. QED
    BY <1>1, <1>2, <1>3, <1>4 DEF Next

(* A batch has no more members than the flush has messages.                *)
LEMMA BatchFits ==
    ASSUME TypeInv, NEW s \in Slot
    PROVE  /\ Len(flush[s].msgs) \in Nat /\ Cardinality(Batch(s) \ stored) \in Nat
           /\ Len(flush[s].msgs) - Cardinality(Batch(s) \ stored) >= 0
<1>1. flush[s].msgs \in Seq(Event)
    BY DEF TypeInv, TypeOK, FlushType
<1> DEFINE n == Len(flush[s].msgs)
<1>2. n \in Nat /\ DOMAIN flush[s].msgs = 1..n /\ flush[s].msgs \in [1..n -> Event]
    BY <1>1
<1>3. flush[s].msgs \in Surjection(1..n, Batch(s))
    BY <1>2 DEF Batch, ToSet, Surjection
<1>4. IsFiniteSet(1..n) /\ Cardinality(1..n) = n
    BY <1>2, FS_Interval
<1>5. IsFiniteSet(Batch(s)) /\ Cardinality(Batch(s)) <= n
    BY <1>3, <1>4, FS_Surjection
<1>6. /\ IsFiniteSet(Batch(s) \ stored)
      /\ Cardinality(Batch(s) \ stored) <= Cardinality(Batch(s))
    BY <1>5, FS_Subset
<1>7. Cardinality(Batch(s)) \in Nat /\ Cardinality(Batch(s) \ stored) \in Nat
    BY <1>5, <1>6, FS_CardinalityType
<1>8. QED
    BY <1>2, <1>5, <1>6, <1>7

(* The classification of the bulk's errors as duplicates is exact: nothing *)
(* was refused for another reason.                                         *)
LEMMA DoneMeansNoneRefused ==
    ASSUME TypeInv, NEW s \in Slot, NEW refused \in SUBSET (Batch(s) \ stored),
           LET dups   == Len(flush[s].msgs) - Cardinality(Batch(s) \ stored)
               errors == dups + Cardinality(refused)
           IN  errors = 0 \/ AfterError(TRUE, dups, errors) = "ack"
    PROVE  refused = {}
<1> DEFINE dups   == Len(flush[s].msgs) - Cardinality(Batch(s) \ stored)
<1>1. Cardinality(refused) \in Nat /\ (Cardinality(refused) = 0 => refused = {})
    BY SlotFacts, FS_Subset, FS_EmptySet, FS_CardinalityType
<1>2. dups \in Int /\ dups >= 0
    BY BatchFits
<1>3. dups + Cardinality(refused) = 0 \/ dups = dups + Cardinality(refused)
    BY DEF AfterError
<1>4. QED
    BY <1>1, <1>2, <1>3

StoreInv == TypeInv /\ HandlerOwes /\ FlushOwes /\ HeadIsStored

(* A flush step either moves its flush on, with the same messages and      *)
(* nothing else of the process, or is one of the two returns.              *)
LEMMA FlushStepCases ==
    ASSUME TypeInv, NEW s \in Slot, FlushStep(s)
    PROVE  \/ /\ UNCHANGED <<phase, position, handler, buffer>>
              /\ flush[s].at \in {"bulk", "convs"} /\ flush'[s].at \in {"convs", "ack", "nack"}
              /\ \A t \in Slot : Batch(t)' = Batch(t)
              /\ \A t \in Slot \ {s} : flush'[t] = flush[t]
           \/ NotifySuccess(s)
           \/ NotifyFailure(s)
<1>1. CASE BulkAnswered(s)
    BY <1>1, BatchMoves, ErrorMoves DEF BulkAnswered
<1>2. CASE BulkUnavailable(s) \/ BulkDriverError(s)
    BY <1>2, ErrorMoves DEF BulkUnavailable, BulkDriverError, outside
<1>3. CASE \E c \in Conv : UpdateConversation(s, c)
    BY <1>3, BatchMoves, ErrorMoves DEF UpdateConversation
<1>4. QED
    BY <1>1, <1>2, <1>3 DEF FlushStep

LEMMA HandlerOwesStep ==
    ASSUME TypeInv, HandlerOwes, FlushOwes, [Next]_vars
    PROVE  HandlerOwes'
<1>a. ASSUME UNCHANGED <<position, handler>>,
             handler = "flushing" => Batch("handler")' = Batch("handler")
      PROVE  HandlerOwes'
    BY <1>a, DurableGrows DEF HandlerOwes, Current, Offset
<1>b. ASSUME handler' = "idle" PROVE HandlerOwes'
    BY <1>b DEF HandlerOwes
<1>1. CASE Deliver
    BY <1>1, CurrentType DEF TypeInv, Deliver, Kinds, HandlerOwes, Current
<1>2. CASE CheckDuplicate
    BY <1>2 DEF CheckDuplicate, HandlerOwes, Current, outside
<1>3. CASE BufferMessage
  <2>1. CASE handler' = "idle"
      BY <2>1, <1>b
  <2>2. CASE /\ StartFlush("handler", Append(buffer, Current.event))
             /\ handler' = "flushing" /\ UNCHANGED position
    <3>1. Batch("handler")' = ToSet(Append(buffer, Current.event))
        BY <2>2, BatchMoves, SlotFacts
    <3>2. Current.event \in ToSet(Append(buffer, Current.event))
        BY <1>3, CurrentType, ToSetOfAppend DEF TypeInv, TypeOK, BufferMessage
    <3>3. QED
        BY <1>3, <2>2, <3>1, <3>2 DEF BufferMessage, HandlerOwes, Current
  <2>3. QED
      BY <1>3, <2>1, <2>2 DEF BufferMessage, HandlerReturns
<1>4. CASE PublishError \/ PublishEnvelope
    BY <1>4, <1>b DEF PublishError, PublishEnvelope, HandlerOwes, Current, Offset, HandlerReturns
<1>5. CASE PublishRejected \/ SkipDuplicate \/ TellFailure
    BY <1>5, <1>b DEF PublishRejected, SkipDuplicate, TellFailure, HandlerReturns
<1>6. ASSUME NEW s \in Slot, TimerFlush(s) PROVE HandlerOwes'
  <2>1. s # "handler"
      BY <1>6, SlotFacts DEF TimerFlush
  <2>2. Batch("handler")' = Batch("handler")
      BY <1>6, <2>1, BatchMoves, SlotFacts DEF TimerFlush
  <2>3. QED
      BY <1>6, <1>a, <2>2 DEF TimerFlush
<1>7. ASSUME NEW s \in Slot, FlushStep(s) PROVE HandlerOwes'
  <2>1. CASE NotifySuccess(s) \/ NotifyFailure(s)
    <3>1. CASE s = "handler"
        BY <2>1, <3>1, <1>b DEF NotifySuccess, NotifyFailure, FlushReturns, HandlerReturns
    <3>2. CASE s # "handler"
      <4>1. Batch("handler")' = Batch("handler")
          BY <2>1, <3>2, BatchMoves, SlotFacts DEF NotifySuccess, NotifyFailure
      <4>2. QED
          BY <2>1, <3>2, <4>1, <1>a DEF NotifySuccess, NotifyFailure, FlushReturns
    <3>3. QED
        BY <3>1, <3>2
  <2>2. CASE UNCHANGED <<position, handler>> /\ \A t \in Slot : Batch(t)' = Batch(t)
      BY <2>2, <1>a, SlotFacts
  <2>3. QED
      BY <1>7, <2>1, <2>2, FlushStepCases
<1>8. CASE BeginStop
  <2>1. Batch("handler")' = Batch("handler")
      BY <1>8, BatchMoves, SlotFacts DEF BeginStop, Batch
  <2>2. QED
      BY <1>8, <2>1, <1>a DEF BeginStop
<1>9. CASE Exit \/ Crash \/ Rebalance
    BY <1>9, <1>b DEF Exit, Crash, ProcessGone, Rebalance
<1>10. CASE Restart \/ AutoCommit \/ UNCHANGED vars
    BY <1>10, <1>a DEF Restart, AutoCommit, vars, process, Batch
<1>11. QED
    BY <1>1, <1>2, <1>3, <1>4, <1>5, <1>6, <1>7, <1>8, <1>9, <1>10 DEF Next, HandlerStep

LEMMA FlushOwesStep ==
    ASSUME TypeInv, FlushOwes, [Next]_vars
    PROVE  FlushOwes'
<1>a. ASSUME UNCHANGED flush PROVE FlushOwes'
    BY <1>a, DurableGrows DEF FlushOwes, Batch
<1>b. ASSUME NEW s \in Slot, \A t \in Slot \ {s} : flush'[t] = flush[t],
             \/ flush'[s].at \in {"bulk", "ack", "nack"}
             \/ flush'[s].at = "none" /\ Batch(s)' = {}
             \/ flush'[s].at = "convs" /\ Batch(s)' \subseteq stored'
      PROVE  FlushOwes'
    BY <1>b, DurableGrows DEF FlushOwes, Batch
<1>1. CASE Deliver \/ HandlerStep
  <2>1. CASE BufferMessage
      BY <2>1, <1>a, <1>b, BatchMoves, SlotFacts DEF BufferMessage
  <2>2. QED
      BY <1>1, <1>a, <2>1 DEF Deliver, HandlerStep, PublishRejected, CheckDuplicate,
         SkipDuplicate, PublishError, TellFailure, PublishEnvelope
<1>2. ASSUME NEW s \in Slot, TimerFlush(s) PROVE FlushOwes'
    BY <1>2, <1>b, BatchMoves DEF TimerFlush
<1>3. ASSUME NEW s \in Slot, BulkAnswered(s) PROVE FlushOwes'
  <2>1. PICK refused \in SUBSET (Batch(s) \ stored) :
            LET new    == Batch(s) \ stored
                dups   == Len(flush[s].msgs) - Cardinality(new)
                errors == dups + Cardinality(refused)
            IN  /\ stored' = stored \cup (new \ refused)
                /\ refused # {} => faults' = faults + 1
                /\ IF errors = 0 THEN UpdateNext(s, Conversations(Batch(s)))
                                 ELSE GoTo(s, AfterError(TRUE, dups, errors))
      BY <1>3 DEF BulkAnswered, Fault
  <2> DEFINE new    == Batch(s) \ stored
             dups   == Len(flush[s].msgs) - Cardinality(new)
             errors == dups + Cardinality(refused)
  <2>2. CASE errors = 0 /\ UpdateNext(s, Conversations(Batch(s)))
    <3>1. refused = {}
        BY <2>2, DoneMeansNoneRefused
    <3>2. Batch(s)' \subseteq stored'
        BY <2>1, <2>2, <3>1, BatchMoves
    <3>3. QED
        BY <2>2, <3>2, <1>b, BatchMoves
  <2>3. CASE GoTo(s, AfterError(TRUE, dups, errors))
    <3>1. flush'[s].at \in {"ack", "nack"} /\ \A t \in Slot \ {s} : flush'[t] = flush[t]
        BY <2>3, ErrorMoves
    <3>2. QED
        BY <3>1, <1>b
  <2>4. QED
      BY <2>1, <2>2, <2>3
<1>4. ASSUME NEW s \in Slot, BulkUnavailable(s) \/ BulkDriverError(s) PROVE FlushOwes'
  <2>1. flush'[s].at \in {"ack", "nack"} /\ \A t \in Slot \ {s} : flush'[t] = flush[t]
      BY <1>4, ErrorMoves DEF BulkUnavailable, BulkDriverError
  <2>2. QED
      BY <2>1, <1>b
<1>5. ASSUME NEW s \in Slot, NEW c \in Conv, UpdateConversation(s, c) PROVE FlushOwes'
  <2>1. Batch(s) \subseteq stored
      BY <1>5 DEF UpdateConversation, FlushOwes
  <2>2. Batch(s)' = Batch(s)
      BY <1>5, BatchMoves DEF UpdateConversation
  <2>3. Batch(s)' \subseteq stored'
      BY <2>1, <2>2, DurableGrows
  <2>4. CASE UpdateNext(s, flush[s].todo \ {c})
      BY <2>3, <2>4, <1>b, BatchMoves
  <2>5. CASE GoTo(s, AfterError(FALSE, 0, 0))
    <3>1. flush'[s].at \in {"ack", "nack"} /\ \A t \in Slot \ {s} : flush'[t] = flush[t]
        BY <2>5, ErrorMoves
    <3>2. QED
        BY <3>1, <1>b
  <2>6. QED
      BY <1>5, <2>4, <2>5 DEF UpdateConversation
<1>6. ASSUME NEW s \in Slot, NotifySuccess(s) \/ NotifyFailure(s) PROVE FlushOwes'
    BY <1>6, <1>b, BatchMoves DEF NotifySuccess, NotifyFailure
<1>7. CASE BeginStop
    BY <1>7, <1>a, <1>b, BatchMoves, SlotFacts DEF BeginStop
<1>8. CASE Exit \/ Crash
    BY <1>8, ToSetOfEmpty DEF Exit, Crash, ProcessGone, FlushOwes, Batch, NoFlush
<1>9. CASE Restart \/ AutoCommit \/ Rebalance \/ UNCHANGED vars
    BY <1>9, <1>a DEF Restart, AutoCommit, Rebalance, vars, process
<1>10. QED
    BY <1>1, <1>2, <1>3, <1>4, <1>5, <1>6, <1>7, <1>8, <1>9 DEF Next, FlushStep

LEMMA HeadIsStoredStep ==
    ASSUME TypeInv, FlushOwes, HeadIsStored, [Next]_vars
    PROVE  HeadIsStored'
<1>a. ASSUME UNCHANGED lastAt PROVE HeadIsStored'
    BY <1>a, DurableGrows DEF HeadIsStored
<1>1. ASSUME NEW s \in Slot, NEW c \in Conv, UpdateConversation(s, c) PROVE HeadIsStored'
  <2>1. ASSUME NEW e \in Newest(s, c), lastAt' = [lastAt EXCEPT ![c] = TimeOf[e]]
        PROVE  HeadIsStored'
    <3>1. ConvOf[e] = c /\ e \in stored
        BY <1>1 DEF Newest, FlushOwes, UpdateConversation
    <3>2. \A d \in Conv : lastAt'[d] = IF d = c THEN TimeOf[e] ELSE lastAt[d]
        BY <2>1 DEF TypeInv, TypeOK
    <3>3. QED
        BY <3>1, <3>2, DurableGrows DEF HeadIsStored
  <2>2. QED
      BY <1>1, <1>a, <2>1 DEF UpdateConversation
<1>2. CASE Deliver \/ HandlerStep
    BY <1>2, <1>a DEF Deliver, HandlerStep, PublishRejected, CheckDuplicate, SkipDuplicate,
       BufferMessage, PublishError, TellFailure, PublishEnvelope, outside
<1>3. ASSUME NEW s \in Slot, TimerFlush(s) \/ FlushStep(s) PROVE HeadIsStored'
  <2>1. CASE \E c \in Conv : UpdateConversation(s, c)
      BY <2>1, <1>1
  <2>2. QED
      BY <1>3, <1>a, <2>1 DEF TimerFlush, FlushStep, BulkAnswered, BulkUnavailable,
         BulkDriverError, NotifySuccess, NotifyFailure, outside
<1>4. CASE BeginStop \/ Exit \/ Crash \/ Restart \/ AutoCommit \/ Rebalance
    BY <1>4, <1>a DEF BeginStop, Exit, Crash, ProcessGone, Restart, AutoCommit, Rebalance, outside
<1>5. CASE UNCHANGED vars
    BY <1>5, <1>a DEF vars, outside
<1>6. QED
    BY <1>2, <1>3, <1>4, <1>5 DEF Next

LEMMA StoreInvInit == Init => StoreInv
<1> SUFFICES ASSUME Init PROVE StoreInv
    OBVIOUS
<1>1. HandlerOwes /\ HeadIsStored
    BY DEF Init, HandlerOwes, HeadIsStored
<1>2. FlushOwes
    BY ToSetOfEmpty DEF Init, FlushOwes, Batch, NoFlush
<1>3. QED
    BY <1>1, <1>2, TypeInit DEF StoreInv

LEMMA StoreInvStep == StoreInv /\ [Next]_vars => StoreInv'
    BY TypeStep, HandlerOwesStep, FlushOwesStep, HeadIsStoredStep DEF StoreInv

LEMMA StoreInvariance == Spec => []StoreInv
    BY StoreInvInit, StoreInvStep, PTL DEF Spec

(* last_message_at is always unset or the time of a stored message of that *)
(* conversation, under every kind of bulk failure: updateConversation runs *)
(* only for a flush whose whole batch was inserted.                        *)
THEOREM HeadCorrect == Spec => []HeadIsStored
<1>1. StoreInv => HeadIsStored
    BY DEF StoreInv
<1>2. QED
    BY <1>1, StoreInvariance, PTL

-----------------------------------------------------------------------------
(* Success notices. *)

LEMMA DoneIsStoredStep ==
    ASSUME "driverError" \notin BulkFaults, TypeInv, FlushOwes, DoneIsStored, [Next]_vars
    PROVE  DoneIsStored'
<1>a. ASSUME UNCHANGED flush PROVE DoneIsStored'
    BY <1>a, DurableGrows DEF DoneIsStored, Batch
<1>b. ASSUME NEW s \in Slot, \A t \in Slot \ {s} : flush'[t] = flush[t],
             flush'[s].at = "ack" => Batch(s)' \subseteq stored'
      PROVE  DoneIsStored'
    BY <1>b, DurableGrows DEF DoneIsStored, Batch
<1>1. CASE Deliver \/ HandlerStep
  <2>1. CASE BufferMessage
      BY <2>1, <1>a, <1>b, BatchMoves, SlotFacts DEF BufferMessage
  <2>2. QED
      BY <1>1, <1>a, <2>1 DEF Deliver, HandlerStep, PublishRejected, CheckDuplicate,
         SkipDuplicate, PublishError, TellFailure, PublishEnvelope
<1>2. ASSUME NEW s \in Slot, TimerFlush(s) PROVE DoneIsStored'
    BY <1>2, <1>b, BatchMoves DEF TimerFlush
<1>3. ASSUME NEW s \in Slot, BulkAnswered(s) PROVE DoneIsStored'
  <2> DEFINE new  == Batch(s) \ stored
             dups == Len(flush[s].msgs) - Cardinality(new)
  <2>1. PICK refused \in SUBSET new :
            LET errors == dups + Cardinality(refused)
            IN  /\ stored' = stored \cup (new \ refused)
                /\ IF errors = 0 THEN UpdateNext(s, Conversations(Batch(s)))
                                 ELSE GoTo(s, AfterError(TRUE, dups, errors))
      BY <1>3 DEF BulkAnswered
  <2> DEFINE errors == dups + Cardinality(refused)
  <2>2. (\A t \in Slot \ {s} : flush'[t] = flush[t]) /\ Batch(s)' = Batch(s)
      BY <2>1, BatchMoves
  <2>3. ASSUME flush'[s].at = "ack" PROVE refused = {}
    <3>1. errors = 0 \/ AfterError(TRUE, dups, errors) = "ack"
        BY <2>1, <2>3, BatchMoves
    <3>2. QED
        BY <3>1, DoneMeansNoneRefused
  <2>4. flush'[s].at = "ack" => Batch(s)' \subseteq stored'
      BY <2>1, <2>2, <2>3
  <2>5. QED
      BY <2>2, <2>4, <1>b
<1>4. ASSUME NEW s \in Slot, BulkUnavailable(s) PROVE DoneIsStored'
    BY <1>4, <1>b, BatchMoves DEF BulkUnavailable, AfterError
<1>5. ASSUME NEW s \in Slot, BulkDriverError(s) PROVE DoneIsStored'
    BY <1>5 DEF BulkDriverError
<1>6. ASSUME NEW s \in Slot, NEW c \in Conv, UpdateConversation(s, c) PROVE DoneIsStored'
  <2>1. /\ Batch(s)' = Batch(s) /\ Batch(s) \subseteq stored
        /\ \A t \in Slot \ {s} : flush'[t] = flush[t]
      BY <1>6, BatchMoves DEF UpdateConversation, FlushOwes
  <2>2. QED
      BY <2>1, <1>b, DurableGrows
<1>7. ASSUME NEW s \in Slot, NotifySuccess(s) \/ NotifyFailure(s) PROVE DoneIsStored'
    BY <1>7, <1>b, BatchMoves DEF NotifySuccess, NotifyFailure
<1>8. CASE BeginStop
    BY <1>8, <1>a, <1>b, BatchMoves, SlotFacts DEF BeginStop
<1>9. CASE Exit \/ Crash
    BY <1>9 DEF Exit, Crash, ProcessGone, DoneIsStored, NoFlush
<1>10. CASE Restart \/ AutoCommit \/ Rebalance \/ UNCHANGED vars
    BY <1>10, <1>a DEF Restart, AutoCommit, Rebalance, vars, process
<1>11. QED
    BY <1>1, <1>2, <1>3, <1>4, <1>5, <1>6, <1>7, <1>8, <1>9, <1>10 DEF Next, FlushStep

LEMMA AckedIsStoredStep ==
    ASSUME StoreInv, DoneIsStored, AckedIsStored, [Next]_vars
    PROVE  AckedIsStored'
<1>a. ASSUME UNCHANGED notices PROVE AckedIsStored'
    BY <1>a, DurableGrows DEF AckedIsStored
<1>b. ASSUME NEW events \in SUBSET stored, Announce("success", events) PROVE AckedIsStored'
    BY <1>b, DurableGrows DEF AckedIsStored, Announce
<1>c. ASSUME NEW events, Announce("failure", events) PROVE AckedIsStored'
    BY <1>c, DurableGrows DEF AckedIsStored, Announce
<1>1. CASE Deliver \/ HandlerStep
  <2>1. CASE SkipDuplicate
    <3>1. {Current.event} \in SUBSET stored
        BY <2>1 DEF SkipDuplicate, StoreInv, HandlerOwes
    <3>2. QED
        BY <2>1, <3>1, <1>b DEF SkipDuplicate
  <2>2. CASE TellFailure
      BY <2>2, <1>c DEF TellFailure
  <2>3. QED
      BY <1>1, <1>a, <2>1, <2>2 DEF Deliver, HandlerStep, PublishRejected, CheckDuplicate,
         BufferMessage, PublishError, PublishEnvelope, outside
<1>2. ASSUME NEW s \in Slot, TimerFlush(s) \/ FlushStep(s) PROVE AckedIsStored'
  <2>1. CASE NotifySuccess(s)
    <3>1. Batch(s) \in SUBSET stored
        BY <2>1 DEF NotifySuccess, DoneIsStored
    <3>2. QED
        BY <2>1, <3>1, <1>b DEF NotifySuccess
  <2>2. CASE NotifyFailure(s)
      BY <2>2, <1>c DEF NotifyFailure
  <2>3. QED
      BY <1>2, <1>a, <2>1, <2>2 DEF TimerFlush, FlushStep, BulkAnswered, BulkUnavailable,
         BulkDriverError, UpdateConversation, outside
<1>3. CASE BeginStop \/ Exit \/ Crash \/ Restart \/ AutoCommit \/ Rebalance
    BY <1>3, <1>a DEF BeginStop, Exit, Crash, ProcessGone, Restart, AutoCommit, Rebalance, outside
<1>4. CASE UNCHANGED vars
    BY <1>4, <1>a DEF vars, outside
<1>5. QED
    BY <1>1, <1>2, <1>3, <1>4 DEF Next

(* A message announced as persisted is in MongoDB: through overlapping     *)
(* flushes, partial bulks, duplicates, retries, crashes and redeliveries,  *)
(* provided no bulk rejects without write errors (the case that the code's *)
(* comparison of two empty lists takes for "all duplicates").              *)
THEOREM AckedCorrect ==
    ASSUME "driverError" \notin BulkFaults
    PROVE  Spec => []AckedIsStored
<1> DEFINE Inv == StoreInv /\ DoneIsStored /\ AckedIsStored
<1>1. Init => Inv
    BY StoreInvInit DEF Init, DoneIsStored, AckedIsStored, NoFlush
<1>2. Inv /\ [Next]_vars => Inv'
    BY StoreInvStep, DoneIsStoredStep, AckedIsStoredStep DEF StoreInv
<1>3. Inv => AckedIsStored
    OBVIOUS
<1>4. QED
    BY <1>1, <1>2, <1>3, PTL DEF Spec

-----------------------------------------------------------------------------
(* What a living process may let go of. *)

(* A message leaves memory without being stored only when a flush returns  *)
(* that was taken as done.                                                 *)
LEMMA HeldStep ==
    ASSUME StoreInv, [Next]_vars, phase' # "down", NEW e \in Held
    PROVE  \/ e \in Held'
           \/ \E s \in Slot : flush[s].at = "ack" /\ flush'[s].at = "none" /\ e \in Batch(s)
<1>0. TypeInv /\ FlushOwes /\ buffer \in Seq(Event)
    BY DEF StoreInv, TypeInv, TypeOK
<1>a. ASSUME UNCHANGED buffer, \A t \in Slot : Batch(t)' = Batch(t) PROVE e \in Held'
    BY <1>a, DurableGrows DEF Held
<1>b. ASSUME NEW s \in Slot, NEW msgs \in Seq(Event), flush[s].at = "none",
             ToSet(buffer) \subseteq ToSet(msgs), StartFlush(s, msgs)
      PROVE  e \in Held'
  <2>1. /\ Batch(s) = {} /\ Batch(s)' = ToSet(msgs)
        /\ \A t \in Slot \ {s} : Batch(t)' = Batch(t)
      BY <1>0, <1>b, BatchMoves DEF FlushOwes
  <2>2. QED
      BY <1>b, <2>1, DurableGrows DEF Held
<1>1. CASE BufferMessage
  <2> DEFINE pushed == Append(buffer, Current.event)
  <2>1. /\ pushed \in Seq(Event) /\ ToSet(buffer) \subseteq ToSet(pushed)
        /\ "handler" \in Slot /\ flush["handler"].at = "none"
      BY <1>0, <1>1, CurrentType, ToSetOfAppend, SlotFacts
      DEF BufferMessage, TypeInv, FlushInHandler
  <2>2. CASE StartFlush("handler", pushed)
      BY <1>b, <2>1, <2>2
  <2>3. CASE buffer' = pushed /\ UNCHANGED flush
      BY <1>1, <2>1, <2>3, DurableGrows DEF Held, Batch
  <2>4. QED
      BY <1>1, <2>2, <2>3 DEF BufferMessage
<1>2. CASE Deliver \/ PublishRejected \/ CheckDuplicate \/ SkipDuplicate
           \/ PublishError \/ TellFailure \/ PublishEnvelope
    BY <1>2, <1>a DEF Deliver, PublishRejected, CheckDuplicate, SkipDuplicate,
       PublishError, TellFailure, PublishEnvelope, Batch
<1>3. ASSUME NEW s \in Slot, TimerFlush(s) PROVE e \in Held'
    BY <1>0, <1>3, <1>b DEF TimerFlush
<1>4. ASSUME NEW s \in Slot, FlushStep(s)
      PROVE  \/ e \in Held'
             \/ \E t \in Slot : flush[t].at = "ack" /\ flush'[t].at = "none" /\ e \in Batch(t)
  <2>1. ASSUME FlushReturns(s)
        PROVE  /\ flush'[s].at = "none"
               /\ \A t \in Slot \ {s} : Batch(t)' = Batch(t)
      BY <1>0, <2>1, BatchMoves
  <2>2. CASE NotifySuccess(s)
    <3>1. e \in Batch(s) \/ e \in Held'
        BY <2>1, <2>2, DurableGrows DEF NotifySuccess, Held
    <3>2. QED
        BY <2>1, <2>2, <3>1 DEF NotifySuccess
  <2>3. CASE NotifyFailure(s)
    <3>1. flush[s].msgs \in Seq(Event)
        BY <1>0 DEF TypeInv, TypeOK, FlushType
    <3>2. ToSet(buffer') = Batch(s) \cup ToSet(buffer)
        BY <1>0, <2>3, <3>1, ToSetOfConcat DEF NotifyFailure, Batch
    <3>3. QED
        BY <2>1, <2>3, <3>2, DurableGrows DEF NotifyFailure, Held
  <2>4. QED
      BY <1>0, <1>4, <1>a, <2>2, <2>3, FlushStepCases
<1>5. CASE BeginStop
  <2>1. "stop" \in Slot /\ flush["stop"].at = "none"
      BY <1>0, <1>5, SlotFacts DEF BeginStop, TypeInv, FlushInHandler
  <2>2. QED
      BY <1>0, <1>5, <1>a, <1>b, <2>1 DEF BeginStop, Batch
<1>6. CASE Exit \/ Crash
    BY <1>6 DEF Exit, Crash, ProcessGone
<1>7. CASE Restart \/ AutoCommit \/ Rebalance \/ UNCHANGED vars
    BY <1>7, <1>a DEF Restart, AutoCommit, Rebalance, vars, process, Batch
<1>8. QED
    BY <1>1, <1>2, <1>3, <1>4, <1>5, <1>6, <1>7 DEF Next, HandlerStep

(* The record the handler returns from is settled, or its own flush was    *)
(* taken as done.                                                          *)
LEMMA PassedStep ==
    ASSUME StoreInv, [Next]_vars, phase' # "down", NEW o \in 1..position', o > position
    PROVE  Settled(o)' \/ FlushedAsDone(o)
<1>0. TypeInv /\ HandlerOwes /\ position \in Nat /\ "handler" \in Slot /\ Len(Topic) \in Nat
    BY ConstantsOK, SlotFacts DEF StoreInv, TypeInv, TypeOK
<1>1. CASE HandlerReturns /\ handler # "idle"
  <2>1. /\ o = Offset /\ Topic[o] = Current /\ Current.kind \in Kinds /\ Current.event \in Event
        /\ dlq \subseteq dlq' /\ stored \subseteq stored'
      BY <1>0, <1>1, CurrentType, DurableGrows DEF HandlerReturns, Offset, Current, TypeInv
  <2>2. Settled(o)' = CASE Current.kind = "message" -> o \in dlq' \/ Current.event \in Held'
                        [] Current.kind = "badEnvelope" -> o \in dlq'
                        [] Current.kind = "rejected" -> TRUE
      BY <2>1 DEF Settled
  <2>3. CASE PublishRejected
      BY <2>1, <2>2, <2>3, <1>0 DEF PublishRejected, HandlerOwes
  <2>4. CASE SkipDuplicate
      BY <2>1, <2>2, <2>4, <1>0 DEF SkipDuplicate, HandlerOwes, Held
  <2>5. CASE TellFailure
      BY <2>1, <2>2, <2>5, <1>0 DEF TellFailure, HandlerOwes
  <2>6. CASE PublishEnvelope /\ dlq' = dlq \cup {Offset}
      BY <2>1, <2>2, <2>6 DEF Kinds
  <2>7. CASE BufferMessage /\ buffer' = Append(buffer, Current.event)
    <3>1. Current.event \in ToSet(buffer')
        BY <1>0, <2>1, <2>7, ToSetOfAppend DEF TypeInv, TypeOK
    <3>2. QED
        BY <1>0, <2>2, <2>7, <3>1 DEF BufferMessage, HandlerOwes, Held
  <2>8. CASE flush["handler"].at # "none" /\ NotifySuccess("handler")
    <3>1. flush["handler"].at = "ack" /\ flush'["handler"].at = "none"
        BY <1>0, <2>8, BatchMoves DEF NotifySuccess
    <3>2. Current.kind = "message" /\ Current.event \in Batch("handler")
        BY <1>0, <2>8 DEF HandlerOwes, TypeInv, FlushInHandler
    <3>3. QED
        BY <1>0, <2>1, <3>1, <3>2 DEF FlushedAsDone
  <2>9. CASE flush["handler"].at # "none" /\ NotifyFailure("handler")
    <3>1. Current.kind = "message" /\ Current.event \in Batch("handler")
        BY <1>0, <2>9 DEF HandlerOwes, TypeInv, FlushInHandler
    <3>2. flush["handler"].msgs \in Seq(Event) /\ buffer \in Seq(Event)
        BY <1>0 DEF TypeInv, TypeOK, FlushType
    <3>3. Current.event \in ToSet(buffer')
        BY <2>9, <3>1, <3>2, ToSetOfConcat DEF NotifyFailure, Batch
    <3>4. QED
        BY <2>2, <3>1, <3>3 DEF Held
  <2>10. QED
    <3>1. position' # position
        BY <1>0, <1>1 DEF HandlerReturns
    <3>2. CASE Deliver \/ HandlerStep
        BY <2>3, <2>4, <2>5, <2>6, <2>7, <3>1, <3>2
        DEF Deliver, HandlerStep, PublishRejected, CheckDuplicate, SkipDuplicate, BufferMessage,
            PublishError, TellFailure, PublishEnvelope
    <3>3. ASSUME NEW s \in Slot, TimerFlush(s) \/ FlushStep(s)
          PROVE  Settled(o)' \/ FlushedAsDone(o)
      <4>1. NotifySuccess(s) \/ NotifyFailure(s)
          BY <1>0, <3>1, <3>3, FlushStepCases DEF TimerFlush
      <4>2. s = "handler" /\ flush[s].at # "none"
          BY <3>1, <4>1 DEF NotifySuccess, NotifyFailure, FlushReturns
      <4>3. QED
          BY <2>8, <2>9, <4>1, <4>2
    <3>4. CASE BeginStop \/ Exit \/ Crash \/ Restart \/ AutoCommit \/ Rebalance
        BY <1>0, <1>1, <3>1, <3>4 DEF BeginStop, Exit, Crash, ProcessGone, Restart, AutoCommit,
           Rebalance, process
    <3>5. CASE UNCHANGED vars
        BY <3>1, <3>5 DEF vars, process
    <3>6. QED
        BY <3>2, <3>3, <3>4, <3>5 DEF Next
<1>2. HandlerReturns /\ handler # "idle"
  <2>1. position' > position
      BY <1>0, TypeStep DEF TypeInv, TypeOK
  <2>2. CASE Deliver \/ HandlerStep
      BY <1>0, <2>1, <2>2
      DEF Deliver, HandlerStep, PublishRejected, CheckDuplicate, SkipDuplicate, BufferMessage,
          PublishError, TellFailure, PublishEnvelope
  <2>3. ASSUME NEW s \in Slot, TimerFlush(s) \/ FlushStep(s) PROVE HandlerReturns /\ handler # "idle"
    <3>1. NotifySuccess(s) \/ NotifyFailure(s)
        BY <1>0, <2>1, <2>3, FlushStepCases DEF TimerFlush
    <3>2. QED
        BY <1>0, <2>1, <3>1 DEF NotifySuccess, NotifyFailure, FlushReturns, TypeInv, FlushInHandler
  <2>4. CASE BeginStop \/ Exit \/ Crash \/ Restart \/ AutoCommit \/ Rebalance
    <3>1. committed \in 0..position
        BY <1>0 DEF TypeInv, TypeOK
    <3>2. QED
        BY <1>0, <2>1, <2>4, <3>1 DEF BeginStop, Exit, Crash, ProcessGone, Restart, AutoCommit,
           Rebalance, process
  <2>5. CASE UNCHANGED vars
      BY <1>0, <2>1, <2>5 DEF vars, process
  <2>6. QED
      BY <2>2, <2>3, <2>4, <2>5 DEF Next
<1>3. QED
    BY <1>1, <1>2

LEMMA SettledStep ==
    ASSUME StoreInv, [Next]_vars, phase' # "down", NEW o \in 1..position', o > position \/ Settled(o)
    PROVE  Settled(o)' \/ FlushedAsDone(o)
<1>1. CASE o > position
    BY <1>1, PassedStep
<1>2. CASE Settled(o)
  <2>1. o \in 1..Len(Topic)
      BY TypeStep DEF StoreInv, TypeInv, TypeOK
  <2>2. Topic[o].kind \in Kinds
      BY <2>1, RecordType
  <2>3. dlq \subseteq dlq'
      BY DurableGrows
  <2>4. CASE Topic[o].kind # "message"
      BY <1>2, <2>2, <2>3, <2>4 DEF Settled, Kinds
  <2>5. CASE Topic[o].kind = "message" /\ o \in dlq
      BY <2>3, <2>5 DEF Settled
  <2>6. CASE Topic[o].kind = "message" /\ Topic[o].event \in Held
      BY <2>6, HeldStep DEF Settled, FlushedAsDone
  <2>7. QED
      BY <1>2, <2>4, <2>5, <2>6 DEF Settled
<1>3. QED
    BY <1>1, <1>2

(* While the process lives, a record it has passed over stays stored, in   *)
(* the DLQ or in memory; only the return of a flush taken as done lets go  *)
(* of it: failed flushes, retries and redeliveries never do.               *)
THEOREM DropCorrect == Spec => DropOnlyWhenDone
<1> DEFINE Kept == phase' # "down" =>
                     \A o \in 1..position' :
                        (o > position \/ Settled(o)) => Settled(o)' \/ FlushedAsDone(o)
<1>1. StoreInv /\ [Next]_vars => [Kept]_vars
    BY SettledStep
<1>2. QED
    BY <1>1, StoreInvariance, PTL DEF Spec, DropOnlyWhenDone
-----------------------------------------------------------------------------
(* Every step of the consumer is a step of the ledger.                     *)

(* The messages in memory, stored already or not.                          *)
Carried == ToSet(buffer) \cup UNION {Batch(s) : s \in Slot}

LEMMA PendingIsCarried == Pending = Carried \ stored /\ Pending' = Carried' \ stored'
    BY DEF Pending, Carried

LEMMA CarriedWhere ==
    /\ \A e : e \in Carried <=> e \in ToSet(buffer) \/ \E s \in Slot : e \in Batch(s)
    /\ \A e : e \in Carried' <=> e \in ToSet(buffer') \/ \E s \in Slot : e \in Batch(s)'
    BY DEF Carried

(* A buffer taken by a new flush stays in memory, with what was pushed.    *)
LEMMA StartCarries ==
    ASSUME StoreInv, NEW s \in Slot, flush[s].at = "none", NEW msgs \in Seq(Event),
           ToSet(buffer) \subseteq ToSet(msgs), StartFlush(s, msgs)
    PROVE  Carried' = Carried \cup ToSet(msgs)
<1>1. /\ Batch(s) = {} /\ Batch(s)' = ToSet(msgs)
      /\ \A t \in Slot \ {s} : Batch(t)' = Batch(t)
    BY BatchMoves DEF StoreInv, FlushOwes
<1>2. ToSet(buffer') = {}
    BY ToSetOfEmpty DEF StartFlush
<1>3. \A e : e \in Carried' <=> e \in Carried \/ e \in ToSet(msgs)
    BY <1>1, <1>2, CarriedWhere
<1>4. QED
    BY <1>3

(* The two returns of a flush: what it carried goes back to the buffer, or *)
(* is let go of.                                                           *)
LEMMA ReturnCarries ==
    ASSUME StoreInv, NEW s \in Slot
    PROVE  /\ NotifyFailure(s) => Carried' = Carried
           /\ NotifySuccess(s) => Carried' \subseteq Carried /\ Carried \ Batch(s) \subseteq Carried'
<1>0. TypeInv /\ buffer \in Seq(Event) /\ flush[s].msgs \in Seq(Event)
    BY DEF StoreInv, TypeInv, TypeOK, FlushType
<1>1. ASSUME FlushReturns(s)
      PROVE  Batch(s)' = {} /\ \A t \in Slot \ {s} : Batch(t)' = Batch(t)
    BY <1>0, <1>1, BatchMoves
<1>2. ASSUME NotifyFailure(s) PROVE Carried' = Carried
  <2>1. ToSet(buffer') = Batch(s) \cup ToSet(buffer)
      BY <1>0, <1>2, ToSetOfConcat DEF NotifyFailure, Batch
  <2>2. QED
      BY <1>1, <1>2, <2>1 DEF NotifyFailure, Carried
<1>3. ASSUME NotifySuccess(s)
      PROVE  Carried' \subseteq Carried /\ Carried \ Batch(s) \subseteq Carried'
    BY <1>1, <1>3 DEF NotifySuccess, Carried
<1>4. QED
    BY <1>2, <1>3

LEMMA CarriedTypes == StoreInv => Carried \subseteq Event /\ stored \subseteq Event
<1> SUFFICES ASSUME StoreInv PROVE Carried \subseteq Event /\ stored \subseteq Event
    OBVIOUS
<1>1. ToSet(buffer) \subseteq Event /\ stored \subseteq Event
    BY ToSetOfSeq DEF StoreInv, TypeInv, TypeOK
<1>2. QED
    BY <1>1, SlotFacts DEF StoreInv, Carried

(* Deliver, and each await of the handler. *)
LEMMA HandlerKeepsLedger ==
    ASSUME StoreInv, Deliver \/ HandlerStep
    PROVE  [Ledger!Next]_(Ledger!ledger)
<1> USE DEF outside, bounds
<1>0. TypeInv /\ HandlerOwes /\ buffer \in Seq(Event)
    BY DEF StoreInv, TypeInv, TypeOK
<1>a. ASSUME UNCHANGED <<buffer, flush>> PROVE Carried' = Carried
    BY <1>a DEF Carried, Batch
<1>b. ASSUME handler # "idle"
      PROVE  Current.event \in Event /\ Offset \in DOMAIN Topic
  <2>1. Offset \in 1..Len(Topic) /\ Current.event \in Event
      BY <1>0, <1>b, CurrentType DEF TypeInv
  <2>2. QED
      BY <2>1, ConstantsOK
<1>c. ASSUME UNCHANGED <<buffer, flush, stored, lastAt, notices>>,
             UNCHANGED dlq \/ (handler # "idle" /\ dlq' = dlq \cup {Offset})
      PROVE  [Ledger!Next]_(Ledger!ledger)
  <2>1. Pending' = Pending
      BY <1>a, <1>c, PendingIsCarried
  <2>2. CASE UNCHANGED dlq
      BY <1>c, <2>1, <2>2 DEF Ledger!ledger
  <2>3. CASE handler # "idle" /\ dlq' = dlq \cup {Offset}
    <3>1. Ledger!DeadLetter(Offset)
        BY <1>c, <2>1, <2>3 DEF Ledger!DeadLetter
    <3>2. QED
        BY <1>b, <2>3, <3>1 DEF Ledger!Next
  <2>4. QED
      BY <1>c, <2>2, <2>3
<1>1. CASE Deliver \/ CheckDuplicate
    BY <1>1, <1>c DEF Deliver, CheckDuplicate
<1>2. CASE PublishRejected \/ PublishError \/ PublishEnvelope
    BY <1>2, <1>c DEF PublishRejected, PublishError, PublishEnvelope
<1>3. CASE SkipDuplicate
  <2>1. PICK told \in SUBSET {Current.event} :
            notices' = notices \cup {<<"success", e>> : e \in told}
      BY <1>3 DEF SkipDuplicate, Announce
  <2>2. told \subseteq stored /\ told \in SUBSET Event
      BY <1>0, <1>3, <1>b DEF SkipDuplicate, HandlerOwes
  <2>3. Pending' = Pending
      BY <1>3, <1>a, PendingIsCarried DEF SkipDuplicate
  <2>4. Ledger!Confirm(told)
      BY <1>3, <2>1, <2>2, <2>3 DEF SkipDuplicate, Ledger!Confirm, Ledger!Announce
  <2>5. QED
      BY <2>2, <2>4 DEF Ledger!Next
<1>4. CASE TellFailure
  <2>1. PICK told \in SUBSET {Current.event} :
            notices' = notices \cup {<<"failure", e>> : e \in told}
      BY <1>4 DEF TellFailure, Announce
  <2>2. told \in SUBSET Event
      BY <1>4, <1>b DEF TellFailure
  <2>3. Pending' = Pending
      BY <1>4, <1>a, PendingIsCarried DEF TellFailure
  <2>4. Ledger!Report(told)
      BY <1>4, <2>1, <2>3 DEF TellFailure, Ledger!Report, Ledger!Announce
  <2>5. QED
      BY <2>2, <2>4 DEF Ledger!Next
<1>5. CASE BufferMessage
  <2> DEFINE e      == Current.event
             pushed == Append(buffer, e)
  <2>1. e \in Event /\ UNCHANGED <<stored, dlq, notices, lastAt>>
      BY <1>5, <1>b DEF BufferMessage
  <2>2. pushed \in Seq(Event) /\ ToSet(pushed) = ToSet(buffer) \cup {e}
      BY <1>0, <2>1, AppendProperties, ToSetOfAppend
  <2>3. Carried' = Carried \cup {e}
    <3>1. CASE StartFlush("handler", pushed)
      <4>1. "handler" \in Slot /\ flush["handler"].at = "none"
          BY <1>0, <1>5, SlotFacts DEF BufferMessage, TypeInv, FlushInHandler
      <4>2. Carried' = Carried \cup ToSet(pushed)
          BY <2>2, <3>1, <4>1, StartCarries
      <4>3. QED
          BY <2>2, <4>2, CarriedWhere
    <3>2. CASE buffer' = pushed /\ UNCHANGED flush
        BY <2>2, <3>2 DEF Carried, Batch
    <3>3. QED
        BY <1>5, <3>1, <3>2 DEF BufferMessage
  <2>4. CASE e \in stored
    <3>1. Pending' = Pending
        BY <2>1, <2>3, <2>4, PendingIsCarried
    <3>2. QED
        BY <2>1, <3>1 DEF Ledger!ledger
  <2>5. CASE e \notin stored
    <3>1. Pending' = Pending \cup {e}
        BY <2>1, <2>3, <2>5, PendingIsCarried
    <3>2. Ledger!Accept(e)
        BY <2>1, <3>1 DEF Ledger!Accept
    <3>3. QED
        BY <2>1, <2>5, <3>2 DEF Ledger!Next
  <2>6. QED
      BY <2>4, <2>5
<1>6. QED
    BY <1>1, <1>2, <1>3, <1>4, <1>5 DEF HandlerStep

(* The timer's flush, and each await of a running flush. *)
LEMMA FlushKeepsLedger ==
    ASSUME StoreInv, "driverError" \in BulkFaults \/ DoneIsStored,
           NEW s \in Slot, TimerFlush(s) \/ FlushStep(s)
    PROVE  [Ledger!Next]_(Ledger!ledger)
<1> USE DEF outside, bounds
<1>0. TypeInv /\ FlushOwes /\ buffer \in Seq(Event) /\ Batch(s) \subseteq Event
    BY SlotFacts DEF StoreInv, TypeInv, TypeOK
<1>a. ASSUME NEW events \in SUBSET Batch(s), stored' = stored \cup events,
             UNCHANGED <<buffer, dlq, notices, lastAt>>, \A t \in Slot : Batch(t)' = Batch(t)
      PROVE  [Ledger!Next]_(Ledger!ledger)
  <2>1. Carried' = Carried /\ events \subseteq Carried
      BY <1>a DEF Carried
  <2> DEFINE new == events \ stored
  <2>2. new \in SUBSET Pending /\ Pending' = Pending \ new /\ stored' = stored \cup new
      BY <1>a, <2>1, PendingIsCarried
  <2>3. Ledger!Store(new)
      BY <1>a, <2>2 DEF Ledger!Store
  <2>4. QED
      BY <2>2, <2>3 DEF Ledger!Next
<1>1. CASE TimerFlush(s)
  <2>1. Carried' = Carried
    <3>1. Carried' = Carried \cup ToSet(buffer)
        BY <1>0, <1>1, StartCarries DEF TimerFlush
    <3>2. QED
        BY <3>1, CarriedWhere
  <2>2. QED
      BY <1>1, <2>1, PendingIsCarried DEF TimerFlush, Ledger!ledger
<1>2. CASE BulkAnswered(s)
  <2>1. \A t \in Slot : Batch(t)' = Batch(t)
      BY <1>0, <1>2, BatchMoves DEF BulkAnswered
  <2>2. PICK refused : stored' = stored \cup ((Batch(s) \ stored) \ refused)
      BY <1>2 DEF BulkAnswered
  <2>3. QED
      BY <1>2, <1>a, <2>1, <2>2 DEF BulkAnswered
<1>3. CASE BulkUnavailable(s)
  <2>1. \A t \in Slot : Batch(t)' = Batch(t)
      BY <1>0, <1>3, BatchMoves DEF BulkUnavailable
  <2>2. stored' = stored \cup {}
      BY <1>3 DEF BulkUnavailable
  <2>3. QED
      BY <1>3, <1>a, <2>1, <2>2 DEF BulkUnavailable
<1>4. CASE BulkDriverError(s)
  <2>1. \A t \in Slot : Batch(t)' = Batch(t)
      BY <1>0, <1>4, BatchMoves DEF BulkDriverError
  <2>2. QED
      BY <1>4, <1>a, <2>1 DEF BulkDriverError
<1>5. ASSUME NEW c \in Conv, UpdateConversation(s, c)
      PROVE  [Ledger!Next]_(Ledger!ledger)
  <2>1. \A t \in Slot : Batch(t)' = Batch(t)
      BY <1>0, <1>5, BatchMoves DEF UpdateConversation
  <2>2. Pending' = Pending
    <3>1. Carried' = Carried
        BY <1>5, <2>1 DEF UpdateConversation, Carried
    <3>2. QED
        BY <1>5, <3>1, PendingIsCarried DEF UpdateConversation
  <2>3. CASE UNCHANGED lastAt
      BY <1>5, <2>2, <2>3 DEF UpdateConversation, Ledger!ledger
  <2>4. ASSUME NEW e \in Newest(s, c), lastAt' = [lastAt EXCEPT ![c] = TimeOf[e]]
        PROVE  [Ledger!Next]_(Ledger!ledger)
    <3>1. e \in stored /\ ConvOf[e] = c
        BY <1>0, <1>5 DEF UpdateConversation, FlushOwes, Newest
    <3>2. Ledger!SetHead(c)
        BY <1>5, <2>2, <2>4, <3>1 DEF UpdateConversation, Ledger!SetHead
    <3>3. QED
        BY <3>2 DEF Ledger!Next
  <2>5. QED
      BY <1>5, <2>3, <2>4 DEF UpdateConversation
<1>6. CASE NotifySuccess(s)
  <2>1. PICK told \in SUBSET Batch(s) :
            notices' = notices \cup {<<"success", e>> : e \in told}
      BY <1>6 DEF NotifySuccess, Announce
  <2>2. UNCHANGED <<stored, dlq, lastAt>> /\ told \in SUBSET Event
      BY <1>0, <1>6 DEF NotifySuccess
  <2>3. Carried' \subseteq Carried /\ Carried \ Batch(s) \subseteq Carried'
      BY <1>6, ReturnCarries
  <2>4. CASE "driverError" \in BulkFaults
    <3> DEFINE dropped == Pending \ Pending'
    <3>1. Pending' = Pending \ dropped /\ dropped \in SUBSET Event
        BY <2>2, <2>3, PendingIsCarried, CarriedTypes
    <3>2. Ledger!ConfirmUnsure(told, dropped)
        BY <2>1, <2>2, <2>4, <3>1 DEF Ledger!ConfirmUnsure, Ledger!Announce
    <3>3. QED
        BY <2>2, <3>1, <3>2 DEF Ledger!Next
  <2>5. CASE DoneIsStored
    <3>1. Batch(s) \subseteq stored
        BY <1>6, <2>5 DEF NotifySuccess, DoneIsStored
    <3>2. Pending' = Pending
        BY <2>2, <2>3, <3>1, PendingIsCarried
    <3>3. Ledger!Confirm(told)
        BY <2>1, <2>2, <3>1, <3>2 DEF Ledger!Confirm, Ledger!Announce
    <3>4. QED
        BY <2>2, <3>3 DEF Ledger!Next
  <2>6. QED
      BY <2>4, <2>5
<1>7. CASE NotifyFailure(s)
  <2>1. PICK told \in SUBSET Batch(s) :
            notices' = notices \cup {<<"failure", e>> : e \in told}
      BY <1>7 DEF NotifyFailure, Announce
  <2>2. told \in SUBSET Event
      BY <1>0
  <2>3. Pending' = Pending
      BY <1>7, ReturnCarries, PendingIsCarried DEF NotifyFailure
  <2>4. Ledger!Report(told)
      BY <1>7, <2>1, <2>3 DEF NotifyFailure, Ledger!Report, Ledger!Announce
  <2>5. QED
      BY <2>2, <2>4 DEF Ledger!Next
<1>8. QED
    BY <1>1, <1>2, <1>3, <1>4, <1>5, <1>6, <1>7 DEF FlushStep

(* stop(), exits, crashes, restarts, commits and rebalances. *)
LEMMA ProcessKeepsLedger ==
    ASSUME StoreInv, BeginStop \/ Exit \/ Crash \/ Restart \/ AutoCommit \/ Rebalance
    PROVE  [Ledger!Next]_(Ledger!ledger)
<1> USE DEF process, outside, bounds
<1>0. TypeInv /\ buffer \in Seq(Event)
    BY DEF StoreInv, TypeInv, TypeOK
<1>1. CASE BeginStop
  <2>1. CASE buffer # <<>> /\ phase' = "stopping" /\ StartFlush("stop", buffer)
    <3>1. "stop" \in Slot /\ flush["stop"].at = "none"
        BY <1>0, <1>1, SlotFacts DEF BeginStop, TypeInv, FlushInHandler
    <3>2. Carried' = Carried \cup ToSet(buffer)
        BY <1>0, <2>1, <3>1, StartCarries
    <3>3. Carried' = Carried
        BY <3>2, CarriedWhere
    <3>4. QED
        BY <1>1, <3>3, PendingIsCarried DEF BeginStop, Ledger!ledger
  <2>2. CASE UNCHANGED <<buffer, flush>>
      BY <1>1, <2>2, PendingIsCarried DEF BeginStop, Carried, Batch, Ledger!ledger
  <2>3. QED
      BY <1>1, <2>1, <2>2 DEF BeginStop
<1>2. CASE Exit \/ Crash
  <2>1. ProcessGone
      BY <1>2 DEF Exit, Crash
  <2>2. Pending' = {}
    <3>1. ToSet(buffer)' = {} /\ \A s \in Slot : Batch(s)' = {}
        BY <2>1, ToSetOfEmpty DEF ProcessGone, Batch, NoFlush
    <3>2. QED
        BY <3>1 DEF Pending
  <2>3. Ledger!Die
      BY <2>1, <2>2 DEF ProcessGone, Ledger!Die
  <2>4. QED
      BY <2>3 DEF Ledger!Next
<1>3. CASE Restart \/ AutoCommit \/ Rebalance
    BY <1>3, PendingIsCarried DEF Restart, AutoCommit, Rebalance, Carried, Batch, Ledger!ledger
<1>4. QED
    BY <1>1, <1>2, <1>3

(* A flush taken as done is stored, unless the driver may reject a bulk    *)
(* without telling what it did.                                            *)
LedgerInv == StoreInv /\ ("driverError" \in BulkFaults \/ DoneIsStored)

(* The consumer implements the ledger: buffering, splitting into flushes,  *)
(* overlapping them, putting failed batches back, crashing and receiving   *)
(* records again, it neither invents a message nor loses one while it      *)
(* lives, and only a bulk of unknown outcome is confirmed unseen.          *)
THEOREM LedgerKept == Spec => KeepsLedger
<1>1. Init => Ledger!Init
  <2> SUFFICES ASSUME Init PROVE Ledger!Init
      OBVIOUS
  <2>1. Pending = {}
      BY ToSetOfEmpty DEF Init, Pending, Batch, NoFlush
  <2>2. QED
      BY <2>1 DEF Init, Ledger!Init
<1>2. Init => LedgerInv
    BY StoreInvInit DEF Init, LedgerInv, DoneIsStored, NoFlush
<1>3. LedgerInv /\ [Next]_vars => LedgerInv'
    BY StoreInvStep, DoneIsStoredStep DEF LedgerInv, StoreInv
<1>4. LedgerInv /\ [Next]_vars => [Ledger!Next]_(Ledger!ledger)
  <2> SUFFICES ASSUME LedgerInv, [Next]_vars PROVE [Ledger!Next]_(Ledger!ledger)
      OBVIOUS
  <2>1. CASE Deliver \/ HandlerStep
      BY <2>1, HandlerKeepsLedger DEF LedgerInv
  <2>2. ASSUME NEW s \in Slot, TimerFlush(s) \/ FlushStep(s)
        PROVE  [Ledger!Next]_(Ledger!ledger)
      BY <2>2, FlushKeepsLedger DEF LedgerInv
  <2>3. CASE BeginStop \/ Exit \/ Crash \/ Restart \/ AutoCommit \/ Rebalance
      BY <2>3, ProcessKeepsLedger DEF LedgerInv
  <2>4. CASE UNCHANGED vars
      BY <2>4, PendingIsCarried
      DEF vars, process, outside, Carried, Batch, Ledger!ledger
  <2>5. QED
      BY <2>1, <2>2, <2>3, <2>4 DEF Next
<1>5. QED
    BY <1>1, <1>2, <1>3, <1>4, PTL DEF Spec, KeepsLedger, Ledger!Spec
=============================================================================
