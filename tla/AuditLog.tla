------------------------------ MODULE AuditLog ------------------------------
(***************************************************************************)
(* The audit log of compliance-service for one tenant: the documents in    *)
(* MongoDB, the hash of the last one cached in Redis for a minute, and the *)
(* AuditService of each process, which links every event to the last hash  *)
(* it is told, keeps it in a buffer, and writes the buffer in batches.     *)
(*                                                                         *)
(* A step runs up to an await and ends with at most one command to MongoDB *)
(* or Redis, which takes effect then; its answer is the next step.         *)
(*                                                                         *)
(* A hash covers a unique audit_id, so an event stands for its own hash.   *)
(* Events are numbered as they are created; 0 is the genesis hash.         *)
(***************************************************************************)
EXTENDS Integers, Sequences, FiniteSets

CONSTANTS
    Process,
    Nobody,     \* the process of an event not yet logged, or of a free slot
    NoHash,     \* the cache has no hash
    Flush,      \* slots for the flushes that run at once
    Events,     \* bound: the events logged
    BatchSize,  \* a buffer this long is flushed at once
    MaxFaults   \* bound: commands that fail

ASSUME AuditConstants ==
    /\ Nobody \notin Process
    /\ NoHash \notin Nat
    /\ Events \in Nat
    /\ BatchSize \in Nat \ {0}
    /\ MaxFaults \in Nat

VARIABLES
    stored,     \* the events in the collection audit_logs
    cached,     \* last_hash in Redis
    log,        \* log[e]: how far the event has come, where, and its link
    buffer,     \* buffer[p]: batchBuffer of the AuditService of the routes
    flush,      \* flush[f]: the flushBatch running in slot f
    proc,       \* proc[p]: "up", "closing" or "flushing"
    faults      \* counter for the bound

vars == <<stored, cached, log, buffer, flush, proc, faults>>

Event == 1..Events
Genesis == 0
Hash == Event \cup {Genesis}

(* accepted: in the buffer, or taken from it (the route answers 201).      *)
(* dropped and lost: accepted, not stored, and gone with a process that    *)
(* shut down or crashed.                                                   *)
LogStates == {"new", "query", "fill", "push", "accepted", "failed", "dropped", "lost"}
FlushStates == {"idle", "insert", "cache"}

Nowhere(state) == [at |-> state, by |-> Nobody, prev |-> Genesis]
Free == [at |-> "idle", by |-> Nobody, batch |-> <<>>, next |-> 1]

Elements(s) == {s[i] : i \in DOMAIN s}

Init ==
    /\ stored = {}
    /\ cached = NoHash
    /\ log = [e \in Event |-> Nowhere("new")]
    /\ buffer = [p \in Process |-> <<>>]
    /\ flush = [f \in Flush |-> Free]
    /\ proc = [p \in Process |-> "up"]
    /\ faults = 0

(* Until the connections are closed a command fails only by a fault. *)
Connected(p) == proc[p] = "up"
Fault(p) ==
    IF Connected(p) THEN faults < MaxFaults /\ faults' = faults + 1 ELSE UNCHANGED faults
NoFault(p) == Connected(p) /\ UNCHANGED faults

-----------------------------------------------------------------------------
(* log *)

(* log begins: created_at, and the cached hash. *)
LogEvent(p, e) ==
    /\ proc[p] \in {"up", "closing"}
    /\ log[e].at = "new" /\ \A d \in Event : d < e => log[d].at # "new"
    /\ \/ /\ NoFault(p)
          /\ log' = [log EXCEPT ![e] =
                IF cached = NoHash THEN [at |-> "query", by |-> p, prev |-> Genesis]
                                   ELSE [at |-> "push", by |-> p, prev |-> cached]]
       \/ /\ Fault(p)
          /\ log' = [log EXCEPT ![e] = Nowhere("failed")]
    /\ UNCHANGED <<stored, cached, buffer, flush, proc>>

(* A command of log fails: the route answers 500. *)
LogFails(e) ==
    /\ log[e].at \in {"query", "fill"}
    /\ Fault(log[e].by)
    /\ log' = [log EXCEPT ![e] = Nowhere("failed")]
    /\ UNCHANGED <<stored, cached, buffer, flush, proc>>

(* findOne of the last created. *)
Newest(S) == IF S = {} THEN Genesis ELSE CHOOSE e \in S : \A d \in S : d <= e

(* Seeded fault: the event is in the buffer before it has its hash. *)
QueryAfterPush(e) ==
    /\ log[e].at = "query"
    /\ NoFault(log[e].by)
    /\ log' = [log EXCEPT ![e].at = "fill", ![e].prev = Newest(stored)]
    /\ buffer' = [buffer EXCEPT ![log[e].by] = Append(@, e)]
    /\ UNCHANGED <<stored, cached, flush, proc>>

QueryLast(e) ==
    /\ log[e].at = "query"
    /\ NoFault(log[e].by)
    /\ log' = [log EXCEPT ![e].at = "fill", ![e].prev = Newest(stored)]
    /\ UNCHANGED <<stored, cached, buffer, flush, proc>>

FillCache(e) ==
    /\ log[e].at = "fill"
    /\ NoFault(log[e].by)
    /\ cached' = log[e].prev
    /\ log' = [log EXCEPT ![e].at = "push"]
    /\ UNCHANGED <<stored, buffer, flush, proc>>

(* Seeded fault: the buffer is not cleared when its batch is taken. *)
TakeCopy(f, p, batch) ==
    /\ flush[f].at = "idle"
    /\ flush' = [flush EXCEPT ![f] = [at |-> "insert", by |-> p, batch |-> batch, next |-> 1]]
    /\ buffer' = [buffer EXCEPT ![p] = batch]

(* flushBatch takes the whole buffer, and insertMany is called. *)
Take(f, p, batch) ==
    /\ flush[f].at = "idle"
    /\ flush' = [flush EXCEPT ![f] = [at |-> "insert", by |-> p, batch |-> batch, next |-> 1]]
    /\ buffer' = [buffer EXCEPT ![p] = <<>>]

(* The event is hashed and pushed; a full buffer is flushed at once. *)
Push(e) ==
    /\ log[e].at = "push"
    /\ log' = [log EXCEPT ![e].at = "accepted"]
    /\ LET p == log[e].by
           longer == Append(buffer[p], e)
       IN  \/ /\ Len(longer) < BatchSize
              /\ buffer' = [buffer EXCEPT ![p] = longer]
              /\ UNCHANGED flush
           \/ /\ Len(longer) >= BatchSize
              /\ \E f \in Flush : Take(f, p, longer)
    /\ UNCHANGED <<stored, cached, proc, faults>>

-----------------------------------------------------------------------------
(* flushBatch *)

(* Seeded fault: the timer leaves a buffer that is not full. *)
TimerWaitsForFull(f, p) ==
    /\ proc[p] \in {"up", "closing"}
    /\ Len(buffer[p]) >= BatchSize
    /\ Take(f, p, buffer[p])
    /\ UNCHANGED <<stored, cached, log, proc, faults>>

(* Every 5 seconds, flushes under way or not. *)
FlushTimer(f, p) ==
    /\ proc[p] \in {"up", "closing"}
    /\ buffer[p] # <<>>
    /\ Take(f, p, buffer[p])
    /\ UNCHANGED <<stored, cached, log, proc, faults>>

(* The driver gives every document its _id once, so insertMany stores the  *)
(* batch up to the first document that an earlier try has stored.          *)
NotYet(batch, n) == \A i \in 1..n : batch[i] \notin stored
First(batch, n) == {batch[i] : i \in 1..n}

(* Seeded fault: the last hash is cached before the batch is inserted. *)
CacheFirst(f) ==
    LET batch == flush[f].batch
    IN  /\ flush[f].at = "insert"
        /\ NoFault(flush[f].by)
        /\ \/ cached' = batch[Len(batch)] /\ UNCHANGED <<stored, flush>>
           \/ /\ NotYet(batch, Len(batch))
              /\ stored' = stored \cup Elements(batch)
              /\ flush' = [flush EXCEPT ![f].at = "cache"]
              /\ UNCHANGED cached
        /\ UNCHANGED <<log, buffer, proc>>

(* Seeded fault: a batch is linked again when it is inserted. *)
InsertRelinked(f) ==
    LET batch == flush[f].batch
    IN  /\ flush[f].at = "insert"
        /\ NoFault(flush[f].by)
        /\ NotYet(batch, Len(batch))
        /\ stored' = stored \cup Elements(batch)
        /\ flush' = [flush EXCEPT ![f].at = "cache"]
        /\ log' = [e \in Event |-> IF e \in Elements(batch)
                                  THEN [log[e] EXCEPT !.prev = Newest(stored)]
                                  ELSE log[e]]
        /\ UNCHANGED <<cached, buffer, proc>>

InsertBatch(f) ==
    LET batch == flush[f].batch
    IN  /\ flush[f].at = "insert"
        /\ NoFault(flush[f].by)
        /\ NotYet(batch, Len(batch))
        /\ stored' = stored \cup Elements(batch)
        /\ flush' = [flush EXCEPT ![f].at = "cache"]
        /\ UNCHANGED <<cached, log, buffer, proc>>

(* Seeded fault: the buffer is set to the batch again. *)
PutBackAlone(f) ==
    /\ buffer' = [buffer EXCEPT ![flush[f].by] = flush[f].batch]
    /\ flush' = [flush EXCEPT ![f] = Free]

(* The catch: the batch returns to the head of the buffer. *)
PutBack(f) ==
    /\ buffer' = [buffer EXCEPT ![flush[f].by] = flush[f].batch \o @]
    /\ flush' = [flush EXCEPT ![f] = Free]

(* insertMany fails on a duplicate, or because the connection is closed or *)
(* lost: then nothing, a part, or all of the batch has been stored.        *)
InsertFails(f) ==
    LET batch == flush[f].batch
    IN  /\ flush[f].at = "insert"
        /\ \E n \in 0..Len(batch) :
              /\ NotYet(batch, n)
              /\ stored' = stored \cup First(batch, n)
              /\ \/ Connected(flush[f].by) /\ Fault(flush[f].by)
                 \/ ~Connected(flush[f].by) /\ n = 0 /\ UNCHANGED faults
                 \/ /\ NoFault(flush[f].by)
                    /\ n < Len(batch) /\ batch[n + 1] \in stored
        /\ PutBack(f)
        /\ UNCHANGED <<cached, log, proc>>

(* One setex after the other, for every log of the batch. *)
CacheNext(f) ==
    LET batch == flush[f].batch
        n == flush[f].next
    IN  /\ flush[f].at = "cache"
        /\ NoFault(flush[f].by)
        /\ cached' = batch[n]
        /\ flush' = [flush EXCEPT ![f] = IF n = Len(batch) THEN Free ELSE [@ EXCEPT !.next = n + 1]]
        /\ UNCHANGED <<stored, log, buffer, proc>>

(* The same catch: the batch returns although it is stored. *)
CacheFails(f) ==
    /\ flush[f].at = "cache"
    /\ Fault(flush[f].by)
    /\ PutBack(f)
    /\ UNCHANGED <<stored, cached, log, proc>>

HashExpires ==
    /\ cached # NoHash
    /\ cached' = NoHash
    /\ UNCHANGED <<stored, log, buffer, flush, proc, faults>>

-----------------------------------------------------------------------------
(* Processes *)

(* SIGTERM: shutdown of the AuditService that the server has made, whose   *)
(* buffer is empty as nobody logs with it, then both connections close.    *)
Shutdown(p) ==
    /\ proc[p] = "up"
    /\ proc' = [proc EXCEPT ![p] = "closing"]
    /\ UNCHANGED <<stored, cached, log, buffer, flush, faults>>

(* fastify.close: shutdown of the AuditService of the routes stops its     *)
(* timer and flushes its buffer.                                           *)
CloseServer(p) ==
    /\ proc[p] = "closing"
    /\ proc' = [proc EXCEPT ![p] = "flushing"]
    /\ IF buffer[p] = <<>>
       THEN UNCHANGED <<buffer, flush>>
       ELSE \E f \in Flush : Take(f, p, buffer[p])
    /\ UNCHANGED <<stored, cached, log, faults>>

(* What p has in memory is gone, its handlers end, and it starts again.    *)
EndProcess(p, how) ==
    /\ log' = [e \in Event |->
          CASE log[e].by = p /\ log[e].at \in {"query", "fill", "push"} -> Nowhere("failed")
            [] log[e].by = p /\ log[e].at = "accepted" /\ e \notin stored -> Nowhere(how)
            [] OTHER -> log[e]]
    /\ buffer' = [buffer EXCEPT ![p] = <<>>]
    /\ flush' = [f \in Flush |-> IF flush[f].by = p THEN Free ELSE flush[f]]
    /\ proc' = [proc EXCEPT ![p] = "up"]
    /\ UNCHANGED <<stored, cached, faults>>

Exit(p) ==
    /\ proc[p] = "flushing"
    /\ \A f \in Flush : flush[f].by # p
    /\ EndProcess(p, "dropped")

Crash(p) == EndProcess(p, "lost")

-----------------------------------------------------------------------------
LogStep(e) == LogFails(e) \/ QueryLast(e) \/ FillCache(e) \/ Push(e)
FlushStep(f) == InsertBatch(f) \/ InsertFails(f) \/ CacheNext(f) \/ CacheFails(f)
Timer(p) == \E f \in Flush : FlushTimer(f, p)

Next ==
    \/ \E e \in Event : LogStep(e) \/ \E p \in Process : LogEvent(p, e)
    \/ \E f \in Flush : FlushStep(f)
    \/ \E p \in Process :
          Timer(p) \/ Shutdown(p) \/ CloseServer(p) \/ Exit(p) \/ Crash(p)
    \/ HashExpires

Spec == Init /\ [][Next]_vars

(* Commands are answered and the interval timer fires; nobody has to log.  *)
(* The timer needs no slot, which only bounds the model: it fires whenever *)
(* a slot is free again and again.                                         *)
Fairness ==
    /\ \A e \in Event : WF_vars(LogStep(e))
    /\ \A f \in Flush : WF_vars(FlushStep(f))
    /\ \A p \in Process : SF_vars(Timer(p))

FairSpec == Spec /\ Fairness

-----------------------------------------------------------------------------
(* Correctness. *)

(* The events that p still has to write. *)
Held(p) ==
    Elements(buffer[p]) \cup
    UNION {Elements(flush[f].batch) : f \in {g \in Flush : flush[g].by = p}}

(* Every variable has its type, and what p holds was logged with p.        *)
TypeOK ==
    /\ stored \subseteq Event
    /\ cached \in Hash \cup {NoHash}
    /\ log \in [Event -> [at : LogStates, by : Process \cup {Nobody}, prev : Hash]]
    /\ buffer \in [Process -> Seq(Event)]
    /\ flush \in [Flush -> [at : FlushStates, by : Process \cup {Nobody},
                            batch : Seq(Event), next : Nat \ {0}]]
    /\ \A p \in Process : \A e \in Held(p) : log[e].by = p /\ log[e].at = "accepted"
    /\ proc \in [Process -> {"up", "closing", "flushing"}]
    /\ faults \in 0..MaxFaults

(* While its process lives an accepted event is stored or still to be      *)
(* written, whatever flushes overlap and fail (205-224).                   *)
AcceptedIsKept ==
    \A e \in Event : log[e].at = "accepted" => e \in stored \/ e \in Held(log[e].by)

(* An event is never held twice, in the buffer or in flushes that overlap. *)
HeldOnce ==
    /\ \A p \in Process : \A i, j \in DOMAIN buffer[p] :
          buffer[p][i] = buffer[p][j] => i = j
    /\ \A f \in Flush :
          /\ \A i, j \in DOMAIN flush[f].batch : flush[f].batch[i] = flush[f].batch[j] => i = j
          /\ \A g \in Flush \ {f} : Elements(flush[f].batch) \cap Elements(flush[g].batch) = {}
          /\ \A p \in Process : Elements(flush[f].batch) \cap Elements(buffer[p]) = {}

(* An event that is stored links to the genesis hash or to an event stored *)
(* before it: the links form a tree, never a cycle or a dead end, although *)
(* hashes pass through a cache that several processes write (180-200).     *)
(* They form no chain: see LinksFormChain.                                 *)
LinksPointBack ==
    [][\A e \in stored' \ stored : log[e].prev = Genesis \/ log[e].prev \in stored]_vars

(* verifyIntegrity reads the events in the order of created_at and demands *)
(* that each names the hash of the one just before it, or reports "Chain   *)
(* broken" (157-164).  The code does not keep this: whatever is logged     *)
(* before the last event is flushed links to the same event as that one.   *)
LinksFormChain ==
    \A e \in stored :
        LET before == {d \in stored : d < e}
        IN  before # {} => log[e].prev = Newest(before)

LinkOf(e) == [event |-> e, prev |-> log[e].prev]

(* The promise these steps keep: what a process still has to write, minus  *)
(* what an earlier try has stored, is what it owes the tree; what the end  *)
(* of a process has taken, and nothing else, is forgotten.                 *)
Tree == INSTANCE AuditTree WITH
            tree <- {LinkOf(e) : e \in stored},
            owed <- [p \in Process |-> {LinkOf(e) : e \in Held(p) \ stored}],
            gone <- {e \in Event : log[e].at \in {"dropped", "lost"}}

(* Every step of log, flushBatch and shutdown is a step of that tree or    *)
(* changes nothing of it: events are accepted once, with a link that does  *)
(* not change, leave their living process for the tree only, and the tree  *)
(* only grows (35-224).                                                    *)
KeepsTree == Tree!Spec

(* A document that is stored already waits to be inserted by p: its flush  *)
(* will fail, and what shares its buffer is stored late or never (222).    *)
Poisoned(p) ==
    stored \cap (Elements(buffer[p]) \cup
                UNION {Elements(flush[f].batch) :
                         f \in {g \in Flush : flush[g].by = p /\ flush[g].at = "insert"}}) # {}

(* An accepted event is stored at last, unless its process ends or its     *)
(* buffer is poisoned.                                                     *)
AcceptedIsStored ==
    \A e \in Event : log[e].at = "accepted" ~>
        \/ e \in stored
        \/ log[e].at # "accepted"
        \/ proc[log[e].by] # "up"
        \/ Poisoned(log[e].by)

(* server.ts:85 says of the shutdown on a signal that it flushes remaining *)
(* logs: what was accepted before the signal is not dropped at the exit.   *)
ShutdownFlushes ==
    \A e \in Event :
        [](log[e].at = "accepted" /\ proc[log[e].by] = "up" => [](log[e].at # "dropped"))
=============================================================================
