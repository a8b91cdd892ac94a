--------------------------- MODULE AuditLog_proofs ---------------------------
(***************************************************************************)
(* Proofs about AuditLog, for any number of processes, events, flushes and *)
(* faults: every variable keeps its type, no accepted event is lost while  *)
(* its process lives, every stored event links to what was stored before   *)
(* it, no event is held twice, and every step is one of AuditTree.         *)
(***************************************************************************)
EXTENDS AuditLog, WellFoundedInduction, TLAPS

(* Where a hash may come from: what the log cached or linked is stored.    *)
Linked ==
    /\ cached \in stored \cup {Genesis, NoHash}
    /\ \A e \in Event : log[e].prev \in stored \cup {Genesis}

(* A running flush has a process and a batch; once it caches, the batch is *)
(* stored.                                                                 *)
FlushOK(f) ==
    LET g == flush[f]
    IN  /\ g.at = "idle" => g = Free
        /\ g.at # "idle" => g.by \in Process /\ g.next \in 1..Len(g.batch)
        /\ g.at = "cache" => Elements(g.batch) \subseteq stored

AuditInv ==
    /\ TypeOK
    /\ Linked
    /\ \A e \in Event : log[e].at \in {"query", "fill", "push", "accepted"} => log[e].by \in Process
    /\ \A f \in Flush : FlushOK(f)
    /\ AcceptedIsKept

-----------------------------------------------------------------------------
(* The elements of sequences, and what a process holds. *)

LEMMA ElementsOfNone == Elements(<<>>) = {}
  BY DEF Elements

LEMMA ElementsOfAppend ==
    ASSUME NEW S, NEW s \in Seq(S), NEW x \in S
    PROVE  Elements(Append(s, x)) = Elements(s) \cup {x}
<1>1. /\ DOMAIN Append(s, x) = 1..(Len(s) + 1) /\ DOMAIN s = 1..Len(s) /\ Len(s) \in Nat
      /\ \A i \in 1..Len(s) : Append(s, x)[i] = s[i]
      /\ Append(s, x)[Len(s) + 1] = x
    OBVIOUS
<1>2. QED
    BY <1>1 DEF Elements

LEMMA ElementsOfConcat ==
    ASSUME NEW S, NEW s \in Seq(S), NEW t \in Seq(S)
    PROVE  Elements(s \o t) = Elements(s) \cup Elements(t)
<1>1. /\ DOMAIN (s \o t) = 1..(Len(s) + Len(t)) /\ Len(s) \in Nat /\ Len(t) \in Nat
      /\ DOMAIN s = 1..Len(s) /\ DOMAIN t = 1..Len(t)
      /\ \A i \in 1..Len(s) : (s \o t)[i] = s[i]
      /\ \A i \in 1..Len(t) : (s \o t)[Len(s) + i] = t[i]
    OBVIOUS
<1>2. \A i \in DOMAIN (s \o t) : i \in 1..Len(s) \/ \E j \in 1..Len(t) : i = Len(s) + j
  <2> TAKE i \in DOMAIN (s \o t)
  <2>1. i \notin 1..Len(s) => i - Len(s) \in 1..Len(t) /\ i = Len(s) + (i - Len(s))
      BY <1>1
  <2>2. QED
      BY <2>1
<1>3. ASSUME NEW x \in Elements(s \o t) PROVE x \in Elements(s) \cup Elements(t)
  <2>1. PICK i \in DOMAIN (s \o t) : x = (s \o t)[i]
      BY DEF Elements
  <2>2. QED
      BY <1>1, <1>2, <2>1 DEF Elements
<1>4. ASSUME NEW x \in Elements(s) PROVE x \in Elements(s \o t)
  <2>1. PICK i \in 1..Len(s) : x = s[i]
      BY <1>1 DEF Elements
  <2>2. i \in DOMAIN (s \o t) /\ (s \o t)[i] = x
      BY <1>1, <2>1
  <2>3. QED
      BY <2>2 DEF Elements
<1>5. ASSUME NEW x \in Elements(t) PROVE x \in Elements(s \o t)
  <2>1. PICK i \in 1..Len(t) : x = t[i]
      BY <1>1 DEF Elements
  <2>2. Len(s) + i \in DOMAIN (s \o t) /\ (s \o t)[Len(s) + i] = x
      BY <1>1, <2>1
  <2>3. QED
      BY <2>2 DEF Elements
<1>6. QED
    BY <1>3, <1>4, <1>5

LEMMA ElementsIn ==
    ASSUME NEW S, NEW s \in Seq(S)
    PROVE  Elements(s) \subseteq S
  BY DEF Elements

LEMMA HeldBy ==
    ASSUME NEW p, NEW e
    PROVE  e \in Held(p) <=> \/ e \in Elements(buffer[p])
                             \/ \E f \in Flush : flush[f].by = p /\ e \in Elements(flush[f].batch)
  BY DEF Held

LEMMA HeldByNext ==
    ASSUME NEW p, NEW e
    PROVE  e \in Held(p)' <=> \/ e \in Elements(buffer'[p])
                              \/ \E f \in Flush : flush'[f].by = p /\ e \in Elements(flush'[f].batch)
  BY DEF Held, Elements

LEMMA FreeSlot ==
    /\ Free.at = "idle" /\ Free.by = Nobody /\ Free.batch = <<>> /\ Free.next = 1
    /\ Elements(Free.batch) = {}
    /\ Nobody \notin Process
  BY ElementsOfNone, AuditConstants DEF Free

Flushes == [at : FlushStates, by : Process \cup {Nobody}, batch : Seq(Event), next : Nat \ {0}]
Logs == [at : LogStates, by : Process \cup {Nobody}, prev : Hash]

LEMMA InitAudit == Init => AuditInv
<1> SUFFICES ASSUME Init PROVE AuditInv
    OBVIOUS
<1>1. /\ log \in [Event -> Logs] /\ \A e \in Event : log[e] = Nowhere("new")
    BY DEF Init, Nowhere, Logs, LogStates, Hash, Genesis
<1>2. /\ flush \in [Flush -> Flushes] /\ \A f \in Flush : flush[f] = Free
    BY DEF Init, Free, Flushes, FlushStates
<1>3. /\ buffer \in [Process -> Seq(Event)] /\ \A p \in Process : buffer[p] = <<>>
    BY DEF Init
<1>4. \A p \in Process : \A e : e \notin Held(p)
    BY <1>2, <1>3, HeldBy, FreeSlot, ElementsOfNone
<1>5. /\ proc \in [Process -> {"up", "closing", "flushing"}]
      /\ faults \in 0..MaxFaults /\ stored \subseteq Event /\ cached = NoHash
    BY AuditConstants DEF Init
<1>6. TypeOK
    BY <1>1, <1>2, <1>3, <1>4, <1>5 DEF TypeOK, Logs, Flushes
<1>7. QED
    BY <1>1, <1>2, <1>5, <1>6, FreeSlot DEF AuditInv, Linked, FlushOK, AcceptedIsKept, Nowhere

-----------------------------------------------------------------------------
(* The steps of log. *)

(* The types, with names for the records.                                  *)
LEMMA Types ==
    ASSUME AuditInv
    PROVE  /\ stored \subseteq Event /\ Event \subseteq Nat
           /\ log \in [Event -> Logs]
           /\ buffer \in [Process -> Seq(Event)]
           /\ flush \in [Flush -> Flushes]
           /\ proc \in [Process -> {"up", "closing", "flushing"}]
           /\ faults \in 0..MaxFaults /\ MaxFaults \in Nat
  BY AuditConstants DEF AuditInv, TypeOK, Logs, Flushes, Event

LEMMA FaultCounts ==
    ASSUME AuditInv, NEW p, Fault(p) \/ NoFault(p)
    PROVE  faults' \in 0..MaxFaults
  BY Types DEF Fault, NoFault

LEMMA HeldAreEvents ==
    ASSUME AuditInv, NEW p \in Process, NEW e \in Held(p)
    PROVE  e \in Event
<1>1. CASE e \in Elements(buffer[p])
    BY <1>1, Types, ElementsIn
<1>2. ASSUME NEW f \in Flush, e \in Elements(flush[f].batch) PROVE e \in Event
  <2>1. flush[f].batch \in Seq(Event)
      BY Types DEF Flushes
  <2>2. QED
      BY <1>2, <2>1, ElementsIn
<1>3. QED
    BY <1>1, <1>2, HeldBy

(* An event moves on before it is accepted.                                *)
LEMMA LogOnly ==
    ASSUME AuditInv, NEW e \in Event, NEW new \in Logs,
           log' = [log EXCEPT ![e] = new], log[e].at # "accepted", new.at # "accepted",
           new.at \in {"query", "fill", "push"} => new.by \in Process,
           new.prev \in stored \cup {Genesis},
           cached' \in stored \cup {Genesis, NoHash},
           faults' \in 0..MaxFaults,
           UNCHANGED <<stored, buffer, flush, proc>>
    PROVE  AuditInv'
<1>1. /\ log' \in [Event -> Logs] /\ log'[e] = new
      /\ \A d \in Event \ {e} : log'[d] = log[d]
    BY Types
<1>2. \A p : Held(p)' = Held(p)
    BY DEF Held, Elements
<1>3. \A p \in Process : \A d \in Held(p) : d # e /\ log[d].by = p /\ log[d].at = "accepted" /\ d \in Event
    BY HeldAreEvents DEF AuditInv, TypeOK
<1>4. TypeOK'
  <2>1. \A p \in Process : \A d \in Held(p)' : log'[d].by = p /\ log'[d].at = "accepted"
      BY <1>1, <1>2, <1>3
  <2>2. cached' \in Hash \cup {NoHash}
      BY Types DEF Hash
  <2>3. QED
      BY <1>1, <2>1, <2>2, Types DEF TypeOK, Logs, Flushes
<1>5. Linked'
    BY <1>1 DEF AuditInv, Linked
<1>6. \A d \in Event : log'[d].at \in {"query", "fill", "push", "accepted"} => log'[d].by \in Process
    BY <1>1 DEF AuditInv
<1>7. \A f \in Flush : FlushOK(f)'
    BY DEF AuditInv, FlushOK, Elements
<1>8. AcceptedIsKept'
    BY <1>1, <1>2 DEF AuditInv, AcceptedIsKept
<1>9. QED
    BY <1>4, <1>5, <1>6, <1>7, <1>8 DEF AuditInv

(* A set of numbers has a least one, and a set of events a newest one.     *)
LEMMA LeastNat ==
    ASSUME NEW T \in SUBSET Nat, T # {}
    PROVE  \E x \in T : \A y \in T : x <= y
<1> DEFINE R == OpToRel(<, Nat)
<1>1. \E x \in T : \A y \in T : ~ (<<y, x>> \in R)
    BY NatLessThanWellFounded, WFMin
<1>2. PICK x \in T : \A y \in T : ~ (<<y, x>> \in R)
    BY <1>1
<1>3. ASSUME NEW y \in T, y < x PROVE FALSE
  <2>1. <<y, x>> \in Nat \X Nat /\ <<y, x>>[1] = y /\ <<y, x>>[2] = x
      OBVIOUS
  <2>2. <<y, x>> \in R
      BY <2>1, <1>3 DEF OpToRel
  <2>3. QED
      BY <2>2, <1>2
<1> HIDE DEF R
<1>4. QED
    BY <1>3

LEMMA NewestIsStored ==
    ASSUME NEW S \in SUBSET Event
    PROVE  Newest(S) \in S \cup {Genesis}
<1>1. CASE S = {}
    BY <1>1 DEF Newest
<1>2. CASE S # {}
  <2> DEFINE T == {Events - e : e \in S}
  <2>0. \A e \in S : Events - e \in Nat
      BY AuditConstants DEF Event
  <2>1. T \subseteq Nat /\ T # {}
      BY <1>2, <2>0
  <2> HIDE DEF T
  <2>2. PICK x \in T : \A y \in T : x <= y
      BY <2>1, LeastNat
  <2>3. PICK e \in S : x = Events - e
      BY DEF T
  <2>4. \A d \in S : d <= e
    <3> TAKE d \in S
    <3>1. Events - e <= Events - d
        BY <2>2, <2>3 DEF T
    <3>2. QED
        BY <3>1, AuditConstants DEF Event
  <2>5. QED
      BY <1>2, <2>4 DEF Newest
<1>3. QED
    BY <1>1, <1>2

LEMMA LogSteps ==
    ASSUME AuditInv, NEW e \in Event,
           (\E p \in Process : LogEvent(p, e)) \/ LogFails(e) \/ QueryLast(e) \/ FillCache(e)
    PROVE  AuditInv'
<1>1. /\ Nowhere("failed") \in Logs /\ Nowhere("failed").at = "failed"
      /\ Nowhere("failed").prev = Genesis
    BY DEF Nowhere, Logs, LogStates, Hash
<1>2. log[e] \in Logs /\ log[e].prev \in stored \cup {Genesis} /\ cached \in stored \cup {Genesis, NoHash}
    BY Types DEF AuditInv, Linked
<1>3. ASSUME NEW p \in Process, LogEvent(p, e) PROVE AuditInv'
  <2>1. /\ UNCHANGED <<stored, cached, buffer, flush, proc>> /\ log[e].at = "new"
        /\ faults' \in 0..MaxFaults
      BY <1>3, FaultCounts DEF LogEvent
  <2>2. CASE log' = [log EXCEPT ![e] = Nowhere("failed")]
      BY <1>1, <1>2, <2>1, <2>2, LogOnly
  <2>3. CASE cached = NoHash /\ log' = [log EXCEPT ![e] = [at |-> "query", by |-> p, prev |-> Genesis]]
    <3>1. [at |-> "query", by |-> p, prev |-> Genesis] \in Logs
        BY DEF Logs, LogStates, Hash
    <3>2. QED
        BY <1>2, <2>1, <2>3, <3>1, LogOnly
  <2>4. CASE cached # NoHash /\ log' = [log EXCEPT ![e] = [at |-> "push", by |-> p, prev |-> cached]]
    <3>1. [at |-> "push", by |-> p, prev |-> cached] \in Logs /\ cached \in stored \cup {Genesis}
        BY <1>2, <2>4, Types DEF Logs, LogStates, Hash
    <3>2. QED
        BY <1>2, <2>1, <2>4, <3>1, LogOnly
  <2>5. QED
      BY <1>3, <2>2, <2>3, <2>4 DEF LogEvent
<1>4. CASE LogFails(e)
  <2>1. /\ UNCHANGED <<stored, cached, buffer, flush, proc>> /\ log[e].at # "accepted"
        /\ faults' \in 0..MaxFaults /\ log' = [log EXCEPT ![e] = Nowhere("failed")]
      BY <1>4, FaultCounts DEF LogFails
  <2>2. QED
      BY <1>1, <1>2, <2>1, LogOnly
<1>5. CASE QueryLast(e)
  <2> DEFINE new == [log[e] EXCEPT !.at = "fill", !.prev = Newest(stored)]
  <2>1. /\ UNCHANGED <<stored, cached, buffer, flush, proc>> /\ log[e].at = "query"
        /\ faults' \in 0..MaxFaults /\ log' = [log EXCEPT ![e] = new]
      BY <1>5, FaultCounts DEF QueryLast
  <2>2. Newest(stored) \in stored \cup {Genesis} /\ log[e].by \in Process
      BY <2>1, NewestIsStored, Types DEF AuditInv
  <2>3. new \in Logs /\ new.at = "fill" /\ new.by = log[e].by /\ new.prev = Newest(stored)
      BY <1>2, <2>2, Types DEF Logs, LogStates, Hash
  <2>4. QED
      BY <1>2, <2>1, <2>2, <2>3, LogOnly
<1>6. CASE FillCache(e)
  <2> DEFINE new == [log[e] EXCEPT !.at = "push"]
  <2>1. /\ UNCHANGED <<stored, buffer, flush, proc>> /\ log[e].at = "fill" /\ cached' = log[e].prev
        /\ faults' \in 0..MaxFaults /\ log' = [log EXCEPT ![e] = new]
      BY <1>6, FaultCounts DEF FillCache
  <2>2. new \in Logs /\ new.at = "push" /\ new.by = log[e].by /\ new.prev = log[e].prev
      BY <1>2 DEF Logs, LogStates
  <2>3. log[e].by \in Process
      BY <2>1 DEF AuditInv
  <2>4. QED
      BY <1>2, <2>1, <2>2, <2>3, LogOnly
<1>7. QED
    BY <1>3, <1>4, <1>5, <1>6

-----------------------------------------------------------------------------
(* The steps of the buffer and of the flushes. *)

(* What a step that does not touch the events themselves has to keep.      *)
LEMMA MemoryOnly ==
    ASSUME AuditInv, UNCHANGED log,
           stored \subseteq stored', stored' \subseteq Event,
           cached' \in stored' \cup {Genesis, NoHash},
           buffer' \in [Process -> Seq(Event)], flush' \in [Flush -> Flushes],
           proc' \in [Process -> {"up", "closing", "flushing"}],
           faults' \in 0..MaxFaults,
           \A f \in Flush : FlushOK(f)',
           \A p \in Process : \A e : e \in Held(p)' => e \in Held(p),
           \A p \in Process : \A e : e \in Held(p) => e \in Held(p)' \/ e \in stored'
    PROVE  AuditInv'
<1>1. TypeOK'
  <2>1. cached' \in Hash \cup {NoHash}
      BY DEF Hash
  <2>2. \A p \in Process : \A e \in Held(p)' : log'[e].by = p /\ log'[e].at = "accepted"
      BY DEF AuditInv, TypeOK
  <2>3. log' \in [Event -> Logs]
      BY Types
  <2>4. QED
      BY <2>1, <2>2, <2>3 DEF TypeOK, Logs, Flushes
<1>2. Linked'
    BY DEF AuditInv, Linked
<1>3. AcceptedIsKept'
  <2> SUFFICES ASSUME NEW e \in Event, log[e].at = "accepted"
               PROVE  e \in stored' \/ e \in Held(log[e].by)'
      BY DEF AcceptedIsKept
  <2>1. log[e].by \in Process
      BY DEF AuditInv
  <2>2. e \in stored \/ e \in Held(log[e].by)
      BY DEF AuditInv, AcceptedIsKept
  <2>3. QED
      BY <2>1, <2>2
<1>4. QED
    BY <1>1, <1>2, <1>3 DEF AuditInv

(* Flushes that do not move stay as they should be. *)
LEMMA OtherFlushes ==
    ASSUME AuditInv, NEW f \in Flush, flush'[f] = flush[f], stored \subseteq stored'
    PROVE  FlushOK(f)'
<1>1. FlushOK(f)
    BY DEF AuditInv
<1>2. QED
    BY <1>1 DEF FlushOK, Free, Elements

(* Taking a batch of p. *)
Taken(p, batch) == [at |-> "insert", by |-> p, batch |-> batch, next |-> 1]

LEMMA TakeKeeps ==
    ASSUME AuditInv, NEW f \in Flush, NEW p \in Process, NEW batch \in Seq(Event),
           batch # <<>>, Take(f, p, batch), UNCHANGED stored,
           Elements(buffer[p]) \subseteq Elements(batch)
    PROVE  /\ buffer' \in [Process -> Seq(Event)]
           /\ flush' \in [Flush -> Flushes]
           /\ \A g \in Flush : FlushOK(g)'
           /\ \A q \in Process : \A e :
                 e \in Held(q)' <=> e \in Held(q) \/ (q = p /\ e \in Elements(batch))
<1>1. /\ Taken(p, batch) \in Flushes /\ Taken(p, batch).at = "insert"
      /\ Taken(p, batch).by = p /\ Taken(p, batch).batch = batch /\ Taken(p, batch).next = 1
    BY DEF Taken, Flushes, FlushStates
<1>2. /\ flush' = [flush EXCEPT ![f] = Taken(p, batch)] /\ flush[f].at = "idle"
      /\ buffer' = [buffer EXCEPT ![p] = <<>>]
    BY DEF Take, Taken
<1>3. /\ flush'[f] = Taken(p, batch) /\ \A g \in Flush \ {f} : flush'[g] = flush[g]
      /\ flush' \in [Flush -> Flushes]
    BY <1>1, <1>2, Types
<1>4. /\ buffer'[p] = <<>> /\ \A q \in Process \ {p} : buffer'[q] = buffer[q]
      /\ buffer' \in [Process -> Seq(Event)]
    BY <1>2, Types
<1>5. FlushOK(f)'
  <2>1. 1 \in 1..Len(batch)
      OBVIOUS
  <2>2. QED
      BY <1>1, <1>3, <2>1 DEF FlushOK
<1>6. flush[f] = Free
    BY <1>2 DEF AuditInv, FlushOK
<1>7. ASSUME NEW q \in Process, NEW e
      PROVE  e \in Held(q)' <=> e \in Held(q) \/ (q = p /\ e \in Elements(batch))
  <2>1. \A g \in Flush : flush'[g].by = q /\ e \in Elements(flush'[g].batch) <=>
            \/ flush[g].by = q /\ e \in Elements(flush[g].batch)
            \/ g = f /\ q = p /\ e \in Elements(batch)
      BY <1>1, <1>3, <1>6, FreeSlot
  <2>2. e \in Elements(buffer'[q]) <=> q # p /\ e \in Elements(buffer[q])
      BY <1>4, ElementsOfNone
  <2>3. QED
      BY <2>1, <2>2, HeldBy, HeldByNext
<1>8. QED
    BY <1>3, <1>4, <1>5, <1>7, OtherFlushes

LEMMA TakeSteps ==
    ASSUME AuditInv, NEW p \in Process, Timer(p) \/ CloseServer(p)
    PROVE  AuditInv'
<1>1. /\ UNCHANGED <<stored, cached, log, faults>>
      /\ proc' \in [Process -> {"up", "closing", "flushing"}]
    BY Types DEF Timer, FlushTimer, CloseServer
<1>2. /\ stored \subseteq Event /\ faults \in 0..MaxFaults
      /\ cached \in stored \cup {Genesis, NoHash} /\ buffer[p] \in Seq(Event)
    BY Types DEF AuditInv, Linked
<1>3. CASE UNCHANGED <<buffer, flush>>
  <2>1. \A f \in Flush : FlushOK(f)'
      BY <1>1, <1>3, OtherFlushes
  <2>2. \A q : Held(q)' = Held(q)
      BY <1>3 DEF Held, Elements
  <2>3. QED
      BY <1>1, <1>2, <1>3, <2>1, <2>2, Types, MemoryOnly
<1>4. CASE buffer[p] # <<>> /\ \E f \in Flush : Take(f, p, buffer[p])
  <2>1. PICK f \in Flush : Take(f, p, buffer[p])
      BY <1>4
  <2>2. /\ buffer' \in [Process -> Seq(Event)] /\ flush' \in [Flush -> Flushes]
        /\ \A g \in Flush : FlushOK(g)'
        /\ \A q \in Process : \A e :
              e \in Held(q)' <=> e \in Held(q) \/ (q = p /\ e \in Elements(buffer[p]))
      BY <1>1, <1>2, <1>4, <2>1, TakeKeeps
  <2>3. \A q \in Process : \A e : e \in Held(q)' <=> e \in Held(q)
      BY <2>2, HeldBy
  <2>4. QED
      BY <1>1, <1>2, <2>2, <2>3, MemoryOnly
<1>5. QED
    BY <1>3, <1>4 DEF Timer, FlushTimer, CloseServer

LEMMA PushSteps ==
    ASSUME AuditInv, NEW e \in Event, Push(e)
    PROVE  AuditInv'
<1> DEFINE p == log[e].by
<1>1. /\ log[e].at = "push" /\ p \in Process /\ log[e] \in Logs
      /\ UNCHANGED <<stored, cached, proc, faults>>
      /\ log' = [log EXCEPT ![e].at = "accepted"]
    BY Types DEF Push, AuditInv
<1>2. /\ log' \in [Event -> Logs] /\ \A d \in Event \ {e} : log'[d] = log[d]
      /\ log'[e].at = "accepted" /\ log'[e].by = p /\ log'[e].prev = log[e].prev
    BY <1>1, Types DEF Logs, LogStates
<1> DEFINE longer == Append(buffer[p], e)
<1>3. /\ buffer[p] \in Seq(Event) /\ longer \in Seq(Event) /\ longer # <<>>
      /\ Elements(longer) = Elements(buffer[p]) \cup {e}
  <2>1. buffer[p] \in Seq(Event)
      BY <1>1, Types
  <2>2. longer \in Seq(Event) /\ longer # <<>>
      BY <2>1
  <2>3. QED
      BY <2>1, <2>2, ElementsOfAppend
<1>4. /\ buffer' \in [Process -> Seq(Event)] /\ flush' \in [Flush -> Flushes]
      /\ \A f \in Flush : FlushOK(f)'
      /\ \A q \in Process : \A d : d \in Held(q)' <=> d \in Held(q) \/ (q = p /\ d = e)
  <2>1. CASE buffer' = [buffer EXCEPT ![p] = longer] /\ UNCHANGED flush
    <3>1. /\ buffer' \in [Process -> Seq(Event)] /\ buffer'[p] = longer
          /\ \A q \in Process \ {p} : buffer'[q] = buffer[q]
        BY <1>1, <1>3, <2>1, Types
    <3>2. \A f \in Flush : FlushOK(f)'
        BY <1>1, <2>1, OtherFlushes
    <3>3. QED
      <4>1. \A q \in Process : \A d :
                d \in Elements(buffer'[q]) <=> d \in Elements(buffer[q]) \/ (q = p /\ d = e)
          BY <1>3, <3>1
      <4>2. \A q \in Process : \A d :
                d \in Held(q)' <=> d \in Held(q) \/ (q = p /\ d = e)
          BY <2>1, <4>1, HeldBy, HeldByNext
      <4>3. QED
          BY <2>1, <3>1, <3>2, <4>2, Types
  <2>2. CASE \E f \in Flush : Take(f, p, longer)
    <3>1. PICK f \in Flush : Take(f, p, longer)
        BY <2>2
    <3> HIDE DEF longer
    <3>2. /\ buffer' \in [Process -> Seq(Event)] /\ flush' \in [Flush -> Flushes]
          /\ \A g \in Flush : FlushOK(g)'
          /\ \A q \in Process : \A d :
                d \in Held(q)' <=> d \in Held(q) \/ (q = p /\ d \in Elements(longer))
        BY <1>1, <1>3, <3>1, TakeKeeps
    <3>3. QED
        BY <1>3, <3>2, HeldBy
  <2>3. QED
      BY <2>1, <2>2 DEF Push
<1>5. TypeOK'
  <2>1. \A q \in Process : \A d \in Held(q) : d # e /\ d \in Event /\ log[d].by = q /\ log[d].at = "accepted"
      BY <1>1, HeldAreEvents DEF AuditInv, TypeOK
  <2>2. \A q \in Process : \A d \in Held(q)' : log'[d].by = q /\ log'[d].at = "accepted"
      BY <1>2, <1>4, <2>1
  <2>3. cached' \in Hash \cup {NoHash} /\ stored' \subseteq Event /\ faults' \in 0..MaxFaults
        /\ proc' \in [Process -> {"up", "closing", "flushing"}]
      BY <1>1, Types DEF AuditInv, TypeOK
  <2>4. QED
      BY <1>2, <1>4, <2>2, <2>3 DEF TypeOK, Logs, Flushes
<1>6. Linked'
    BY <1>1, <1>2 DEF AuditInv, Linked
<1>7. \A d \in Event : log'[d].at \in {"query", "fill", "push", "accepted"} => log'[d].by \in Process
    BY <1>1, <1>2 DEF AuditInv
<1>8. AcceptedIsKept'
  <2>1. ASSUME NEW d \in Event, NEW q \in Process, log'[d].at = "accepted", log'[d].by = q
        PROVE  d \in stored' \/ d \in Held(q)'
    <3>1. CASE d = e
        BY <1>1, <1>2, <1>4, <2>1, <3>1
    <3>2. CASE d # e
      <4>1. log[d].at = "accepted" /\ log[d].by = q
          BY <1>2, <2>1, <3>2
      <4>2. d \in stored \/ d \in Held(q)
          BY <4>1 DEF AuditInv, AcceptedIsKept
      <4>3. QED
          BY <1>1, <1>4, <4>2
    <3>3. QED
        BY <3>1, <3>2
  <2>2. QED
      BY <1>7, <2>1 DEF AcceptedIsKept
<1>9. QED
    BY <1>4, <1>5, <1>6, <1>7, <1>8 DEF AuditInv

(* The flush that runs in a slot, and its batch.                           *)
LEMMA Running ==
    ASSUME AuditInv, NEW f \in Flush, flush[f].at # "idle"
    PROVE  /\ flush[f] \in Flushes /\ flush[f].by \in Process
           /\ flush[f].batch \in Seq(Event) /\ flush[f].next \in 1..Len(flush[f].batch)
           /\ Elements(flush[f].batch) \subseteq Event
<1>1. flush[f] \in Flushes /\ FlushOK(f)
    BY Types DEF AuditInv
<1>2. flush[f].batch \in Seq(Event)
    BY <1>1 DEF Flushes
<1>3. QED
    BY <1>1, <1>2, ElementsIn DEF FlushOK

LEMMA InsertStep ==
    ASSUME AuditInv, NEW f \in Flush, InsertBatch(f)
    PROVE  AuditInv'
<1> DEFINE batch == flush[f].batch
<1>1. /\ flush[f].at = "insert" /\ UNCHANGED <<cached, log, buffer, proc>>
      /\ stored' = stored \cup Elements(batch) /\ faults' \in 0..MaxFaults
      /\ flush' = [flush EXCEPT ![f].at = "cache"]
    BY FaultCounts DEF InsertBatch
<1>2. /\ flush[f] \in Flushes /\ flush[f].by \in Process
      /\ batch \in Seq(Event) /\ flush[f].next \in 1..Len(batch)
      /\ Elements(batch) \subseteq Event
    BY <1>1, Running
<1>3. /\ flush' \in [Flush -> Flushes] /\ \A g \in Flush \ {f} : flush'[g] = flush[g]
      /\ flush'[f].at = "cache" /\ flush'[f].by = flush[f].by
      /\ flush'[f].batch = batch /\ flush'[f].next = flush[f].next
    BY <1>1, <1>2, Types DEF Flushes, FlushStates
<1>4. stored \subseteq stored' /\ stored' \subseteq Event
    BY <1>1, <1>2, Types
<1>5. FlushOK(f)'
  <2>1. Elements(flush'[f].batch) = Elements(batch)
      BY <1>3
  <2>2. Elements(batch) \subseteq stored'
      BY <1>1
  <2>3. QED
      BY <1>2, <1>3, <2>1, <2>2 DEF FlushOK, Elements
<1>6. \A g \in Flush : FlushOK(g)'
    BY <1>3, <1>4, <1>5, OtherFlushes
<1>7. \A q \in Process : \A e : e \in Held(q)' <=> e \in Held(q)
    BY <1>1, <1>3, HeldBy, HeldByNext
<1>8. cached' \in stored' \cup {Genesis, NoHash}
    BY <1>1 DEF AuditInv, Linked
<1>9. QED
    BY <1>1, <1>3, <1>4, <1>6, <1>7, <1>8, Types, MemoryOnly

(* The batch returns to the buffer of its process, which holds as much as  *)
(* before.                                                                 *)
LEMMA PutBackKeeps ==
    ASSUME AuditInv, NEW f \in Flush, flush[f].at # "idle", PutBack(f),
           UNCHANGED <<cached, log, proc>>, stored \subseteq stored', stored' \subseteq Event,
           faults' \in 0..MaxFaults
    PROVE  AuditInv'
<1> DEFINE batch == flush[f].batch
           by == flush[f].by
<1>1. /\ flush[f] \in Flushes /\ by \in Process /\ batch \in Seq(Event)
    BY Running
<1>2. /\ buffer[by] \in Seq(Event) /\ batch \o buffer[by] \in Seq(Event)
      /\ Elements(batch \o buffer[by]) = Elements(batch) \cup Elements(buffer[by])
  <2>1. buffer[by] \in Seq(Event)
      BY <1>1, Types
  <2>2. batch \o buffer[by] \in Seq(Event)
      BY <1>1, <2>1
  <2>3. QED
      BY <1>1, <2>1, <2>2, ElementsOfConcat
<1>3. /\ buffer' = [buffer EXCEPT ![by] = batch \o buffer[by]]
      /\ flush' = [flush EXCEPT ![f] = Free]
    BY DEF PutBack
<1>4. /\ buffer' \in [Process -> Seq(Event)] /\ buffer'[by] = batch \o buffer[by]
      /\ \A q \in Process \ {by} : buffer'[q] = buffer[q]
    BY <1>1, <1>2, <1>3, Types
<1>5. Free \in Flushes
    BY DEF Free, Flushes, FlushStates
<1>6. /\ flush' \in [Flush -> Flushes] /\ flush'[f] = Free
      /\ \A g \in Flush \ {f} : flush'[g] = flush[g]
    BY <1>3, <1>5, Types
<1>7. \A g \in Flush : FlushOK(g)'
  <2>1. FlushOK(f)'
      BY <1>6, FreeSlot DEF FlushOK, Free
  <2>2. QED
      BY <1>6, <2>1, OtherFlushes
<1>8. ASSUME NEW q \in Process, NEW e PROVE e \in Held(q)' <=> e \in Held(q)
  <2>1. \A g \in Flush : flush'[g].by = q /\ e \in Elements(flush'[g].batch) <=>
            g # f /\ flush[g].by = q /\ e \in Elements(flush[g].batch)
      BY <1>6, FreeSlot
  <2>2. e \in Elements(buffer'[q]) <=>
            e \in Elements(buffer[q]) \/ (q = by /\ e \in Elements(batch))
      BY <1>2, <1>4
  <2>3. QED
      BY <2>1, <2>2, HeldBy, HeldByNext
<1>9. cached' \in stored' \cup {Genesis, NoHash}
    BY DEF AuditInv, Linked
<1>10. QED
    BY <1>4, <1>6, <1>7, <1>8, <1>9, Types, MemoryOnly

LEMMA FailSteps ==
    ASSUME AuditInv, NEW f \in Flush, InsertFails(f) \/ CacheFails(f)
    PROVE  AuditInv'
<1>1. CASE InsertFails(f)
  <2>1. PICK n \in 0..Len(flush[f].batch) :
            /\ stored' = stored \cup First(flush[f].batch, n)
            /\ \/ Fault(flush[f].by) \/ UNCHANGED faults
               \/ NoFault(flush[f].by)
      BY <1>1 DEF InsertFails
  <2>2. flush[f].at # "idle" /\ PutBack(f) /\ UNCHANGED <<cached, log, proc>>
      BY <1>1 DEF InsertFails
  <2>3. faults' \in 0..MaxFaults
      BY <2>1, FaultCounts, Types
  <2>4. flush[f].batch \in Seq(Event)
      BY <2>2, Running
  <2>5. First(flush[f].batch, n) \subseteq Event
      BY <2>4 DEF First
  <2>6. QED
      BY <2>1, <2>2, <2>3, <2>5, Types, PutBackKeeps
<1>2. CASE CacheFails(f)
    BY <1>2, FaultCounts, Types, PutBackKeeps DEF CacheFails
<1>3. QED
    BY <1>1, <1>2

LEMMA CacheStep ==
    ASSUME AuditInv, NEW f \in Flush, CacheNext(f)
    PROVE  AuditInv'
<1> DEFINE batch == flush[f].batch
           n == flush[f].next
           later == [flush[f] EXCEPT !.next = n + 1]
<1>1. /\ flush[f].at = "cache" /\ UNCHANGED <<stored, log, buffer, proc>>
      /\ cached' = batch[n] /\ faults' \in 0..MaxFaults
      /\ flush' = [flush EXCEPT ![f] = IF n = Len(batch) THEN Free ELSE later]
    BY FaultCounts DEF CacheNext
<1>2. /\ flush[f] \in Flushes /\ flush[f].by \in Process
      /\ batch \in Seq(Event) /\ n \in 1..Len(batch)
    BY <1>1, Running
<1>3. Elements(batch) \subseteq stored
    BY <1>1 DEF AuditInv, FlushOK
<1>4. /\ later \in Flushes /\ later.at = "cache" /\ later.by = flush[f].by
      /\ later.batch = batch /\ later.next = n + 1
    BY <1>1, <1>2 DEF Flushes
<1>5. Free \in Flushes
    BY DEF Free, Flushes, FlushStates
<1> HIDE DEF later
<1>6. /\ flush' \in [Flush -> Flushes]
      /\ flush'[f] = Free \/ (n # Len(batch) /\ flush'[f] = later)
      /\ \A g \in Flush \ {f} : flush'[g] = flush[g]
    BY <1>1, <1>4, <1>5, Types
<1>7. \A g \in Flush : FlushOK(g)'
  <2>1. CASE flush'[f] = Free
    <3>1. FlushOK(f)'
        BY <2>1, FreeSlot DEF FlushOK, Free
    <3>2. QED
        BY <1>1, <1>6, <3>1, OtherFlushes
  <2>2. CASE n # Len(batch) /\ flush'[f] = later
    <3>1. n + 1 \in 1..Len(batch)
        BY <1>2, <2>2
    <3>2. Elements(flush'[f].batch) \subseteq stored'
        BY <1>1, <1>3, <1>4, <2>2
    <3>3. FlushOK(f)'
        BY <1>1, <1>2, <1>4, <2>2, <3>1, <3>2 DEF FlushOK, Elements
    <3>4. QED
        BY <1>1, <1>6, <3>3, OtherFlushes
  <2>3. QED
      BY <1>6, <2>1, <2>2
<1>8. ASSUME NEW q \in Process, NEW e
      PROVE  /\ e \in Held(q)' => e \in Held(q)
             /\ e \in Held(q) => e \in Held(q)' \/ e \in stored'
  <2>1. \A g \in Flush : flush'[g].by = q /\ e \in Elements(flush'[g].batch) =>
            flush[g].by = q /\ e \in Elements(flush[g].batch)
      BY <1>4, <1>6, FreeSlot
  <2>2. \A g \in Flush : flush[g].by = q /\ e \in Elements(flush[g].batch) =>
            \/ flush'[g].by = q /\ e \in Elements(flush'[g].batch)
            \/ e \in stored
      BY <1>3, <1>6
  <2>3. QED
      BY <1>1, <2>1, <2>2, HeldBy, HeldByNext
<1>9. cached' \in stored' \cup {Genesis, NoHash}
  <2>1. batch[n] \in Elements(batch)
      BY <1>2 DEF Elements
  <2>2. QED
      BY <1>1, <1>3, <2>1
<1>10. QED
    BY <1>1, <1>6, <1>7, <1>8, <1>9, Types, MemoryOnly

(* Neither the expiry of the hash nor a signal touches what is held.       *)
LEMMA QuietSteps ==
    ASSUME AuditInv, HashExpires \/ \E p \in Process : Shutdown(p)
    PROVE  AuditInv'
<1>1. /\ UNCHANGED <<stored, log, buffer, flush, faults>>
      /\ cached' \in stored' \cup {Genesis, NoHash}
      /\ proc' \in [Process -> {"up", "closing", "flushing"}]
    BY Types DEF HashExpires, Shutdown, AuditInv, Linked
<1>2. \A f \in Flush : FlushOK(f)'
    BY <1>1, OtherFlushes
<1>3. \A q : Held(q)' = Held(q)
    BY <1>1 DEF Held, Elements
<1>4. QED
    BY <1>1, <1>2, <1>3, Types, MemoryOnly

-----------------------------------------------------------------------------
(* The end of a process. *)

LEMMA EndSteps ==
    ASSUME AuditInv, NEW p \in Process, NEW how \in {"dropped", "lost"}, EndProcess(p, how)
    PROVE  AuditInv'
<1>1. /\ Nowhere("failed") \in Logs /\ Nowhere("failed").at = "failed"
      /\ Nowhere("failed").prev = Genesis
      /\ Nowhere(how) \in Logs /\ Nowhere(how).at = how /\ Nowhere(how).prev = Genesis
    BY DEF Nowhere, Logs, LogStates, Hash
<1>2. /\ UNCHANGED <<stored, cached, faults>>
      /\ buffer' = [buffer EXCEPT ![p] = <<>>] /\ proc' = [proc EXCEPT ![p] = "up"]
      /\ flush' = [f \in Flush |-> IF flush[f].by = p THEN Free ELSE flush[f]]
      /\ log' = [e \in Event |->
            CASE log[e].by = p /\ log[e].at \in {"query", "fill", "push"} -> Nowhere("failed")
              [] log[e].by = p /\ log[e].at = "accepted" /\ e \notin stored -> Nowhere(how)
              [] OTHER -> log[e]]
    BY DEF EndProcess
<1>3. ASSUME NEW e \in Event
      PROVE  /\ log[e].by # p => log'[e] = log[e]
             /\ log'[e] \in {log[e], Nowhere("failed"), Nowhere(how)}
             /\ log'[e].at = "accepted" /\ log'[e].by = p => e \in stored
  <2>1. CASE log[e].by # p
    <3>1. log'[e] = log[e]
        BY <1>2, <2>1
    <3>2. QED
        BY <2>1, <3>1
  <2>2. CASE log[e].by = p /\ log[e].at \in {"query", "fill", "push"}
    <3>1. log'[e] = Nowhere("failed")
        BY <1>2, <2>2
    <3>2. QED
        BY <1>1, <2>2, <3>1
  <2>3. CASE log[e].by = p /\ log[e].at = "accepted" /\ e \notin stored
    <3>1. log'[e] = Nowhere(how)
        BY <1>2, <2>3
    <3>2. QED
        BY <1>1, <2>3, <3>1
  <2>4. CASE /\ log[e].by = p /\ log[e].at \notin {"query", "fill", "push"}
             /\ log[e].at # "accepted" \/ e \in stored
    <3>1. log'[e] = log[e]
        BY <1>2, <2>4
    <3>2. QED
        BY <2>4, <3>1
  <2>5. QED
      BY <2>1, <2>2, <2>3, <2>4
<1>4. log' \in [Event -> Logs]
  <2>1. \A e \in Event : log'[e] \in Logs
      BY <1>1, <1>3, Types
  <2>2. log' = [e \in Event |-> log'[e]]
      BY <1>2
  <2>3. QED
      BY <2>1, <2>2
<1>5. Free \in Flushes
    BY DEF Free, Flushes, FlushStates
<1>6. /\ flush' \in [Flush -> Flushes]
      /\ \A f \in Flush : flush'[f] = IF flush[f].by = p THEN Free ELSE flush[f]
    BY <1>2, <1>5, Types
<1>7. /\ buffer' \in [Process -> Seq(Event)] /\ buffer'[p] = <<>>
      /\ \A q \in Process \ {p} : buffer'[q] = buffer[q]
    BY <1>2, Types
<1>8. proc' \in [Process -> {"up", "closing", "flushing"}]
    BY <1>2, Types
<1>9. ASSUME NEW q \in Process, NEW e PROVE e \in Held(q)' <=> q # p /\ e \in Held(q)
  <2>1. \A f \in Flush : flush'[f].by = q /\ e \in Elements(flush'[f].batch) <=>
            q # p /\ flush[f].by = q /\ e \in Elements(flush[f].batch)
      BY <1>6, FreeSlot
  <2>2. e \in Elements(buffer'[q]) <=> q # p /\ e \in Elements(buffer[q])
      BY <1>7, ElementsOfNone
  <2>3. QED
      BY <2>1, <2>2, HeldBy, HeldByNext
<1>10. \A f \in Flush : FlushOK(f)'
  <2> TAKE f \in Flush
  <2>1. CASE flush[f].by = p
      BY <1>6, <2>1, FreeSlot DEF FlushOK, Free
  <2>2. CASE flush[f].by # p
      BY <1>2, <1>6, <2>2, OtherFlushes
  <2>3. QED
      BY <2>1, <2>2
<1>11. TypeOK'
  <2>1. \A q \in Process : \A e \in Held(q)' : log'[e].by = q /\ log'[e].at = "accepted"
    <3> TAKE q \in Process
    <3> TAKE e \in Held(q)'
    <3>1. q # p /\ e \in Held(q)
        BY <1>9
    <3>2. e \in Event /\ log[e].by = q /\ log[e].at = "accepted"
        BY <3>1, HeldAreEvents DEF AuditInv, TypeOK
    <3>3. QED
        BY <1>3, <3>1, <3>2
  <2>2. stored' \subseteq Event /\ cached' \in Hash \cup {NoHash} /\ faults' \in 0..MaxFaults
      BY <1>2 DEF AuditInv, TypeOK
  <2>3. QED
      BY <1>4, <1>6, <1>7, <1>8, <2>1, <2>2 DEF TypeOK, Logs, Flushes
<1>12. Linked'
  <2>1. \A e \in Event : log'[e].prev \in stored \cup {Genesis}
      BY <1>1, <1>3 DEF AuditInv, Linked
  <2>2. QED
      BY <1>2, <2>1 DEF AuditInv, Linked
<1>13. \A e \in Event : log'[e].at \in {"query", "fill", "push", "accepted"} => log'[e].by \in Process
    BY <1>1, <1>3 DEF AuditInv
<1>14. AcceptedIsKept'
  <2>1. ASSUME NEW e \in Event, NEW q \in Process, log'[e].at = "accepted", log'[e].by = q
        PROVE  e \in stored' \/ e \in Held(q)'
    <3>1. CASE q = p
        BY <1>2, <1>3, <2>1, <3>1
    <3>2. CASE q # p
      <4>1. log'[e] = log[e]
          BY <1>1, <1>3, <2>1
      <4>2. e \in stored \/ e \in Held(q)
          BY <2>1, <4>1 DEF AuditInv, AcceptedIsKept
      <4>3. QED
          BY <1>2, <1>9, <3>2, <4>2
    <3>3. QED
        BY <3>1, <3>2
  <2>2. QED
      BY <1>13, <2>1 DEF AcceptedIsKept
<1>15. QED
    BY <1>10, <1>11, <1>12, <1>13, <1>14 DEF AuditInv

-----------------------------------------------------------------------------
(* The theorems. *)

LEMMA AuditStep ==
    ASSUME AuditInv, [Next]_vars
    PROVE  AuditInv'
<1>1. CASE \E e \in Event : LogStep(e) \/ \E p \in Process : LogEvent(p, e)
    BY <1>1, LogSteps, PushSteps DEF LogStep
<1>2. CASE \E f \in Flush : FlushStep(f)
    BY <1>2, InsertStep, FailSteps, CacheStep DEF FlushStep
<1>3. CASE \E p \in Process : Timer(p) \/ CloseServer(p)
    BY <1>3, TakeSteps
<1>4. CASE \E p \in Process : Exit(p) \/ Crash(p)
    BY <1>4, EndSteps DEF Exit, Crash
<1>5. CASE HashExpires \/ \E p \in Process : Shutdown(p)
    BY <1>5, QuietSteps
<1>6. CASE UNCHANGED vars
  <2>1. UNCHANGED <<stored, cached, log, buffer, flush, proc, faults>>
      BY <1>6 DEF vars
  <2>2. \A f \in Flush : FlushOK(f)'
      BY <2>1, OtherFlushes
  <2>3. \A q : Held(q)' = Held(q)
      BY <2>1 DEF Held, Elements
  <2>4. cached' \in stored' \cup {Genesis, NoHash}
      BY <2>1 DEF AuditInv, Linked
  <2>5. QED
      BY <2>1, <2>2, <2>3, <2>4, Types, MemoryOnly
<1>7. QED
    BY <1>1, <1>2, <1>3, <1>4, <1>5, <1>6 DEF Next

LEMMA AuditInvariant == Spec => []AuditInv
<1>1. AuditInv /\ [Next]_vars => AuditInv'
    BY AuditStep
<1>2. QED
    BY InitAudit, <1>1, PTL DEF Spec

(* Every variable keeps its type, and what a process holds was logged with *)
(* it, in every order of handlers, flushes, faults and ends of processes.  *)
THEOREM AuditTypeCorrect == Spec => []TypeOK
<1>1. AuditInv => TypeOK
    BY DEF AuditInv
<1>2. QED
    BY AuditInvariant, <1>1, PTL

(* An accepted event is stored or still held by its process, whatever      *)
(* flushes of flushBatch overlap and fail.                                 *)
THEOREM AcceptedKept == Spec => []AcceptedIsKept
<1>1. AuditInv => AcceptedIsKept
    BY DEF AuditInv
<1>2. QED
    BY AuditInvariant, <1>1, PTL

(* What insertMany stores was linked by getLastHash to the genesis hash or *)
(* to an event that was stored before.                                     *)
THEOREM LinksBack == Spec => LinksPointBack
<1>1. ASSUME AuditInv, [Next]_vars
      PROVE  \A e \in stored' \ stored : log[e].prev = Genesis \/ log[e].prev \in stored
  <2>1. stored' \subseteq Event
      BY <1>1, AuditStep DEF AuditInv, TypeOK
  <2>2. QED
      BY <1>1, <2>1 DEF AuditInv, Linked
<1>2. AuditInv /\ [Next]_vars =>
        [\A e \in stored' \ stored : log[e].prev = Genesis \/ log[e].prev \in stored]_vars
    BY <1>1
<1>3. QED
    BY AuditInvariant, <1>2, PTL DEF Spec, LinksPointBack

-----------------------------------------------------------------------------
(* An event is held once. *)

NoRepeat(s) == \A i, j \in DOMAIN s : s[i] = s[j] => i = j

LEMMA NoneRepeats == NoRepeat(<<>>)
  BY DEF NoRepeat

LEMMA AppendOnce ==
    ASSUME NEW S, NEW s \in Seq(S), NEW x \in S, NoRepeat(s), x \notin Elements(s)
    PROVE  NoRepeat(Append(s, x))
<1>1. /\ DOMAIN Append(s, x) = 1..(Len(s) + 1) /\ DOMAIN s = 1..Len(s) /\ Len(s) \in Nat
      /\ \A i \in 1..Len(s) : Append(s, x)[i] = s[i]
      /\ Append(s, x)[Len(s) + 1] = x
    OBVIOUS
<1>2. \A i \in 1..Len(s) : s[i] # x
    BY <1>1 DEF Elements
<1>3. \A i \in 1..(Len(s) + 1) : i \in 1..Len(s) \/ i = Len(s) + 1
    BY <1>1
<1>4. QED
    BY <1>1, <1>2, <1>3 DEF NoRepeat

LEMMA ConcatOnce ==
    ASSUME NEW S, NEW s \in Seq(S), NEW t \in Seq(S), NoRepeat(s), NoRepeat(t),
           Elements(s) \cap Elements(t) = {}
    PROVE  NoRepeat(s \o t)
<1> DEFINE m == Len(s)
           n == Len(t)
<1>1. /\ m \in Nat /\ n \in Nat /\ DOMAIN s = 1..m /\ DOMAIN t = 1..n
      /\ DOMAIN (s \o t) = 1..(m + n)
      /\ \A i \in 1..m : (s \o t)[i] = s[i]
      /\ \A i \in 1..n : (s \o t)[m + i] = t[i]
    OBVIOUS
<1>2. ASSUME NEW i \in 1..(m + n)
      PROVE  i \in 1..m \/ (i - m \in 1..n /\ (s \o t)[i] = t[i - m])
  <2>1. i \notin 1..m => i - m \in 1..n /\ i = m + (i - m)
      BY <1>1
  <2>2. QED
      BY <1>1, <2>1
<1>3. \A i \in 1..m, j \in 1..n : s[i] # t[j]
    BY <1>1 DEF Elements
<1>4. ASSUME NEW i \in 1..(m + n), NEW j \in 1..(m + n), (s \o t)[i] = (s \o t)[j]
      PROVE  i = j
  <2>1. CASE i \in 1..m /\ j \in 1..m
      BY <1>1, <1>4, <2>1 DEF NoRepeat
  <2>2. CASE i \in 1..m /\ j \notin 1..m
      BY <1>1, <1>2, <1>3, <1>4, <2>2
  <2>3. CASE i \notin 1..m /\ j \in 1..m
      BY <1>1, <1>2, <1>3, <1>4, <2>3
  <2>4. CASE i \notin 1..m /\ j \notin 1..m
    <3>1. i - m \in 1..n /\ j - m \in 1..n /\ t[i - m] = t[j - m]
        BY <1>2, <1>4, <2>4
    <3>2. i - m = j - m
        BY <1>1, <3>1 DEF NoRepeat
    <3>3. QED
        BY <1>1, <3>2
  <2>5. QED
      BY <2>1, <2>2, <2>3, <2>4
<1>5. QED
    BY <1>1, <1>4 DEF NoRepeat

(* HeldOnce of this state and of the next, one part at a time.             *)
LEMMA HeldOnceParts ==
    HeldOnce <=>
        /\ \A p \in Process : NoRepeat(buffer[p])
        /\ \A f \in Flush : NoRepeat(flush[f].batch)
        /\ \A f, g \in Flush : f # g =>
              \A x \in Elements(flush[f].batch) : x \notin Elements(flush[g].batch)
        /\ \A f \in Flush, p \in Process :
              \A x \in Elements(flush[f].batch) : x \notin Elements(buffer[p])
  BY DEF HeldOnce, NoRepeat

LEMMA HeldOnceNext ==
    ASSUME \A p \in Process : NoRepeat(buffer'[p]),
           \A f \in Flush : NoRepeat(flush'[f].batch),
           \A f, g \in Flush : f # g =>
              \A x \in Elements(flush'[f].batch) : x \notin Elements(flush'[g].batch),
           \A f \in Flush, p \in Process :
              \A x \in Elements(flush'[f].batch) : x \notin Elements(buffer'[p])
    PROVE  HeldOnce'
  BY DEF HeldOnce, NoRepeat, Elements

(* The buffers of two processes share nothing: log knows whose an event is.*)
LEMMA BuffersApart ==
    ASSUME AuditInv, NEW p \in Process, NEW q \in Process, p # q,
           NEW x \in Elements(buffer[p])
    PROVE  x \notin Elements(buffer[q])
<1>1. \A r \in Process : \A e \in Held(r) : log[e].by = r
    BY DEF AuditInv, TypeOK
<1>2. x \in Held(p) /\ (x \in Elements(buffer[q]) => x \in Held(q))
    BY HeldBy
<1>3. QED
    BY <1>1, <1>2

(* What is about to be pushed is held nowhere.                             *)
LEMMA PushedIsNew ==
    ASSUME AuditInv, NEW e \in Event, log[e].at = "push"
    PROVE  /\ \A p \in Process : e \notin Elements(buffer[p])
           /\ \A f \in Flush : e \notin Elements(flush[f].batch)
<1>1. \A p \in Process : e \notin Held(p)
    BY DEF AuditInv, TypeOK
<1>2. \A f \in Flush : flush[f].by \in Process \/ Elements(flush[f].batch) = {}
    BY FreeSlot DEF AuditInv, FlushOK
<1>3. QED
    BY <1>1, <1>2, HeldBy

(* Steps that keep or empty each sequence.                                 *)
LEMMA ShrinkOnce ==
    ASSUME HeldOnce,
           \A p \in Process : buffer'[p] = buffer[p] \/ buffer'[p] = <<>>,
           \A f \in Flush : flush'[f].batch = flush[f].batch \/ flush'[f].batch = <<>>
    PROVE  HeldOnce'
<1>1. \A p \in Process : /\ NoRepeat(buffer'[p])
                         /\ \A x \in Elements(buffer'[p]) : x \in Elements(buffer[p])
    BY HeldOnceParts, NoneRepeats, ElementsOfNone
<1>2. \A f \in Flush : /\ NoRepeat(flush'[f].batch)
                       /\ \A x \in Elements(flush'[f].batch) : x \in Elements(flush[f].batch)
    BY HeldOnceParts, NoneRepeats, ElementsOfNone
<1>3. QED
    BY <1>1, <1>2, HeldOnceParts, HeldOnceNext

(* A batch is taken that no flush and no other process holds part of.      *)
LEMMA TakeOnce ==
    ASSUME AuditInv, HeldOnce, NEW f \in Flush, NEW p \in Process, NEW batch \in Seq(Event),
           NoRepeat(batch), Take(f, p, batch),
           \A x \in Elements(batch) :
              /\ \A g \in Flush : x \notin Elements(flush[g].batch)
              /\ \A q \in Process \ {p} : x \notin Elements(buffer[q])
    PROVE  HeldOnce'
<1>1. /\ buffer' = [buffer EXCEPT ![p] = <<>>]
      /\ flush' = [flush EXCEPT ![f] = Taken(p, batch)]
    BY DEF Take, Taken
<1>2. /\ flush'[f].batch = batch /\ \A g \in Flush \ {f} : flush'[g].batch = flush[g].batch
      /\ \A q \in Process : buffer'[q] = IF q = p THEN <<>> ELSE buffer[q]
    BY <1>1, Types DEF Taken
<1>3. /\ \A q \in Process : NoRepeat(buffer'[q])
      /\ \A g \in Flush : NoRepeat(flush'[g].batch)
    BY <1>2, HeldOnceParts, NoneRepeats
<1>4. \A g, h \in Flush : g # h =>
          \A x \in Elements(flush'[g].batch) : x \notin Elements(flush'[h].batch)
    BY <1>2, HeldOnceParts
<1>5. \A g \in Flush, q \in Process :
          \A x \in Elements(flush'[g].batch) : x \notin Elements(buffer'[q])
    BY <1>2, HeldOnceParts, ElementsOfNone
<1>6. QED
    BY <1>3, <1>4, <1>5, HeldOnceNext

(* The batch of a failed flush returns to the buffer it was taken from.    *)
LEMMA PutBackOnce ==
    ASSUME AuditInv, HeldOnce, NEW f \in Flush, flush[f].at # "idle", PutBack(f)
    PROVE  HeldOnce'
<1> DEFINE batch == flush[f].batch
           by == flush[f].by
<1>1. /\ by \in Process /\ batch \in Seq(Event) /\ buffer[by] \in Seq(Event)
    BY Running, Types
<1>2. /\ flush'[f].batch = <<>> /\ \A g \in Flush \ {f} : flush'[g].batch = flush[g].batch
      /\ buffer'[by] = batch \o buffer[by]
      /\ \A q \in Process \ {by} : buffer'[q] = buffer[q]
    BY <1>1, Types, FreeSlot DEF PutBack
<1>3. \A x : x \in Elements(buffer'[by]) <=> x \in Elements(batch) \/ x \in Elements(buffer[by])
    BY <1>1, <1>2, ElementsOfConcat
<1>4. NoRepeat(buffer'[by])
  <2>1. NoRepeat(batch) /\ NoRepeat(buffer[by]) /\ Elements(batch) \cap Elements(buffer[by]) = {}
      BY <1>1, HeldOnceParts
  <2>2. QED
      BY <1>1, <1>2, <2>1, ConcatOnce
<1>5. /\ \A q \in Process : NoRepeat(buffer'[q])
      /\ \A g \in Flush : NoRepeat(flush'[g].batch)
    BY <1>2, <1>4, HeldOnceParts, NoneRepeats
<1>6. \A g, h \in Flush : g # h =>
          \A x \in Elements(flush'[g].batch) : x \notin Elements(flush'[h].batch)
    BY <1>2, HeldOnceParts, ElementsOfNone
<1>7. \A g \in Flush, q \in Process :
          \A x \in Elements(flush'[g].batch) : x \notin Elements(buffer'[q])
  <2> TAKE g \in Flush, q \in Process
  <2>1. CASE g = f
      BY <1>2, <2>1, ElementsOfNone
  <2>2. CASE g # f /\ q = by
      BY <1>2, <1>3, <2>2, HeldOnceParts
  <2>3. CASE g # f /\ q # by
      BY <1>2, <2>3, HeldOnceParts
  <2>4. QED
      BY <2>1, <2>2, <2>3
<1>8. QED
    BY <1>5, <1>6, <1>7, HeldOnceNext

LEMMA PushOnce ==
    ASSUME AuditInv, HeldOnce, NEW e \in Event, Push(e)
    PROVE  HeldOnce'
<1> DEFINE p == log[e].by
           longer == Append(buffer[p], e)
<1>1. log[e].at = "push" /\ p \in Process /\ buffer[p] \in Seq(Event)
    BY Types DEF Push, AuditInv
<1>2. /\ longer \in Seq(Event) /\ NoRepeat(longer)
      /\ \A x : x \in Elements(longer) <=> x \in Elements(buffer[p]) \/ x = e
  <2>1. NoRepeat(buffer[p]) /\ e \notin Elements(buffer[p])
      BY <1>1, PushedIsNew, HeldOnceParts
  <2>2. NoRepeat(longer)
      BY <1>1, <2>1, AppendOnce
  <2>3. Elements(longer) = Elements(buffer[p]) \cup {e}
      BY <1>1, ElementsOfAppend
  <2>4. longer \in Seq(Event)
      BY <1>1
  <2>5. QED
      BY <2>2, <2>3, <2>4
<1> HIDE DEF longer
<1>3. CASE buffer' = [buffer EXCEPT ![p] = longer] /\ UNCHANGED flush
  <2>1. buffer'[p] = longer /\ \A q \in Process \ {p} : buffer'[q] = buffer[q]
      BY <1>1, <1>3, Types
  <2>2. \A q \in Process : NoRepeat(buffer'[q])
      BY <1>2, <2>1, HeldOnceParts
  <2>3. \A f \in Flush, q \in Process :
            \A x \in Elements(flush'[f].batch) : x \notin Elements(buffer'[q])
      BY <1>1, <1>2, <1>3, <2>1, PushedIsNew, HeldOnceParts
  <2>4. QED
      BY <1>3, <2>2, <2>3, HeldOnceParts, HeldOnceNext
<1>4. ASSUME NEW f \in Flush, Take(f, p, longer) PROVE HeldOnce'
  <2>1. \A x \in Elements(longer) :
            /\ \A g \in Flush : x \notin Elements(flush[g].batch)
            /\ \A q \in Process \ {p} : x \notin Elements(buffer[q])
      BY <1>1, <1>2, PushedIsNew, BuffersApart, HeldOnceParts
  <2>2. QED
      BY <1>1, <1>2, <1>4, <2>1, TakeOnce
<1>5. QED
    BY <1>3, <1>4 DEF Push, longer

LEMMA HeldOnceStep ==
    ASSUME AuditInv, HeldOnce, [Next]_vars
    PROVE  HeldOnce'
<1>1. ASSUME NEW e \in Event, LogStep(e) \/ \E p \in Process : LogEvent(p, e)
      PROVE  HeldOnce'
  <2>1. CASE Push(e)
      BY <2>1, PushOnce
  <2>2. CASE UNCHANGED <<buffer, flush>>
      BY <2>2, ShrinkOnce
  <2>3. QED
      BY <1>1, <2>1, <2>2 DEF LogStep, LogEvent, LogFails, QueryLast, FillCache
<1>2. ASSUME NEW f \in Flush, InsertFails(f) \/ CacheFails(f) PROVE HeldOnce'
  <2>1. flush[f].at # "idle" /\ PutBack(f)
      BY <1>2 DEF InsertFails, CacheFails
  <2>2. QED
      BY <2>1, PutBackOnce
<1>3. ASSUME NEW f \in Flush, InsertBatch(f) \/ CacheNext(f) PROVE HeldOnce'
  <2>1. UNCHANGED buffer /\ flush \in [Flush -> Flushes]
      BY <1>3, Types DEF InsertBatch, CacheNext
  <2>2. \A g \in Flush : flush'[g].batch = flush[g].batch \/ flush'[g].batch = <<>>
    <3>1. CASE InsertBatch(f)
        BY <2>1, <3>1 DEF InsertBatch, Flushes
    <3>2. CASE CacheNext(f)
        BY <2>1, <3>2, FreeSlot DEF CacheNext, Flushes
    <3>3. QED
        BY <1>3, <3>1, <3>2
  <2>3. QED
      BY <2>1, <2>2, ShrinkOnce
<1>4. ASSUME NEW p \in Process, Timer(p) \/ CloseServer(p) PROVE HeldOnce'
  <2>1. CASE UNCHANGED <<buffer, flush>>
      BY <2>1, ShrinkOnce
  <2>2. ASSUME NEW f \in Flush, Take(f, p, buffer[p]) PROVE HeldOnce'
    <3>1. buffer[p] \in Seq(Event) /\ NoRepeat(buffer[p])
        BY Types, HeldOnceParts
    <3>2. \A x \in Elements(buffer[p]) :
              /\ \A g \in Flush : x \notin Elements(flush[g].batch)
              /\ \A q \in Process \ {p} : x \notin Elements(buffer[q])
        BY BuffersApart, HeldOnceParts
    <3>3. QED
        BY <2>2, <3>1, <3>2, TakeOnce
  <2>3. QED
      BY <1>4, <2>1, <2>2 DEF Timer, FlushTimer, CloseServer
<1>5. ASSUME NEW p \in Process, Exit(p) \/ Crash(p) PROVE HeldOnce'
  <2>1. /\ buffer' = [buffer EXCEPT ![p] = <<>>]
        /\ flush' = [f \in Flush |-> IF flush[f].by = p THEN Free ELSE flush[f]]
      BY <1>5 DEF Exit, Crash, EndProcess
  <2>2. /\ \A q \in Process : buffer'[q] = buffer[q] \/ buffer'[q] = <<>>
        /\ \A f \in Flush : flush'[f].batch = flush[f].batch \/ flush'[f].batch = <<>>
      BY <2>1, Types, FreeSlot
  <2>3. QED
      BY <2>2, ShrinkOnce
<1>6. CASE HashExpires \/ (\E p \in Process : Shutdown(p)) \/ UNCHANGED vars
    BY <1>6, ShrinkOnce DEF HashExpires, Shutdown, vars
<1>7. QED
    BY <1>1, <1>2, <1>3, <1>4, <1>5, <1>6 DEF Next, FlushStep

(* No event is ever held twice: push, the timer, a full buffer and the     *)
(* catch of flushBatch move events between buffer and batches, and never   *)
(* copy one, however many flushes overlap.                                 *)
THEOREM HeldOnceCorrect == Spec => []HeldOnce
<1>1. Init => HeldOnce
  <2> SUFFICES ASSUME Init PROVE HeldOnce
      OBVIOUS
  <2>1. (\A p \in Process : buffer[p] = <<>>) /\ \A f \in Flush : flush[f].batch = <<>>
      BY FreeSlot DEF Init
  <2>2. QED
      BY <2>1, HeldOnceParts, NoneRepeats, ElementsOfNone
<1>2. AuditInv /\ HeldOnce /\ [Next]_vars => HeldOnce'
    BY HeldOnceStep
<1>3. QED
    BY AuditInvariant, <1>1, <1>2, PTL DEF Spec

-----------------------------------------------------------------------------
(* The steps are steps of AuditTree. *)

(* What is stored was accepted before. *)
StoredAccepted == \A e \in stored : log[e].at = "accepted"

TreeInv == AuditInv /\ StoredAccepted

(* What p still owes, read off the log instead of the memory of p. *)
Owes(p, e) == e \in Event /\ e \notin stored /\ log[e].at = "accepted" /\ log[e].by = p

LEMMA OwedIs ==
    ASSUME AuditInv, NEW p \in Process, NEW e
    PROVE  e \in Held(p) \ stored <=> Owes(p, e)
<1>1. e \in Held(p) => e \in Event /\ log[e].at = "accepted" /\ log[e].by = p
    BY HeldAreEvents DEF AuditInv, TypeOK
<1>2. Owes(p, e) => e \in Held(p)
    BY DEF AuditInv, AcceptedIsKept, Owes
<1>3. QED
    BY <1>1, <1>2 DEF Owes

LEMMA OwedIsNext ==
    ASSUME AuditInv', NEW p \in Process, NEW e
    PROVE  e \in Held(p)' \ stored' <=> Owes(p, e)'
<1>1. e \in Held(p)' => e \in Event
  <2>1. buffer'[p] \in Seq(Event) /\ \A f \in Flush : flush'[f].batch \in Seq(Event)
      BY DEF AuditInv, TypeOK
  <2>2. /\ \A x \in Elements(buffer'[p]) : x \in Event
        /\ \A f \in Flush : \A x \in Elements(flush'[f].batch) : x \in Event
      BY <2>1, ElementsIn
  <2>3. QED
      BY <2>2, HeldByNext
<1>2. e \in Held(p)' => log'[e].at = "accepted" /\ log'[e].by = p
    BY DEF AuditInv, TypeOK
<1>3. Owes(p, e)' => e \in Held(p)'
    BY DEF AuditInv, AcceptedIsKept, Owes
<1>4. QED
    BY <1>1, <1>2, <1>3 DEF Owes

(* The tree, what is owed to it and what is forgotten, as the refinement   *)
(* maps them.                                                              *)
TreeNow == {LinkOf(e) : e \in stored}
OwedNow == [p \in Process |-> {LinkOf(e) : e \in Held(p) \ stored}]
GoneNow == {e \in Event : log[e].at \in {"dropped", "lost"}}

LEMMA OwedLinks ==
    ASSUME AuditInv, NEW p \in Process, NEW l
    PROVE  l \in OwedNow[p] <=> \E e \in Event : Owes(p, e) /\ l = LinkOf(e)
  BY OwedIs DEF OwedNow, Owes

LEMMA OwedLinksNext ==
    ASSUME AuditInv', NEW p \in Process, NEW l
    PROVE  l \in OwedNow'[p] <=> \E e \in Event : Owes(p, e)' /\ l = LinkOf(e)'
<1>1. OwedNow'[p] = {LinkOf(e)' : e \in Held(p)' \ stored'}
    BY DEF OwedNow
<1>2. QED
    BY <1>1, OwedIsNext DEF Owes

LEMMA TreeLinks ==
    /\ \A l : l \in TreeNow <=> \E e \in stored : l = LinkOf(e)
    /\ \A l : l \in TreeNow' <=> \E e \in stored' : l = LinkOf(e)'
    /\ \A e : LinkOf(e).event = e /\ LinkOf(e).prev = log[e].prev
    /\ \A e : e \in Tree!EventsOf(TreeNow) <=> e \in stored
<1>1. \A l : l \in TreeNow <=> \E e \in stored : l = LinkOf(e)
    BY DEF TreeNow
<1>2. \A l : l \in TreeNow' <=> \E e \in stored' : l = LinkOf(e)'
    BY DEF TreeNow
<1>3. \A e : LinkOf(e).event = e /\ LinkOf(e).prev = log[e].prev
    BY DEF LinkOf
<1>4. \A e : e \in Tree!EventsOf(TreeNow) <=> e \in stored
    BY <1>1, <1>3 DEF Tree!EventsOf
<1>5. QED
    BY <1>1, <1>2, <1>3, <1>4

LEMMA TreeSame ==
    ASSUME UNCHANGED stored, \A e \in stored : LinkOf(e)' = LinkOf(e)
    PROVE  TreeNow' = TreeNow
  BY DEF TreeNow

(* OwedNow' one process at a time. *)
LEMMA OwedNext ==
    ASSUME AuditInv', NEW F \in [Process -> SUBSET [event : Event, prev : Hash]],
           \A p \in Process : \A l :
              (\E e \in Event : Owes(p, e)' /\ l = LinkOf(e)') <=> l \in F[p]
    PROVE  OwedNow' = F
<1>1. OwedNow' = [p \in Process |-> OwedNow'[p]]
    BY DEF OwedNow
<1>2. \A p \in Process : OwedNow'[p] = F[p]
    BY OwedLinksNext
<1>3. QED
    BY <1>1, <1>2

LEMMA OwedType ==
    ASSUME AuditInv
    PROVE  /\ OwedNow \in [Process -> SUBSET [event : Event, prev : Hash]]
           /\ \A e \in Event : LinkOf(e) \in [event : Event, prev : Hash]
<1>1. \A e \in Event : LinkOf(e) \in [event : Event, prev : Hash]
    BY Types DEF LinkOf, Logs
<1>2. \A p \in Process : OwedNow[p] \subseteq [event : Event, prev : Hash]
    BY <1>1, OwedLinks
<1>3. QED
    BY <1>1, <1>2 DEF OwedNow

(* Where an event stands of which the tree knows. *)
Final == {"accepted", "dropped", "lost"}

(* A step that neither stores nor accepts nor forgets an event.            *)
LEMMA TreeStays ==
    ASSUME TreeInv, AuditInv', UNCHANGED stored,
           \A e \in Event : log[e].at \in Final \/ log'[e].at \in Final => log'[e] = log[e]
    PROVE  UNCHANGED <<TreeNow, OwedNow, GoneNow>>
<1>1. \A e \in Event : log[e].at = "accepted" => LinkOf(e)' = LinkOf(e)
    BY DEF LinkOf, Final
<1>2. \A e \in stored : e \in Event /\ log[e].at = "accepted"
    BY Types DEF TreeInv, StoredAccepted
<1>3. TreeNow' = TreeNow
    BY <1>1, <1>2, TreeSame
<1>4. ASSUME NEW p \in Process, NEW e \in Event
      PROVE  /\ Owes(p, e)' <=> Owes(p, e)
             /\ Owes(p, e) => LinkOf(e)' = LinkOf(e)
    BY <1>1 DEF Owes, Final
<1>5. \A p \in Process : \A l :
          (\E e \in Event : Owes(p, e)' /\ l = LinkOf(e)') <=> l \in OwedNow[p]
    BY <1>4, OwedLinks DEF TreeInv
<1>6. OwedNow' = OwedNow
    BY <1>5, OwedNext, OwedType DEF TreeInv
<1>7. GoneNow' = GoneNow
    BY DEF GoneNow, Final
<1>8. QED
    BY <1>3, <1>6, <1>7

(* Push accepts the event with the link that log was told.                 *)
LEMMA PushTree ==
    ASSUME TreeInv, AuditInv', NEW e \in Event, Push(e)
    PROVE  Tree!Accept(log[e].by, e, log[e].prev)
<1> DEFINE p == log[e].by
           F == [OwedNow EXCEPT ![p] = @ \cup {LinkOf(e)}]
<1>1. /\ log[e].at = "push" /\ p \in Process /\ UNCHANGED stored
      /\ log' = [log EXCEPT ![e].at = "accepted"] /\ log \in [Event -> Logs]
    BY Types DEF Push, AuditInv, TreeInv
<1>2. /\ \A d \in Event \ {e} : log'[d] = log[d]
      /\ log'[e].at = "accepted" /\ log'[e].by = p /\ log'[e].prev = log[e].prev
    BY <1>1 DEF Logs
<1>3. e \notin stored
    BY <1>1 DEF TreeInv, StoredAccepted
<1>4. \A d \in Event : LinkOf(d)' = LinkOf(d)
    BY <1>2 DEF LinkOf
<1>5. TreeNow' = TreeNow
  <2>1. \A d \in stored : d \in Event
      BY Types DEF TreeInv
  <2>2. QED
      BY <1>1, <1>4, <2>1, TreeSame
<1>6. ASSUME NEW q \in Process, NEW d \in Event
      PROVE  Owes(q, d)' <=> Owes(q, d) \/ (q = p /\ d = e)
  <2>1. CASE d = e
      BY <1>1, <1>2, <1>3, <2>1 DEF Owes
  <2>2. CASE d # e
      BY <1>1, <1>2, <2>2 DEF Owes
  <2>3. QED
      BY <2>1, <2>2
<1>7. /\ F \in [Process -> SUBSET [event : Event, prev : Hash]]
      /\ \A q \in Process : F[q] = IF q = p THEN OwedNow[q] \cup {LinkOf(e)} ELSE OwedNow[q]
    BY <1>1, OwedType DEF TreeInv
<1>8. \A q \in Process : \A l : (\E d \in Event : Owes(q, d)' /\ l = LinkOf(d)') <=> l \in F[q]
    BY <1>4, <1>6, <1>7, OwedLinks DEF TreeInv
<1>9. OwedNow' = F
  <2> HIDE DEF F
  <2>1. QED
      BY <1>7, <1>8, OwedNext
<1>10. \A q \in Process : e \notin Tree!EventsOf(OwedNow[q])
  <2>1. \A q \in Process : ~ Owes(q, e)
      BY <1>1 DEF Owes
  <2>2. \A q \in Process : \A l \in OwedNow[q] : l.event # e
      BY <2>1, OwedLinks, TreeLinks DEF TreeInv
  <2>3. QED
      BY <2>2 DEF Tree!EventsOf
<1>11. /\ e \notin Tree!EventsOf(TreeNow)
       /\ log[e].prev \in Tree!EventsOf(TreeNow) \cup {Genesis}
    BY <1>3, TreeLinks DEF TreeInv, AuditInv, Linked
<1>12. e \notin GoneNow /\ GoneNow' = GoneNow
  <2>1. \A d \in Event : log'[d].at \in {"dropped", "lost"} <=> log[d].at \in {"dropped", "lost"}
      BY <1>1, <1>2
  <2>2. QED
      BY <1>1, <2>1 DEF GoneNow
<1>13. QED
    BY <1>5, <1>9, <1>10, <1>11, <1>12 DEF Tree!Accept, TreeNow, OwedNow, GoneNow, LinkOf

(* What insertMany stores leaves what its process owes for the tree.       *)
LEMMA StoreTree ==
    ASSUME TreeInv, AuditInv', UNCHANGED log, NEW p \in Process,
           NEW new \in SUBSET Event, stored' = stored \cup new,
           \A e \in new : log[e].at = "accepted" /\ log[e].by = p
    PROVE  \E links \in SUBSET OwedNow[p] : Tree!Store(p, links)
<1> DEFINE links == {LinkOf(e) : e \in new \ stored}
           F == [OwedNow EXCEPT ![p] = @ \ links]
<1>1. \A e : LinkOf(e)' = LinkOf(e) /\ LinkOf(e).event = e
    BY DEF LinkOf
<1>2. \A l : l \in links <=> \E e \in new \ stored : l = LinkOf(e)
    OBVIOUS
<1> HIDE DEF links
<1>3. links \in SUBSET OwedNow[p]
    BY <1>2, OwedLinks DEF TreeInv, Owes
<1>4. TreeNow' = TreeNow \cup links
    BY <1>1, <1>2, TreeLinks
<1>5. ASSUME NEW q \in Process, NEW e \in Event
      PROVE  Owes(q, e)' <=> Owes(q, e) /\ (q = p => e \notin new)
    BY DEF Owes
<1>6. /\ F \in [Process -> SUBSET [event : Event, prev : Hash]]
      /\ \A q \in Process : F[q] = IF q = p THEN OwedNow[q] \ links ELSE OwedNow[q]
    BY OwedType DEF TreeInv
<1>7. ASSUME NEW q \in Process, NEW l
      PROVE  (\E e \in Event : Owes(q, e)' /\ l = LinkOf(e)') <=> l \in F[q]
  <2>1. l \in OwedNow[q] <=> \E e \in Event : Owes(q, e) /\ l = LinkOf(e)
      BY OwedLinks DEF TreeInv
  <2>2. CASE q # p
      BY <1>1, <1>5, <1>6, <2>1, <2>2
  <2>3. CASE q = p
    <3>1. l \in F[q] <=> l \in OwedNow[q] /\ l \notin links
        BY <1>6, <2>3
    <3>2. ASSUME NEW e \in Event, Owes(q, e), l = LinkOf(e)
          PROVE  l \in links <=> e \in new
        BY <1>1, <1>2, <3>2 DEF Owes
    <3>3. QED
        BY <1>1, <1>5, <2>1, <2>3, <3>1, <3>2
  <2>4. QED
      BY <2>2, <2>3
<1>8. OwedNow' = F
  <2> HIDE DEF F
  <2>1. QED
      BY <1>6, <1>7, OwedNext
<1>9. Tree!Store(p, links)
  <2>1. GoneNow' = GoneNow
      BY DEF GoneNow
  <2>2. QED
      BY <1>3, <1>4, <1>8, <2>1 DEF Tree!Store, TreeNow, OwedNow, GoneNow, LinkOf
<1>10. QED
    BY <1>3, <1>9

(* The end of a process forgets what it owed, and nothing else.            *)
LEMMA EndTree ==
    ASSUME TreeInv, AuditInv', NEW p \in Process, NEW how \in {"dropped", "lost"},
           EndProcess(p, how)
    PROVE  Tree!Forget(p) /\ StoredAccepted'
<1> DEFINE F == [OwedNow EXCEPT ![p] = {}]
<1>1. /\ Nowhere("failed").at = "failed" /\ Nowhere(how).at = how /\ UNCHANGED stored
      /\ log' = [e \in Event |->
            CASE log[e].by = p /\ log[e].at \in {"query", "fill", "push"} -> Nowhere("failed")
              [] log[e].by = p /\ log[e].at = "accepted" /\ e \notin stored -> Nowhere(how)
              [] OTHER -> log[e]]
    BY DEF EndProcess, Nowhere
<1>2. \A e \in stored : e \in Event /\ log[e].at = "accepted"
    BY Types DEF TreeInv, StoredAccepted
<1>3. ASSUME NEW e \in Event, e \in stored \/ log[e].by # p
      PROVE  log'[e] = log[e]
    BY <1>1, <1>2, <1>3
<1>4. ASSUME NEW e \in Event, e \notin stored, log[e].by = p
      PROVE  log'[e].at # "accepted"
  <2>1. CASE log[e].at \in {"query", "fill", "push"}
      BY <1>1, <1>4, <2>1
  <2>2. CASE log[e].at = "accepted"
      BY <1>1, <1>4, <2>2
  <2>3. CASE log[e].at \notin {"query", "fill", "push", "accepted"}
    <3>1. log'[e] = log[e]
        BY <1>1, <1>4, <2>3
    <3>2. QED
        BY <2>3, <3>1
  <2>4. QED
      BY <2>1, <2>2, <2>3
<1>5. TreeNow' = TreeNow
  <2>1. \A e \in stored : LinkOf(e)' = LinkOf(e)
      BY <1>2, <1>3 DEF LinkOf
  <2>2. QED
      BY <1>1, <2>1, TreeSame
<1>6. ASSUME NEW q \in Process, NEW e \in Event
      PROVE  /\ Owes(q, e)' <=> Owes(q, e) /\ q # p
             /\ q # p /\ Owes(q, e) => LinkOf(e)' = LinkOf(e)
  <2>1. CASE e \in stored
      BY <1>1, <2>1 DEF Owes
  <2>2. CASE e \notin stored /\ log[e].by = p
      BY <1>4, <2>2 DEF Owes
  <2>3. CASE e \notin stored /\ log[e].by # p
      BY <1>1, <1>3, <2>3 DEF Owes, LinkOf
  <2>4. QED
      BY <2>1, <2>2, <2>3
<1>7. /\ F \in [Process -> SUBSET [event : Event, prev : Hash]]
      /\ \A q \in Process : F[q] = IF q = p THEN {} ELSE OwedNow[q]
    BY OwedType DEF TreeInv
<1>8. \A q \in Process : \A l : (\E e \in Event : Owes(q, e)' /\ l = LinkOf(e)') <=> l \in F[q]
    BY <1>6, <1>7, OwedLinks DEF TreeInv
<1>9. OwedNow' = F
  <2> HIDE DEF F
  <2>1. QED
      BY <1>7, <1>8, OwedNext
<1>10. StoredAccepted'
    BY <1>1, <1>2, <1>3 DEF StoredAccepted
<1>11. GoneNow' = GoneNow \cup Tree!EventsOf(OwedNow[p])
  <2>1. \A e : e \in Tree!EventsOf(OwedNow[p]) <=> e \in Event /\ Owes(p, e)
      BY OwedLinks, TreeLinks DEF TreeInv, Tree!EventsOf
  <2>2. ASSUME NEW e \in Event
        PROVE  log'[e].at \in {"dropped", "lost"}
                  <=> log[e].at \in {"dropped", "lost"} \/ Owes(p, e)
    <3>1. CASE Owes(p, e)
        BY <1>1, <3>1 DEF Owes
    <3>2. CASE log[e].by = p /\ log[e].at \in {"query", "fill", "push"}
        BY <1>1, <3>2 DEF Owes
    <3>3. CASE ~Owes(p, e) /\ ~(log[e].by = p /\ log[e].at \in {"query", "fill", "push"})
      <4>1. log'[e] = log[e]
          BY <1>1, <3>3 DEF Owes
      <4>2. QED
          BY <3>3, <4>1
    <3>4. QED
        BY <3>1, <3>2, <3>3
  <2>3. QED
      BY <2>1, <2>2 DEF GoneNow
<1>12. QED
    BY <1>5, <1>9, <1>10, <1>11 DEF Tree!Forget, TreeNow, OwedNow, GoneNow, LinkOf

LEMMA TreeStep ==
    ASSUME TreeInv, [Next]_vars
    PROVE  /\ StoredAccepted'
           /\ Tree!Next \/ UNCHANGED <<TreeNow, OwedNow, GoneNow>>
<1>0. AuditInv /\ AuditInv' /\ \A e \in stored : e \in Event /\ log[e].at = "accepted"
    BY AuditStep, Types DEF TreeInv, StoredAccepted
<1>1. ASSUME UNCHANGED stored,
             \A e \in Event : log[e].at \in Final \/ log'[e].at \in Final => log'[e] = log[e]
      PROVE  StoredAccepted' /\ UNCHANGED <<TreeNow, OwedNow, GoneNow>>
  <2>1. UNCHANGED <<TreeNow, OwedNow, GoneNow>>
      BY <1>0, <1>1, TreeStays
  <2>2. StoredAccepted'
      BY <1>0, <1>1 DEF StoredAccepted, Final
  <2>3. QED
      BY <2>1, <2>2
<1>2. ASSUME NEW e \in Event, Push(e) PROVE StoredAccepted' /\ Tree!Next
  <2>1. /\ log[e].by \in Process /\ log[e].prev \in Event \cup {Genesis}
        /\ UNCHANGED stored /\ \A d \in Event : log[d].at = "accepted" => log'[d].at = "accepted"
      BY <1>0, <1>2, Types DEF Push, AuditInv, Logs, Hash
  <2>2. Tree!Accept(log[e].by, e, log[e].prev)
      BY <1>0, <1>2, PushTree
  <2>3. Tree!Next
      BY <2>1, <2>2 DEF Tree!Next
  <2>4. QED
      BY <1>0, <2>1, <2>3 DEF StoredAccepted
<1>3. ASSUME NEW e \in Event,
             LogFails(e) \/ QueryLast(e) \/ FillCache(e) \/ \E p \in Process : LogEvent(p, e)
      PROVE  StoredAccepted' /\ UNCHANGED <<TreeNow, OwedNow, GoneNow>>
  <2>1. /\ UNCHANGED stored /\ log[e].at \notin Final /\ log'[e].at \notin Final
        /\ \A d \in Event \ {e} : log'[d] = log[d]
    <3>0. log \in [Event -> Logs] /\ Nowhere("failed").at = "failed"
        BY <1>0, Types DEF Nowhere
    <3>1. CASE LogFails(e)
        BY <3>0, <3>1 DEF LogFails, Final
    <3>2. CASE QueryLast(e)
        BY <3>0, <3>2 DEF QueryLast, Logs, Final
    <3>3. CASE FillCache(e)
        BY <3>0, <3>3 DEF FillCache, Logs, Final
    <3>4. ASSUME NEW p \in Process, LogEvent(p, e)
          PROVE  /\ UNCHANGED stored /\ log[e].at \notin Final /\ log'[e].at \notin Final
                 /\ \A d \in Event \ {e} : log'[d] = log[d]
        BY <3>0, <3>4 DEF LogEvent, Final
    <3>5. QED
        BY <1>3, <3>1, <3>2, <3>3, <3>4
  <2>2. QED
      BY <1>1, <2>1
<1>4. ASSUME NEW f \in Flush, NEW new \in SUBSET Elements(flush[f].batch),
             flush[f].at = "insert", UNCHANGED log, stored' = stored \cup new
      PROVE  StoredAccepted' /\ Tree!Next
  <2>1. flush[f].by \in Process /\ Elements(flush[f].batch) \subseteq Event
      BY <1>0, <1>4, Running
  <2>2. \A e \in new : e \in Event /\ log[e].at = "accepted" /\ log[e].by = flush[f].by
    <3>1. \A e \in new : e \in Held(flush[f].by)
        BY HeldBy
    <3>2. QED
        BY <1>0, <2>1, <3>1 DEF AuditInv, TypeOK
  <2>3. \E links \in SUBSET OwedNow[flush[f].by] : Tree!Store(flush[f].by, links)
      BY <1>0, <1>4, <2>1, <2>2, StoreTree
  <2>4. OwedNow[flush[f].by] = {LinkOf(e) : e \in Held(flush[f].by) \ stored}
      BY <2>1 DEF OwedNow
  <2>5. Tree!Next
      BY <2>1, <2>3, <2>4 DEF Tree!Next, OwedNow
  <2>6. QED
      BY <1>0, <1>4, <2>2, <2>5 DEF StoredAccepted
<1>5. ASSUME NEW f \in Flush, InsertBatch(f) \/ InsertFails(f) PROVE StoredAccepted' /\ Tree!Next
  <2>1. CASE InsertBatch(f)
      BY <1>4, <2>1 DEF InsertBatch
  <2>2. CASE InsertFails(f)
    <3>1. PICK n \in 0..Len(flush[f].batch) : stored' = stored \cup First(flush[f].batch, n)
        BY <2>2 DEF InsertFails
    <3>2. flush[f].at = "insert" /\ UNCHANGED log
        BY <2>2 DEF InsertFails
    <3>3. First(flush[f].batch, n) \subseteq Elements(flush[f].batch)
      <4>1. flush[f].batch \in Seq(Event)
          BY <1>0, <3>2, Running
      <4>2. QED
          BY <4>1 DEF First, Elements
    <3>4. QED
        BY <1>4, <3>1, <3>2, <3>3
  <2>3. QED
      BY <1>5, <2>1, <2>2
<1>6. ASSUME NEW p \in Process, Exit(p) \/ Crash(p) PROVE StoredAccepted' /\ Tree!Next
  <2>1. Tree!Forget(p) /\ StoredAccepted'
      BY <1>0, <1>6, EndTree DEF Exit, Crash
  <2>2. QED
      BY <2>1 DEF Tree!Next
<1>7. ASSUME NEW f \in Flush, CacheNext(f) \/ CacheFails(f)
      PROVE  StoredAccepted' /\ UNCHANGED <<TreeNow, OwedNow, GoneNow>>
    BY <1>1, <1>7 DEF CacheNext, CacheFails
<1>8. ASSUME NEW p \in Process, Timer(p) \/ Shutdown(p) \/ CloseServer(p)
      PROVE  StoredAccepted' /\ UNCHANGED <<TreeNow, OwedNow, GoneNow>>
    BY <1>1, <1>8 DEF Timer, FlushTimer, Shutdown, CloseServer
<1>9. CASE HashExpires \/ UNCHANGED vars
    BY <1>1, <1>9 DEF HashExpires, vars
<1>10. QED
    BY <1>2, <1>3, <1>5, <1>6, <1>7, <1>8, <1>9 DEF Next, LogStep, FlushStep

(* Every behaviour of the audit log is one of the abstract tree: log,      *)
(* flushBatch and shutdown accept an event once, keep its link, store it   *)
(* under that link or forget it with its process, and the tree only grows. *)
THEOREM TreeKept == Spec => KeepsTree
<1>1. Init => TreeInv /\ Tree!Init
  <2> SUFFICES ASSUME Init PROVE TreeInv /\ Tree!Init
      OBVIOUS
  <2>1. AuditInv
      BY InitAudit
  <2>2. stored = {} /\ \A e \in Event : log[e].at = "new"
      BY DEF Init, Nowhere
  <2>3. \A p \in Process : OwedNow[p] = {}
      BY <2>1, <2>2, OwedLinks DEF Owes
  <2>4. TreeNow = {}
      BY <2>2 DEF TreeNow
  <2>5. OwedNow = [p \in Process |-> {}]
    <3>1. OwedNow = [p \in Process |-> OwedNow[p]]
        BY DEF OwedNow
    <3>2. QED
        BY <2>3, <3>1
  <2>6. QED
      BY <2>1, <2>2, <2>4, <2>5 DEF TreeInv, StoredAccepted, Tree!Init, TreeNow, OwedNow,
              GoneNow
<1>2. TreeInv /\ [Next]_vars => TreeInv'
    BY AuditStep, TreeStep DEF TreeInv
<1>3. TreeInv /\ [Next]_vars =>
          [Tree!Next]_<<{LinkOf(e) : e \in stored},
                        [p \in Process |-> {LinkOf(e) : e \in Held(p) \ stored}],
                        {e \in Event : log[e].at \in {"dropped", "lost"}}>>
    BY TreeStep DEF TreeNow, OwedNow, GoneNow
<1>4. QED
    BY <1>1, <1>2, <1>3, PTL DEF Spec, KeepsTree, Tree!Spec
=============================================================================
