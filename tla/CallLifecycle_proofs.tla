-------------------------- MODULE CallLifecycle_proofs --------------------------
(***************************************************************************)
(* Theorems about CallLifecycle, for every set of users, calls and request *)
(* slots and every bound on faults and crashes.                            *)
(***************************************************************************)
EXTENDS CallLifecycle, TLAPS

-----------------------------------------------------------------------------
(* Type correctness. *)

LEMMA FaultBound == \A m : faults \in 0..MaxFaults /\ Fault(m) => faults' \in 0..MaxFaults
    BY CallConstantsOK DEF Fault

(* The handler records that the code builds are well formed. *)
LEMMA RequestTypes ==
    /\ Idle \in RequestType
    /\ \A rest \in SUBSET Call : Ending(rest) \in RequestType
    /\ \A c \in Call, s \in {"answered", "rejected", "ended"}, rest \in SUBSET Call :
           Save(c, s, rest) \in RequestType
    /\ \A why \in {"caller", "callee", "disconnect"}, u, v \in User :
           List(why, u, v) \in RequestType
    /\ \A step \in {"history", "delete"}, c \in Call, rest \in SUBSET Call :
           [at |-> step, call |-> c, rest |-> rest] \in RequestType
    /\ \A users \in (SUBSET User) \ {{}} : [at |-> "create", parties |-> users] \in RequestType
<1>1. \A users \in (SUBSET User) \ {{}} : [at |-> "create", parties |-> users] \in RequestType
    BY DEF RequestType
<1>2. \A why \in {"caller", "callee", "disconnect"}, u, v \in User : List(why, u, v) \in RequestType
    BY DEF RequestType, List
<1>3. \A step \in {"history", "delete"}, c \in Call, rest \in SUBSET Call :
           [at |-> step, call |-> c, rest |-> rest] \in RequestType
    BY DEF RequestType
<1>4. Idle \in RequestType /\ \A rest \in SUBSET Call : Ending(rest) \in RequestType
    BY DEF RequestType, Idle, Ending
<1>5. \A c \in Call, s \in {"answered", "rejected", "ended"}, rest \in SUBSET Call :
           Save(c, s, rest) \in RequestType
    BY DEF RequestType, Save
<1>6. QED
    BY <1>1, <1>2, <1>3, <1>4, <1>5

(* What a well-formed handler record holds at each of its steps. *)
LEMMA RequestFields ==
    ASSUME NEW q \in RequestType
    PROVE  /\ q.at \in {"list", "scan"} =>
                  q.why \in {"caller", "callee", "disconnect"} /\ q.user \in User /\ q.peer \in User
           /\ q.at = "scan" => q.keys \subseteq Call /\ q.found \subseteq Call
           /\ q.at = "create" => q.parties \in (SUBSET User) \ {{}}
           /\ q.at = "save" =>
                  q.call \in Call /\ q.status \in {"answered", "rejected", "ended"}
           /\ q.at \in {"history", "delete"} => q.call \in Call
           /\ q.at \in {"save", "history", "delete", "ending"} => q.rest \subseteq Call
    BY DEF RequestType, Idle

LEMMA ScanType ==
    ASSUME NEW q \in RequestType, q.at \in {"list", "scan"},
           NEW keys \in SUBSET Call, NEW found \in SUBSET Call
    PROVE  Scan(q, keys, found) \in RequestType
<1>1. q.why \in {"caller", "callee", "disconnect"} /\ q.user \in User /\ q.peer \in User
    BY RequestFields
<1>2. QED
    BY <1>1 DEF Scan, RequestType

(* A handler writes only to a call that was generated. *)
WritesGenerated == \A r \in Request : At(r, "save") => parties[request[r].call] # {}

(* TypeOK in two parts: the state of the calls, and what the history       *)
(* variables say of the handlers and timers.                               *)
StateOK ==
    /\ calls \in [Call -> Status]
    /\ parties \in [Call -> SUBSET User]
    /\ timer \in [Call -> {"off", "armed", "save"}]
    /\ request \in [Request -> RequestType]
    /\ answered \subseteq Call
    /\ doubtful \subseteq Call
    /\ faults \in 0..MaxFaults
    /\ events \in 0..MaxEvents
    /\ \A c \in Call : parties[c] = {} => calls[c] = "absent" /\ timer[c] = "off"

Reading == {"list", "scan", "create", "save"}
HistoryOK ==
    /\ stale \subseteq {r \in Request : request[r].at \in Reading}
    /\ late \subseteq {c \in Call : timer[c] = "save"}

TypeInv == TypeOK /\ WritesGenerated

LEMMA CallTypeInit == Init => TypeInv
    BY RequestTypes, CallConstantsOK DEF Init, TypeInv, TypeOK, WritesGenerated, At, Idle, Status

LEMMA ClientType ==
    ASSUME TypeOK, NEW r \in Request, ClientEvent(r)
    PROVE  StateOK'
<1>1. \E next \in RequestType : GoTo(r, next)
    BY RequestTypes DEF ClientEvent, Initiate, Answer, Reject, Hangup, Disconnect
<1>2. UNCHANGED <<calls, parties, timer, answered, doubtful, faults>>
    BY DEF ClientEvent, Initiate, Answer, Reject, Hangup, Disconnect, history
<1>3. events' \in 0..MaxEvents
    BY CallConstantsOK DEF ClientEvent, TypeOK
<1>4. QED
    BY <1>1, <1>2, <1>3 DEF TypeOK, StateOK, GoTo

LEMMA HandlerType ==
    ASSUME TypeOK, WritesGenerated, NEW r \in Request, HandlerStep(r)
    PROVE  StateOK'
<1> DEFINE q == request[r]
<1>0. q \in RequestType
    BY DEF TypeOK, StateOK, history
<1>a. ASSUME NEW next \in RequestType, GoTo(r, next) PROVE request' \in [Request -> RequestType]
    BY <1>a DEF GoTo, TypeOK, StateOK, history
<1>1. CASE ListKeys(r)
  <2>1. Scan(q, {c \in Call : calls[c] # "absent"}, {}) \in RequestType
      BY <1>0, <1>1, ScanType DEF ListKeys, At
  <2>2. QED
      BY <1>1, <1>a, <2>1 DEF ListKeys, TypeOK, StateOK, history
<1>2. CASE ReadKey(r)
  <2>1. q.keys \subseteq Call /\ q.found \subseteq Call
      BY <1>0, <1>2, RequestFields DEF ReadKey, At
  <2>2. \A c \in q.keys :
            Scan(q, q.keys \ {c}, q.found \cup {d \in {c} : Active(d, q.user)}) \in RequestType
    <3>1. ASSUME NEW c \in q.keys
          PROVE  /\ q.keys \ {c} \in SUBSET Call
                 /\ q.found \cup {d \in {c} : Active(d, q.user)} \in SUBSET Call
        BY <2>1
    <3>2. QED
        BY <1>0, <1>2, <3>1, ScanType DEF ReadKey, At
  <2>3. QED
      BY <1>2, <1>a, <2>2 DEF ReadKey, TypeOK, StateOK, history
<1>3. CASE ListFails(r)
  <2>1. Scan(q, {}, {}) \in RequestType
      BY <1>0, <1>3, ScanType DEF ListFails
  <2>2. QED
      BY <1>3, <1>a, <2>1, FaultBound DEF ListFails, TypeOK, StateOK, history
<1>4. CASE Scanned(r)
  <2>1. /\ q.why \in {"caller", "callee", "disconnect"}
        /\ q.user \in User /\ q.peer \in User /\ q.found \subseteq Call
      BY <1>0, <1>4, RequestFields DEF Scanned, At
  <2>2. {q.user, q.peer} \in (SUBSET User) \ {{}}
      BY <2>1
  <2>3. q.found = {} \/ q.found # {}
      OBVIOUS
  <2>4. \/ GoTo(r, Ending(q.found)) \/ GoTo(r, Idle) \/ GoTo(r, List("callee", q.peer, q.user))
        \/ GoTo(r, [at |-> "create", parties |-> {q.user, q.peer}])
      BY <1>4, <2>1, <2>3 DEF Scanned
  <2>5. request' \in [Request -> RequestType]
      BY <1>a, <2>1, <2>2, <2>4, RequestTypes
  <2>6. QED
      BY <1>4, <2>5 DEF Scanned, TypeOK, StateOK, history
<1>5. CASE Create(r)
  <2>1. q.parties \in (SUBSET User) \ {{}}
      BY <1>0, <1>5, RequestFields DEF Create, At
  <2>2. request' \in [Request -> RequestType]
      BY <1>5, <1>a, RequestTypes DEF Create
  <2>3. QED
      BY <1>5, <2>1, <2>2, FaultBound DEF Create, TypeOK, StateOK, history, Write, Unused, Status, Live
<1>6. CASE SaveCall(r)
  <2>1. /\ q.call \in Call /\ q.status \in {"answered", "rejected", "ended"}
        /\ q.rest \in SUBSET Call
      BY <1>0, <1>6, RequestFields DEF SaveCall, At
  <2>2. request' \in [Request -> RequestType]
      BY <1>6, <1>a, <2>1, RequestTypes DEF SaveCall
  <2>3. parties[q.call] # {}
      BY <1>6 DEF SaveCall, At, WritesGenerated
  <2>4. QED
      BY <1>6, <2>1, <2>2, <2>3, FaultBound DEF SaveCall, TypeOK, StateOK, history, Write, Status, Live, Finished
<1>7. CASE ReadHistory(r)
  <2>1. q.call \in Call /\ q.rest \in SUBSET Call
      BY <1>0, <1>7, RequestFields DEF ReadHistory, At
  <2>2. request' \in [Request -> RequestType]
      BY <1>7, <1>a, <2>1, RequestTypes DEF ReadHistory
  <2>3. QED
      BY <1>7, <2>2, FaultBound DEF ReadHistory, TypeOK, StateOK, history
<1>8. CASE DeleteCall(r)
  <2>1. q.call \in Call /\ q.rest \in SUBSET Call
      BY <1>0, <1>8, RequestFields DEF DeleteCall, At
  <2>2. request' \in [Request -> RequestType]
      BY <1>8, <1>a, <2>1, RequestTypes DEF DeleteCall
  <2>3. QED
      BY <1>8, <2>1, <2>2, FaultBound DEF DeleteCall, TypeOK, StateOK, history, Write, Status
<1>9. CASE EndNext(r)
  <2>1. q.rest \subseteq Call
      BY <1>0, <1>9, RequestFields DEF EndNext, At
  <2>2. \A c \in q.rest : c \in Call /\ q.rest \ {c} \in SUBSET Call
      BY <2>1
  <2>3. request' \in [Request -> RequestType]
      BY <1>9, <1>a, <2>2, RequestTypes DEF EndNext
  <2>4. QED
      BY <1>9, <2>3, FaultBound DEF EndNext, TypeOK, StateOK, history
<1>10. QED
    BY <1>1, <1>2, <1>3, <1>4, <1>5, <1>6, <1>7, <1>8, <1>9 DEF HandlerStep

(* Losing handlers and timers loses nothing of the types.                  *)
LEMMA LoseType ==
    ASSUME TypeOK, NEW requests, NEW timers, Lose(requests, timers)
    PROVE  /\ request' \in [Request -> RequestType]
           /\ timer' \in [Call -> {"off", "armed", "save"}]
           /\ \A d \in Call : timer[d] = "off" => timer'[d] = "off"
    BY RequestTypes DEF Lose, TypeOK, StateOK, history

LEMMA CrashType ==
    ASSUME TypeOK, Crash
    PROVE  StateOK'
    BY LoseType, CallConstantsOK DEF Crash, TypeOK, StateOK, history

LEMMA TimerType ==
    ASSUME TypeOK, NEW c \in Call, TimerStep(c) \/ Expire(c)
    PROVE  StateOK'
<1>1. CASE ReadTimedOut(c)
    BY <1>1, FaultBound DEF ReadTimedOut, TypeOK, StateOK, history
<1>2. CASE SaveMissed(c)
  <2>1. CASE calls' = [calls EXCEPT ![c] = "missed"] /\ timer' = [timer EXCEPT ![c] = "off"]
             /\ UNCHANGED <<request, faults>>
      BY <1>2, <2>1 DEF SaveMissed, TypeOK, StateOK, history, Write, Status
  <2>2. ASSUME NEW requests, NEW timers,
               Fault("saveCall"), Lose(requests, timers), UNCHANGED calls
        PROVE  StateOK'
      BY <1>2, <2>2, LoseType, FaultBound DEF SaveMissed, TypeOK, StateOK, history
  <2>3. QED
      BY <1>2, <2>1, <2>2 DEF SaveMissed
<1>3. CASE Expire(c)
    BY <1>3 DEF Expire, TypeOK, StateOK, history, Write, Status
<1>4. QED
    BY <1>1, <1>2, <1>3 DEF TimerStep

(* A read can be overtaken only while its handler is still to act on it.   *)
LEMMA OvertakenType ==
    \A c, status, users : Overtaken(c, status, users) \subseteq {r \in Request : request[r].at \in Reading}
    BY DEF Overtaken, Wanted, At, Reading

(* A handler that goes on stays in the history only while it reads.        *)
LEMMA HistoryGoesOn ==
    ASSUME TypeOK, NEW r \in Request, NEW next, GoTo(r, next),
           stale' \subseteq stale \cup {s \in Request : request[s].at \in Reading},
           r \in stale' => next.at \in Reading,
           \A c \in late' : c \in Call /\ timer'[c] = "save"
    PROVE  HistoryOK'
<1>1. request' = [request EXCEPT ![r] = next] /\ request \in [Request -> RequestType]
    BY DEF GoTo, TypeOK
<1>2. stale \subseteq {s \in Request : request[s].at \in Reading}
    BY DEF TypeOK, Reading
<1>3. ASSUME NEW s \in stale' PROVE s \in Request /\ request'[s].at \in Reading
    BY <1>1, <1>2
<1>4. QED
    BY <1>3 DEF HistoryOK

LEMMA HistoryHandler ==
    ASSUME TypeOK, NEW r \in Request, HandlerStep(r)
    PROVE  HistoryOK'
<1> DEFINE q == request[r]
<1>0. /\ q \in RequestType
      /\ timer \in [Call -> {"off", "armed", "save"}]
      /\ late \subseteq {c \in Call : timer[c] = "save"}
      /\ stale \subseteq {s \in Request : request[s].at \in Reading}
    BY DEF TypeOK, Reading
<1>1. CASE ListKeys(r)
    BY <1>0, <1>1, HistoryGoesOn DEF ListKeys, history, Scan, Reading
<1>2. CASE ReadKey(r)
    BY <1>0, <1>2, HistoryGoesOn DEF ReadKey, history, Scan, Reading
<1>3. CASE ListFails(r)
    BY <1>0, <1>3, HistoryGoesOn DEF ListFails, Scan, Reading
<1>4. CASE Scanned(r)
  <2>1. q.why \in {"caller", "callee", "disconnect"} /\ UNCHANGED <<timer, late>>
      BY <1>0, <1>4, RequestFields DEF Scanned, At
  <2>2. CASE q.why # "disconnect" /\ q.found = {}
    <3>0. q.why = "caller" \/ q.why = "callee"
        BY <2>1, <2>2
    <3>a. \/ GoTo(r, List("callee", q.peer, q.user))
          \/ GoTo(r, [at |-> "create", parties |-> {q.user, q.peer}])
        BY <1>4, <2>2, <3>0 DEF Scanned
    <3>1. PICK next : GoTo(r, next) /\ next.at \in Reading
        BY <3>a DEF List, Reading
    <3>2. stale' = stale
        BY <1>4, <2>2 DEF Scanned
    <3>3. QED
        BY <1>0, <2>1, <3>1, <3>2, HistoryGoesOn
  <2>3. CASE ~(q.why # "disconnect" /\ q.found = {})
    <3>1. \E next : GoTo(r, next)
        BY <1>4, <2>1, <2>3 DEF Scanned
    <3>2. stale' = stale \ {r}
        BY <1>4, <2>3 DEF Scanned
    <3>3. QED
        BY <1>0, <2>1, <3>1, <3>2, HistoryGoesOn
  <2>4. QED
      BY <2>2, <2>3
<1>5. CASE Create(r)
  <2>1. GoTo(r, Idle)
      BY <1>5 DEF Create
  <2>2. CASE stale' = stale \ {r} /\ UNCHANGED <<late, timer>>
      BY <1>0, <2>1, <2>2, HistoryGoesOn
  <2>3. ASSUME NEW c \in Unused, Write(r, c, "ringing", request[r].parties),
               timer' = [timer EXCEPT ![c] = "armed"]
        PROVE  HistoryOK'
    <3>1. c \in Call /\ timer[c] = "off" /\ late' = late
        BY <2>3 DEF Unused, TypeOK, Write
    <3>2. \A d \in late' : d \in Call /\ timer'[d] = "save"
        BY <1>0, <2>3, <3>1
    <3>3. stale' \subseteq stale \cup {s \in Request : request[s].at \in Reading} /\ r \notin stale'
        BY <2>3, OvertakenType DEF Write
    <3>4. QED
        BY <2>1, <3>2, <3>3, HistoryGoesOn
  <2>4. QED
      BY <1>5, <2>2, <2>3 DEF Create
<1>6. ASSUME NEW next, GoTo(r, next), NEW c, NEW status, NEW users,
             Write(r, c, status, users), UNCHANGED timer, c \in Call
      PROVE  HistoryOK'
  <2>1. stale' \subseteq stale \cup {s \in Request : request[s].at \in Reading} /\ r \notin stale'
      BY <1>6, OvertakenType DEF Write
  <2>2. \A d \in late' : d \in Call /\ timer'[d] = "save"
      BY <1>0, <1>6 DEF Write
  <2>3. QED
      BY <1>6, <2>1, <2>2, HistoryGoesOn
<1>7. CASE SaveCall(r)
  <2>1. q.call \in Call /\ \E next : GoTo(r, next)
      BY <1>0, <1>7, RequestFields DEF SaveCall, At
  <2>2. CASE Write(r, q.call, q.status, parties[q.call])
      BY <1>6, <1>7, <2>1, <2>2 DEF SaveCall
  <2>3. CASE stale' = stale \ {r} /\ UNCHANGED <<late, timer>>
      BY <1>0, <2>1, <2>3, HistoryGoesOn
  <2>4. QED
      BY <1>7, <2>2, <2>3 DEF SaveCall
<1>8. CASE DeleteCall(r)
  <2>1. q.call \in Call /\ GoTo(r, Ending(q.rest)) /\ r \notin stale
      BY <1>0, <1>8, RequestFields DEF DeleteCall, At, Reading
  <2>2. CASE Write(r, q.call, "absent", {})
      BY <1>6, <1>8, <2>1, <2>2 DEF DeleteCall
  <2>3. CASE UNCHANGED <<stale, late, timer>>
      BY <1>0, <2>1, <2>3, HistoryGoesOn
  <2>4. QED
      BY <1>8, <2>2, <2>3 DEF DeleteCall
<1>9. CASE ReadHistory(r) \/ EndNext(r)
  <2>1. UNCHANGED <<stale, late, timer>> /\ r \notin stale /\ \E next : GoTo(r, next)
      BY <1>0, <1>9 DEF ReadHistory, EndNext, history, At, Reading
  <2>2. QED
      BY <1>0, <2>1, HistoryGoesOn
<1>10. QED
    BY <1>1, <1>2, <1>3, <1>4, <1>5, <1>7, <1>8, <1>9 DEF HandlerStep

LEMMA HistoryClient ==
    ASSUME TypeOK, NEW r \in Request, ClientEvent(r)
    PROVE  HistoryOK'
<1>1. /\ UNCHANGED <<stale, late, timer>> /\ At(r, "idle") /\ \E next : GoTo(r, next)
    BY DEF ClientEvent, Initiate, Answer, Reject, Hangup, Disconnect, history
<1>2. r \notin stale /\ \A c \in late : c \in Call /\ timer[c] = "save"
    BY <1>1 DEF TypeOK, At
<1>3. QED
    BY <1>1, <1>2, HistoryGoesOn

LEMMA HistoryLost ==
    ASSUME TypeOK, NEW requests, NEW timers, Lose(requests, timers)
    PROVE  HistoryOK'
    BY DEF Lose, TypeOK, HistoryOK, Reading

LEMMA HistoryTimer ==
    ASSUME TypeOK, NEW c \in Call, TimerStep(c) \/ Expire(c)
    PROVE  HistoryOK'
<1>1. CASE ReadTimedOut(c)
    BY <1>1 DEF ReadTimedOut, TypeOK, HistoryOK, Reading, history
<1>2. CASE SaveMissed(c)
  <2>1. CASE /\ timer' = [timer EXCEPT ![c] = "off"] /\ UNCHANGED request
             /\ stale' = stale \cup Overtaken(c, "missed", {}) /\ late' = late \ {c}
    <3>1. stale' \subseteq {s \in Request : request'[s].at \in Reading}
        BY <2>1, OvertakenType DEF TypeOK, Reading
    <3>2. late' \subseteq {d \in Call : timer'[d] = "save"}
        BY <2>1 DEF TypeOK
    <3>3. QED
        BY <3>1, <3>2 DEF HistoryOK
  <2>2. QED
      BY <1>2, <2>1, HistoryLost DEF SaveMissed
<1>3. CASE Expire(c)
    BY <1>3 DEF Expire, TypeOK, HistoryOK, Reading, history
<1>4. QED
    BY <1>1, <1>2, <1>3 DEF TimerStep

(* Parties are set once, when the call is generated.                       *)
LEMMA PartiesKept ==
    ASSUME TypeOK, [Next]_vars, NEW c \in Call, parties[c] # {}
    PROVE  parties'[c] = parties[c]
<1>1. ASSUME NEW r \in Request, Create(r) PROVE parties'[c] = parties[c]
    BY <1>1 DEF Create, Unused, TypeOK
<1>2. ASSUME NEW r \in Request, ClientEvent(r) \/ (HandlerStep(r) /\ ~Create(r))
      PROVE  UNCHANGED parties
    BY <1>2 DEF ClientEvent, Initiate, Answer, Reject, Hangup, Disconnect, HandlerStep,
       ListKeys, ReadKey, ListFails, Scanned, SaveCall, ReadHistory, DeleteCall, EndNext
<1>3. ASSUME NEW d \in Call, TimerStep(d) \/ Expire(d) PROVE UNCHANGED parties
    BY <1>3 DEF TimerStep, ReadTimedOut, SaveMissed, Expire
<1>4. CASE Crash \/ UNCHANGED vars
    BY <1>4 DEF Crash, vars
<1>5. QED
    BY <1>1, <1>2, <1>3, <1>4 DEF Next

(* Of the steps that go on with a handler, only the loop over the calls of *)
(* a disconnected user comes to a save.                                    *)
LEMMA OnlyEndNextSaves ==
    ASSUME TypeOK, NEW r \in Request, HandlerStep(r), ~EndNext(r)
    PROVE  \E next : GoTo(r, next) /\ next.at # "save"
<1>0. request[r] \in RequestType
    BY DEF TypeOK
<1>1. CASE Scanned(r)
  <2>1. request[r].why \in {"caller", "callee", "disconnect"}
      BY <1>0, <1>1, RequestFields DEF Scanned, At
  <2>2. request[r].found = {} \/ request[r].found # {}
      OBVIOUS
  <2>3. \/ GoTo(r, Ending(request[r].found)) \/ GoTo(r, Idle)
        \/ GoTo(r, List("callee", request[r].peer, request[r].user))
        \/ GoTo(r, [at |-> "create", parties |-> {request[r].user, request[r].peer}])
      BY <1>1, <2>1, <2>2 DEF Scanned
  <2>4. QED
      BY <2>3 DEF Ending, Idle, List
<1>2. CASE SaveCall(r)
    BY <1>2 DEF SaveCall, Idle
<1>3. CASE ListKeys(r) \/ ReadKey(r) \/ ListFails(r) \/ Create(r)
  <2>1. Idle.at # "save" /\ \A q, keys, found : Scan(q, keys, found).at # "save"
      BY DEF Idle, Scan
  <2>2. QED
      BY <1>3, <2>1 DEF ListKeys, ReadKey, ListFails, Create
<1>4. CASE ReadHistory(r) \/ DeleteCall(r)
    BY <1>4 DEF ReadHistory, DeleteCall, Ending, Idle
<1>5. QED
    BY <1>1, <1>2, <1>3, <1>4 DEF HandlerStep

(* A handler about to write has read the call, so it was generated.        *)
LEMMA WritesGeneratedStep ==
    ASSUME TypeOK, WritesGenerated, [Next]_vars
    PROVE  WritesGenerated'
<1> DEFINE Fine(r) == At(r, "save") => parties[request[r].call] # {}
<1>0. \A r \in Request : request[r] \in RequestType
    BY DEF TypeOK
<1>a. ASSUME NEW r \in Request, UNCHANGED request[r] PROVE Fine(r)'
  <2>1. At(r, "save") => request[r].call \in Call
      BY <1>0, RequestFields DEF At
  <2>2. QED
      BY <1>a, <2>1, PartiesKept DEF At, WritesGenerated
<1>b. ASSUME NEW r \in Request, NEW next, GoTo(r, next)
      PROVE  /\ request'[r] = next
             /\ \A s \in Request \ {r} : UNCHANGED request[s]
    BY <1>b DEF GoTo, TypeOK
<1>c. ASSUME NEW r \in Request, NEW next, GoTo(r, next),
             next.at = "save" => next.call \in Call /\ parties[next.call] # {}
      PROVE  WritesGenerated'
    BY <1>a, <1>b, <1>c, PartiesKept DEF WritesGenerated, At
<1>1. ASSUME NEW r \in Request, ClientEvent(r) PROVE WritesGenerated'
  <2>1. ASSUME NEW c \in Call, NEW status, calls[c] # "absent", GoTo(r, Save(c, status, {}))
        PROVE  WritesGenerated'
    <3>1. Save(c, status, {}).call = c /\ parties[c] # {}
        BY <2>1 DEF Save, TypeOK
    <3>2. QED
        BY <1>c, <2>1, <3>1
  <2>2. ASSUME NEW why, NEW u, NEW v, GoTo(r, List(why, u, v)) PROVE WritesGenerated'
    <3>1. List(why, u, v).at = "list"
        BY DEF List
    <3>2. QED
        BY <1>c, <2>2, <3>1
  <2>3. CASE (\E u, v \in User : Initiate(r, u, v)) \/ \E u \in User : Disconnect(r, u)
      BY <2>2, <2>3 DEF Initiate, Disconnect
  <2>4. CASE \E c \in Call : Reject(r, c) \/ Hangup(r, c) \/ \E u \in User : Answer(r, u, c)
      BY <2>1, <2>4 DEF Reject, Hangup, Answer, MayEnd
  <2>5. QED
      BY <1>1, <2>3, <2>4 DEF ClientEvent
<1>2. ASSUME NEW r \in Request, EndNext(r) PROVE WritesGenerated'
  <2>1. request[r].rest \subseteq Call
      BY <1>0, <1>2, RequestFields DEF EndNext, At
  <2>2. PICK next : GoTo(r, next) /\
            (\/ next.at # "save"
             \/ \E c \in Call : \E rest : calls[c] # "absent" /\ next = Save(c, "ended", rest))
      BY <1>2, <2>1 DEF EndNext, Ending, Idle, MayEnd
  <2>3. next.at = "save" => next.call \in Call /\ parties[next.call] # {}
      BY <2>2 DEF Save, TypeOK
  <2>4. QED
      BY <1>c, <2>2, <2>3
<1>3. ASSUME NEW r \in Request, HandlerStep(r), ~EndNext(r) PROVE WritesGenerated'
  <2>1. PICK next : GoTo(r, next) /\ next.at # "save"
      BY <1>3, OnlyEndNextSaves
  <2>2. QED
      BY <1>c, <2>1
<1>4. ASSUME NEW requests, NEW timers, Lose(requests, timers) PROVE WritesGenerated'
  <2>1. \A r \in Request : request'[r] = Idle \/ UNCHANGED request[r]
      BY <1>4 DEF Lose
  <2>2. QED
      BY <1>a, <2>1 DEF WritesGenerated, At, Idle
<1>5. ASSUME UNCHANGED request PROVE WritesGenerated'
    BY <1>a, <1>5 DEF WritesGenerated
<1>6. ASSUME NEW c \in Call, TimerStep(c) \/ Expire(c) PROVE WritesGenerated'
    BY <1>4, <1>5, <1>6 DEF TimerStep, ReadTimedOut, SaveMissed, Expire
<1>7. CASE Crash \/ UNCHANGED vars
    BY <1>4, <1>5, <1>7 DEF Crash, vars
<1>8. QED
    BY <1>1, <1>2, <1>3, <1>6, <1>7 DEF Next

LEMMA CallTypeStep == TypeInv /\ [Next]_vars => TypeInv'
<1> SUFFICES ASSUME TypeInv, [Next]_vars PROVE TypeInv'
    OBVIOUS
<1>1. TypeOK /\ WritesGenerated /\ WritesGenerated'
    BY WritesGeneratedStep DEF TypeInv
<1>2. ASSUME StateOK', HistoryOK' PROVE TypeInv'
    BY <1>1, <1>2 DEF TypeInv, TypeOK, StateOK, HistoryOK, Reading
<1>3. CASE UNCHANGED vars
    BY <1>1, <1>3 DEF vars, history, TypeInv, TypeOK
<1>4. ASSUME NEW r \in Request, ClientEvent(r) \/ HandlerStep(r) PROVE StateOK' /\ HistoryOK'
    BY <1>1, <1>4, ClientType, HandlerType, HistoryClient, HistoryHandler
<1>5. ASSUME NEW c \in Call, TimerStep(c) \/ Expire(c) PROVE StateOK' /\ HistoryOK'
    BY <1>1, <1>5, TimerType, HistoryTimer
<1>6. ASSUME Crash PROVE StateOK' /\ HistoryOK'
  <2>1. PICK requests, timers : Lose(requests, timers)
      BY <1>6 DEF Crash
  <2>2. QED
      BY <1>1, <1>6, <2>1, CrashType, HistoryLost
<1>7. QED
    BY <1>2, <1>3, <1>4, <1>5, <1>6 DEF Next

LEMMA CallTypeInvariance == Spec => []TypeInv
    BY CallTypeInit, CallTypeStep, PTL DEF Spec

(* Every reachable state is well typed: a key or a timer exists only for a *)
(* call that initiateCall generated, whatever stale copies are written.    *)
THEOREM CallTypeCorrect == Spec => []TypeOK
<1>1. TypeInv => TypeOK
    BY DEF TypeInv
<1>2. QED
    BY <1>1, CallTypeInvariance, PTL

-----------------------------------------------------------------------------
(* Calls become live only where the code says so. *)

(* Which steps change calls, and how.                                      *)
LEMMA CallMoves ==
    ASSUME TypeInv, [Next]_vars, NEW c \in Call, calls'[c] # calls[c]
    PROVE  \/ /\ parties[c] = {} /\ calls'[c] = "ringing"
              /\ \E r \in Request : Create(r) /\ parties'[c] = request[r].parties
           \/ \E r \in Request : /\ SaveCall(r) /\ request[r].call = c
                                 /\ calls'[c] = request[r].status
           \/ calls'[c] = "absent"
           \/ calls'[c] = "missed" /\ timer[c] = "save" /\ timer'[c] = "off"
<1>0. calls \in [Call -> Status] /\ \A r \in Request : request[r] \in RequestType
    BY DEF TypeInv, TypeOK
<1>1. ASSUME NEW r \in Request, Create(r)
      PROVE  /\ parties[c] = {} /\ calls'[c] = "ringing"
             /\ parties'[c] = request[r].parties
    BY <1>0, <1>1 DEF Create, Write, Unused, TypeInv, TypeOK
<1>2. ASSUME NEW r \in Request, SaveCall(r)
      PROVE  request[r].call = c /\ calls'[c] = request[r].status
    BY <1>0, <1>2 DEF SaveCall, Write
<1>3. ASSUME NEW r \in Request, DeleteCall(r) PROVE calls'[c] = "absent"
    BY <1>0, <1>3 DEF DeleteCall, Write
<1>4. ASSUME NEW r \in Request, ClientEvent(r) PROVE FALSE
    BY <1>4 DEF ClientEvent, Initiate, Answer, Reject, Hangup, Disconnect
<1>5. ASSUME NEW r \in Request,
             ListKeys(r) \/ ReadKey(r) \/ ListFails(r) \/ Scanned(r) \/ ReadHistory(r) \/ EndNext(r)
      PROVE  FALSE
    BY <1>5 DEF ListKeys, ReadKey, ListFails, Scanned, ReadHistory, EndNext
<1>6. ASSUME NEW d \in Call, TimerStep(d) \/ Expire(d)
      PROVE  \/ calls'[c] = "absent"
             \/ calls'[c] = "missed" /\ timer[c] = "save" /\ timer'[c] = "off"
    BY <1>0, <1>6 DEF TimerStep, ReadTimedOut, SaveMissed, Expire, TypeInv, TypeOK
<1>7. CASE Crash \/ UNCHANGED vars
    BY <1>7 DEF Crash, vars
<1>8. QED
    BY <1>1, <1>2, <1>3, <1>4, <1>5, <1>6, <1>7 DEF Next, HandlerStep

(* A call rings once: no stale copy written back makes it ring again,      *)
(* under any overlap of handlers, timeouts, Redis failures and crashes.    *)
THEOREM RingsOnce == Spec => NeverRingsAgain
<1> DEFINE Once == \A c \in Call :
                       calls'[c] = "ringing" => calls[c] = "ringing" \/ parties[c] = {}
<1>1. TypeInv /\ [Next]_vars => [Once]_vars
  <2> SUFFICES ASSUME TypeInv, [Next]_vars, NEW c \in Call,
                      calls'[c] = "ringing", calls[c] # "ringing"
               PROVE  parties[c] = {}
      OBVIOUS
  <2>1. \A r \in Request : SaveCall(r) => request[r].status # "ringing"
      BY RequestFields DEF SaveCall, At, TypeInv, TypeOK
  <2>2. QED
      BY <2>1, CallMoves
<1>2. QED
    BY <1>1, CallTypeInvariance, PTL DEF Spec, NeverRingsAgain

-----------------------------------------------------------------------------
(* What overtaken reads do, and that nothing else does it. *)

(* A step writes the key of one call at most.                              *)
LEMMA OneWrite ==
    ASSUME TypeInv, [Next]_vars, NEW c \in Call, NEW d \in Call,
           calls'[c] # calls[c], calls'[d] # calls[d]
    PROVE  c = d
<1>a. \A e, status : calls' = [calls EXCEPT ![e] = status] => c = d
    BY DEF TypeInv, TypeOK
<1>1. ASSUME NEW r \in Request, HandlerStep(r) PROVE c = d
    BY <1>a, <1>1 DEF HandlerStep, ListKeys, ReadKey, ListFails, Scanned, Create, SaveCall,
       ReadHistory, DeleteCall, EndNext, Write
<1>2. ASSUME NEW r \in Request, ClientEvent(r) PROVE FALSE
    BY <1>2 DEF ClientEvent, Initiate, Answer, Reject, Hangup, Disconnect
<1>3. ASSUME NEW e \in Call, TimerStep(e) \/ Expire(e) PROVE c = d
    BY <1>a, <1>3 DEF TimerStep, ReadTimedOut, SaveMissed, Expire
<1>4. CASE Crash \/ UNCHANGED vars
    BY <1>4 DEF Crash, vars
<1>5. QED
    BY <1>1, <1>2, <1>3, <1>4 DEF Next

(* A user becomes busy with a call only when it is created or answered.    *)
LEMMA BecomesBusy ==
    ASSUME TypeInv, [Next]_vars, NEW c \in Call, NEW u, Busy(u, c)', ~Busy(u, c)
    PROVE  /\ calls'[c] # calls[c]
           /\ \E r \in Request :
                 \/ Create(r) /\ u \in request[r].parties
                 \/ /\ SaveCall(r) /\ request[r].call = c /\ request[r].status = "answered"
                    /\ u \in parties[c]
<1>0. /\ parties[c] = {} => calls[c] = "absent"
      /\ \A r \in Request : request[r] \in RequestType
    BY DEF TypeInv, TypeOK
<1>1. calls'[c] # calls[c]
  <2>1. ASSUME calls'[c] = calls[c] PROVE FALSE
    <3>1. parties[c] # {}
        BY <1>0, <2>1 DEF Busy, Live
    <3>2. QED
        BY <2>1, <3>1, PartiesKept DEF Busy, TypeInv
  <2>2. QED
      BY <2>1
<1>2. ASSUME NEW r \in Request, SaveCall(r), request[r].call = c, calls'[c] = request[r].status
      PROVE  request[r].status = "answered" /\ u \in parties[c]
  <2>1. request[r].status = "answered"
      BY <1>0, <1>2, RequestFields DEF SaveCall, At, Busy, Live
  <2>2. UNCHANGED parties
      BY <1>2 DEF SaveCall
  <2>3. QED
      BY <2>1, <2>2 DEF Busy
<1>3. QED
    BY <1>1, <1>2, CallMoves DEF Busy, Live

(* A handler whose slot is not marked by this step reads on unharmed: none *)
(* of the users it looks for got another call, and the key it is about to  *)
(* save was not written.                                                   *)
LEMMA OthersUnharmed ==
    ASSUME TypeInv, [Next]_vars, NEW s \in Request, s \notin stale', request'[s] = request[s]
    PROVE  /\ s \notin stale
           /\ At(s, "save") => calls'[request[s].call] = calls[request[s].call]
           /\ \A u \in Wanted(s), c \in Call : Busy(u, c)' => Busy(u, c)
<1>0. /\ calls \in [Call -> Status] /\ request \in [Request -> RequestType]
      /\ parties \in [Call -> SUBSET User]
      /\ stale \subseteq {r \in Request : request[r].at \in Reading}
      /\ WritesGenerated
      /\ \A c \in Call : parties[c] = {} => calls[c] = "absent"
    BY DEF TypeInv, TypeOK, Reading
<1>w. Wanted(s) # {} => request[s].at \in {"list", "scan", "create"}
    BY DEF Wanted
<1>c. At(s, "save") => request[s].call \in Call
    BY <1>0, RequestFields DEF At
<1>1. ASSUME stale' = stale, UNCHANGED <<calls, parties>>
      PROVE  /\ s \notin stale
             /\ At(s, "save") => calls'[request[s].call] = calls[request[s].call]
             /\ \A u \in Wanted(s), c \in Call : Busy(u, c)' => Busy(u, c)
    BY <1>1 DEF Busy
<1>2. ASSUME NEW r \in Request, s # r, stale' \subseteq stale, stale \ {r} \subseteq stale',
             UNCHANGED <<calls, parties>>
      PROVE  /\ s \notin stale
             /\ At(s, "save") => calls'[request[s].call] = calls[request[s].call]
             /\ \A u \in Wanted(s), c \in Call : Busy(u, c)' => Busy(u, c)
    BY <1>2 DEF Busy
<1>3. ASSUME NEW c \in Call, NEW status, NEW users, s \notin stale,
             s \notin Overtaken(c, status, users),
             calls' = [calls EXCEPT ![c] = status], parties'[c] \subseteq users \/ status \notin Live,
             \A d \in Call \ {c} : parties'[d] = parties[d],
             calls[c] \in Live => parties'[c] = parties[c]
      PROVE  /\ s \notin stale
             /\ At(s, "save") => calls'[request[s].call] = calls[request[s].call]
             /\ \A u \in Wanted(s), d \in Call : Busy(u, d)' => Busy(u, d)
  <2>1. /\ ~(At(s, "save") /\ request[s].call = c)
        /\ ~(status \in Live /\ calls[c] \notin Live /\ Wanted(s) \cap users # {})
      BY <1>3 DEF Overtaken
  <2>2. At(s, "save") => calls'[request[s].call] = calls[request[s].call]
      BY <1>0, <1>3, <1>c, <2>1
  <2>3. ASSUME NEW u \in Wanted(s), NEW d \in Call, Busy(u, d)' PROVE Busy(u, d)
    <3>1. CASE d # c
        BY <1>0, <1>3, <2>3, <3>1 DEF Busy
    <3>2. CASE d = c
      <4>1. status \in Live /\ u \in parties'[c]
          BY <1>0, <1>3, <2>3, <3>2 DEF Busy
      <4>2. u \in users
          BY <1>3, <4>1
      <4>3. calls[c] \in Live
          BY <2>1, <2>3, <4>1, <4>2
      <4>4. QED
          BY <1>3, <3>2, <4>1, <4>3 DEF Busy
    <3>3. QED
        BY <3>1, <3>2
  <2>4. QED
      BY <1>3, <2>2, <2>3
<1>g. ASSUME NEW r \in Request, NEW next, GoTo(r, next), next # request[r] PROVE s # r
  <2>1. request'[r] = next
      BY <1>0, <1>g DEF GoTo
  <2>2. QED
      BY <1>g, <2>1
<1>4. ASSUME NEW r \in Request, NEW c \in Call, NEW status, NEW users,
             Write(r, c, status, users), s # r
      PROVE  s \notin stale /\ s \notin Overtaken(c, status, users)
    BY <1>4 DEF Write
<1>5. ASSUME NEW r \in Request, Create(r)
      PROVE  /\ s \notin stale
             /\ At(s, "save") => calls'[request[s].call] = calls[request[s].call]
             /\ \A u \in Wanted(s), c \in Call : Busy(u, c)' => Busy(u, c)
  <2>1. s # r
      BY <1>5, <1>g DEF Create, At, Idle
  <2>2. CASE stale' = stale \ {r} /\ UNCHANGED <<calls, parties>>
      BY <1>2, <2>1, <2>2
  <2>3. ASSUME NEW c \in Unused, Write(r, c, "ringing", request[r].parties),
               parties' = [parties EXCEPT ![c] = request[r].parties]
        PROVE  /\ s \notin stale
               /\ At(s, "save") => calls'[request[s].call] = calls[request[s].call]
               /\ \A u \in Wanted(s), d \in Call : Busy(u, d)' => Busy(u, d)
    <3>1. c \in Call /\ calls[c] = "absent"
        BY <1>0, <2>3 DEF Unused
    <3>2. s \notin stale /\ s \notin Overtaken(c, "ringing", request[r].parties)
        BY <1>4, <2>1, <2>3, <3>1
    <3>3. /\ calls' = [calls EXCEPT ![c] = "ringing"]
          /\ parties'[c] \subseteq request[r].parties
          /\ \A d \in Call \ {c} : parties'[d] = parties[d]
          /\ calls[c] \notin Live
        BY <1>0, <2>3, <3>1 DEF Write, Live
    <3>4. QED
        BY <1>3, <3>1, <3>2, <3>3
  <2>4. QED
      BY <1>5, <2>2, <2>3 DEF Create
<1>6. ASSUME NEW r \in Request, SaveCall(r)
      PROVE  /\ s \notin stale
             /\ At(s, "save") => calls'[request[s].call] = calls[request[s].call]
             /\ \A u \in Wanted(s), c \in Call : Busy(u, c)' => Busy(u, c)
  <2>1. s # r
    <3>1. PICK next : GoTo(r, next) /\ next.at # "save"
        BY <1>6 DEF SaveCall, Idle
    <3>2. QED
        BY <1>6, <3>1, <1>g DEF SaveCall, At
  <2>2. CASE stale' = stale \ {r} /\ UNCHANGED calls
      BY <1>2, <1>6, <2>1, <2>2 DEF SaveCall
  <2>3. CASE Write(r, request[r].call, request[r].status, parties[request[r].call])
    <3>1. request[r].call \in Call /\ UNCHANGED parties
        BY <1>0, <1>6, RequestFields DEF SaveCall, At
    <3>2. QED
        BY <1>3, <1>4, <2>1, <2>3, <3>1 DEF Write
  <2>4. QED
      BY <1>6, <2>2, <2>3 DEF SaveCall
<1>7. ASSUME NEW r \in Request, DeleteCall(r)
      PROVE  /\ s \notin stale
             /\ At(s, "save") => calls'[request[s].call] = calls[request[s].call]
             /\ \A u \in Wanted(s), c \in Call : Busy(u, c)' => Busy(u, c)
  <2>1. s # r
    <3>1. PICK next : GoTo(r, next) /\ next.at # "delete"
        BY <1>7 DEF DeleteCall, Ending, Idle
    <3>2. QED
        BY <1>7, <3>1, <1>g DEF DeleteCall, At
  <2>2. CASE UNCHANGED <<calls, stale>>
      BY <1>1, <1>7, <2>2 DEF DeleteCall
  <2>3. CASE Write(r, request[r].call, "absent", {})
    <3>1. request[r].call \in Call /\ UNCHANGED parties
        BY <1>0, <1>7, RequestFields DEF DeleteCall, At
    <3>2. QED
        BY <1>3, <1>4, <2>1, <2>3, <3>1 DEF Write, Live
  <2>4. QED
      BY <1>7, <2>2, <2>3 DEF DeleteCall
<1>8. ASSUME NEW r \in Request, ListKeys(r) \/ ReadKey(r) \/ ReadHistory(r) \/ EndNext(r)
      PROVE  UNCHANGED <<stale, calls, parties>>
    BY <1>8 DEF ListKeys, ReadKey, ReadHistory, EndNext, history
<1>9. ASSUME NEW r \in Request, ListFails(r)
      PROVE  /\ s \notin stale
             /\ UNCHANGED <<calls, parties>>
    BY <1>9 DEF ListFails
<1>10. ASSUME NEW r \in Request, Scanned(r)
       PROVE  /\ s \notin stale
              /\ UNCHANGED <<calls, parties>>
  <2>1. UNCHANGED <<calls, parties>> /\ (stale' = stale \/ stale' = stale \ {r})
      BY <1>10 DEF Scanned
  <2>2. CASE request[r].why = "disconnect" \/ request[r].found # {}
    <3>1. PICK next : GoTo(r, next) /\ next.at # "scan"
      <4>1. GoTo(r, Ending(request[r].found)) \/ GoTo(r, Idle)
          BY <1>10, <2>2 DEF Scanned
      <4>2. QED
          BY <4>1 DEF Ending, Idle
    <3>2. s # r
        BY <1>10, <1>g, <3>1 DEF Scanned, At
    <3>3. QED
        BY <2>1, <3>2
  <2>3. CASE ~(request[r].why = "disconnect" \/ request[r].found # {})
      BY <1>10, <2>1, <2>3 DEF Scanned
  <2>4. QED
      BY <2>2, <2>3
<1>11. ASSUME NEW r \in Request, ClientEvent(r) PROVE UNCHANGED <<stale, calls, parties>>
    BY <1>11 DEF ClientEvent, Initiate, Answer, Reject, Hangup, Disconnect, history
<1>12. ASSUME NEW requests \in SUBSET Running, NEW timers, Lose(requests, timers),
              UNCHANGED <<calls, parties>>
       PROVE  s \notin stale /\ UNCHANGED <<calls, parties>>
  <2>1. s \in requests => FALSE
    <3>1. s \in requests => request'[s] = Idle /\ request[s].at # "idle"
        BY <1>12 DEF Lose, Running, At
    <3>2. QED
        BY <3>1 DEF Idle
  <2>2. QED
      BY <1>12, <2>1 DEF Lose
<1>13. ASSUME NEW c \in Call, SaveMissed(c)
       PROVE  /\ s \notin stale
              /\ At(s, "save") => calls'[request[s].call] = calls[request[s].call]
              /\ \A u \in Wanted(s), d \in Call : Busy(u, d)' => Busy(u, d)
  <2>1. CASE calls' = [calls EXCEPT ![c] = "missed"] /\ stale' = stale \cup Overtaken(c, "missed", {})
      BY <1>3, <1>13, <2>1 DEF SaveMissed, Live
  <2>2. CASE UNCHANGED calls /\ \E requests \in SUBSET Running, timers \in SUBSET Scheduled : Lose(requests, timers)
    <3>1. UNCHANGED parties
        BY <1>13 DEF SaveMissed
    <3>2. s \notin stale
        BY <1>12, <2>2, <3>1
    <3>3. QED
        BY <2>2, <3>1, <3>2 DEF Busy
  <2>3. QED
      BY <1>13, <2>1, <2>2 DEF SaveMissed
<1>14. ASSUME NEW c \in Call, Expire(c)
       PROVE  /\ s \notin stale
              /\ At(s, "save") => calls'[request[s].call] = calls[request[s].call]
              /\ \A u \in Wanted(s), d \in Call : Busy(u, d)' => Busy(u, d)
  <2>1. At(s, "idle") /\ s \notin stale
      BY <1>14 DEF Expire, history
  <2>2. ~At(s, "save") /\ Wanted(s) = {}
      BY <2>1 DEF At, Wanted
  <2>3. QED
      BY <2>1, <2>2
<1>15. ASSUME NEW c \in Call, ReadTimedOut(c) PROVE UNCHANGED <<stale, calls, parties>>
    BY <1>15 DEF ReadTimedOut, history
<1>16. ASSUME Crash PROVE s \notin stale /\ UNCHANGED <<calls, parties>>
    BY <1>12, <1>16 DEF Crash
<1>17. ASSUME s \notin stale, UNCHANGED <<calls, parties>>
       PROVE  /\ s \notin stale
              /\ At(s, "save") => calls'[request[s].call] = calls[request[s].call]
              /\ \A u \in Wanted(s), c \in Call : Busy(u, c)' => Busy(u, c)
    BY <1>17 DEF Busy
<1>18. ASSUME UNCHANGED vars PROVE UNCHANGED <<stale, calls, parties>>
    BY <1>18 DEF vars, history
<1>19. ASSUME NEW r \in Request, HandlerStep(r)
       PROVE  /\ s \notin stale
              /\ At(s, "save") => calls'[request[s].call] = calls[request[s].call]
              /\ \A u \in Wanted(s), c \in Call : Busy(u, c)' => Busy(u, c)
    BY <1>1, <1>5, <1>6, <1>7, <1>8, <1>9, <1>10, <1>17, <1>19 DEF HandlerStep
<1>20. ASSUME NEW c \in Call, TimerStep(c) \/ Expire(c)
       PROVE  /\ s \notin stale
              /\ At(s, "save") => calls'[request[s].call] = calls[request[s].call]
              /\ \A u \in Wanted(s), d \in Call : Busy(u, d)' => Busy(u, d)
    BY <1>1, <1>13, <1>14, <1>15, <1>20 DEF TimerStep
<1>21. QED
    BY <1>1, <1>11, <1>16, <1>17, <1>18, <1>19, <1>20 DEF Next

(* What a handler relies on depends only on the calls of the users it      *)
(* looks for and on the key it is about to save.                           *)
LEMMA StillTrueKept ==
    ASSUME TypeInv, NEW s \in Request, StillTrue(request[s]), request'[s] = request[s],
           At(s, "save") => calls'[request[s].call] = calls[request[s].call],
           \A u \in Wanted(s), c \in Call : Busy(u, c)' => Busy(u, c)
    PROVE  StillTrue(request[s])'
<1> DEFINE q == request[s]
<1>1. /\ q.at \in {"list", "scan"} => q.user \in Wanted(s) /\ q.peer \in Wanted(s)
      /\ q.at = "create" => \A u \in q.parties : u \in Wanted(s)
    BY DEF Wanted
<1>2. q.at \in {"list", "scan"} /\ q.why = "callee" => Free(q.peer)'
    BY <1>1 DEF StillTrue, Free
<1>3. q.at = "scan" /\ q.why # "disconnect" =>
          \A c \in Call : Busy(q.user, c)' => c \in q.keys \cup q.found
    BY <1>1 DEF StillTrue
<1>4. q.at = "create" => \A u \in q.parties : Free(u)'
    BY <1>1 DEF StillTrue, Free
<1>5. q.at = "save" => <<calls'[q.call], q.status>> \in Moves
    BY DEF StillTrue, At
<1>6. \A u, c : request'[s] = q /\ (Busy(u, c)' <=> calls'[c] \in Live /\ u \in parties'[c])
    BY DEF Busy
<1>7. QED
    BY <1>2, <1>3, <1>4, <1>5, <1>6 DEF StillTrue, Free

(* The slot of a step holds what its handler has just found to be true.    *)
LEMMA ActorReads ==
    ASSUME TypeInv, ReadsStillTrue, NEW r \in Request, r \notin stale',
           ClientEvent(r) \/ HandlerStep(r)
    PROVE  StillTrue(request[r])'
<1>0. request \in [Request -> RequestType] /\ calls \in [Call -> Status]
    BY DEF TypeInv, TypeOK
<1>a. ASSUME NEW next, GoTo(r, next), next.at \notin Reading
      PROVE  StillTrue(request[r])'
  <2>1. request'[r] = next
      BY <1>0, <1>a DEF GoTo
  <2>2. QED
      BY <1>a, <2>1 DEF StillTrue, Reading
<1>b. ASSUME NEW next, GoTo(r, next), UNCHANGED <<calls, parties>>, StillTrue(next)
      PROVE  StillTrue(request[r])'
  <2>1. request'[r] = next
      BY <1>0, <1>b DEF GoTo
  <2>2. QED
      BY <1>b, <2>1 DEF StillTrue, Free, Busy
<1>c. ASSUME NEW c \in Call, NEW status, NEW rest, <<calls[c], status>> \in Moves
      PROVE  StillTrue(Save(c, status, rest))
    BY <1>c DEF StillTrue, Save
<1>d. ASSUME NEW c \in Call, MayEnd(c) PROVE <<calls[c], "ended">> \in Moves
    BY <1>0, <1>d DEF MayEnd, Status, Moves
<1>1. CASE ClientEvent(r)
  <2>1. CASE \E u, v \in User : Initiate(r, u, v)
    <3>1. \A u, v : StillTrue(List("caller", u, v))
        BY DEF StillTrue, List
    <3>2. QED
        BY <2>1, <3>1, <1>b DEF Initiate
  <2>2. CASE \E u \in User : Disconnect(r, u)
    <3>1. \A u, v : StillTrue(List("disconnect", u, v))
        BY DEF StillTrue, List
    <3>2. QED
        BY <2>2, <3>1, <1>b DEF Disconnect
  <2>3. ASSUME NEW c \in Call, NEW u \in User, Answer(r, u, c) PROVE StillTrue(request[r])'
    <3>1. <<calls[c], "answered">> \in Moves
        BY <2>3 DEF Answer, Moves
    <3>2. QED
        BY <2>3, <3>1, <1>b, <1>c DEF Answer
  <2>4. ASSUME NEW c \in Call, Reject(r, c) PROVE StillTrue(request[r])'
    <3>1. <<calls[c], "rejected">> \in Moves
        BY <2>4 DEF Reject, Moves
    <3>2. QED
        BY <2>4, <3>1, <1>b, <1>c DEF Reject
  <2>5. ASSUME NEW c \in Call, Hangup(r, c) PROVE StillTrue(request[r])'
      BY <2>5, <1>b, <1>c, <1>d DEF Hangup
  <2>6. QED
      BY <1>1, <2>1, <2>2, <2>3, <2>4, <2>5 DEF ClientEvent
<1>2. CASE ListKeys(r)
  <2> DEFINE next == Scan(request[r], {c \in Call : calls[c] # "absent"}, {})
  <2>1. \A u : \A c \in Call : Busy(u, c) => calls[c] # "absent"
      BY DEF Busy, Live
  <2>2. StillTrue(request[r]) /\ request[r].at = "list"
      BY <1>2 DEF ReadsStillTrue, ListKeys, At, history
  <2>3. StillTrue(next)
      BY <2>1, <2>2 DEF StillTrue, Scan
  <2>4. QED
      BY <1>2, <2>3, <1>b DEF ListKeys
<1>3. CASE ReadKey(r)
  <2> DEFINE q == request[r]
  <2>1. StillTrue(q) /\ q.at = "scan"
      BY <1>3 DEF ReadsStillTrue, ReadKey, At, history
  <2>2. PICK c \in q.keys :
            GoTo(r, Scan(q, q.keys \ {c}, q.found \cup {d \in {c} : Active(d, q.user)}))
      BY <1>3 DEF ReadKey
  <2>3. Busy(q.user, c) => Active(c, q.user)
      BY DEF Busy, Active, Live, Finished
  <2>4. StillTrue(Scan(q, q.keys \ {c}, q.found \cup {d \in {c} : Active(d, q.user)}))
      BY <2>1, <2>3 DEF StillTrue, Scan
  <2>5. QED
      BY <1>3, <2>2, <2>4, <1>b DEF ReadKey
<1>4. CASE Scanned(r)
  <2> DEFINE q == request[r]
  <2>1. q.at = "scan" /\ q.keys = {}
      BY <1>4 DEF Scanned, At
  <2>2. q.why \in {"caller", "callee", "disconnect"}
      BY <1>0, <2>1, RequestFields
  <2>3. CASE q.why = "disconnect" \/ q.found # {}
    <3>1. GoTo(r, Ending(q.found)) \/ GoTo(r, Idle)
        BY <1>4, <2>2, <2>3 DEF Scanned
    <3>2. QED
        BY <3>1, <1>a DEF Ending, Idle, Reading
  <2>4. ASSUME q.why # "disconnect", q.found = {} PROVE StillTrue(q) /\ UNCHANGED <<calls, parties>>
      BY <1>4, <2>4 DEF Scanned, ReadsStillTrue
  <2>5. CASE q.why = "caller" /\ q.found = {}
    <3>1. Free(q.user)
        BY <2>1, <2>4, <2>5 DEF StillTrue, Free
    <3>2. StillTrue(List("callee", q.peer, q.user))
        BY <3>1 DEF StillTrue, List
    <3>3. GoTo(r, List("callee", q.peer, q.user))
        BY <1>4, <2>5 DEF Scanned
    <3>4. QED
        BY <2>4, <2>5, <3>2, <3>3, <1>b
  <2>6. CASE q.why = "callee" /\ q.found = {}
    <3>1. Free(q.user) /\ Free(q.peer)
        BY <2>1, <2>4, <2>6 DEF StillTrue, Free
    <3>2. StillTrue([at |-> "create", parties |-> {q.user, q.peer}])
        BY <3>1 DEF StillTrue
    <3>3. GoTo(r, [at |-> "create", parties |-> {q.user, q.peer}])
        BY <1>4, <2>6 DEF Scanned
    <3>4. QED
        BY <2>4, <2>6, <3>2, <3>3, <1>b
  <2>7. QED
      BY <2>2, <2>3, <2>5, <2>6
<1>5. CASE Create(r) \/ SaveCall(r)
    BY <1>5, <1>a DEF Create, SaveCall, Idle, Reading
<1>6. CASE ReadHistory(r) \/ DeleteCall(r)
    BY <1>6, <1>a DEF ReadHistory, DeleteCall, Ending, Idle, Reading
<1>7. CASE EndNext(r)
  <2>1. request[r].rest \subseteq Call /\ UNCHANGED <<calls, parties>>
      BY <1>0, <1>7, RequestFields DEF EndNext, At
  <2>2. PICK c \in Call, rest \in SUBSET Call :
            (MayEnd(c) /\ GoTo(r, Save(c, "ended", rest))) \/ GoTo(r, Ending(rest))
      BY <1>7, <2>1 DEF EndNext
  <2>3. CASE GoTo(r, Ending(rest))
      BY <1>a, <2>3 DEF Ending, Idle, Reading
  <2>4. CASE MayEnd(c) /\ GoTo(r, Save(c, "ended", rest))
      BY <1>b, <1>c, <1>d, <2>1, <2>4
  <2>5. QED
      BY <2>2, <2>3, <2>4
<1>8. CASE ListFails(r)
    BY <1>8 DEF ListFails
<1>9. QED
    BY <1>1, <1>2, <1>3, <1>4, <1>5, <1>6, <1>7, <1>8 DEF HandlerStep

(* A timeout that is not marked by this step saves over a ringing call.    *)
LEMMA TimersUnharmed ==
    ASSUME TypeInv, ReadsStillTrue, [Next]_vars, NEW c \in Call, c \notin late', timer'[c] = "save"
    PROVE  calls'[c] = "ringing"
<1>0. /\ calls \in [Call -> Status] /\ timer \in [Call -> {"off", "armed", "save"}]
      /\ \A d \in Call : parties[d] = {} => timer[d] = "off"
    BY DEF TypeInv, TypeOK
<1>a. ASSUME timer[c] = "save", c \notin late, calls'[c] = calls[c] PROVE calls'[c] = "ringing"
    BY <1>a DEF ReadsStillTrue
<1>1. ASSUME NEW r \in Request, NEW d \in Call, NEW status, NEW users,
             Write(r, d, status, users), timer[c] = "save"
      PROVE  c \notin late /\ calls'[c] = calls[c]
    BY <1>0, <1>1 DEF Write
<1>2. ASSUME NEW r \in Request, Create(r) PROVE calls'[c] = "ringing"
  <2>1. CASE UNCHANGED <<calls, timer, late>>
      BY <1>a, <2>1
  <2>2. ASSUME NEW d \in Unused, Write(r, d, "ringing", request[r].parties),
               timer' = [timer EXCEPT ![d] = "armed"]
        PROVE  calls'[c] = "ringing"
      BY <1>0, <1>1, <1>a, <2>2 DEF Unused
  <2>3. QED
      BY <1>2, <2>1, <2>2 DEF Create
<1>3. ASSUME NEW r \in Request, SaveCall(r) \/ DeleteCall(r) PROVE calls'[c] = "ringing"
  <2>1. request[r].call \in Call
      BY <1>3, RequestFields DEF SaveCall, DeleteCall, At, TypeInv, TypeOK
  <2>2. UNCHANGED timer
      BY <1>3 DEF SaveCall, DeleteCall
  <2>3. QED
      BY <1>1, <1>3, <1>a, <2>1, <2>2 DEF SaveCall, DeleteCall
<1>4. ASSUME NEW r \in Request,
             ListKeys(r) \/ ReadKey(r) \/ ListFails(r) \/ Scanned(r) \/ ReadHistory(r) \/ EndNext(r)
      PROVE  calls'[c] = "ringing"
  <2>1. UNCHANGED <<calls, timer, late>>
      BY <1>4 DEF ListKeys, ReadKey, ListFails, Scanned, ReadHistory, EndNext, history
  <2>2. QED
      BY <1>a, <2>1
<1>5. ASSUME NEW r \in Request, ClientEvent(r) PROVE calls'[c] = "ringing"
  <2>1. UNCHANGED <<calls, timer, late>>
      BY <1>5 DEF ClientEvent, Initiate, Answer, Reject, Hangup, Disconnect, history
  <2>2. QED
      BY <1>a, <2>1
<1>6. ASSUME NEW requests, NEW timers, Lose(requests, timers), UNCHANGED calls
      PROVE  calls'[c] = "ringing"
  <2>1. timer[c] = "save" /\ c \notin late
      BY <1>0, <1>6 DEF Lose
  <2>2. QED
      BY <1>6, <1>a, <2>1
<1>7. ASSUME NEW d \in Call, ReadTimedOut(d) PROVE calls'[c] = "ringing"
  <2>1. UNCHANGED <<calls, late>>
      BY <1>7 DEF ReadTimedOut, history
  <2>2. timer[c] = "save" \/ calls[c] = "ringing"
      BY <1>0, <1>7 DEF ReadTimedOut
  <2>3. QED
      BY <1>a, <2>1, <2>2
<1>8. ASSUME NEW d \in Call, SaveMissed(d) PROVE calls'[c] = "ringing"
  <2>1. CASE /\ calls' = [calls EXCEPT ![d] = "missed"] /\ timer' = [timer EXCEPT ![d] = "off"]
             /\ late' = late \ {d}
      BY <1>0, <1>a, <2>1
  <2>2. QED
      BY <1>6, <1>8, <2>1 DEF SaveMissed
<1>9. ASSUME NEW d \in Call, Expire(d) PROVE calls'[c] = "ringing"
  <2>1. c # d /\ UNCHANGED <<timer, late>> /\ calls' = [calls EXCEPT ![d] = "absent"]
      BY <1>0, <1>9 DEF Expire, history
  <2>2. QED
      BY <1>0, <1>a, <2>1
<1>10. CASE UNCHANGED vars
  <2>1. UNCHANGED <<calls, timer, late>>
      BY <1>10 DEF vars, history
  <2>2. QED
      BY <1>a, <2>1
<1>11. CASE Crash
    BY <1>6, <1>11 DEF Crash
<1>12. QED
    BY <1>2, <1>3, <1>4, <1>5, <1>7, <1>8, <1>9, <1>10, <1>11 DEF Next, HandlerStep, TimerStep

(* Every step leaves a slot alone, frees it, or is a step of its handler.  *)
LEMMA WhoMoves ==
    ASSUME TypeInv, [Next]_vars, NEW s \in Request
    PROVE  \/ request'[s] = request[s]
           \/ request'[s] = Idle
           \/ ClientEvent(s) \/ HandlerStep(s)
<1>0. request \in [Request -> RequestType]
    BY DEF TypeInv, TypeOK
<1>1. ASSUME NEW r \in Request, r # s, NEW next, GoTo(r, next) PROVE request'[s] = request[s]
    BY <1>0, <1>1 DEF GoTo
<1>2. ASSUME NEW r \in Request, ClientEvent(r) PROVE \E next : GoTo(r, next)
    BY <1>2 DEF ClientEvent, Initiate, Answer, Reject, Hangup, Disconnect
<1>3. ASSUME NEW r \in Request, HandlerStep(r) PROVE \E next : GoTo(r, next)
  <2>1. CASE Scanned(r)
    <3>1. request[r].why \in {"caller", "callee", "disconnect"}
        BY <1>0, <2>1, RequestFields DEF Scanned, At
    <3>2. QED
        BY <2>1, <3>1 DEF Scanned
  <2>2. QED
      BY <1>3, <2>1 DEF HandlerStep, ListKeys, ReadKey, ListFails, Create, SaveCall,
         ReadHistory, DeleteCall, EndNext
<1>4. ASSUME NEW requests, NEW timers, Lose(requests, timers)
      PROVE  request'[s] = request[s] \/ request'[s] = Idle
    BY <1>4 DEF Lose
<1>5. ASSUME NEW c \in Call, TimerStep(c) \/ Expire(c)
      PROVE  request'[s] = request[s] \/ request'[s] = Idle
    BY <1>4, <1>5 DEF TimerStep, ReadTimedOut, SaveMissed, Expire
<1>6. CASE Crash \/ UNCHANGED vars
    BY <1>4, <1>6 DEF Crash, vars
<1>7. QED
    BY <1>1, <1>2, <1>3, <1>5, <1>6 DEF Next

LEMMA ReadsStep ==
    ASSUME TypeInv, ReadsStillTrue, [Next]_vars
    PROVE  ReadsStillTrue'
<1>1. ASSUME NEW s \in Request, s \notin stale' PROVE StillTrue(request[s])'
  <2>1. CASE request'[s] = request[s]
    <3>1. /\ StillTrue(request[s])
          /\ At(s, "save") => calls'[request[s].call] = calls[request[s].call]
          /\ \A u \in Wanted(s), c \in Call : Busy(u, c)' => Busy(u, c)
        BY <1>1, <2>1, OthersUnharmed DEF ReadsStillTrue
    <3>2. QED
        BY <2>1, <3>1, StillTrueKept
  <2>2. CASE request'[s] = Idle
      BY <2>2 DEF StillTrue, Idle
  <2>3. CASE ClientEvent(s) \/ HandlerStep(s)
      BY <1>1, <2>3, ActorReads
  <2>4. QED
      BY <2>1, <2>2, <2>3, WhoMoves
<1>2. QED
    BY <1>1, TimersUnharmed DEF ReadsStillTrue

(* A call becomes doubtful for good.                                       *)
LEMMA DoubtStays ==
    ASSUME TypeInv, [Next]_vars
    PROVE  doubtful \subseteq doubtful'
<1>1. ASSUME NEW r \in Request, ClientEvent(r) PROVE doubtful' = doubtful
    BY <1>1 DEF ClientEvent, Initiate, Answer, Reject, Hangup, Disconnect, history
<1>2. ASSUME NEW r \in Request, Create(r) PROVE doubtful \subseteq doubtful'
    BY <1>2 DEF Create
<1>3. ASSUME NEW r \in Request, SaveCall(r) PROVE doubtful \subseteq doubtful'
    BY <1>3 DEF SaveCall
<1>4. ASSUME NEW r \in Request, HandlerStep(r), ~Create(r), ~SaveCall(r) PROVE doubtful' = doubtful
    BY <1>4 DEF HandlerStep, ListKeys, ReadKey, ListFails, Scanned, ReadHistory, DeleteCall,
       EndNext, history
<1>5. ASSUME NEW c \in Call, TimerStep(c) \/ Expire(c) PROVE doubtful' = doubtful
    BY <1>5 DEF TimerStep, ReadTimedOut, SaveMissed, Expire, history
<1>6. CASE Crash \/ UNCHANGED vars
    BY <1>6 DEF Crash, vars, history
<1>7. QED
    BY <1>1, <1>2, <1>3, <1>4, <1>5, <1>6 DEF Next

LEMMA OneCallStep ==
    ASSUME TypeInv, ReadsStillTrue, OneCallUnlessOvertaken, [Next]_vars
    PROVE  OneCallUnlessOvertaken'
<1>0. /\ calls \in [Call -> Status] /\ parties \in [Call -> SUBSET User]
      /\ request \in [Request -> RequestType]
    BY DEF TypeInv, TypeOK
<1>1. ASSUME NEW u, NEW c \in Call, NEW d \in Call, c # d,
             Busy(u, c)', ~Busy(u, c), Busy(u, d)'
      PROVE  c \in doubtful'
  <2>1. calls'[c] # calls[c]
      BY <1>1, BecomesBusy
  <2>2. ASSUME NEW r \in Request, Create(r), u \in request[r].parties, r \notin stale
        PROVE  FALSE
    <3>1. Free(u)
        BY <2>2 DEF ReadsStillTrue, StillTrue, Create, At
    <3>2. ~Busy(u, d)
        BY <3>1 DEF Free
    <3>3. calls'[d] # calls[d]
        BY <1>1, <3>2, BecomesBusy
    <3>4. QED
        BY <1>1, <2>1, <3>3, OneWrite
  <2>3. ASSUME NEW r \in Request, Create(r), r \in stale PROVE c \in doubtful'
    <3>1. PICK e \in Unused : Write(r, e, "ringing", request[r].parties) /\ doubtful' = doubtful \cup {e}
        BY <2>1, <2>3 DEF Create
    <3>2. e = c
        BY <1>0, <2>1, <3>1 DEF Write, Unused
    <3>3. QED
        BY <3>1, <3>2
  <2>4. ASSUME NEW r \in Request, SaveCall(r), request[r].call = c, request[r].status = "answered",
               u \in parties[c]
        PROVE  c \in doubtful'
    <3>1. calls[c] \notin Live
        BY <1>1, <2>4 DEF Busy
    <3>2. QED
        BY <2>1, <2>4, <3>1 DEF SaveCall
  <2>5. QED
      BY <1>1, <2>2, <2>3, <2>4, BecomesBusy
<1>2. ASSUME NEW u, NEW c \in Call, NEW d \in Call, c # d, Busy(u, c), Busy(u, d)
      PROVE  c \in doubtful \/ d \in doubtful
    BY <1>2 DEF OneCallUnlessOvertaken, Busy
<1>3. ASSUME NEW c \in Call, NEW d \in Call, c # d, {calls'[c], calls'[d]} \subseteq Live,
             parties'[c] \cap parties'[d] # {}
      PROVE  c \in doubtful' \/ d \in doubtful'
  <2>1. PICK u : u \in parties'[c] /\ u \in parties'[d]
      BY <1>3
  <2>2. Busy(u, c)' /\ Busy(u, d)'
      BY <1>3, <2>1 DEF Busy
  <2>3. QED
      BY <1>1, <1>2, <1>3, <2>2, DoubtStays
<1>4. QED
    BY <1>3 DEF OneCallUnlessOvertaken

CallInv == TypeInv /\ ReadsStillTrue /\ OneCallUnlessOvertaken

LEMMA CallInvariance == Spec => []CallInv
<1>1. Init => CallInv
  <2> SUFFICES ASSUME Init PROVE CallInv
      OBVIOUS
  <2>1. OneCallUnlessOvertaken
      BY DEF Init, OneCallUnlessOvertaken, Live
  <2>2. ReadsStillTrue
      BY DEF Init, ReadsStillTrue, StillTrue, Idle
  <2>3. QED
      BY <2>1, <2>2, CallTypeInit DEF CallInv
<1>2. CallInv /\ [Next]_vars => CallInv'
    BY CallTypeStep, ReadsStep, OneCallStep DEF CallInv
<1>3. QED
    BY <1>1, <1>2, PTL DEF Spec

(* A user takes part in two live calls only where a read was overtaken:    *)
(* for any number of users, calls and handlers at once, with timeouts,     *)
(* crashes and every failure of Redis in between, the check of initiateCall*)
(* is undone by nothing else.                                              *)
THEOREM OneCallPerUser == Spec => []OneCallUnlessOvertaken
<1>1. CallInv => OneCallUnlessOvertaken
    BY DEF CallInv
<1>2. QED
    BY <1>1, CallInvariance, PTL

(* A call goes through its states in order, for any number of handlers at  *)
(* once, crashes and failures of Redis, except where a handler or the      *)
(* timeout saves a copy of the call over a key written since it was read.  *)
THEOREM OrderedStates == Spec => OrderUnlessOvertaken
<1> DEFINE Ordered == \A c \in Call :
          calls'[c] # calls[c] => <<calls[c], calls'[c]>> \in Moves \/ LateSave(c)
<1>1. CallInv /\ [Next]_vars => [Ordered]_vars
  <2> SUFFICES ASSUME CallInv, [Next]_vars, NEW c \in Call, calls'[c] # calls[c]
               PROVE  <<calls[c], calls'[c]>> \in Moves \/ LateSave(c)
      OBVIOUS
  <2>0. /\ TypeInv /\ ReadsStillTrue
        /\ calls[c] \in Status /\ (parties[c] = {} => calls[c] = "absent")
        /\ request \in [Request -> RequestType]
      BY DEF CallInv, TypeInv, TypeOK
  <2>1. CASE parties[c] = {} /\ calls'[c] = "ringing"
      BY <2>0, <2>1 DEF Moves
  <2>2. ASSUME NEW r \in Request, SaveCall(r), request[r].call = c,
               calls'[c] = request[r].status
        PROVE  <<calls[c], calls'[c]>> \in Moves \/ LateSave(c)
    <3>1. CASE r \notin stale
        BY <2>0, <2>2, <3>1 DEF SaveCall, ReadsStillTrue, StillTrue, At
    <3>2. CASE r \in stale
      <4>1. PICK next : GoTo(r, next) /\ next.at # "save"
          BY <2>2 DEF SaveCall, Idle
      <4>2. request'[r] = next
          BY <2>0, <4>1 DEF GoTo
      <4>3. At(r, "save") /\ request'[r] # request[r]
          BY <2>2, <4>1, <4>2 DEF SaveCall, At
      <4>4. QED
          BY <2>2, <3>2, <4>3 DEF LateSave
    <3>3. QED
        BY <3>1, <3>2
  <2>3. CASE calls'[c] = "missed" /\ timer[c] = "save" /\ timer'[c] = "off"
    <3>1. CASE c \in late
        BY <2>3, <3>1 DEF LateSave
    <3>2. CASE c \notin late
      <4>1. calls[c] = "ringing"
          BY <2>0, <2>3, <3>2 DEF ReadsStillTrue
      <4>2. QED
          BY <2>3, <4>1 DEF Moves
    <3>3. QED
        BY <3>1, <3>2
  <2>4. CASE calls'[c] = "absent"
      BY <2>0, <2>4 DEF Moves
  <2>5. QED
      BY <2>0, <2>1, <2>2, <2>3, <2>4, CallMoves
<1>2. QED
    BY <1>1, CallInvariance, PTL DEF Spec, OrderUnlessOvertaken

-----------------------------------------------------------------------------
(* The timeout of a ringing call. *)

(* A timeout goes away when it fires at a call that does not ring, when it *)
(* saves "missed", with its process, or because its command failed.        *)
LEMMA TimerLeaves ==
    ASSUME TypeInv, [Next]_vars, NEW c \in Call, timer'[c] = "off", timer[c] # "off"
    PROVE  calls'[c] # "ringing" \/ faults' > 0
<1>0. /\ calls \in [Call -> Status] /\ timer \in [Call -> {"off", "armed", "save"}]
      /\ faults \in Nat
    BY CallConstantsOK DEF TypeInv, TypeOK
<1>1. ASSUME NEW m, Fault(m) PROVE faults' > 0
    BY <1>0, <1>1 DEF Fault
<1>2. ASSUME NEW r \in Request, ClientEvent(r) PROVE FALSE
    BY <1>2 DEF ClientEvent, Initiate, Answer, Reject, Hangup, Disconnect
<1>3. ASSUME NEW r \in Request, Create(r) PROVE FALSE
    BY <1>0, <1>3 DEF Create
<1>4. ASSUME NEW r \in Request, HandlerStep(r), ~Create(r) PROVE FALSE
    BY <1>4 DEF HandlerStep, ListKeys, ReadKey, ListFails, Scanned,
                SaveCall, ReadHistory, DeleteCall, EndNext
<1>5. ASSUME NEW d \in Call, ReadTimedOut(d) PROVE calls'[c] # "ringing" \/ faults' > 0
    BY <1>0, <1>1, <1>5 DEF ReadTimedOut
<1>6. ASSUME NEW d \in Call, SaveMissed(d) PROVE calls'[c] # "ringing" \/ faults' > 0
    BY <1>0, <1>1, <1>6 DEF SaveMissed, Write
<1>7. ASSUME NEW d \in Call, Expire(d) PROVE FALSE
    BY <1>7 DEF Expire
<1>8. CASE Crash
    BY <1>0, <1>8 DEF Crash
<1>9. CASE UNCHANGED vars
    BY <1>9 DEF vars
<1>10. QED
    BY <1>2, <1>3, <1>4, <1>5, <1>6, <1>7, <1>8, <1>9 DEF Next, TimerStep

(* Faults are only counted up. *)
LEMMA CountersGrow ==
    ASSUME TypeInv, [Next]_vars
    PROVE  faults' >= faults
<1>0. faults \in Nat
    BY CallConstantsOK DEF TypeInv, TypeOK
<1>1. ASSUME NEW m, Fault(m) PROVE faults' >= faults
    BY <1>0, <1>1 DEF Fault
<1>2. ASSUME NEW r \in Request, ClientEvent(r) PROVE UNCHANGED faults
    BY <1>2 DEF ClientEvent, Initiate, Answer, Reject, Hangup, Disconnect
<1>3. ASSUME NEW r \in Request, HandlerStep(r)
      PROVE  UNCHANGED faults \/ \E m : Fault(m)
    BY <1>3 DEF HandlerStep, ListKeys, ReadKey, ListFails, Scanned, Create,
                SaveCall, ReadHistory, DeleteCall, EndNext
<1>4. ASSUME NEW c \in Call, TimerStep(c) \/ Expire(c)
      PROVE  UNCHANGED faults \/ \E m : Fault(m)
    BY <1>4 DEF TimerStep, ReadTimedOut, SaveMissed, Expire
<1>5. CASE Crash \/ UNCHANGED vars
    BY <1>0, <1>5 DEF Crash, vars
<1>6. QED
    BY <1>0, <1>1, <1>2, <1>3, <1>4, <1>5 DEF Next

LEMMA RingingIsTimedStep == TypeInv /\ RingingIsTimed /\ [Next]_vars => RingingIsTimed'
<1> SUFFICES ASSUME TypeInv, RingingIsTimed, [Next]_vars,
                    NEW c \in Call, calls'[c] = "ringing", timer'[c] = "off",
                    ~(faults' > 0)
             PROVE  FALSE
    BY DEF RingingIsTimed
<1>0. /\ calls \in [Call -> Status] /\ timer \in [Call -> {"off", "armed", "save"}]
      /\ faults \in Nat
    BY CallConstantsOK DEF TypeInv, TypeOK
<1>1. TypeInv'
    BY CallTypeStep
<1>2. faults' \in Nat
    BY <1>1, CallConstantsOK DEF TypeInv, TypeOK
<1>3. ~(faults > 0)
    BY <1>0, <1>2, CountersGrow
<1>4. CASE calls[c] = "ringing"
    BY <1>3, <1>4, TimerLeaves DEF RingingIsTimed
<1>5. CASE calls[c] # "ringing"
  <2>1. PICK r \in Request : \/ Create(r)
                             \/ SaveCall(r) /\ calls'[c] = request[r].status
    BY <1>5, CallMoves
  <2>2. CASE SaveCall(r) /\ calls'[c] = request[r].status
    BY <2>2, RequestFields DEF SaveCall, At, TypeInv, TypeOK
  <2>3. CASE Create(r)
    BY <1>0, <1>5, <2>3 DEF Create, Write
  <2>4. QED
    BY <2>1, <2>2, <2>3
<1>6. QED
    BY <1>4, <1>5

(* A ringing call never loses its timeout, however handlers overlap, but   *)
(* to a death or a failing command: what EveryCallStopsRinging rests on,   *)
(* for any number of calls and handlers.                                   *)
THEOREM RingingTimed == Spec => []RingingIsTimed
<1>1. Init => RingingIsTimed
    BY DEF Init, RingingIsTimed
<1>2. QED
    BY <1>1, RingingIsTimedStep, CallTypeInvariance, PTL DEF Spec
=============================================================================
