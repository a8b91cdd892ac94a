----------------------------- MODULE CallLifecycle -----------------------------
(***************************************************************************)
(* One-to-one calls in the /webrtc namespace of socket-service.  The state *)
(* of a call is one Redis key.  Every handler reads it, decides, and       *)
(* writes it back in a later command; between the two, other handlers and  *)
(* the call's ringing timer run.  A step of the model ends with at most    *)
(* one Redis command.  Requests and timers of several instances interleave *)
(* in the same way as those of one, so instances are not distinguished.    *)
(***************************************************************************)
EXTENDS Naturals, FiniteSets

CONSTANTS
    User,
    Call,           \* the identifiers randomUUID may return
    Request,        \* slots for socket events being handled at one time
    RedisFaults,    \* the CallStore methods whose Redis commands may fail
    MaxFaults,      \* bound: failing Redis commands and crashes of an instance
    MaxEvents       \* bound: events that clients send

ASSUME CallConstantsOK ==
    /\ RedisFaults \subseteq {"getActiveCalls", "getCall", "saveCall", "deleteCall"}
    /\ MaxFaults \in Nat
    /\ MaxEvents \in Nat

VARIABLES
    calls,      \* calls[c]: the status under key call:c, "absent" without a key
    parties,    \* parties[c]: caller and callee, {} until c is generated
    timer,      \* timer[c]: the ringing timeout: "off", "armed", "save"
    request,    \* request[r]: where the handler in slot r stands
    answered,   \* calls whose callee was told "Call answered"
    stale,      \* history: slots of handlers whose reads were overtaken
    late,       \* history: calls whose timeout's read was overtaken
    doubtful,   \* history: calls made live upon a read that was overtaken
    faults, events      \* counters for the bounds

history == <<stale, late, doubtful>>
vars == <<calls, parties, timer, request, answered, history, faults, events>>

Finished == {"ended", "rejected"}
Live == {"ringing", "answered"}
Status == {"absent", "missed"} \cup Live \cup Finished

Idle == [at |-> "idle"]
Save(c, status, rest) == [at |-> "save", call |-> c, status |-> status, rest |-> rest]

(* The calls of a disconnected user still to be ended; none for a hang-up. *)
Ending(rest) == IF rest = {} THEN Idle ELSE [at |-> "ending", rest |-> rest]

Init ==
    /\ calls = [c \in Call |-> "absent"]
    /\ parties = [c \in Call |-> {}]
    /\ timer = [c \in Call |-> "off"]
    /\ request = [r \in Request |-> Idle]
    /\ answered = {}
    /\ stale = {}
    /\ late = {}
    /\ doubtful = {}
    /\ faults = 0
    /\ events = 0

At(r, step) == request[r].at = step
GoTo(r, next) == request' = [request EXCEPT ![r] = next]
(* Whose calls the handler in slot r looks, or has looked, for. *)
Wanted(r) ==
    CASE request[r].at \in {"list", "scan"} -> {request[r].user, request[r].peer}
      [] request[r].at = "create" -> request[r].parties
      [] OTHER -> {}

(* Another handler's read is overtaken when the key it is about to save is *)
(* written, or when a call of a user it looks for becomes live.            *)
Overtaken(c, status, users) ==
    {r \in Request : \/ At(r, "save") /\ request[r].call = c
                     \/ /\ status \in Live /\ calls[c] \notin Live
                        /\ Wanted(r) \cap users # {}}

(* The handler in slot r writes the status of c, a call of these users.    *)
Write(r, c, status, users) ==
    /\ calls' = [calls EXCEPT ![c] = status]
    /\ stale' = (stale \cup Overtaken(c, status, users)) \ {r}
    /\ late' = late \cup {d \in {c} : timer[d] = "save"}

Fault(method) ==
    /\ method \in RedisFaults
    /\ faults < MaxFaults
    /\ faults' = faults + 1

-----------------------------------------------------------------------------
(* getActiveCallsForUser: KEYS, then GET key by key. *)

List(why, user, peer) == [at |-> "list", why |-> why, user |-> user, peer |-> peer]
Scan(q, keys, found) == [at |-> "scan", why |-> q.why, user |-> q.user, peer |-> q.peer,
                         keys |-> keys, found |-> found]

(* Seeded fault: only ringing calls keep a user busy. *)
ActiveRinging(c, user) == calls[c] = "ringing" /\ user \in parties[c]

(* The code counts every call that is neither ended nor rejected. *)
Active(c, user) == calls[c] \notin Finished \cup {"absent"} /\ user \in parties[c]

ListKeys(r) ==
    /\ At(r, "list")
    /\ GoTo(r, Scan(request[r], {c \in Call : calls[c] # "absent"}, {}))
    /\ UNCHANGED <<calls, parties, timer, answered, history, faults, events>>

ReadKey(r) ==
    /\ At(r, "scan")
    /\ \E c \in request[r].keys :
          GoTo(r, Scan(request[r], request[r].keys \ {c},
                       request[r].found \cup {d \in {c} : Active(d, request[r].user)}))
    /\ UNCHANGED <<calls, parties, timer, answered, history, faults, events>>

(* A failing KEYS or GET makes the result empty, not an error. *)
ListFails(r) ==
    /\ request[r].at \in {"list", "scan"}
    /\ Fault("getActiveCalls")
    /\ GoTo(r, Scan(request[r], {}, {}))
    /\ stale' = stale \cup {r}
    /\ UNCHANGED <<calls, parties, timer, answered, late, doubtful, events>>

(* The caller is looked up first, then the callee; either may be busy. *)
Scanned(r) ==
    /\ At(r, "scan")
    /\ request[r].keys = {}
    /\ LET q == request[r]
       IN  /\ CASE q.why = "disconnect" -> GoTo(r, Ending(q.found))
                [] q.why # "disconnect" /\ q.found # {} -> GoTo(r, Idle)
                [] q.why = "caller" /\ q.found = {} -> GoTo(r, List("callee", q.peer, q.user))
                [] q.why = "callee" /\ q.found = {} ->
                       GoTo(r, [at |-> "create", parties |-> {q.user, q.peer}])
           /\ stale' = IF q.why # "disconnect" /\ q.found = {} THEN stale ELSE stale \ {r}
    /\ UNCHANGED <<calls, parties, timer, answered, late, doubtful, faults, events>>

-----------------------------------------------------------------------------
(* The events a client may send. *)

Initiate(r, caller, callee) ==
    /\ At(r, "idle")
    /\ GoTo(r, List("caller", caller, callee))
    /\ UNCHANGED <<calls, parties, timer, answered, history, faults>>

Unused == {c \in Call : parties[c] = {}}

(* Seeded fault: the timeout is not scheduled. *)
CreateWithoutTimer(r) ==
    /\ At(r, "create")
    /\ \E c \in Unused :
          /\ Write(r, c, "ringing", request[r].parties)
          /\ parties' = [parties EXCEPT ![c] = request[r].parties]
    /\ GoTo(r, Idle)
    /\ UNCHANGED <<timer, answered, doubtful, faults, events>>

(* A failing save is answered with an error and leaves nothing behind. *)
Create(r) ==
    /\ At(r, "create")
    /\ \/ /\ \E c \in Unused :
                /\ Write(r, c, "ringing", request[r].parties)
                /\ parties' = [parties EXCEPT ![c] = request[r].parties]
                /\ timer' = [timer EXCEPT ![c] = "armed"]
                /\ doubtful' = IF r \in stale THEN doubtful \cup {c} ELSE doubtful
          /\ UNCHANGED faults
       \/ /\ (Unused = {} /\ UNCHANGED faults) \/ Fault("saveCall")  \* bound
          /\ stale' = stale \ {r}
          /\ UNCHANGED <<calls, parties, timer, late, doubtful>>
    /\ GoTo(r, Idle)
    /\ UNCHANGED <<answered, events>>

(* Seeded fault: the participant is updated, the status of the call is not. *)
AnswerKeepingStatus(r, user, c) ==
    /\ At(r, "idle")
    /\ calls[c] = "ringing" /\ user \in parties[c]
    /\ GoTo(r, Save(c, "ringing", {}))
    /\ UNCHANGED <<calls, parties, timer, answered, history, faults>>

(* A read that fails, or finds the call in a wrong state, changes nothing: *)
(* here and below, only the reads that lead to a write are steps.          *)
Answer(r, user, c) ==
    /\ At(r, "idle")
    /\ calls[c] = "ringing" /\ user \in parties[c]
    /\ GoTo(r, Save(c, "answered", {}))
    /\ UNCHANGED <<calls, parties, timer, answered, history, faults>>

Reject(r, c) ==
    /\ At(r, "idle")
    /\ calls[c] = "ringing"
    /\ GoTo(r, Save(c, "rejected", {}))
    /\ UNCHANGED <<calls, parties, timer, answered, history, faults>>

(* Seeded fault: a rejected call is not taken for finished. *)
MayEndRejected(c) == calls[c] \notin {"ended", "absent"}

(* endCall reads the call: one that is gone or finished is left alone. *)
MayEnd(c) == calls[c] \notin Finished \cup {"absent"}

Hangup(r, c) ==
    /\ At(r, "idle")
    /\ MayEnd(c)
    /\ GoTo(r, Save(c, "ended", {}))
    /\ UNCHANGED <<calls, parties, timer, answered, history, faults>>

Disconnect(r, user) ==
    /\ At(r, "idle")
    /\ GoTo(r, List("disconnect", user, user))
    /\ UNCHANGED <<calls, parties, timer, answered, history, faults>>

-----------------------------------------------------------------------------
(* The rest of those handlers. *)

(* saveCall: a status is written over whatever the key holds by now.  An   *)
(* error leaves the handler, and the loop of a disconnect with it.         *)
SaveCall(r) ==
    /\ At(r, "save")
    /\ LET q == request[r]
       IN  \/ /\ Write(r, q.call, q.status, parties[q.call])
              /\ answered' = IF q.status = "answered" THEN answered \cup {q.call} ELSE answered
              /\ doubtful' = IF q.status = "answered" /\ calls[q.call] \notin Live
                             THEN doubtful \cup {q.call} ELSE doubtful
              /\ GoTo(r, IF q.status = "ended"
                         THEN [at |-> "history", call |-> q.call, rest |-> q.rest]
                         ELSE Idle)
              /\ UNCHANGED faults
           \/ /\ Fault("saveCall")
              /\ GoTo(r, Idle)
              /\ stale' = stale \ {r}
              /\ UNCHANGED <<calls, answered, late, doubtful>>
    /\ UNCHANGED <<parties, timer, events>>

(* saveCallHistory reads the call again; it is wired without a collection, *)
(* so what remains is to remove the key if the call was found.             *)
ReadHistory(r) ==
    /\ At(r, "history")
    /\ LET q == request[r]
       IN  \/ /\ GoTo(r, IF calls[q.call] # "absent"
                         THEN [at |-> "delete", call |-> q.call, rest |-> q.rest]
                         ELSE Ending(q.rest))
              /\ UNCHANGED faults
           \/ Fault("getCall") /\ GoTo(r, Ending(q.rest))
    /\ UNCHANGED <<calls, parties, timer, answered, history, events>>

(* deleteCall: a failure is swallowed. *)
DeleteCall(r) ==
    /\ At(r, "delete")
    /\ \/ Write(r, request[r].call, "absent", {}) /\ UNCHANGED faults
       \/ Fault("deleteCall") /\ UNCHANGED <<calls, stale, late>>
    /\ GoTo(r, Ending(request[r].rest))
    /\ UNCHANGED <<parties, timer, answered, doubtful, events>>

(* The next call of a disconnected user: endCallForUser, then endCall. *)
EndNext(r) ==
    /\ At(r, "ending")
    /\ \E c \in request[r].rest :
          LET rest == request[r].rest \ {c}
          IN  \/ /\ GoTo(r, IF MayEnd(c) THEN Save(c, "ended", rest) ELSE Ending(rest))
                 /\ UNCHANGED faults
              \/ Fault("getCall") /\ GoTo(r, Ending(rest))
    /\ UNCHANGED <<calls, parties, timer, answered, history, events>>

-----------------------------------------------------------------------------
(* The ringing timeout, 30 s after the call was saved. *)

Running == {r \in Request : ~At(r, "idle")}
Scheduled == {c \in Call : timer[c] # "off"}

(* The handlers and timers of one instance are gone. *)
Lose(requests, timers) ==
    /\ request' = [r \in Request |-> IF r \in requests THEN Idle ELSE request[r]]
    /\ timer' = [c \in Call |-> IF c \in timers THEN "off" ELSE timer[c]]
    /\ stale' = stale \ requests
    /\ late' = late \ timers

ReadTimedOut(c) ==
    /\ timer[c] = "armed"
    /\ \/ /\ timer' = [timer EXCEPT ![c] = IF calls[c] = "ringing" THEN "save" ELSE "off"]
          /\ UNCHANGED faults
       \/ Fault("getCall") /\ timer' = [timer EXCEPT ![c] = "off"]
    /\ UNCHANGED <<calls, parties, request, answered, history, events>>

(* The callback catches nothing: a failing save is an unhandled rejection, *)
(* which ends the Node.js process of the timer.                            *)
SaveMissed(c) ==
    /\ timer[c] = "save"
    /\ \/ /\ calls' = [calls EXCEPT ![c] = "missed"]
          /\ timer' = [timer EXCEPT ![c] = "off"]
          /\ stale' = stale \cup Overtaken(c, "missed", {})
          /\ late' = late \ {c}
          /\ UNCHANGED <<request, faults>>
       \/ /\ Fault("saveCall")
          /\ \E requests \in SUBSET Running, timers \in SUBSET Scheduled :
                c \in timers /\ Lose(requests, timers)
          /\ UNCHANGED calls
    /\ UNCHANGED <<parties, answered, doubtful, events>>

Crash ==
    /\ faults < MaxFaults
    /\ faults' = faults + 1
    /\ \E requests \in SUBSET Running, timers \in SUBSET Scheduled : Lose(requests, timers)
    /\ UNCHANGED <<calls, parties, answered, doubtful, events>>

(* The key expires 24 hours after the last save: nothing runs any more. *)
Expire(c) ==
    /\ calls[c] # "absent"
    /\ timer[c] = "off"
    /\ \A r \in Request : At(r, "idle")
    /\ calls' = [calls EXCEPT ![c] = "absent"]
    /\ UNCHANGED <<parties, timer, request, answered, history, faults, events>>

-----------------------------------------------------------------------------
ClientEvent(r) ==
    /\ events < MaxEvents
    /\ events' = events + 1
    /\ \/ \E u, v \in User : Initiate(r, u, v)
       \/ \E u \in User, c \in Call : Answer(r, u, c)
       \/ \E c \in Call : Reject(r, c) \/ Hangup(r, c)
       \/ \E u \in User : Disconnect(r, u)

HandlerStep(r) ==
    \/ ListKeys(r) \/ ReadKey(r) \/ ListFails(r) \/ Scanned(r)
    \/ Create(r)
    \/ SaveCall(r) \/ ReadHistory(r) \/ DeleteCall(r) \/ EndNext(r)

TimerStep(c) == ReadTimedOut(c) \/ SaveMissed(c)

Next ==
    \/ \E r \in Request : ClientEvent(r) \/ HandlerStep(r)
    \/ \E c \in Call : TimerStep(c) \/ Expire(c)
    \/ Crash

Spec == Init /\ [][Next]_vars

(* Every awaited Redis command is answered and a scheduled timeout fires.  *)
(* No client is obliged to send anything.                                  *)
FairSpec ==
    /\ Spec
    /\ \A r \in Request : WF_vars(HandlerStep(r))
    /\ \A c \in Call : WF_vars(TimerStep(c))

-----------------------------------------------------------------------------
(* Correctness. *)

RequestType ==
    {Idle}
    \cup [at : {"list"}, why : {"caller", "callee", "disconnect"}, user : User, peer : User]
    \cup [at : {"scan"}, why : {"caller", "callee", "disconnect"}, user : User, peer : User,
          keys : SUBSET Call, found : SUBSET Call]
    \cup [at : {"create"}, parties : (SUBSET User) \ {{}}]
    \cup [at : {"save"}, call : Call, status : {"answered", "rejected", "ended"},
          rest : SUBSET Call]
    \cup [at : {"history", "delete"}, call : Call, rest : SUBSET Call]
    \cup [at : {"ending"}, rest : SUBSET Call]

(* Every variable has its type; in particular a key exists, and a timer is *)
(* set, only for a generated call with its caller and callee.              *)
TypeOK ==
    /\ calls \in [Call -> Status]
    /\ parties \in [Call -> SUBSET User]
    /\ timer \in [Call -> {"off", "armed", "save"}]
    /\ request \in [Request -> RequestType]
    /\ answered \subseteq Call
    /\ stale \subseteq {r \in Request : request[r].at \in {"list", "scan", "create", "save"}}
    /\ late \subseteq {c \in Call : timer[c] = "save"}
    /\ doubtful \subseteq Call
    /\ faults \in 0..MaxFaults
    /\ events \in 0..MaxEvents
    /\ \A c \in Call : parties[c] = {} => calls[c] = "absent" /\ timer[c] = "off"

(* A user takes part in two live calls only if one of them became live     *)
(* upon a read that was overtaken: another call of its caller or callee    *)
(* had become live since initiateCall looked for those (call-manager.ts    *)
(* 32-42, saved at 66), looking for them had failed (call-store.ts 117),   *)
(* or an answer was saved over a call that no longer rang (101).  Nothing  *)
(* else lets it happen: neither timeouts, hang-ups and disconnects at the  *)
(* same time, nor crashes, nor other failing commands.                     *)
OneCallUnlessOvertaken ==
    \A c, d \in Call :
        c # d /\ {calls[c], calls[d]} \subseteq Live /\ parties[c] \cap parties[d] # {} =>
            c \in doubtful \/ d \in doubtful

Moves ==
    {<<"absent", "ringing">>}
    \cup {<<"ringing", s>> : s \in {"answered", "rejected", "missed"}}
    \cup {<<s, "ended">> : s \in Live \cup {"missed"}}
    \cup {<<s, "absent">> : s \in Status}

(* The step is a save of a copy of c that was no longer what the key held. *)
LateSave(c) ==
    \/ c \in late /\ calls'[c] = "missed" /\ timer'[c] = "off"
    \/ \E r \in stale : /\ At(r, "save") /\ request[r].call = c
                        /\ calls'[c] = request[r].status /\ request'[r] # request[r]

(* A call goes through its states in order: a finished call is not revived *)
(* and an answered one does not become rejected.  What breaks the order is *)
(* a handler or a timeout that saves a copy although the key was written   *)
(* since it read it (call-manager.ts 93-101, 117-125, 175-184,             *)
(* call-terminator.ts 29-39), and nothing else.                            *)
OrderUnlessOvertaken ==
    [][\A c \in Call :
          calls'[c] # calls[c] => <<calls[c], calls'[c]>> \in Moves \/ LateSave(c)]_vars

(* A call rings once: whatever stale copies overlapping handlers and the   *)
(* timeout write back, none makes it ring again, not even after its key    *)
(* was removed (call-manager.ts:98, 121, 180; call-terminator.ts:34).      *)
NeverRingsAgain ==
    [][\A c \in Call : calls'[c] = "ringing" => calls[c] = "ringing" \/ parties[c] = {}]_vars

(* A ringing call has its timeout, armed or about to save, also after it   *)
(* raced handlers that overwrite each other: nothing else would end it     *)
(* (173-187).  Only a death or a failing command takes the timeout away.   *)
RingingIsTimed ==
    \A c \in Call : calls[c] = "ringing" => timer[c] # "off" \/ faults > 0

(* Every call stops ringing: it is answered, refused or ended, or its      *)
(* timeout fires, unless an instance died or Redis failed (173-187).       *)
EveryCallStopsRinging ==
    \A c \in Call : calls[c] = "ringing" ~> (calls[c] # "ringing" \/ faults > 0)

(* "auto-end call if not answered" (call-manager.ts:68): the timeout never *)
(* marks as missed a call that was answered.  The code does not keep this. *)
AnsweredNotMissed == \A c \in answered : calls[c] # "missed"

-----------------------------------------------------------------------------
(* What makes those two inductive. *)

Busy(user, c) == calls[c] \in Live /\ user \in parties[c]
Free(user) == \A c \in Call : ~Busy(user, c)

(* What a handler that was not overtaken may still rely on: the caller it  *)
(* found free while it looks for the callee's calls, the live calls that a *)
(* scan has not missed, the parties it found free, and the status it read. *)
StillTrue(q) ==
    /\ q.at \in {"list", "scan"} /\ q.why = "callee" => Free(q.peer)
    /\ q.at = "scan" /\ q.why # "disconnect" =>
           \A c \in Call : Busy(q.user, c) => c \in q.keys \cup q.found
    /\ q.at = "create" => \A u \in q.parties : Free(u)
    /\ q.at = "save" => <<calls[q.call], q.status>> \in Moves

ReadsStillTrue ==
    /\ \A r \in Request \ stale : StillTrue(request[r])
    /\ \A c \in Call \ late : timer[c] = "save" => calls[c] = "ringing"
=============================================================================
