-------------------------- MODULE TypingIndicators --------------------------
(***************************************************************************)
(* Who is shown as typing in one conversation: the hash that               *)
(* TypingStateStore keeps in Redis, and the timeouts that TypingTimeout-   *)
(* Manager keeps in the memory of one socket-service process.              *)
(*                                                                         *)
(* A step runs up to an await and ends with at most one Redis command,     *)
(* which takes effect then, as commands sent on one connection do; its     *)
(* answer is the next step.  MaxFaults commands fail, or the process dies. *)
(***************************************************************************)
EXTENDS Naturals, FiniteSets

CONSTANTS
    User,
    Request,    \* slots for handlers running at once
    Timer,      \* bound: the timeouts that run at once
    NoTimer,    \* no entry in the map of timeouts
    Nobody,     \* the user of a free slot or timer
    MaxFaults   \* bound: failing commands and crashes

ASSUME TypingConstants ==
    /\ NoTimer \notin Timer
    /\ Nobody \notin User
    /\ MaxFaults \in Nat

VARIABLES
    typing,     \* the users with a field in the hash
    ttl,        \* the hash has an expiry
    entry,      \* entry[u]: the timeout that the map holds for u
    timer,      \* timer[t]: at "off", "armed" or "fired", and for whom
    req,        \* req[r]: a handler that waits for an answer of Redis
    faults      \* counter for the bound

redis == <<typing, ttl>>
memory == <<entry, timer, req>>
vars == <<redis, memory, faults>>

Off == [at |-> "off", user |-> Nobody]
Idle == [at |-> "idle", user |-> Nobody]

Init ==
    /\ typing = {}
    /\ ttl = FALSE
    /\ entry = [u \in User |-> NoTimer]
    /\ timer = [t \in Timer |-> Off]
    /\ req = [r \in Request |-> Idle]
    /\ faults = 0

Fault == faults < MaxFaults /\ faults' = faults + 1
GoTo(r, step) == req' = [req EXCEPT ![r].at = step]
Done(r) == req' = [req EXCEPT ![r] = Idle]

(* hDel; a hash without fields is gone, and its expiry with it. *)
Del(u) ==
    \/ /\ typing' = typing \ {u}
       /\ ttl' = (ttl /\ typing' # {})
       /\ UNCHANGED faults
    \/ Fault /\ UNCHANGED redis

(* The timeouts after cancelTimeout: only what the map knows is cancelled, *)
(* and a callback that has begun goes on.                                  *)
Cancelled(u) ==
    [t \in Timer |-> IF t = entry[u] /\ timer[t].at = "armed" THEN Off ELSE timer[t]]

-----------------------------------------------------------------------------
(* typing_start: addTypingUser, then scheduleTimeout.  Errors are logged.  *)

TypingStart(r, u) ==
    /\ req[r].at = "idle"
    /\ \/ /\ typing' = typing \cup {u}
          /\ req' = [req EXCEPT ![r] = [at |-> "expire", user |-> u]]
          /\ UNCHANGED faults
       \/ /\ Fault
          /\ req' = [req EXCEPT ![r] = [at |-> "schedule", user |-> u]]
          /\ UNCHANGED typing
    /\ UNCHANGED <<ttl, entry, timer>>

(* expire does nothing to a hash that is gone. *)
SetExpiry(r) ==
    /\ req[r].at = "expire"
    /\ \/ ttl' = (typing # {}) /\ UNCHANGED faults
       \/ Fault /\ UNCHANGED ttl
    /\ GoTo(r, "schedule")
    /\ UNCHANGED <<typing, entry, timer>>

(* Seeded fault: whoever has a timeout in the map gets no other.           *)
ScheduleOnce(r) ==
    /\ req[r].at = "schedule"
    /\ LET u == req[r].user
       IN  \/ entry[u] # NoTimer /\ UNCHANGED <<entry, timer>>
           \/ /\ entry[u] = NoTimer
              /\ \E t \in Timer :
                    /\ timer[t].at = "off"
                    /\ timer' = [timer EXCEPT ![t] = [at |-> "armed", user |-> u]]
                    /\ entry' = [entry EXCEPT ![u] = t]
    /\ Done(r)
    /\ UNCHANGED <<redis, faults>>

(* Seeded fault: the map is keyed by the conversation alone. *)
ScheduleShared(r) ==
    /\ req[r].at = "schedule"
    /\ \E t \in Timer :
          /\ timer[t].at = "off"
          /\ timer' = [timer EXCEPT ![t] = [at |-> "armed", user |-> req[r].user]]
          /\ entry' = [u \in User |-> t]
    /\ Done(r)
    /\ UNCHANGED <<redis, faults>>

Schedule(r) ==
    /\ req[r].at = "schedule"
    /\ LET u == req[r].user
           free == {t \in Timer : Cancelled(u)[t].at = "off"}
           t == CHOOSE x \in free : TRUE
       IN  /\ free # {}
           /\ timer' = [Cancelled(u) EXCEPT ![t] = [at |-> "armed", user |-> u]]
           /\ entry' = [entry EXCEPT ![u] = t]
    /\ Done(r)
    /\ UNCHANGED <<redis, faults>>

(* typing_stop, leaveRoom and sendMessage. *)
TypingStop(u) ==
    /\ timer' = Cancelled(u)
    /\ entry' = [entry EXCEPT ![u] = NoTimer]
    /\ Del(u)
    /\ UNCHANGED req

(* disconnect: clearUserTyping lists the hashes before it clears u's field. *)
Clear(r, u) ==
    /\ req[r].at = "idle"
    /\ timer' = Cancelled(u)
    /\ entry' = [entry EXCEPT ![u] = NoTimer]
    /\ \/ typing # {} /\ req' = [req EXCEPT ![r] = [at |-> "clear", user |-> u]]
                      /\ UNCHANGED faults
       \/ typing = {} /\ UNCHANGED <<req, faults>>
       \/ Fault /\ UNCHANGED req
    /\ UNCHANGED redis

ClearField(r) ==
    /\ req[r].at = "clear"
    /\ Del(req[r].user)
    /\ Done(r)
    /\ UNCHANGED <<entry, timer>>

-----------------------------------------------------------------------------
(* A timeout fires: handleTypingTimeout. *)

(* Seeded fault: the timeout forgets its entry but not the field. *)
FireForgetting(t) ==
    /\ timer[t].at = "armed"
    /\ timer' = [timer EXCEPT ![t].at = "fired"]
    /\ UNCHANGED <<redis, entry, req, faults>>

Fire(t) ==
    /\ timer[t].at = "armed"
    /\ timer' = [timer EXCEPT ![t].at = "fired"]
    /\ Del(timer[t].user)
    /\ UNCHANGED <<entry, req>>

(* After its await it deletes the entry of the map, which may be that of a *)
(* later timeout of the same user: nothing can cancel that one any more.   *)
FireReturns(t) ==
    /\ timer[t].at = "fired"
    /\ entry' = [entry EXCEPT ![timer[t].user] = NoTimer]
    /\ timer' = [timer EXCEPT ![t] = Off]
    /\ UNCHANGED <<redis, req, faults>>

-----------------------------------------------------------------------------
(* Seeded fault: asking who is typing renews the expiry. *)
HashRenewed == ttl /\ UNCHANGED vars

(* Ten seconds have passed since the last expire: every timeout of 3 s has *)
(* fired, but a handler may be about to set the expiry anew.               *)
HashExpires ==
    /\ ttl
    /\ \A t \in Timer : timer[t].at # "armed"
    /\ \A r \in Request : req[r].at # "schedule"
    /\ typing' = {}
    /\ ttl' = FALSE
    /\ UNCHANGED <<memory, faults>>

(* The process dies and is started again, without its timeouts. *)
Crash ==
    /\ Fault
    /\ entry' = [u \in User |-> NoTimer]
    /\ timer' = [t \in Timer |-> Off]
    /\ req' = [r \in Request |-> Idle]
    /\ UNCHANGED redis

-----------------------------------------------------------------------------
HandlerStep(r) == SetExpiry(r) \/ Schedule(r) \/ ClearField(r)
TimerStep(t) == Fire(t) \/ FireReturns(t)

Next ==
    \/ \E r \in Request : HandlerStep(r)
    \/ \E r \in Request, u \in User : TypingStart(r, u) \/ Clear(r, u)
    \/ \E u \in User : TypingStop(u)
    \/ \E t \in Timer : TimerStep(t)
    \/ HashExpires
    \/ Crash

Spec == Init /\ [][Next]_vars

(* Redis answers, timeouts fire, and Redis drops an expired hash.  No      *)
(* client has to stop typing.                                              *)
Fairness ==
    /\ \A r \in Request : WF_vars(HandlerStep(r))
    /\ \A t \in Timer : WF_vars(TimerStep(t))
    /\ WF_vars(HashExpires)

FairSpec == Spec /\ Fairness

-----------------------------------------------------------------------------
(* Correctness. *)

(* Every variable has its type, the map holds timeouts of their own user   *)
(* that run or are returning, and only a hash with fields has an expiry.   *)
TypeOK ==
    /\ typing \subseteq User
    /\ ttl \in BOOLEAN /\ (ttl => typing # {})
    /\ entry \in [User -> Timer \cup {NoTimer}]
    /\ timer \in [Timer -> [at : {"off", "armed", "fired"}, user : User \cup {Nobody}]]
    /\ \A u \in User : entry[u] # NoTimer => timer[entry[u]].user = u
    /\ req \in [Request -> [at : {"idle", "expire", "schedule", "clear"},
                            user : User \cup {Nobody}]]
    /\ faults \in 0..MaxFaults

StartOf(u) == \E r \in Request : req[r].user = u /\ req[r].at \in {"expire", "schedule"}

(* Whoever is shown as typing has a timeout armed, or its handler is about *)
(* to arm one or to clear the field, as long as nothing failed: however    *)
(* starts, stops, disconnects and timeouts overlap, none of them leaves an *)
(* indicator behind that only the expiry of the hash, which others renew   *)
(* by typing, would end.                                                   *)
EveryIndicatorIsTimed ==
    \A u \in typing :
        \/ faults > 0
        \/ \E t \in Timer : timer[t] = [at |-> "armed", user |-> u]
        \/ StartOf(u)
        \/ \E r \in Request : req[r] = [at |-> "clear", user |-> u]

(* When nothing fails, whoever no longer starts typing is no longer shown  *)
(* at last, whatever the others do (TypingHandler 33-43).                  *)
TypingEnds ==
    \A u \in User :
        [](faults = 0) /\ <>[](~StartOf(u)) => <>[](u \notin typing)

(* Whatever fails, once nobody starts typing nobody is shown as typing at  *)
(* last, unless the hash never got an expiry: the process died, or Redis   *)
(* failed, between hSet and expire (31-32 of TypingStateStore).            *)
SilenceClears ==
    <>[](\A u \in User : ~StartOf(u)) => <>[](typing = {} \/ ~ttl)
=============================================================================
