---------------------- MODULE TypingIndicators_proofs ----------------------
(***************************************************************************)
(* Proofs about TypingIndicators, for any number of users, handlers,       *)
(* timeouts and faults: every variable keeps its type, the map holds       *)
(* timeouts of their own user, and every indicator is timed.               *)
(***************************************************************************)
EXTENDS TypingIndicators, TLAPS

(* A timeout that is off belongs to nobody, and handlers to users.         *)
TypingInv ==
    /\ TypeOK
    /\ \A t \in Timer : timer[t].at = "off" => timer[t] = Off
    /\ \A r \in Request : req[r].at # "idle" => req[r].user \in User
    /\ EveryIndicatorIsTimed

Timers == [at : {"off", "armed", "fired"}, user : User \cup {Nobody}]
Handlers == [at : {"idle", "expire", "schedule", "clear"}, user : User \cup {Nobody}]

(* A free timeout, and a free slot.                                        *)
LEMMA Unused ==
    /\ Off \in Timers /\ Off.at = "off" /\ Off.user = Nobody
    /\ Idle \in Handlers /\ Idle.at = "idle" /\ Idle.user = Nobody
    /\ Nobody \notin User /\ NoTimer \notin Timer
  BY TypingConstants DEF Off, Idle, Timers, Handlers

(* hDel keeps the expiry with the fields.                                  *)
LEMMA DelKeeps ==
    ASSUME TypeOK, NEW u, Del(u)
    PROVE  /\ typing' \subseteq typing
           /\ ttl' \in BOOLEAN
           /\ ttl' => typing' # {}
           /\ faults' \in 0..MaxFaults
           /\ faults' = 0 => faults = 0 /\ typing' = typing \ {u}
<1>1. CASE typing' = typing \ {u} /\ ttl' = (ttl /\ typing' # {}) /\ faults' = faults
  <2>1. ttl' \in BOOLEAN /\ (ttl' => typing' # {})
      BY <1>1, Zenon
  <2>2. faults' \in 0..MaxFaults /\ (faults' = 0 => faults = 0)
      BY <1>1 DEF TypeOK
  <2>3. QED
      BY <1>1, <2>1, <2>2
<1>2. CASE Fault /\ typing' = typing /\ ttl' = ttl
  <2>1. faults' \in 0..MaxFaults /\ faults' # 0
      BY <1>2, TypingConstants DEF Fault, TypeOK
  <2>2. QED
      BY <1>2, <2>1 DEF TypeOK
<1>3. QED
    BY <1>1, <1>2 DEF Del, redis

LEMMA InitTyping == Init => TypingInv
<1> SUFFICES ASSUME Init PROVE TypingInv
    OBVIOUS
<1>1. TypeOK
  <2>1. timer \in [Timer -> Timers] /\ req \in [Request -> Handlers]
      BY Unused DEF Init
  <2>2. /\ typing = {} /\ ttl = FALSE /\ faults \in 0..MaxFaults
        /\ entry \in [User -> Timer \cup {NoTimer}]
        /\ \A u \in User : entry[u] = NoTimer
      BY TypingConstants DEF Init
  <2>3. QED
      BY <2>1, <2>2 DEF TypeOK, Timers, Handlers
<1>2. EveryIndicatorIsTimed
    BY DEF Init, EveryIndicatorIsTimed
<1>3. QED
    BY <1>1, <1>2, Unused DEF Init, TypingInv

(* What cancelTimeout leaves: every timeout but that of u in the map.      *)
LEMMA CancelledKeeps ==
    ASSUME TypingInv, NEW u \in User
    PROVE  /\ Cancelled(u) \in [Timer -> Timers]
           /\ \A t \in Timer : Cancelled(u)[t].at = "off" => Cancelled(u)[t] = Off
           /\ \A t \in Timer : timer[t].user # u => Cancelled(u)[t] = timer[t]
           /\ \A t \in Timer : Cancelled(u)[t].at # "off" => Cancelled(u)[t] = timer[t]
           /\ \A v \in User \ {u} : entry[v] # NoTimer => Cancelled(u)[entry[v]].user = v
  BY Unused DEF TypingInv, TypeOK, Timers, Cancelled

(* A handler's step on the hash alone.                                     *)
LEMMA HashStep ==
    ASSUME TypingInv,
           \/ \E r \in Request, u \in User : TypingStart(r, u)
           \/ \E r \in Request : SetExpiry(r) \/ ClearField(r)
    PROVE  TypingInv'
<1>1. entry' = entry /\ timer' = timer
    BY DEF TypingStart, SetExpiry, ClearField
<1>2. faults' \in 0..MaxFaults /\ (faults' = 0 => faults = 0)
    BY DelKeeps, TypingConstants DEF TypingInv, TypeOK, TypingStart, SetExpiry, ClearField, Fault
<1>3. /\ req' \in [Request -> Handlers]
      /\ \A r \in Request : req'[r].at # "idle" => req'[r].user \in User
    BY Unused DEF TypingInv, TypeOK, Handlers, TypingStart, SetExpiry, ClearField, GoTo, Done
<1>4. typing' \subseteq User /\ ttl' \in BOOLEAN /\ (ttl' => typing' # {})
  <2>1. ASSUME NEW r \in Request, NEW u \in User, TypingStart(r, u)
        PROVE  typing' \subseteq User /\ ttl' \in BOOLEAN /\ (ttl' => typing' # {})
    <3>1. ttl' = ttl /\ (typing' = typing \cup {u} \/ typing' = typing)
        BY <2>1 DEF TypingStart
    <3>2. QED
        BY <3>1 DEF TypingInv, TypeOK
  <2>2. ASSUME NEW r \in Request, SetExpiry(r)
        PROVE  typing' \subseteq User /\ ttl' \in BOOLEAN /\ (ttl' => typing' # {})
    <3>1. typing' = typing /\ (ttl' = ttl \/ ttl' = (typing # {}))
        BY <2>2 DEF SetExpiry
    <3>2. typing \subseteq User /\ ttl \in BOOLEAN /\ (ttl => typing # {})
        BY DEF TypingInv, TypeOK
    <3>3. CASE ttl' = ttl
        BY <3>1, <3>2, <3>3
    <3>4. CASE ttl' = (typing # {})
      <4>1. ttl' \in BOOLEAN
          BY <3>4, Zenon
      <4>2. ttl' => typing' # {}
          BY <3>1, <3>4, Zenon
      <4>3. QED
          BY <3>1, <3>2, <4>1, <4>2
    <3>5. QED
        BY <3>1, <3>3, <3>4
  <2>3. ASSUME NEW r \in Request, ClearField(r)
        PROVE  typing' \subseteq User /\ ttl' \in BOOLEAN /\ (ttl' => typing' # {})
      BY <2>3, DelKeeps DEF TypingInv, TypeOK, ClearField
  <2>4. QED
      BY <2>1, <2>2, <2>3
<1>5. TypeOK'
    BY <1>1, <1>2, <1>3, <1>4 DEF TypingInv, TypeOK, Handlers
<1>6. EveryIndicatorIsTimed'
  <2> SUFFICES ASSUME NEW u \in typing', faults' = 0, ~ \E t \in Timer : timer[t] = [at |-> "armed", user |-> u]
               PROVE  StartOf(u)' \/ \E r \in Request : req'[r] = [at |-> "clear", user |-> u]
      BY <1>1, <1>2 DEF EveryIndicatorIsTimed
  <2>0. /\ req \in [Request -> Handlers]
        /\ u \in typing => StartOf(u) \/ \E r \in Request : req[r] = [at |-> "clear", user |-> u]
      BY <1>2 DEF TypingInv, TypeOK, EveryIndicatorIsTimed, Handlers
  <2>1. CASE \E r \in Request, v \in User : TypingStart(r, v)
      BY <2>0, <2>1, <1>2 DEF TypingStart, StartOf, Handlers, Fault, TypingInv, TypeOK
  <2>2. CASE \E r \in Request : SetExpiry(r)
      BY <2>0, <2>2 DEF SetExpiry, StartOf, Handlers, GoTo
  <2>3. CASE \E r \in Request : ClearField(r)
      BY <2>0, <2>3, <1>2 DEF ClearField, Del, Done, StartOf, Handlers, Fault, TypingInv, TypeOK
  <2>4. QED
      BY <2>1, <2>2, <2>3
<1>7. QED
    BY <1>1, <1>3, <1>5, <1>6 DEF TypingInv

(* scheduleTimeout: whoever asked is timed.                                *)
LEMMA ScheduleStep ==
    ASSUME TypingInv, NEW r \in Request, Schedule(r)
    PROVE  TypingInv'
<1> DEFINE u == req[r].user
           armed == [at |-> "armed", user |-> u]
<1>1. u \in User /\ req[r].at = "schedule"
    BY DEF Schedule, TypingInv
<1>2. PICK t \in Timer : /\ Cancelled(u)[t].at = "off"
                         /\ timer' = [Cancelled(u) EXCEPT ![t] = armed]
                         /\ entry' = [entry EXCEPT ![u] = t]
    BY DEF Schedule
<1>3. /\ UNCHANGED <<typing, ttl, faults>>
      /\ req' = [req EXCEPT ![r] = Idle]
    BY DEF Schedule, Done, redis
<1>4. armed \in Timers /\ armed.at = "armed" /\ armed.user = u
    BY <1>1 DEF Timers
<1>5. timer' \in [Timer -> Timers]
    BY <1>1, <1>2, <1>4, CancelledKeeps
<1>6. \A v \in User : entry'[v] # NoTimer => timer'[entry'[v]].user = v
  <2>1. entry \in [User -> Timer \cup {NoTimer}] /\ timer'[t] = armed /\ entry'[u] = t
      BY <1>1, <1>2, CancelledKeeps DEF TypingInv, TypeOK
  <2>2. ASSUME NEW v \in User \ {u}, entry[v] # NoTimer PROVE timer'[entry[v]].user = v
    <3>1. entry[v] # t
        BY <1>1, <1>2, <2>2, CancelledKeeps, Unused
    <3>2. timer'[entry[v]] = Cancelled(u)[entry[v]]
        BY <1>1, <1>2, <2>1, <2>2, <3>1, CancelledKeeps
    <3>3. QED
        BY <1>1, <2>2, <3>2, CancelledKeeps
  <2>3. QED
      BY <1>2, <1>4, <2>1, <2>2
<1>7. TypeOK'
    BY <1>1, <1>2, <1>3, <1>5, <1>6, Unused DEF TypingInv, TypeOK, Timers, Handlers
<1>8. \A x \in Timer : timer'[x].at = "off" => timer'[x] = Off
    BY <1>1, <1>2, <1>4, CancelledKeeps
<1>9. \A q \in Request : req'[q].at # "idle" => req'[q].user \in User
    BY <1>3, Unused DEF TypingInv, TypeOK
<1>10. EveryIndicatorIsTimed'
  <2>1. timer'[t] = armed
      BY <1>1, <1>2, CancelledKeeps
  <2>2. ASSUME NEW v \in User \ {u}, NEW x \in Timer, timer[x] = [at |-> "armed", user |-> v]
        PROVE  timer'[x] = timer[x]
      BY <1>1, <1>2, <2>2, CancelledKeeps
  <2>3. \A q \in Request \ {r} : req'[q] = req[q]
      BY <1>3 DEF TypingInv, TypeOK
  <2>4. QED
    <3> SUFFICES ASSUME NEW v \in typing', ~ faults' > 0
                 PROVE  \/ \E x \in Timer : timer'[x] = [at |-> "armed", user |-> v]
                        \/ StartOf(v)' \/ \E q \in Request : req'[q] = [at |-> "clear", user |-> v]
        BY DEF EveryIndicatorIsTimed
    <3>1. /\ v \in User
          /\ \/ \E x \in Timer : timer[x] = [at |-> "armed", user |-> v]
             \/ StartOf(v) \/ \E q \in Request : req[q] = [at |-> "clear", user |-> v]
        BY <1>3 DEF TypingInv, TypeOK, EveryIndicatorIsTimed
    <3>2. CASE v = u
        BY <2>1, <3>2
    <3>3. CASE v # u
        BY <1>1, <2>2, <2>3, <3>1, <3>3 DEF StartOf
    <3>4. QED
        BY <3>2, <3>3
<1>11. QED
    BY <1>7, <1>8, <1>9, <1>10 DEF TypingInv

(* A stop or a disconnect cancels what the map knows of u.                 *)
LEMMA CancelStep ==
    ASSUME TypingInv, NEW u \in User, TypingStop(u) \/ \E r \in Request : Clear(r, u)
    PROVE  TypingInv'
<1>1. /\ timer' = Cancelled(u)
      /\ entry' = [entry EXCEPT ![u] = NoTimer]
    BY DEF TypingStop, Clear
<1>2. /\ faults' \in 0..MaxFaults /\ (faults' = 0 => faults = 0)
      /\ typing' \subseteq typing
      /\ ttl' \in BOOLEAN /\ (ttl' => typing' # {})
  <2>1. CASE TypingStop(u)
      BY <2>1, DelKeeps DEF TypingInv, TypeOK, TypingStop
  <2>2. CASE \E r \in Request : Clear(r, u)
    <3>1. UNCHANGED <<typing, ttl>> /\ (faults' = faults \/ Fault)
        BY <2>2 DEF Clear, redis
    <3>2. QED
        BY <3>1, TypingConstants DEF Fault, TypingInv, TypeOK
  <2>3. QED
      BY <2>1, <2>2
<1>3. /\ req' \in [Request -> Handlers]
      /\ \A q \in Request : req'[q] = req[q] \/ req'[q] = [at |-> "clear", user |-> u]
      /\ \A q \in Request : req[q].at # "idle" => req'[q] = req[q]
  <2>1. CASE req' = req
      BY <2>1 DEF TypingInv, TypeOK, Handlers
  <2>2. CASE \E r \in Request : req[r].at = "idle" /\ req' = [req EXCEPT ![r] = [at |-> "clear", user |-> u]]
      BY <2>2 DEF TypingInv, TypeOK, Handlers
  <2>3. QED
      BY <2>1, <2>2 DEF TypingStop, Clear
<1>4. TypeOK'
    BY <1>1, <1>2, <1>3, CancelledKeeps DEF TypingInv, TypeOK, Timers, Handlers
<1>5. EveryIndicatorIsTimed'
  <2> SUFFICES ASSUME NEW v \in typing', faults' = 0
               PROVE  \/ \E t \in Timer : timer'[t] = [at |-> "armed", user |-> v]
                      \/ StartOf(v)' \/ \E r \in Request : req'[r] = [at |-> "clear", user |-> v]
      BY <1>2 DEF EveryIndicatorIsTimed
  <2>1. /\ v \in User /\ v \in typing
        /\ \/ \E t \in Timer : timer[t] = [at |-> "armed", user |-> v]
           \/ StartOf(v) \/ \E r \in Request : req[r] = [at |-> "clear", user |-> v]
      BY <1>2 DEF TypingInv, TypeOK, EveryIndicatorIsTimed
  <2>2. CASE v # u
    <3>1. ASSUME NEW t \in Timer, timer[t] = [at |-> "armed", user |-> v]
          PROVE  timer'[t] = timer[t]
        BY <1>1, <2>2, <3>1, CancelledKeeps
    <3>2. QED
        BY <1>3, <2>1, <3>1 DEF StartOf
  <2>3. CASE v = u /\ TypingStop(u)
      BY <1>2, <2>3 DEF TypingStop, Del, Fault, TypingInv, TypeOK
  <2>4. CASE v = u /\ \E r \in Request : Clear(r, u)
      BY <1>2, <2>1, <2>4 DEF Clear, Fault, TypingInv, TypeOK
  <2>5. QED
      BY <2>2, <2>3, <2>4
<1>6. QED
    BY <1>1, <1>3, <1>4, <1>5, CancelledKeeps DEF TypingInv

(* A timeout fires: its user is no longer shown, unless Redis fails.       *)
LEMMA FireStep ==
    ASSUME TypingInv, NEW t \in Timer, Fire(t)
    PROVE  TypingInv'
<1>1. /\ entry' = entry /\ req' = req /\ timer[t].at = "armed"
      /\ timer' = [timer EXCEPT ![t].at = "fired"]
      /\ timer \in [Timer -> Timers]
    BY DEF Fire, TypingInv, TypeOK, Timers
<1>2. /\ timer' \in [Timer -> Timers]
      /\ timer'[t].at = "fired"
      /\ \A x \in Timer : timer'[x].user = timer[x].user
      /\ \A x \in Timer \ {t} : timer'[x] = timer[x]
    BY <1>1 DEF Timers
<1>3. Del(timer[t].user) /\ TypeOK
    BY DEF Fire, TypingInv
<1>4. /\ faults' \in 0..MaxFaults
      /\ faults' = 0 => typing' = typing \ {timer[t].user} /\ faults = 0
    BY <1>3, DelKeeps
<1>5. typing' \subseteq User /\ ttl' \in BOOLEAN /\ (ttl' => typing' # {})
    BY <1>3, DelKeeps DEF TypeOK
<1>6. TypeOK'
    BY <1>1, <1>2, <1>4, <1>5 DEF TypingInv, TypeOK, Timers
<1>7. EveryIndicatorIsTimed'
  <2> SUFFICES ASSUME NEW v \in typing', faults' = 0
               PROVE  \/ \E x \in Timer : timer'[x] = [at |-> "armed", user |-> v]
                      \/ StartOf(v)' \/ \E q \in Request : req'[q] = [at |-> "clear", user |-> v]
      BY <1>4 DEF EveryIndicatorIsTimed
  <2>1. /\ v \in typing /\ v # timer[t].user
        /\ \/ \E x \in Timer : timer[x] = [at |-> "armed", user |-> v]
           \/ StartOf(v) \/ \E q \in Request : req[q] = [at |-> "clear", user |-> v]
      BY <1>4 DEF TypingInv, TypeOK, EveryIndicatorIsTimed
  <2>2. QED
      BY <1>1, <1>2, <2>1 DEF StartOf
<1>8. QED
    BY <1>1, <1>2, <1>6, <1>7 DEF TypingInv

(* Its callback returns: the map may lose the entry of a later timeout,    *)
(* which stays armed.                                                      *)
LEMMA FireReturnsStep ==
    ASSUME TypingInv, NEW t \in Timer, FireReturns(t)
    PROVE  TypingInv'
<1>1. /\ UNCHANGED <<typing, ttl, req, faults>> /\ timer[t].at = "fired"
      /\ timer' = [timer EXCEPT ![t] = Off]
      /\ entry' = [entry EXCEPT ![timer[t].user] = NoTimer]
      /\ timer \in [Timer -> Timers]
      /\ entry \in [User -> Timer \cup {NoTimer}]
    BY DEF FireReturns, TypingInv, TypeOK, Timers, redis
<1>2. timer' \in [Timer -> Timers] /\ entry' \in [User -> Timer \cup {NoTimer}]
    BY <1>1, Unused
<1>3. \A v \in User : entry'[v] # NoTimer => timer'[entry'[v]].user = v
  <2> SUFFICES ASSUME NEW v \in User, entry'[v] # NoTimer PROVE timer'[entry'[v]].user = v
      OBVIOUS
  <2>1. v # timer[t].user /\ entry'[v] = entry[v]
      BY <1>1
  <2>2. timer[entry[v]].user = v /\ entry[v] \in Timer
      BY <1>1, <2>1 DEF TypingInv, TypeOK
  <2>3. QED
      BY <1>1, <2>1, <2>2
<1>4. TypeOK'
    BY <1>1, <1>2, <1>3 DEF TypingInv, TypeOK, Timers
<1>5. EveryIndicatorIsTimed'
  <2>1. ASSUME NEW x \in Timer, NEW v \in User, timer[x] = [at |-> "armed", user |-> v]
        PROVE  timer'[x] = timer[x]
      BY <1>1, <2>1
  <2>2. QED
      BY <1>1, <2>1 DEF TypingInv, TypeOK, EveryIndicatorIsTimed, StartOf
<1>6. QED
    BY <1>1, <1>2, <1>4, <1>5, Unused DEF TypingInv

LEMMA ExpiryOrCrash ==
    ASSUME TypingInv, HashExpires \/ Crash
    PROVE  TypingInv'
<1>1. CASE HashExpires
  <2>1. UNCHANGED <<entry, timer, req, faults>> /\ typing' = {} /\ ttl' = FALSE
      BY <1>1 DEF HashExpires, memory
  <2>2. QED
      BY <2>1 DEF TypingInv, TypeOK, EveryIndicatorIsTimed
<1>2. CASE Crash
  <2>1. /\ UNCHANGED <<typing, ttl>> /\ faults' \in 0..MaxFaults /\ faults' > 0
        /\ entry' = [u \in User |-> NoTimer]
        /\ timer' = [t \in Timer |-> Off]
        /\ req' = [r \in Request |-> Idle]
      BY <1>2, TypingConstants DEF Crash, Fault, redis, TypingInv, TypeOK
  <2>2. timer' \in [Timer -> Timers] /\ req' \in [Request -> Handlers]
      BY <2>1, Unused
  <2>3. TypeOK'
      BY <2>1, <2>2 DEF TypingInv, TypeOK, Timers, Handlers
  <2>4. QED
      BY <2>1, <2>3, Unused DEF TypingInv, EveryIndicatorIsTimed
<1>3. QED
    BY <1>1, <1>2

LEMMA TypingStep == TypingInv /\ [Next]_vars => TypingInv'
<1> SUFFICES ASSUME TypingInv, [Next]_vars PROVE TypingInv'
    OBVIOUS
<1>1. CASE \E r \in Request : HandlerStep(r)
    BY <1>1, HashStep, ScheduleStep DEF HandlerStep
<1>2. CASE \E r \in Request, u \in User : TypingStart(r, u) \/ Clear(r, u)
    BY <1>2, HashStep, CancelStep
<1>3. CASE \E u \in User : TypingStop(u)
    BY <1>3, CancelStep
<1>4. CASE \E t \in Timer : TimerStep(t)
    BY <1>4, FireStep, FireReturnsStep DEF TimerStep
<1>5. CASE UNCHANGED vars
    BY <1>5 DEF TypingInv, TypeOK, EveryIndicatorIsTimed, StartOf, vars, redis, memory
<1>6. QED
    BY <1>1, <1>2, <1>3, <1>4, <1>5, ExpiryOrCrash DEF Next

LEMMA TypingInvariance == Spec => []TypingInv
  BY InitTyping, TypingStep, PTL DEF Spec

(* Every variable keeps its type, and the map of timeouts holds for each   *)
(* user a timeout of that user (TypingTimeoutManager 19-43).               *)
THEOREM TypingTypeCorrect == Spec => []TypeOK
<1>1. TypingInv => TypeOK
    BY DEF TypingInv
<1>2. QED
    BY <1>1, TypingInvariance, PTL

(* As long as nothing failed, whoever is shown as typing has a timeout     *)
(* armed, or its handler is about to arm one or to clear the field.        *)
THEOREM IndicatorsTimed == Spec => []EveryIndicatorIsTimed
<1>1. TypingInv => EveryIndicatorIsTimed
    BY DEF TypingInv
<1>2. QED
    BY <1>1, TypingInvariance, PTL
=============================================================================
