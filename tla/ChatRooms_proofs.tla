-------------------------- MODULE ChatRooms_proofs --------------------------
(***************************************************************************)
(* Proofs about ChatRooms, for any number of sockets, users, messages,     *)
(* handlers and faults: every variable keeps its type, who was told that   *)
(* it joined is in the room state but for a known reason, and a message    *)
(* whose sender was answered "ok" is in Kafka, unless no producer was      *)
(* connected when it was broadcast.                                        *)
(***************************************************************************)
EXTENDS ChatRooms, TLAPS

(* What a handler has established at each of its awaits.  As long as its   *)
(* write has no excuse, the room state is what it has read.                *)
HandlerOK(r) ==
    LET q == req[r]
    IN  /\ q.at # "idle" => q.socket \in Socket
        /\ q.at # "idle" /\ q.op # "join" => q.msg \in Message
        /\ q.at \in {"emit", "publish"} => q.op # "join"
        /\ q.at = "publish" => q.msg \in shown
        /\ q.at \in {"touch", "resave"} =>
              /\ q.op = "send"
              /\ q.msg \in shown \cap (topic \cup unsent)
        /\ q.at = "save" => Me(r) \in q.copy
        /\ q.at \in {"save", "resave"} /\ ~q.excuse => Recorded \subseteq q.copy
        /\ q.at = "create" /\ ~q.excuse => Recorded = {}

RoomInv ==
    /\ TypeOK
    /\ \A r \in Request : HandlerOK(r)
    /\ JoinedIsRecorded
    /\ OkMeansPublished

(* A free slot. *)
LEMMA IdleSlot ==
    /\ Idle \in Requests
    /\ Idle.at = "idle" /\ Idle.op = "none" /\ Idle.msg = NoMessage
  BY DEF Idle, Requests

(* The handler goes on with what it has read, or excused.                  *)
LEMMA TwoFields ==
    ASSUME NEW f \in [Request -> Requests], NEW r \in Request, NEW users \in SUBSET User
    PROVE  /\ [f EXCEPT ![r].at = "save", ![r].copy = users] \in [Request -> Requests]
           /\ [f EXCEPT ![r].at = "create", ![r].excuse = TRUE] \in [Request -> Requests]
<1> DEFINE q == f[r]
<1>1. /\ [q EXCEPT !.at = "save", !.copy = users] \in Requests
      /\ [q EXCEPT !.at = "create", !.excuse = TRUE] \in Requests
  <2>1. q \in Requests
      OBVIOUS
  <2>2. QED
      BY <2>1 DEF Requests
<1>2. /\ [f EXCEPT ![r].at = "save", ![r].copy = users]
            = [f EXCEPT ![r] = [f[r] EXCEPT !.at = "save", !.copy = users]]
      /\ [f EXCEPT ![r].at = "create", ![r].excuse = TRUE]
            = [f EXCEPT ![r] = [f[r] EXCEPT !.at = "create", !.excuse = TRUE]]
    OBVIOUS
<1>3. QED
    BY <1>1, <1>2

LEMMA InitRoom == Init => RoomInv
  BY RoomConstants
  DEF Init, RoomInv, TypeOK, HandlerOK, JoinedIsRecorded, OkMeansPublished, Idle, Requests, Recorded

(* A write excuses every other handler that has read the state before it.  *)
LEMMA WriteTypes ==
    ASSUME RoomInv, NEW r \in Request, NEW users \in SUBSET User, Write(r, users)
    PROVE  /\ members' \in SUBSET User
           /\ excused' \in SUBSET User
           /\ req' \in [Request -> Requests]
<1>1. /\ req \in [Request -> Requests]
      /\ Recorded \subseteq User /\ excused \subseteq User
    BY DEF RoomInv, TypeOK, Recorded
<1>2. \A q \in Request : [req[q] EXCEPT !.excuse = TRUE] \in Requests
    BY <1>1 DEF Requests
<1>3. req' \in [Request -> Requests]
    BY <1>1, <1>2, IdleSlot DEF Write
<1>4. QED
    BY <1>1, <1>3 DEF Write

LEMMA AskStep ==
    ASSUME RoomInv, NEW r \in Request, Ask(r)
    PROVE  RoomInv'
<1>1. TypeOK'
    BY IdleSlot, RoomConstants
    DEF RoomInv, TypeOK, HandlerOK, Requests, Me, Recorded, Ask, GoTo, Done, sockets,
        state, chat
<1>2. ASSUME NEW q \in Request PROVE HandlerOK(q)'
    BY IdleSlot, RoomConstants
    DEF RoomInv, TypeOK, HandlerOK, Requests, Me, Recorded, Ask, GoTo, Done, sockets,
        state, chat
<1>3. JoinedIsRecorded'
    BY IdleSlot, RoomConstants
    DEF RoomInv, TypeOK, HandlerOK, JoinedIsRecorded, Requests, Me, Recorded, Ask, GoTo,
        Done, sockets, state, chat
<1>4. OkMeansPublished'
    BY IdleSlot, RoomConstants
    DEF RoomInv, TypeOK, OkMeansPublished, Requests, Ask, GoTo, Done, sockets, state, chat
<1>5. QED
    BY <1>1, <1>2, <1>3, <1>4 DEF RoomInv

LEMMA EnterStep ==
    ASSUME RoomInv, NEW r \in Request, Enter(r)
    PROVE  RoomInv'
<1>1. TypeOK'
    BY IdleSlot, RoomConstants
    DEF RoomInv, TypeOK, HandlerOK, Requests, Me, Recorded, Enter, Fault, GoTo, Done,
        state, chat
<1>2. ASSUME NEW q \in Request PROVE HandlerOK(q)'
    BY IdleSlot, RoomConstants
    DEF RoomInv, TypeOK, HandlerOK, Requests, Me, Recorded, Enter, Fault, GoTo, Done,
        state, chat
<1>3. JoinedIsRecorded'
    BY IdleSlot, RoomConstants
    DEF RoomInv, TypeOK, HandlerOK, JoinedIsRecorded, Requests, Me, Recorded, Enter,
        GoTo, Done, state, chat
<1>4. OkMeansPublished'
    BY IdleSlot, RoomConstants
    DEF RoomInv, TypeOK, OkMeansPublished, Requests, Enter, GoTo, Done, state, chat
<1>5. QED
    BY <1>1, <1>2, <1>3, <1>4 DEF RoomInv

LEMMA GetRoomStep ==
    ASSUME RoomInv, NEW r \in Request, GetRoom(r)
    PROVE  RoomInv'
<1>1. TypeOK'
  <2>1. UNCHANGED <<online, inRoom, joined, members, excused, shown, topic, unsent, acked>>
      BY DEF GetRoom, sockets, state, chat
  <2>2. members # NoRoom => Added(members, Me(r)) \in SUBSET User
      BY RoomConstants DEF RoomInv, TypeOK, HandlerOK, GetRoom, Added, Me
  <2>3. faults' \in 0..MaxFaults
      BY RoomConstants DEF RoomInv, TypeOK, GetRoom, Fault
  <2>4. req' \in [Request -> Requests]
    <3>1. req \in [Request -> Requests]
        BY DEF RoomInv, TypeOK
    <3>2. CASE /\ members # NoRoom
               /\ req' = [req EXCEPT ![r].at = "save", ![r].copy = Added(members, Me(r))]
        BY <2>2, <3>1, <3>2, TwoFields
    <3>3. CASE GoTo(r, "create")
        BY <3>1, <3>3 DEF GoTo, Requests
    <3>4. CASE req' = [req EXCEPT ![r].at = "create", ![r].excuse = TRUE]
        BY <3>1, <3>4, TwoFields
    <3>5. QED
        BY <3>2, <3>3, <3>4 DEF GetRoom
  <2>5. QED
      BY <2>1, <2>3, <2>4 DEF RoomInv, TypeOK
<1>2. ASSUME NEW q \in Request PROVE HandlerOK(q)'
    BY IdleSlot, RoomConstants
    DEF RoomInv, TypeOK, HandlerOK, Requests, Me, Recorded, GetRoom, Fault, GoTo, Added,
        sockets, state, chat
<1>3. JoinedIsRecorded'
    BY IdleSlot, RoomConstants
    DEF RoomInv, TypeOK, HandlerOK, JoinedIsRecorded, Requests, Me, Recorded, GetRoom,
        GoTo, Added, sockets, state, chat
<1>4. OkMeansPublished'
    BY IdleSlot, RoomConstants
    DEF RoomInv, TypeOK, OkMeansPublished, Requests, GetRoom, GoTo, Added, sockets, state,
        chat
<1>5. QED
    BY <1>1, <1>2, <1>3, <1>4 DEF RoomInv

LEMMA SaveMemberStep ==
    ASSUME RoomInv, NEW r \in Request, SaveMember(r)
    PROVE  RoomInv'
<1>1. TypeOK'
  <2>1. /\ UNCHANGED <<online, inRoom, shown, topic, unsent, acked>>
        /\ joined' \subseteq inRoom' \cap online'
        /\ faults' \in 0..MaxFaults
      BY RoomConstants DEF RoomInv, TypeOK, SaveMember, JoinOk, Fault, chat
  <2>2. CASE Write(r, req[r].copy)
    <3>1. req[r].copy \in SUBSET User
        BY DEF RoomInv, TypeOK, Requests
    <3>2. QED
        BY <2>1, <2>2, <3>1, WriteTypes DEF RoomInv, TypeOK
  <2>3. CASE req' = [req EXCEPT ![r].at = "create", ![r].excuse = TRUE] /\ UNCHANGED state
      BY <2>1, <2>3, TwoFields DEF RoomInv, TypeOK, state
  <2>4. QED
      BY <2>2, <2>3 DEF SaveMember
<1>2. ASSUME NEW q \in Request PROVE HandlerOK(q)'
    BY IdleSlot, RoomConstants
    DEF RoomInv, TypeOK, HandlerOK, Requests, Me, Recorded, SaveMember, Fault, Write,
        JoinOk, state, chat
<1>3. JoinedIsRecorded'
    BY IdleSlot, RoomConstants
    DEF RoomInv, TypeOK, HandlerOK, JoinedIsRecorded, Requests, Me, Recorded,
        SaveMember, Write, JoinOk, state, chat
<1>4. OkMeansPublished'
    BY IdleSlot, RoomConstants
    DEF RoomInv, TypeOK, OkMeansPublished, Requests, SaveMember, Write, JoinOk, state, chat
<1>5. QED
    BY <1>1, <1>2, <1>3, <1>4 DEF RoomInv

LEMMA CreateRoomStep ==
    ASSUME RoomInv, NEW r \in Request, CreateRoom(r)
    PROVE  RoomInv'
<1>1. TypeOK'
  <2>1. /\ UNCHANGED <<online, inRoom, shown, topic, unsent, acked>>
        /\ joined' \subseteq inRoom' \cap online'
        /\ faults' \in 0..MaxFaults
      BY RoomConstants DEF RoomInv, TypeOK, CreateRoom, JoinOk, Fault, chat
  <2>2. CASE Write(r, {Me(r)})
    <3>1. {Me(r)} \in SUBSET User
        BY RoomConstants DEF RoomInv, HandlerOK, Me, CreateRoom
    <3>2. QED
        BY <2>1, <2>2, <3>1, WriteTypes DEF RoomInv, TypeOK
  <2>3. CASE Done(r) /\ UNCHANGED state
      BY <2>1, <2>3, IdleSlot DEF RoomInv, TypeOK, Done, state
  <2>4. QED
      BY <2>2, <2>3 DEF CreateRoom
<1>2. ASSUME NEW q \in Request PROVE HandlerOK(q)'
    BY IdleSlot, RoomConstants
    DEF RoomInv, TypeOK, HandlerOK, Requests, Me, Recorded, CreateRoom, Fault, Write,
        JoinOk, Done, state, chat
<1>3. JoinedIsRecorded'
    BY IdleSlot, RoomConstants
    DEF RoomInv, TypeOK, HandlerOK, JoinedIsRecorded, Requests, Me, Recorded,
        CreateRoom, Write, JoinOk, Done, state, chat
<1>4. OkMeansPublished'
    BY IdleSlot, RoomConstants
    DEF RoomInv, TypeOK, OkMeansPublished, Requests, CreateRoom, Write, JoinOk, Done, state,
        chat
<1>5. QED
    BY <1>1, <1>2, <1>3, <1>4 DEF RoomInv

LEMMA EmitStep ==
    ASSUME RoomInv, NEW r \in Request, Emit(r)
    PROVE  RoomInv'
<1>1. TypeOK'
    BY IdleSlot, RoomConstants
    DEF RoomInv, TypeOK, HandlerOK, Requests, Me, Recorded, Emit, Acked, GoTo, Done, Sent,
        sockets, state
<1>2. ASSUME NEW q \in Request PROVE HandlerOK(q)'
    BY IdleSlot, RoomConstants
    DEF RoomInv, TypeOK, HandlerOK, Requests, Me, Recorded, Emit, Acked, GoTo, Done, Sent,
        sockets, state
<1>3. JoinedIsRecorded'
    BY IdleSlot, RoomConstants
    DEF RoomInv, TypeOK, HandlerOK, JoinedIsRecorded, Requests, Me, Recorded, Emit, Acked,
        GoTo, Done, Sent, sockets, state
<1>4. OkMeansPublished'
    BY IdleSlot, RoomConstants
    DEF RoomInv, TypeOK, HandlerOK, OkMeansPublished, Requests, Emit, Acked, GoTo, Done, Sent, sockets, state
<1>5. QED
    BY <1>1, <1>2, <1>3, <1>4 DEF RoomInv

LEMMA PublishStep ==
    ASSUME RoomInv, NEW r \in Request, Publish(r)
    PROVE  RoomInv'
<1>1. TypeOK'
    BY IdleSlot, RoomConstants
    DEF RoomInv, TypeOK, HandlerOK, Requests, Me, Recorded, Publish, Acked, Fault, GoTo, Done,
        Sent, sockets, state
<1>2. ASSUME NEW q \in Request PROVE HandlerOK(q)'
    BY IdleSlot, RoomConstants
    DEF RoomInv, TypeOK, HandlerOK, Requests, Me, Recorded, Publish, Acked, Fault, GoTo, Done,
        Sent, sockets, state
<1>3. JoinedIsRecorded'
    BY IdleSlot, RoomConstants
    DEF RoomInv, TypeOK, HandlerOK, JoinedIsRecorded, Requests, Me, Recorded, Publish, Acked,
        GoTo, Done, Sent, sockets, state
<1>4. OkMeansPublished'
    BY IdleSlot, RoomConstants
    DEF RoomInv, TypeOK, HandlerOK, OkMeansPublished, Requests, Publish, Acked, GoTo, Done, Sent, sockets,
        state
<1>5. QED
    BY <1>1, <1>2, <1>3, <1>4 DEF RoomInv

LEMMA ReadActivityStep ==
    ASSUME RoomInv, NEW r \in Request, ReadActivity(r)
    PROVE  RoomInv'
<1>1. TypeOK'
    BY IdleSlot, RoomConstants
    DEF RoomInv, TypeOK, HandlerOK, Requests, Me, Recorded, ReadActivity, Acked, Fault, Done,
        sockets, state, chat
<1>2. ASSUME NEW q \in Request PROVE HandlerOK(q)'
    BY IdleSlot, RoomConstants
    DEF RoomInv, TypeOK, HandlerOK, Requests, Me, Recorded, ReadActivity, Acked, Fault, Done,
        sockets, state, chat
<1>3. JoinedIsRecorded'
    BY IdleSlot, RoomConstants
    DEF RoomInv, TypeOK, HandlerOK, JoinedIsRecorded, Requests, Me, Recorded,
        ReadActivity, Done, sockets, state, chat
<1>4. OkMeansPublished'
    BY IdleSlot, RoomConstants
    DEF RoomInv, TypeOK, HandlerOK, OkMeansPublished, Requests, ReadActivity, Acked, Done,
        sockets, state,
        chat
<1>5. QED
    BY <1>1, <1>2, <1>3, <1>4 DEF RoomInv

LEMMA SaveActivityStep ==
    ASSUME RoomInv, NEW r \in Request, SaveActivity(r)
    PROVE  RoomInv'
<1>1. TypeOK'
  <2>1. /\ UNCHANGED <<online, inRoom, joined, shown, topic, unsent>>
        /\ faults' \in 0..MaxFaults
        /\ acked' \subseteq shown
      BY RoomConstants DEF RoomInv, TypeOK, HandlerOK, SaveActivity, Acked, Fault, sockets
  <2>2. CASE Write(r, req[r].copy)
    <3>1. req[r].copy \in SUBSET User
        BY DEF RoomInv, TypeOK, Requests
    <3>2. QED
        BY <2>1, <2>2, <3>1, WriteTypes DEF RoomInv, TypeOK
  <2>3. CASE Done(r) /\ UNCHANGED state
      BY <2>1, <2>3, IdleSlot DEF RoomInv, TypeOK, Done, state
  <2>4. QED
      BY <2>2, <2>3 DEF SaveActivity
<1>2. ASSUME NEW q \in Request PROVE HandlerOK(q)'
    BY IdleSlot, RoomConstants
    DEF RoomInv, TypeOK, HandlerOK, Requests, Me, Recorded, SaveActivity, Acked, Fault, Write,
        Done, sockets, state, chat
<1>3. JoinedIsRecorded'
    BY IdleSlot, RoomConstants
    DEF RoomInv, TypeOK, HandlerOK, JoinedIsRecorded, Requests, Me, Recorded,
        SaveActivity, Write, Done, sockets, state, chat
<1>4. OkMeansPublished'
    BY IdleSlot, RoomConstants
    DEF RoomInv, TypeOK, HandlerOK, OkMeansPublished, Requests, SaveActivity, Acked, Write, Done, sockets,
        state, chat
<1>5. QED
    BY <1>1, <1>2, <1>3, <1>4 DEF RoomInv

LEMMA BeginStep ==
    ASSUME RoomInv, NEW r \in Request, NEW s \in Socket,
           Join(r, s) \/ \E m \in Message : Send(r, s, m, "send") \/ Send(r, s, m, "post")
    PROVE  RoomInv'
<1>1. PICK op, m :
         /\ Begin(r, op, s, m)
         /\ \/ op = "join" /\ m = NoMessage
            \/ op \in {"send", "post"} /\ m \in Message
    BY DEF Join, Send
<1>2. /\ UNCHANGED <<sockets, state, chat, faults>>
      /\ req[r].at = "idle"
    BY DEF Join, Send
<1> DEFINE new == [op |-> op, at |-> "ask", socket |-> s, msg |-> m, copy |-> {}, excuse |-> FALSE]
<1>3. new \in Requests
    BY <1>1 DEF Requests
<1>4. req' = [req EXCEPT ![r] = new] /\ req \in [Request -> Requests]
    BY <1>1 DEF Begin, RoomInv, TypeOK
<1>5. TypeOK'
    BY <1>2, <1>3, <1>4 DEF RoomInv, TypeOK, sockets, state, chat
<1>6. ASSUME NEW q \in Request PROVE HandlerOK(q)'
    BY <1>1, <1>2, <1>4 DEF RoomInv, HandlerOK, Me, Recorded, state, chat
<1>7. JoinedIsRecorded'
    BY <1>2 DEF RoomInv, JoinedIsRecorded, Recorded, sockets, state
<1>8. OkMeansPublished'
    BY <1>2, <1>4 DEF RoomInv, OkMeansPublished, chat
<1>9. QED
    BY <1>5, <1>6, <1>7, <1>8 DEF RoomInv

LEMMA SocketStep ==
    ASSUME RoomInv, NEW s \in Socket, Leave(s) \/ Disconnect(s)
    PROVE  RoomInv'
<1>1. /\ UNCHANGED <<members, excused, shown, topic, unsent, acked, req, faults>>
      /\ online' \subseteq online /\ inRoom' \subseteq inRoom /\ joined' \subseteq joined
      /\ joined' \subseteq inRoom' \cap online'
    BY DEF RoomInv, TypeOK, Leave, Disconnect, state, chat
<1>2. TypeOK'
    BY <1>1 DEF RoomInv, TypeOK
<1>3. QED
    BY <1>1, <1>2 DEF RoomInv, HandlerOK, JoinedIsRecorded, OkMeansPublished, Me, Recorded

LEMMA ExpiryStep ==
    ASSUME RoomInv, RoomExpires
    PROVE  RoomInv'
<1>1. /\ UNCHANGED <<online, inRoom, joined, shown, topic, unsent, acked, req, faults>>
      /\ members' = NoRoom /\ excused' = excused \cup Recorded /\ Recorded' = {}
      /\ \A r \in Request : req[r].at \notin {"save", "resave"}
    BY DEF RoomExpires, Recorded, sockets, chat
<1>2. TypeOK'
    BY <1>1 DEF RoomInv, TypeOK, Recorded
<1>3. \A r \in Request : HandlerOK(r)'
    BY <1>1 DEF RoomInv, HandlerOK, Me
<1>4. JoinedIsRecorded'
    BY <1>1 DEF RoomInv, JoinedIsRecorded
<1>5. OkMeansPublished'
    BY <1>1 DEF RoomInv, OkMeansPublished
<1>6. QED
    BY <1>2, <1>3, <1>4, <1>5 DEF RoomInv

(* A crash ends handlers and takes sockets away; it answers nobody.        *)
LEMMA CrashStep ==
    ASSUME RoomInv, NEW gone \in SUBSET Socket, Crash(gone)
    PROVE  RoomInv'
<1>1. /\ UNCHANGED <<members, excused, shown, topic, unsent, acked>>
      /\ online' = online \ gone /\ inRoom' = inRoom \ gone /\ joined' = joined \ gone
      /\ faults' \in 0..MaxFaults
      /\ \A r \in Request : req'[r] = IF req[r].socket \in gone THEN Idle ELSE req[r]
      /\ req' \in [Request -> Requests]
    BY IdleSlot, RoomConstants DEF RoomInv, TypeOK, Crash, Fault, state, chat
<1>2. TypeOK'
    BY <1>1 DEF RoomInv, TypeOK
<1>3. \A r \in Request : HandlerOK(r)'
    BY <1>1, IdleSlot DEF RoomInv, HandlerOK, Me, Recorded
<1>4. JoinedIsRecorded'
    BY <1>1 DEF RoomInv, JoinedIsRecorded, Recorded
<1>5. OkMeansPublished'
    BY <1>1 DEF RoomInv, OkMeansPublished
<1>6. QED
    BY <1>2, <1>3, <1>4, <1>5 DEF RoomInv

LEMMA RoomStep == RoomInv /\ [Next]_vars => RoomInv'
<1> SUFFICES ASSUME RoomInv, [Next]_vars PROVE RoomInv'
    OBVIOUS
<1>1. ASSUME NEW r \in Request, HandlerStep(r) PROVE RoomInv'
    BY <1>1, AskStep, EnterStep, GetRoomStep, SaveMemberStep, CreateRoomStep, EmitStep,
       PublishStep, ReadActivityStep, SaveActivityStep DEF HandlerStep
<1>2. CASE UNCHANGED vars
    BY <1>2 DEF RoomInv, TypeOK, HandlerOK, JoinedIsRecorded, OkMeansPublished, Me, Recorded,
       vars, sockets, state, chat
<1>3. QED
    BY <1>1, <1>2, BeginStep, SocketStep, ExpiryStep, CrashStep DEF Next

LEMMA RoomInvariance == Spec => []RoomInv
  BY InitRoom, RoomStep, PTL DEF Spec

(* Every variable keeps its type; only a connected socket in the room is   *)
(* told that it joined, and nothing reaches Kafka that the room has not    *)
(* seen (282-304 of chat.ts).                                              *)
THEOREM RoomTypeCorrect == Spec => []TypeOK
<1>1. RoomInv => TypeOK
    BY DEF RoomInv
<1>2. QED
    BY <1>1, RoomInvariance, PTL

(* Whoever was told that it joined is in the room state (157-167), but for *)
(* writes that overlap, failing commands and the expiry of the state.      *)
THEOREM JoinedRecorded == Spec => []JoinedIsRecorded
<1>1. RoomInv => JoinedIsRecorded
    BY DEF RoomInv
<1>2. QED
    BY <1>1, RoomInvariance, PTL

(* A message answered "ok" is in chat.messages, unless the producer was    *)
(* not connected when it was broadcast (285-310): every failure but that   *)
(* one, which the "ok" covers up, is kept from being answered "ok".        *)
THEOREM OkPublished == Spec => []OkMeansPublished
<1>1. RoomInv => OkMeansPublished
    BY DEF RoomInv
<1>2. QED
    BY <1>1, RoomInvariance, PTL
=============================================================================
