----------------------------- MODULE ChatRooms -----------------------------
(***************************************************************************)
(* One room of the chat namespace of socket-service: the sockets that      *)
(* joined it, the room state that RoomStateManager keeps of it in Redis as *)
(* one value, and the messages that are broadcast to it and then published *)
(* to Kafka, where MessagePersistence takes them up.                       *)
(*                                                                         *)
(* The handlers of several sockets, of one or of several processes, run at *)
(* once; a step of the model is what runs between two awaits that matter   *)
(* to the room.  What the rate limiter, the spam detector and the          *)
(* RoomAuthorizer answer is left open here.  Redis and Kafka are external, *)
(* each call to them is atomic, and MaxFaults of them fail.                *)
(***************************************************************************)
EXTENDS Naturals, FiniteSets

CONSTANTS
    Socket, User, UserOf,   \* each socket belongs to an authenticated user
    Message,                \* message ids, each generated once
    Request,                \* slots for handlers running at once
    NoRoom,                 \* the room state is absent
    NoSocket, NoMessage,    \* of a slot that is free
    MaxFaults               \* bound: failing calls

ASSUME RoomConstants ==
    /\ UserOf \in [Socket -> User]
    /\ NoRoom \notin SUBSET User
    /\ NoSocket \notin Socket
    /\ NoMessage \notin Message
    /\ MaxFaults \in Nat

VARIABLES
    online,     \* sockets that have not disconnected yet
    inRoom,     \* sockets in the Socket.IO room
    members,    \* the users in the room state, or NoRoom
    req,        \* req[r]: the handler running in slot r
    shown,      \* messages broadcast to the room
    topic,      \* messages in chat.messages
    joined,     \* history: sockets in the room whose join was answered "ok"
    excused,    \* history: users dropped from the state for a known reason
    unsent,     \* history: messages broadcast without a connected producer
    acked,      \* history: messages whose sender was answered "ok"
    faults      \* counter for the bound

sockets == <<online, inRoom, joined>>
state   == <<members, excused>>
chat    == <<shown, topic, unsent, acked>>
vars    == <<sockets, state, chat, req, faults>>

(* copy is the room state as the handler read it, with its own change.     *)
(* excuse says that its write may drop members: another handler has        *)
(* written since it read, or a Redis command of it failed.                 *)
Requests == [op : {"none", "join", "send", "post"},
             at : {"idle", "ask", "enter", "get", "save", "create",
                   "emit", "publish", "touch", "resave"},
             socket : Socket \cup {NoSocket}, msg : Message \cup {NoMessage},
             copy : SUBSET User, excuse : BOOLEAN]

Idle == [op |-> "none", at |-> "idle", socket |-> NoSocket, msg |-> NoMessage,
         copy |-> {}, excuse |-> FALSE]

Init ==
    /\ online = Socket
    /\ inRoom = {}
    /\ joined = {}
    /\ members = NoRoom
    /\ excused = {}
    /\ shown = {}
    /\ topic = {}
    /\ unsent = {}
    /\ acked = {}
    /\ req = [r \in Request |-> Idle]
    /\ faults = 0

Fault == faults < MaxFaults /\ faults' = faults + 1

Me(r) == UserOf[req[r].socket]
Recorded == IF members = NoRoom THEN {} ELSE members
Done(r) == req' = [req EXCEPT ![r] = Idle]
GoTo(r, step) == req' = [req EXCEPT ![r].at = step]
Begin(r, op, s, m) ==
    req' = [req EXCEPT ![r] = [op |-> op, at |-> "ask", socket |-> s, msg |-> m,
                               copy |-> {}, excuse |-> FALSE]]

(* setWithExpiry of the whole room state, the last call of its handler.    *)
Write(r, users) ==
    /\ members' = users
    /\ excused' = (excused \ users)
                     \cup (IF req[r].excuse THEN Recorded \ users ELSE {})
    /\ req' = [q \in Request |->
                  CASE q = r -> Idle
                    [] q # r /\ req[q].at \in {"save", "create", "resave"} ->
                          [req[q] EXCEPT !.excuse = TRUE]
                    [] OTHER -> req[q]]

-----------------------------------------------------------------------------
(* joinRoom *)

Join(r, s) ==
    /\ req[r].at = "idle"
    /\ s \in online
    /\ Begin(r, "join", s, NoMessage)
    /\ UNCHANGED <<sockets, state, chat, faults>>

(* The limits and the authorizer let the handler go on or end it. *)
Ask(r) ==
    /\ req[r].at = "ask"
    /\ \/ GoTo(r, IF req[r].op = "join" THEN "enter" ELSE "emit")
       \/ Done(r)
    /\ UNCHANGED <<sockets, state, chat, faults>>

(* socket.join: a socket that has meanwhile disconnected is added, too. *)
Enter(r) ==
    /\ req[r].at = "enter"
    /\ \/ inRoom' = inRoom \cup {req[r].socket} /\ GoTo(r, "get") /\ UNCHANGED faults
       \/ Fault /\ Done(r) /\ UNCHANGED inRoom
    /\ UNCHANGED <<online, joined, state, chat>>

(* Seeded fault: the joiner replaces the members instead of being added.   *)
AddedAlone(users, u) == {u}

Added(users, u) == users \cup {u}

(* addMember reads the state; without one, or on an error, it throws.      *)
GetRoom(r) ==
    /\ req[r].at = "get"
    /\ \/ /\ members # NoRoom
          /\ req' = [req EXCEPT ![r].at = "save", ![r].copy = Added(members, Me(r))]
          /\ UNCHANGED faults
       \/ members = NoRoom /\ GoTo(r, "create") /\ UNCHANGED faults
       \/ Fault /\ req' = [req EXCEPT ![r].at = "create", ![r].excuse = TRUE]
    /\ UNCHANGED <<sockets, state, chat>>

JoinOk(r) == joined' = joined \cup ({req[r].socket} \cap inRoom \cap online)

SaveMember(r) ==
    /\ req[r].at = "save"
    /\ \/ /\ Write(r, req[r].copy)
          /\ JoinOk(r)
          /\ UNCHANGED faults
       \/ /\ Fault
          /\ req' = [req EXCEPT ![r].at = "create", ![r].excuse = TRUE]
          /\ UNCHANGED <<state, joined>>
    /\ UNCHANGED <<online, inRoom, chat>>

(* The catch of joinRoom: createRoom knows of the joining user only.       *)
CreateRoom(r) ==
    /\ req[r].at = "create"
    /\ \/ /\ Write(r, {Me(r)})
          /\ JoinOk(r)
          /\ UNCHANGED faults
       \/ Fault /\ Done(r) /\ UNCHANGED <<state, joined>>
    /\ UNCHANGED <<online, inRoom, chat>>

(* The socket leaves; the room state is not told (removeMember is called   *)
(* by kickUser only, for a room named by the conversation: there is none). *)
Leave(s) ==
    /\ s \in inRoom \cap online
    /\ inRoom' = inRoom \ {s}
    /\ joined' = joined \ {s}
    /\ UNCHANGED <<online, state, chat, req, faults>>

Disconnect(s) ==
    /\ s \in online
    /\ online' = online \ {s}
    /\ inRoom' = inRoom \ {s}
    /\ joined' = joined \ {s}
    /\ UNCHANGED <<state, chat, req, faults>>

-----------------------------------------------------------------------------
(* sendMessage; and, as "post", message_react, message_forward and         *)
(* thread_reply, which do not touch the room state.                        *)

Send(r, s, m, op) ==
    /\ req[r].at = "idle"
    /\ s \in inRoom \cap online
    /\ m \notin shown /\ \A q \in Request : req[q].msg # m
    /\ Begin(r, op, s, m)
    /\ UNCHANGED <<sockets, state, chat, faults>>

(* The sender is answered "ok". *)
Acked(r) == acked' = acked \cup {req[r].msg}

(* The room state is touched first, or the handler answers and is done.    *)
Sent(r) ==
    IF req[r].op = "send" THEN GoTo(r, "touch") /\ UNCHANGED acked
                          ELSE Done(r) /\ Acked(r)

(* Seeded fault: without a connected producer nothing is broadcast.        *)
EmitConnected(r) ==
    /\ req[r].at = "emit"
    /\ \/ /\ shown' = shown \cup {req[r].msg}
          /\ GoTo(r, "publish")
          /\ UNCHANGED <<unsent, acked>>
       \/ /\ Sent(r)
          /\ unsent' = unsent \cup {req[r].msg}
          /\ UNCHANGED shown
    /\ UNCHANGED <<sockets, state, topic, faults>>

(* The message is broadcast; without a connected producer that is all, and *)
(* its sender is answered "ok" all the same.                               *)
Emit(r) ==
    /\ req[r].at = "emit"
    /\ shown' = shown \cup {req[r].msg}
    /\ \/ GoTo(r, "publish") /\ UNCHANGED <<unsent, acked>>
       \/ Sent(r) /\ unsent' = unsent \cup {req[r].msg}
    /\ UNCHANGED <<sockets, state, topic, faults>>

(* Seeded fault: publishMessage logs its error and returns. *)
PublishLogged(r) ==
    /\ req[r].at = "publish"
    /\ topic' \in {topic, topic \cup {req[r].msg}}
    /\ Sent(r)
    /\ UNCHANGED <<sockets, state, shown, unsent, faults>>

(* publishMessage throws when the producer has disconnected or the send    *)
(* fails, though a send that timed out may have reached the topic; the     *)
(* sender gets an error.                                                   *)
Publish(r) ==
    /\ req[r].at = "publish"
    /\ \/ topic' = topic \cup {req[r].msg} /\ Sent(r) /\ UNCHANGED faults
       \/ /\ Fault
          /\ topic' \in {topic, topic \cup {req[r].msg}}
          /\ Done(r)
          /\ UNCHANGED acked
    /\ UNCHANGED <<sockets, state, shown, unsent>>

(* updateActivity; its errors are swallowed. *)
ReadActivity(r) ==
    /\ req[r].at = "touch"
    /\ \/ /\ members # NoRoom
          /\ req' = [req EXCEPT ![r].at = "resave", ![r].copy = members]
          /\ UNCHANGED <<acked, faults>>
       \/ members = NoRoom /\ Done(r) /\ Acked(r) /\ UNCHANGED faults
       \/ Fault /\ Done(r) /\ Acked(r)
    /\ UNCHANGED <<sockets, state, shown, topic, unsent>>

SaveActivity(r) ==
    /\ req[r].at = "resave"
    /\ \/ Write(r, req[r].copy) /\ UNCHANGED faults
       \/ Fault /\ Done(r) /\ UNCHANGED state
    /\ Acked(r)
    /\ UNCHANGED <<sockets, shown, topic, unsent>>

-----------------------------------------------------------------------------
(* A day passes without a write; no handler takes that long. *)
RoomExpires ==
    /\ members # NoRoom
    /\ \A r \in Request : req[r].at \notin {"save", "resave"}
    /\ members' = NoRoom
    /\ excused' = excused \cup members
    /\ UNCHANGED <<sockets, chat, req, faults>>

(* A process ends with its sockets and their handlers: a kill, or a limit  *)
(* or authorizer call of joinRoom or sendMessage that rejects, since these *)
(* calls stand outside the try block and nobody handles their rejection.   *)
Crash(gone) ==
    /\ Fault
    /\ req' = [r \in Request |-> IF req[r].socket \in gone THEN Idle ELSE req[r]]
    /\ online' = online \ gone
    /\ inRoom' = inRoom \ gone
    /\ joined' = joined \ gone
    /\ UNCHANGED <<state, chat>>

-----------------------------------------------------------------------------
HandlerStep(r) ==
    \/ Ask(r) \/ Enter(r) \/ GetRoom(r) \/ SaveMember(r) \/ CreateRoom(r)
    \/ Emit(r) \/ Publish(r) \/ ReadActivity(r) \/ SaveActivity(r)

Next ==
    \/ \E r \in Request : HandlerStep(r)
    \/ \E r \in Request, s \in Socket : Join(r, s)
    \/ \E r \in Request, s \in Socket, m \in Message :
          Send(r, s, m, "send") \/ Send(r, s, m, "post")
    \/ \E s \in Socket : Leave(s) \/ Disconnect(s)
    \/ RoomExpires
    \/ \E gone \in SUBSET Socket \ {{}} : Crash(gone)

Spec == Init /\ [][Next]_vars

-----------------------------------------------------------------------------
(* Correctness. *)

(* Every variable has its type; only a connected socket in the room is     *)
(* told that it joined, and nothing reaches Kafka that the room has not    *)
(* seen (282-304 of chat.ts).                                              *)
TypeOK ==
    /\ online \subseteq Socket
    /\ inRoom \subseteq Socket
    /\ joined \subseteq inRoom \cap online
    /\ members = NoRoom \/ members \subseteq User
    /\ excused \subseteq User
    /\ shown \subseteq Message
    /\ topic \subseteq shown
    /\ unsent \subseteq shown
    /\ acked \subseteq shown
    /\ req \in [Request -> Requests]
    /\ faults \in 0..MaxFaults

(* Whoever was told that it joined, and has not left, is in the room state *)
(* (joinRoom 157-167), unless a Redis command failed, writes of the state  *)
(* overlapped, or the state expired: one handler at a time loses nobody,   *)
(* whatever other members do and however many sockets a user has.          *)
JoinedIsRecorded == \A s \in joined : UserOf[s] \in Recorded \cup excused

(* The sender of a message that was answered "ok" has it in chat.messages, *)
(* or the producer was not connected when the message was broadcast: then  *)
(* it is nowhere but on the screens, and the "ok" does not say so (285-310 *)
(* of chat.ts).  No other failure is covered up: a send that failed is     *)
(* answered by an error, and a handler that died answers nothing.          *)
OkMeansPublished == acked \subseteq topic \cup unsent
=============================================================================
