--------------------------- MODULE RoomAuthorizer ---------------------------
(***************************************************************************)
(* Who may join, send in and moderate one conversation: RoomAuthorizer of  *)
(* socket-service, its answers cached in Redis, the bans and mutes that    *)
(* RoomModeration sets, and the handlers of the chat namespace that ask    *)
(* it.  Several handlers run at once, on one or on several processes, and  *)
(* interleave at every await; a step of the model is what runs between     *)
(* two of them.  Redis and MongoDB are external and each operation atomic. *)
(*                                                                         *)
(* The participants of the conversation are changed by another process,    *)
(* the conversation-persistence consumer, which knows nothing of the       *)
(* cached answers.                                                         *)
(***************************************************************************)
EXTENDS Naturals, FiniteSets

CONSTANTS
    User, Target,       \* all users; those whom moderators act upon
    Role, Moderating,   \* participant roles; those that may moderate
    NoRole,             \* not a participant, or nothing cached
    Project,            \* the project the sockets of the room belong to
    Request,            \* slots for handlers running at once
    Nobody,             \* the user of a slot that is free
    InitRole,           \* the participants at the start
    Offered             \* Offered[u]: the operations u uses in this instance

(* The cache key of an answer holds the project the caller names; who      *)
(* names none, as RoomModeration does, gets the key of "default".          *)
Default == "default"
Scope == {Default, Project}

ASSUME AuthorizerConstants ==
    /\ Target \subseteq User
    /\ Moderating \subseteq Role
    /\ NoRole \notin Role
    /\ Nobody \notin User
    /\ InitRole \in [User -> Role \cup {NoRole}]
    /\ Offered \in [User -> SUBSET {"join", "send", "moderate", "kick", "setRole",
                                    "ban", "unban", "mute", "unmute", "react", "pin"}]

VARIABLES
    role,       \* role[u]: of u among conversation.participants
    banned,     \* users with a ban key in Redis
    muted,      \* users with a mute key in Redis
    authz,      \* authz[k][u]: the role in the cached answer of key k for u
    leftover,   \* history: <<k, u>> whose answer outlived a ban of u
    inside,     \* users with a socket in the room
    req         \* req[r]: the handler running in slot r

vars == <<role, banned, muted, authz, leftover, inside, req>>
data == <<role, banned, muted, authz, leftover, inside>>

Sanctions == {"ban", "unban", "mute", "unmute"}

(* Reacting to a message and pinning one reach the room with no question   *)
(* to the authorizer: the socket need only be in the room.                 *)
Unchecked == {"react", "pin"}

(* target and give stay empty in a request without them; found is the role *)
(* its check came upon, until the answer is cached.                        *)
Requests == [op : {"none"} \cup UNION {Offered[u] : u \in User},
             at : {"idle", "cached", "banned", "member", "cache", "muted", "act", "invalidate"},
             user : User \cup {Nobody}, target : User \cup {Nobody},
             give : Role \cup {NoRole}, found : Role \cup {NoRole}]

Idle == [op |-> "none", at |-> "idle", user |-> Nobody, target |-> Nobody,
         give |-> NoRole, found |-> NoRole]

Init ==
    /\ role = InitRole
    /\ banned = {}
    /\ muted = {}
    /\ authz = [k \in Scope |-> [u \in User |-> NoRole]]
    /\ leftover = {}
    /\ inside = {}
    /\ req = [r \in Request |-> Idle]

KeyOf(op) == IF op \in Sanctions \cup {"kick"} THEN Default ELSE Project

GoTo(r, step) == req' = [req EXCEPT ![r].at = step]
Done(r) == req' = [req EXCEPT ![r] = Idle]

(* A client's event starts a handler that asks the authorizer.  To send, a *)
(* user need not be in the room: a forwarded message comes from another.   *)
Start(r, u) ==
    /\ req[r].at = "idle"
    /\ \E op \in Offered[u] \ Unchecked, t \in Target \cup {Nobody}, give \in Role \cup {NoRole} :
          /\ (op \in Sanctions \cup {"setRole"}) <=> (t # Nobody)
          /\ (op = "setRole") <=> (give # NoRole)
          /\ req' = [req EXCEPT ![r] = [op |-> op, at |-> "cached", user |-> u,
                        target |-> t, give |-> give, found |-> NoRole]]
    /\ UNCHANGED data

(* A reaction or a pin of a user in the room goes straight to its          *)
(* broadcast; neither a ban nor a mute puts the socket out of the room.    *)
StartUnchecked(r, u) ==
    /\ req[r].at = "idle"
    /\ u \in inside
    /\ \E op \in Offered[u] \cap Unchecked :
          req' = [req EXCEPT ![r] = [op |-> op, at |-> "act", user |-> u,
                     target |-> Nobody, give |-> NoRole, found |-> NoRole]]
    /\ UNCHANGED data

-----------------------------------------------------------------------------
(* canJoinRoom, and what canSendMessage and canModerate add to it. *)

Enter(r, step) == req' = [req EXCEPT ![r].at = step, ![r].found = NoRole]

(* Seeded fault: whoever may join may send. *)
GrantedUnasked(r, found) ==
    IF req[r].op \in {"join", "send"} \/ found \in Moderating
    THEN Enter(r, "act") ELSE Done(r)

(* The check ends well with role found: joining may go on, sending asks    *)
(* for the mute key first, and moderating needs one of the roles for it.   *)
Granted(r, found) ==
    CASE req[r].op = "join" -> Enter(r, "act")
      [] req[r].op = "send" -> Enter(r, "muted")
      [] OTHER -> IF found \in Moderating THEN Enter(r, "act") ELSE Done(r)

CheckCache(r) ==
    /\ req[r].at = "cached"
    /\ LET answer == authz[KeyOf(req[r].op)][req[r].user]
       IN  IF answer # NoRole THEN Granted(r, answer) ELSE GoTo(r, "banned")
    /\ UNCHANGED data

(* Seeded fault: the ban key is looked for where it never is. *)
CheckBanElsewhere(r) ==
    /\ req[r].at = "banned"
    /\ GoTo(r, "member")
    /\ UNCHANGED data

CheckBan(r) ==
    /\ req[r].at = "banned"
    /\ IF req[r].user \in banned THEN Done(r) ELSE GoTo(r, "member")
    /\ UNCHANGED data

(* Seeded fault: that nobody is a participant is cached, too. *)
CheckMembershipAnyRole(r) ==
    /\ req[r].at = "member"
    /\ req' = [req EXCEPT ![r].found = role[req[r].user], ![r].at = "cache"]
    /\ UNCHANGED data

CheckMembership(r) ==
    /\ req[r].at = "member"
    /\ LET found == role[req[r].user]
       IN  IF found = NoRole THEN Done(r)
           ELSE req' = [req EXCEPT ![r].found = found, ![r].at = "cache"]
    /\ UNCHANGED data

(* Only a positive answer is cached, and it is cached as it was found. *)
CacheAnswer(r) ==
    /\ req[r].at = "cache"
    /\ LET k == KeyOf(req[r].op)
           u == req[r].user
       IN  /\ authz' = [authz EXCEPT ![k][u] = req[r].found]
           /\ leftover' = IF u \in banned THEN leftover \cup {<<k, u>>} ELSE leftover
    /\ Granted(r, req[r].found)
    /\ UNCHANGED <<role, banned, muted, inside>>

CheckMute(r) ==
    /\ req[r].at = "muted"
    /\ IF req[r].user \in muted THEN Done(r) ELSE GoTo(r, "act")
    /\ UNCHANGED data

-----------------------------------------------------------------------------
(* What the handler does once it is allowed to. *)

(* The socket joins the room, the message, reaction or pin is broadcast,   *)
(* the message is archived, or the user kicked: kicking removes the user   *)
(* from the room state of a room named by the conversation, and no room    *)
(* has that name.                                                          *)
Act(r) ==
    /\ req[r].at = "act"
    /\ req[r].op \in {"join", "send", "moderate", "kick"} \cup Unchecked
    /\ inside' = IF req[r].op = "join" THEN inside \cup {req[r].user} ELSE inside
    /\ Done(r)
    /\ UNCHANGED <<role, banned, muted, authz, leftover>>

(* leaveRoom, or the last socket of the user disconnects. *)
Leave(u) ==
    /\ u \in inside
    /\ inside' = inside \ {u}
    /\ UNCHANGED <<role, banned, muted, authz, leftover, req>>

Ban(r) ==
    /\ req[r].op = "ban"
    /\ banned' = banned \cup {req[r].target}
    /\ UNCHANGED <<role, muted, leftover>>

Unban(r) ==
    /\ req[r].op = "unban"
    /\ banned' = banned \ {req[r].target}
    /\ leftover' = leftover \ (Scope \X {req[r].target})
    /\ UNCHANGED <<role, muted>>

Mute(r) ==
    /\ req[r].op = "mute"
    /\ muted' = muted \cup {req[r].target}
    /\ UNCHANGED <<role, banned, leftover>>

Unmute(r) ==
    /\ req[r].op = "unmute"
    /\ muted' = muted \ {req[r].target}
    /\ UNCHANGED <<role, banned, leftover>>

(* The role of a participant is set; who is none matches no document. *)
UpdateRole(r) ==
    /\ req[r].op = "setRole"
    /\ role' = [role EXCEPT ![req[r].target] = IF @ = NoRole THEN @ ELSE req[r].give]
    /\ UNCHANGED <<banned, muted, leftover>>

Change(r) ==
    /\ req[r].at = "act"
    /\ Ban(r) \/ Unban(r) \/ Mute(r) \/ Unmute(r) \/ UpdateRole(r)
    /\ GoTo(r, "invalidate")
    /\ UNCHANGED <<authz, inside>>

(* Seeded fault: the answers cached for the moderator are dropped instead. *)
InvalidateOwn(r) ==
    /\ req[r].at = "invalidate"
    /\ LET k == KeyOf(req[r].op)
           u == req[r].user
       IN  /\ authz' = [authz EXCEPT ![k][u] = NoRole]
           /\ leftover' = leftover \ {<<k, u>>}
    /\ Done(r)
    /\ UNCHANGED <<role, banned, muted, inside>>

(* invalidateCache, under the key of the project its caller names. *)
Invalidate(r) ==
    /\ req[r].at = "invalidate"
    /\ LET k == KeyOf(req[r].op)
           u == req[r].target
       IN  /\ authz' = [authz EXCEPT ![k][u] = NoRole]
           /\ leftover' = leftover \ {<<k, u>>}
    /\ Done(r)
    /\ UNCHANGED <<role, banned, muted, inside>>

(* A call throws and the handler ends there, answering an error or not at  *)
(* all; what a ban that fails to invalidate leaves cached outlives it.     *)
Throws(r) ==
    /\ req[r].at \in {"cached", "banned", "member", "cache", "muted", "act", "invalidate"}
    /\ leftover' = IF req[r].at = "invalidate" /\ req[r].target \in banned
                   THEN leftover \cup {<<Default, req[r].target>>}
                   ELSE leftover
    /\ Done(r)
    /\ UNCHANGED <<role, banned, muted, authz, inside>>

-----------------------------------------------------------------------------
(* Redis expires keys; participants come and go by their own events. *)

(* Seeded fault: the answer is set without a time to live. *)
AnswerStays(k, u) == authz[k][u] # NoRole /\ UNCHANGED vars

AnswerExpires(k, u) ==
    /\ authz[k][u] # NoRole
    /\ authz' = [authz EXCEPT ![k][u] = NoRole]
    /\ leftover' = leftover \ {<<k, u>>}
    /\ UNCHANGED <<role, banned, muted, inside, req>>

(* A ban or a mute given for durationSeconds ends. *)
SanctionExpires(u) ==
    /\ \/ /\ u \in banned
          /\ banned' = banned \ {u}
          /\ leftover' = leftover \ (Scope \X {u})
          /\ UNCHANGED muted
       \/ /\ u \in muted
          /\ muted' = muted \ {u}
          /\ UNCHANGED <<banned, leftover>>
    /\ UNCHANGED <<role, authz, inside, req>>

(* $addToSet: a second entry of a participant stays behind the first, and  *)
(* both the authorizer and the role update look at the first only.         *)
ParticipantAdded(u, given) ==
    /\ role[u] = NoRole
    /\ role' = [role EXCEPT ![u] = given]
    /\ UNCHANGED <<banned, muted, authz, leftover, inside, req>>

ParticipantRemoved(u) ==
    /\ role[u] # NoRole
    /\ role' = [role EXCEPT ![u] = NoRole]
    /\ UNCHANGED <<banned, muted, authz, leftover, inside, req>>

-----------------------------------------------------------------------------
Step(r) ==
    \/ CheckCache(r) \/ CheckBan(r) \/ CheckMembership(r) \/ CacheAnswer(r)
    \/ CheckMute(r) \/ Act(r) \/ Change(r) \/ Invalidate(r)

Expiry == \E k \in Scope, u \in User : AnswerExpires(k, u)

Next ==
    \/ \E r \in Request :
          \/ \E u \in User : Start(r, u) \/ StartUnchecked(r, u)
          \/ Step(r)
          \/ Throws(r)
    \/ Expiry
    \/ \E u \in User : Leave(u)
    \/ \E u \in Target :
          \/ SanctionExpires(u)
          \/ ParticipantRemoved(u)
          \/ \E given \in Role : ParticipantAdded(u, given)

Spec == Init /\ [][Next]_vars

(* Awaited calls are answered, and Redis drops a key at the end of its     *)
(* time to live.  Nobody has to send an event, and a ban may last for ever.*)
Fairness ==
    /\ \A r \in Request : WF_vars(Step(r))
    /\ \A k \in Scope, u \in User : WF_vars(AnswerExpires(k, u))

FairSpec == Spec /\ Fairness

-----------------------------------------------------------------------------
(* Correctness. *)

(* Every variable has its type; only a positive answer is about to be      *)
(* cached (104), and what outlived a ban is an answer of somebody banned.  *)
TypeOK ==
    /\ role \in [User -> Role \cup {NoRole}]
    /\ banned \subseteq User
    /\ muted \subseteq User
    /\ authz \in [Scope -> [User -> Role \cup {NoRole}]]
    /\ leftover \subseteq Scope \X banned
    /\ inside \subseteq User
    /\ req \in [Request -> Requests]
    /\ \A r \in Request : req[r].at = "cache" <=> req[r].found # NoRole

(* Seen from u: no answer is cached for it, and no handler of it that asks *)
(* the authorizer is past the check of the ban.                            *)
Cleared(u) ==
    /\ \A k \in Scope : authz[k][u] = NoRole
    /\ \A r \in Request :
          req[r].user = u /\ req[r].op \notin Unchecked =>
              req[r].at \in {"idle", "cached", "banned"}

Sending(u) == \E r \in Request :
    req[r].user = u /\ req[r].op = "send" /\ req[r].at = "act"

(* Where the code asks, the answer holds.  Once a ban has taken hold,      *)
(* nothing but its end lets its user join, send or moderate again (67-74), *)
(* and once a mute is seen by all running handlers (125-132) no message    *)
(* its user sends, forwards or writes in a thread gets as far as the       *)
(* broadcast.  Nothing is said of reactions and pins, nor of the other     *)
(* events that ask only whether the socket is in the room: they reach the  *)
(* room in spite of both (chat.ts 772-843).                                *)
CheckedSanctionsHold ==
    [][\A u \in User :
          /\ u \in banned \cap banned' /\ Cleared(u) => Cleared(u)'
          /\ u \in muted \cap muted' /\ ~Sending(u) => ~Sending(u)']_vars

(* Where the code asks for it, every ban that is not lifted takes hold at  *)
(* last, though checks that read before it may cache their answers after   *)
(* it: each such answer is written by a check that began before, and       *)
(* expires (104, 293-294).                                                 *)
BanTakesHold == \A u \in Target : <>[](u \in banned) => <>[]Cleared(u)

(* Once u's role no longer changes, or u has left for good, the cached     *)
(* answers about u come to say so, under every key (104, 1095 of chat.ts). *)
CacheFollowsRole ==
    \A u \in Target, x \in Role \cup {NoRole} :
        <>[](role[u] = x) =>
            <>[](\A k \in Scope : authz[k][u] \in {x, NoRole})

(* When the sockets use the default project, an answer cached for a banned *)
(* user is about to be dropped by the ban, or was written by a check that  *)
(* was running when the ban was set, or its dropping failed (286-294).     *)
OnlyLateAnswersSurviveBan ==
    Project = Default =>
        \A u \in banned : authz[Default][u] # NoRole =>
            \/ <<Default, u>> \in leftover
            \/ \E r \in Request : /\ req[r].op = "ban" /\ req[r].target = u
                                  /\ req[r].at = "invalidate"
=============================================================================
