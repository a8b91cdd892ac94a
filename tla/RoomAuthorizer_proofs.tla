----------------------- MODULE RoomAuthorizer_proofs -----------------------
(***************************************************************************)
(* Proofs about RoomAuthorizer, for any number of users, roles and         *)
(* handlers, whatever they are offered: every variable keeps its type, an  *)
(* answer cached for a banned user is a late one, and a sanction that has  *)
(* taken hold holds on the paths that ask for it.                          *)
(***************************************************************************)
EXTENDS RoomAuthorizer, TLAPS

Ops == {"none"} \cup UNION {Offered[u] : u \in User}
Steps == {"idle", "cached", "banned", "member", "cache", "muted", "act", "invalidate"}
Slots == [op : Ops, at : Steps, user : User \cup {Nobody}, target : User \cup {Nobody},
          give : Role \cup {NoRole}, found : Role \cup {NoRole}]

LEMMA RequestsAreSlots == Requests = Slots
  BY DEF Requests, Slots, Ops, Steps

LEMMA IdleSlot ==
    /\ Idle \in Slots
    /\ Idle.at = "idle" /\ Idle.user = Nobody /\ Idle.found = NoRole /\ Idle.op = "none"
    /\ Nobody \notin User /\ NoRole \notin Role /\ Target \subseteq User
  BY AuthorizerConstants DEF Idle, Slots, Ops, Steps

(* A running handler is a user's; what changes a target has one.           *)
HandlerOK(r) ==
    LET q == req[r]
    IN  /\ q.at # "idle" => q.user \in User
        /\ q.at # "idle" /\ q.op \in Sanctions \cup {"setRole"} => q.target \in User
        /\ q.at = "invalidate" => q.op \in Sanctions \cup {"setRole"}

AuthInv ==
    /\ TypeOK
    /\ \A r \in Request : HandlerOK(r)
    /\ OnlyLateAnswersSurviveBan

LEMMA InitAuth == Init => AuthInv
<1> SUFFICES ASSUME Init PROVE AuthInv
    OBVIOUS
<1>1. req \in [Request -> Slots]
    BY IdleSlot DEF Init
<1>2. TypeOK
    BY <1>1, IdleSlot, RequestsAreSlots, AuthorizerConstants DEF Init, TypeOK
<1>3. QED
    BY <1>2, IdleSlot DEF Init, AuthInv, HandlerOK, OnlyLateAnswersSurviveBan

(* A handler goes on or ends without having changed anything.              *)
LEMMA GoesOn ==
    ASSUME AuthInv, NEW r \in Request, req[r].at \notin {"idle", "invalidate"},
           UNCHANGED <<role, banned, muted, authz, leftover>>, inside' \subseteq User,
           NEW step \in {"banned", "member", "muted", "act"},
           Done(r) \/ Enter(r, step) \/ (GoTo(r, step) /\ req[r].at # "cache")
    PROVE  AuthInv'
<1>1. req \in [Request -> Slots] /\ UNCHANGED <<role, banned, muted, authz, leftover>>
    BY RequestsAreSlots DEF AuthInv, TypeOK, data
<1>2. /\ req' \in [Request -> Slots]
      /\ \A q \in Request \ {r} : req'[q] = req[q]
      /\ \/ req'[r] = Idle
         \/ /\ UNCHANGED <<req[r].op, req[r].user, req[r].target>>
            /\ req'[r].at = step /\ req'[r].found = NoRole
  <2>1. CASE Done(r)
      BY <1>1, <2>1, IdleSlot DEF Done
  <2>2. CASE Enter(r, step)
      BY <1>1, <2>2 DEF Enter, Slots, Steps
  <2>3. CASE GoTo(r, step) /\ req[r].at # "cache"
    <3>1. req[r].found = NoRole
        BY <2>3 DEF AuthInv, TypeOK
    <3>2. QED
        BY <1>1, <2>3, <3>1 DEF GoTo, Slots, Steps
  <2>4. QED
      BY <2>1, <2>2, <2>3
<1>3. TypeOK'
    BY <1>1, <1>2, IdleSlot, RequestsAreSlots DEF AuthInv, TypeOK
<1>4. \A q \in Request : HandlerOK(q)'
    BY <1>1, <1>2, IdleSlot DEF AuthInv, HandlerOK
<1>5. OnlyLateAnswersSurviveBan'
    BY <1>1, <1>2 DEF AuthInv, OnlyLateAnswersSurviveBan
<1>6. QED
    BY <1>3, <1>4, <1>5 DEF AuthInv

LEMMA StartUncheckedStep ==
    ASSUME AuthInv, NEW r \in Request, NEW u \in User, StartUnchecked(r, u)
    PROVE  AuthInv'
<1>1. PICK op \in Offered[u] \cap Unchecked :
         req' = [req EXCEPT ![r] = [op |-> op, at |-> "act", user |-> u,
                    target |-> Nobody, give |-> NoRole, found |-> NoRole]]
    BY DEF StartUnchecked
<1> DEFINE new == [op |-> op, at |-> "act", user |-> u,
                   target |-> Nobody, give |-> NoRole, found |-> NoRole]
<1>2. new \in Slots
  <2>1. op \in Ops
      BY DEF Ops
  <2>2. QED
      BY <2>1 DEF Slots, Steps
<1>3. req' = [req EXCEPT ![r] = new] /\ req \in [Request -> Slots] /\ req[r].at = "idle"
    BY <1>1, RequestsAreSlots DEF StartUnchecked, AuthInv, TypeOK
<1>4. UNCHANGED <<role, banned, muted, authz, leftover, inside>>
    BY DEF StartUnchecked, data
<1>5. TypeOK'
  <2>1. req' \in [Request -> Slots]
      BY <1>2, <1>3
  <2>2. QED
      BY <1>3, <1>4, <2>1, RequestsAreSlots DEF AuthInv, TypeOK
<1>6. \A q \in Request : HandlerOK(q)'
    BY <1>1, <1>3 DEF AuthInv, HandlerOK, Unchecked, Sanctions
<1>7. OnlyLateAnswersSurviveBan'
    BY <1>3, <1>4 DEF AuthInv, OnlyLateAnswersSurviveBan
<1>8. QED
    BY <1>5, <1>6, <1>7 DEF AuthInv

LEMMA StartStep ==
    ASSUME AuthInv, NEW r \in Request, NEW u \in User, Start(r, u)
    PROVE  AuthInv'
<1>1. PICK op \in Offered[u] \ Unchecked, t \in Target \cup {Nobody}, give \in Role \cup {NoRole} :
         /\ (op \in Sanctions \cup {"setRole"}) <=> (t # Nobody)
         /\ req' = [req EXCEPT ![r] = [op |-> op, at |-> "cached", user |-> u,
                       target |-> t, give |-> give, found |-> NoRole]]
    BY DEF Start
<1> DEFINE new == [op |-> op, at |-> "cached", user |-> u, target |-> t, give |-> give, found |-> NoRole]
<1>2. new \in Slots
  <2>1. op \in Ops
      BY DEF Ops
  <2>2. QED
      BY <2>1, IdleSlot DEF Slots, Steps
<1>3. req' = [req EXCEPT ![r] = new] /\ req \in [Request -> Slots] /\ req[r].at = "idle"
    BY <1>1, RequestsAreSlots DEF Start, AuthInv, TypeOK
<1>4. UNCHANGED <<role, banned, muted, authz, leftover, inside>>
    BY DEF Start, data
<1>5. req' \in [Request -> Slots]
    BY <1>2, <1>3
<1>6. TypeOK'
    BY <1>3, <1>4, <1>5, RequestsAreSlots DEF AuthInv, TypeOK
<1>7. \A q \in Request : HandlerOK(q)'
    BY <1>1, <1>3, IdleSlot DEF AuthInv, HandlerOK
<1>8. OnlyLateAnswersSurviveBan'
    BY <1>3, <1>4 DEF AuthInv, OnlyLateAnswersSurviveBan
<1>9. QED
    BY <1>6, <1>7, <1>8 DEF AuthInv

LEMMA CheckCacheStep ==
    ASSUME AuthInv, NEW r \in Request, CheckCache(r)
    PROVE  AuthInv'
  BY GoesOn DEF CheckCache, Granted, data, AuthInv, TypeOK

LEMMA CheckBanStep ==
    ASSUME AuthInv, NEW r \in Request, CheckBan(r)
    PROVE  AuthInv'
  BY GoesOn DEF CheckBan, data, AuthInv, TypeOK

LEMMA CheckMembershipStep ==
    ASSUME AuthInv, NEW r \in Request, CheckMembership(r)
    PROVE  AuthInv'
<1>1. CASE Done(r)
    BY <1>1, GoesOn DEF CheckMembership, data, AuthInv, TypeOK
<1>2. CASE /\ role[req[r].user] # NoRole
           /\ req' = [req EXCEPT ![r].found = role[req[r].user], ![r].at = "cache"]
  <2>1. req \in [Request -> Slots] /\ UNCHANGED <<role, banned, muted, authz, leftover, inside>>
      BY RequestsAreSlots DEF AuthInv, TypeOK, CheckMembership, data
  <2>2. req[r].at = "member" /\ role[req[r].user] \in Role \cup {NoRole}
      BY DEF AuthInv, TypeOK, HandlerOK, CheckMembership
  <2>3. req'[r] = [req[r] EXCEPT !.found = role[req[r].user], !.at = "cache"]
      BY <1>2, <2>1
  <2>4. /\ req' \in [Request -> Slots]
        /\ \A q \in Request \ {r} : req'[q] = req[q]
        /\ UNCHANGED <<req[r].op, req[r].user, req[r].target>>
        /\ req'[r].at = "cache" /\ req'[r].found = role[req[r].user]
    <3>1. req'[r] \in Slots
        BY <2>1, <2>2, <2>3 DEF Slots, Steps
    <3>2. req' = [req EXCEPT ![r] = req'[r]]
        BY <1>2, <2>1, <2>3
    <3>3. req[r] \in Slots
        BY <2>1
    <3>4. QED
        BY <2>1, <2>3, <3>1, <3>2, <3>3 DEF Slots
  <2>5. TypeOK'
      BY <1>2, <2>1, <2>4, RequestsAreSlots DEF AuthInv, TypeOK
  <2>6. \A q \in Request : HandlerOK(q)'
      BY <2>1, <2>2, <2>4 DEF AuthInv, HandlerOK
  <2>7. OnlyLateAnswersSurviveBan'
      BY <2>1, <2>2, <2>4 DEF AuthInv, OnlyLateAnswersSurviveBan
  <2>8. QED
      BY <2>5, <2>6, <2>7 DEF AuthInv
<1>3. QED
    BY <1>1, <1>2 DEF CheckMembership

LEMMA CacheAnswerStep ==
    ASSUME AuthInv, NEW r \in Request, CacheAnswer(r)
    PROVE  AuthInv'
<1>1. TypeOK'
    BY IdleSlot, RequestsAreSlots
    DEF AuthInv, TypeOK, HandlerOK, Slots, Steps, CacheAnswer, Granted, Enter, GoTo, Done, KeyOf, Scope, data
<1>2. ASSUME NEW q \in Request PROVE HandlerOK(q)'
    BY IdleSlot, RequestsAreSlots
    DEF AuthInv, TypeOK, HandlerOK, Slots, CacheAnswer, Granted, Enter, GoTo, Done, KeyOf, Scope, data
<1>3. OnlyLateAnswersSurviveBan'
    BY IdleSlot, RequestsAreSlots
    DEF AuthInv, TypeOK, HandlerOK, OnlyLateAnswersSurviveBan, Slots, CacheAnswer, Granted, Enter, GoTo, Done, KeyOf, Scope, data
<1>4. QED
    BY <1>1, <1>2, <1>3 DEF AuthInv

LEMMA CheckMuteStep ==
    ASSUME AuthInv, NEW r \in Request, CheckMute(r)
    PROVE  AuthInv'
  BY GoesOn DEF CheckMute, data, AuthInv, TypeOK

LEMMA ActStep ==
    ASSUME AuthInv, NEW r \in Request, Act(r)
    PROVE  AuthInv'
<1>1. inside' \subseteq User
    BY DEF Act, AuthInv, TypeOK, HandlerOK
<1>2. QED
    BY <1>1, GoesOn DEF Act

(* A sanction or a new role is set, and its handler has yet to invalidate. *)
LEMMA ChangeStep ==
    ASSUME AuthInv, NEW r \in Request, Change(r)
    PROVE  AuthInv'
<1> DEFINE t == req[r].target
<1>1. /\ req \in [Request -> Slots] /\ req[r].at = "act" /\ UNCHANGED <<authz, inside>>
      /\ req' = [req EXCEPT ![r].at = "invalidate"]
      /\ req[r].op \in Sanctions \cup {"setRole"} /\ t \in User
    BY RequestsAreSlots
    DEF AuthInv, TypeOK, HandlerOK, Change, Ban, Unban, Mute, Unmute, UpdateRole, GoTo, Sanctions
<1>2. /\ req' \in [Request -> Slots]
      /\ \A q \in Request \ {r} : req'[q] = req[q]
      /\ UNCHANGED <<req[r].op, req[r].user, req[r].target, req[r].found>>
      /\ req'[r].at = "invalidate"
  <2>1. req[r] \in Slots
      BY <1>1
  <2>2. QED
      BY <1>1, <2>1 DEF Slots, Steps
<1>3. /\ role' \in [User -> Role \cup {NoRole}]
      /\ banned' \subseteq User /\ muted' \subseteq User
      /\ leftover' \subseteq Scope \X banned'
  <2>1. req[r].give \in Role \cup {NoRole}
      BY <1>1 DEF Slots
  <2>2. CASE Ban(r) \/ Unban(r)
      BY <1>1, <2>2 DEF AuthInv, TypeOK, Ban, Unban
  <2>3. CASE Mute(r) \/ Unmute(r)
      BY <1>1, <2>3 DEF AuthInv, TypeOK, Mute, Unmute
  <2>4. CASE UpdateRole(r)
      BY <1>1, <2>1, <2>4 DEF AuthInv, TypeOK, UpdateRole
  <2>5. QED
      BY <2>2, <2>3, <2>4 DEF Change
<1>4. TypeOK'
    BY <1>1, <1>2, <1>3, RequestsAreSlots DEF AuthInv, TypeOK
<1>5. \A q \in Request : HandlerOK(q)'
    BY <1>1, <1>2 DEF AuthInv, HandlerOK
<1>6. /\ \A u \in banned' : u \in banned \/ (req[r].op = "ban" /\ u = t)
      /\ \A u \in banned' : <<Default, u>> \in leftover => <<Default, u>> \in leftover'
  <2>1. CASE Ban(r)
      BY <2>1 DEF Ban
  <2>2. CASE Unban(r)
      BY <1>1, <2>2 DEF Unban
  <2>3. CASE Mute(r) \/ Unmute(r) \/ UpdateRole(r)
      BY <2>3 DEF Mute, Unmute, UpdateRole
  <2>4. QED
      BY <2>1, <2>2, <2>3 DEF Change
<1>7. OnlyLateAnswersSurviveBan'
    BY <1>1, <1>2, <1>6 DEF AuthInv, OnlyLateAnswersSurviveBan
<1>8. QED
    BY <1>4, <1>5, <1>7 DEF AuthInv

LEMMA InvalidateStep ==
    ASSUME AuthInv, NEW r \in Request, Invalidate(r)
    PROVE  AuthInv'
<1>1. TypeOK'
    BY IdleSlot, RequestsAreSlots
    DEF AuthInv, TypeOK, HandlerOK, Slots, Steps, Invalidate, Done, KeyOf, Scope, data
<1>2. ASSUME NEW q \in Request PROVE HandlerOK(q)'
    BY IdleSlot, RequestsAreSlots
    DEF AuthInv, TypeOK, HandlerOK, Slots, Invalidate, Done, KeyOf, Scope, data
<1>3. OnlyLateAnswersSurviveBan'
    BY IdleSlot, RequestsAreSlots
    DEF AuthInv, TypeOK, HandlerOK, OnlyLateAnswersSurviveBan, Slots, Invalidate, Done, KeyOf, Scope, data
<1>4. QED
    BY <1>1, <1>2, <1>3 DEF AuthInv

LEMMA ThrowsStep ==
    ASSUME AuthInv, NEW r \in Request, Throws(r)
    PROVE  AuthInv'
<1>1. TypeOK'
    BY IdleSlot, RequestsAreSlots
    DEF AuthInv, TypeOK, HandlerOK, Slots, Steps, Throws, Done, Scope, data
<1>2. ASSUME NEW q \in Request PROVE HandlerOK(q)'
    BY IdleSlot, RequestsAreSlots
    DEF AuthInv, TypeOK, HandlerOK, Slots, Throws, Done, Scope, data
<1>3. OnlyLateAnswersSurviveBan'
    BY IdleSlot, RequestsAreSlots
    DEF AuthInv, TypeOK, HandlerOK, OnlyLateAnswersSurviveBan, Slots, Throws, Done, Scope, data
<1>4. QED
    BY <1>1, <1>2, <1>3 DEF AuthInv

(* A key expires, or a participant comes or goes.                          *)
LEMMA OutsideStep ==
    ASSUME AuthInv,
           \/ Expiry
           \/ \E u \in Target : \/ SanctionExpires(u) \/ ParticipantRemoved(u)
                               \/ \E given \in Role : ParticipantAdded(u, given)
           \/ \E u \in User : Leave(u)
           \/ UNCHANGED vars
    PROVE  AuthInv'
<1>1. req' = req
    BY DEF Expiry, AnswerExpires, SanctionExpires, ParticipantRemoved, ParticipantAdded, Leave, vars
<1>2. /\ role' \in [User -> Role \cup {NoRole}]
      /\ authz' \in [Scope -> [User -> Role \cup {NoRole}]]
      /\ banned' \subseteq User /\ muted' \subseteq User
      /\ leftover' \subseteq Scope \X banned'
      /\ inside' \subseteq User
    BY IdleSlot DEF AuthInv, TypeOK, Expiry, AnswerExpires, SanctionExpires, ParticipantRemoved,
       ParticipantAdded, Leave, vars
<1>3. TypeOK'
    BY <1>1, <1>2 DEF AuthInv, TypeOK
<1>4. \A r \in Request : HandlerOK(r)'
    BY <1>1 DEF AuthInv, HandlerOK
<1>5. OnlyLateAnswersSurviveBan'
    BY <1>1, IdleSlot DEF AuthInv, TypeOK, OnlyLateAnswersSurviveBan, Expiry, AnswerExpires,
       SanctionExpires, ParticipantRemoved, ParticipantAdded, Leave, Scope, vars
<1>6. QED
    BY <1>3, <1>4, <1>5 DEF AuthInv

LEMMA AuthStep == AuthInv /\ [Next]_vars => AuthInv'
<1> SUFFICES ASSUME AuthInv, [Next]_vars PROVE AuthInv'
    OBVIOUS
<1>1. ASSUME NEW r \in Request, Step(r) PROVE AuthInv'
    BY <1>1, CheckCacheStep, CheckBanStep, CheckMembershipStep, CacheAnswerStep, CheckMuteStep,
       ActStep, ChangeStep, InvalidateStep DEF Step
<1>2. QED
    BY <1>1, StartStep, StartUncheckedStep, ThrowsStep, OutsideStep DEF Next

LEMMA AuthInvariance == Spec => []AuthInv
  BY InitAuth, AuthStep, PTL DEF Spec

(* Every variable keeps its type; only a positive answer is about to be    *)
(* cached (104), and what outlived a ban is an answer of somebody banned.  *)
THEOREM AuthTypeCorrect == Spec => []TypeOK
<1>1. AuthInv => TypeOK
    BY DEF AuthInv
<1>2. QED
    BY <1>1, AuthInvariance, PTL

(* In the default project an answer cached for a banned user is about to   *)
(* be dropped, or a check that ran during the ban wrote it, or its         *)
(* dropping failed (286-294).                                              *)
THEOREM LateAnswers == Spec => []OnlyLateAnswersSurviveBan
<1>1. AuthInv => OnlyLateAnswersSurviveBan
    BY DEF AuthInv
<1>2. QED
    BY <1>1, AuthInvariance, PTL

-----------------------------------------------------------------------------
(* Sanctions that have taken hold hold. *)

(* A handler's step leaves the others alone, and never changes hands.      *)
LEMMA OwnSlot ==
    ASSUME AuthInv, NEW r \in Request, Step(r) \/ Throws(r)
    PROVE  /\ \A q \in Request \ {r} : req'[q] = req[q]
           /\ req'[r] = Idle \/ (req'[r].user = req[r].user /\ req'[r].op = req[r].op)
<1>0. req \in [Request -> Slots]
    BY RequestsAreSlots DEF AuthInv, TypeOK
<1>1. CASE CheckCache(r) \/ CheckBan(r) \/ CheckMute(r)
    BY <1>0, <1>1 DEF CheckCache, CheckBan, CheckMute, Granted, Enter, GoTo, Done, Slots
<1>2. CASE CacheAnswer(r) \/ Act(r) \/ Change(r) \/ Invalidate(r) \/ Throws(r)
    BY <1>0, <1>2 DEF CacheAnswer, Act, Change, Invalidate, Throws, Granted, Enter, GoTo, Done, Slots
<1>3. CASE CheckMembership(r)
    BY <1>0, <1>3 DEF CheckMembership, Done, Slots
<1>4. QED
    BY <1>1, <1>2, <1>3 DEF Step

(* Reactions and pins come from the start of their handler to its end      *)
(* without a question to the authorizer.                                   *)
UncheckedAct == \A r \in Request : req[r].op \in Unchecked => req[r].at = "act"

LEMMA UncheckedStep ==
    ASSUME AuthInv, UncheckedAct, [Next]_vars
    PROVE  UncheckedAct'
<1>0. req \in [Request -> Slots] /\ Idle.op \notin Unchecked
    BY RequestsAreSlots, IdleSlot DEF AuthInv, TypeOK, Unchecked
<1>1. ASSUME NEW r \in Request, Step(r) \/ Throws(r) PROVE UncheckedAct'
  <2>1. CASE req[r].op \in Unchecked
    <3>1. req[r].at = "act" /\ req[r].op \notin Sanctions \cup {"setRole"}
        BY <2>1 DEF UncheckedAct, Unchecked, Sanctions
    <3>2. Act(r) \/ Throws(r)
        BY <1>1, <3>1 DEF Step, CheckCache, CheckBan, CheckMembership, CacheAnswer, CheckMute,
           Change, Ban, Unban, Mute, Unmute, UpdateRole, Invalidate, Sanctions
    <3>3. req' = [req EXCEPT ![r] = Idle]
        BY <3>2 DEF Act, Throws, Done
    <3>4. QED
        BY <1>0, <3>3 DEF UncheckedAct
  <2>2. CASE req[r].op \notin Unchecked
      BY <1>0, <1>1, <2>2, OwnSlot DEF UncheckedAct
  <2>3. QED
      BY <2>1, <2>2
<1>2. ASSUME NEW r \in Request, NEW u \in User, Start(r, u) PROVE UncheckedAct'
    BY <1>0, <1>2 DEF Start, UncheckedAct
<1>3. ASSUME NEW r \in Request, NEW u \in User, StartUnchecked(r, u) PROVE UncheckedAct'
    BY <1>0, <1>3 DEF StartUnchecked, UncheckedAct
<1>4. ASSUME req' = req PROVE UncheckedAct'
    BY <1>4 DEF UncheckedAct
<1>5. QED
    BY <1>1, <1>2, <1>3, <1>4 DEF Next, Expiry, AnswerExpires, SanctionExpires,
       ParticipantRemoved, ParticipantAdded, Leave, vars

LEMMA StaysCleared ==
    ASSUME AuthInv, UncheckedAct, NEW r \in Request, Step(r) \/ Throws(r),
           NEW u \in User, u \in banned, Cleared(u)
    PROVE  Cleared(u)'
<1>0. /\ req \in [Request -> Slots] /\ authz \in [Scope -> [User -> Role \cup {NoRole}]]
      /\ \A k \in Scope : authz[k][u] = NoRole
      /\ \A q \in Request : req[q].user = u /\ req[q].op \notin Unchecked =>
                                req[q].at \in {"idle", "cached", "banned"}
      /\ \A q \in Request : req[q].op \in Unchecked => req[q].at \in {"idle", "act"}
    BY RequestsAreSlots DEF AuthInv, TypeOK, Cleared, UncheckedAct
<1>1. \A k \in Scope : authz'[k][u] = NoRole
  <2>1. CASE CacheAnswer(r)
      BY <1>0, <2>1 DEF CacheAnswer
  <2>2. CASE Invalidate(r)
      BY <1>0, <2>2 DEF Invalidate
  <2>3. CASE ~CacheAnswer(r) /\ ~Invalidate(r)
    <3>1. authz' = authz
        BY <2>3 DEF Step, CheckCache, CheckBan, CheckMembership, CheckMute, Act, Change, Throws, data
    <3>2. QED
        BY <1>0, <3>1
  <2>4. QED
      BY <2>1, <2>2, <2>3
<1>2. req'[r].user = u /\ req'[r].op \notin Unchecked => req'[r].at \in {"idle", "cached", "banned"}
  <2> SUFFICES ASSUME req'[r].user = u, req'[r].op \notin Unchecked PROVE req'[r].at \in {"idle", "cached", "banned"}
      OBVIOUS
  <2>1. CASE req'[r] = Idle
      BY <2>1, IdleSlot
  <2>2. CASE req'[r] # Idle
    <3>1. /\ req[r].user = u /\ req[r].op \notin Unchecked
          /\ req[r].at \in {"idle", "cached", "banned"}
        BY <1>0, <2>2, OwnSlot
    <3>2. CheckCache(r) \/ CheckBan(r) \/ Throws(r)
        BY <3>1 DEF Step, CheckMembership, CacheAnswer, CheckMute, Act, Change, Invalidate
    <3>3. CASE CheckCache(r)
        BY <1>0, <3>1, <3>3 DEF CheckCache, GoTo, KeyOf, Scope, Slots
    <3>4. CASE CheckBan(r) \/ Throws(r)
        BY <1>0, <2>2, <3>1, <3>4 DEF CheckBan, Throws, Done
    <3>5. QED
        BY <3>2, <3>3, <3>4
  <2>3. QED
      BY <2>1, <2>2
<1>3. QED
    BY <1>0, <1>1, <1>2, OwnSlot DEF Cleared

LEMMA StaysSilent ==
    ASSUME AuthInv, NEW r \in Request, Step(r) \/ Throws(r),
           NEW u \in User, u \in muted, ~Sending(u)
    PROVE  ~Sending(u)'
<1>0. /\ req \in [Request -> Slots]
      /\ \A q \in Request : req[q].user = u /\ req[q].op = "send" => req[q].at # "act"
    BY RequestsAreSlots DEF AuthInv, TypeOK, Sending
<1>1. req'[r].user = u /\ req'[r].op = "send" => req'[r].at # "act"
  <2> SUFFICES ASSUME req'[r] # Idle, req[r].user = u, req[r].op = "send" PROVE req'[r].at # "act"
      BY OwnSlot, IdleSlot
  <2>1. CASE CheckCache(r) \/ CacheAnswer(r)
      BY <1>0, <2>1 DEF CheckCache, CacheAnswer, Granted, Enter, GoTo, Slots
  <2>2. CASE CheckBan(r) \/ CheckMute(r)
      BY <1>0, <2>2 DEF CheckBan, CheckMute, GoTo, Done, Slots
  <2>3. CASE CheckMembership(r)
      BY <1>0, <2>3 DEF CheckMembership, Done, Slots
  <2>4. CASE Act(r) \/ Change(r) \/ Invalidate(r) \/ Throws(r)
      BY <1>0, <2>4 DEF Act, Change, Invalidate, Throws, GoTo, Done, Slots
  <2>5. QED
      BY <2>1, <2>2, <2>3, <2>4 DEF Step
<1>2. QED
    BY <1>0, <1>1, OwnSlot DEF Sending

LEMMA HoldsStep ==
    ASSUME AuthInv, UncheckedAct, [Next]_vars, NEW u \in User
    PROVE  /\ u \in banned \cap banned' /\ Cleared(u) => Cleared(u)'
           /\ u \in muted \cap muted' /\ ~Sending(u) => ~Sending(u)'
<1>1. CASE \E r \in Request : Step(r) \/ Throws(r)
    BY <1>1, StaysCleared, StaysSilent
<1>2. ASSUME NEW r \in Request, NEW v \in User, Start(r, v)
      PROVE  (Cleared(u) => Cleared(u)') /\ (~Sending(u) => ~Sending(u)')
  <2>1. /\ authz' = authz /\ req'[r].at = "cached"
        /\ \A q \in Request \ {r} : req'[q] = req[q]
      BY <1>2 DEF AuthInv, TypeOK, Start, data
  <2>2. QED
      BY <2>1 DEF Cleared, Sending
<1>3. CASE \/ Expiry
           \/ \E v \in Target : \/ SanctionExpires(v) \/ ParticipantRemoved(v)
                               \/ \E given \in Role : ParticipantAdded(v, given)
           \/ \E v \in User : Leave(v)
           \/ UNCHANGED vars
  <2>1. req' = req
      BY <1>3 DEF Expiry, AnswerExpires, SanctionExpires, ParticipantRemoved, ParticipantAdded, Leave, vars
  <2>2. \A k \in Scope : authz[k][u] = NoRole => authz'[k][u] = NoRole
      BY <1>3 DEF AuthInv, TypeOK, Expiry, AnswerExpires, SanctionExpires, ParticipantRemoved,
         ParticipantAdded, Leave, vars
  <2>3. QED
      BY <2>1, <2>2 DEF Cleared, Sending
<1>4. ASSUME NEW r \in Request, NEW v \in User, StartUnchecked(r, v)
      PROVE  (Cleared(u) => Cleared(u)') /\ (~Sending(u) => ~Sending(u)')
  <2>1. /\ authz' = authz /\ req'[r].op \in Unchecked /\ req'[r].op # "send"
        /\ \A q \in Request \ {r} : req'[q] = req[q]
    <3>1. PICK op \in Offered[v] \cap Unchecked :
             req' = [req EXCEPT ![r] = [op |-> op, at |-> "act", user |-> v,
                        target |-> Nobody, give |-> NoRole, found |-> NoRole]]
        BY <1>4 DEF StartUnchecked
    <3>2. req'[r].op = op /\ op # "send" /\ authz' = authz
        BY <1>4, <3>1 DEF AuthInv, TypeOK, StartUnchecked, Unchecked, data
    <3>3. QED
        BY <3>1, <3>2 DEF AuthInv, TypeOK
  <2>2. QED
      BY <2>1 DEF Cleared, Sending
<1>5. QED
    BY <1>1, <1>2, <1>3, <1>4 DEF Next

(* Where the code asks the authorizer: once nobody is past the check of a  *)
(* ban and nothing is cached, only the end of the ban lets its user pass   *)
(* again (67-74), and once no running handler sends for a muted user, none *)
(* will (125-132).  Reactions and pins ask nothing and are not part of it. *)
THEOREM SanctionsHoldOn == Spec => CheckedSanctionsHold
<1>1. Init => UncheckedAct
    BY IdleSlot DEF Init, UncheckedAct, Unchecked
<1>2. AuthInv /\ UncheckedAct /\ [Next]_vars => UncheckedAct'
    BY UncheckedStep
<1>3. AuthInv /\ UncheckedAct /\ [Next]_vars =>
         [\A u \in User :
            /\ u \in banned \cap banned' /\ Cleared(u) => Cleared(u)'
            /\ u \in muted \cap muted' /\ ~Sending(u) => ~Sending(u)']_vars
    BY HoldsStep
<1>4. QED
    BY <1>1, <1>2, <1>3, AuthInvariance, PTL DEF Spec, CheckedSanctionsHold
=============================================================================
