--------------------------- MODULE Sessions_proofs ---------------------------
(***************************************************************************)
(* Proofs about Sessions, for any number of sessions, handlers and tokens: *)
(* every variable keeps its type, an ended session is cached as active     *)
(* only by a late write or a failed delete, and what is gone stays gone.   *)
(***************************************************************************)
EXTENDS Sessions, TLAPS

(* What a handler has established about the session it works on.           *)
RequestOK(r) ==
    LET q == req[r]
        s == req[r].session
    IN  /\ q.at = "idle" => q = Idle
        /\ q.at # "idle" => s \in Session
        /\ q.at = "insert" => /\ doc[s] = "none" /\ q.copy = "none"
                              /\ \A p \in Request \ {r} : req[p].session # s
        /\ q.at \notin {"idle", "insert"} => doc[s] # "none"
        /\ q.copy = "ended" => doc[s] = "ended"
        /\ q.at = "fill" => q.copy # "none"
        /\ q.at = "keep" => q.copy = "active" /\ q.op = "validate"
        /\ q.op = "validate" => q.token \in 1..issued[s]

SessionInv ==
    /\ TypeOK
    /\ \A s \in Session : issued[s] # 0 => doc[s] # "none"
    /\ \A r \in Request : RequestOK(r)

(* A free slot. *)
LEMMA IdleSlot ==
    /\ Idle \in Requests
    /\ Idle.at = "idle" /\ Idle.session = NoSession /\ Idle.copy = "none" /\ Idle.op = "none"
    /\ NoSession \notin Session
  BY SessionConstants DEF Idle, Requests, Status

LEMMA InitSession == Init => SessionInv
  BY SessionConstants DEF Init, SessionInv, TypeOK, RequestOK, Idle, Requests, Status, Token

(* A handler that begins knows what its guard has seen.                    *)
LEMMA BeginKeeps ==
    ASSUME SessionInv, NEW r \in Request, NEW op, NEW step, NEW s \in Session, NEW n \in 0..MaxTokens,
           op \in {"login", "mfaChallenge"} \cup Ends \cup Finds,
           step \in {"insert", "challenge", "revoked", "get", "end", "takeChallenge"},
           step = "insert" => doc[s] = "none" /\ \A p \in Request : req[p].session # s,
           step # "insert" => doc[s] # "none",
           op = "validate" => n \in 1..issued[s],
           Begin(r, op, step, s, n)
    PROVE  SessionInv'
<1> DEFINE new == [op |-> op, at |-> step, session |-> s, token |-> n, copy |-> "none"]
<1>1. /\ new \in Requests
      /\ req' = [req EXCEPT ![r] = new]
      /\ req \in [Request -> Requests]
  <2>1. new \in Requests
      BY DEF Requests, Status, Ends, Finds
  <2>2. QED
      BY <2>1 DEF Begin, SessionInv, TypeOK
<1>2. UNCHANGED <<doc, cache, late, challenge, issued, revoked, valid>>
    BY DEF Begin, stores, access
<1>3. TypeOK'
    BY <1>1, <1>2 DEF SessionInv, TypeOK
<1>4. ASSUME NEW q \in Request PROVE RequestOK(q)'
  <2>1. CASE q = r
    <3>1. req'[q] = new
        BY <1>1, <2>1
    <3>2. \A p \in Request \ {r} : req'[p] = req[p]
        BY <1>1
    <3>3. QED
        BY <1>2, <2>1, <3>1, <3>2 DEF RequestOK
  <2>2. CASE q # r
    <3>1. req'[q] = req[q] /\ RequestOK(q)
        BY <1>1, <2>2 DEF SessionInv
    <3>2. \A p \in Request : req'[p].session \in {req[p].session, s}
        BY <1>1
    <3>3. req[q].at = "insert" => req[q].session # s
        BY <3>1 DEF RequestOK
    <3>4. QED
        BY <1>2, <3>1, <3>2, <3>3 DEF RequestOK
  <2>3. QED
      BY <2>1, <2>2
<1>5. QED
    BY <1>2, <1>3, <1>4 DEF SessionInv

LEMMA StartStep ==
    ASSUME SessionInv, NEW r \in Request, Start(r)
    PROVE  SessionInv'
<1>0. issued \in [Session -> 0..MaxTokens] /\ challenge \subseteq {s \in Session : doc[s] # "none"}
    BY DEF SessionInv, TypeOK
<1>1. PICK s \in Session :
          \/ StartLogin(r, s) \/ StartFind(r, s) \/ StartRefresh(r, s)
          \/ StartChallenge(r, s) \/ StartVerify(r, s)
          \/ \E n \in 1..MaxTokens : StartLogout(r, s, n) \/ StartValidate(r, s, n)
    BY DEF Start
<1>2. 0 \in 0..MaxTokens /\ \A n \in 1..MaxTokens : n \in 0..MaxTokens
    BY SessionConstants
<1>3. issued[s] > 0 => doc[s] # "none"
    BY <1>0 DEF SessionInv
<1>4. CASE StartLogin(r, s)
    BY <1>2, <1>4, BeginKeeps DEF StartLogin, Ends, Finds
<1>5. CASE StartFind(r, s)
    BY <1>2, <1>5, BeginKeeps DEF StartFind, Ends, Finds
<1>6. CASE StartRefresh(r, s)
    BY <1>2, <1>3, <1>6, BeginKeeps DEF StartRefresh, Ends, Finds
<1>7. CASE StartChallenge(r, s)
    BY <1>2, <1>7, BeginKeeps DEF StartChallenge, Ends, Finds
<1>8. CASE StartVerify(r, s)
    BY <1>0, <1>2, <1>8, BeginKeeps DEF StartVerify, Ends, Finds
<1>9. ASSUME NEW n \in 1..MaxTokens, StartLogout(r, s, n) \/ StartValidate(r, s, n)
      PROVE  SessionInv'
  <2>1. n \in 1..issued[s] /\ doc[s] # "none"
      BY <1>0, <1>3, <1>9, SessionConstants DEF StartLogout, StartValidate
  <2>2. CASE StartLogout(r, s, n)
      BY <1>2, <2>1, <2>2, BeginKeeps DEF StartLogout, Ends, Finds
  <2>3. CASE StartValidate(r, s, n)
      BY <1>2, <2>1, <2>3, BeginKeeps DEF StartValidate, Ends, Finds
  <2>4. QED
      BY <1>9, <2>2, <2>3
<1>10. QED
    BY <1>1, <1>4, <1>5, <1>6, <1>7, <1>8, <1>9

LEMMA InsertStep ==
    ASSUME SessionInv, NEW r \in Request, Insert(r)
    PROVE  SessionInv'
<1>1. TypeOK'
  <2>1. req[r].session \in Session /\ doc[req[r].session] = "none"
      BY DEF SessionInv, RequestOK, Insert
  <2>2. req' \in [Request -> Requests]
      BY DEF SessionInv, TypeOK, Requests, Insert, GoTo
  <2>3. /\ doc' \in [Session -> Status]
        /\ \A s \in Session : doc[s] # "none" => doc'[s] = doc[s]
      BY <2>1 DEF SessionInv, TypeOK, Status, Insert
  <2>4. UNCHANGED <<cache, late, challenge, issued, revoked, valid>>
      BY DEF Insert, access
  <2>5. late' \subseteq {s \in Session : doc'[s] = "ended" /\ cache'[s] = "active"}
      BY <2>3, <2>4 DEF SessionInv, TypeOK
  <2>6. challenge' \subseteq {s \in Session : doc'[s] # "none"}
      BY <2>3, <2>4 DEF SessionInv, TypeOK
  <2>7. ASSUME NEW s \in Session
        PROVE  /\ cache'[s] # "none" => doc'[s] # "none"
               /\ cache'[s] = "ended" => doc'[s] = "ended"
    <3>1. /\ cache[s] # "none" => doc[s] # "none"
          /\ cache[s] = "ended" => doc[s] = "ended"
        BY DEF SessionInv, TypeOK
    <3>2. doc[s] # "none" => doc'[s] = doc[s]
        BY <2>3
    <3>3. cache'[s] = cache[s]
        BY <2>4
    <3>4. QED
        BY <3>1, <3>2, <3>3
  <2>8. QED
      BY <2>2, <2>3, <2>4, <2>5, <2>6, <2>7 DEF SessionInv, TypeOK
<1>2. \A s \in Session : issued'[s] # 0 => doc'[s] # "none"
    BY DEF SessionInv, TypeOK, RequestOK, Insert, GoTo, stores, access
<1>3. ASSUME NEW q \in Request PROVE RequestOK(q)'
    BY DEF SessionInv, TypeOK, RequestOK, Requests, Insert, GoTo, stores, access
<1>4. QED
    BY <1>1, <1>2, <1>3 DEF SessionInv

LEMMA IssueGrows ==
    ASSUME SessionInv, NEW s \in Session, Issue(s)
    PROVE  /\ issued' \in [Session -> 0..MaxTokens]
           /\ \A x \in Session : issued[x] <= issued'[x] /\ (x # s => issued'[x] = issued[x])
<1>1. issued \in [Session -> 0..MaxTokens] /\ MaxTokens \in Nat
    BY SessionConstants DEF SessionInv, TypeOK
<1>2. QED
    BY <1>1 DEF Issue

LEMMA CacheNewStep ==
    ASSUME SessionInv, NEW r \in Request, CacheNew(r)
    PROVE  SessionInv'
<1>1. req[r].session \in Session /\ doc[req[r].session] # "none"
    BY IdleSlot DEF SessionInv, RequestOK, CacheNew
<1>2. /\ issued \in [Session -> 0..MaxTokens] /\ issued' \in [Session -> 0..MaxTokens]
      /\ \A x \in Session : /\ issued[x] <= issued'[x]
                            /\ x # req[r].session => issued'[x] = issued[x]
    BY <1>1, IssueGrows, SessionConstants DEF CacheNew, SessionInv, TypeOK
<1>3. TypeOK'
  <2>1. req' \in [Request -> Requests]
      BY IdleSlot DEF SessionInv, TypeOK, Requests, CacheNew, GoTo, Done
  <2>2. valid \cup revoked \subseteq {t \in Token : t[2] <= issued'[t[1]]}
      BY <1>2, SessionConstants DEF SessionInv, TypeOK, Token
  <2>3. QED
      BY <1>1, <1>2, <2>1, <2>2 DEF SessionInv, TypeOK, Status, CacheNew, Cache, stores
<1>4. \A s \in Session : issued'[s] # 0 => doc'[s] # "none"
    BY <1>1, <1>2 DEF SessionInv, CacheNew, stores
<1>5. ASSUME NEW q \in Request PROVE RequestOK(q)'
    BY <1>1, <1>2, IdleSlot, SessionConstants DEF SessionInv, TypeOK, RequestOK, Requests, CacheNew, GoTo, Done, stores
<1>6. QED
    BY <1>3, <1>4, <1>5 DEF SessionInv

LEMMA CreateChallengeStep ==
    ASSUME SessionInv, NEW r \in Request, CreateChallenge(r)
    PROVE  SessionInv'
<1>1. TypeOK'
    BY IdleSlot DEF SessionInv, TypeOK, RequestOK, Requests, Status, Token, CreateChallenge, Done, stores, access
<1>2. \A s \in Session : issued'[s] # 0 => doc'[s] # "none"
    BY IdleSlot DEF SessionInv, TypeOK, RequestOK, CreateChallenge, Done, stores, access
<1>3. ASSUME NEW q \in Request PROVE RequestOK(q)'
    BY IdleSlot DEF SessionInv, TypeOK, RequestOK, Requests, CreateChallenge, Done, stores, access
<1>4. QED
    BY <1>1, <1>2, <1>3 DEF SessionInv

LEMMA EndSessionStep ==
    ASSUME SessionInv, NEW r \in Request, EndSession(r)
    PROVE  SessionInv'
<1>1. TypeOK'
    BY DEF SessionInv, TypeOK, RequestOK, Requests, Status, Token, EndSession, GoTo, stores, access
<1>2. \A s \in Session : issued'[s] # 0 => doc'[s] # "none"
    BY DEF SessionInv, TypeOK, RequestOK, EndSession, GoTo, stores, access
<1>3. ASSUME NEW q \in Request PROVE RequestOK(q)'
    BY DEF SessionInv, TypeOK, RequestOK, Requests, EndSession, GoTo, stores, access
<1>4. QED
    BY <1>1, <1>2, <1>3 DEF SessionInv

LEMMA DropEntryStep ==
    ASSUME SessionInv, NEW r \in Request, DropEntry(r)
    PROVE  SessionInv'
<1>1. TypeOK'
    BY IdleSlot DEF SessionInv, TypeOK, RequestOK, Requests, Status, Token, DropEntry, AfterDrop, GoTo, Done, stores, access
<1>2. \A s \in Session : issued'[s] # 0 => doc'[s] # "none"
    BY IdleSlot DEF SessionInv, TypeOK, RequestOK, DropEntry, AfterDrop, GoTo, Done, stores, access
<1>3. ASSUME NEW q \in Request PROVE RequestOK(q)'
    BY IdleSlot DEF SessionInv, TypeOK, RequestOK, Requests, DropEntry, AfterDrop, GoTo, Done, stores, access
<1>4. QED
    BY <1>1, <1>2, <1>3 DEF SessionInv

LEMMA ForgetTokenStep ==
    ASSUME SessionInv, NEW r \in Request, ForgetToken(r)
    PROVE  SessionInv'
<1>1. TypeOK'
    BY IdleSlot DEF SessionInv, TypeOK, RequestOK, Requests, Status, Token, ForgetToken, Done, stores, access
<1>2. \A s \in Session : issued'[s] # 0 => doc'[s] # "none"
    BY IdleSlot DEF SessionInv, TypeOK, RequestOK, ForgetToken, Done, stores, access
<1>3. ASSUME NEW q \in Request PROVE RequestOK(q)'
    BY IdleSlot DEF SessionInv, TypeOK, RequestOK, Requests, ForgetToken, Done, stores, access
<1>4. QED
    BY <1>1, <1>2, <1>3 DEF SessionInv

LEMMA CheckRevokedStep ==
    ASSUME SessionInv, NEW r \in Request, CheckRevoked(r)
    PROVE  SessionInv'
<1>1. TypeOK'
    BY IdleSlot DEF SessionInv, TypeOK, RequestOK, Requests, Status, Token, CheckRevoked, GoTo, Done, stores, access
<1>2. \A s \in Session : issued'[s] # 0 => doc'[s] # "none"
    BY IdleSlot DEF SessionInv, TypeOK, RequestOK, CheckRevoked, GoTo, Done, stores, access
<1>3. ASSUME NEW q \in Request PROVE RequestOK(q)'
    BY IdleSlot DEF SessionInv, TypeOK, RequestOK, Requests, CheckRevoked, GoTo, Done, stores, access
<1>4. QED
    BY <1>1, <1>2, <1>3 DEF SessionInv

LEMMA GetEntryStep ==
    ASSUME SessionInv, NEW r \in Request, GetEntry(r)
    PROVE  SessionInv'
<1>1. TypeOK'
    BY DEF SessionInv, TypeOK, RequestOK, Requests, Status, Token, GetEntry, stores, access
<1>2. \A s \in Session : issued'[s] # 0 => doc'[s] # "none"
    BY DEF SessionInv, TypeOK, RequestOK, GetEntry, stores, access
<1>3. ASSUME NEW q \in Request PROVE RequestOK(q)'
    BY DEF SessionInv, TypeOK, RequestOK, Requests, GetEntry, stores, access
<1>4. QED
    BY <1>1, <1>2, <1>3 DEF SessionInv

LEMMA QueryDocStep ==
    ASSUME SessionInv, NEW r \in Request, QueryDoc(r)
    PROVE  SessionInv'
<1>1. TypeOK'
    BY DEF SessionInv, TypeOK, RequestOK, Requests, Status, Token, QueryDoc, stores, access
<1>2. \A s \in Session : issued'[s] # 0 => doc'[s] # "none"
    BY DEF SessionInv, TypeOK, RequestOK, QueryDoc, stores, access
<1>3. ASSUME NEW q \in Request PROVE RequestOK(q)'
    BY DEF SessionInv, TypeOK, RequestOK, Requests, QueryDoc, stores, access
<1>4. QED
    BY <1>1, <1>2, <1>3 DEF SessionInv

LEMMA FillEntryStep ==
    ASSUME SessionInv, NEW r \in Request, FillEntry(r)
    PROVE  SessionInv'
<1>1. TypeOK'
    BY DEF SessionInv, TypeOK, RequestOK, Requests, Status, Token, FillEntry, Cache, GoTo, stores, access
<1>2. \A s \in Session : issued'[s] # 0 => doc'[s] # "none"
    BY DEF SessionInv, TypeOK, RequestOK, FillEntry, Cache, GoTo, stores, access
<1>3. ASSUME NEW q \in Request PROVE RequestOK(q)'
    BY DEF SessionInv, TypeOK, RequestOK, Requests, FillEntry, Cache, GoTo, stores, access
<1>4. QED
    BY <1>1, <1>2, <1>3 DEF SessionInv

LEMMA AnswerStep ==
    ASSUME SessionInv, NEW r \in Request, Answer(r)
    PROVE  SessionInv'
<1>1. req[r].session \in Session /\ doc[req[r].session] # "none"
    BY IdleSlot DEF SessionInv, RequestOK, Answer
<1>2. /\ issued \in [Session -> 0..MaxTokens] /\ issued' \in [Session -> 0..MaxTokens]
      /\ \A x \in Session : /\ issued[x] <= issued'[x]
                            /\ x # req[r].session => issued'[x] = issued[x]
    BY <1>1, IssueGrows, SessionConstants DEF Answer, SessionInv, TypeOK
<1>3. TypeOK'
  <2>1. req' \in [Request -> Requests]
      BY IdleSlot DEF SessionInv, TypeOK, Requests, Answer, GoTo, Done
  <2>2. valid \cup revoked \subseteq {t \in Token : t[2] <= issued'[t[1]]}
      BY <1>2, SessionConstants DEF SessionInv, TypeOK, Token
  <2>3. QED
      BY <1>1, <1>2, <2>1, <2>2 DEF SessionInv, TypeOK, Status, Answer, stores
<1>4. \A s \in Session : issued'[s] # 0 => doc'[s] # "none"
    BY <1>1, <1>2 DEF SessionInv, Answer, stores
<1>5. ASSUME NEW q \in Request PROVE RequestOK(q)'
    BY <1>1, <1>2, IdleSlot, SessionConstants DEF SessionInv, TypeOK, RequestOK, Requests, Answer, GoTo, Done, stores
<1>6. QED
    BY <1>3, <1>4, <1>5 DEF SessionInv

LEMMA KeepTokenStep ==
    ASSUME SessionInv, NEW r \in Request, KeepToken(r)
    PROVE  SessionInv'
<1>1. TypeOK'
    BY IdleSlot DEF SessionInv, TypeOK, RequestOK, Requests, Status, Token, KeepToken, Done, stores, access
<1>2. \A s \in Session : issued'[s] # 0 => doc'[s] # "none"
    BY IdleSlot DEF SessionInv, TypeOK, RequestOK, KeepToken, Done, stores, access
<1>3. ASSUME NEW q \in Request PROVE RequestOK(q)'
    BY IdleSlot DEF SessionInv, TypeOK, RequestOK, Requests, KeepToken, Done, stores, access
<1>4. QED
    BY <1>1, <1>2, <1>3 DEF SessionInv

LEMMA TakeChallengeStep ==
    ASSUME SessionInv, NEW r \in Request, TakeChallenge(r)
    PROVE  SessionInv'
<1>1. TypeOK'
    BY IdleSlot DEF SessionInv, TypeOK, RequestOK, Requests, Status, Token, TakeChallenge, GoTo, Done, stores, access
<1>2. \A s \in Session : issued'[s] # 0 => doc'[s] # "none"
    BY IdleSlot DEF SessionInv, TypeOK, RequestOK, TakeChallenge, GoTo, Done, stores, access
<1>3. ASSUME NEW q \in Request PROVE RequestOK(q)'
    BY IdleSlot DEF SessionInv, TypeOK, RequestOK, Requests, TakeChallenge, GoTo, Done, stores, access
<1>4. QED
    BY <1>1, <1>2, <1>3 DEF SessionInv

LEMMA DelChallengeStep ==
    ASSUME SessionInv, NEW r \in Request, DelChallenge(r)
    PROVE  SessionInv'
<1>1. TypeOK'
    BY DEF SessionInv, TypeOK, RequestOK, Requests, Status, Token, DelChallenge, GoTo, stores, access
<1>2. \A s \in Session : issued'[s] # 0 => doc'[s] # "none"
    BY DEF SessionInv, TypeOK, RequestOK, DelChallenge, GoTo, stores, access
<1>3. ASSUME NEW q \in Request PROVE RequestOK(q)'
    BY DEF SessionInv, TypeOK, RequestOK, Requests, DelChallenge, GoTo, stores, access
<1>4. QED
    BY <1>1, <1>2, <1>3 DEF SessionInv

LEMMA TouchSessionStep ==
    ASSUME SessionInv, NEW r \in Request, TouchSession(r)
    PROVE  SessionInv'
<1>1. TypeOK'
    BY DEF SessionInv, TypeOK, RequestOK, Requests, Status, Token, TouchSession, GoTo, stores, access
<1>2. \A s \in Session : issued'[s] # 0 => doc'[s] # "none"
    BY DEF SessionInv, TypeOK, RequestOK, TouchSession, GoTo, stores, access
<1>3. ASSUME NEW q \in Request PROVE RequestOK(q)'
    BY DEF SessionInv, TypeOK, RequestOK, Requests, TouchSession, GoTo, stores, access
<1>4. QED
    BY <1>1, <1>2, <1>3 DEF SessionInv

LEMMA GiveUpStep ==
    ASSUME SessionInv, NEW r \in Request, GiveUp(r)
    PROVE  SessionInv'
<1>1. TypeOK'
    BY IdleSlot DEF SessionInv, TypeOK, RequestOK, Requests, Status, Token, GiveUp, Done, stores, access
<1>2. \A s \in Session : issued'[s] # 0 => doc'[s] # "none"
    BY IdleSlot DEF SessionInv, TypeOK, RequestOK, GiveUp, Done, stores, access
<1>3. ASSUME NEW q \in Request PROVE RequestOK(q)'
    BY IdleSlot DEF SessionInv, TypeOK, RequestOK, Requests, GiveUp, Done, stores, access
<1>4. QED
    BY <1>1, <1>2, <1>3 DEF SessionInv


LEMMA OutsideStep ==
    ASSUME SessionInv,
           \/ \E s \in Session : EntryExpires(s) \/ ChallengeExpires(s)
           \/ \E s \in Session, n \in 1..MaxTokens : RevokeToken(s, n)
           \/ \E k \in Token : TokenExpires(k)
           \/ UNCHANGED vars
    PROVE  SessionInv'
<1>1. issued' = issued /\ doc' = doc /\ req' = req
    BY DEF EntryExpires, ChallengeExpires, RevokeToken, TokenExpires, vars, stores, access
<1>2. \A r \in Request : RequestOK(r)'
    BY <1>1 DEF SessionInv, RequestOK
<1>3. TypeOK'
    BY <1>1, SessionConstants
    DEF SessionInv, TypeOK, Status, Token, EntryExpires, ChallengeExpires, RevokeToken,
        TokenExpires, vars, stores, access
<1>4. QED
    BY <1>1, <1>2, <1>3 DEF SessionInv

LEMMA SessionStep == SessionInv /\ [Next]_vars => SessionInv'
<1> SUFFICES ASSUME SessionInv, [Next]_vars PROVE SessionInv'
    OBVIOUS
<1>1. ASSUME NEW r \in Request, Step(r) PROVE SessionInv'
    BY <1>1, InsertStep, CacheNewStep, CreateChallengeStep, EndSessionStep, DropEntryStep,
       ForgetTokenStep, CheckRevokedStep, GetEntryStep, QueryDocStep, FillEntryStep, AnswerStep,
       KeepTokenStep, TakeChallengeStep, DelChallengeStep, TouchSessionStep DEF Step
<1>2. QED
    BY <1>1, StartStep, GiveUpStep, OutsideStep DEF Next

LEMMA SessionInvariance == Spec => []SessionInv
  BY InitSession, SessionStep, PTL DEF Spec

(* Every variable keeps its type; nothing is cached of a session that does *)
(* not exist, and no entry runs ahead of the document (123-139).           *)
THEOREM SessionTypeCorrect == Spec => []TypeOK
<1>1. SessionInv => TypeOK
    BY DEF SessionInv
<1>2. QED
    BY <1>1, SessionInvariance, PTL

-----------------------------------------------------------------------------
(* An ended session is cached as active by late writes only. *)

LEMMA LateStep ==
    ASSUME SessionInv, OnlyLateFillsOutlive, [Next]_vars
    PROVE  OnlyLateFillsOutlive'
<1> SUFFICES ASSUME NEW s \in Session, doc'[s] = "ended", cache'[s] = "active"
             PROVE  \/ s \in late'
                    \/ \E r \in Request : req'[r].session = s /\ req'[r].at = "drop"
    BY DEF OnlyLateFillsOutlive
<1> DEFINE Drops == \E r \in Request : req[r].session = s /\ req[r].at = "drop"
<1>0. /\ req \in [Request -> Requests]
      /\ cache \in [Session -> Status]
      /\ doc \in [Session -> Status]
      /\ doc[s] = "ended" /\ cache[s] = "active" => s \in late \/ Drops
      /\ \A r \in Request : RequestOK(r)
    BY DEF SessionInv, TypeOK, OnlyLateFillsOutlive
<1>1. CASE UNCHANGED <<doc, cache, late, req>>
    BY <1>0, <1>1
<1>2. ASSUME NEW r \in Request, Start(r)
      PROVE  s \in late' \/ Drops'
    BY <1>0, <1>2 DEF Start, StartLogin, StartLogout, StartFind, StartRefresh, StartVerify,
       StartChallenge, StartValidate, Begin, stores
<1>3. ASSUME NEW r \in Request, CacheNew(r) \/ FillEntry(r)
      PROVE  s \in late' \/ Drops'
    BY <1>0, <1>3 DEF CacheNew, FillEntry, Cache, GoTo, Done, Idle, RequestOK
<1>4. ASSUME NEW r \in Request, Insert(r) \/ EndSession(r)
      PROVE  s \in late' \/ Drops'
  <2>1. /\ \A q \in Request \ {r} : req'[q] = req[q]
        /\ req[r].at # "drop"
        /\ cache' = cache /\ late' = late
    <3>1. CASE Insert(r)
        BY <1>0, <3>1 DEF Insert, GoTo
    <3>2. CASE EndSession(r)
        BY <1>0, <3>2 DEF EndSession, GoTo
    <3>3. QED
        BY <1>4, <3>1, <3>2
  <2>2. CASE doc[s] = "ended"
      BY <1>0, <2>1, <2>2
  <2>3. CASE doc[s] # "ended"
    <3>1. EndSession(r) /\ s = req[r].session
        BY <1>0, <1>4, <2>1, <2>3 DEF EndSession, Insert
    <3>2. req'[r].at = "drop" /\ req'[r].session = s
        BY <1>0, <3>1 DEF EndSession, GoTo
    <3>3. QED
        BY <3>2
  <2>4. QED
      BY <2>2, <2>3
<1>5. ASSUME NEW r \in Request, DropEntry(r)
      PROVE  s \in late' \/ Drops'
    BY <1>0, <1>5 DEF DropEntry, AfterDrop, GoTo, Done, Idle, RequestOK
<1>6. ASSUME NEW r \in Request, GiveUp(r)
      PROVE  s \in late' \/ Drops'
    BY <1>0, <1>6 DEF GiveUp, Done, Idle, RequestOK
<1>7. ASSUME NEW r \in Request,
             \/ CreateChallenge(r) \/ ForgetToken(r) \/ CheckRevoked(r) \/ GetEntry(r)
             \/ QueryDoc(r) \/ Answer(r) \/ KeepToken(r) \/ TakeChallenge(r)
             \/ DelChallenge(r) \/ TouchSession(r)
      PROVE  s \in late' \/ Drops'
  <2>1. /\ UNCHANGED <<doc, cache, late>>
        /\ req[r].at # "drop"
        /\ \A q \in Request \ {r} : req'[q] = req[q]
      BY <1>0, <1>7
      DEF CreateChallenge, ForgetToken, CheckRevoked, GetEntry, QueryDoc, Answer, KeepToken,
          TakeChallenge, DelChallenge, TouchSession, GoTo, Done, stores
  <2>2. QED
      BY <1>0, <2>1
<1>8. ASSUME \E x \in Session : EntryExpires(x) \/ ChallengeExpires(x)
      PROVE  s \in late' \/ Drops'
    BY <1>0, <1>8 DEF EntryExpires, ChallengeExpires, stores
<1>9. ASSUME \/ \E x \in Session, n \in 1..MaxTokens : RevokeToken(x, n)
             \/ \E k \in Token : TokenExpires(k)
             \/ UNCHANGED vars
      PROVE  UNCHANGED <<doc, cache, late, req>>
    BY <1>9 DEF RevokeToken, TokenExpires, vars, stores
<1>10. QED
    BY <1>1, <1>2, <1>3, <1>4, <1>5, <1>6, <1>7, <1>8, <1>9 DEF Next, Step

(* Update and then delete: whatever finds, logins and terminations         *)
(* overlap, only a write that a handler began before the end, or a delete  *)
(* that failed, leaves an ended session cached as active.                  *)
THEOREM LateFills == Spec => []OnlyLateFillsOutlive
<1>1. Init => OnlyLateFillsOutlive
    BY DEF Init, OnlyLateFillsOutlive
<1>2. SessionInv /\ OnlyLateFillsOutlive /\ [Next]_vars => OnlyLateFillsOutlive'
    BY LateStep
<1>3. QED
    BY <1>1, <1>2, SessionInvariance, PTL DEF Spec

-----------------------------------------------------------------------------
(* What is gone stays gone. *)

(* The handlers that work on s, or none of them. *)
Unaware(s) ==
    \A r \in Request : req[r].session = s =>
        req[r].copy # "active" /\ req[r].at # "setNew"

(* No step of a handler makes one of those that work on s aware of it.     *)
LEMMA StaysUnaware ==
    ASSUME SessionInv, NEW s \in Session, Gone(s), NEW r \in Request, Step(r) \/ GiveUp(r)
    PROVE  Unaware(s)'
<1>0. /\ req \in [Request -> Requests] /\ Unaware(s) /\ doc[s] = "ended" /\ cache[s] # "active"
      /\ req[r].at = "insert" => doc[req[r].session] = "none"
    BY DEF SessionInv, TypeOK, Gone, Unaware, RequestOK
<1>1. \A q \in Request \ {r} : req'[q] = req[q]
    BY <1>0 DEF Step, GiveUp, Insert, CacheNew, CreateChallenge, EndSession, DropEntry, AfterDrop,
        ForgetToken, CheckRevoked, GetEntry, QueryDoc, FillEntry, Answer, KeepToken,
        TakeChallenge, DelChallenge, TouchSession, GoTo, Done
<1>2. CASE Insert(r)
    BY <1>0, <1>1, <1>2 DEF Insert, Requests, GoTo, Unaware
<1>3. CASE GetEntry(r) \/ QueryDoc(r)
    BY <1>0, <1>1, <1>3 DEF GetEntry, QueryDoc, Requests, Unaware
<1>4. CASE CacheNew(r) \/ CreateChallenge(r) \/ EndSession(r) \/ DropEntry(r) \/ ForgetToken(r)
    BY <1>0, <1>1, <1>4, IdleSlot
    DEF CacheNew, CreateChallenge, EndSession, DropEntry, AfterDrop, ForgetToken, GoTo, Done, Requests, Unaware
<1>5. CASE CheckRevoked(r) \/ FillEntry(r) \/ Answer(r) \/ KeepToken(r)
    BY <1>0, <1>1, <1>5, IdleSlot
    DEF CheckRevoked, FillEntry, Answer, KeepToken, GoTo, Done, Requests, Unaware
<1>6. CASE TakeChallenge(r) \/ DelChallenge(r) \/ TouchSession(r) \/ GiveUp(r)
    BY <1>0, <1>1, <1>6, IdleSlot
    DEF TakeChallenge, DelChallenge, TouchSession, GiveUp, GoTo, Done, Requests, Unaware
<1>7. QED
    BY <1>2, <1>3, <1>4, <1>5, <1>6 DEF Step

(* No step of a handler writes s anywhere as active.                       *)
LEMMA StaysUnwritten ==
    ASSUME SessionInv, NEW s \in Session, Gone(s), NEW r \in Request, Step(r) \/ GiveUp(r)
    PROVE  doc'[s] = "ended" /\ cache'[s] # "active" /\ \A t \in valid' : t[1] # s
<1>0. /\ doc \in [Session -> Status] /\ cache \in [Session -> Status]
      /\ doc[s] = "ended" /\ cache[s] # "active" /\ \A t \in valid : t[1] # s
      /\ req[r].session = s => req[r].copy # "active" /\ req[r].at # "setNew"
      /\ req[r].at = "insert" => doc[req[r].session] = "none"
      /\ req[r].at = "keep" => req[r].copy = "active"
    BY DEF SessionInv, TypeOK, Gone, RequestOK
<1>1. CASE Insert(r) \/ EndSession(r)
    BY <1>0, <1>1 DEF Insert, EndSession, access
<1>2. CASE CacheNew(r) \/ FillEntry(r) \/ DropEntry(r)
    BY <1>0, <1>2 DEF CacheNew, FillEntry, DropEntry, Cache, access
<1>3. CASE KeepToken(r) \/ ForgetToken(r)
    BY <1>0, <1>3 DEF KeepToken, ForgetToken, stores
<1>4. CASE \/ CreateChallenge(r) \/ CheckRevoked(r) \/ GetEntry(r) \/ QueryDoc(r) \/ Answer(r)
           \/ TakeChallenge(r) \/ DelChallenge(r) \/ TouchSession(r) \/ GiveUp(r)
  <2>1. UNCHANGED <<doc, cache, valid>>
      BY <1>4 DEF CreateChallenge, CheckRevoked, GetEntry, QueryDoc, Answer, TakeChallenge,
         DelChallenge, TouchSession, GiveUp, stores, access
  <2>2. QED
      BY <1>0, <2>1
<1>5. QED
    BY <1>1, <1>2, <1>3, <1>4 DEF Step

LEMMA GoneStep ==
    ASSUME SessionInv, NEW s \in Session, Gone(s), [Next]_vars
    PROVE  Gone(s)'
<1>1. ASSUME NEW r \in Request, Step(r) \/ GiveUp(r) PROVE Gone(s)'
    BY <1>1, StaysUnaware, StaysUnwritten DEF Gone, Unaware
<1>2. ASSUME NEW r \in Request, Start(r) PROVE Gone(s)'
  <2>1. UNCHANGED <<doc, cache, valid>>
      BY <1>2 DEF Start, StartLogin, StartLogout, StartFind, StartRefresh, StartVerify,
         StartChallenge, StartValidate, Begin, stores, access
  <2>2. Unaware(s)'
    <3>1. req \in [Request -> Requests] /\ Unaware(s)
        BY DEF SessionInv, TypeOK, Gone, Unaware
    <3>2. \A q \in Request \ {r} : req'[q] = req[q]
        BY <1>2, <3>1 DEF Start, StartLogin, StartLogout, StartFind, StartRefresh, StartVerify,
           StartChallenge, StartValidate, Begin
    <3>3. ASSUME NEW op, NEW step, NEW x, NEW n, step # "setNew", Begin(r, op, step, x, n)
          PROVE  req'[r].copy = "none" /\ req'[r].at # "setNew"
        BY <3>1, <3>3 DEF Begin
    <3>4. req'[r].copy = "none" /\ req'[r].at # "setNew"
      <4>1. PICK x \in Session :
               \/ StartLogin(r, x) \/ StartFind(r, x) \/ StartRefresh(r, x)
               \/ StartChallenge(r, x) \/ StartVerify(r, x)
               \/ \E n \in 1..MaxTokens : StartLogout(r, x, n) \/ StartValidate(r, x, n)
          BY <1>2 DEF Start
      <4>2. CASE StartLogin(r, x) \/ StartFind(r, x)
          BY <4>2, <3>3 DEF StartLogin, StartFind
      <4>3. CASE StartRefresh(r, x) \/ StartChallenge(r, x) \/ StartVerify(r, x)
          BY <4>3, <3>3 DEF StartRefresh, StartChallenge, StartVerify
      <4>4. CASE \E n \in 1..MaxTokens : StartLogout(r, x, n) \/ StartValidate(r, x, n)
          BY <4>4, <3>3 DEF StartLogout, StartValidate
      <4>5. QED
          BY <4>1, <4>2, <4>3, <4>4
    <3>5. QED
        BY <3>1, <3>2, <3>4 DEF Unaware
  <2>3. QED
      BY <2>1, <2>2 DEF Gone, Unaware
<1>3. CASE \/ \E x \in Session : EntryExpires(x) \/ ChallengeExpires(x)
           \/ \E x \in Session, n \in 1..MaxTokens : RevokeToken(x, n)
           \/ \E k \in Token : TokenExpires(k)
           \/ UNCHANGED vars
  <2>1. req' = req /\ doc' = doc /\ valid' \subseteq valid
      BY <1>3 DEF EntryExpires, ChallengeExpires, RevokeToken, TokenExpires, vars, stores, access
  <2>2. cache'[s] = cache[s] \/ cache'[s] = "none"
      BY <1>3 DEF SessionInv, TypeOK, EntryExpires, ChallengeExpires, RevokeToken, TokenExpires,
         vars, stores, access
  <2>3. QED
      BY <2>1, <2>2 DEF Gone
<1>4. QED
    BY <1>1, <1>2, <1>3 DEF Next

(* Once its document has ended, no entry or answer says otherwise and no   *)
(* handler has seen it active, nothing makes a session appear again: no    *)
(* find, refresh or validation, and no MFA verification, though its        *)
(* comments say "Activate session" (auth.controller.ts 252).               *)
THEOREM GoneStays == Spec => GoneStaysGone
<1>1. SessionInv /\ [Next]_vars => [\A s \in Session : Gone(s) => Gone(s)']_vars
    BY GoneStep
<1>2. QED
    BY <1>1, SessionInvariance, PTL DEF Spec, GoneStaysGone
=============================================================================
