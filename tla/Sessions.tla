------------------------------ MODULE Sessions ------------------------------
(***************************************************************************)
(* The sessions of auth-service and everyone who relies on them: the       *)
(* documents in MongoDB, the entries of SessionRepository in Redis (10     *)
(* minutes), the tokens issued for a session, and the answers that the     *)
(* AuthServiceClient of the gateway or of socket-service caches per token  *)
(* (1 minute).                                                             *)
(*                                                                         *)
(* Handlers of any number of processes run at once and interleave at every *)
(* await; each step ends with one call to MongoDB or Redis, which is       *)
(* atomic.  Every call may fail and every process may die: the handler     *)
(* then ends where it stands (GiveUp).                                     *)
(***************************************************************************)
EXTENDS Naturals, FiniteSets

CONSTANTS
    Session,    \* the session ids that logins generate
    NoSession,
    Request,    \* slots for handlers running at once
    MaxTokens   \* bound: tokens issued for one session

ASSUME SessionConstants ==
    /\ NoSession \notin Session
    /\ MaxTokens \in Nat \ {0}

VARIABLES
    doc,        \* doc[s]: "none", "active" or "ended", its is_active in MongoDB
    cache,      \* cache[s]: the same of the copy in Redis, "none" without one
    challenge,  \* sessions whose MFA challenge is in Redis
    issued,     \* issued[s]: how many tokens were issued for s
    revoked,    \* the tokens with a key revoked:token in Redis
    valid,      \* the tokens that a client has cached as valid
    req,        \* req[r]: the handler running in slot r
    late        \* history: sessions whose entry was written, as active,
                \* after their end, or survived a failed delete

stores == <<doc, cache, late>>
access == <<challenge, issued, revoked, valid>>
vars   == <<stores, access, req>>

Token == Session \X (1..MaxTokens)

(* Ops that end a session, and those that first look it up. *)
Ends == {"mfaLogin", "logout", "delete"}
Finds == {"validate", "refresh", "lookup", "delete", "verify"}
Status == {"none", "active", "ended"}

(* token is the number of the token that the request carries.  copy is the *)
(* session as the handler has it.                                          *)
Requests == [op : {"none", "login", "mfaChallenge"} \cup Ends \cup Finds,
             at : {"idle", "insert", "setNew", "challenge", "revoked", "get", "query", "fill",
                   "answer", "end", "drop", "touch", "keep", "forget",
                   "takeChallenge", "delChallenge"},
             session : Session \cup {NoSession}, token : 0..MaxTokens, copy : Status]

Idle == [op |-> "none", at |-> "idle", session |-> NoSession, token |-> 0, copy |-> "none"]

Init ==
    /\ doc = [s \in Session |-> "none"]
    /\ cache = [s \in Session |-> "none"]
    /\ late = {}
    /\ challenge = {}
    /\ issued = [s \in Session |-> 0]
    /\ revoked = {}
    /\ valid = {}
    /\ req = [r \in Request |-> Idle]

GoTo(r, step) == req' = [req EXCEPT ![r].at = step]
Done(r) == req' = [req EXCEPT ![r] = Idle]
Begin(r, op, step, s, n) ==
    /\ req[r].at = "idle"
    /\ req' = [req EXCEPT ![r] =
                  [op |-> op, at |-> step, session |-> s, token |-> n, copy |-> "none"]]
    /\ UNCHANGED <<stores, access>>

(* Tokens for s: the bound ends the handler without one. *)
Issue(s) ==
    issued' = [issued EXCEPT ![s] = IF @ < MaxTokens THEN @ + 1 ELSE @]

-----------------------------------------------------------------------------
(* login *)

StartLogin(r, s) ==
    /\ doc[s] = "none" /\ \A q \in Request : req[q].session # s
    /\ Begin(r, "login", "insert", s, 0) \/ Begin(r, "mfaLogin", "insert", s, 0)

Insert(r) ==
    /\ req[r].at = "insert"
    /\ doc' = [doc EXCEPT ![req[r].session] = "active"]
    /\ GoTo(r, "setNew")
    /\ UNCHANGED <<cache, late, access>>

(* setex of a copy of the session into its entry. *)
Cache(s, copy) ==
    /\ cache' = [cache EXCEPT ![s] = copy]
    /\ late' = IF copy = "active" /\ doc[s] = "ended" THEN late \cup {s} ELSE late \ {s}

(* createSession caches the session it has inserted.  A login is then      *)
(* done; one with MFA ends the session until it is verified.               *)
CacheNew(r) ==
    /\ req[r].at = "setNew"
    /\ Cache(req[r].session, "active")
    /\ IF req[r].op = "login"
       THEN Issue(req[r].session) /\ Done(r)
       ELSE GoTo(r, "end") /\ UNCHANGED issued
    /\ UNCHANGED <<doc, challenge, revoked, valid>>

CreateChallenge(r) ==
    /\ req[r].at = "challenge"
    /\ challenge' = challenge \cup {req[r].session}
    /\ Done(r)
    /\ UNCHANGED <<stores, issued, revoked, valid>>

-----------------------------------------------------------------------------
(* terminateSession: the document first, then the entry. *)

(* Seeded fault: the document is deleted, not marked. *)
EndByDelete(r) ==
    /\ req[r].at = "end"
    /\ doc' = [doc EXCEPT ![req[r].session] = "none"]
    /\ GoTo(r, "drop")
    /\ UNCHANGED <<cache, late, access>>

EndSession(r) ==
    /\ req[r].at = "end"
    /\ LET s == req[r].session
       IN  doc' = [doc EXCEPT ![s] = IF @ = "none" THEN @ ELSE "ended"]
    /\ GoTo(r, "drop")
    /\ UNCHANGED <<cache, late, access>>

AfterDrop(r) ==
    CASE req[r].op = "mfaLogin" -> GoTo(r, "challenge")
      [] req[r].op = "logout" -> GoTo(r, "forget")
      [] req[r].op = "verify" -> GoTo(r, "get")
      [] OTHER -> Done(r)

(* Seeded fault: the entry is left to expire. *)
KeepEntry(r) ==
    /\ req[r].at = "drop"
    /\ AfterDrop(r)
    /\ UNCHANGED <<stores, access>>

DropEntry(r) ==
    /\ req[r].at = "drop"
    /\ LET s == req[r].session
       IN  /\ cache' = [cache EXCEPT ![s] = "none"]
           /\ late' = late \ {s}
    /\ AfterDrop(r)
    /\ UNCHANGED <<doc, access>>

(* logout through the client: auth-service ends the session of the token,  *)
(* and the client forgets its answer for that token.  (Auth-service also   *)
(* sets a key revoked:session, which nothing reads.)                       *)
StartLogout(r, s, n) == n \in 1..issued[s] /\ Begin(r, "logout", "end", s, n)

ForgetToken(r) ==
    /\ req[r].at = "forget"
    /\ valid' = valid \ {<<req[r].session, req[r].token>>}
    /\ Done(r)
    /\ UNCHANGED <<stores, challenge, issued, revoked>>

(* revoke: the key outlives the token.  (The keys of revoked sessions and  *)
(* users are read by nothing.)                                             *)
RevokeToken(s, n) ==
    /\ n \in 1..issued[s]
    /\ revoked' = revoked \cup {<<s, n>>}
    /\ UNCHANGED <<stores, challenge, issued, valid, req>>

-----------------------------------------------------------------------------
(* findById, and the handlers that begin with it. *)

(* DELETE of a session, by any session of the same user; GET of a session. *)
StartFind(r, s) ==
    /\ doc[s] # "none"
    /\ Begin(r, "delete", "get", s, 0) \/ Begin(r, "lookup", "get", s, 0)

StartRefresh(r, s) == issued[s] > 0 /\ Begin(r, "refresh", "get", s, 0)

(* validateToken of the client: a cached answer is the answer. *)
StartValidate(r, s, n) ==
    /\ n \in 1..issued[s]
    /\ <<s, n>> \notin valid
    /\ Begin(r, "validate", "revoked", s, n)

(* Seeded fault: a revoked token is not refused. *)
CheckNothing(r) ==
    /\ req[r].at = "revoked"
    /\ GoTo(r, "get")
    /\ UNCHANGED <<stores, access>>

CheckRevoked(r) ==
    /\ req[r].at = "revoked"
    /\ IF <<req[r].session, req[r].token>> \in revoked THEN Done(r) ELSE GoTo(r, "get")
    /\ UNCHANGED <<stores, access>>

GetEntry(r) ==
    /\ req[r].at = "get"
    /\ LET found == cache[req[r].session]
       IN  req' = [req EXCEPT ![r].copy = found,
                              ![r].at = IF found = "none" THEN "query" ELSE "answer"]
    /\ UNCHANGED <<stores, access>>

QueryDoc(r) ==
    /\ req[r].at = "query"
    /\ LET found == doc[req[r].session]
       IN  req' = [req EXCEPT ![r].copy = found,
                              ![r].at = IF found = "none" THEN "answer" ELSE "fill"]
    /\ UNCHANGED <<stores, access>>

FillEntry(r) ==
    /\ req[r].at = "fill"
    /\ Cache(req[r].session, req[r].copy)
    /\ GoTo(r, "answer")
    /\ UNCHANGED <<doc, access>>

(* What the handler does with the session it has found: only validate and  *)
(* refresh look at is_active.                                              *)
Answer(r) ==
    /\ req[r].at = "answer"
    /\ LET s == req[r].session
       IN  \/ /\ req[r].op = "verify" \/ (req[r].op = "refresh" /\ req[r].copy = "active")
              /\ Issue(s)
              /\ Done(r)
           \/ /\ req[r].op = "validate" /\ req[r].copy = "active"
              /\ GoTo(r, "keep")
              /\ UNCHANGED issued
           \/ /\ req[r].op = "delete"
              /\ GoTo(r, "end")
              /\ UNCHANGED issued
           \/ /\ \/ req[r].op = "lookup"
                 \/ req[r].op \in {"validate", "refresh"} /\ req[r].copy # "active"
              /\ Done(r)
              /\ UNCHANGED issued
    /\ UNCHANGED <<stores, challenge, revoked, valid>>

(* The client caches an answer "valid". *)
KeepToken(r) ==
    /\ req[r].at = "keep"
    /\ valid' = valid \cup {<<req[r].session, req[r].token>>}
    /\ Done(r)
    /\ UNCHANGED <<stores, challenge, issued, revoked>>

-----------------------------------------------------------------------------
(* mfa/verify: the challenge is read and deleted, "activateSession" only   *)
(* touches last_activity_at and drops the entry, and tokens are issued for *)
(* the session as it is found.                                             *)

(* mfa/challenge makes one for the session it is asked for, whatever its   *)
(* state.                                                                  *)
StartChallenge(r, s) ==
    /\ doc[s] # "none"
    /\ Begin(r, "mfaChallenge", "challenge", s, 0)

StartVerify(r, s) == s \in challenge /\ Begin(r, "verify", "takeChallenge", s, 0)

TakeChallenge(r) ==
    /\ req[r].at = "takeChallenge"
    /\ IF req[r].session \in challenge THEN GoTo(r, "delChallenge") ELSE Done(r)
    /\ UNCHANGED <<stores, access>>

DelChallenge(r) ==
    /\ req[r].at = "delChallenge"
    /\ challenge' = challenge \ {req[r].session}
    /\ GoTo(r, "touch")
    /\ UNCHANGED <<stores, issued, revoked, valid>>

(* Seeded fault: touching the session makes it active, ended or not. *)
TouchReviving(r) ==
    /\ req[r].at = "touch"
    /\ doc' = [doc EXCEPT ![req[r].session] = "active"]
    /\ GoTo(r, "drop")
    /\ UNCHANGED <<cache, late, access>>

TouchSession(r) ==
    /\ req[r].at = "touch"
    /\ GoTo(r, "drop")
    /\ UNCHANGED <<stores, access>>

-----------------------------------------------------------------------------
(* A call fails, or the process dies. *)
GiveUp(r) ==
    /\ req[r].at # "idle"
    /\ late' = IF req[r].at = "drop" /\ cache[req[r].session] = "active"
                  /\ doc[req[r].session] = "ended"
               THEN late \cup {req[r].session} ELSE late
    /\ Done(r)
    /\ UNCHANGED <<doc, cache, access>>

(* Redis drops a key at the end of its time to live. *)
EntryExpires(s) ==
    /\ cache[s] # "none"
    /\ cache' = [cache EXCEPT ![s] = "none"]
    /\ late' = late \ {s}
    /\ UNCHANGED <<doc, access, req>>

ChallengeExpires(s) ==
    /\ s \in challenge
    /\ challenge' = challenge \ {s}
    /\ UNCHANGED <<stores, issued, revoked, valid, req>>

(* Seeded fault: the client caches its answers for good. *)
TokenStays(t) == t \in valid /\ UNCHANGED vars

TokenExpires(t) ==
    /\ t \in valid
    /\ valid' = valid \ {t}
    /\ UNCHANGED <<stores, challenge, issued, revoked, req>>

-----------------------------------------------------------------------------
Start(r) ==
    \E s \in Session :
       \/ StartLogin(r, s) \/ StartFind(r, s) \/ StartRefresh(r, s)
       \/ StartChallenge(r, s) \/ StartVerify(r, s)
       \/ \E n \in 1..MaxTokens : StartLogout(r, s, n) \/ StartValidate(r, s, n)

Step(r) ==
    \/ Insert(r) \/ CacheNew(r) \/ CreateChallenge(r)
    \/ EndSession(r) \/ DropEntry(r) \/ ForgetToken(r)
    \/ CheckRevoked(r) \/ GetEntry(r) \/ QueryDoc(r) \/ FillEntry(r) \/ Answer(r) \/ KeepToken(r)
    \/ TakeChallenge(r) \/ DelChallenge(r) \/ TouchSession(r)

Next ==
    \/ \E r \in Request : Start(r) \/ Step(r) \/ GiveUp(r)
    \/ \E s \in Session : EntryExpires(s) \/ ChallengeExpires(s)
    \/ \E s \in Session, n \in 1..MaxTokens : RevokeToken(s, n)
    \/ \E t \in Token : TokenExpires(t)

Spec == Init /\ [][Next]_vars

(* Calls are answered and keys expire; nobody has to send a request.       *)
Fairness ==
    /\ \A r \in Request : WF_vars(Step(r))
    /\ \A s \in Session : WF_vars(EntryExpires(s))
    /\ \A t \in Token : WF_vars(TokenExpires(t))

FairSpec == Spec /\ Fairness

-----------------------------------------------------------------------------
(* Correctness. *)

(* Every variable has its type; nothing is cached of a session that does   *)
(* not exist, an entry never runs ahead of the document, and only issued   *)
(* tokens are cached as valid.                                             *)
TypeOK ==
    /\ doc \in [Session -> Status]
    /\ cache \in [Session -> Status]
    /\ \A s \in Session : /\ cache[s] # "none" => doc[s] # "none"
                          /\ cache[s] = "ended" => doc[s] = "ended"
    /\ challenge \subseteq {s \in Session : doc[s] # "none"}
    /\ issued \in [Session -> 0..MaxTokens]
    /\ valid \cup revoked \subseteq {t \in Token : t[2] <= issued[t[1]]}
    /\ req \in [Request -> Requests]
    /\ late \subseteq {s \in Session : doc[s] = "ended" /\ cache[s] = "active"}

(* No document, entry, cached validation or handler says any more that s   *)
(* is active.  The session info that the gateway client caches per token   *)
(* for GET /session (auth-client.ts 380-407) is left out: it admits        *)
(* nobody, and logout does not clear it (270).                             *)
Gone(s) ==
    /\ doc[s] = "ended"
    /\ cache[s] # "active"
    /\ \A t \in valid : t[1] # s
    /\ \A r \in Request : req[r].session = s =>
          req[r].copy # "active" /\ req[r].at # "setNew"

(* An entry says that an ended session is active only while its handler is *)
(* about to delete it, or if a handler that had read the session before    *)
(* its end wrote it afterwards (78, 54), or if the delete failed: the      *)
(* order of terminateSession, update and then delete, leaves no other way. *)
OnlyLateFillsOutlive ==
    \A s \in Session : doc[s] = "ended" /\ cache[s] = "active" =>
        \/ s \in late
        \/ \E r \in Request : req[r].session = s /\ req[r].at = "drop"

(* A session that is gone stays gone: no find, refresh or validation       *)
(* brings it back.  Nor does mfa/verify, against the words of the code:    *)
(* the session of a login with MFA is ended before its challenge exists    *)
(* (42-43 of session.service.ts), activateSession says "Reactivate by      *)
(* updating activity" (49) and auth.controller.ts "Activate session" (252) *)
(* of a call that leaves is_active alone, so the tokens that follow are    *)
(* refused.                                                                *)
GoneStaysGone == [][\A s \in Session : Gone(s) => Gone(s)']_vars

(* An ended session is gone at last, though finds under way may cache it   *)
(* as active once more, and clients cache what they were told before:      *)
(* both are bounded by a time to live (64-84; auth-client.ts 280-299).     *)
TerminationTakesHold ==
    \A s \in Session : <>[](doc[s] = "ended") => <>[]Gone(s)

(* A revoked access token is refused at last by validation, and for ever   *)
(* (refresh never looks for revoked tokens): answers "valid" given         *)
(* before, or by validations that had looked for the key before it was set *)
(* (internal.controller.ts 68, auth-client.ts 297), expire.                *)
RevocationTakesHold ==
    \A t \in Token : <>(t \in revoked) => <>[](t \notin valid)
=============================================================================
