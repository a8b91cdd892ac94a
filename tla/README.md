# CAAS: models and proofs

CAAS is a chat platform built of TypeScript services around Kafka, MongoDB and
Redis. This directory holds TLA+ models of the parts of it whose correctness
depends on order, failure and time, the TLC configurations that check them on
small instances, and proofs of their main properties for every instance.

| module | models | instances | proofs |
|---|---|---|---|
| `MessagePersistence` | the consumer of kafka-service that writes chat messages to MongoDB | `MCMessagePersistence` | `MessagePersistence_proofs` |
| `MessageLedger` | what that consumer promises; abstract, implemented by `MessagePersistence` | (as `KeepsLedger`) | `MessagePersistence_proofs` |
| `CallLifecycle` | one-to-one calls of socket-service | `MCCallLifecycle` | `CallLifecycle_proofs` |
| `RoomAuthorizer` | who may join, send and moderate; bans, mutes, roles and the cache of answers | `MCRoomAuthorizer` | `RoomAuthorizer_proofs` |
| `ChatRooms` | joining a room, its state in Redis, sending a message | `MCChatRooms` | `ChatRooms_proofs` |
| `TypingIndicators` | who is shown as typing | `MCTypingIndicators` | `TypingIndicators_proofs` |
| `Sessions` | sessions and tokens of auth-service and everyone's caches of them | `MCSessions` | `Sessions_proofs` |
| `AuditLog` | the audit log of compliance-service | `MCAuditLog` | `AuditLog_proofs` |
| `AuditTree` | what that log promises; abstract, implemented by `AuditLog` | (as `KeepsTree`) | `AuditLog_proofs` |

There is one `.cfg` per run. `PROJECT.json` lists the components, the runs, the
source lines of each definition, the seeded faults that show each property can
fail, the findings, the hazards and the theorems. A definition whose comment
begins "Seeded fault" is such a fault and no part of the specification.

To check: `tlc -workers 2 -config persist_core.cfg MCMessagePersistence.tla`;
to prove: `tlapm MessagePersistence_proofs.tla`.

Every module reads the code the same way: handlers interleave at each `await`, a
step runs from one to the next and ends with at most one command to MongoDB,
Redis or Kafka, and each such command is atomic and may fail.

## 1. Inventory

| component | state | operations | interacts with | hard behaviour | what makes it correct |
|---|---|---|---|---|---|
| Message persistence (`kafka-service/src/consumers/message-persistence-consumer.ts`) | `messageBuffer`, the flush timer; outside: committed offset, `messages` (unique on tenant and message), `conversations`, DLQ | handle a record, flush, stop | fed by socket-service through Kafka, announces to socket-service | flushes that overlap, partial bulk failure, redelivery, crash with a full buffer | nothing acknowledged that is not stored; nothing dropped; `last_message_at` right |
| Calls (`socket-service/src/webrtc`) | one Redis key per call, one timer per ringing call | initiate, answer, reject, hang up, disconnect, timeout | several handlers and instances on one key | read-modify-write without locks, timeout racing an answer, crash with a timer | one live call per user and states in order, but for reads that were overtaken; ringing ends |
| Room authorization and moderation (`socket-service/src/rooms/room-authorizer.ts`, `room-moderation.ts`) | ban and mute keys, a cached answer per project, conversation and user, the participants in MongoDB | check, ban, unban, mute, unmute, kick, set role | asked by every handler of the chat namespace; the conversation consumer changes participants behind its back | a check that read before a ban caches after it; a key dropped under another project | a sanction holds once seen; stale answers end |
| Rooms and messages (`socket-service/src/namespaces/chat.ts`, `room-state-manager.ts`) | the Socket.IO room, the member list in one Redis value | join, leave, send, react, forward, reply, disconnect | asks the authorizer, upstream of message persistence | read-modify-write of the list, any error taken for "no room", broadcast before publish | who joined is recorded; who was answered "ok" has the message in Kafka, unless no producer was connected |
| Typing (`socket-service/src/typing`) | a Redis hash with an expiry, a map of timeouts in memory | start, stop, time out, disconnect | chat namespace | timeout racing a new start, two commands where one may fail | no indicator stays for ever |
| Sessions (`auth-service/src`, clients of `gateway` and socket-service) | document, cache entry, MFA challenge, revocation keys, the clients' cached answers | log in, verify MFA, refresh, validate, log out, delete, revoke | every authenticated request | a find in flight refills the cache after the end; answers cached by clients | what has ended is refused at last and never comes back |
| Compliance audit log (`compliance-service/src`) | `batchBuffer`, last hash in Redis, `audit_logs` | log, flush, shut down | all services log to it | overlapping flushes, a batch put back although stored, the wrong service shut down | accepted events are kept once and stored; links point back (the chain the verifier wants is not there) |
| Retry and DLQ (`kafka-service/src/consumers/retry-consumer.ts`, `src/dlq`) | retry count in the record, status in `dlq` collection | wait and re-publish, give up | Kafka | a sleep as long as the session timeout | not wired: nothing publishes to the retry topic |
| Refresh-token families (`auth-service/src/refresh`) | token and family in Redis | refresh, detect reuse, revoke | JWT issue | check then mark | not wired: the refresh route goes through `TokenService` |
| Datastore migration, breakers, pools (`flexible-datastore/src`) | phase, checksums, counters | phase changes, cutover, admit and record | tenants' databases | stale checksums, late results in half-open | no cutover on old evidence |
| Change streams (`mongodb-service/src/change-streams`) | resume token per stream | handle, store token, restart | consumers of changes | handlers finish out of order | not wired |
| Presence, receipts, rate limits | short-lived Redis keys | set, expire | rooms | last writer wins | - |
| Media, search, gateway, crypto, GDPR, audit-service, shared packages, apps | request-scoped or computational | - | - | - | - |

`PROJECT.json` lists every component with its sources and why it is or is not
modelled, and the hazards at their lines. The components meet in three places:
`ChatRooms` ends where `MessagePersistence` begins (a message in `topic`);
`ChatRooms` leaves the answers of `RoomAuthorizer` open, so what it shows holds
for all of them; and both read users that `Sessions` has let in. They are
checked one by one because what one relies on of the other is only that open
interface, and because their product is out of reach.

## 2. Message persistence

**State.** `position` counts the records whose handler has returned in this
session, `committed` is the offset kept by Kafka, `handler` says at which await
`handleMessage` stands for record `position + 1`, `buffer` is `messageBuffer`,
`flush[s]` is a running call of `flushBuffer` in slot `s` (the handler's, the
one of `stop`, or a timer's), `stored` the events with a document,
`lastAt[c]` the conversation's `last_message_at`, `dlq` the records published to
the DLQ, `notices` the persistence events that reached the topic.

**Steps.** A step is what runs between two awaits.

| code | actions |
|---|---|
| `eachMessage`/`handleMessage` | `Deliver`, `PublishRejected`, `CheckDuplicate`, `SkipDuplicate`, `BufferMessage`, `PublishError`, `TellFailure`, `PublishEnvelope` |
| `setInterval` in `start` | `TimerFlush` |
| `flushBuffer` | `StartFlush`, `BulkAnswered`, `BulkUnavailable`, `BulkDriverError`, `UpdateConversation`, `NotifySuccess`, `NotifyFailure` |
| `stop`, `shutdown`, process start | `BeginStop`, `Exit`, `Crash`, `Restart` |
| kafkajs (external) | `AutoCommit`, `Rebalance` |

The three ways a bulk write fails are the constant `BulkFaults`:
`writeErrors` (the server refuses some inserts for a reason of its own),
`unavailable` (no server, nothing sent) and `driverError` (the connection breaks
during the bulk; the MongoDB driver rejects with a `MongoBulkWriteError` that
carries no write errors).

**Abstractions.**
- The consumer group has a committed offset (with `fromBeginning: false` a first
  start would skip what came before); the conversations' documents exist.
- Only one partition; records of several are independent but for the buffer,
  whose order inside a batch does not matter to any property.
- A message is its `event_id`; the repository's `message_id` is the same value.
- Invalid JSON and an unsupported type take the same steps and are one kind,
  `rejected`; an envelope that `normalizeEnvelope` refuses is `badEnvelope`.
- The notices race a 3 s timeout: any subset of a batch reaches the topic.
- The `Map` of conversations is visited in any order, the code's among them.
- The content of the conversation cache is not kept, its failing `del` is.
- Copies of one message in one batch are refused or accepted together.
- At shutdown the notifier and the DLQ producer disconnect at the same time;
  publishing that fails for this reason is a fault like any other.
- A bulk write still under way in the server when its process dies does not
  take effect later.

**The promise.** `MessageLedger` says the same without buffer, batches, offsets
or retries: an accepted message stays pending until it is stored or the process
dies, only stored messages are confirmed, a head is the time of a stored
message. Its `pending` is mapped to what is in the buffer or in a running flush
and not yet in MongoDB (`Pending`); its `Unsure` is whether `driverError` is
among the faults: then a write of unknown outcome may be confirmed and dropped,
as the code does. `KeepsLedger` is the refinement.

**What the code does and no property forbids.** The offset of a message that is
only in `messageBuffer` may be committed (`eachMessage` has returned), and a
crash then loses it: the ledger's `Die`. If the conversation update of a stored
batch fails, the batch comes back as duplicates and is acknowledged without the
update: `HeadIsStored` says that what the head names is right, not that it is the
latest. A rejected record whose DLQ publish fails is passed over with a log line
(145-167), on purpose; `DropOnlyWhenDone` therefore counts such a record as
settled whether it reached the DLQ or not. The ledger's `Die` alone does not say
that the process ends with it; that a living process drops nothing is
`DropOnlyWhenDone`.

## 3. One-to-one calls

**State.** `calls[c]` is the status under the call's Redis key (`absent` without
one), `parties[c]` its caller and callee, `timer[c]` its ringing timeout,
`request[r]` where the handler of a socket event in slot `r` stands with the
values it has read, `answered` the calls whose callee was told "Call answered".
Three histories name the one thing that goes wrong here, a read that is no
longer true when it is acted upon: `stale` are the handlers, `late` the timeouts
to which this has happened, `doubtful` the calls that such a handler made live.
`MaxEvents` bounds what clients send, `MaxFaults` failing commands and crashes.

**Steps.** A step ends with at most one Redis command.

| code | actions |
|---|---|
| `call:initiate` and `initiateCall` | `Initiate`, `ListKeys`, `ReadKey`, `ListFails`, `Scanned`, `Create` |
| `call:answer`, `call:reject` | `Answer`, `Reject`, then `SaveCall` |
| `call:hangup` and `endCall` | `Hangup`, `SaveCall`, `ReadHistory`, `DeleteCall` |
| `disconnect` and `handleDisconnect` | `Disconnect`, the scan, `EndNext`, then as a hang-up, call by call |
| `scheduleRingingTimeout` | `ReadTimedOut`, `SaveMissed` |
| key expiry, process death | `Expire`, `Crash` |

**Abstractions.**
- Instances are not distinguished: a crash, and the unhandled rejection of a
  failing save in the timeout (Node.js ends the process), may take away any set
  of handlers and timers.
- `Reject` and `Hangup` take any user, because the code checks no participation.
- A handler whose read fails or finds a wrong state changes nothing and is not
  a step. `endCallForUser` and `endCall` each read the call; as nothing is
  written between the two reads, they are one.
- Call history has no collection in the namespace's wiring, so `saveCallHistory`
  only removes the key.
- The 24 h expiry of a key happens when no handler and no timer of 30 s is left.
- Room membership, signalling and the `call:*` notifications have no state here.

**What may go wrong, and nothing else.** Two overlapping `initiate`s both find
their parties free, a failing scan reports a busy user as free, and an answer
may be saved over a call that meanwhile ended: each may leave a user in two live
calls, and `OneCallUnlessOvertaken` excuses exactly the calls made live in these
ways. A stale copy that is saved breaks the order of states;
`OrderUnlessOvertaken` excuses exactly the step that saves it. A handler whose
read was not overtaken does no harm whatever else overlaps, times out, fails or
dies. The timeout that marks an answered call as missed is such a save, and
contradicts a comment: `call_missed_after_answer`.

A call that nobody answers is `missed`, and `getActiveCallsForUser` counts it as
active until one of the two disconnects or its key expires; a call that rings
when its process dies rings until its key expires. The module has both.

## 4. Room authorization

**State.** `role[u]` is u's role among the conversation's participants (`NoRole`
if none), `banned` and `muted` the users with such a key in Redis, `authz[k][u]`
the cached answer for u under the project `k`, `inside` the users with a socket
in the room, `req[r]` a running handler with what it has found. `leftover` is a
history of the answers that outlived a ban.

| code | actions |
|---|---|
| `canJoinRoom`, `canSendMessage`, `canModerate` | `CheckCache`, `CheckBan`, `CheckMembership`, `CacheAnswer`, `CheckMute` |
| `joinRoom`, `sendMessage`, `message_archive`, `moderate:kick` once allowed | `Act` |
| `message_react`, `message_pin`, which ask only `socket.rooms` | `StartUnchecked`, `Act` |
| `leaveRoom`, `disconnect` | `Leave` |
| `moderate:ban`, `unban`, `mute`, `unmute` and `RoomModeration` | `Ban`, `Unban`, `Mute`, `Unmute`, then `Invalidate` |
| `group_member_role_update` | `UpdateRole`, then `Invalidate` |
| conversation-persistence consumer | `ParticipantAdded`, `ParticipantRemoved` |
| an exception anywhere; Redis expiry | `Throws`; `AnswerExpires`, `SanctionExpires` |

- `RoomModeration` passes no project, so it checks and invalidates the key of
  the project `default`; the chat handlers use the socket's project. With
  another project a ban leaves the cached answer to expire by itself (5
  minutes): `OnlyLateAnswersSurviveBan` is therefore about the default project.
  `BanTakesHold` is stated for any project, but checked for the default one only
  (the run's `Project`), and being liveness it is not proved for others.
- Reactions, pins and the other events that ask only whether the socket is in
  the room pass neither the mute nor the ban key (`chat.ts` 772-843), and
  neither puts the socket out of the room: a muted or banned user goes on
  reacting and pinning. No text of the repository promises otherwise.
  `CheckedSanctionsHold` is about the paths that ask (join, send, forward,
  reply, moderate) and says so.
- Kicking also removes the user from the state of a room named by the
  conversation; rooms are named by tenant and conversation, so nothing happens.
- What a user may do twice at once is bounded by the slots; each user's
  operations are given by `Offered`.

## 5. Rooms and messages

**State.** `inRoom` are the sockets in the Socket.IO room, `members` the users
in the room state in Redis (`NoRoom` without one), `req[r]` a handler with the
copy of the state it read, `shown` the messages broadcast, `topic` those in
`chat.messages`. `joined` and `excused` are histories: who was told
"ok", who was dropped for a known reason; so are `unsent`, the messages broadcast
while no producer was connected, and `acked`, those whose sender was answered "ok".

| code | actions |
|---|---|
| `joinRoom` | `Join`, `Ask`, `Enter` |
| `addMember`, `createRoom` | `GetRoom`, `SaveMember`; `CreateRoom` |
| `leaveRoom`, `disconnect` | `Leave`, `Disconnect` |
| `sendMessage` | `Send`, `Ask`, `Emit`, `Publish`, then `ReadActivity`, `SaveActivity` |
| `message_react`, `message_forward`, `thread_reply` | the same without the last two (`post`) |
| Redis expiry; death of a process | `RoomExpires`; `Crash` |

- The rate limiter, the spam detector and the authorizer end the handler or let
  it go on: `Ask` does either.
- `joinRoom` takes every error of `addMember` for an absent room, and
  `createRoom` overwrites the member list; this, and writes of copies read
  before another write, is what `excused` records. The property says that
  nothing else drops a member.
- While the producer is not connected a message is broadcast and its sender is
  answered "ok", but nothing keeps it (`chat.ts` 302-310; 800, 901 and 980 for
  reactions, forwards and replies): a silent loss, kept in `unsent`.
  `OkMeansPublished` says that it is the only one: any other message answered
  "ok" is in the topic, and a publish that fails is answered with an error.
- A rejection of a limiter or authorizer call stands outside the `try` and ends
  the process: it is a `Crash` of all the sockets of that process.

## 6. Typing indicators

**State.** `typing` are the users with a field in the Redis hash, `ttl` whether
the hash has an expiry, `entry[u]` the timeout that the manager's map holds for
u, `timer[t]` a timeout that is armed or has fired and waits for Redis, `req[r]`
a handler. One process: its map is in memory, and a user's socket is on one.

| code | actions |
|---|---|
| `handleTypingStart`, `addTypingUser`, `scheduleTimeout` | `TypingStart`, `SetExpiry`, `Schedule` |
| `handleTypingStop` | `TypingStop` |
| `clearUserTyping` | `Clear`, `ClearField` |
| `handleTypingTimeout` | `Fire`, `FireReturns` |
| Redis expiry; death of the process | `HashExpires`; `Crash` |

- Commands sent on one connection take effect in their order, so a command is
  sent and done in one step and its answer is the next step.
- A hash without fields is gone and its expiry with it, and `expire` on an
  absent key does nothing.
- `HashExpires` waits for armed timeouts (3 s against 10 s) and for a handler
  that has just set the expiry.

## 7. Sessions

**State.** `doc[s]`, `cache[s]` say whether the document and its copy in Redis
are active or ended; `challenge` the sessions with an MFA challenge; `issued[s]`
the number of tokens; `revoked` and `valid` the tokens that are revoked, and
that a client has cached as valid; `req[r]` a handler with the copy it found.
`late` is a history: entries written as active after the end.

| code | actions |
|---|---|
| `login`, `createPendingSession`, `createSession` | `StartLogin`, `Insert`, `CacheNew`, `EndSession`, `DropEntry`, `CreateChallenge` |
| `terminateSession`, `logout` | `StartLogout`, `StartFind`, `EndSession`, `DropEntry`, `ForgetToken` |
| `findById` | `GetEntry`, `QueryDoc`, `FillEntry` |
| `validateToken` and its client | `StartValidate`, `CheckRevoked`, the find, `Answer`, `KeepToken` |
| `refreshToken`, `revoke` | `StartRefresh`, the find, `Answer`; `RevokeToken` |
| `mfaChallenge`, `mfaVerify` | `StartChallenge`; `StartVerify`, `TakeChallenge`, `DelChallenge`, `TouchSession`, `DropEntry`, the find, `Answer` |
| failing call or death; expiry | `GiveUp`; `EntryExpires`, `ChallengeExpires`, `TokenExpires` |

- The keys `revoked:session` and `revoked:user` are read by nothing and have no
  variable. A key `revoked:token` (7 days) outlives its access token (15
  minutes), so `revoked` only grows.
- A session pending MFA is created active, ended, and never made active again:
  `activateSession` touches `last_activity_at`. Tokens are issued for it all the
  same, and validation and refresh then refuse them. This contradicts the
  comments `session.service.ts:49`, "Reactivate by updating activity", and
  `auth.controller.ts:252`, "Activate session", and is listed as a finding:
  `GoneStaysGone` holds of every behaviour, `mfa/verify` included, so nothing in
  the code does what these comments say.
- `valid` and `RevocationTakesHold` are about access tokens. Refreshing does not
  look for the revocation key.
- The gateway client also caches the session info of `GET /session` by token
  (`auth-client.ts` 380-407), which `logout` (270) does not clear. It admits
  nobody and is not modelled; `Gone` says so.
- Passwords, codes and signatures are checked by the code before a handler gets
  here. `findById` does not look at `expires_at`, so it has no variable.

## 8. Audit log

**State.** `stored` are the events in `audit_logs`, `cached` the last hash in
Redis, `log[e]` how far the call of `log` for event `e` has come and the hash it
links to, `buffer[p]` the `batchBuffer` of process `p`, `flush[f]` a running
`flushBatch`, `proc[p]` how far `p` is in its shutdown.

| code | actions |
|---|---|
| `log`, `getLastHash` | `LogEvent`, `QueryLast`, `FillCache`, `Push`; `LogFails` |
| `flushBatch` | `FlushTimer` or `Push` (full buffer) or `CloseServer`, then `InsertBatch`, `CacheNext`; `InsertFails`, `CacheFails` |
| Redis expiry | `HashExpires` |
| SIGTERM, `fastify.close`, exit; death | `Shutdown`, `CloseServer`, `Exit`; `Crash` |

- One tenant: events of others pass through the same buffer, but each tenant has
  its own hash key and its own links.
- An event stands for its own hash (a hash covers the event's unique id), and
  events are numbered in the order of their `created_at`.
- The slots of `Flush` only bound the model: the code starts as many flushes as
  there are timers and full buffers.
- `insertMany` is ordered and a document keeps the `_id` it was given: a batch
  that comes back although it is stored fails on its first document, for ever.
  `Poisoned` names this (a stored document waits to be inserted), and
  `AcceptedIsStored` excludes it: what the code does.
- Events logged before the previous one is flushed share a predecessor: the
  links form a tree, not a chain. `LinksPointBack` is what does hold.
  `verifyIntegrity` (157-164) demands the chain: `LinksFormChain`, refuted by
  `audit_chain`. The hash it recomputes before (`hash-chain.service.ts:25`) also
  covers the time of the call and so never matches; the recomputation is not
  modelled.

**The promise.** `AuditTree` says the same without buffers, batches, retries or a
cache: a process accepts an event once, with a link to the genesis hash or to an
event of the tree, and owes that link until it is in the tree or the process
ends; the tree only grows. It is what those who log get, not what those who
verify ask for. `tree` is mapped to the stored events with their links, `owed[p]`
to what the buffer and the running flushes of `p` hold and no earlier try has
stored, `gone` to the events whose `log` says that the end of their process took
them. `Forget` is thus tied to that end: a process that lets go of what it owes
while it lives leaves an event neither owed, nor in the tree, nor gone, which is
no step of the tree. `KeepsTree` is the refinement. It forbids what the other
properties leave open: a link that changes after the event was accepted, an
event accepted again after it was stored, a loss on the way from buffer to
batch, a document that is removed.

## 9. Runs

| run | instance | checks | distinct states |
|---|---|---|---|
| `persist_core` | 2 conversations, 4 records (one with a bad envelope, one published twice, times against the order of arrival), batch 2, one timer slot, 1 fault of any kind, 1 crash or stop, 1 rebalance | `TypeOK`, `HeadIsStored`, `DropOnlyWhenDone` | 605 411 |
| `persist_live` | 4 records (one of an unsupported type; the last message has no conversation and does not fill a batch), 2 faults, 1 crash or stop | `AckedIsStored`, `KeepsLedger`, `EveryRecordBecomesDurable` | 483 511 |
| `call_rings` | 2 users, 2 calls, 2 events at a time, 3 events, 1 fault in any method or crash | `TypeOK`, `OneCallUnlessOvertaken`, `RingingIsTimed`, `OrderUnlessOvertaken`, `NeverRingsAgain`, `EveryCallStopsRinging` | 425 562 |
| `authz_sanctions` | a moderator and a member they act upon, 2 handlers, default project, any number of failing calls | `TypeOK`, `OnlyLateAnswersSurviveBan`, `CheckedSanctionsHold`, `BanTakesHold`, `CacheFollowsRole` | 461 412 |
| `rooms_joins_sends` | 3 sockets of 2 users, 2 handlers, 2 messages, 1 fault or crash | `TypeOK`, `JoinedIsRecorded`, `OkMeansPublished` | 2 888 832 |
| `typing_ends` | 2 users, 2 handlers, 3 timeouts, 1 fault or crash | `TypeOK`, `EveryIndicatorIsTimed`, `TypingEnds`, `SilenceClears` | 228 876 |
| `sessions_end` | 1 session, 2 tokens, 2 handlers, any number of failing calls | `TypeOK`, `OnlyLateFillsOutlive`, `GoneStaysGone`, `TerminationTakesHold`, `RevocationTakesHold` | 403 443 |
| `audit_links` | 1 process, 3 events, batch 2, 2 flushes at once, 2 faults, any number of shutdowns and crashes | `TypeOK`, `AcceptedIsKept`, `HeldOnce`, `LinksPointBack`, `KeepsTree`, `AcceptedIsStored` | 223 190 |

Four more runs each end in a counterexample to something the repository says:

| run | property | what happens |
|---|---|---|
| `persist_acked_lost` | `AckedIsStored` | A connection error during a bulk write leaves 0 duplicate-key errors of 0 write errors; line 336 takes this for "ALL errors are duplicate key", announces success and drops the batch. |
| `call_missed_after_answer` | `AnsweredNotMissed` | The timeout has read "ringing"; the answer is saved; the timeout saves "missed" over it. |
| `audit_shutdown` | `ShutdownFlushes` | The signal handler shuts down the `AuditService` of `server.ts`, whose buffer is empty, and closes MongoDB; the one of the routes, with the events, flushes afterwards, fails and exits. |
| `audit_chain` | `LinksFormChain` | Two events are logged before the first is flushed; both link to genesis, and the verifier reports "Chain broken". |

One finding has no counterexample but a property that holds: `GoneStaysGone` of
`sessions_end` shows of every behaviour that a session pending MFA is never
activated (section 7).

**Why the bounds are enough.** *Persistence*: batch 2 over four records gives
full, partial and repeated batches and buffers that grow during a flush. Handler,
timer and stop can flush at the same time, each pair of them over the same
message. One timer slot stands for any number of overlapping timer flushes: two
behave as the handler's and the timer's do, and the proofs hold for every number.
One fault followed by a crash or a rebalance, or two faults, reach every error
path twice. *Calls*: two users and two calls are what it takes to be in two live
calls at once; with two overlapping events and the timeout, three writers meet on
one key, one more than a stale copy needs; three events are two that overlap and
one before or after them. A third user adds calls that share one party instead of
two; the proofs hold for any number of users, calls, slots and events.
*Authorization*: the user acted upon and the moderator are different users, and
two handlers are one check racing one sanction, or two checks racing an expiry,
on one answer; failing calls are unbounded. *Rooms*: two handlers are what an
overlapping read and write need; the third socket makes a user with two sockets,
one of which leaves. *Typing*: three timeouts are a fired one, its successor, and
that of the other user, who keeps the hash alive. *Sessions*: two handlers are
the find and the end that race; tokens are independent of each other but for the
session, and two let one be revoked and the other not. The safety part of
`sessions_end` was also run with three handlers and one token (3 251 385 states).
*Audit*: three events are one that is being flushed, one behind it in the buffer,
and one that is linked meanwhile; two flushes overlap; two faults let a batch
come back and fail again. Further processes share only `stored` and `cached` with
the first; the proofs hold for any number of them.

Handlers, messages and the two sockets of one user are symmetric in
`rooms_joins_sends`; runs with liveness properties use
no symmetry. Deadlock is not checked: the topic ends, and clients may stop.

**Fairness.** Everywhere: an awaited command is answered (weak fairness of each
handler's or flush's step), a scheduled timeout fires, and Redis drops a key at
the end of its time to live where a property relies on it. Nothing obliges a
client to send anything, a process to stop, crash or restart, Kafka to rebalance
or commit, or a fault to happen.

- `persist_live`: kafkajs keeps delivering, and the interval timer fires while
  the process is up.
- `authz_sanctions`: cached answers expire; bans may last for ever.
- `typing_ends`: the hash expires when its time is over; who never stops typing
  keeps renewing it, and the properties say so.
- `sessions_end`: entries and the clients' answers expire.
- `audit_links`: the interval timer is strongly fair, because it needs a free
  slot of the model, which the code does not: it fires every five seconds
  whatever runs.
- `call_rings`: a ringing timeout fires. `ChatRooms` has no liveness property:
  nothing in it waits for something that has to happen.

## 10. Proofs

The theorems hold for every value of the constants: topics, batch sizes, sets of
users, sockets, sessions, events, calls, slots and processes, and every bound.
The assumptions are those the modules declare (`ConstantsOK`,
`CallConstantsOK`, `AuthorizerConstants`, `RoomConstants`, `TypingConstants`,
`SessionConstants`, `AuditConstants`: which values are distinct and which are
numbers), but where a theorem names another.

| theorem | states | further assumption |
|---|---|---|
| `TypeCorrect`, `HeadCorrect`, `DropCorrect` | `TypeOK`, `HeadIsStored`, `DropOnlyWhenDone` | |
| `AckedCorrect` | `AckedIsStored` | no `driverError` |
| `LedgerKept` | `KeepsLedger` (refinement) | |
| `CallTypeCorrect`, `RingsOnce`, `RingingTimed` | `TypeOK`, `NeverRingsAgain`, `RingingIsTimed` | |
| `OneCallPerUser`, `OrderedStates` | `OneCallUnlessOvertaken`, `OrderUnlessOvertaken` | |
| `AuthTypeCorrect`, `LateAnswers`, `SanctionsHoldOn` | `TypeOK`, `OnlyLateAnswersSurviveBan`, `CheckedSanctionsHold` | |
| `RoomTypeCorrect`, `JoinedRecorded`, `OkPublished` | `TypeOK`, `JoinedIsRecorded`, `OkMeansPublished` | |
| `TypingTypeCorrect`, `IndicatorsTimed` | `TypeOK`, `EveryIndicatorIsTimed` | |
| `SessionTypeCorrect`, `LateFills`, `GoneStays` | `TypeOK`, `OnlyLateFillsOutlive`, `GoneStaysGone` | |
| `AuditTypeCorrect`, `AcceptedKept`, `LinksBack`, `HeldOnceCorrect` | `TypeOK`, `AcceptedIsKept`, `LinksPointBack`, `HeldOnce` | |
| `TreeKept` | `KeepsTree` (refinement) | |

*Persistence.* Neither `AckedIsStored` nor `HeadIsStored` is inductive: a
notice or a conversation update is sent steps after the write that justifies it.
The invariant adds what the code has established at each await: `HandlerOwes`
(at `duplicate` the event is stored; at `flushing` it is in the handler's batch;
at `tellFailure` the record is in the DLQ) and `FlushOwes` (a batch whose
conversations are being updated is stored); `DoneIsStored` says the same of a
batch about to be announced, and is the part that a driver error breaks: the
assumption of `AckedCorrect` is exactly what `persist_acked_lost` shows to be
needed. `DropCorrect` uses the same invariant: a step hands what it takes from
buffer or batch to the other, to the database or to the DLQ, and the events held
only shrink when a flush returns as done or the process dies.

`LedgerKept` maps every step to one of the ledger: `BufferMessage` to `Accept`,
the answer of a bulk write to `Store`, the two DLQ publishes to `DeadLetter`,
the notices to `Confirm` and `Report`, the conversation update to `SetHead`, the
end of the process to `Die`, everything else to a stutter. It rests on `LedgerInv`,
the invariant above with `DoneIsStored` demanded only without `driverError`.
The taking of a batch and its return are stutters because `Pending` is a set of
events carried by the buffer or by a flush (`CarriedWhere`). With `driverError`
the notice of a batch of unknown outcome, and the return that drops it, are
`ConfirmUnsure`: so the refinement needs no assumption, and the ledger says
exactly what a broken connection costs.

*Calls.* `NeverRingsAgain` needs only that no handler ever has `ringing` to
write (`WritesGenerated`), whatever stale copy it holds. The other two rest on
`ReadsStillTrue`: what a handler has read is still true when it acts on it,
unless it was overtaken (`stale`). The caller it found free is free, a live call
that its scan has not reported is still to be read, and the status it is about
to save follows the one the key has now; a timeout about to save (not `late`)
finds its call ringing. The proof has one lemma for each way this could fail: a
step keeps what the other handlers have read or marks them (`OthersUnharmed`),
what the acting handler reads is true (`ActorReads`), and the same for timeouts
(`TimersUnharmed`). `OneCallPerUser` follows because a call made live upon a
true read shares no user with another live one, and one made live otherwise is
`doubtful` for good (`DoubtStays`); `OrderedStates` because a save of a true
read is one of `Moves`. Neither assumes anything of how many events overlap, or
of which commands fail. `RingingTimed` is the safety part of `EveryCallStopsRinging`:
only `initiateCall` makes a call ring (`CallMoves`), and it schedules the
timeout in the same step; a timeout leaves only when its call has stopped
ringing, with its process, or by a failing command (`TimerLeaves`).

*Authorization.* `AuthInv` adds `HandlerOK` to the property: only sanctions and
role updates stand at `invalidate`, with a target, and sanctions work on the key
of the default project; so an answer is written for a banned user only where the
history records it, and a ban that is set stands at its own invalidation.
`CheckedSanctionsHold` follows from a case for each step, given that the steps
behind the check of the ban are reached from it or from a cached answer only, by
all but the operations of `Unchecked`, which stand at `act` alone
(`UncheckedAct`).

*Rooms.* `HandlerOK` says of a handler about to write that its copy has all
recorded members, unless its `excuse` is set because another write or a failed
command came between; so whoever a write drops is excused. `OkMeansPublished` is
inductive with what the same part says of a handler past its publish, at `touch`
or `resave`: its message is in the topic or in `unsent`.

*Typing.* The property is inductive once free timeouts are `Off` and handlers
under way have a user: whatever cancels a timeout clears the field in the same
step or is about to, and whatever fires deletes it in the same step.

*Sessions.* `SessionInv` adds that tokens are issued for existing sessions, and
for each handler what its guard has seen and is still true because documents
only move forward (`RequestOK`). `GoneStaysGone` is the absence of a source: no
entry, no answer, no copy and no insertion that is still to be cached.

*Audit.* `AuditInv` adds `Linked` (cached and linked hashes are genesis or
stored) and `FlushOK` (a flush that caches has stored its batch). That `findOne`
sorted by time has a result is the well-foundedness of the numbers. `MemoryOnly`
reduces every step that moves events between buffer and flushes to one fact: what
a process holds does not change, or leaves for the database. `HeldOnce` is
inductive with `AuditInv`: an event about to be pushed is held nowhere
(`PushedIsNew`), taking and putting back move a sequence whose parts share no
event, and what two processes hold differs in the process that `log[e]` names
(`BuffersApart`). `TreeKept` reads what a process owes off `log` instead of its
memory: by `AuditInv`, an event is held and not stored exactly if it is accepted
and not stored (`OwedIs`); so flushes that take, put back and cache are stutters
whatever they do to the buffer, and only `Push`, the inserts and the end of a
process are left to map, to `Accept`, `Store` and `Forget`; what is forgotten is
read off `log` too (`GoneNow`), and no step takes an event back from there
(`Final`). It adds to the invariant that what is stored was accepted
(`StoredAccepted`): its `log` record, and with it its link, is never written
again.

Every invariant, action property and refinement of the passing runs is proved.
Model-checked only are the liveness properties (`EveryRecordBecomesDurable`,
`EveryCallStopsRinging`, `BanTakesHold`, `CacheFollowsRole`, `TypingEnds`,
`SilenceClears`, `TerminationTakesHold`, `RevocationTakesHold`,
`AcceptedIsStored`), because the prover handles neither fairness nor `ENABLED`;
the safety they rest on is proved: `DropOnlyWhenDone`, `RingingIsTimed`,
`OnlyLateAnswersSurviveBan`, `EveryIndicatorIsTimed`, `OnlyLateFillsOutlive` and
`AcceptedIsKept`. `AnsweredNotMissed`, `ShutdownFlushes`, `LinksFormChain`, and
`AckedIsStored` where `driverError` is possible, have counterexamples instead of
proofs.

## 11. Not modelled, and the plan

Not planned: cryptography, gateway schemas and clients, user interfaces, SDKs,
telemetry (computation or wiring without interleaved state); audit-service,
whose chain is built in one synchronous step; group calls, recording and quality
tracking, which no event reaches; the retry consumer and the DLQ services, the
families of refresh tokens, the change streams and the connection pools, which
exist but are wired to nothing: a model of them would say something about code
that does not run.

Left for later: `FallbackController` (a breaker whose half-open state admits
every request) and `MigrationService` of flexible-datastore, presence and
receipts, the search indexer (the shape of message persistence without its
duplicate handling), and media uploads.

Next: `Breaker` and `Migration`, as far as their wiring in
`flexible-datastore/src/index.ts` gives them concurrent callers; and abstract
specifications of `Sessions` (an end is final for every reader) and
`RoomAuthorizer` (a sanction, once seen, stays), to be implemented as
`MessageLedger` and `AuditTree` are.
