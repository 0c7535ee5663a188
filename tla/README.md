# VelChat backend: a TLA+ model

VelChat is a chat backend of NestJS services over PostgreSQL, MongoDB, Redis (Valkey) and a
message bus that runs on Redis Streams, on Kafka or in memory. These modules model the parts of
it where several requests, workers, replicas or connections meet in shared state, model-check
them on small instances, and prove the most important properties for instances of any size.
Paths below are relative to the repository, and `chat/` and the like stand for
`libs/feature-chat/src/chat/`.

## 1. The system

| Part | State it keeps | Operations | Talks to | What is hard about it |
| --- | --- | --- | --- | --- |
| Message send (`chat/chat.service.ts`, `seq.service.ts`) | the `messages` collection with two unique indexes, `counters` in Mongo, `seq:{conversation}` in Redis | `send`: dedupe, take a number, insert, publish, answer | bus (`message.sent`) | a counter in two stores that fail apart; retries; a crash between insert and publish |
| Message history (`chat.repository.ts`) | none of its own; each device keeps a cursor | `history(afterSeq)` | | numbers are handed out before the messages are stored |
| Edits, deletes, reactions; pins and states (`feature-chat`); search index | Mongo documents, rows, index entries | one or two updates and an event each | bus | reads before conditional writes; events of several streams |
| Receipts, polls, resend (`feature-chat`) | watermarks, votes, a tally in Redis, resend rows | report, vote, close, ask again, fulfil | bus | late and repeated reports; a cache written by whoever is slower; limits read before the write |
| Event bus (`libs/event-bus`) | a stream or topic, consumer groups, idempotency keys, dead letters | publish, read loop, reclaim sweep, retry, dead-letter, ack; rebalances | every service | at-least-once delivery with two threads per consumer, several groups, crashes |
| Notification outbox (`notify/`) | `notification_outbox` and `push_endpoints` rows | enqueue on `message.sent`, claim, push, settle or retry, prune, register tokens, take device receipts | push providers | replicas, partial failure of a pass, providers that refuse tokens, devices that change hands |
| Groups, channels, DMs (`channels/`) | `conversations`, `conversation_members`, the sender-key epoch | create, add, remove, leave, join, set role, rotate the epoch | bus (`conversation.*`, `group.epoch.changed`) | check-then-act over plain queries, no transaction; events after the writes |
| Members projection (`fanout/membership-projection.ts`, `notify/members.projection.ts`) | the Redis set `members:{conversation}` | apply membership events, refill when empty | bus, Postgres | a cache filled by readers and by two consumer groups |
| Realtime (`fabric/`, `fanout/`) | sockets of a pod, `conn:{user}` in Redis, `skdm:{user}:{device}` lists, send queues, pub/sub channels | connect, ping, close, sweep, drain, route, queue and replay sender keys, fan out, take frames | Redis pub/sub, bus, clients | sockets that die unnoticed, entries of crashed pods, replay and catch-up against new arrivals |
| Authentication (`feature-auth`) | accounts, devices, refresh tokens, passkeys, backup codes, the device list and its log; codes, challenges and proofs in Redis | sign-up, login, rotation, logout, links, number change, codes by SMS, passkeys, recovery, device transitions | SMS provider, discovery | what may be used once is read and used up in two commands |
| Users, tenancy, discovery (`feature-user`) | contacts, registered tokens, edges, OPRF keys, organisations and roles, retention | follow, block, hash and discover, rotate, add and remove members, set policy | bus, other services | links written by two statements; roles checked before they are used |
| Jobs, campaigns, flags (`feature-automation`, `campaigns/`) | job, workflow, campaign, flag, schedule and segment rows; caches; the platform document | claims by ticks, chaining, pausing, versions, rollback, evaluation | bus, mail, webhooks | claims that a crash leaves behind, whole documents written back |
| Lists, clips, canvases (`feature-automation/lists`, `collab`) | rows | add, move, delete, edit by version | bus | deletions of two statements |
| Media, backups, status (`feature-media`, `feature-status`) | rows and objects under content hashes; posts that expire | upload, dedupe, view once, purge, renditions; post, view, remove, expire | object store, bus | reference counts taken before a delete |
| Calls, presence (`feature-call`, `feature-realtime/presence`) | calls, participants, control requests; devices of a user in Redis | create, schedule, join, leave, request; online, heartbeat, status | LiveKit, bus | rows and events of overlapping calls |
| Composition and gateway (`libs/common`, `apps/`) | what a process has connected, started and registered; keys on disk; routes | boot, readiness, drain, proxying, questions between services | all stores | a boot that gives up waiting but not the work it waits for |
| AI, configuration, clients, scripts | none or caches | calls to outside services | | |

All services are stateless processes that may run in several replicas; what they share is in
the stores. One statement of a store is atomic and nothing larger is, with one exception (a
transition of the device list is a transaction). So **a step of a module is one command to a
store** (with the computation before it), and every `await` is a place where other actors move.
A fault is a command that rejects, a command that takes effect and whose reply is lost, or a
process that dies.

The full list of components, modelled or not, is in `PROJECT.json` (`components`), as are the
hazards the properties are for (`hazards`, each at its line), and for every definition the
lines it models (`map`).

## 2. Modules

| Module | Models | State ↔ code |
| --- | --- | --- |
| `ConversationLog` | what sending promises: documents are stored, then announced, then answered, with one number per document and one document per client message | abstract: `messages`, `published`, `acks` |
| `MessageSend` | `ChatService.send` with `SeqService.next` | `redisSeq` the key `seq:{conv}`, `counter` the `counters` document, `messages` the collection; `pc`, `seq`, `floor`, `attempt` the locals of each call |
| `HistoryReader` | one device that pages `history(afterSeq)` while others send; extends `MessageSend` | `cursor` is its `afterSeq`, `inbox` what it holds |
| `MessageLifecycle` | edit, delete, reactions of one stored message, and its entry in the search index | `content`, `deleted`, `history`, `key` and `reactors` the document, `published` the events, `index` the entry's text |
| `EventBus` | `RedisStreamsEventBus` for one topic: groups, processes, a read loop and a sweep in each | `cursor` and `pel` are Redis' group state, `processed` the idempotency keys, `dlq` the dead-letter stream |
| `Buses` | the Kafka bus, the base consumer beside it, the in-memory bus | `topic` the partition, `committed` the offsets, `eating` what each consumer is at, `waiting` and `delivering` the microtasks of the memory |
| `NotificationOutbox` | `NotificationService`, `NotificationRepository`, `OutboxWorker` for one user | `status`, `attempts`, `due` the columns of a row, `token` the endpoint rows |
| `Channels` | every call that changes members, roles or the epoch of one conversation | `role` the member rows, `call` the locals of each call, `log` the published events |
| `MemberProjection` | the Redis set kept from those events; extends `Channels` | `cached` the set, `next` and `held` the position of each group |
| `SkdmRelay` | sockets of one device, the registry, per-pod channels, the queue of sender keys | `conn` the tracked sockets, `registry` the set `conn:{user}`, `queue` the list |
| `Fabric` | live delivery of messages to a device that catches up, and the frames it sends | `sock` and `entry` the sockets and their registry entries, `sendQueue` what waits on each, `fan` the consumer's locals |
| `Tasks` | calls that meet in shared stores; every module below extends it | `task[t]` the locals of a call, `task[t].at` the command that is next |
| `Sessions` | refresh tokens, login with the device key, logout | `token` the rows, `nonce` the challenge |
| `Accounts` | accounts, devices and the one-time proofs that lead to them; registration and login by passkey | `owner` who has a phone or email, `device` the rows, `proof` and `challenge` the keys in Redis, `key` the passkey's counter |
| `Otp` | codes by SMS: session, mutex, attempts, lock, rate limit | `active`, `attempts`, `sends`, `locked`, `mutex` the Redis keys |
| `Recovery` | the recovery request, backup codes, completion | `request` the key, `codes` the rows |
| `Devices` | the versioned device list and its log | `epoch`, `rows`, `log` the tables, `lock` who holds the account's row |
| `Directory` | OPRF keys, tokens, edges; organizations with their roles, member events, retention and its audit | `activeKey`, `known`, `edge`, `role`, `policy` the rows, `memberTold` and `audited` what was told of them |
| `ServiceCalls` | the keys processes of one machine create at once; questions between services | `file` the files, `got` what each process took, `row` the directory's rows, `inflight` the shared lookups |
| `Receipts` | watermarks; resend requests; receipts for pushes | `mark`, `row`, `endpoint` the rows |
| `Polls` | votes, tally, cache, closing | `votes`, `cache`, `closed` |
| `Jobs`, `Campaigns` | durable jobs and workflows; mail campaigns | `jobs`, `campaigns` the rows |
| `Flags` | versions, rollback, schedules, the platform document, segments | `flag`, `snapshots`, `cached`, `platform`, `schedule` |
| `FlagEvaluation` | the evaluation of flags that depend on each other | `memo`, and `stack` for the recursion |
| `Collab` | pins and states of a chat, lists and items, canvases | `pinned`, `chat`, `list`, `items`, `canvas` the rows |
| `Media` | media objects, blobs, renditions, backups; posts | `objects`, `backups`, `posts` the rows, `blobs` the object store |
| `Calls`, `Presence` | calls, meetings, participants, control requests; presence of one user | `call`, `present`, `live` the rows; `online` and `manual` the Redis keys, `fanned` what was told last |
| `Deployment` | what a process mounts, its boot and drain, the gateway's routes | `waited`, `starting`, `working`, `readers` |
| `Services` | what the services beside messaging promise of delivery, schedules and presence, and their behaviours: one service at a time while the others rest | the state of `Receipts`, `Polls`, `Jobs`, `Campaigns`, `Calls`, `Presence` |
| `MessageSend_proofs` (with `HistoryReader`), `EventBus_proofs` (with `Buses`), `NotificationOutbox_proofs` (with `Services`), `Channels_proofs` (with `MemberProjection`), `Realtime_proofs` (with `Fabric`), `MessageLifecycle_proofs` (with `Collab` and `Deployment`), `Features_proofs` (`FlagEvaluation`, `Media`, `Flags`, `ServiceCalls`), `Identity_proofs` (`Sessions`, `Otp`, `Recovery`, `Devices`, `Directory`, `Accounts`) | proofs | |
| `MC*` | instances for TLC; `MCIdentity`, `MCServices` and `MCSkdmRelay` run several modules, one at a time | |

Each operation is an action named after the method. Where a method does several commands its
`pc` (or `call[c].pc`, `dist[k].at`, `task[t].at`, ...) names the command that is next. Actions
below the heading "environment", and `Abort`, `Crash`, `Expire`, `Fails`, `Lapses`, are the faults and the
passage of time. Operators introduced as "Mutant" are deliberately wrong variants of the
definition that follows; nothing uses them except as its replacement, which shows that a
property would notice such a bug.

### Message send

`send` looks for the client message id, takes a number, inserts, and publishes. The number
comes from Redis when the key is there (`HotIncr`, a Lua script, atomic), is seeded above the
durable floor when it is not (`FloorCounter`, `FloorMessages`, `Seed`, `Persist`), and comes
from Mongo when Redis rejects (`Degrade`, `IncrementDurable`). The loser of a `SET NX` race
returns an `INCR` that is not awaited inside the `try`, so its rejection fails the send
instead of degrading (`IncrRejects`). A duplicate key is either the same client message
(answered from the store) or a taken number (a new attempt, at most `MaxAttempts`).

What must hold: all answers to one client message name one document; a
writer answers only after its event is out; and as long as no counter was lost and the floor
could be read, no send ever collides with another on its number (`NoCollisionWhileIntact`; that two stored
messages never share one is the index' doing and not the handler's). A stored message
without an event has a fault behind it. `LogRefined` says all of it implements
`ConversationLog`: `Log == INSTANCE ConversationLog WITH` the mapping that keeps `messages`,
`published` and `acks` and forgets the rest. The deployment modelled has Redis and Mongo; the
in-memory counters used without them are not modelled. Validation and content are abstracted.

### Message history

A page returns the messages above the cursor in order and the cursor moves to
the last. Since a number is held for a while before its message is stored, the cursor can pass
it. `OnlyOvertakenAreMissed` says that is the only way to miss a message; `NoMessageLost`, the
promise of the architecture document, is violated by it (section 4). The filter
`deleted: false` has no effect in this model, where nothing is deleted.

### Edits, deletes, reactions and search

One message after its send and calls of any kind on it. `edit` reads, updates and publishes; the update
asks neither for `deleted: false` nor for the content that was read, so an edit may fill a tombstone
(`TombstoneFilledOnlyByRacingEdit`) and the middle one of two crossed edits leaves no trace
(`VersionsAreKept`). `unreact` is a `$pull` and a `$unset` that asks for an empty list, and that
condition is what keeps a reaction added in between (`ReactionsSettle`). The indexer takes
the events in any order; its entry ends with the newest text unless an older one was written later, and it
never holds a text the server was not meant to read. One emoji, one index entry; the live cues of
reactions are published and go nowhere in this model. `deleted` is called without the
tenant (`chat.service.ts:216`), so `Purges` is never true: the entry of every deleted message
stays, although `chat.service.ts:199` says search purges it. The model shows it in each behaviour
with a delete, and the last property is therefore stated for messages that are not deleted.

### Receipts, resend, polls

A watermark is raised by `$max`, so receipts may come late and twice; the time beside it is set
whatever the number (`OutOfOrderIsHarmless`, which no run checks, is what does not hold of it). A
resend request is decided on a row read before the upsert; `ResendHolds` says by which overlap alone the
limit is passed or a fulfilled request reopened. A push is answered with the token of an endpoint, and the
answer counts for whoever owns the row then (`AnswersAreTheRecipients`); the worker sends to the endpoint it
read, which may have changed hands before the push is out. A vote is a clear, an insert and a tally that
goes to the cache last: `PollCounts` says when a voter may have two votes of a single choice, and when the cache
may trail the votes.

### Event bus

A process has two threads on the stream: the read loop takes new entries in batches, the sweep
reclaims entries that were pending for too long, its own included, so the two may overlap on one
entry. Each handles an entry as `handleEntry` does: check the mark, run the handler with
bounded retries, mark, acknowledge, or dead-letter and acknowledge. Faults: the check rejects
(the rest of the batch is dropped), the reply to a read is lost (the whole batch is pending and the loop reads on
behind it), the mark fails (the handler runs again), the dead-letter
write fails (acknowledged all the same), the acknowledgement fails, the process dies. A handler
may fail at any attempt. Not modelled: trimming of the stream, several topics in one read, and
an acknowledgement that the blocking reader delays.

`Buses` is the same promise kept otherwise: with Kafka the mark comes before the handler and has
one key for all groups, in memory there is no mark and deliveries overlap.

### Notification outbox

One user's rows and devices. Preferences and presence only decide whether a row is enqueued and
are abstracted to that choice. A worker claims due rows (attempts + 1, still pending), loads the
endpoints, pushes to each, prunes refused tokens and settles the row. Devices register new
tokens and providers change which they accept at any time.

### Groups, channels, direct messages and the members projection

One conversation whose kind is chosen at the start, and calls that run query by query. A refused
call changes nothing, so the checks that precede a call's first write and that nothing can
change meanwhile are guards of its starting action; counts and role lookups that race with
writes are steps. A private channel is a channel nobody joins; a community is its announcement
channel, for which `createCommunity` publishes nothing. `leaveChannel` checks no kind and
rotates no epoch, so groups and direct messages can be left and the one who left keeps the key;
the property on keys says so.

`MemberProjection` composes `Channels` with the consumer groups of its events, and with the refill by
`members()`/`isMember()`. Two groups (`Keepers`) apply the events to the same Redis set; `search-indexer` takes
`conversation.created` alone and writes nothing to it (`PassOver`). Order is kept per topic and not
across topics; the idempotency mark is shared between the groups, so a group skips what another has marked,
and the creation that the indexer marks first reaches no set (`overlooked`). Redelivery and dead-lettering are in `EventBus` only. Its properties say which former
members may still be in the set and which members may be missing, and only for which cause.

### Sockets, registry and sender keys

One recipient device with several sockets on several pods. A pod sends its commands over one
connection, so a ping cannot re-add an entry after its own socket's removal. A PUBLISH and its
arrival are one step: the publisher does not wait for the arrival, and what happens to
the sockets in between could as well have happened before. Delivery counts publications, not
sockets. A distribution that dies with its pod takes no more steps. Not modelled: the requests
by which clients recover a missing key, other devices of the user (they only postpone `Expire`,
which never has to happen), the coalescing of ephemeral frames, lost pub/sub connections.

`Fabric` puts the path of a message beside it: numbered, stored, published (in any order of the numbers), its recipients
looked up and routed, while the device registers, is greeted and reads the history above its cursor. Whatever was stored is in
the page or finds the socket; `LiveDeliveryHolds` names the exceptions, of which one is the gap of `history_gap`: a message
stored when the cursor had passed its number (`storedLate`, and `passed` once a catch-up has left it out). The other way, a frame
passes the limit, the membership check of the socket and that of the consumer. Each check, and the fan-out's own, is a call of
`members()`, command by command: SMEMBERS, and on an empty set a refill of one's own or the one in flight
(`refills`, with those who await each), which reads the rows, adds them to the set and answers all of them, or fails. `FramesHold` says
that somebody who is no member has no voice once neither the set nor a refill that read the rows before knows him
(`NoMember`), and that a typing `stop` may overtake its `start`.

### Authentication

Five modules, by the kind of thing that may be used once: `Sessions` (a refresh token, a
login challenge), `Accounts` (reverse-OTP sessions, magic links, device links, number changes,
passkeys), `Otp`, `Recovery`, and `Devices` for the list that senders bind their fan-out to. Two
rotations of one token may both succeed, after which the family has two live tokens, and a
sign-out between the revoke and the issue misses the new one: `SessionsEnd` says that these are the
only ways a session outlives its end. `ProofsReachTheOwner` says that a proof signs in the account
that owns the number or the email, with the races that break this (`RegistrationsReachTheOwner`, the plain
form, does not hold). `OtpLimits` bounds the attempts at a code, but for the two ways past the bound: the count was
deleted while the code was in force (a success and a send delete it), or a verification counted before such a deletion
asked for the next code. It also says that no counter is kept for good, `RecoveryHolds` what a request may be completed with, and `DeviceListIsTheLog` that the
rows at each epoch are what the log signs, for every reader.

### Users and what services ask each other

`Directory` has the link between a number's token and the contacts that look for it, while keys
rotate, and beside it organizations with their roles and events; `ServiceCalls` the development keys that processes of
one machine create together, and the lookups that decide who sees a status.

### Jobs, campaigns, flags

A claim takes a row away until somebody writes it back. `RunsAreWhole` says that a fault repeats a
step of a workflow at most once more, that no run is dropped between two steps, and how many jobs a fault may strand; `CampaignsObey` that
a canceled campaign stays canceled, one that was asked for is queued and an active one has a next run, except for a run that was
at work meanwhile. `ChangesAreKept` relates the
versions, snapshots, the cached copy, the schedules and the platform document of a flag, each
read whole and written back whole. `FlagEvaluation` unrolls the recursion of `evaluateSet` into a
stack, with the memo as the code has it; `MemoIsMeaning` compares it with a definition without
order: the least set of flags that are on by their own rules and whose dependencies are all in it.

### Media, backups, statuses

Uploads of the same bytes share a blob and `purge` counts the rows before it deletes it:
`BytesFollowRows` says by which overlap alone a row may be without bytes, or bytes without a row, and that the last
event of a file is true of it (`ReusedKeyHasTheBytes`, the plain form, does not hold). Two uploads of one backup version
may leave the salt of one with the bytes of the other (`SaltMismatchOnlyByOverlap`; not
`SaltOpensTheBackup`). A status is told to have expired at most once, and not at all if its tick
died (`ExpiryToldOnce`; not `CrashLosesNothing`).

### Calls, presence, lists, canvases

`Calls` says of every participant that the last event agrees with the row, that a call has one
request for control, and that whoever is told of a call can enter it, with the races that allow otherwise. What refuses everybody (section
4) has no action. A meeting without a date begins when it is stored. `Presence` compares what was fanned out last with what
the keys say, and the time of last-seen with when the last of a user's devices went (`LastSeenIsTheEnd`). `Collab` has the
rows that members share: pins, items and their lists, and canvases, whose version is compared in the
statement, so that no accepted edit is lost.

### A process

`Deployment` reads the table of groups (`groups.ts`) and of what each feature needs, and
boots one process: connections that are waited for 12 s and go on afterwards, the pipeline (bus,
workers) among them, main's start of the bus, and the drain. The gateway's table is a list of
rules of which the first that matches wins; `RoutesLeadToTheirFeature` compares it with the
controllers that are mounted, for each placement of the features.

## 3. Runs

| Run | Instance | What it shows |
| --- | --- | --- |
| `message_send` | three sends, two of them retries of one message, with 1 fault while the device waits; or two sends with 2 faults while it pages the history; 2 old messages, 2 attempts, pages of 2 | no collision while the counters are intact, silent messages, the refinement of `ConversationLog`, and what a cursor can miss |
| `event_bus` | 3 events (one malformed) in batches of 2, one process, 2 attempts, 1 fault (a lost read among them) | no entry leaves unhandled, repeats and reorderings have causes, every entry is settled |
| `notification_outbox` | 2 rows, 2 devices, 1 worker, 2 attempts, tokens up to 2, 1 fault | repeats have causes, a dead row reached nobody, settled rows stay settled, working endpoints survive, every row is settled |
| `member_projection` | 3 users and any two calls with the projection waiting; or 2 users, two calls without role changes, the two groups that keep the set and the one that marks creations, 1 eviction, 1 refill; at most 2 members, 1 fault | the last owner, the limit, the key epochs, and stale and missing members of the cached set |
| `skdm_relay` | one of: 2 keys (one already queued) for 2 sockets on 2 pods; 2 messages for a device that reconnects; 2 frames of its socket beside the refills; 1 fault | open sockets get the key, absent devices find it queued, repeats need two replays, only crashes leave entries; what is stored is delivered or read; who is heard |
| `message_lifecycle` | 3 calls of any kind, 2 users, 1 fault or repeated delivery | lost versions and the index entry differ from the plain expectation only by the named race |
| `identity` | one of 15 parts with 3 calls of any kind, 1 of which may fail | authentication, users, services' questions, flags, media, statuses: each invariant joins those of the parts its name says |
| `services` | one of 14 parts with 2 or 3 calls or worker runs, 1 of which may fail | polls, receipts, jobs, campaigns, evaluation, calls, presence of a user with 2 devices, collaboration, a process, the other buses |
| `counter_reset`, `history_gap`, `bus_groups`, `outbox_replicas` | the smallest instance each | the four violations of section 4 |

Bounds, and why they are enough. Races here are between two calls (a check of one, a write of
the other), so two or three actors show them; the third call of `message_send` is there because
a retry and a foreign send interleave with it differently, and the third task of `identity` because a
sign-out may come between two rotations. `MaxAttempts` is 2 where the code has
3 or 5: the second attempt is the first that has a predecessor and a last one. `MaxMembers` 2
stands for `MAX_GROUP_MEMBERS`: the limit must be reachable with the users there are, and so
`MaxSends`, `MaxVerifyAttempts`, `MaxResendAttempts` and `MaxJobAttempts` are 1, which two calls pass. `MaxFaults` and `MaxFailures` count faults
of all kinds together; one is enough to open each of the windows, and the proofs have no bound.
`MaxTokens` bounds the token changes of a device, `MaxVersion` the OPRF keys, `MaxSeq` the numbers a receipt names,
`MaxJobs` the jobs a workflow chains to, `MaxSaid` and `MaxPublished` the messages and events of an instance,
`Limit` the send queue. `History` is the number of messages before the run: 2 makes
"restart at 1" collide twice. In `skdm_relay`, `MaxPerDevice` 2 is not exceeded by two
keys, and the instance starts with one key queued, as a distribution to an absent device leaves it.

`MCIdentity` and `MCServices` bound the kinds of call where three of any kind make more states than they show, by
operators whose names say it: `OneKind` (two questions of one kind), `TwoChanges` (of a flag; the third
call is a load or a tick), `OneTranscode`, `TwoTicks`, `OnlyFirst` (the calls control one campaign of two), `TwoVotes`,
`TwoAnswers` (and one push on its way), `OneExcuse` (a presence that lapsed silently *and* saw two calls overlap is not followed: either
excuses what is fanned out). `InOrder` lets the stores of a process settle in one order, which nothing tells from
another. The parts share no row and no key, and each part's invariants read its own variables only, so
a behaviour that ran two of them at once would show nothing new; that is why each runs one,
chosen at the start.

Reductions. `member_projection`, `message_lifecycle`, `identity` and `services` use symmetry sets of users, calls and tasks (no
liveness is checked there). `MCMemberProjection` leaves role changes and groups out where the sets follow: roles do not reach the
set, and a group's set behaves like a channel's. `MCSkdmRelay` fixes the names of the first
socket and its pod, which are interchangeable (`NamedInOrder`). Variables that only name a cause
in a property (`crossed`, `racing`, `cleared`, `disordered`, `halfDone`, `overtaken`, `shared`, `overlapped`, `wiped`, `evicted`, `missed`,
`behind`, `hasty`, `lapsed`, `concurrent`, `together`, `misread`, `crowded` and the like) are history variables: no guard reads them.

Deadlock is not checked: every instance has finitely many calls and comes to rest.

Fairness. `EventBus.FairSpec`: read loops and handlers run as long as their process does, and a
dead process is restarted (weak fairness); the sweep takes the oldest entries first on a timer,
so an entry that keeps being pending is taken again and again (strong fairness per entry, because a concurrent
read or ack may interrupt it). `NotificationOutbox.FairSpec`: the worker's timer and its queries
(weak), and the claim of a row that is due again and again (strong; `claimPending` orders by age). No
fairness is assumed of clients, providers or faults. The other modules state safety only.

## 4. Where the code and its documents disagree

Four runs show a violation of what a comment or a document says:

1. `counter_reset`: when a Mongo read rejects while Redis is cold, `durableFloor` answers 0 and the
   conversation's numbers restart at 1 (`seq.service.ts:92`); its comment says everything in the class exists
   to make a reset impossible. Uniqueness survives (the index refuses), at the price of sends
   that fail until the counter has climbed past the history.
2. `history_gap`: a message stored late under a low number is never replayed to a device whose cursor has
   passed (`chat.repository.ts:130`), without any fault but a dropped push; the architecture document
   promises that no message is lost.
3. `bus_groups`: the idempotency key is per event and not per group (`redis-streams.bus.ts:253`), so of the groups
   that read `message.sent` only the first to finish handles it; `late-subscription.ts:27` says a group reads
   independently of every other.
4. `outbox_replicas`: a claimed row stays pending and due (`notification.repository.ts:195`), so a second
   replica claims it as well; `outbox.worker.ts:10` says replicas don't double-send.

Other disagreements were met while modelling. The modules do what the code does in each case, and
state their properties accordingly; no run is about them alone.

- Rows come back with the names of their columns, as `notification.repository.ts:13` says, and some
  services read them in camel case, which gives `undefined`. In `calls.service.ts` (from :107) nobody is the host: `admit` and
  `end` refuse everybody, and a join finds neither lobby nor end. In `screen-control` a grant, denial,
  release or revocation refuses both parties. A campaign's limit of occurrences and end date
  (`mail-campaign.schema.ts:8`, read in `campaigns/recurrence.ts:47`) never end it. A workflow's
  `emit_event` step has no key.
- `createCall` without LiveKit keys answers 503 after the call and its host are stored, and a join
  publishes `joined` before it mints the token that may fail.
- The gateway has no rule for `/directory/hash` and `/contacts/discover`
  (`directory.controller.ts:80`, `:91`), which `docs/API-ENDPOINTS.md:3` and `:38` list.
- A process may serve requests before the sockets' consumer has subscribed (`main.ts:86`, `:100` say no event slips past).
  Readiness stays green when the pipeline failed, though its log says it will retry on use. The drain closes the stores before the workers
  have returned. `EVENT_BUS=memory` still needs a Valkey address.
- With Kafka the mark precedes the handler and names no group, so one group takes an event from the others.
- The send queue's watermark never applies to an open socket. The receipt publisher of the mono process has no projection.
- A canvas conflict may name as current the version that was expected (`collab.service.ts:72`). A pin's event names the
  second pinner while the row keeps the first. The fields of a conversation's state are absent until set.
- The loser of the exclusive create of the development keys may read an empty public half (and an
  empty internal secret, which closes the internal routes).
- With the guard on, no lookup of the directory is answered: only `channels.controller.ts:146` admits a service, not
  `directory.controller.ts:45` and `:71`. So contacts see no status unless `AUTH_DEV_INSECURE` is set, as
  `.env.example:73` sets it. `unblock` upserts a contact (`directory.repository.ts:65`), so a stranger who is
  blocked and unblocked is one; and a block is not immediate for a lookup in flight (`social-graph.ts:83`).
- A deleted message stays in the search index (section 2), and `applyRenditions` throws when the row goes between its two reads.

## 5. Proofs

TLC agrees with every statement on the instances above, or on smaller ones kept for the purpose, before it is proved. The only
assumptions are those the modules state about their constants (`MaxAttempts`, `History` and so on are
natural numbers; `NoPod` is no pod; sets whose members are counted are finite): any number of calls, users and
faults. Where a run checks several modules, one at a time, a theorem is about the behaviours of one of them,
under a specification that is its initial states and its steps (`SessSpec`, `ContentSpec`, `LiveSpec`, ...): the run adds to that
only which parts it leaves at rest and the bounds in `MCIdentity`, `MCServices` and `MCSkdmRelay`, so the theorems are about more
behaviours than the runs.

`MessageSend_proofs`
: `TypeCorrect`, by one lemma per group of actions. `RetriesGetOneAnswer`, `EmissionPrecedesAnswer`, `EventsFollowStores` from one inductive
  invariant `LogInv`: besides the uniqueness of numbers and client ids it says that a stored document
  is history or belongs to a call that has come past its insert (`OwnedByItsCall`), that a call
  about to emit has its document stored, and that answers and events are about stored documents.
  None of the three properties is inductive alone: they say nothing of what a call in flight will
  write or answer. `NoSpuriousCollision` from `IntactInv`: while no counter was lost, a seeded
  counter is at least every number stored or held, and a call that is about to seed holds a floor
  at least as high as everything stored. `SendImplementsLog`: initial states and
  each action map to a step of `ConversationLog` or to a stutter.

Of `HistoryReader`, in the same module
: `ReaderTypeCorrect`, and `CursorsPassOnlyHeldNumbers` from `CursorInv`: the cursor is the number of a stored document;
  whoever holds a number it has passed held it when it passed, for a number handed out later is above all that is stored;
  and whoever stored what the device has not got was one of those. A page has no gap (`PageHasNoGap`):
  numbers are unique, so what is below a document can be counted, and less is below an earlier one.

`EventBus_proofs`
: `BusTypeCorrect`. `GoneOnlyWhenSettled`, for any number of groups: an entry that left a group's pending list was
  handled by *some* group, or was diverted for this one. It rests on `PlaceInv` (what a group and its threads know was
  delivered to it) and `AccountInv` (a key, and a thread about to mark or to acknowledge, stand for an entry that is settled).
  With one group (`OneGroup`, a hypothesis of the theorem) this is `GroupHandledWhatIsGone`; the run `bus_groups` shows that the
  hypothesis is needed. `TwiceNeedsFault` from `OnceInv`, for any number of groups; `OneGroupHandlesInOrder` adds `OrderInv`:
  in a group's only process, as long as nothing crashed, no read or check failed and no sweep took an entry from a thread at work, whatever lies
  behind the entry at work is settled.

Of `Buses`, in the same module
: `BusesKept`, with `BusesTypeCorrect`. Over Kafka, `MarkedInv`: whatever a handler has seen, or is about to see, is marked as processed
  and was seen by one of the group's consumers; `AtWorkInv`: without a fault nobody takes over, and the one consumer at work is at the
  offset behind the committed one; `ExcusedInv`: without a fault a mark is followed by its handler, and whatever is committed is
  accounted for. In memory, `TurnInv`: an event is with one group after the other; `FirstInv`: the group that subscribed first takes the events as
  they come; `ReachedInv`: while the process lives an event waits or has been with every group up to its turn.

`NotificationOutbox_proofs`
: `OutboxTypeCorrect`. `SettledRowsStay` from `HandInv`: a row in two workers' hands is in `shared`, and what is in
  one worker's hands is pending. `WorkingEndpointsStay` from `EndpointInv`: tokens only get newer, and a token that was
  called gone is older than the provider's. `RowsAreTrue` from `ClaimInv` (the count a worker holds is not above the row's) and
  `ToldInv` (what the provider has got of a row is what the worker that holds it was answered, and nothing of a row nobody was
  answered for).

Of `Services`, in the same module
: `DeliveryKept`. For a poll, a voter with one vote under way has at most one option left, and none once that vote has cleared (`ChoiceInv`), and alone, a vote that
  took the tally holds the one there is (`TallyInv`); a watermark is the highest receipt of its kind, and its row tells of that
  receipt (`ReceiptsInv`); a request that is about to write its row has seen a row that allowed it (`ResendInv`); what an
  answer has seen of its endpoint still holds, or what excuses it has happened (`AcksInv`).
: `SchedulesKept`. For jobs, `RowsInv`: a run begins with its first step, goes on step by step, and ends with a job of the last step or
  with one that is not done and that no job follows; `TicksInv`: the jobs that ticks hold are running, no two ticks hold one, and a tick knows
  what the job at hand has done; `RepeatInv`: how often a step has taken effect and the jobs that may yet bring it about are together at most one more than
  the faults, which is the potential that each fault raises by one; `StuckInv`: at most a batch is stranded per fault. For campaigns, `CampsInv`: while no
  run crossed its control, a run that is about to write saw what the row says.
: `LiveKept`. For calls, `MadeInv`: a call is made once and told of when it is there, nothing was begun while there was no call, and nobody joins
  before it was announced; `RowInv`: alone, the last event about a participant is his row, or a call is on its way to tell; `ControlInv`: two live requests
  for control come from calls that overlapped. For presence, `FannedInv`: alone, the call at work knows what it has read, what was told
  last is current unless it will tell itself, and while no device is there last-seen is written or about to be.

`Channels_proofs`
: `ChannelsTypeCorrect`. `OwnersLostOnlyByRace` from `OwnInv`: a call that is about to take the ownership of its target leaves another owner, unless it was crossed.
  `RemovedMembersLoseTheKey` from `KeyInv`: if somebody who was
  removed still holds the key, some call is between its DELETE and its raise of the epoch. `LimitPassedOnlyByRace`
  from `LimitInv`: nobody acts on a group before it is complete, and while no addition was
  crossed there is room for every call about to insert. `EveryEpochAnnounced` from `EpochInv`: an epoch is announced once or
  by one call yet to do so.

Of `MemberProjection`, in the same module
: `ProjectionTypeCorrect`, and `MembershipEventsReachTheSet` from `TakenInv` (a group has one entry in hand at most, and whatever it
  has read was marked or is in hand), `FormerInv` and `MissingInv`: whoever is wrongly in the set, or wrongly out of it, was
  written late, or a call is about to tell of him, or an event that tells of him waits to be read or handled. The theorem is about any calls of
  any users, any groups and any set of keepers among them; the run leaves some out to stay small. That there is a group at all (`Groups # {}`) is an
  assumption the proof found: without a consumer nothing is ever told.

`Realtime_proofs`
: Four theorems from the conjunction of `RelayInv` (sockets, their entries and replays), `DistInv` (a distribution has
  routed to the pods it has left behind), `QueueInv` and `QueuedInv` (the lists hold keys that found nobody, each once, and
  lose none but to a DEL or a full list), `HearInv` (a socket seen by the lookup has the key, or its pod is still to come) and `CountInv` (how often a
  socket heard a key, counted by who sent it). They are stated for `SpecWith(q)`, any first queue `q` of keys that
  were distributed to nobody, since the run begins with one key queued; `RelayFromNothing` is the case of an empty one.

Of `Fabric`, in the same module
: `FabricTypeCorrect`. `LiveDeliveryIsComplete` from `DeliveryInv`: a socket that has not closed holds
  nothing back, an open one can be found or its entry has expired, what was stored up to the cursor is known or was stored late, and a
  message that was taken reaches a device that has caught up, or was passed.
  `FramesStayHonest` from `FramesInv`: once neither the set nor a refill has a user they never have him again, so the handler
  of a late frame gets no further than its first question.

`MessageLifecycle_proofs`
: `LifecycleTypeCorrect`. `TombstonesFilledOnlyByRacingEdits`: once a tombstone is set, every edit that
  waits for its update is one it overtook, for none starts later. `VersionsAlwaysKept` from
  `VersionsInv`: what a waiting edit has read is still the content, unless a crossing edit
  or a tombstone wrote in between. `ReactionsAlwaysSettle` is inductive with the types.
  `IndexHoldsOnlyReadableText` from `EventInv` (an event carries a text only of a call that is
  over and was readable) and `DoneForGood`. `IndexTrailsNothingElse` from `OnceInv` (an edit is applied once and
  published after that), `CarriedInv` (an event carries the text of the version it is about) and `NewestInv` (the entry is that of an event
  no handled one is newer than, unless the order was broken): an edit is applied once, so the versions have one order.

Of `Collab`, in the same module
: `CollabKept`, with `CollabTypeCorrect`, about one specification in which all three kinds of calls run together. `PinInv` (alone, a
  pin that was written is told as it is, or will be), `PatchInv` (a call that answers a patch saw its own value unless another wrote), `TogetherInv` (two calls
  of one list are remembered as such from the first overlap on), `PlaceTakenInv` (a position that an insertion was given is free unless it met
  another one), `ListMadeInv` (an item to be inserted has its list, unless a deletion met it) and `EditInv` (a canvas has one version per
  accepted edit and holds them all). That calls are finitely many is assumed: positions and versions are bounded by them.

Of `Deployment`, in the same module
: `DeploymentKept`, with `BootTypeCorrect`. `StartInv` says how a start stands against the phase: it is over only with nothing left to open, under way
  only while the bootstrap waits for it or has given up on it, and cut only by the drain, and workers that run behind a closed pipeline were
  started by one that had nothing left to open. `ReaderInv` counts for each group its readers and the starts that have yet to open one:
  at most one before main's start and two after, and with Redis one in all unless the pipeline's start was given up on. `CleanInv`: without a fault every group the
  process consumes is read, or waits for the start that will open it, or is heard in memory. The rules of the gateway are proved to lead to the
  process of each path through `WhatTheRulesMatch` and `TheFirstDecides`, for any path and not only those listed (`WhereAPathLeads`).

`Features_proofs`
: `TypesHold`, and `ResultsAreMeanings` for any flags, dependencies (cyclic ones too) and order of
  evaluation. `MeaningIsClosed` and `MeaningUnfolds` say the meaning is a fixpoint. The stack is a path of
  dependencies (`IsPath`), so a flag met again while under way lies on a cycle, and no flag of a cycle can be on
  (`NoCycle`, `CyclesAreOff`): answering `false` there, as the code does, is right. `EvalInv` adds
  that the memo agrees with the meaning and that what a frame has passed was on.

Of `Media`, `Flags` and `ServiceCalls`, in the same module
: `ContentIsKept`. Objects: `MeetInv` (an upload that meets a purge of its row or its bytes, and two uploads of one row, are remembered),
  `RowInv` (a call at work has its row, and an upload that is past its insert made it), `BytesInv` (bytes under a key are some row's, a ready row has
  its bytes, unless they were purged under it) and `EventInv`. Backups: `AlongsideInv` (what lies under a key is the upload's own, or of one alongside).
  Statuses: `TicksInv` (a tick has marked what it has yet to tell, and no other tells it).
: `ChangesStayKept`. `VersionInv` (changes that do not overlap make versions one after the other), `CacheInv` (only between a write and its drop
  may the cache, or a load on its way to it, be behind), `PlatformInv` (a change that finished alone is wherever the document may be written from),
  `ScheduleInv` (until it is marked one tick has a schedule); for segments `ListInv` and `HeldInv`.
: `ServicesAgree`. Keys: `PairInv` (the files are one process's from their creation on), `GotInv` and `SecretInv` (what a
  process took is what the file says). Questions: `FlightInv` (a lookup in flight is some asker's), `BarInv` (a row that bars says no, and what was heard since is no yes),
  `GuardInv` (behind the guard nothing of the directory is heard) and `GrantInv`.

`Identity_proofs`
: the six modules of identity, each with its type invariant. `SessionsEndForGood` from `RowsInv` (rows come from
  the calls that made them), `EndInv` (whoever is to insert a token into a family that has ended is among those the revocation
  let escape) and `OnceInv` (what was used up cannot be read, and who read it before is `racing`). `CodesStayLimited`
  from `CountInv`: the verifications asked for the code in force and those that may still ask are together within the
  count, and nobody asks who is not; `SendInv` says that while the mutex lasts one send is at work, and past the guard no code is
  in its window. `RecoveriesHold` from `FactorInv`, `CompleteInv` and `CodesInv`, `TheListIsTheLog` from
  `LockInv` (the transaction that holds the row is one ahead of the epoch and saw the tip of the log), `LogInv` (the last entry of a device
  says how it stands) and `HistoryInv`.
: `DirectoryTellsTheTruth` from `TokenInv` (while nothing of a token was written under another, a registration that has yet to link wrote the account,
  and an edge that has yet to be inserted took it), `LinkedInv` (who was linked was told, or a call is about to tell) and `TellInv` (what is written of a role or
  a policy is told last, or about to be). `ProofsStayBound` from `ProofInv` (a proof that waits was handed out by a call that is over and presents none itself), `DroppedInv` (what
  one call dropped never comes back), `RivalsInv` (two calls that read one proof overlapped), `OwnerInv` and `HousedInv` (an identifier that is looked at again has an
  owner, and a device belongs to an account and tells which proof added it); for passkeys `HandedInv`, `TakenInv`, `VerifiedInv`, and `CounterInv`: a login
  that read the row before no other wrote its count knows what is stored, and writes more.

Proving showed where a model, or a property, was wrong. The bound on the attempts at a code, `AttemptsBounded`, used
to name one exception too few: two verifications counted under an earlier code, whose count a send has deleted, may both ask for the
next one before that send deletes the count again. It takes four calls, and the run has three, so the run had not found it; the
history variable `outlived` was added, the exception stated, and a run with four calls agrees with it. And with `MaxSends` 0 the first
two cases of `AllowSend` overlap, so the limiter's maximum is assumed to be positive, as its configuration has it.
What `Flags` said of segments was true of three calls only: with four, a load that began before two updates can fill the cache after
both, and the exception is stated by what the load overlapped. In `Collab` two calls counted as overlapping across different lists, which
excused more than was meant; they are now told apart. And the obvious invariant of `Calls`, which says what is told of a
call that is there, is not inductive: it needs that nothing was begun while there was no call and that a participant joins only after the announcement.

Four statements are proved and no run lists them, for each of them is implied in part by a
property that is run: `RetriesAgree` and `WriterEmitsFirst` of `MessageSend`,
`ReactionsSettle` and `TombstoneFilledOnlyByRacingEdit` of `MessageLifecycle`; likewise the type invariants of the first modules.

Every safety invariant and action property the runs check is stated by a theorem, but for the two conjunctions named `Typed`,
of `MCIdentity` and `MCServices`. Their parts are theorems or conjuncts of the inductive invariants, except for the upper bounds of some counters, which the
proofs do not need and TLC checks (`clock` and `mark` of `Receipts`, `attempts` and `effects` of `Jobs`, `occurrences` and `rounds` of `Campaigns`).
What stays with TLC: that one part of a run leaves the variables of the others alone (by its `UNCHANGED`), and the liveness of `EventBus` and
`NotificationOutbox`, for liveness under fairness and `ENABLED` are out of the prover's reach. So is induction over data (what a recursive definition computes for every
input): the counts that the proofs need are over finite sets, with the theorems of the library.

## 6. Not modelled, and the plan

Not modelled: AI, translation and captions (calls to outside services with a cache in front);
the clients of the stores, object storage and mail (what they promise is assumed: one statement is
atomic, one connection keeps its order); configuration, DTO validation and error texts; cryptography (the OPRF, signatures,
DPoP, key transparency, pre-keys); the migrations, scripts, tools and the development gateway.
Of modelled parts: notification preferences and previews; drafts (an upsert nothing reads before it is
written); the throttle of statuses, which fails open; search queries and the entries of files, people and channels;
profiles and who may see the last-seen; rate limits of the gateway and its peeled-out upstreams; requests for missing sender keys and the
coalescing of ephemeral frames; trimming of streams; downloads and usage of media; recurrence rules and
audiences of campaigns; audits nothing reads. `HttpMembershipResolver` is in `ServiceCalls` although no composition
uses it as yet.

A list deletion, a pin and the like have no events that another part waits for; where an event of one part is another's
input (`message.sent`, the membership events, receipts) the composition is modelled (`MemberProjection`, `Fabric`, `MessageLifecycle`).

Next are the liveness of parts that have a worker (a campaign that is due runs, a status that has expired is told), and the compositions above
the boundaries named in this section: `Receipts` and `Presence` behind `Fabric`, and `Deployment` around `EventBus`.
