----------------------------- MODULE MessageSend -----------------------------
(***************************************************************************)
(* ChatService.send and SeqService.next for ONE conversation: concurrent   *)
(* calls over the Redis counter seq:{conversation}, the Mongo counters     *)
(* document, the messages collection with its two unique indexes, and the  *)
(* event bus.  Every await of the code is a step of its own, so calls      *)
(* interleave between any two round trips; the local computation that      *)
(* follows a round trip is part of its step.                               *)
(*                                                                         *)
(* Conversations share none of this state (every key carries the           *)
(* conversation id), so one conversation loses no interaction.             *)
(***************************************************************************)
EXTENDS Naturals

CONSTANTS Requests,     \* the send() calls clients make
          MsgOf,        \* [Requests -> client_msg_id]; a retry repeats the id
          MaxAttempts,  \* MAX_SEQ_ATTEMPTS, 3 in the code
          History,      \* messages the conversation already holds
          MaxFaults     \* bound on the faults of one behaviour

FaultKinds == {"eviction", "outage", "floor", "mongo", "publish", "crash"}

ClientMsgs == {MsgOf[r] : r \in Requests}

\* The documents of earlier sends: seq 1..History, each under an id of its own.
OldIds == {"old"} \X (1..History)
OldDocs == {[_id |-> o, client_msg_id |-> o, seq |-> o[2]] : o \in OldIds}

ASSUME SendAssumption ==
    /\ MaxAttempts \in Nat \ {0}
    /\ History \in Nat
    /\ MaxFaults \in Nat
    /\ OldIds \cap (Requests \cup ClientMsgs) = {}

VARIABLES
    redisSeq,   \* the Redis counter; 0 when the key is absent
    redisUp,    \* FALSE while Redis commands reject
    counter,    \* counters.seq in Mongo; 0 when the document is missing
    messages,   \* the messages collection
    published,  \* documents whose message.sent reached the bus
    acks,       \* the answers given
    pc,         \* where each call stands
    attempt,    \* its iteration of the seq-collision loop
    path,       \* which caller of durableFloor it is: "cold" or "durable"
    floor,      \* the durable floor it has read so far
    seq,        \* the sequence number it holds; 0 before it has one
    faults      \* faults so far, by kind

log    == <<messages, published, acks>>
redis  == <<redisSeq, redisUp>>
locals == <<attempt, path, floor, seq>>
vars   == <<redis, counter, log, pc, locals, faults>>

Docs == [_id : Requests \cup OldIds,
         client_msg_id : ClientMsgs \cup OldIds,
         seq : Nat \ {0}]

PCs == {"start", "next", "floorCounter", "floorMessages", "seed", "persist",
        "incr", "incrementDurable", "insert", "findWinner", "emit",
        "acked", "failed", "crashed"}

TypeOK ==
    /\ redisSeq \in Nat
    /\ redisUp \in BOOLEAN
    /\ counter \in Nat
    /\ messages \in SUBSET Docs
    /\ published \in SUBSET Docs
    /\ acks \in SUBSET [req : Requests, doc : Docs]
    /\ pc \in [Requests -> PCs]
    /\ attempt \in [Requests -> 1..MaxAttempts]
    /\ path \in [Requests -> {"cold", "durable"}]
    /\ floor \in [Requests -> Nat]
    /\ seq \in [Requests -> Nat]
    /\ faults \in [FaultKinds -> Nat]

\* The counters lag the history in every way the code allows: Redis warm or
\* without the key, the counter document anywhere at or below the last seq.
Init ==
    /\ redisSeq \in {0, History}
    /\ redisUp = TRUE
    /\ counter \in 0..History
    /\ messages = OldDocs
    /\ published = OldDocs
    /\ acks = {}
    /\ pc = [r \in Requests |-> "start"]
    /\ attempt = [r \in Requests |-> 1]
    /\ path = [r \in Requests |-> "cold"]
    /\ floor = [r \in Requests |-> 0]
    /\ seq = [r \in Requests |-> 0]
    /\ faults = [k \in FaultKinds |-> 0]

----------------------------------------------------------------------------
(* Helpers                                                                 *)

Larger(a, b) == IF a >= b THEN a ELSE b

IsMaxOf(x, S) == x \in S /\ \A y \in S : y <= x

StoredSeqs == {m.seq : m \in messages}

\* The document a call writes; its _id is minted once per call.
DocOf(r) == [_id |-> r, client_msg_id |-> MsgOf[r], seq |-> seq[r]]

\* The stored documents a call's client message id addresses.
Existing(r) == {m \in messages : m.client_msg_id = MsgOf[r]}

Goto(r, next) == pc' = [pc EXCEPT ![r] = next]

\* next() returns s, from whichever source; its own locals are gone.
Hand(r, s) ==
    /\ seq' = [seq EXCEPT ![r] = s]
    /\ floor' = [floor EXCEPT ![r] = 0]
    /\ path' = [path EXCEPT ![r] = "cold"]

AckWith(r, m) ==
    /\ acks' = acks \cup {[req |-> r, doc |-> m]}
    /\ Goto(r, "acked")

\* Redis rejected: the catch of next() falls back to Mongo.
Degrade(r) ==
    /\ Goto(r, "floorCounter")
    /\ path' = [path EXCEPT ![r] = "durable"]
    /\ UNCHANGED <<attempt, floor, seq>>

\* The floor is known: the cold start seeds Redis, the fallback increments Mongo.
AfterFloor(r) == IF path[r] = "cold" THEN "seed" ELSE "incrementDurable"

----------------------------------------------------------------------------
(* The send handler                                                        *)

\* Dedupe on client_msg_id before anything is written.
FindByClientMsgId(r) ==
    /\ pc[r] = "start"
    /\ \/ \E m \in Existing(r) : AckWith(r, m)
       \/ Existing(r) = {} /\ Goto(r, "next") /\ UNCHANGED acks
    /\ UNCHANGED <<redis, counter, messages, published, locals, faults>>

\* The Lua script: INCR a warm key, or report a cold start.
HotIncr(r) ==
    /\ pc[r] = "next"
    /\ redisUp
    /\ \/ /\ redisSeq > 0
          /\ redisSeq' = redisSeq + 1
          /\ Hand(r, redisSeq + 1)
          /\ Goto(r, "insert")
       \/ /\ redisSeq = 0
          /\ Goto(r, "floorCounter")
          /\ UNCHANGED <<redisSeq, seq, floor, path>>
    /\ UNCHANGED <<redisUp, counter, log, attempt, faults>>

\* durableFloor reads the counter document, then the highest stored message.
FloorCounter(r) ==
    /\ pc[r] = "floorCounter"
    /\ floor' = [floor EXCEPT ![r] = counter]
    /\ Goto(r, "floorMessages")
    /\ UNCHANGED <<redis, counter, log, attempt, path, seq, faults>>

FloorMessages(r) ==
    /\ pc[r] = "floorMessages"
    /\ \E top \in StoredSeqs \cup {floor[r]} :
          /\ IsMaxOf(top, StoredSeqs \cup {floor[r]})
          /\ floor' = [floor EXCEPT ![r] = top]
    /\ Goto(r, AfterFloor(r))
    /\ UNCHANGED <<redis, counter, log, attempt, path, seq, faults>>

\* Mutant of Seed: SET without NX.
SeedAnyway(r) ==
    /\ pc[r] = "seed"
    /\ redisUp
    /\ redisSeq' = floor[r] + 1
    /\ Hand(r, floor[r] + 1)
    /\ Goto(r, "persist")
    /\ UNCHANGED <<redisUp, counter, log, attempt, faults>>

\* SET NX of floor + 1; losing it means another call seeded first.
Seed(r) ==
    /\ pc[r] = "seed"
    /\ redisUp
    /\ \/ /\ redisSeq = 0
          /\ redisSeq' = floor[r] + 1
          /\ Hand(r, floor[r] + 1)
          /\ Goto(r, "persist")
       \/ /\ redisSeq > 0
          /\ Goto(r, "incr")
          /\ UNCHANGED <<redisSeq, seq, floor, path>>
    /\ UNCHANGED <<redisUp, counter, log, attempt, faults>>

\* persistDurableSeq: $max, so the counter never moves backwards.
Persist(r) ==
    /\ pc[r] = "persist"
    /\ counter' = Larger(counter, seq[r])
    /\ Goto(r, "insert")
    /\ UNCHANGED <<redis, log, locals, faults>>

\* The loser's INCR; Redis creates a missing key at 1.
Incr(r) ==
    /\ pc[r] = "incr"
    /\ redisUp
    /\ redisSeq' = redisSeq + 1
    /\ Hand(r, redisSeq + 1)
    /\ Goto(r, "insert")
    /\ UNCHANGED <<redisUp, counter, log, attempt, faults>>

\* One atomic raise-to-the-floor-then-increment in Mongo.
IncrementDurable(r) ==
    /\ pc[r] = "incrementDurable"
    /\ counter' = Larger(counter, floor[r]) + 1
    /\ Hand(r, Larger(counter, floor[r]) + 1)
    /\ Goto(r, "insert")
    /\ UNCHANGED <<redis, log, attempt, faults>>

\* The two unique indexes: (conversation, seq) and (conversation, client id).
DuplicateKey(d) ==
    \E m \in messages : m.seq = d.seq \/ m.client_msg_id = d.client_msg_id

\* Mutant of Insert: the answer goes out with the insert, nothing is emitted.
InsertThenAck(r) ==
    /\ pc[r] = "insert"
    /\ \/ /\ DuplicateKey(DocOf(r))
          /\ Goto(r, "findWinner")
          /\ UNCHANGED <<messages, acks>>
       \/ /\ ~DuplicateKey(DocOf(r))
          /\ messages' = messages \cup {DocOf(r)}
          /\ AckWith(r, DocOf(r))
    /\ UNCHANGED <<redis, counter, published, locals, faults>>

Insert(r) ==
    /\ pc[r] = "insert"
    /\ \/ /\ DuplicateKey(DocOf(r))
          /\ Goto(r, "findWinner")
          /\ UNCHANGED messages
       \/ /\ ~DuplicateKey(DocOf(r))
          /\ messages' = messages \cup {DocOf(r)}
          /\ Goto(r, "emit")
    /\ UNCHANGED <<redis, counter, published, acks, locals, faults>>

\* Mutant of AnswerWinner: the loser reports the document it failed to insert.
AnswerOwn(r) ==
    /\ Existing(r) # {}
    /\ AckWith(r, DocOf(r))
    /\ UNCHANGED locals

AnswerWinner(r) ==
    /\ \E m \in Existing(r) : AckWith(r, m)
    /\ UNCHANGED locals

TakeFreshSeq(r) ==
    /\ Existing(r) = {}
    /\ attempt[r] < MaxAttempts
    /\ attempt' = [attempt EXCEPT ![r] = @ + 1]
    /\ Hand(r, 0)
    /\ Goto(r, "next")
    /\ UNCHANGED acks

GiveUp(r) ==
    /\ Existing(r) = {}
    /\ attempt[r] = MaxAttempts
    /\ Goto(r, "failed")
    /\ UNCHANGED <<acks, locals>>

\* A duplicate key: the same message won elsewhere, or the seq was taken.
FindWinner(r) ==
    /\ pc[r] = "findWinner"
    /\ AnswerWinner(r) \/ TakeFreshSeq(r) \/ GiveUp(r)
    /\ UNCHANGED <<redis, counter, messages, published, faults>>

\* message.sent goes out, then the call answers with its own document.
Emit(r) ==
    /\ pc[r] = "emit"
    /\ published' = published \cup {DocOf(r)}
    /\ AckWith(r, DocOf(r))
    /\ UNCHANGED <<redis, counter, messages, locals, faults>>

----------------------------------------------------------------------------
(* The environment                                                         *)

TotalFaults ==
    faults["eviction"] + faults["outage"] + faults["floor"]
        + faults["mongo"] + faults["publish"] + faults["crash"]

Fault(k) ==
    /\ TotalFaults < MaxFaults
    /\ faults' = [faults EXCEPT ![k] = @ + 1]

\* Redis drops the key: a restart without persistence, or an eviction.
Evict ==
    /\ Fault("eviction")
    /\ redisSeq > 0
    /\ redisSeq' = 0
    /\ UNCHANGED <<redisUp, counter, log, pc, locals>>

RedisDown ==
    /\ Fault("outage")
    /\ redisUp
    /\ redisUp' = FALSE
    /\ UNCHANGED <<redisSeq, counter, log, pc, locals>>

RedisBack ==
    /\ ~redisUp
    /\ redisUp' = TRUE
    /\ UNCHANGED <<redisSeq, counter, log, pc, locals, faults>>

\* A rejected command inside next()'s try: the call degrades to Mongo.
RedisRejects(r) ==
    /\ pc[r] \in {"next", "seed"}
    /\ ~redisUp
    /\ Degrade(r)
    /\ UNCHANGED <<redis, counter, log, faults>>

\* The command took effect but its reply was lost, so the same catch runs.
RedisReplyLost(r) ==
    /\ Fault("outage")
    /\ redisUp
    /\ \/ pc[r] = "next" /\ redisSeq > 0 /\ redisSeq' = redisSeq + 1
       \/ pc[r] = "seed" /\ redisSeq = 0 /\ redisSeq' = floor[r] + 1
    /\ Degrade(r)
    /\ UNCHANGED <<redisUp, counter, log>>

\* "return this.redis.incr(...)" is not awaited inside the try, so its
\* rejection passes the catch and fails the send.
IncrRejects(r) ==
    /\ pc[r] = "incr"
    /\ ~redisUp
    /\ Goto(r, "failed")
    /\ UNCHANGED <<redis, counter, log, locals, faults>>

\* A Mongo call outside any catch rejects: the send fails.
MongoFails(r) ==
    /\ Fault("mongo")
    /\ pc[r] \in {"start", "incrementDurable", "insert", "findWinner"}
    /\ Goto(r, "failed")
    /\ UNCHANGED <<redis, counter, log, locals>>

\* The insert took effect but its reply was lost.
InsertReplyLost(r) ==
    /\ Fault("mongo")
    /\ pc[r] = "insert"
    /\ ~DuplicateKey(DocOf(r))
    /\ messages' = messages \cup {DocOf(r)}
    /\ Goto(r, "failed")
    /\ UNCHANGED <<redis, counter, published, acks, locals>>

\* durableFloor swallows a read error and returns 0.
FloorUnreadable(r) ==
    /\ Fault("floor")
    /\ pc[r] \in {"floorCounter", "floorMessages"}
    /\ floor' = [floor EXCEPT ![r] = 0]
    /\ Goto(r, AfterFloor(r))
    /\ UNCHANGED <<redis, counter, log, attempt, path, seq>>

\* persistDurableSeq swallows a write error.
PersistFails(r) ==
    /\ Fault("mongo")
    /\ pc[r] = "persist"
    /\ Goto(r, "insert")
    /\ UNCHANGED <<redis, counter, log, locals>>

\* The bus rejects; the event may be on the stream all the same.
PublishFails(r) ==
    /\ Fault("publish")
    /\ pc[r] = "emit"
    /\ published' \in {published, published \cup {DocOf(r)}}
    /\ Goto(r, "failed")
    /\ UNCHANGED <<redis, counter, messages, acks, locals>>

\* The process serving the call dies between two round trips.
Crash(r) ==
    /\ Fault("crash")
    /\ pc[r] \notin {"start", "acked", "failed", "crashed"}
    /\ Goto(r, "crashed")
    /\ UNCHANGED <<redis, counter, log, locals>>

----------------------------------------------------------------------------

SendStep(r) ==
    \/ FindByClientMsgId(r) \/ HotIncr(r) \/ FloorCounter(r) \/ FloorMessages(r)
    \/ Seed(r) \/ Persist(r) \/ Incr(r) \/ IncrementDurable(r)
    \/ Insert(r) \/ FindWinner(r) \/ Emit(r)

FaultStep(r) ==
    \/ RedisRejects(r) \/ RedisReplyLost(r) \/ IncrRejects(r)
    \/ MongoFails(r) \/ InsertReplyLost(r) \/ FloorUnreadable(r)
    \/ PersistFails(r) \/ PublishFails(r) \/ Crash(r)

RedisStep == Evict \/ RedisDown \/ RedisBack

Next == RedisStep \/ \E r \in Requests : SendStep(r) \/ FaultStep(r)

Spec == Init /\ [][Next]_vars

----------------------------------------------------------------------------
(* Safety                                                                  *)

\* Every answer ever given for a client message names the same stored document,
\* so a client that retries, even concurrently with itself, is told one message
\* id and one seq for each message it wrote.
RetriesAgree ==
    \A a, b \in acks :
        MsgOf[a.req] = MsgOf[b.req] => a.doc = b.doc /\ a.doc \in messages

\* A call that stored the message itself answers only after its message.sent is
\* on the bus, and nothing is on the bus that the store does not hold.
WriterEmitsFirst ==
    /\ published \subseteq messages
    /\ \A a \in acks : a.doc._id = a.req => a.doc \in published

Holding == {"persist", "insert"}

\* Nothing has made a counter forget: Redis kept the key and answered, and
\* every durable floor was readable.
CountersIntact ==
    faults["eviction"] = 0 /\ faults["outage"] = 0 /\ faults["floor"] = 0

\* While the counters are intact no call holds a sequence number that is stored
\* or that another call holds: concurrent cold starts, retries, crashes and
\* failed writes on their own never cause the collision the loop retries on.
\* About next(), whose cold start reads the floor in two reads, seeds with NX,
\* and increments after losing it (seq.service.ts:47-54).
NoCollisionWhileIntact ==
    CountersIntact =>
        /\ \A r, s \in Requests :
              r # s /\ pc[r] \in Holding /\ pc[s] \in Holding => seq[r] # seq[s]
        /\ \A r \in Requests, m \in messages :
              pc[r] \in Holding => seq[r] # m.seq

\* A stored document whose event is missing, and whose call is over, is owed to
\* a fault: no interleaving of calls alone loses the event of a stored message.
UnemittedOnlyAfterFault ==
    \A m \in messages \ published :
        \/ pc[m._id] = "emit"
        \/ faults["mongo"] + faults["publish"] + faults["crash"] > 0

\* seq.service.ts:16-17 "Everything below exists to make a reset impossible": no
\* call is handed a number the conversation had used up before it was made.
NoReset == \A r \in Requests : seq[r] # 0 => seq[r] > History

\* The log this module refines: see ConversationLog.
Log == INSTANCE ConversationLog WITH log <- messages, emitted <- published, answers <- acks

\* Sending implements the abstract conversation log.
LogRefined == Log!LogSpec
=============================================================================
