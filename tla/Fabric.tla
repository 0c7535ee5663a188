--------------------------------- MODULE Fabric ---------------------------------
(***************************************************************************)
(* Live delivery to one device (FanoutConsumer, EventRouter, WsFabric, the  *)
(* send queue) beside the catch-up its client does over REST, and the       *)
(* frames its socket sends in (receipts and typing), each handled for       *)
(* itself.  Every socket is on a pod of its own, SkdmRelay has several on   *)
(* one; how the events keep the members projection is in MemberProjection,  *)
(* how it is asked and refilled is here.                                    *)
(***************************************************************************)
EXTENDS Tasks, Sequences

CONSTANTS Sockets,      \* the device opens one after the other
          Fanout,       \* the fan-out consumer, as one that asks for the members
          MaxSaid,      \* bound on the messages
          Limit         \* inbound frames per second, 40 in the code

ASSUME FabricAssumption == MaxSaid \in Nat /\ Limit \in Nat /\ Fanout \notin Tasks

Askers == Tasks \cup {Fanout}

VARIABLES
    sock,       \* [Sockets -> where it stands]
    unanswered, \* the sockets pinged and not heard of since
    entry,      \* those with an entry in conn:{user}
    caughtUp,   \* those on which the client has read the history
    cursor,     \* the highest number the history has given the device
    passed,     \* messages a catch-up left out, stored late and before it
    said,       \* the numbers given out
    stored, storedLate, \* the messages stored, and those stored when the cursor had passed their number
    told, fanned, \* those whose message.sent is published, and those the fan-out has taken
    fan,        \* the consumer: its step, its message, the pods it still publishes to
    onPod,      \* <<socket, message>> on the channel of its pod
    sendQueue,  \* [Sockets -> Seq of messages] not yet sent
    seen,       \* the messages the device knows
    excused,    \* messages the fan-out found no member for, or no entry of a socket that was there
    cachedSet,  \* members:{conversation} has the user ("in"), only others ("out"), or is gone ("cold")
    answer,     \* [Askers -> what members() has come to for the call under way]
    refills,    \* the refills under way: what rows each has read, and who awaits it
    banned,     \* the user is not a member any more
    tokens,     \* left in the bucket of the connection
    typed,      \* the last typing frame the user sent, and whether all were handled one by one
    shown,      \* the last typing frame the other members got
    forbidden   \* something was published for a frame that came when the user was no member

saidVars   == <<said, stored, storedLate, told, fanned, fan>>
readVars   == <<caughtUp, cursor, passed>>
memberVars == <<cachedSet, answer, refills>>
inVars     == <<memberVars, banned, tokens, typed, shown, forbidden>>
fabricVars == <<sock, unanswered, entry, readVars, saidVars, onPod, sendQueue, seen, excused, inVars>>

Signals == {"none", "start", "stop"}
NoFan   == [at |-> "idle", msg |-> 0, pods |-> {}]

FabricTypeOK ==
    /\ sock \in [Sockets -> {"none", "registering", "open", "dead", "closing", "leaving", "gone"}]
    /\ unanswered \subseteq Sockets /\ entry \subseteq Sockets /\ caughtUp \subseteq Sockets
    /\ cursor \in 0..MaxSaid /\ passed \subseteq 1..MaxSaid
    /\ said \in 0..MaxSaid /\ stored \subseteq 1..said /\ storedLate \subseteq stored
    /\ told \subseteq stored /\ fanned \subseteq told
    /\ fan \in [at : {"idle", "members", "pods", "publish"}, msg : 0..MaxSaid, pods : SUBSET Sockets]
    /\ onPod \subseteq Sockets \X (1..MaxSaid)
    /\ \A s \in Sockets : \A i \in DOMAIN sendQueue[s] : sendQueue[s][i] \in 1..MaxSaid
    /\ seen \subseteq 1..MaxSaid /\ excused \subseteq 1..MaxSaid
    /\ cachedSet \in {"in", "out", "cold"} /\ banned \in BOOLEAN
    /\ answer \in [Askers -> {"unasked", "cold", "awaits", "in", "out", "none"}]
    /\ refills \subseteq [for : SUBSET Askers, found : {"unread", "in", "out"}]
    /\ tokens \in 0..Limit
    /\ typed \in [last : Signals, apart : BOOLEAN] /\ shown \in Signals
    /\ forbidden \in BOOLEAN

FabricInit ==
    /\ sock = [s \in Sockets |-> "none"]
    /\ unanswered = {} /\ entry = {} /\ caughtUp = {}
    /\ cursor = 0 /\ passed = {}
    /\ said = 0 /\ stored = {} /\ storedLate = {} /\ told = {} /\ fanned = {}
    /\ fan = NoFan /\ onPod = {}
    /\ sendQueue = [s \in Sockets |-> <<>>]
    /\ seen = {} /\ excused = {}
    /\ cachedSet = "in" /\ answer = [a \in Askers |-> "unasked"] /\ refills = {}
    /\ banned = FALSE
    /\ tokens = Limit
    /\ typed = [last |-> "none", apart |-> TRUE] /\ shown = "none" /\ forbidden = FALSE

OnTables(s) == sock[s] \in {"registering", "open", "dead", "closing"}

----------------------------------------------------------------------------
(* The socket                                                              *)

\* The token is verified and the socket tracked; SADD is on its way.
OpenSocket(s) ==
    /\ sock[s] = "none" /\ \A r \in Sockets : sock[r] \notin {"registering", "open"}
    /\ sock' = [sock EXCEPT ![s] = "registering"]
    /\ UNCHANGED <<taskVars, unanswered, entry, readVars, saidVars, onPod, sendQueue, seen, excused, inVars>>

AddEntry(s) ==
    /\ sock[s] = "registering" /\ s \notin entry
    /\ entry' = entry \cup {s}
    /\ UNCHANGED <<taskVars, sock, unanswered, readVars, saidVars, onPod, sendQueue, seen, excused, inVars>>

\* Mutant: the client is greeted before the socket can be found.
AtOnce(s) == TRUE

Registered(s) == s \in entry

\* The frame "connected", which the client takes for its sign to catch up.
Greet(s) ==
    /\ sock[s] = "registering" /\ Registered(s)
    /\ sock' = [sock EXCEPT ![s] = "open"]
    /\ tokens' = Limit
    /\ UNCHANGED <<taskVars, unanswered, entry, readVars, saidVars, onPod, sendQueue, seen, excused,
                   memberVars, banned, typed, shown, forbidden>>

\* What the history gives: the messages stored with a number above the cursor.
Unread == {e \in stored : cursor < e}

\* The client reads the history, and its cursor goes on to the last message read.
CatchUp(s) ==
    /\ sock[s] = "open" /\ s \notin caughtUp
    /\ caughtUp' = caughtUp \cup {s}
    /\ seen' = seen \cup Unread
    /\ cursor' \in {e \in Unread \cup {cursor} : \A f \in Unread : f <= e}
    /\ passed' = passed \cup storedLate
    /\ UNCHANGED <<taskVars, sock, unanswered, entry, saidVars, onPod, sendQueue, excused, inVars>>

\* Two sweeps without a pong drop a socket; a live one answers in between.
SweepSocket(s) ==
    /\ sock[s] \in {"open", "dead"}
    /\ IF s \in unanswered
       THEN /\ sock' = [sock EXCEPT ![s] = "leaving"]
            /\ unanswered' = unanswered \ {s}
       ELSE /\ unanswered' = IF sock[s] = "dead" THEN unanswered \cup {s} ELSE unanswered
            /\ UNCHANGED sock
    /\ UNCHANGED <<taskVars, entry, readVars, saidVars, onPod, sendQueue, seen, excused, inVars>>

\* The client is gone and the pod is not told.
LoseClient(s) ==
    /\ sock[s] = "open"
    /\ sock' = [sock EXCEPT ![s] = "dead"]
    /\ UNCHANGED <<taskVars, unanswered, entry, readVars, saidVars, onPod, sendQueue, seen, excused, inVars>>

\* The drain asks the clients to reconnect and closes: until the close is through nothing is sent.
Drain(s) ==
    /\ sock[s] = "open"
    /\ sock' = [sock EXCEPT ![s] = "closing"]
    /\ UNCHANGED <<taskVars, unanswered, entry, readVars, saidVars, onPod, sendQueue, seen, excused, inVars>>

\* onClose takes the socket off the tables of the pod, then its entry off the set.
Closed(s) ==
    /\ sock[s] \in {"open", "closing"}
    /\ sock' = [sock EXCEPT ![s] = "leaving"]
    /\ UNCHANGED <<taskVars, unanswered, entry, readVars, saidVars, onPod, sendQueue, seen, excused, inVars>>

RemoveEntry(s) ==
    /\ sock[s] = "leaving"
    /\ sock' = [sock EXCEPT ![s] = "gone"]
    /\ entry' = entry \ {s}
    /\ UNCHANGED <<taskVars, unanswered, readVars, saidVars, onPod, sendQueue, seen, excused, inVars>>

\* No ping for the time to live of the set.
EntriesExpire ==
    /\ failures < MaxFailures /\ failures' = failures + 1 /\ UNCHANGED task
    /\ entry' = {}
    /\ UNCHANGED <<sock, unanswered, readVars, saidVars, onPod, sendQueue, seen, excused, inVars>>

\* The client's ping puts the entry back.
Ping(s) ==
    /\ sock[s] = "open" /\ tokens > 0
    /\ entry' = entry \cup {s}
    /\ UNCHANGED <<taskVars, sock, unanswered, readVars, saidVars, onPod, sendQueue, seen, excused, inVars>>

----------------------------------------------------------------------------
(* The members of the conversation                                         *)

beside == <<sock, unanswered, entry, readVars, saidVars, onPod, sendQueue, seen, excused>>

\* Who awaits an answer of members(), and has it.
Asks(a)     == IF a = Fanout THEN fan.at = "members" ELSE task[a].at \in {"mayAct", "mayPublish"}
Answered(a) == answer[a] \in {"in", "out", "none"}
Heard(a)    == answer' = [answer EXCEPT ![a] = "unasked"]

\* SMEMBERS: a set that is there is the answer.
Members(a) ==
    /\ Asks(a) /\ answer[a] = "unasked"
    /\ answer' = [answer EXCEPT ![a] = cachedSet]
    /\ UNCHANGED <<taskVars, beside, cachedSet, refills, banned, tokens, typed, shown, forbidden>>

\* The set was empty: a lookup of its own (resolve, or the first fetch), or the fetch under way.
Refill(a) ==
    /\ Asks(a) /\ answer[a] = "cold"
    /\ answer' = [answer EXCEPT ![a] = "awaits"]
    /\ \/ refills' = refills \cup {[for |-> {a}, found |-> "unread"]}
       \/ \E r \in refills : refills' = (refills \ {r}) \cup {[r EXCEPT !.for = @ \cup {a}]}
    /\ UNCHANGED <<taskVars, beside, cachedSet, banned, tokens, typed, shown, forbidden>>

\* A refill is over, with the same answer for all who await it.
Answers(r, found) ==
    /\ refills' = refills \ {r}
    /\ answer' = [a \in Askers |-> IF a \in r.for THEN found ELSE answer[a]]

ReadRows(r) ==
    /\ r.found = "unread"
    /\ refills' = (refills \ {r}) \cup {[r EXCEPT !.found = IF banned THEN "out" ELSE "in"]}
    /\ UNCHANGED <<taskVars, beside, cachedSet, answer, banned, tokens, typed, shown, forbidden>>

\* SADD adds the rows to what others may have put there since.
Seed(r) ==
    /\ r.found # "unread"
    /\ cachedSet' = IF r.found = "in" \/ cachedSet = "cold" THEN r.found ELSE cachedSet
    /\ Answers(r, r.found)
    /\ UNCHANGED <<taskVars, beside, banned, tokens, typed, shown, forbidden>>

\* Nobody answers, there are no rows, or Redis rejects: no members, or after resolve the fetch.
RefillFails(r) ==
    /\ \E found \in {"none"} \cup {x \in {"cold"} : Cardinality(r.for) = 1} : Answers(r, found)
    /\ UNCHANGED <<taskVars, beside, cachedSet, banned, tokens, typed, shown, forbidden>>

MembersStep ==
    \/ \E a \in Askers : Members(a) \/ Refill(a)
    \/ \E r \in refills : ReadRows(r) \/ Seed(r) \/ RefillFails(r)

----------------------------------------------------------------------------
(* Fan-out                                                                 *)

\* chat numbers a message, stores it, and publishes it; several calls are under way at a time.
Say ==
    /\ said < MaxSaid
    /\ said' = said + 1
    /\ UNCHANGED <<taskVars, sock, unanswered, entry, readVars, stored, storedLate, told, fanned, fan, onPod,
                   sendQueue, seen, excused, inVars>>

Store(e) ==
    /\ e \in (1..said) \ stored
    /\ stored' = stored \cup {e}
    /\ storedLate' = IF e <= cursor THEN storedLate \cup {e} ELSE storedLate
    /\ UNCHANGED <<taskVars, sock, unanswered, entry, readVars, said, told, fanned, fan, onPod, sendQueue, seen,
                   excused, inVars>>

TellSent(e) ==
    /\ e \in stored \ told
    /\ told' = told \cup {e}
    /\ UNCHANGED <<taskVars, sock, unanswered, entry, readVars, said, stored, storedLate, fanned, fan, onPod,
                   sendQueue, seen, excused, inVars>>

\* The consumer comes to an event, in whatever order the bus has them (EventBus).
TakeSent(e) ==
    /\ fan.at = "idle" /\ e \in told \ fanned
    /\ fan' = [fan EXCEPT !.at = "members", !.msg = e]
    /\ fanned' = fanned \cup {e}
    /\ UNCHANGED <<taskVars, sock, unanswered, entry, readVars, said, stored, storedLate, told, onPod, sendQueue,
                   seen, excused, inVars>>

\* No member is known: the message is left to the catch-up.
OnMessageSent ==
    /\ fan.at = "members" /\ Answered(Fanout)
    /\ IF answer[Fanout] = "in"
       THEN fan' = [fan EXCEPT !.at = "pods"] /\ UNCHANGED excused
       ELSE fan' = [fan EXCEPT !.at = "idle"] /\ excused' = excused \cup {fan.msg}
    /\ Heard(Fanout)
    /\ UNCHANGED <<taskVars, sock, unanswered, entry, readVars, said, stored, storedLate, told, fanned, onPod,
                   sendQueue, seen, cachedSet, refills, banned, tokens, typed, shown, forbidden>>

\* The entry of a socket that was there: while the socket is open, only expiry takes it away.
Expired(s) == sock[s] = "open" /\ s \notin entry /\ failures > 0

PodsFor ==
    /\ fan.at = "pods"
    /\ fan' = [fan EXCEPT !.at = "publish", !.pods = entry]
    /\ excused' = IF \E s \in Sockets : Expired(s) THEN excused \cup {fan.msg} ELSE excused
    /\ UNCHANGED <<taskVars, sock, unanswered, entry, readVars, said, stored, storedLate, told, fanned, onPod,
                   sendQueue, seen, inVars>>

RoutePod(s) ==
    /\ fan.at = "publish" /\ s \in fan.pods
    /\ fan' = [fan EXCEPT !.pods = @ \ {s}]
    /\ onPod' = onPod \cup {<<s, fan.msg>>}
    /\ UNCHANGED <<taskVars, sock, unanswered, entry, readVars, said, stored, storedLate, told, fanned, sendQueue,
                   seen, excused, inVars>>

Routed ==
    /\ fan.at = "publish" /\ fan.pods = {}
    /\ fan' = [fan EXCEPT !.at = "idle"]
    /\ UNCHANGED <<taskVars, sock, unanswered, entry, readVars, said, stored, storedLate, told, fanned, onPod,
                   sendQueue, seen, excused, inVars>>

\* A message is durable: never dropped, whatever waits.
Enqueued(s, e) == Append(sendQueue[s], e)

\* deliver and write, for the tracked sockets: into the queue, and while the socket is OPEN all that
\* is queued is sent.  The pod takes a dead socket for an open one.
DeliverFromPod(s, e) ==
    /\ <<s, e>> \in onPod
    /\ onPod' = onPod \ {<<s, e>>}
    /\ LET queued == Enqueued(s, e) IN
       IF ~OnTables(s) THEN UNCHANGED <<sendQueue, seen>>
       ELSE IF sock[s] = "closing" THEN sendQueue' = [sendQueue EXCEPT ![s] = queued] /\ UNCHANGED seen
       ELSE /\ sendQueue' = [sendQueue EXCEPT ![s] = <<>>]
            /\ seen' = IF sock[s] = "dead" THEN seen ELSE seen \cup {queued[i] : i \in DOMAIN queued}
    /\ UNCHANGED <<taskVars, sock, unanswered, entry, readVars, saidVars, excused, inVars>>

----------------------------------------------------------------------------
(* Frames from the socket                                                  *)

Frames  == {"receipt", "start", "stop"}
Handling == {t \in Tasks : task[t].at \notin {"new", "over", "failed"}}

\* The user is removed, and neither the set nor a refill under way has him still.
NoMember == banned /\ cachedSet # "in" /\ \A r \in refills : r.found # "in"

\* spendToken; the handler runs up to its first await.
OnInbound(t, frame) ==
    /\ \E s \in Sockets : sock[s] = "open"
    /\ tokens > 0 /\ tokens' = tokens - 1
    /\ Begins(t, [op |-> frame, at |-> "mayAct", late |-> NoMember])
    /\ typed' = IF frame = "receipt" THEN typed
                ELSE [last |-> frame, apart |-> typed.apart /\ (\A r \in Handling : task[r].op = "receipt")]
    /\ UNCHANGED <<failures, beside, memberVars, banned, shown, forbidden>>

\* A frame beyond the limit is dropped.
OverLimit(frame) ==
    /\ \E s \in Sockets : sock[s] = "open"
    /\ tokens = 0 /\ frame # "receipt"
    /\ typed' = [last |-> frame, apart |-> FALSE]
    /\ UNCHANGED <<taskVars, beside, memberVars, banned, tokens, shown, forbidden>>

SecondPasses ==
    /\ tokens < Limit
    /\ tokens' = Limit
    /\ UNCHANGED <<taskVars, beside, memberVars, banned, typed, shown, forbidden>>

\* Mutant: an answer that is not there is no refusal.
NotRefused(found) == found \in {"in", "none"}

Confirms(found) == found = "in"

\* A handler that is refused has had no effect.
Refused(t) == Ends(t) /\ typed' = [typed EXCEPT !.apart = FALSE]

\* isMember, asked by the fabric.  The mono gives its receipt publisher no projection to ask again.
MayAct(t) ==
    /\ At(t, "mayAct")
    /\ Answered(t) /\ Heard(t)
    /\ \E next \in {"mayPublish"} \cup {x \in {"send"} : task[t].op = "receipt"} :
          IF Confirms(answer[t]) THEN Goes(t, next) /\ UNCHANGED typed ELSE Refused(t)
    /\ UNCHANGED <<failures, beside, cachedSet, refills, banned, tokens, shown, forbidden>>

\* members, asked once more by the receipt publisher and the typing relay.
MayPublish(t) ==
    /\ At(t, "mayPublish")
    /\ Answered(t) /\ Heard(t)
    /\ IF Confirms(answer[t]) THEN Goes(t, "send") /\ UNCHANGED typed ELSE Refused(t)
    /\ UNCHANGED <<failures, beside, cachedSet, refills, banned, tokens, shown, forbidden>>

\* The receipt is published, or the signal routed to the other members.
Relay(t) ==
    /\ At(t, "send")
    /\ Ends(t)
    /\ forbidden' = (forbidden \/ task[t].late)
    /\ shown' = IF task[t].op = "receipt" THEN shown ELSE task[t].op
    /\ UNCHANGED <<failures, beside, memberVars, banned, tokens, typed>>

FailFrame(t) ==
    /\ Fails(t)
    /\ typed' = [typed EXCEPT !.apart = FALSE]
    /\ UNCHANGED <<beside, memberVars, banned, tokens, shown, forbidden>>

\* The user is removed, and the projection follows; the key may be evicted.
Ban ==
    /\ ~banned /\ banned' = TRUE
    /\ UNCHANGED <<taskVars, beside, memberVars, tokens, typed, shown, forbidden>>

ProjectRemoval ==
    /\ banned /\ cachedSet = "in"
    /\ cachedSet' = "out"
    /\ UNCHANGED <<taskVars, beside, answer, refills, banned, tokens, typed, shown, forbidden>>

Evict ==
    /\ cachedSet # "cold" /\ cachedSet' = "cold"
    /\ UNCHANGED <<taskVars, beside, answer, refills, banned, tokens, typed, shown, forbidden>>

SocketStep(s) ==
    \/ OpenSocket(s) \/ AddEntry(s) \/ Greet(s) \/ CatchUp(s) \/ SweepSocket(s) \/ LoseClient(s)
    \/ Drain(s) \/ Closed(s) \/ RemoveEntry(s) \/ Ping(s)

SaidStep == Say \/ \E e \in 1..MaxSaid : Store(e) \/ TellSent(e) \/ TakeSent(e)
FanStep  == OnMessageSent \/ PodsFor \/ Routed \/ EntriesExpire

FanoutStep ==
    \/ SaidStep \/ FanStep
    \/ \E s \in Sockets : RoutePod(s) \/ \E e \in 1..MaxSaid : DeliverFromPod(s, e)

FrameStep ==
    \/ \E t \in Tasks : MayAct(t) \/ MayPublish(t) \/ Relay(t) \/ FailFrame(t) \/ \E f \in Frames : OnInbound(t, f)
    \/ \E f \in Frames : OverLimit(f)
    \/ SecondPasses \/ Ban \/ ProjectRemoval

\* What is sent to a socket and what comes from it share the members projection only.
DeliveryNext  == (\E s \in Sockets : SocketStep(s)) \/ FanoutStep \/ MembersStep \/ Evict
FramesNext(s) == OpenSocket(s) \/ AddEntry(s) \/ Greet(s) \/ FrameStep \/ MembersStep \/ Evict

----------------------------------------------------------------------------
(* Properties                                                              *)

\* A device that has caught up on the socket it holds knows every message the fan-out is done with,
\* unless the fan-out found no members, or not the socket whose entry had expired, or the message was
\* stored when the cursor of the device had passed its number, before the catch-up.  About the order
\* in which a socket is registered, greeted and caught up, against that in which a message is numbered,
\* stored, published and routed (ws-fabric.ts:139, chat.repository.ts:130, fanout-consumer.ts:71,
\* event-router.ts:31).
CaughtUpMissesNothing ==
    \A s \in caughtUp, e \in fanned :
        sock[s] = "open" /\ (e # fan.msg \/ fan.at = "idle") /\ (\A r \in Sockets : <<r, e>> \notin onPod) =>
            e \in seen \cup excused \cup passed

\* Nothing waits for a socket that could send it, so the watermark of the queue drops nothing.
NothingWaitsForAnOpenSocket == \A s \in Sockets : sock[s] = "open" => sendQueue[s] = <<>>

\* A frame that comes from a user who is no member any more has no effect on others, unless the set had
\* him still, or a refill that read the rows before he was removed and adds him to it afterwards
\* (ws-fabric.ts:259, receipt-publisher.ts:44, typing-relay.ts:25, membership-projection.ts:67).
FormerMemberIsMute == ~forbidden

\* With no frame under way the others see the last typing signal of the user, unless two frames were
\* handled at a time, or one was refused, dropped or failed: stop may overtake start.
TypingIsTheLast == Handling = {} /\ typed.apart => shown = typed.last

\* What the members projection allows out of a socket, and in what order it gets there.
FramesHold == FormerMemberIsMute /\ TypingIsTheLast

\* What is routed to a device gets there: the queue of an open socket holds nothing back.
LiveDeliveryHolds == CaughtUpMissesNothing /\ NothingWaitsForAnOpenSocket
=============================================================================
