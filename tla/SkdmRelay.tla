------------------------------- MODULE SkdmRelay -------------------------------
(***************************************************************************)
(* How a sender key reaches one recipient device: the sockets a device has  *)
(* on the realtime pods (WsFabric), the set conn:{user} by which other pods  *)
(* find them (ConnectionRegistry), the pub/sub channel of each pod           *)
(* (EventRouter, ValkeyPodPublisher) and the queue of the keys distributed   *)
(* while the device was away (SkdmService, SkdmStore).                       *)
(*                                                                         *)
(* Each command to Redis is a step.  A pod sends its commands over one        *)
(* connection, in order.                                                    *)
(***************************************************************************)
EXTENDS Naturals, Sequences, FiniteSets, SequencesExt

CONSTANTS Keys,         \* sender keys, each distributed once
          Conns,        \* sockets the device opens, one after the other or side by side
          Pods, NoPod,
          MaxPerDevice, \* bound of the queue (skdm-store.ts:17)
          MaxFaults     \* bound on crashes and entries lost by live sockets

ASSUME RelayAssumption ==
    /\ IsFiniteSet(Conns)
    /\ NoPod \notin Pods
    /\ MaxPerDevice \in Nat \ {0}
    /\ MaxFaults \in Nat

VARIABLES
    conn,     \* [Conns -> ConnStates]
    podOf,    \* [Conns -> Pods \cup {NoPod}]
    up,       \* the pods that run
    registry, \* the sockets with an entry in conn:{user}
    queue,    \* the list skdm:{user}:{device}
    dist,     \* [Keys -> record], a distribution
    flush,    \* [Conns -> record], the replay a connection starts
    heard,    \* [Conns -> [Keys -> Nat]], how often the client received the key there
    evicted,  \* open sockets whose entry expired
    wiped,    \* keys the DEL of a replay removed unread
    faults

vars == <<conn, podOf, up, registry, queue, dist, flush, heard,
          evicted, wiped, faults>>

(* "registering": tracked, SADD under way.  "dying": gone by then; no close   *)
(* listener is attached yet.  "dead": still tracked, nobody listens.          *)
(* "leaving": no longer tracked, SREM under way.                             *)
ConnStates == {"none", "registering", "dying", "open", "dead", "leaving", "gone"}

Live(c)    == conn[c] \in {"registering", "open"}
Tracked(c) == conn[c] \in {"registering", "open", "dying", "dead"}

NoDist  == [at |-> "new", todo |-> {}, online |-> FALSE, sees |-> {}]
NoFlush == [at |-> "off", todo |-> {}, items |-> <<>>, all |-> {}]

DistAt  == {"new", "route", "enqueue", "done"}
FlushAt == {"off", "read", "clear", "next", "route", "done", "dead"}

TypeOK ==
    /\ conn \in [Conns -> ConnStates]
    /\ podOf \in [Conns -> Pods \cup {NoPod}]
    /\ \A c \in Conns : (conn[c] = "none") <=> (podOf[c] = NoPod)
    /\ up \subseteq Pods
    /\ registry \subseteq Conns
    /\ queue \in Seq(Keys) /\ Len(queue) <= MaxPerDevice
    /\ dist \in [Keys -> [at : DistAt, todo : SUBSET Pods,
                          online : BOOLEAN, sees : SUBSET Conns]]
    /\ DOMAIN flush = Conns
    /\ \A c \in Conns :
         /\ flush[c].at \in FlushAt
         /\ flush[c].todo \subseteq Pods
         /\ flush[c].items \in Seq(Keys) /\ Len(flush[c].items) <= MaxPerDevice
         /\ flush[c].all \subseteq Keys
    /\ heard \in [Conns -> [Keys -> 0 .. Cardinality(Conns)]]
    /\ evicted \subseteq Conns
    /\ wiped \subseteq Keys
    /\ faults \in 0 .. MaxFaults

InitWith(q) ==
    /\ conn = [c \in Conns |-> "none"]
    /\ podOf = [c \in Conns |-> NoPod]
    /\ up = Pods
    /\ registry = {}
    /\ queue = q
    /\ dist = [k \in Keys |-> IF k \in ToSet(q) THEN [NoDist EXCEPT !.at = "done"] ELSE NoDist]
    /\ flush = [c \in Conns |-> NoFlush]
    /\ heard = [c \in Conns |-> [k \in Keys |-> 0]]
    /\ evicted = {} /\ wiped = {}
    /\ faults = 0

Init == InitWith(<<>>)

-----------------------------------------------------------------------------
(* Connections (ws-fabric.ts)                                                *)

relayVars == <<queue, dist, flush, heard, wiped>>

\* The token is verified and the socket tracked; SADD is on its way.
Connect(c, p) ==
    /\ conn[c] = "none" /\ p \in up
    /\ conn' = [conn EXCEPT ![c] = "registering"]
    /\ podOf' = [podOf EXCEPT ![c] = p]
    /\ UNCHANGED <<up, registry, relayVars, evicted, faults>>

\* Redis answers; the listeners are attached and the replay starts, whether
\* or not the socket is still there.
Register(c) ==
    /\ conn[c] \in {"registering", "dying"}
    /\ registry' = registry \cup {c}
    /\ conn' = [conn EXCEPT ![c] = IF @ = "registering" THEN "open" ELSE "dead"]
    /\ flush' = [flush EXCEPT ![c].at = "read"]
    /\ UNCHANGED <<podOf, up, queue, dist, heard, wiped, evicted, faults>>

\* The client's ping re-adds the entry.
Heartbeat(c) ==
    /\ conn[c] = "open" /\ c \notin registry
    /\ registry' = registry \cup {c}
    /\ UNCHANGED <<conn, podOf, up, relayVars, evicted, faults>>

\* The client goes away and the pod is not told: the network is gone, or the
\* close listener is not attached yet.
Vanish(c) ==
    /\ Live(c)
    /\ conn' = [conn EXCEPT ![c] = IF @ = "registering" THEN "dying" ELSE "dead"]
    /\ UNCHANGED <<podOf, up, registry, relayVars, evicted, faults>>

\* The pod is told (onClose).
Close(c) ==
    /\ conn[c] = "open"
    /\ conn' = [conn EXCEPT ![c] = "leaving"]
    /\ UNCHANGED <<podOf, up, registry, relayVars, evicted, faults>>

\* Mutant of Sweep: the socket is dropped, its entry is not.
SweepKeepsEntry(c) ==
    /\ conn[c] = "dead"
    /\ conn' = [conn EXCEPT ![c] = "gone"]
    /\ UNCHANGED <<podOf, up, registry, relayVars, evicted, faults>>

\* A socket that answered no ping since the last sweep is dropped.
Sweep(c) ==
    /\ conn[c] = "dead"
    /\ conn' = [conn EXCEPT ![c] = "leaving"]
    /\ UNCHANGED <<podOf, up, registry, relayVars, evicted, faults>>

Unregister(c) ==
    /\ conn[c] = "leaving"
    /\ registry' = registry \ {c}
    /\ conn' = [conn EXCEPT ![c] = "gone"]
    /\ UNCHANGED <<podOf, up, relayVars, evicted, faults>>

\* The key conn:{user} expires, 75 s after the last ping of any socket.  The
\* sweep drops a dead socket within 50 s, so only entries of crashed pods are
\* left by then, unless an open socket's client did not ping: a fault.
Expire ==
    LET lost == {c \in registry : conn[c] = "open"} IN
    /\ \/ registry # {} /\ (\A c \in registry : conn[c] = "gone") /\ UNCHANGED faults
       \/ lost # {} /\ faults < MaxFaults /\ faults' = faults + 1
    /\ registry' = {}
    /\ evicted' = evicted \cup lost
    /\ UNCHANGED <<conn, podOf, up, relayVars>>

-----------------------------------------------------------------------------
(* Distribution (SkdmService.distribute, one target)                         *)

connVars == <<conn, podOf, up, registry, evicted>>

\* Mutant of PodsForDevice: one pod is taken for all.
AnyPodForDevice == IF registry = {} THEN {} ELSE {podOf[CHOOSE c \in registry : TRUE]}

PodsForDevice == {podOf[c] : c \in registry}

\* SMEMBERS names the pods.  "sees" keeps the sockets that are open and found.
Distribute(k) ==
    /\ dist[k].at = "new"
    /\ dist' = [dist EXCEPT ![k] =
         [at     |-> IF registry = {} THEN "enqueue" ELSE "route",
          todo   |-> PodsForDevice,
          online |-> registry # {},
          sees   |-> {c \in registry : conn[c] = "open"}]]
    /\ UNCHANGED <<connVars, queue, flush, heard, wiped, faults>>

\* PUBLISH, and the pod writes the frame to the sockets it tracks, of which
\* only a live one hears it.  The frame may arrive later; the publisher does
\* not wait for it, and what happens to the sockets in between could as well
\* have happened before the PUBLISH.  Redis keeps nothing for a pod that is down.
PublishToPod(p, k) ==
    heard' = [c \in Conns |->
        IF podOf[c] = p /\ Live(c) THEN [heard[c] EXCEPT ![k] = @ + 1] ELSE heard[c]]

RouteToDevice(k) ==
    /\ dist[k].at = "route"
    /\ \E p \in dist[k].todo :
         /\ PublishToPod(p, k)
         /\ dist' = [dist EXCEPT ![k].todo = @ \ {p},
                                 ![k].at = IF dist[k].todo = {p} THEN "done" ELSE @]
    /\ UNCHANGED <<connVars, queue, flush, wiped, faults>>

\* Mutant of Enqueue: the list is overwritten.
EnqueueOverwrites(k) ==
    /\ dist[k].at = "enqueue"
    /\ queue' = <<k>>
    /\ dist' = [dist EXCEPT ![k].at = "done"]
    /\ UNCHANGED <<connVars, flush, heard, wiped, faults>>

\* No pod was found: RPUSH, LTRIM.
Enqueue(k) ==
    /\ dist[k].at = "enqueue"
    /\ LET q == Append(queue, k)
       IN queue' = IF Len(q) > MaxPerDevice THEN Tail(q) ELSE q
    /\ dist' = [dist EXCEPT ![k].at = "done"]
    /\ UNCHANGED <<connVars, flush, heard, wiped, faults>>

-----------------------------------------------------------------------------
(* Replay on connect (SkdmService.flushOnConnect, SkdmStore.drain)           *)

ReadQueue(c) ==
    /\ flush[c].at = "read"
    /\ flush' = [flush EXCEPT ![c] =
         [at |-> IF queue = <<>> THEN "done" ELSE "clear",
          todo |-> {}, items |-> queue, all |-> ToSet(queue)]]
    /\ UNCHANGED <<connVars, queue, dist, heard, wiped, faults>>

ClearQueue(c) ==
    /\ flush[c].at = "clear"
    /\ flush' = [flush EXCEPT ![c].at = "next"]
    /\ wiped' = wiped \cup (ToSet(queue) \ flush[c].all)
    /\ queue' = <<>>
    /\ UNCHANGED <<connVars, dist, heard, faults>>

\* The device is looked up again for every item; one that is found nowhere
\* is not queued again.
NextItem(c) ==
    /\ flush[c].at = "next"
    /\ LET f == flush[c] IN
       flush' = [flush EXCEPT ![c] =
         IF f.items = <<>> THEN [f EXCEPT !.at = "done"]
         ELSE IF registry = {} THEN [f EXCEPT !.items = Tail(f.items)]
         ELSE [f EXCEPT !.at = "route", !.todo = PodsForDevice]]
    /\ UNCHANGED <<connVars, queue, dist, heard, wiped, faults>>

ReplayToPod(c) ==
    /\ flush[c].at = "route"
    /\ LET f == flush[c] IN
       \E p \in f.todo :
         /\ PublishToPod(p, Head(f.items))
         /\ flush' = [flush EXCEPT ![c] =
              IF f.todo = {p} THEN [f EXCEPT !.at = "next", !.todo = {}, !.items = Tail(f.items)]
              ELSE [f EXCEPT !.todo = f.todo \ {p}]]
    /\ UNCHANGED <<connVars, queue, dist, wiped, faults>>

-----------------------------------------------------------------------------
(* A pod dies with its sockets and replays; the entries of its sockets stay  *)
(* in the registry, and the pod that replaces it has a name of its own.  A    *)
(* distribution that dies with it takes no more steps.                       *)

Crash(p) ==
    /\ p \in up /\ faults < MaxFaults
    /\ faults' = faults + 1
    /\ up' = up \ {p}
    /\ conn' = [c \in Conns |-> IF podOf[c] = p THEN "gone" ELSE conn[c]]
    /\ flush' = [c \in Conns |->
         IF podOf[c] = p /\ flush[c].at # "done" THEN [flush[c] EXCEPT !.at = "dead"]
         ELSE flush[c]]
    /\ UNCHANGED <<podOf, registry, queue, dist, heard, evicted, wiped>>

Next ==
    \/ \E c \in Conns : \/ \E p \in Pods : Connect(c, p)
                        \/ Register(c) \/ Heartbeat(c) \/ Vanish(c) \/ Close(c)
                        \/ Sweep(c) \/ Unregister(c)
                        \/ ReadQueue(c) \/ ClearQueue(c) \/ NextItem(c) \/ ReplayToPod(c)
    \/ \E k \in Keys : Distribute(k) \/ RouteToDevice(k) \/ Enqueue(k)
    \/ \E p \in Pods : Crash(p)
    \/ Expire

Spec == Init /\ [][Next]_vars

-----------------------------------------------------------------------------
(* Properties                                                               *)

\* A socket that is open when the lookup finds it and still open when the
\* distribution is over has the key, and so has a socket that
\* stays open and registered the keys of its own replay (skdm.service.ts:27, :62).
OpenSocketGetsTheKey ==
    \A c \in Conns : conn[c] = "open" =>
        \A k \in Keys :
            /\ dist[k].at = "done" /\ c \in dist[k].sees => heard[c][k] > 0
            /\ flush[c].at = "done" /\ k \in flush[c].all /\ c \notin evicted => heard[c][k] > 0

\* A key distributed while the device had no entry waits in the queue until a
\* connection replays it; it is missing from both only if the DEL of a replay
\* that had read the list before took it, or the list was full
\* (skdm.service.ts:41, skdm-store.ts:20-32).
QueuedUntilReplayed ==
    \A k \in Keys : dist[k].at = "done" /\ ~dist[k].online =>
        \/ k \in ToSet(queue) \cup wiped
        \/ \E c \in Conns : k \in flush[c].all
        \/ Cardinality({j \in Keys : dist[j].at = "done" /\ ~dist[j].online}) > MaxPerDevice

\* A socket hears a key twice only if two connections read the list before
\* either cleared it: a key is routed or queued, never both
\* (skdm.service.ts:36-41, skdm-store.ts:28-32).
HeardTwiceOnlyByTwoReplays ==
    \A c \in Conns, k \in Keys :
        heard[c][k] > 1 => Cardinality({d \in Conns : k \in flush[d].all}) > 1

\* An entry of a socket that is gone is the entry of a pod that crashed: every
\* other end of a connection, a close while it was being registered included,
\* has its entry removed, and no late SADD puts it back
\* (connection-registry.ts:34-47, ws-fabric.ts:139-161, :302-305, :345-353).
GhostsOnlyOfCrashedPods ==
    \A c \in registry : conn[c] = "gone" => podOf[c] \notin up

\* A replay repeats nothing and a closed socket leaves nothing, but for those causes
\* (skdm-store.ts:28, connection-registry.ts:34).
RelayLeavesNoTrace == HeardTwiceOnlyByTwoReplays /\ GhostsOnlyOfCrashedPods

=============================================================================
