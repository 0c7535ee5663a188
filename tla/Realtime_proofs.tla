----------------------------- MODULE Realtime_proofs -----------------------------
(***************************************************************************)
(* What the relay of sender keys keeps for any number of keys, sockets,     *)
(* pods and faults, and any keys that waited for the device at first; and   *)
(* what the live delivery to one device and the frames of its sockets keep, *)
(* for any number of sockets, messages and handlers.                        *)
(***************************************************************************)
EXTENDS SkdmRelay, Fabric, FiniteSetTheorems, TLAPS

----------------------------------------------------------------------------
(* Lists of keys                                                           *)

Distinct(s) == \A i, j \in DOMAIN s : s[i] = s[j] => i = j

\* The keys of a list are keys, those at its places.
LEMMA ListKeys ==
    ASSUME NEW s \in Seq(Keys)
    PROVE  /\ ToSet(s) \subseteq Keys
           /\ s = <<>> <=> ToSet(s) = {}
           /\ s # <<>> => Head(s) \in ToSet(s)
<1>1. \A i \in DOMAIN s : s[i] \in Keys  OBVIOUS
<1>2. s # <<>> => 1 \in DOMAIN s /\ Head(s) = s[1]  OBVIOUS
<1>3. s = <<>> => DOMAIN s = {}  OBVIOUS
<1> QED BY <1>1, <1>2, <1>3 DEF ToSet

\* RPUSH adds its key at the end.
LEMMA ListAppend ==
    ASSUME NEW s \in Seq(Keys), NEW k \in Keys
    PROVE  /\ Append(s, k) \in Seq(Keys) /\ Append(s, k) # <<>>
           /\ ToSet(Append(s, k)) = ToSet(s) \cup {k}
           /\ Distinct(s) /\ k \notin ToSet(s) => Distinct(Append(s, k))
<1> DEFINE t == Append(s, k)
<1>1. t \in Seq(Keys) /\ t # <<>>
  <2>1. t \in Seq(Keys) /\ Len(t) = Len(s) + 1 /\ Len(s) \in Nat  OBVIOUS
  <2>2. Len(t) # 0  BY <2>1
  <2> QED BY <2>1, <2>2
<1>2. /\ \A i \in DOMAIN s : i \in DOMAIN t /\ t[i] = s[i]
      /\ Len(s) + 1 \in DOMAIN t /\ t[Len(s) + 1] = k
      /\ \A i \in DOMAIN t : i \in DOMAIN s \/ i = Len(s) + 1
    OBVIOUS
<1> HIDE DEF t
<1>3. ToSet(t) = ToSet(s) \cup {k}  BY <1>2 DEF ToSet
<1>4. Distinct(s) /\ k \notin ToSet(s) => Distinct(t)
  <2> SUFFICES ASSUME Distinct(s), k \notin ToSet(s), NEW i \in DOMAIN t, NEW j \in DOMAIN t, t[i] = t[j]
               PROVE  i = j
      BY DEF Distinct
  <2>1. \A n \in DOMAIN s : s[n] # k  BY DEF ToSet
  <2> QED BY <1>2, <2>1 DEF Distinct
<1> QED BY <1>1, <1>3, <1>4 DEF t

\* LTRIM and a replay that goes on drop the key at the front.
LEMMA ListTail ==
    ASSUME NEW s \in Seq(Keys), s # <<>>
    PROVE  /\ Tail(s) \in Seq(Keys) /\ Len(Tail(s)) = Len(s) - 1
           /\ ToSet(Tail(s)) \subseteq ToSet(s)
           /\ ToSet(s) \subseteq ToSet(Tail(s)) \cup {Head(s)}
           /\ Distinct(s) => Distinct(Tail(s)) /\ Head(s) \notin ToSet(Tail(s))
<1> DEFINE t == Tail(s)
<1>1. /\ t \in Seq(Keys) /\ Len(t) = Len(s) - 1 /\ Head(s) = s[1] /\ 1 \in DOMAIN s
      /\ \A i \in DOMAIN t : i + 1 \in DOMAIN s /\ t[i] = s[i + 1] /\ i \in Nat /\ i + 1 # 1
      /\ \A i \in DOMAIN s : i = 1 \/ (i - 1 \in DOMAIN t /\ t[i - 1] = s[i])
    OBVIOUS
<1> HIDE DEF t
<1>2. ToSet(t) \subseteq ToSet(s) /\ ToSet(s) \subseteq ToSet(t) \cup {Head(s)}
  <2>1. ASSUME NEW i \in DOMAIN t PROVE t[i] \in ToSet(s)  BY <1>1 DEF ToSet
  <2>2. ASSUME NEW i \in DOMAIN s PROVE s[i] \in ToSet(t) \cup {Head(s)}  BY <1>1 DEF ToSet
  <2> QED BY <2>1, <2>2 DEF ToSet
<1>3. Distinct(s) => Distinct(t) /\ Head(s) \notin ToSet(t)  BY <1>1 DEF Distinct, ToSet
<1> QED BY <1>1, <1>2, <1>3 DEF t

\* A list without repetition holds as many keys as it is long.
LEMMA ListCount ==
    ASSUME NEW s \in Seq(Keys), Distinct(s)
    PROVE  IsFiniteSet(ToSet(s)) /\ Cardinality(ToSet(s)) = Len(s)
<1> DEFINE f == [i \in 1 .. Len(s) |-> s[i]]
<1>1. Len(s) \in Nat /\ DOMAIN s = 1 .. Len(s)  OBVIOUS
<1>2. f \in Bijection(1 .. Len(s), ToSet(s))
    BY <1>1 DEF Bijection, Injection, Surjection, IsInjective, ToSet, Distinct
<1>3. ExistsBijection(1 .. Len(s), ToSet(s))  BY <1>2 DEF ExistsBijection
<1> QED BY <1>1, <1>3, FS_CountingElements, FS_NatBijection

----------------------------------------------------------------------------
(* Types, sockets and the places of a replay                               *)

DistRecs  == [at : DistAt, todo : SUBSET Pods, online : BOOLEAN, sees : SUBSET Conns]
FlushRecs == [at : FlushAt, todo : SUBSET Pods, items : Seq(Keys), all : SUBSET Keys]

\* TypeOK, but for the bound of what is heard.
RelayType ==
    /\ conn \in [Conns -> ConnStates]
    /\ podOf \in [Conns -> Pods \cup {NoPod}]
    /\ \A c \in Conns : conn[c] = "none" <=> podOf[c] = NoPod
    /\ up \subseteq Pods /\ registry \subseteq Conns /\ evicted \subseteq Conns
    /\ queue \in Seq(Keys) /\ Len(queue) <= MaxPerDevice
    /\ dist \in [Keys -> DistRecs]
    /\ flush \in [Conns -> FlushRecs]
    /\ \A c \in Conns : Len(flush[c].items) <= MaxPerDevice
    /\ heard \in [Conns -> [Keys -> Nat]]
    /\ wiped \subseteq Keys
    /\ faults \in 0 .. MaxFaults

\* A socket that has been registered once.
Known == {"open", "dead", "leaving", "gone"}

\* Only known sockets have an entry or are seen, an open one has its entry unless it expired, and
\* a gone one only if its pod crashed.
SocketInv ==
    /\ \A c \in registry : conn[c] \in Known
    /\ \A c \in registry : conn[c] = "gone" => podOf[c] \notin up
    /\ \A c \in Conns : conn[c] = "open" => c \in registry \cup evicted
    /\ \A k \in Keys : \A c \in dist[k].sees : conn[c] \in Known

\* A replay begins with the registration, holds nothing before it read the list, routes the first
\* item it holds and ends when it holds none.
FlushInv ==
    \A c \in Conns :
        /\ flush[c].at = "off" <=> conn[c] \in {"none", "registering", "dying"}
        /\ flush[c].at \in {"off", "read"} => flush[c].all = {} /\ flush[c].items = <<>>
        /\ flush[c].at \in {"off", "read", "clear", "next", "done"} => flush[c].todo = {}
        /\ flush[c].at = "route" => flush[c].todo # {} /\ flush[c].items # <<>>
        /\ flush[c].at = "done" => flush[c].items = <<>>

RelayInv == RelayType /\ SocketInv /\ FlushInv

\* Steps of a socket that leave keys and replays alone.
ConnStep(c) ==
    (\E p \in Pods : Connect(c, p)) \/ Heartbeat(c) \/ Vanish(c) \/ Close(c) \/ Sweep(c) \/ Unregister(c)

LEMMA ConnKeeps ==
    ASSUME RelayInv, NEW c \in Conns, ConnStep(c)
    PROVE  RelayInv' /\ UNCHANGED relayVars
<1> USE DEF ConnStates, Known
<1>0. /\ conn \in [Conns -> ConnStates] /\ podOf \in [Conns -> Pods \cup {NoPod}]
      /\ registry \subseteq Conns /\ NoPod \notin Pods
    BY RelayAssumption DEF RelayInv, RelayType
<1>1. UNCHANGED relayVars /\ UNCHANGED <<up, evicted, faults>>
    BY DEF ConnStep, Connect, Heartbeat, Vanish, Close, Sweep, Unregister
<1>2. /\ conn' \in [Conns -> ConnStates] /\ podOf' \in [Conns -> Pods \cup {NoPod}] /\ registry' \subseteq Conns
      /\ \A d \in Conns \ {c} : conn'[d] = conn[d] /\ podOf'[d] = podOf[d] /\ (d \in registry' <=> d \in registry)
    BY <1>0 DEF ConnStep, Connect, Heartbeat, Vanish, Close, Sweep, Unregister
<1>3. \/ conn[c] = "none" /\ conn'[c] = "registering" /\ podOf'[c] \in Pods /\ registry' = registry
      \/ conn[c] = "registering" /\ conn'[c] = "dying" /\ podOf'[c] = podOf[c] /\ registry' = registry
      \/ conn[c] = "open" /\ conn'[c] \in {"dead", "leaving"} /\ podOf'[c] = podOf[c] /\ registry' = registry
      \/ conn[c] = "open" /\ conn'[c] = "open" /\ podOf'[c] = podOf[c] /\ c \in registry'
      \/ conn[c] = "dead" /\ conn'[c] = "leaving" /\ podOf'[c] = podOf[c] /\ registry' = registry
      \/ conn[c] = "leaving" /\ conn'[c] = "gone" /\ podOf'[c] = podOf[c] /\ c \notin registry'
    BY <1>0 DEF ConnStep, Connect, Heartbeat, Vanish, Close, Sweep, Unregister, Live
<1>4. RelayType'
  <2>1. \A d \in Conns : conn'[d] = "none" <=> podOf'[d] = NoPod
      BY <1>0, <1>2, <1>3 DEF RelayInv, RelayType
  <2> QED BY <1>1, <1>2, <2>1 DEF RelayInv, RelayType, relayVars
<1>5. SocketInv'
  <2>1. \A d \in registry' : conn'[d] \in Known /\ (conn'[d] = "gone" => podOf'[d] \notin up)
      BY <1>0, <1>2, <1>3 DEF RelayInv, SocketInv
  <2>2. \A d \in Conns : conn'[d] = "open" => d \in registry' \cup evicted
      BY <1>2, <1>3 DEF RelayInv, SocketInv
  <2>3. ASSUME NEW k \in Keys, NEW d \in dist[k].sees PROVE conn'[d] \in Known
    <3>1. d \in Conns /\ conn[d] \in Known  BY DEF RelayInv, RelayType, SocketInv, DistRecs
    <3> QED BY <1>2, <1>3, <3>1
  <2> QED BY <1>1, <2>1, <2>2, <2>3 DEF SocketInv, relayVars
<1>6. FlushInv'
  <2>1. \A d \in Conns : conn'[d] \in {"none", "registering", "dying"} <=> conn[d] \in {"none", "registering", "dying"}
      BY <1>2, <1>3
  <2> QED BY <1>1, <2>1 DEF RelayInv, FlushInv, relayVars
<1> QED BY <1>1, <1>4, <1>5, <1>6 DEF RelayInv

\* The entries of the device expire.
LEMMA ExpireKeeps ==
    ASSUME RelayInv, Expire
    PROVE  RelayInv' /\ UNCHANGED relayVars
<1>1. /\ UNCHANGED relayVars /\ UNCHANGED <<conn, podOf, up>>
      /\ registry' = {} /\ evicted' = evicted \cup {c \in registry : conn[c] = "open"}
    BY DEF Expire
<1>2. faults' \in 0 .. MaxFaults  BY RelayAssumption DEF Expire, RelayInv, RelayType
<1> QED BY <1>1, <1>2 DEF RelayInv, RelayType, SocketInv, FlushInv, relayVars

\* The entry of a new socket is made and its replay begins.
LEMMA RegisterKeeps ==
    ASSUME RelayInv, NEW c \in Conns, Register(c)
    PROVE  RelayInv'
<1> USE DEF ConnStates, Known
<1>0. /\ conn \in [Conns -> ConnStates] /\ flush \in [Conns -> FlushRecs] /\ registry \subseteq Conns
      /\ registry' = registry \cup {c} /\ conn[c] \in {"registering", "dying"}
      /\ UNCHANGED <<podOf, up, queue, dist, heard, wiped, evicted, faults>>
    BY DEF RelayInv, RelayType, Register
<1>1. /\ conn' \in [Conns -> ConnStates] /\ conn'[c] \in {"open", "dead"}
      /\ \A d \in Conns \ {c} : conn'[d] = conn[d]
    BY <1>0 DEF Register
<1>2. /\ flush' \in [Conns -> FlushRecs] /\ flush'[c].at = "read"
      /\ flush'[c].todo = flush[c].todo /\ flush'[c].items = flush[c].items /\ flush'[c].all = flush[c].all
      /\ \A d \in Conns \ {c} : flush'[d] = flush[d]
    BY <1>0 DEF Register, FlushRecs, FlushAt
<1>3. RelayType'
  <2>1. \A d \in Conns : Len(flush'[d].items) <= MaxPerDevice  BY <1>2 DEF RelayInv, RelayType
  <2>2. \A d \in Conns : conn'[d] = "none" <=> podOf'[d] = NoPod
      BY <1>0, <1>1 DEF RelayInv, RelayType
  <2> QED BY <1>0, <1>1, <1>2, <2>1, <2>2 DEF RelayInv, RelayType
<1>4. SocketInv'
  <2>1. \A d \in registry' : conn'[d] \in Known /\ (conn'[d] = "gone" => podOf'[d] \notin up')
      BY <1>0, <1>1 DEF RelayInv, SocketInv
  <2>2. \A d \in Conns : conn'[d] = "open" => d \in registry' \cup evicted'
      BY <1>0, <1>1 DEF RelayInv, SocketInv
  <2>3. ASSUME NEW k \in Keys, NEW d \in dist[k].sees PROVE conn'[d] \in Known
    <3>1. d \in Conns /\ conn[d] \in Known  BY DEF RelayInv, RelayType, SocketInv, DistRecs
    <3> QED BY <1>1, <3>1
  <2> QED BY <1>0, <2>1, <2>2, <2>3 DEF SocketInv
<1>5. FlushInv'
  <2>1. flush[c].at = "off"  BY <1>0 DEF RelayInv, FlushInv
  <2>2. flush'[c].all = {} /\ flush'[c].items = <<>> /\ flush'[c].todo = {}
      BY <1>2, <2>1 DEF RelayInv, FlushInv
  <2>3. ASSUME NEW d \in Conns, d # c
        PROVE  /\ flush'[d].at = "off" <=> conn'[d] \in {"none", "registering", "dying"}
               /\ flush'[d].at \in {"off", "read"} => flush'[d].all = {} /\ flush'[d].items = <<>>
               /\ flush'[d].at \in {"off", "read", "clear", "next", "done"} => flush'[d].todo = {}
               /\ flush'[d].at = "route" => flush'[d].todo # {} /\ flush'[d].items # <<>>
               /\ flush'[d].at = "done" => flush'[d].items = <<>>
      BY <1>1, <1>2, <2>3 DEF RelayInv, FlushInv
  <2> QED BY <1>1, <1>2, <2>2, <2>3 DEF FlushInv
<1> QED BY <1>3, <1>4, <1>5 DEF RelayInv

\* A frame published to a pod is heard once by the live sockets there.
LEMMA PublishHeard ==
    ASSUME RelayType, NEW p, NEW k \in Keys, PublishToPod(p, k)
    PROVE  /\ heard' \in [Conns -> [Keys -> Nat]]
           /\ \A c \in Conns, j \in Keys :
                 heard'[c][j] = (IF j = k /\ podOf[c] = p /\ Live(c) THEN heard[c][j] + 1 ELSE heard[c][j])
<1>1. heard \in [Conns -> [Keys -> Nat]]  BY DEF RelayType
<1>2. heard' = [c \in Conns |-> IF podOf[c] = p /\ Live(c) THEN [heard[c] EXCEPT ![k] = @ + 1] ELSE heard[c]]
    BY DEF PublishToPod
<1> QED BY <1>1, <1>2

\* The pods of the device are pods.
LEMMA PodsFound ==
    ASSUME RelayInv
    PROVE  /\ PodsForDevice \in SUBSET Pods
           /\ registry = {} <=> PodsForDevice = {}
           /\ \A c \in registry : podOf[c] \in PodsForDevice
<1>1. \A c \in registry : c \in Conns /\ podOf[c] \in Pods
    BY DEF RelayInv, RelayType, SocketInv, Known
<1> QED BY <1>1 DEF PodsForDevice

\* The steps of a distribution.
LEMMA DistKeeps ==
    ASSUME RelayInv, NEW k \in Keys, Distribute(k) \/ RouteToDevice(k) \/ Enqueue(k)
    PROVE  RelayInv'
<1>0. /\ UNCHANGED <<connVars, flush, wiped, faults>> /\ dist \in [Keys -> DistRecs]
      /\ queue \in Seq(Keys) /\ Len(queue) <= MaxPerDevice /\ heard \in [Conns -> [Keys -> Nat]]
    BY DEF RelayInv, RelayType, Distribute, RouteToDevice, Enqueue
<1>1. CASE Distribute(k)
  <2> DEFINE r == [at     |-> IF registry = {} THEN "enqueue" ELSE "route",
                   todo   |-> PodsForDevice,
                   online |-> registry # {},
                   sees   |-> {c \in registry : conn[c] = "open"}]
  <2>1. r \in DistRecs  BY PodsFound DEF RelayInv, RelayType, DistRecs, DistAt
  <2>2. dist' = [dist EXCEPT ![k] = r] /\ UNCHANGED <<queue, heard>>  BY <1>1 DEF Distribute
  <2>3. r.sees \subseteq registry  OBVIOUS
  <2> HIDE DEF r
  <2>4. dist' \in [Keys -> DistRecs] /\ \A j \in Keys : dist'[j].sees \subseteq dist[j].sees \cup registry
      BY <1>0, <2>1, <2>2, <2>3
  <2> QED BY <1>0, <2>2, <2>4 DEF RelayInv, RelayType, SocketInv, FlushInv, connVars
<1>2. CASE RouteToDevice(k)
  <2>1. PICK p \in dist[k].todo :
           /\ PublishToPod(p, k)
           /\ dist' = [dist EXCEPT ![k].todo = @ \ {p}, ![k].at = IF dist[k].todo = {p} THEN "done" ELSE @]
      BY <1>2 DEF RouteToDevice
  <2>2. heard' \in [Conns -> [Keys -> Nat]]  BY <2>1, PublishHeard DEF RelayInv
  <2>3. dist' \in [Keys -> DistRecs] /\ \A j \in Keys : dist'[j].sees = dist[j].sees
    <3> DEFINE a == IF dist[k].todo = {p} THEN "done" ELSE dist[k].at
               r == [dist[k] EXCEPT !.todo = dist[k].todo \ {p}, !.at = a]
    <3>1. a \in DistAt /\ dist[k] \in DistRecs  BY <1>0 DEF DistRecs, DistAt
    <3>2. dist' = [dist EXCEPT ![k] = r]  BY <2>1
    <3> HIDE DEF a
    <3>3. r \in DistRecs /\ r.sees = dist[k].sees  BY <3>1 DEF DistRecs
    <3> HIDE DEF r
    <3> QED BY <1>0, <3>2, <3>3
  <2>4. queue' = queue  BY <1>2 DEF RouteToDevice
  <2> QED BY <1>0, <2>2, <2>3, <2>4 DEF RelayInv, RelayType, SocketInv, FlushInv, connVars
<1>3. CASE Enqueue(k)
  <2> DEFINE q == Append(queue, k)
  <2>1. queue' = (IF Len(q) > MaxPerDevice THEN Tail(q) ELSE q) /\ heard' = heard
      BY <1>3 DEF Enqueue
  <2>2. q \in Seq(Keys) /\ Len(q) = Len(queue) + 1 /\ q # <<>>  BY <1>0, ListAppend
  <2>3. Tail(q) \in Seq(Keys) /\ Len(Tail(q)) = Len(queue)  BY <1>0, <2>2, ListTail
  <2> HIDE DEF q
  <2>4. queue' \in Seq(Keys) /\ Len(queue') <= MaxPerDevice
      BY <1>0, <2>1, <2>2, <2>3, RelayAssumption
  <2>5. dist' \in [Keys -> DistRecs] /\ \A j \in Keys : dist'[j].sees = dist[j].sees
      BY <1>0, <1>3 DEF Enqueue, DistRecs, DistAt
  <2> QED BY <1>0, <2>1, <2>4, <2>5 DEF RelayInv, RelayType, SocketInv, FlushInv, connVars
<1> QED BY <1>1, <1>2, <1>3

\* Where a step of a replay leaves it.
ReplayStep(c) == ReadQueue(c) \/ ClearQueue(c) \/ NextItem(c) \/ ReplayToPod(c)

LEMMA ReplayMoves ==
    ASSUME RelayInv, NEW c \in Conns, ReplayStep(c)
    PROVE  /\ UNCHANGED <<connVars, dist, faults>>
           /\ flush' \in [Conns -> FlushRecs]
           /\ \A d \in Conns \ {c} : flush'[d] = flush[d]
           /\ \/ /\ ReadQueue(c) /\ flush[c].at = "read" /\ UNCHANGED <<queue, heard, wiped>>
                 /\ flush'[c].todo = {} /\ flush'[c].items = queue /\ flush'[c].all = ToSet(queue)
                 /\ flush'[c].at = (IF queue = <<>> THEN "done" ELSE "clear")
              \/ /\ ClearQueue(c) /\ flush[c].at = "clear" /\ flush'[c].at = "next" /\ queue' = <<>> /\ heard' = heard
                 /\ flush'[c].todo = flush[c].todo /\ flush'[c].items = flush[c].items /\ flush'[c].all = flush[c].all
                 /\ wiped' = wiped \cup (ToSet(queue) \ flush[c].all)
              \/ /\ NextItem(c) /\ flush[c].at = "next" /\ flush'[c].all = flush[c].all /\ UNCHANGED <<queue, heard, wiped>>
                 /\ \/ /\ flush[c].items = <<>> /\ flush'[c].items = <<>>
                       /\ flush'[c].at = "done" /\ flush'[c].todo = flush[c].todo
                    \/ /\ flush[c].items # <<>> /\ registry = {} /\ flush'[c].items = Tail(flush[c].items)
                       /\ flush'[c].at = "next" /\ flush'[c].todo = flush[c].todo
                    \/ /\ flush[c].items # <<>> /\ registry # {} /\ flush'[c].items = flush[c].items
                       /\ flush'[c].at = "route" /\ flush'[c].todo = PodsForDevice
              \/ /\ ReplayToPod(c) /\ flush[c].at = "route" /\ flush'[c].all = flush[c].all /\ UNCHANGED <<queue, wiped>>
                 /\ \E p \in flush[c].todo :
                       /\ PublishToPod(p, Head(flush[c].items))
                       /\ \/ /\ flush[c].todo = {p} /\ flush'[c].items = Tail(flush[c].items)
                             /\ flush'[c].at = "next" /\ flush'[c].todo = {}
                          \/ /\ flush[c].todo # {p} /\ flush'[c].items = flush[c].items
                             /\ flush'[c].at = "route" /\ flush'[c].todo = flush[c].todo \ {p}
<1>0. /\ flush \in [Conns -> FlushRecs] /\ queue \in Seq(Keys) /\ ToSet(queue) \subseteq Keys
      /\ UNCHANGED <<connVars, dist, faults>>
    BY ListKeys DEF RelayInv, RelayType, ReplayStep, ReadQueue, ClearQueue, NextItem, ReplayToPod
<1>f. /\ flush[c].at \in FlushAt /\ flush[c].todo \subseteq Pods /\ flush[c].items \in Seq(Keys)
      /\ flush[c].all \subseteq Keys
    BY <1>0 DEF FlushRecs
<1> USE DEF FlushAt
<1>1. CASE ReadQueue(c)
  <2> DEFINE r == [at |-> IF queue = <<>> THEN "done" ELSE "clear", todo |-> {}, items |-> queue, all |-> ToSet(queue)]
  <2>1. r \in FlushRecs  BY <1>0 DEF FlushRecs
  <2>2. flush' = [flush EXCEPT ![c] = r]  BY <1>1 DEF ReadQueue
  <2>3. flush' \in [Conns -> FlushRecs] /\ (\A d \in Conns \ {c} : flush'[d] = flush[d]) /\ flush'[c] = r
      BY <1>0, <2>1, <2>2
  <2> QED BY <1>0, <1>1, <2>3 DEF ReadQueue
<1>2. CASE ClearQueue(c)
  <2>1. flush' = [flush EXCEPT ![c].at = "next"]  BY <1>2 DEF ClearQueue
  <2>2. /\ flush' \in [Conns -> FlushRecs] /\ (\A d \in Conns \ {c} : flush'[d] = flush[d]) /\ flush'[c].at = "next"
        /\ flush'[c].todo = flush[c].todo /\ flush'[c].items = flush[c].items /\ flush'[c].all = flush[c].all
      BY <1>0, <2>1 DEF FlushRecs
  <2> QED BY <1>0, <1>2, <2>2 DEF ClearQueue
<1>3. CASE NextItem(c)
  <2>0. flush[c].at = "next" /\ UNCHANGED <<queue, heard, wiped>>  BY <1>3 DEF NextItem
  <2>1. CASE flush[c].items = <<>>
    <3>1. flush' = [flush EXCEPT ![c] = [flush[c] EXCEPT !.at = "done"]]  BY <1>3, <2>1 DEF NextItem
    <3>2. /\ flush' \in [Conns -> FlushRecs] /\ (\A d \in Conns \ {c} : flush'[d] = flush[d])
          /\ flush'[c].at = "done" /\ flush'[c].todo = flush[c].todo /\ flush'[c].items = flush[c].items
          /\ flush'[c].all = flush[c].all
        BY <1>0, <3>1 DEF FlushRecs
    <3> QED BY <1>0, <1>3, <2>0, <2>1, <3>2
  <2>2. CASE flush[c].items # <<>> /\ registry = {}
    <3> DEFINE ended == [flush[c] EXCEPT !.at = "done"]
               dropped == [flush[c] EXCEPT !.items = Tail(flush[c].items)]
               routed == [flush[c] EXCEPT !.at = "route", !.todo = PodsForDevice]
    <3>0. flush' = [flush EXCEPT ![c] =
                       IF flush[c].items = <<>> THEN ended ELSE IF registry = {} THEN dropped ELSE routed]
        BY <1>3 DEF NextItem
    <3> HIDE DEF ended, dropped, routed
    <3>1. flush' = [flush EXCEPT ![c] = dropped]  BY <2>2, <3>0
    <3> USE DEF dropped
    <3>2. Tail(flush[c].items) \in Seq(Keys)  BY <1>f, <2>2, ListTail
    <3>3. /\ flush' \in [Conns -> FlushRecs] /\ (\A d \in Conns \ {c} : flush'[d] = flush[d])
          /\ flush'[c].at = "next" /\ flush'[c].todo = flush[c].todo
          /\ flush'[c].items = Tail(flush[c].items) /\ flush'[c].all = flush[c].all
        BY <1>0, <2>0, <3>1, <3>2 DEF FlushRecs
    <3> QED BY <1>0, <1>3, <2>0, <2>2, <3>3
  <2>3. CASE flush[c].items # <<>> /\ registry # {}
    <3>1. flush' = [flush EXCEPT ![c] = [flush[c] EXCEPT !.at = "route", !.todo = PodsForDevice]]
        BY <1>3, <2>3 DEF NextItem
    <3>2. PodsForDevice \in SUBSET Pods  BY PodsFound
    <3>3. /\ flush' \in [Conns -> FlushRecs] /\ (\A d \in Conns \ {c} : flush'[d] = flush[d])
          /\ flush'[c].at = "route" /\ flush'[c].todo = PodsForDevice
          /\ flush'[c].items = flush[c].items /\ flush'[c].all = flush[c].all
        BY <1>0, <3>1, <3>2 DEF FlushRecs
    <3> QED BY <1>0, <1>3, <2>0, <2>3, <3>3
  <2> QED BY <2>1, <2>2, <2>3
<1>4. CASE ReplayToPod(c)
  <2>0. flush[c].at = "route" /\ UNCHANGED <<queue, wiped>> /\ flush[c].items # <<>>
      BY <1>4 DEF ReplayToPod, RelayInv, FlushInv
  <2>1. PICK p \in flush[c].todo :
           /\ PublishToPod(p, Head(flush[c].items))
           /\ flush' = [flush EXCEPT ![c] =
                 IF flush[c].todo = {p}
                 THEN [flush[c] EXCEPT !.at = "next", !.todo = {}, !.items = Tail(flush[c].items)]
                 ELSE [flush[c] EXCEPT !.todo = flush[c].todo \ {p}]]
      BY <1>4 DEF ReplayToPod
  <2> DEFINE last == [flush[c] EXCEPT !.at = "next", !.todo = {}, !.items = Tail(flush[c].items)]
             fewer == [flush[c] EXCEPT !.todo = flush[c].todo \ {p}]
  <2>4. flush' = [flush EXCEPT ![c] = IF flush[c].todo = {p} THEN last ELSE fewer]  BY <2>1
  <2> HIDE DEF last, fewer
  <2>2. CASE flush[c].todo = {p}
    <3>1. flush' = [flush EXCEPT ![c] = last]  BY <2>2, <2>4
    <3> USE DEF last
    <3>2. Tail(flush[c].items) \in Seq(Keys)  BY <1>f, <2>0, ListTail
    <3>3. /\ flush' \in [Conns -> FlushRecs] /\ (\A d \in Conns \ {c} : flush'[d] = flush[d])
          /\ flush'[c].at = "next" /\ flush'[c].todo = {}
          /\ flush'[c].items = Tail(flush[c].items) /\ flush'[c].all = flush[c].all
        BY <1>0, <3>1, <3>2 DEF FlushRecs
    <3> QED BY <1>0, <1>4, <2>0, <2>1, <2>2, <3>3
  <2>3. CASE flush[c].todo # {p}
    <3>1. flush' = [flush EXCEPT ![c] = fewer]  BY <2>3, <2>4
    <3> USE DEF fewer
    <3>2. /\ flush' \in [Conns -> FlushRecs] /\ (\A d \in Conns \ {c} : flush'[d] = flush[d])
          /\ flush'[c].at = "route" /\ flush'[c].todo = flush[c].todo \ {p}
          /\ flush'[c].items = flush[c].items /\ flush'[c].all = flush[c].all
        BY <1>0, <2>0, <3>1 DEF FlushRecs
    <3> QED BY <1>0, <1>4, <2>0, <2>1, <2>3, <3>2
  <2> QED BY <2>2, <2>3
<1> QED BY <1>1, <1>2, <1>3, <1>4 DEF ReplayStep

LEMMA ReplayKeeps ==
    ASSUME RelayInv, NEW c \in Conns, ReplayStep(c)
    PROVE  RelayInv'
<1>0. /\ UNCHANGED <<connVars, dist, faults>> /\ flush' \in [Conns -> FlushRecs]
      /\ \A d \in Conns \ {c} : flush'[d] = flush[d]
    BY ReplayMoves
<1>f. /\ flush \in [Conns -> FlushRecs] /\ queue \in Seq(Keys) /\ Len(queue) <= MaxPerDevice /\ wiped \subseteq Keys
      /\ ToSet(queue) \subseteq Keys /\ Len(flush[c].items) <= MaxPerDevice /\ flush[c].items \in Seq(Keys)
      /\ heard \in [Conns -> [Keys -> Nat]] /\ MaxPerDevice \in Nat \ {0}
    BY ListKeys, RelayAssumption DEF RelayInv, RelayType, FlushRecs
<1>g. flush[c].items # <<>> => Len(Tail(flush[c].items)) <= MaxPerDevice /\ Head(flush[c].items) \in Keys
  <2> SUFFICES ASSUME flush[c].items # <<>> PROVE Len(Tail(flush[c].items)) <= MaxPerDevice /\ Head(flush[c].items) \in Keys
      OBVIOUS
  <2>1. Len(Tail(flush[c].items)) = Len(flush[c].items) - 1 /\ Len(flush[c].items) \in Nat
      BY <1>f, ListTail
  <2>2. Head(flush[c].items) \in Keys  BY <1>f, ListKeys
  <2> QED BY <1>f, <2>1, <2>2
<1>1. queue' \in Seq(Keys) /\ Len(queue') <= MaxPerDevice /\ wiped' \subseteq Keys
  <2>1. <<>> \in Seq(Keys) /\ Len(<<>>) <= MaxPerDevice  BY <1>f
  <2> QED BY <1>f, <2>1, ReplayMoves
<1>r. flush[c].at = "route" => flush[c].items # <<>>  BY DEF RelayInv, FlushInv
<1>2. heard' \in [Conns -> [Keys -> Nat]]
  <2>1. CASE UNCHANGED heard  BY <1>f, <2>1
  <2>2. CASE flush[c].at = "route" /\ \E p \in flush[c].todo : PublishToPod(p, Head(flush[c].items))
      BY <1>g, <1>r, <2>2, PublishHeard DEF RelayInv
  <2> QED BY <2>1, <2>2, ReplayMoves
<1>3. Len(flush'[c].items) <= MaxPerDevice
  <2>1. \/ flush'[c].items \in {queue, flush[c].items}
        \/ flush'[c].items = Tail(flush[c].items) /\ flush[c].items # <<>>
      BY <1>r, ReplayMoves
  <2> QED BY <1>f, <1>g, <2>1
<1>4. RelayType'
  <2>1. \A d \in Conns : Len(flush'[d].items) <= MaxPerDevice  BY <1>0, <1>3 DEF RelayInv, RelayType
  <2> QED BY <1>0, <1>1, <1>2, <2>1 DEF RelayInv, RelayType, connVars
<1>5. SocketInv'  BY <1>0 DEF RelayInv, SocketInv, connVars
<1>6. FlushInv'
  <2>1. /\ flush[c].at \in {"off", "read", "clear", "next", "done"} => flush[c].todo = {}
        /\ flush[c].at \in {"read", "clear", "next", "route"} => conn[c] \notin {"none", "registering", "dying"}
      BY DEF RelayInv, FlushInv
  <2>2. /\ flush'[c].at \in {"clear", "next", "route", "done"} /\ flush[c].at \in {"read", "clear", "next", "route"}
        /\ flush'[c].at \in {"clear", "next", "done"} => flush'[c].todo = {}
        /\ flush'[c].at = "done" => flush'[c].items = <<>>
    <3>1. CASE flush[c].at = "read" /\ ReadQueue(c)
        BY <3>1, ReplayMoves DEF ClearQueue, NextItem, ReplayToPod
    <3>2. CASE flush[c].at = "clear" /\ ClearQueue(c)
        BY <2>1, <3>2, ReplayMoves DEF ReadQueue, NextItem, ReplayToPod
    <3>3. CASE flush[c].at = "next" /\ NextItem(c)
        BY <2>1, <3>3, ReplayMoves DEF ReadQueue, ClearQueue, ReplayToPod
    <3>4. CASE flush[c].at = "route" /\ ReplayToPod(c)
        BY <2>1, <3>4, ReplayMoves DEF ReadQueue, ClearQueue, NextItem
    <3> QED BY <3>1, <3>2, <3>3, <3>4, ReplayMoves
  <2>3. flush'[c].at = "route" => flush'[c].todo # {} /\ flush'[c].items # <<>>
    <3>1. registry # {} => PodsForDevice # {}  BY PodsFound
    <3>2. CASE flush[c].at = "next" /\ NextItem(c)
        BY <3>1, <3>2, ReplayMoves DEF ReadQueue, ClearQueue, ReplayToPod
    <3>3. CASE flush[c].at = "route" /\ ReplayToPod(c)
        BY <1>r, <3>3, ReplayMoves DEF ReadQueue, ClearQueue, NextItem
    <3> QED BY <3>2, <3>3, ReplayMoves
  <2>4. flush'[c].at # "off" /\ flush'[c].at # "read" /\ conn'[c] \notin {"none", "registering", "dying"}
      BY <1>0, <2>1, <2>2 DEF connVars
  <2>5. ASSUME NEW d \in Conns, d # c
        PROVE  /\ flush'[d].at = "off" <=> conn'[d] \in {"none", "registering", "dying"}
               /\ flush'[d].at \in {"off", "read"} => flush'[d].all = {} /\ flush'[d].items = <<>>
               /\ flush'[d].at \in {"off", "read", "clear", "next", "done"} => flush'[d].todo = {}
               /\ flush'[d].at = "route" => flush'[d].todo # {} /\ flush'[d].items # <<>>
               /\ flush'[d].at = "done" => flush'[d].items = <<>>
      BY <1>0, <2>5 DEF RelayInv, FlushInv, connVars
  <2> QED BY <2>2, <2>3, <2>4, <2>5 DEF FlushInv
<1> QED BY <1>4, <1>5, <1>6 DEF RelayInv

\* A pod dies with its sockets and replays.
LEMMA CrashKeeps ==
    ASSUME RelayInv, NEW p \in Pods, Crash(p)
    PROVE  /\ RelayInv' /\ UNCHANGED <<podOf, registry, queue, dist, heard, evicted, wiped>>
           /\ \A d \in Conns : /\ conn'[d] \in {conn[d], "gone"} /\ (conn'[d] = "none" <=> conn[d] = "none")
                               /\ flush'[d].todo = flush[d].todo /\ flush'[d].items = flush[d].items
                               /\ flush'[d].all = flush[d].all
<1> USE DEF ConnStates, Known
<1>0. /\ conn \in [Conns -> ConnStates] /\ flush \in [Conns -> FlushRecs] /\ p \in up
      /\ up' = up \ {p}
      /\ UNCHANGED <<podOf, registry, queue, dist, heard, evicted, wiped>>
      /\ NoPod \notin Pods /\ (\A d \in Conns : conn[d] = "none" <=> podOf[d] = NoPod)
    BY RelayAssumption DEF RelayInv, RelayType, Crash
<1>1. /\ conn' \in [Conns -> ConnStates]
      /\ \A d \in Conns : conn'[d] = (IF podOf[d] = p THEN "gone" ELSE conn[d])
    BY <1>0 DEF Crash
<1>2. \A d \in Conns : conn'[d] = "none" <=> conn[d] = "none"  BY <1>0, <1>1
<1>3. /\ flush' \in [Conns -> FlushRecs]
      /\ \A d \in Conns : /\ flush'[d].todo = flush[d].todo /\ flush'[d].items = flush[d].items
                          /\ flush'[d].all = flush[d].all
                          /\ flush'[d].at = (IF podOf[d] = p /\ flush[d].at # "done" THEN "dead" ELSE flush[d].at)
  <2> DEFINE ended(d) == [flush[d] EXCEPT !.at = "dead"]
  <2>1. \A d \in Conns : /\ ended(d) \in FlushRecs /\ ended(d).at = "dead" /\ ended(d).todo = flush[d].todo
                         /\ ended(d).items = flush[d].items /\ ended(d).all = flush[d].all
      BY <1>0 DEF FlushRecs, FlushAt
  <2>2. flush' = [d \in Conns |-> IF podOf[d] = p /\ flush[d].at # "done" THEN ended(d) ELSE flush[d]]
      BY DEF Crash
  <2> HIDE DEF ended
  <2>3. \A d \in Conns : flush[d] \in FlushRecs  BY <1>0
  <2> QED BY <2>1, <2>2, <2>3
<1>4. faults' \in 0 .. MaxFaults  BY RelayAssumption DEF Crash, RelayInv, RelayType
<1>5. RelayType'  BY <1>0, <1>1, <1>2, <1>3, <1>4 DEF RelayInv, RelayType
<1>6. SocketInv'
  <2>1. \A d \in registry' : conn'[d] \in Known /\ (conn'[d] = "gone" => podOf'[d] \notin up')
      BY <1>0, <1>1 DEF RelayInv, RelayType, SocketInv
  <2>2. \A d \in Conns : conn'[d] = "open" => d \in registry' \cup evicted'
      BY <1>0, <1>1 DEF RelayInv, SocketInv
  <2>3. ASSUME NEW k \in Keys, NEW d \in dist[k].sees PROVE conn'[d] \in Known
    <3>1. d \in Conns /\ conn[d] \in Known  BY DEF RelayInv, RelayType, SocketInv, DistRecs
    <3> QED BY <1>1, <3>1
  <2> QED BY <1>0, <2>1, <2>2, <2>3 DEF SocketInv
<1>7. FlushInv'
  <2> SUFFICES ASSUME NEW d \in Conns
               PROVE  /\ flush'[d].at = "off" <=> conn'[d] \in {"none", "registering", "dying"}
                      /\ flush'[d].at \in {"off", "read"} => flush'[d].all = {} /\ flush'[d].items = <<>>
                      /\ flush'[d].at \in {"off", "read", "clear", "next", "done"} => flush'[d].todo = {}
                      /\ flush'[d].at = "route" => flush'[d].todo # {} /\ flush'[d].items # <<>>
                      /\ flush'[d].at = "done" => flush'[d].items = <<>>
      BY DEF FlushInv
  <2>1. CASE podOf[d] = p
    <3>1. flush'[d].at \in {"dead", "done"} /\ conn'[d] = "gone" /\ (flush'[d].at = "done" => flush[d].at = "done")
        BY <1>1, <1>3, <2>1
    <3> QED BY <1>3, <3>1 DEF RelayInv, FlushInv
  <2>2. CASE podOf[d] # p
    <3>1. flush'[d].at = flush[d].at /\ conn'[d] = conn[d]  BY <1>1, <1>3, <2>2
    <3> QED BY <1>3, <3>1 DEF RelayInv, FlushInv
  <2> QED BY <2>1, <2>2
<1>8. \A d \in Conns : conn'[d] \in {conn[d], "gone"}  BY <1>1
<1> QED BY <1>0, <1>2, <1>3, <1>5, <1>6, <1>7, <1>8 DEF RelayInv

\* What the steps of sockets, pods and entries leave of the keys.
RelaySocketStep ==
    \/ \E c \in Conns : ConnStep(c) \/ Register(c)
    \/ \E p \in Pods : Crash(p)
    \/ Expire

LEMMA SocketMoves ==
    ASSUME RelayInv, RelaySocketStep
    PROVE  /\ RelayInv' /\ UNCHANGED <<queue, dist, heard, wiped>> /\ evicted \subseteq evicted'
           /\ \A d \in Conns : /\ flush'[d].todo = flush[d].todo /\ flush'[d].items = flush[d].items
                               /\ flush'[d].all = flush[d].all
                               /\ conn[d] # "none" => podOf'[d] = podOf[d] /\ conn'[d] # "none"
                               /\ conn'[d] = "open" => conn[d] \in {"open", "registering"}
<1>0. conn \in [Conns -> ConnStates] /\ podOf \in [Conns -> Pods \cup {NoPod}] /\ flush \in [Conns -> FlushRecs]
    BY DEF RelayInv, RelayType
<1>1. ASSUME NEW c \in Conns, ConnStep(c)
      PROVE  /\ UNCHANGED evicted
             /\ \A d \in Conns : /\ conn[d] # "none" => podOf'[d] = podOf[d] /\ conn'[d] # "none"
                                 /\ conn'[d] = "open" => conn[d] \in {"open", "registering"}
  <2>1. UNCHANGED evicted
      BY <1>1 DEF ConnStep, Connect, Heartbeat, Vanish, Close, Sweep, Unregister
  <2>2. \A d \in Conns \ {c} : conn'[d] = conn[d] /\ podOf'[d] = podOf[d]
      BY <1>0, <1>1 DEF ConnStep, Connect, Heartbeat, Vanish, Close, Sweep, Unregister
  <2>3. /\ conn[c] # "none" => podOf'[c] = podOf[c] /\ conn'[c] # "none"
        /\ conn'[c] = "open" => conn[c] = "open"
      BY <1>0, <1>1 DEF ConnStep, Connect, Heartbeat, Vanish, Close, Sweep, Unregister, ConnStates, Live
  <2> QED BY <2>1, <2>2, <2>3
<1>2. CASE \E c \in Conns : ConnStep(c)  BY <1>1, <1>2, ConnKeeps DEF relayVars
<1>3. CASE \E c \in Conns : Register(c)
  <2>1. PICK c \in Conns : Register(c)  BY <1>3
  <2>2. /\ RelayInv' /\ UNCHANGED <<podOf, queue, dist, heard, wiped, evicted>>
        /\ conn[c] \in {"registering", "dying"}
      BY <2>1, RegisterKeeps DEF Register
  <2>3. \A d \in Conns : /\ flush'[d].todo = flush[d].todo /\ flush'[d].items = flush[d].items
                         /\ flush'[d].all = flush[d].all
      BY <1>0, <2>1 DEF Register, FlushRecs
  <2>4. /\ conn'[c] \in {"open", "dead"} /\ (conn'[c] = "open" => conn[c] = "registering")
        /\ \A d \in Conns \ {c} : conn'[d] = conn[d]
      BY <1>0, <2>1 DEF Register
  <2> QED BY <2>2, <2>3, <2>4
<1>4. CASE \E p \in Pods : Crash(p)
  <2>1. PICK p \in Pods : Crash(p)  BY <1>4
  <2>2. \A d \in Conns : conn'[d] = "open" => conn[d] = "open"  BY <2>1, CrashKeeps
  <2> QED BY <2>1, <2>2, CrashKeeps
<1>5. CASE Expire  BY <1>5, ExpireKeeps DEF Expire, relayVars
<1> QED BY <1>2, <1>3, <1>4, <1>5 DEF RelaySocketStep

\* Where a step of a distribution leaves it.
DistStep(k) == Distribute(k) \/ RouteToDevice(k) \/ Enqueue(k)

LEMMA DistMoves ==
    ASSUME RelayInv, NEW k \in Keys, DistStep(k)
    PROVE  /\ RelayInv' /\ UNCHANGED <<connVars, flush, wiped, faults>>
           /\ \A j \in Keys \ {k} : dist'[j] = dist[j]
           /\ \/ /\ dist[k].at = "new" /\ UNCHANGED <<queue, heard>>
                 /\ dist'[k].at = (IF registry = {} THEN "enqueue" ELSE "route")
                 /\ dist'[k].todo = PodsForDevice /\ dist'[k].online = (registry # {})
                 /\ dist'[k].sees = {c \in registry : conn[c] = "open"}
              \/ /\ dist[k].at = "route" /\ queue' = queue
                 /\ dist'[k].online = dist[k].online /\ dist'[k].sees = dist[k].sees
                 /\ \E p \in dist[k].todo :
                       /\ PublishToPod(p, k) /\ dist'[k].todo = dist[k].todo \ {p}
                       /\ dist'[k].at = (IF dist[k].todo = {p} THEN "done" ELSE "route")
              \/ /\ dist[k].at = "enqueue" /\ dist'[k].at = "done" /\ heard' = heard
                 /\ dist'[k].todo = dist[k].todo
                 /\ dist'[k].online = dist[k].online /\ dist'[k].sees = dist[k].sees
                 /\ queue' = (IF Len(Append(queue, k)) > MaxPerDevice THEN Tail(Append(queue, k)) ELSE Append(queue, k))
<1>0. dist \in [Keys -> DistRecs]  BY DEF RelayInv, RelayType
<1>1. RelayInv'  BY DistKeeps DEF DistStep
<1>2. CASE Distribute(k)
  <2> DEFINE r == [at     |-> IF registry = {} THEN "enqueue" ELSE "route",
                   todo   |-> PodsForDevice,
                   online |-> registry # {},
                   sees   |-> {c \in registry : conn[c] = "open"}]
  <2>1. dist' = [dist EXCEPT ![k] = r] /\ dist[k].at = "new" /\ UNCHANGED <<queue, heard, connVars, flush, wiped, faults>>
      BY <1>2 DEF Distribute
  <2>2. dist'[k] = r /\ \A j \in Keys \ {k} : dist'[j] = dist[j]  BY <1>0, <2>1
  <2>3. /\ r.at = (IF registry = {} THEN "enqueue" ELSE "route") /\ r.todo = PodsForDevice
        /\ r.online = (registry # {}) /\ r.sees = {c \in registry : conn[c] = "open"}
      OBVIOUS
  <2> QED BY <1>1, <2>1, <2>2, <2>3
<1>3. CASE RouteToDevice(k)
  <2>1. PICK p \in dist[k].todo :
           /\ PublishToPod(p, k)
           /\ dist' = [dist EXCEPT ![k].todo = @ \ {p}, ![k].at = IF dist[k].todo = {p} THEN "done" ELSE @]
      BY <1>3 DEF RouteToDevice
  <2>2. dist[k].at = "route" /\ UNCHANGED <<queue, connVars, flush, wiped, faults>>
      BY <1>3 DEF RouteToDevice
  <2>3. /\ dist'[k].todo = dist[k].todo \ {p} /\ dist'[k].at = (IF dist[k].todo = {p} THEN "done" ELSE "route")
        /\ dist'[k].online = dist[k].online /\ dist'[k].sees = dist[k].sees
        /\ \A j \in Keys \ {k} : dist'[j] = dist[j]
      BY <1>0, <2>1, <2>2 DEF DistRecs
  <2> QED BY <1>1, <2>1, <2>2, <2>3
<1>4. CASE Enqueue(k)
  <2>1. /\ dist[k].at = "enqueue" /\ UNCHANGED <<connVars, flush, heard, wiped, faults>>
        /\ queue' = (IF Len(Append(queue, k)) > MaxPerDevice THEN Tail(Append(queue, k)) ELSE Append(queue, k))
      BY <1>4 DEF Enqueue
  <2>2. /\ dist'[k].at = "done" /\ dist'[k].todo = dist[k].todo
        /\ dist'[k].online = dist[k].online /\ dist'[k].sees = dist[k].sees
        /\ \A j \in Keys \ {k} : dist'[j] = dist[j]
      BY <1>0, <1>4 DEF Enqueue, DistRecs
  <2> QED BY <1>1, <2>1, <2>2
<1> QED BY <1>2, <1>3, <1>4 DEF DistStep

\* Every step is one of a socket, a distribution or a replay.
LEMMA RelaySteps ==
    Next => RelaySocketStep \/ (\E k \in Keys : DistStep(k)) \/ (\E c \in Conns : ReplayStep(c))
BY DEF Next, RelaySocketStep, ConnStep, DistStep, ReplayStep

LEMMA RelayStep ==
    RelayInv /\ [Next]_vars => RelayInv'
<1> SUFFICES ASSUME RelayInv, [Next]_vars PROVE RelayInv'  OBVIOUS
<1>1. CASE Next  BY <1>1, RelaySteps, SocketMoves, DistMoves, ReplayKeeps
<1>2. CASE UNCHANGED vars  BY <1>2 DEF vars, RelayInv, RelayType, SocketInv, FlushInv
<1> QED BY <1>1, <1>2

----------------------------------------------------------------------------
(* The queue: a key distributed while the device was away is in it once,    *)
(* was read by a replay, or was taken by a DEL.                             *)

\* A distribution routes while pods are left, and queues what it found nowhere.
DistInv ==
    \A k \in Keys :
        /\ dist[k].at = "route" <=> dist[k].todo # {}
        /\ dist[k].at \in {"new", "enqueue"} => ~dist[k].online
        /\ dist[k].at = "route" => dist[k].online

\* The keys distributed while the device was away.
Off == {k \in Keys : dist[k].at = "done" /\ ~dist[k].online}

\* The lists hold such keys only, each once.
QueueInv ==
    /\ Distinct(queue) /\ ToSet(queue) \subseteq Off
    /\ \A c \in Conns : Distinct(flush[c].items) /\ ToSet(flush[c].items) \subseteq flush[c].all /\ flush[c].all \subseteq Off
    /\ wiped \subseteq Off
    /\ IsFiniteSet(Off)

\* None is lost but to a DEL or a full list.
QueuedInv ==
    \A k \in Off : \/ k \in ToSet(queue) \cup wiped
                   \/ \E c \in Conns : k \in flush[c].all
                   \/ Cardinality(Off) > MaxPerDevice

LEMMA DistInvStep ==
    ASSUME RelayInv, DistInv, [Next]_vars
    PROVE  DistInv'
<1>1. CASE UNCHANGED dist  BY <1>1 DEF DistInv
<1>2. ASSUME NEW k \in Keys, DistStep(k)
      PROVE  DistInv'
  <2>1. registry = {} <=> PodsForDevice = {}  BY PodsFound
  <2>2. /\ dist'[k].at = "route" <=> dist'[k].todo # {}
        /\ dist'[k].at \in {"new", "enqueue"} => ~dist'[k].online
        /\ dist'[k].at = "route" => dist'[k].online
    <3>1. CASE dist[k].at = "new"  BY <1>2, <2>1, <3>1, DistMoves
    <3>2. CASE dist[k].at = "route"  BY <1>2, <3>2, DistMoves DEF DistInv
    <3>3. CASE dist[k].at = "enqueue"  BY <1>2, <3>3, DistMoves DEF DistInv
    <3> QED BY <1>2, <3>1, <3>2, <3>3, DistMoves
  <2>3. \A j \in Keys \ {k} : dist'[j] = dist[j]  BY <1>2, DistMoves
  <2> QED BY <2>2, <2>3 DEF DistInv
<1>3. RelaySocketStep => UNCHANGED dist  BY SocketMoves
<1>4. \A c \in Conns : ReplayStep(c) => UNCHANGED dist  BY ReplayMoves
<1> QED BY <1>1, <1>2, <1>3, <1>4, RelaySteps DEF vars

\* A step of a distribution adds a key to those distributed while away only by queueing it.
LEMMA OffGrows ==
    ASSUME RelayInv, DistInv, NEW k \in Keys, DistStep(k)
    PROVE  /\ dist[k].at # "enqueue" => Off' = Off
           /\ dist[k].at = "enqueue" => k \notin Off /\ Off' = Off \cup {k}
<1>1. \A j \in Keys \ {k} : j \in Off' <=> j \in Off  BY DistMoves DEF Off
<1>2. dist[k].at # "enqueue" => (k \in Off' <=> k \in Off)  BY DistMoves DEF Off, DistInv
<1>3. dist[k].at = "enqueue" => k \notin Off /\ k \in Off'  BY DistMoves DEF Off, DistInv
<1>4. Off \subseteq Keys /\ Off' \subseteq Keys  BY DEF Off
<1> QED BY <1>1, <1>2, <1>3, <1>4

\* RPUSH and LTRIM: the list has the new key, and the others unless it was full.
LEMMA QueueGrows ==
    ASSUME RelayInv, NEW k \in Keys, Distinct(queue), k \notin ToSet(queue),
           NEW q, q = IF Len(Append(queue, k)) > MaxPerDevice THEN Tail(Append(queue, k)) ELSE Append(queue, k)
    PROVE  /\ Distinct(q) /\ ToSet(q) \subseteq ToSet(queue) \cup {k}
           /\ \/ ToSet(q) = ToSet(queue) \cup {k}
              \/ /\ IsFiniteSet(ToSet(queue) \cup {k})
                 /\ Cardinality(ToSet(queue) \cup {k}) > MaxPerDevice
<1> DEFINE t == Append(queue, k)
<1>1. /\ t \in Seq(Keys) /\ t # <<>> /\ ToSet(t) = ToSet(queue) \cup {k} /\ Distinct(t)
    BY ListAppend DEF RelayInv, RelayType
<1>2. q = (IF Len(t) > MaxPerDevice THEN Tail(t) ELSE t)  OBVIOUS
<1> HIDE DEF t
<1>3. CASE Len(t) > MaxPerDevice
  <2>1. Distinct(Tail(t)) /\ ToSet(Tail(t)) \subseteq ToSet(t)  BY <1>1, ListTail
  <2>2. IsFiniteSet(ToSet(t)) /\ Cardinality(ToSet(t)) = Len(t)  BY <1>1, ListCount
  <2> QED BY <1>1, <1>2, <1>3, <2>1, <2>2
<1>4. CASE ~(Len(t) > MaxPerDevice)  BY <1>1, <1>2, <1>4
<1> QED BY <1>3, <1>4

LEMMA QueueStep ==
    ASSUME RelayInv, DistInv, QueueInv, QueuedInv, [Next]_vars
    PROVE  QueueInv' /\ QueuedInv'
<1>1. CASE RelaySocketStep \/ UNCHANGED vars
  <2>1. /\ UNCHANGED <<queue, dist, wiped>>
        /\ \A d \in Conns : flush'[d].items = flush[d].items /\ flush'[d].all = flush[d].all
      BY <1>1, SocketMoves DEF vars
  <2>2. Off' = Off  BY <2>1 DEF Off
  <2> QED BY <2>1, <2>2 DEF QueueInv, QueuedInv
<1>2. ASSUME NEW k \in Keys, DistStep(k)
      PROVE  QueueInv' /\ QueuedInv'
  <2>0. UNCHANGED <<flush, wiped>>  BY <1>2, DistMoves
  <2>1. CASE dist[k].at # "enqueue"
    <3>1. Off' = Off  BY <1>2, <2>1, OffGrows
    <3>2. queue' = queue  BY <1>2, <2>1, DistMoves
    <3> QED BY <2>0, <3>1, <3>2 DEF QueueInv, QueuedInv
  <2>2. CASE dist[k].at = "enqueue"
    <3>1. k \notin Off /\ Off' = Off \cup {k}  BY <1>2, <2>2, OffGrows
    <3>2. queue' = (IF Len(Append(queue, k)) > MaxPerDevice THEN Tail(Append(queue, k)) ELSE Append(queue, k))
        BY <1>2, <2>2, DistMoves
    <3>3. /\ Distinct(queue') /\ ToSet(queue') \subseteq ToSet(queue) \cup {k}
          /\ \/ ToSet(queue') = ToSet(queue) \cup {k}
             \/ /\ IsFiniteSet(ToSet(queue) \cup {k})
                /\ Cardinality(ToSet(queue) \cup {k}) > MaxPerDevice
        BY <3>1, <3>2, QueueGrows DEF QueueInv
    <3>4. IsFiniteSet(Off') /\ Cardinality(Off') \in Nat /\ Cardinality(Off') >= Cardinality(Off) /\ Cardinality(Off) \in Nat
      <4> DEFINE S == Off
                 T == Off'
      <4>1. IsFiniteSet(S) /\ k \notin S /\ T = S \cup {k}  BY <3>1 DEF QueueInv
      <4> HIDE DEF S, T
      <4>2. IsFiniteSet(T) /\ Cardinality(T) = Cardinality(S) + 1 /\ Cardinality(S) \in Nat
          BY <4>1, FS_AddElement, FS_CardinalityType
      <4>3. IsFiniteSet(T) /\ Cardinality(T) \in Nat /\ Cardinality(T) >= Cardinality(S) /\ Cardinality(S) \in Nat
          BY <4>2
      <4> QED BY <4>3 DEF S, T
    <3>5. ToSet(queue) \cup {k} \subseteq Off'  BY <3>1 DEF QueueInv
    <3>6. QueueInv'  BY <2>0, <3>1, <3>3, <3>4, <3>5 DEF QueueInv
    <3>7. MaxPerDevice \in Nat  BY RelayAssumption
    <3>8. CASE ToSet(queue') = ToSet(queue) \cup {k}
      <4> SUFFICES QueuedInv'  BY <3>6
      <4> SUFFICES ASSUME NEW j \in Off'
                   PROVE  \/ j \in ToSet(queue') \cup wiped
                          \/ \E c \in Conns : j \in flush[c].all
                          \/ Cardinality(Off') > MaxPerDevice
          BY <2>0 DEF QueuedInv
      <4>1. CASE j = k  BY <3>8, <4>1
      <4>2. CASE j \in Off /\ ~(Cardinality(Off) > MaxPerDevice)  BY <3>8, <4>2 DEF QueuedInv
      <4>3. CASE Cardinality(Off) > MaxPerDevice  BY <3>4, <3>7, <4>3
      <4> QED BY <3>1, <4>1, <4>2, <4>3
    <3>9. CASE IsFiniteSet(ToSet(queue) \cup {k}) /\ Cardinality(ToSet(queue) \cup {k}) > MaxPerDevice
      <4> DEFINE S == ToSet(queue) \cup {k}
                 T == Off'
      <4>1. Cardinality(S) <= Cardinality(T) /\ Cardinality(S) \in Nat /\ Cardinality(S) > MaxPerDevice
        <5> HIDE DEF T
        <5>1. S \subseteq T /\ IsFiniteSet(T) /\ IsFiniteSet(S) /\ Cardinality(S) > MaxPerDevice
            BY <3>4, <3>5, <3>9 DEF T
        <5> HIDE DEF S
        <5> QED BY <5>1, FS_Subset, FS_CardinalityType
      <4>2. Cardinality(Off') > MaxPerDevice  BY <3>4, <3>7, <4>1
      <4> QED BY <3>6, <4>2 DEF QueuedInv
    <3> QED BY <3>3, <3>6, <3>8, <3>9
  <2> QED BY <2>1, <2>2
<1>3. ASSUME NEW c \in Conns, ReplayStep(c)
      PROVE  QueueInv' /\ QueuedInv'
  <2>0. UNCHANGED dist /\ \A d \in Conns \ {c} : flush'[d] = flush[d]  BY <1>3, ReplayMoves
  <2>1. Off' = Off  BY <2>0 DEF Off
  <2>2. /\ flush \in [Conns -> FlushRecs] /\ queue \in Seq(Keys) /\ flush[c].items \in Seq(Keys)
      BY DEF RelayInv, RelayType, FlushRecs
  <2>3. /\ Distinct(<<>>) /\ ToSet(<<>>) = {}  BY DEF Distinct, ToSet
  <2>4. CASE ReadQueue(c)
    <3>1. /\ flush[c].at = "read" /\ flush'[c].items = queue /\ flush'[c].all = ToSet(queue) /\ UNCHANGED <<queue, wiped>>
        BY <1>3, <2>4, ReplayMoves DEF ReadQueue, ClearQueue, NextItem, ReplayToPod
    <3>2. flush[c].all = {}  BY <3>1 DEF RelayInv, FlushInv
    <3> QED BY <2>0, <2>1, <3>1, <3>2 DEF QueueInv, QueuedInv
  <2>5. CASE ClearQueue(c)
    <3>1. /\ flush'[c].items = flush[c].items /\ flush'[c].all = flush[c].all
          /\ queue' = <<>> /\ wiped' = wiped \cup (ToSet(queue) \ flush[c].all)
        BY <1>3, <2>5, ReplayMoves DEF ReadQueue, ClearQueue, NextItem, ReplayToPod
    <3> QED BY <2>0, <2>1, <2>3, <3>1 DEF QueueInv, QueuedInv
  <2>6. CASE NextItem(c) \/ ReplayToPod(c)
    <3>1. flush'[c].all = flush[c].all /\ UNCHANGED <<queue, wiped>>
        BY <1>3, <2>6, ReplayMoves DEF ReadQueue, ClearQueue, NextItem, ReplayToPod
    <3>r. flush[c].at = "route" => flush[c].items # <<>>  BY DEF RelayInv, FlushInv
    <3>2. \/ flush'[c].items = flush[c].items
          \/ flush'[c].items = Tail(flush[c].items) /\ flush[c].items # <<>>
        BY <1>3, <2>6, <3>r, ReplayMoves DEF ReadQueue, ClearQueue, NextItem, ReplayToPod
    <3>3. Distinct(flush'[c].items) /\ ToSet(flush'[c].items) \subseteq flush[c].all
        BY <2>2, <3>2, ListTail DEF QueueInv
    <3> QED BY <2>0, <2>1, <3>1, <3>3 DEF QueueInv, QueuedInv
  <2> QED BY <1>3, <2>4, <2>5, <2>6 DEF ReplayStep
<1> QED BY <1>1, <1>2, <1>3, RelaySteps

----------------------------------------------------------------------------
(* What an open socket has heard, or will                                   *)

\* A socket seen by the lookup has the key or its pod is still to come.
SeenInv ==
    \A c \in Conns, k \in Keys : conn[c] = "open" /\ c \in dist[k].sees =>
        heard[c][k] > 0 \/ podOf[c] \in dist[k].todo

\* Replay d has not yet published key k to pod p.
Waits(d, k, p) ==
    /\ k \in ToSet(flush[d].items)
    /\ k = Head(flush[d].items) /\ flush[d].todo # {} => p \in flush[d].todo

\* A socket whose entry did not expire has every key its own replay read, or will.
OwnInv ==
    \A c \in Conns : conn[c] = "open" /\ c \notin evicted =>
        \A k \in flush[c].all : heard[c][k] > 0 \/ Waits(c, k, podOf[c])

HearInv == SeenInv /\ OwnInv

\* A frame takes nothing back, and a live socket of its pod hears it.
LEMMA HeardGrows ==
    ASSUME RelayInv, NEW p, NEW k \in Keys, PublishToPod(p, k)
    PROVE  /\ \A c \in Conns, j \in Keys : heard[c][j] > 0 => heard'[c][j] > 0
           /\ \A c \in Conns : podOf[c] = p /\ conn[c] = "open" => heard'[c][k] > 0
<1>1. \A c \in Conns, j \in Keys : heard[c][j] \in Nat  BY DEF RelayInv, RelayType
<1>2. \A c \in Conns, j \in Keys :
          heard'[c][j] = (IF j = k /\ podOf[c] = p /\ Live(c) THEN heard[c][j] + 1 ELSE heard[c][j])
    BY PublishHeard DEF RelayInv
<1>3. \A c \in Conns, j \in Keys : heard[c][j] > 0 => heard'[c][j] > 0  BY <1>1, <1>2
<1>4. \A c \in Conns : podOf[c] = p /\ conn[c] = "open" => heard'[c][k] > 0  BY <1>1, <1>2 DEF Live
<1> QED BY <1>3, <1>4

LEMMA HearStep ==
    ASSUME RelayInv, DistInv, QueueInv, HearInv, [Next]_vars
    PROVE  HearInv'
<1>0. /\ \A d \in Conns : flush[d].items \in Seq(Keys) /\ flush[d].all \subseteq Keys /\ conn[d] \in ConnStates
      /\ queue \in Seq(Keys) /\ \A k \in Keys : dist[k].sees \subseteq Conns
    BY DEF RelayInv, RelayType, FlushRecs, DistRecs
<1>1. CASE UNCHANGED vars  BY <1>1 DEF vars, HearInv, SeenInv, OwnInv, Waits
<1>2. CASE RelaySocketStep
  <2>1. /\ UNCHANGED <<dist, heard>> /\ evicted \subseteq evicted'
        /\ \A d \in Conns : /\ flush'[d].todo = flush[d].todo /\ flush'[d].items = flush[d].items
                            /\ flush'[d].all = flush[d].all
                            /\ conn[d] # "none" => podOf'[d] = podOf[d] /\ conn'[d] # "none"
                            /\ conn'[d] = "open" => conn[d] \in {"open", "registering"}
      BY <1>2, SocketMoves
  <2>2. SeenInv'
    <3> SUFFICES ASSUME NEW c \in Conns, NEW k \in Keys, conn'[c] = "open", c \in dist[k].sees
                 PROVE  heard[c][k] > 0 \/ podOf'[c] \in dist[k].todo
        BY <2>1 DEF SeenInv
    <3>1. conn[c] = "open"  BY <2>1 DEF RelayInv, SocketInv, Known
    <3> QED BY <2>1, <3>1 DEF HearInv, SeenInv
  <2>3. OwnInv'
    <3> SUFFICES ASSUME NEW c \in Conns, conn'[c] = "open", c \notin evicted', NEW k \in flush'[c].all
                 PROVE  heard'[c][k] > 0 \/ Waits(c, k, podOf[c])'
        BY DEF OwnInv
    <3>1. k \in flush[c].all /\ c \notin evicted  BY <2>1
    <3>2. conn[c] = "open"
      <4>1. conn[c] = "registering" => flush[c].all = {}  BY DEF RelayInv, FlushInv
      <4> QED BY <2>1, <3>1, <4>1
    <3>3. heard[c][k] > 0 \/ Waits(c, k, podOf[c])  BY <3>1, <3>2 DEF HearInv, OwnInv
    <3> QED BY <2>1, <3>2, <3>3 DEF Waits
  <2> QED BY <2>2, <2>3 DEF HearInv
<1>3. ASSUME NEW k \in Keys, DistStep(k)
      PROVE  HearInv'
  <2>0. UNCHANGED <<conn, podOf, registry, evicted, flush>> /\ \A j \in Keys \ {k} : dist'[j] = dist[j]
      BY <1>3, DistMoves DEF connVars
  <2>1. CASE dist[k].at = "new"
    <3>1. heard' = heard /\ dist'[k].todo = PodsForDevice /\ dist'[k].sees \subseteq registry
        BY <1>3, <2>1, DistMoves
    <3>2. \A c \in dist'[k].sees : podOf[c] \in dist'[k].todo  BY <3>1, PodsFound
    <3>3. SeenInv'  BY <2>0, <3>1, <3>2 DEF HearInv, SeenInv
    <3> QED BY <2>0, <3>1, <3>3 DEF HearInv, OwnInv, Waits
  <2>2. CASE dist[k].at = "route"
    <3>1. PICK p \in dist[k].todo :
             PublishToPod(p, k) /\ dist'[k].todo = dist[k].todo \ {p} /\ dist'[k].sees = dist[k].sees
        BY <1>3, <2>2, DistMoves
    <3>2. /\ \A c \in Conns, j \in Keys : heard[c][j] > 0 => heard'[c][j] > 0
          /\ \A c \in Conns : podOf[c] = p /\ conn[c] = "open" => heard'[c][k] > 0
        BY <3>1, HeardGrows
    <3>3. SeenInv'
      <4> SUFFICES ASSUME NEW c \in Conns, NEW j \in Keys, conn[c] = "open", c \in dist'[j].sees
                   PROVE  heard'[c][j] > 0 \/ podOf[c] \in dist'[j].todo
          BY <2>0 DEF SeenInv
      <4>1. c \in dist[j].sees  BY <2>0, <3>1
      <4>2. heard[c][j] > 0 \/ podOf[c] \in dist[j].todo  BY <4>1 DEF HearInv, SeenInv
      <4> QED BY <2>0, <3>1, <3>2, <4>2
    <3>4. OwnInv'
      <4> SUFFICES ASSUME NEW c \in Conns, conn[c] = "open", c \notin evicted, NEW j \in flush[c].all
                   PROVE  heard'[c][j] > 0 \/ Waits(c, j, podOf[c])'
          BY <2>0 DEF OwnInv
      <4>1. heard[c][j] > 0 \/ Waits(c, j, podOf[c])  BY DEF HearInv, OwnInv
      <4> QED BY <1>0, <2>0, <3>2, <4>1 DEF Waits
    <3> QED BY <3>3, <3>4 DEF HearInv
  <2>3. CASE dist[k].at = "enqueue"
    <3>1. heard' = heard /\ dist'[k].todo = dist[k].todo /\ dist'[k].sees = dist[k].sees
        BY <1>3, <2>3, DistMoves
    <3>2. SeenInv'  BY <2>0, <3>1 DEF HearInv, SeenInv
    <3> QED BY <2>0, <3>1, <3>2 DEF HearInv, OwnInv, Waits
  <2> QED BY <1>3, <2>1, <2>2, <2>3, DistMoves
<1>4. ASSUME NEW c \in Conns, ReplayStep(c)
      PROVE  HearInv'
  <2>0. UNCHANGED <<conn, podOf, registry, evicted, dist>> /\ \A d \in Conns \ {c} : flush'[d] = flush[d]
      BY <1>4, ReplayMoves DEF connVars
  <2>h. \A d \in Conns, j \in Keys : heard[d][j] > 0 => heard'[d][j] > 0
    <3>1. CASE UNCHANGED heard  BY <3>1
    <3>2. CASE flush[c].at = "route" /\ \E p \in flush[c].todo : PublishToPod(p, Head(flush[c].items))
      <4>1. Head(flush[c].items) \in Keys  BY <1>0, <3>2, ListKeys DEF RelayInv, FlushInv
      <4> QED BY <3>2, <4>1, HeardGrows
    <3> QED BY <1>4, <3>1, <3>2, ReplayMoves
  <2>1. SeenInv'  BY <2>0, <2>h DEF HearInv, SeenInv
  <2>2. ASSUME conn[c] = "open", c \notin evicted, NEW k \in flush'[c].all
        PROVE  heard'[c][k] > 0 \/ Waits(c, k, podOf[c])'
    <3>1. c \in registry  BY <2>2 DEF RelayInv, SocketInv
    <3>2. CASE ReadQueue(c)
      <4>1. flush'[c].all = ToSet(flush'[c].items) /\ flush'[c].todo = {}
          BY <1>4, <3>2, ReplayMoves DEF ReadQueue, ClearQueue, NextItem, ReplayToPod
      <4> QED BY <2>2, <4>1 DEF Waits
    <3>o. CASE flush'[c].all = flush[c].all /\ ~ReadQueue(c)
      <4>0. k \in Keys /\ (heard[c][k] > 0 \/ Waits(c, k, podOf[c]))
          BY <1>0, <2>2, <3>o DEF HearInv, OwnInv
      <4>1. CASE ClearQueue(c)
        <5>1. flush'[c].items = flush[c].items /\ flush'[c].todo = flush[c].todo
            BY <1>4, <4>1, ReplayMoves DEF ReadQueue, ClearQueue, NextItem, ReplayToPod
        <5> QED BY <2>0, <2>h, <4>0, <5>1 DEF Waits
      <4>2. CASE NextItem(c)
        <5>1. \/ flush'[c].items = flush[c].items /\ flush'[c].todo \in {flush[c].todo, PodsForDevice}
              \/ registry = {}
            BY <1>4, <4>2, ReplayMoves DEF ReadQueue, ClearQueue, NextItem, ReplayToPod
        <5>2. podOf[c] \in PodsForDevice  BY <3>1, PodsFound
        <5> QED BY <2>0, <2>h, <3>1, <4>0, <5>1, <5>2 DEF Waits
      <4>3. CASE ReplayToPod(c)
        <5>1. PICK p \in flush[c].todo :
                 /\ PublishToPod(p, Head(flush[c].items)) /\ flush[c].items # <<>>
                 /\ \/ flush[c].todo = {p} /\ flush'[c].items = Tail(flush[c].items) /\ flush'[c].todo = {}
                    \/ flush'[c].items = flush[c].items /\ flush'[c].todo = flush[c].todo \ {p}
            BY <1>4, <4>3, ReplayMoves DEF RelayInv, FlushInv, ReadQueue, ClearQueue, NextItem, ReplayToPod
        <5>2. Head(flush[c].items) \in Keys  BY <1>0, <5>1, ListKeys
        <5>3. podOf[c] = p => heard'[c][Head(flush[c].items)] > 0  BY <2>2, <5>1, <5>2, HeardGrows
        <5>4. CASE heard[c][k] > 0  BY <2>h, <4>0, <5>4
        <5>5. CASE Waits(c, k, podOf[c]) /\ k # Head(flush[c].items)
          <6>1. /\ k \in ToSet(flush'[c].items)
                /\ flush'[c].items = flush[c].items \/ flush'[c].todo = {}
              BY <1>0, <5>1, <5>5, ListTail DEF Waits
          <6> QED BY <5>5, <6>1 DEF Waits
        <5>6. CASE Waits(c, k, podOf[c]) /\ k = Head(flush[c].items)
          <6>1. podOf[c] \in flush[c].todo  BY <5>1, <5>6 DEF Waits
          <6>2. CASE podOf[c] = p  BY <5>3, <5>6, <6>2
          <6>3. CASE podOf[c] # p
            <7>1. flush'[c].items = flush[c].items /\ podOf[c] \in flush'[c].todo
                BY <5>1, <6>1, <6>3
            <7> QED BY <2>0, <5>6, <7>1 DEF Waits
          <6> QED BY <6>2, <6>3
        <5> QED BY <4>0, <5>4, <5>5, <5>6
      <4> QED BY <1>4, <3>o, <4>1, <4>2, <4>3 DEF ReplayStep
    <3>3. ReadQueue(c) \/ flush'[c].all = flush[c].all  BY <1>4, ReplayMoves
    <3> QED BY <3>2, <3>o, <3>3
  <2>3. OwnInv'
    <3> SUFFICES ASSUME NEW d \in Conns, conn[d] = "open", d \notin evicted, NEW k \in flush'[d].all
                 PROVE  heard'[d][k] > 0 \/ Waits(d, k, podOf[d])'
        BY <2>0 DEF OwnInv
    <3>1. CASE d = c  BY <2>2, <3>1
    <3>2. CASE d # c
      <4>1. flush'[d] = flush[d] /\ k \in Keys  BY <1>0, <2>0, <3>2
      <4>2. heard[d][k] > 0 \/ Waits(d, k, podOf[d])  BY <4>1 DEF HearInv, OwnInv
      <4> QED BY <2>0, <2>h, <4>1, <4>2 DEF Waits
    <3> QED BY <3>1, <3>2
  <2> QED BY <2>1, <2>3 DEF HearInv
<1> QED BY <1>1, <1>2, <1>3, <1>4, RelaySteps

----------------------------------------------------------------------------
(* How often a socket hears a key: once from the distribution, or once from *)
(* each replay that read it                                                 *)

\* The replays that published key k to the pod of c, or will never.
Replayed(c, k) == {d \in Conns : k \in flush[d].all /\ ~Waits(d, k, podOf[c])}

\* The distribution published key k to the pod of c.
RoutedTo(c, k) == dist[k].at = "done" \/ (dist[k].at = "route" /\ podOf[c] \notin dist[k].todo)

CountInv ==
    \A c \in Conns, k \in Keys :
        /\ conn[c] = "none" => heard[c][k] = 0
        /\ k \in Off => heard[c][k] <= Cardinality(Replayed(c, k))
        /\ k \notin Off => heard[c][k] <= (IF RoutedTo(c, k) THEN 1 ELSE 0)

\* The replays of a key are finitely many.
LEMMA ReplaysCounted ==
    ASSUME NEW c, NEW k
    PROVE  /\ IsFiniteSet(Replayed(c, k)) /\ Cardinality(Replayed(c, k)) \in Nat
           /\ IsFiniteSet(Replayed(c, k)') /\ Cardinality(Replayed(c, k)') \in Nat
           /\ Replayed(c, k) \subseteq Replayed(c, k)' => Cardinality(Replayed(c, k)) <= Cardinality(Replayed(c, k)')
           /\ \A d : d \in Replayed(c, k)' \ Replayed(c, k) /\ Replayed(c, k) \subseteq Replayed(c, k)' =>
                 Cardinality(Replayed(c, k)) + 1 <= Cardinality(Replayed(c, k)')
<1> DEFINE S == Replayed(c, k)
           T == Replayed(c, k)'
<1>1. S \subseteq Conns /\ T \subseteq Conns /\ IsFiniteSet(Conns)  BY RelayAssumption DEF Replayed
<1> HIDE DEF S, T
<1>2. IsFiniteSet(S) /\ IsFiniteSet(T) /\ Cardinality(S) \in Nat /\ Cardinality(T) \in Nat
    BY <1>1, FS_Subset, FS_CardinalityType
<1>3. S \subseteq T => Cardinality(S) <= Cardinality(T)  BY <1>2, FS_Subset
<1>4. ASSUME NEW d, d \in T \ S, S \subseteq T
      PROVE  Cardinality(S) + 1 <= Cardinality(T)
  <2> DEFINE U == S \cup {d}
  <2>1. IsFiniteSet(U) /\ Cardinality(U) = Cardinality(S) + 1  BY <1>2, <1>4, FS_AddElement
  <2>2. U \subseteq T  BY <1>4
  <2> HIDE DEF U
  <2>3. Cardinality(U) <= Cardinality(T)  BY <1>2, <2>2, FS_Subset
  <2> QED BY <2>1, <2>3
<1>5. \A d : d \in T \ S /\ S \subseteq T => Cardinality(S) + 1 <= Cardinality(T)  BY <1>4
<1>6. /\ IsFiniteSet(S) /\ Cardinality(S) \in Nat /\ IsFiniteSet(T) /\ Cardinality(T) \in Nat
      /\ S \subseteq T => Cardinality(S) <= Cardinality(T)
      /\ \A d : d \in T \ S /\ S \subseteq T => Cardinality(S) + 1 <= Cardinality(T)
    BY <1>2, <1>3, <1>5
<1> QED BY <1>6 DEF S, T

LEMMA CountOfSockets ==
    ASSUME RelayInv, CountInv, RelaySocketStep
    PROVE  CountInv'
<1>1. /\ UNCHANGED <<dist, heard>>
      /\ \A d \in Conns : /\ flush'[d].todo = flush[d].todo /\ flush'[d].items = flush[d].items
                          /\ flush'[d].all = flush[d].all
                          /\ conn[d] # "none" => podOf'[d] = podOf[d] /\ conn'[d] # "none"
    BY SocketMoves
<1>2. Off' = Off  BY <1>1 DEF Off
<1> SUFFICES ASSUME NEW c \in Conns, NEW k \in Keys
             PROVE  /\ conn'[c] = "none" => heard[c][k] = 0
                    /\ k \in Off => heard[c][k] <= Cardinality(Replayed(c, k)')
                    /\ k \notin Off => heard[c][k] <= (IF RoutedTo(c, k)' THEN 1 ELSE 0)
    BY <1>1, <1>2 DEF CountInv
<1>3. CASE conn[c] = "none"
  <2>1. heard[c][k] = 0  BY <1>3 DEF CountInv
  <2>2. Cardinality(Replayed(c, k)') \in Nat  BY ReplaysCounted
  <2> QED BY <2>1, <2>2
<1>4. CASE conn[c] # "none"
  <2>1. podOf'[c] = podOf[c] /\ conn'[c] # "none"  BY <1>1, <1>4
  <2>2. Replayed(c, k)' = Replayed(c, k)  BY <1>1, <2>1 DEF Replayed, Waits
  <2>3. RoutedTo(c, k)' <=> RoutedTo(c, k)  BY <1>1, <2>1 DEF RoutedTo
  <2> QED BY <2>1, <2>2, <2>3 DEF CountInv
<1> QED BY <1>3, <1>4

LEMMA CountOfDistributions ==
    ASSUME RelayInv, DistInv, CountInv, NEW k \in Keys, DistStep(k)
    PROVE  CountInv'
<1>0. UNCHANGED <<conn, podOf, flush>> /\ \A j \in Keys \ {k} : dist'[j] = dist[j]
    BY DistMoves DEF connVars
<1>r. \A c \in Conns, j \in Keys : heard[c][j] \in Nat  BY DEF RelayInv, RelayType
<1>1. \A c \in Conns, j \in Keys : Replayed(c, j)' = Replayed(c, j) /\ (j # k => (RoutedTo(c, j)' <=> RoutedTo(c, j)))
    BY <1>0 DEF Replayed, Waits, RoutedTo
<1>2. CASE dist[k].at = "new" \/ dist[k].at = "enqueue"
  <2>1. heard' = heard  BY <1>2, DistMoves
  <2>2. \A c \in Conns : heard[c][k] = 0  BY <1>r, <1>2 DEF CountInv, Off, RoutedTo
  <2>3. \A j \in Keys \ {k} : j \in Off' <=> j \in Off  BY <1>0 DEF Off
  <2> SUFFICES ASSUME NEW c \in Conns, NEW j \in Keys
               PROVE  /\ conn[c] = "none" => heard[c][j] = 0
                      /\ j \in Off' => heard[c][j] <= Cardinality(Replayed(c, j))
                      /\ j \notin Off' => heard[c][j] <= (IF RoutedTo(c, j)' THEN 1 ELSE 0)
      BY <1>0, <1>1, <2>1 DEF CountInv
  <2>4. CASE j = k
    <3>1. Cardinality(Replayed(c, k)) \in Nat  BY ReplaysCounted
    <3> QED BY <2>2, <2>4, <3>1
  <2>5. CASE j # k  BY <1>1, <2>3, <2>5 DEF CountInv
  <2> QED BY <2>4, <2>5
<1>3. CASE dist[k].at = "route"
  <2>1. PICK p \in dist[k].todo :
           /\ PublishToPod(p, k) /\ dist'[k].todo = dist[k].todo \ {p}
           /\ dist'[k].at = (IF dist[k].todo = {p} THEN "done" ELSE "route")
      BY <1>3, DistMoves
  <2>2. Off' = Off /\ k \notin Off  BY <1>3, OffGrows DEF Off
  <2>3. \A c \in Conns, j \in Keys :
            heard'[c][j] = (IF j = k /\ podOf[c] = p /\ Live(c) THEN heard[c][j] + 1 ELSE heard[c][j])
      BY <2>1, PublishHeard DEF RelayInv
  <2> SUFFICES ASSUME NEW c \in Conns, NEW j \in Keys
               PROVE  /\ conn[c] = "none" => heard'[c][j] = 0
                      /\ j \in Off => heard'[c][j] <= Cardinality(Replayed(c, j))
                      /\ j \notin Off => heard'[c][j] <= (IF RoutedTo(c, j)' THEN 1 ELSE 0)
      BY <1>0, <1>1, <2>2 DEF CountInv
  <2>4. conn[c] = "none" => heard'[c][j] = 0  BY <2>3 DEF CountInv, Live
  <2>5. CASE j # k  BY <1>1, <2>3, <2>4, <2>5 DEF CountInv
  <2>6. CASE j = k
    <3>1. dist[k].at # "done"  BY <1>3
    <3>2. CASE podOf[c] = p
      <4>1. heard[c][k] = 0
        <5>1. ~RoutedTo(c, k)  BY <1>3, <2>1, <3>2 DEF RoutedTo
        <5>2. heard[c][k] <= 0  BY <2>2, <5>1 DEF CountInv
        <5> QED BY <1>r, <5>2
      <4>2. RoutedTo(c, k)'  BY <1>0, <2>1, <3>2 DEF RoutedTo
      <4> QED BY <2>2, <2>3, <2>4, <2>6, <4>1, <4>2
    <3>3. CASE podOf[c] # p
      <4>1. heard'[c][k] = heard[c][k]  BY <2>3, <3>3
      <4>2. RoutedTo(c, k) => RoutedTo(c, k)'  BY <1>0, <1>3, <2>1, <3>3 DEF RoutedTo
      <4>3. heard[c][k] <= (IF RoutedTo(c, k) THEN 1 ELSE 0)  BY <2>2 DEF CountInv
      <4> QED BY <1>r, <2>2, <2>4, <2>6, <4>1, <4>2, <4>3
    <3> QED BY <3>2, <3>3
  <2> QED BY <2>5, <2>6
<1> QED BY <1>2, <1>3, DistMoves

LEMMA CountOfReplays ==
    ASSUME RelayInv, QueueInv, CountInv, NEW c \in Conns, ReplayStep(c)
    PROVE  CountInv'
<1>0. UNCHANGED <<conn, podOf, dist>> /\ \A d \in Conns \ {c} : flush'[d] = flush[d]
    BY ReplayMoves DEF connVars
<1>r. /\ \A d \in Conns, j \in Keys : heard[d][j] \in Nat
      /\ flush[c].items \in Seq(Keys) /\ queue \in Seq(Keys)
    BY DEF RelayInv, RelayType, FlushRecs
<1>1. Off' = Off /\ \A d \in Conns, j \in Keys : RoutedTo(d, j)' <=> RoutedTo(d, j)
    BY <1>0 DEF Off, RoutedTo
\* Nothing that no longer waits waits again.
<1>2. \A d \in Conns, k \in Keys : Replayed(d, k) \subseteq Replayed(d, k)'
  <2> SUFFICES ASSUME NEW d \in Conns, NEW k \in Keys, k \in flush[c].all, ~Waits(c, k, podOf[d])
               PROVE  k \in flush'[c].all /\ ~Waits(c, k, podOf[d])'
      BY <1>0 DEF Replayed, Waits
  <2>1. ~ReadQueue(c) /\ flush'[c].all = flush[c].all
    <3>1. flush[c].at # "read"  BY DEF RelayInv, FlushInv
    <3> QED BY <3>1, ReplayMoves DEF ReadQueue
  <2>2. \/ flush'[c].items = flush[c].items /\ (flush'[c].todo = flush[c].todo \/ flush[c].todo = {})
        \/ flush[c].items # <<>> /\ flush'[c].items = Tail(flush[c].items) /\ flush'[c].todo = {} 
        \/ flush'[c].items = flush[c].items /\ flush'[c].todo # {} /\ flush'[c].todo \subseteq flush[c].todo
    <3>1. flush[c].at = "next" => flush[c].todo = {}  BY DEF RelayInv, FlushInv
    <3>2. flush[c].at = "route" => flush[c].items # <<>>  BY DEF RelayInv, FlushInv
    <3>3. CASE ClearQueue(c)  BY <3>3, ReplayMoves DEF ReadQueue, ClearQueue, NextItem, ReplayToPod
    <3>4. CASE NextItem(c)
        BY <3>1, <3>4, ReplayMoves DEF ReadQueue, ClearQueue, NextItem, ReplayToPod
    <3>5. CASE ReplayToPod(c)
      <4>1. PICK p \in flush[c].todo :
               \/ flush[c].todo = {p} /\ flush'[c].items = Tail(flush[c].items) /\ flush'[c].todo = {}
               \/ flush[c].todo # {p} /\ flush'[c].items = flush[c].items /\ flush'[c].todo = flush[c].todo \ {p}
          BY <3>5, ReplayMoves DEF ReadQueue, ClearQueue, NextItem, ReplayToPod
      <4>2. flush[c].items # <<>>  BY <3>2, <3>5 DEF ReplayToPod
      <4> QED BY <4>1, <4>2
    <3> QED BY <2>1, <3>3, <3>4, <3>5 DEF ReplayStep
  <2>3. CASE k \notin ToSet(flush[c].items)
    <3>1. k \notin ToSet(flush'[c].items)  BY <1>r, <2>2, <2>3, ListTail
    <3> QED BY <2>1, <3>1 DEF Waits
  <2>4. CASE k = Head(flush[c].items) /\ flush[c].todo # {} /\ podOf[d] \notin flush[c].todo
    <3>1. CASE flush[c].items # <<>> /\ flush'[c].items = Tail(flush[c].items)
      <4>1. k \notin ToSet(flush'[c].items)  BY <1>r, <2>4, <3>1, ListTail DEF QueueInv
      <4> QED BY <2>1, <4>1 DEF Waits
    <3>2. CASE flush'[c].items = flush[c].items /\ flush'[c].todo # {} /\ flush'[c].todo \subseteq flush[c].todo
        BY <1>0, <2>1, <2>4, <3>2 DEF Waits
    <3> QED BY <2>2, <2>4, <3>1, <3>2
  <2> QED BY <2>3, <2>4 DEF Waits
<1>3. CASE UNCHANGED heard
  <2> SUFFICES ASSUME NEW d \in Conns, NEW k \in Keys
               PROVE  /\ conn[d] = "none" => heard[d][k] = 0
                      /\ k \in Off => heard[d][k] <= Cardinality(Replayed(d, k)')
                      /\ k \notin Off => heard[d][k] <= (IF RoutedTo(d, k)' THEN 1 ELSE 0)
      BY <1>0, <1>1, <1>3 DEF CountInv
  <2>1. /\ conn[d] = "none" => heard[d][k] = 0
        /\ k \in Off => heard[d][k] <= Cardinality(Replayed(d, k))
        /\ k \notin Off => heard[d][k] <= (IF RoutedTo(d, k)' THEN 1 ELSE 0)
      BY <1>1 DEF CountInv
  <2>2. /\ Cardinality(Replayed(d, k)) \in Nat /\ Cardinality(Replayed(d, k)') \in Nat
        /\ Cardinality(Replayed(d, k)) <= Cardinality(Replayed(d, k)')
      BY <1>2, ReplaysCounted
  <2> QED BY <1>r, <2>1, <2>2
<1>4. CASE flush[c].at = "route" /\ ReplayToPod(c)
  <2>1. PICK p \in flush[c].todo :
           /\ PublishToPod(p, Head(flush[c].items)) /\ flush'[c].all = flush[c].all
           /\ \/ flush'[c].items = Tail(flush[c].items) /\ flush'[c].todo = {}
              \/ /\ flush[c].todo # {p} /\ flush'[c].items = flush[c].items
                 /\ flush'[c].todo = flush[c].todo \ {p}
      BY <1>4, ReplayMoves DEF ReadQueue, ClearQueue, NextItem
  <2>i. flush[c].items # <<>> /\ Head(flush[c].items) \in Keys /\ Head(flush[c].items) \in ToSet(flush[c].items)
      BY <1>r, <1>4, ListKeys DEF RelayInv, FlushInv
  <2>h. PICK h \in Keys : h = Head(flush[c].items)  BY <2>i
  <2>2. flush[c].items # <<>> /\ h \in ToSet(flush[c].items)  BY <2>h, <2>i
  <2>3. h \in Off /\ h \in flush[c].all  BY <2>2 DEF QueueInv
  <2>4. \A d \in Conns, k \in Keys :
            heard'[d][k] = (IF k = h /\ podOf[d] = p /\ Live(d) THEN heard[d][k] + 1 ELSE heard[d][k])
      BY <2>1, <2>h, PublishHeard DEF RelayInv
  <2>5. ASSUME NEW d \in Conns, podOf[d] = p
        PROVE  c \in Replayed(d, h)' \ Replayed(d, h)
    <3>1. Waits(c, h, podOf[d])  BY <2>1, <2>2, <2>5 DEF Waits
    <3>2. ~Waits(c, h, podOf[d])'
      <4>1. CASE flush'[c].items = Tail(flush[c].items)
        <5>1. h \notin ToSet(flush'[c].items)  BY <1>r, <2>2, <2>h, <4>1, ListTail DEF QueueInv
        <5> QED BY <5>1 DEF Waits
      <4>2. CASE flush[c].todo # {p} /\ flush'[c].items = flush[c].items /\ flush'[c].todo = flush[c].todo \ {p}
        <5>1. flush'[c].todo # {} /\ podOf'[d] \notin flush'[c].todo /\ h = Head(flush'[c].items)
            BY <1>0, <2>1, <2>5, <2>h, <4>2
        <5> QED BY <1>0, <5>1 DEF Waits
      <4> QED BY <2>1, <4>1, <4>2
    <3> QED BY <1>0, <2>1, <2>3, <3>1, <3>2 DEF Replayed
  <2> SUFFICES ASSUME NEW d \in Conns, NEW k \in Keys
               PROVE  /\ conn[d] = "none" => heard'[d][k] = 0
                      /\ k \in Off => heard'[d][k] <= Cardinality(Replayed(d, k)')
                      /\ k \notin Off => heard'[d][k] <= (IF RoutedTo(d, k)' THEN 1 ELSE 0)
      BY <1>0, <1>1 DEF CountInv
  <2>6. /\ conn[d] = "none" => heard[d][k] = 0
        /\ k \in Off => heard[d][k] <= Cardinality(Replayed(d, k))
        /\ k \notin Off => heard[d][k] <= (IF RoutedTo(d, k)' THEN 1 ELSE 0)
      BY <1>1 DEF CountInv
  <2>7. /\ Cardinality(Replayed(d, k)) \in Nat /\ Cardinality(Replayed(d, k)') \in Nat
        /\ Cardinality(Replayed(d, k)) <= Cardinality(Replayed(d, k)')
      BY <1>2, ReplaysCounted
  <2>8. CASE heard'[d][k] = heard[d][k]  BY <1>r, <2>6, <2>7, <2>8
  <2>9. CASE k = h /\ podOf[d] = p /\ Live(d) /\ heard'[d][k] = heard[d][k] + 1
    <3>1. c \in Replayed(d, k)' \ Replayed(d, k)  BY <2>5, <2>9
    <3>2. Cardinality(Replayed(d, k)) + 1 <= Cardinality(Replayed(d, k)')
        BY <1>2, <3>1, ReplaysCounted
    <3>3. k \in Off /\ conn[d] # "none"  BY <2>3, <2>9 DEF Live
    <3> QED BY <1>r, <2>6, <2>7, <2>9, <3>2, <3>3
  <2> QED BY <2>4, <2>8, <2>9
<1> QED BY <1>3, <1>4, ReplayMoves

----------------------------------------------------------------------------
(* The theorems, for a device for which the keys of q waited at first       *)

\* What a queue holds: keys, each once, no more than its bound.
Waiting(q) == q \in Seq(Keys) /\ Len(q) <= MaxPerDevice /\ Distinct(q)

SpecWith(q) == InitWith(q) /\ [][Next]_vars

KeysInv == RelayInv /\ DistInv /\ QueueInv /\ QueuedInv /\ HearInv /\ CountInv

LEMMA InitKeys ==
    ASSUME NEW q, Waiting(q), InitWith(q)
    PROVE  KeysInv
<1>0. /\ q \in Seq(Keys) /\ Distinct(q) /\ Len(q) <= MaxPerDevice /\ queue = q
      /\ ToSet(q) \subseteq Keys /\ IsFiniteSet(ToSet(q))
      /\ MaxFaults \in Nat /\ NoPod \notin Pods /\ MaxPerDevice \in Nat
    BY ListKeys, ListCount, RelayAssumption DEF Waiting, InitWith
<1>1. /\ \A c \in Conns : conn[c] = "none" /\ podOf[c] = NoPod
      /\ up = Pods /\ registry = {} /\ evicted = {} /\ wiped = {} /\ faults = 0
      /\ conn \in [Conns -> ConnStates] /\ podOf \in [Conns -> Pods \cup {NoPod}]
    BY DEF InitWith, ConnStates
<1>2. /\ \A c \in Conns : flush[c].at = "off" /\ flush[c].todo = {} /\ flush[c].items = <<>> /\ flush[c].all = {}
      /\ flush \in [Conns -> FlushRecs]
    BY DEF InitWith, NoFlush, FlushRecs, FlushAt
<1>3. /\ \A k \in Keys : /\ dist[k].at = (IF k \in ToSet(q) THEN "done" ELSE "new")
                         /\ dist[k].todo = {} /\ dist[k].online = FALSE /\ dist[k].sees = {}
      /\ dist \in [Keys -> DistRecs]
  <2> DEFINE waiting == [NoDist EXCEPT !.at = "done"]
  <2>1. /\ waiting \in DistRecs /\ NoDist \in DistRecs /\ waiting.at = "done" /\ NoDist.at = "new"
        /\ waiting.todo = {} /\ waiting.online = FALSE /\ waiting.sees = {}
        /\ NoDist.todo = {} /\ NoDist.online = FALSE /\ NoDist.sees = {}
      BY DEF NoDist, DistRecs, DistAt
  <2>2. dist = [k \in Keys |-> IF k \in ToSet(q) THEN waiting ELSE NoDist]  BY DEF InitWith
  <2> HIDE DEF waiting
  <2> QED BY <2>1, <2>2
<1>4. /\ heard \in [Conns -> [Keys -> Nat]] /\ \A c \in Conns, k \in Keys : heard[c][k] = 0
    BY DEF InitWith
<1>5. Off = ToSet(q)  BY <1>0, <1>3 DEF Off
<1>6. RelayInv
  <2>1. RelayType
    <3>1. \A c \in Conns : Len(flush[c].items) <= MaxPerDevice  BY <1>0, <1>2
    <3> QED BY <1>0, <1>1, <1>2, <1>3, <1>4, <3>1 DEF RelayType
  <2>2. SocketInv  BY <1>1, <1>3 DEF SocketInv
  <2>3. FlushInv  BY <1>1, <1>2 DEF FlushInv
  <2> QED BY <2>1, <2>2, <2>3 DEF RelayInv
<1>7. DistInv  BY <1>3 DEF DistInv
<1>8. QueueInv /\ QueuedInv
  <2>1. Distinct(<<>>) /\ ToSet(<<>>) = {}  BY DEF Distinct, ToSet
  <2> QED BY <1>0, <1>1, <1>2, <1>5, <2>1 DEF QueueInv, QueuedInv
<1>9. HearInv  BY <1>1, <1>2 DEF HearInv, SeenInv, OwnInv
<1>10. CountInv
  <2> SUFFICES ASSUME NEW c \in Conns, NEW k \in Keys
               PROVE  /\ conn[c] = "none" => heard[c][k] = 0
                      /\ k \in Off => heard[c][k] <= Cardinality(Replayed(c, k))
                      /\ k \notin Off => heard[c][k] <= (IF RoutedTo(c, k) THEN 1 ELSE 0)
      BY DEF CountInv
  <2>1. heard[c][k] = 0 /\ Cardinality(Replayed(c, k)) \in Nat  BY <1>4, ReplaysCounted
  <2> QED BY <2>1
<1> QED BY <1>6, <1>7, <1>8, <1>9, <1>10 DEF KeysInv

LEMMA KeysStep ==
    KeysInv /\ [Next]_vars => KeysInv'
<1> SUFFICES ASSUME KeysInv, [Next]_vars PROVE KeysInv'  OBVIOUS
<1>1. RelayInv' /\ DistInv' /\ QueueInv' /\ QueuedInv' /\ HearInv'
    BY RelayStep, DistInvStep, QueueStep, HearStep DEF KeysInv
<1>2. CountInv'
  <2>1. CASE Next
    <3>1. CASE RelaySocketStep  BY <3>1, CountOfSockets DEF KeysInv
    <3>2. ASSUME NEW k \in Keys, DistStep(k) PROVE CountInv'
        BY <3>2, CountOfDistributions DEF KeysInv
    <3>3. ASSUME NEW c \in Conns, ReplayStep(c) PROVE CountInv'  BY <3>3, CountOfReplays DEF KeysInv
    <3> QED BY <2>1, <3>1, <3>2, <3>3, RelaySteps
  <2>2. CASE UNCHANGED vars  BY <2>2 DEF vars, KeysInv, CountInv, Off, RoutedTo, Replayed, Waits
  <2> QED BY <2>1, <2>2
<1> QED BY <1>1, <1>2 DEF KeysInv

LEMMA KeysAlways ==
    ASSUME NEW q, Waiting(q)
    PROVE  SpecWith(q) => []KeysInv
<1>1. InitWith(q) => KeysInv  BY InitKeys
<1> QED BY <1>1, KeysStep, PTL DEF SpecWith

\* A socket hears a key at most once from each replay that read it.
LEMMA HeardAtMost ==
    ASSUME KeysInv, NEW c \in Conns, NEW k \in Keys
    PROVE  /\ heard[c][k] \in 0 .. Cardinality(Conns)
           /\ heard[c][k] > 1 => heard[c][k] <= Cardinality({d \in Conns : k \in flush[d].all})
<1> DEFINE R == Replayed(c, k)
           S == {d \in Conns : k \in flush[d].all}
<1>1. heard[c][k] \in Nat  BY DEF KeysInv, RelayInv, RelayType
<1>2. /\ k \in Off => heard[c][k] <= Cardinality(R)
      /\ k \notin Off => heard[c][k] <= 1
    BY <1>1 DEF KeysInv, CountInv
<1>3. R \subseteq S /\ S \subseteq Conns /\ c \in Conns /\ IsFiniteSet(Conns)
    BY RelayAssumption DEF Replayed
<1> HIDE DEF R, S
<1>4. /\ Cardinality(R) <= Cardinality(S) /\ Cardinality(S) <= Cardinality(Conns) /\ Cardinality(R) \in Nat
      /\ Cardinality(S) \in Nat /\ Cardinality(Conns) \in Nat /\ Cardinality(Conns) # 0
  <2>1. IsFiniteSet(S) /\ IsFiniteSet(R)  BY <1>3, FS_Subset
  <2> QED BY <1>3, <2>1, FS_Subset, FS_CardinalityType, FS_EmptySet
<1>5. /\ heard[c][k] \in 0 .. Cardinality(Conns)
      /\ heard[c][k] > 1 => heard[c][k] <= Cardinality(S)
    BY <1>1, <1>2, <1>4
<1> QED BY <1>5 DEF S

\* Every variable has its type; what a socket hears of a key is bounded by the number of sockets
\* (skdm.service.ts, skdm-store.ts, ws-fabric.ts, connection-registry.ts).
THEOREM RelayTypeCorrect ==
    ASSUME NEW q, Waiting(q)
    PROVE  SpecWith(q) => []TypeOK
<1>1. KeysInv => TypeOK
  <2> SUFFICES ASSUME KeysInv PROVE TypeOK  OBVIOUS
  <2>1. heard \in [Conns -> [Keys -> Nat]] /\ \A c \in Conns, k \in Keys : heard[c][k] \in 0 .. Cardinality(Conns)
      BY HeardAtMost DEF KeysInv, RelayInv, RelayType
  <2>2. heard \in [Conns -> [Keys -> 0 .. Cardinality(Conns)]]  BY <2>1
  <2> QED BY <2>2 DEF KeysInv, RelayInv, RelayType, TypeOK, DistRecs, FlushRecs
<1> QED BY <1>1, KeysAlways, PTL

\* Whatever sockets come, go, lose their entry or die with their pod: one that is open when the
\* lookup finds it, and still open when the distribution is over, has the key, and one that kept
\* its entry has the keys its own replay read (skdm.service.ts:27-62).
THEOREM OpenSocketsGetTheirKeys ==
    ASSUME NEW q, Waiting(q)
    PROVE  SpecWith(q) => []OpenSocketGetsTheKey
<1>1. KeysInv => OpenSocketGetsTheKey
  <2> SUFFICES ASSUME KeysInv, NEW c \in Conns, conn[c] = "open", NEW k \in Keys
               PROVE  /\ dist[k].at = "done" /\ c \in dist[k].sees => heard[c][k] > 0
                      /\ flush[c].at = "done" /\ k \in flush[c].all /\ c \notin evicted => heard[c][k] > 0
      BY DEF OpenSocketGetsTheKey
  <2>1. dist[k].at = "done" => dist[k].todo = {}  BY DEF KeysInv, DistInv
  <2>2. flush[c].at = "done" => ~Waits(c, k, podOf[c])
      BY DEF KeysInv, RelayInv, FlushInv, Waits, ToSet
  <2> QED BY <2>1, <2>2 DEF KeysInv, HearInv, SeenInv, OwnInv
<1> QED BY <1>1, KeysAlways, PTL

\* A key distributed while the device had no entry is in the queue, was read by a replay or taken
\* by a DEL, or more keys came meanwhile than the list holds (skdm.service.ts:41, skdm-store.ts:20-32).
THEOREM KeysWaitForTheDevice ==
    ASSUME NEW q, Waiting(q)
    PROVE  SpecWith(q) => []QueuedUntilReplayed
<1>1. KeysInv => QueuedUntilReplayed  BY DEF KeysInv, QueuedInv, QueuedUntilReplayed, Off
<1> QED BY <1>1, KeysAlways, PTL

\* A socket hears a key again only if another replay read it too, and only the pod that crashed
\* leaves an entry behind (skdm-store.ts:28-32, connection-registry.ts:34-47).
THEOREM RelayRepeatsNothing ==
    ASSUME NEW q, Waiting(q)
    PROVE  SpecWith(q) => []RelayLeavesNoTrace
<1>1. KeysInv => HeardTwiceOnlyByTwoReplays
  <2> SUFFICES ASSUME KeysInv, NEW c \in Conns, NEW k \in Keys, heard[c][k] > 1
               PROVE  Cardinality({d \in Conns : k \in flush[d].all}) > 1
      BY DEF HeardTwiceOnlyByTwoReplays
  <2> DEFINE n == Cardinality({d \in Conns : k \in flush[d].all})
  <2>1. IsFiniteSet({d \in Conns : k \in flush[d].all})  BY RelayAssumption, FS_Subset
  <2>2. n \in Nat /\ heard[c][k] <= n /\ heard[c][k] \in Nat
      BY <2>1, HeardAtMost, FS_CardinalityType DEF KeysInv, RelayInv, RelayType
  <2> HIDE DEF n
  <2>3. n > 1  BY <2>2
  <2> QED BY <2>3 DEF n
<1>2. KeysInv => GhostsOnlyOfCrashedPods
    BY DEF KeysInv, RelayInv, SocketInv, GhostsOnlyOfCrashedPods
<1> QED BY <1>1, <1>2, KeysAlways, PTL DEF RelayLeavesNoTrace

\* The same for a device for which nothing waited: the specification.
THEOREM RelayFromNothing ==
    Spec => [](TypeOK /\ OpenSocketGetsTheKey /\ QueuedUntilReplayed /\ RelayLeavesNoTrace)
<1>1. Waiting(<<>>)
  <2>1. Len(<<>>) <= MaxPerDevice  BY RelayAssumption
  <2> QED BY <2>1 DEF Waiting, Distinct
<1>2. Spec => SpecWith(<<>>)  BY DEF Spec, Init, SpecWith
<1>3. SpecWith(<<>>) => []TypeOK  BY <1>1, RelayTypeCorrect
<1>4. SpecWith(<<>>) => []OpenSocketGetsTheKey  BY <1>1, OpenSocketsGetTheirKeys
<1>5. SpecWith(<<>>) => []QueuedUntilReplayed  BY <1>1, KeysWaitForTheDevice
<1>6. SpecWith(<<>>) => []RelayLeavesNoTrace  BY <1>1, RelayRepeatsNothing
<1> QED BY <1>2, <1>3, <1>4, <1>5, <1>6, PTL

----------------------------------------------------------------------------
(* Live delivery: the types                                                *)

\* All the steps of the fabric at once, what is sent to the sockets and the frames that come from
\* them; a behaviour of MCSkdmRelay takes the one or the other.
FabricNext == DeliveryNext \/ FrameStep
FabricSpec == TasksInit /\ FabricInit /\ [][FabricNext]_<<taskVars, fabricVars>>

\* What the handler of a frame may stand at.
FrameTasks ==
    {New, Failed}
    \cup [op : Frames, at : {"mayAct", "mayPublish", "send"}, late : BOOLEAN]
    \cup [op : Frames, at : {"over"}]

FabricTyped ==
    /\ FabricTypeOK
    /\ sendQueue \in [Sockets -> Seq(1..MaxSaid)]
    /\ fan.at # "idle" => fan.msg # 0
    /\ task \in [Tasks -> FrameTasks]
    /\ failures \in Nat

\* The steps that handle frames, and so are all that changes task.
LEMMA FrameTaskGoes ==
    ASSUME FabricTyped, NEW t \in Tasks, task[t].at \in {"mayAct", "mayPublish", "send"},
           NEW p \in {"mayAct", "mayPublish", "send"}, Goes(t, p)
    PROVE  /\ task' \in [Tasks -> FrameTasks]
           /\ task'[t].at = p /\ task'[t].op = task[t].op /\ task'[t].late = task[t].late
           /\ \A u \in Tasks \ {t} : task'[u] = task[u]
<1>1. task \in [Tasks -> FrameTasks] /\ task[t] \in FrameTasks  BY DEF FabricTyped
<1>2. task[t] \in [op : Frames, at : {"mayAct", "mayPublish", "send"}, late : BOOLEAN]
    BY <1>1 DEF FrameTasks, New, Failed
<1>3. [task[t] EXCEPT !.at = p] \in [op : Frames, at : {"mayAct", "mayPublish", "send"}, late : BOOLEAN]
    BY <1>2
<1>4. task' = [task EXCEPT ![t] = [task[t] EXCEPT !.at = p]]  BY DEF Goes
<1>5. task'[t] = [task[t] EXCEPT !.at = p] /\ \A u \in Tasks \ {t} : task'[u] = task[u]
    BY <1>1, <1>4
<1>6. task' \in [Tasks -> FrameTasks]  BY <1>1, <1>3, <1>4 DEF FrameTasks
<1> QED BY <1>2, <1>5, <1>6

LEMMA FrameTaskEnds ==
    ASSUME FabricTyped, NEW t \in Tasks, task[t].at \in {"mayAct", "mayPublish", "send"},
           Ends(t)
    PROVE  /\ task' \in [Tasks -> FrameTasks]
           /\ task'[t].at = "over" /\ task'[t].op = task[t].op
           /\ \A u \in Tasks \ {t} : task'[u] = task[u]
<1>1. task \in [Tasks -> FrameTasks] /\ task[t] \in FrameTasks  BY DEF FabricTyped
<1>2. task[t].op \in Frames  BY <1>1 DEF FrameTasks, New, Failed
<1>3. task' = [task EXCEPT ![t] = [op |-> task[t].op, at |-> "over"]]  BY DEF Ends
<1>4. [op |-> task[t].op, at |-> "over"] \in FrameTasks  BY <1>2 DEF FrameTasks
<1> QED BY <1>1, <1>3, <1>4

LEMMA FrameTaskFails ==
    ASSUME FabricTyped, NEW t \in Tasks, Fails(t)
    PROVE  /\ task' \in [Tasks -> FrameTasks] /\ failures' \in Nat /\ failures' > 0
           /\ task'[t] = Failed
           /\ \A u \in Tasks \ {t} : task'[u] = task[u]
<1>1. task \in [Tasks -> FrameTasks] /\ failures \in Nat  BY DEF FabricTyped
<1>2. task' = [task EXCEPT ![t] = Failed] /\ failures' = failures + 1  BY DEF Fails
<1>3. Failed \in FrameTasks  BY DEF FrameTasks
<1> QED BY <1>1, <1>2, <1>3

LEMMA FrameTaskBegins ==
    ASSUME FabricTyped, NEW t \in Tasks, NEW f \in Frames, NEW b \in BOOLEAN,
           Begins(t, [op |-> f, at |-> "mayAct", late |-> b])
    PROVE  /\ task' \in [Tasks -> FrameTasks]
           /\ task'[t].at = "mayAct" /\ task'[t].op = f /\ task'[t].late = b
           /\ \A u \in Tasks \ {t} : task'[u] = task[u]
<1>1. task \in [Tasks -> FrameTasks]  BY DEF FabricTyped
<1>2. task' = [task EXCEPT ![t] = [op |-> f, at |-> "mayAct", late |-> b]]  BY DEF Begins
<1>3. [op |-> f, at |-> "mayAct", late |-> b] \in FrameTasks  BY DEF FrameTasks
<1> QED BY <1>1, <1>2, <1>3

LEMMA FabricTypedInit == TasksInit /\ FabricInit => FabricTyped
<1> SUFFICES ASSUME TasksInit, FabricInit PROVE FabricTyped  OBVIOUS
<1>1. <<>> \in Seq(1..MaxSaid)  OBVIOUS
<1>2. task \in [Tasks -> FrameTasks] /\ failures \in Nat  BY DEF TasksInit, FrameTasks
<1>3. sendQueue \in [Sockets -> Seq(1..MaxSaid)] /\ \A s \in Sockets : sendQueue[s] = <<>>
    BY <1>1 DEF FabricInit
<1>4. fan \in [at : {"idle", "members", "pods", "publish"}, msg : 0..MaxSaid, pods : SUBSET Sockets]
      /\ fan.msg = 0 /\ fan.at = "idle"
    BY FabricAssumption DEF FabricInit, NoFan
<1>5. typed \in [last : Signals, apart : BOOLEAN] /\ shown \in Signals  BY DEF FabricInit, Signals
<1>6. FabricTypeOK
  <2>1. sock \in [Sockets -> {"none", "registering", "open", "dead", "closing", "leaving", "gone"}]
      BY DEF FabricInit
  <2>2. \A s \in Sockets : \A i \in DOMAIN sendQueue[s] : sendQueue[s][i] \in 1..MaxSaid  BY <1>3
  <2>3. said \in 0..MaxSaid /\ cursor \in 0..MaxSaid /\ tokens \in 0..Limit
      BY FabricAssumption DEF FabricInit
  <2>4. answer \in [Askers -> {"unasked", "cold", "awaits", "in", "out", "none"}]
        /\ refills \subseteq [for : SUBSET Askers, found : {"unread", "in", "out"}]
      BY DEF FabricInit
  <2> QED BY <1>4, <1>5, <2>1, <2>2, <2>3, <2>4 DEF FabricInit, FabricTypeOK
<1>7. fan.at # "idle" => fan.msg # 0  BY <1>4
<1> QED BY <1>2, <1>3, <1>6, <1>7 DEF FabricTyped

LEMMA PartsOfSeq ==
    ASSUME NEW S, NEW q \in Seq(S)
    PROVE  \A i \in DOMAIN q : q[i] \in S
    OBVIOUS

\* The queue of a socket, with what is added.
LEMMA QueueTyped ==
    ASSUME FabricTyped, NEW s \in Sockets, NEW e \in 1..MaxSaid
    PROVE  /\ Enqueued(s, e) \in Seq(1..MaxSaid)
           /\ {Enqueued(s, e)[i] : i \in DOMAIN Enqueued(s, e)} \subseteq 1..MaxSaid
           /\ e \in {Enqueued(s, e)[i] : i \in DOMAIN Enqueued(s, e)}
           /\ sendQueue[s] = <<>> => {Enqueued(s, e)[i] : i \in DOMAIN Enqueued(s, e)} = {e}
<1> DEFINE q == Enqueued(s, e)
<1>1. sendQueue[s] \in Seq(1..MaxSaid)  BY DEF FabricTyped
<1>2. q \in Seq(1..MaxSaid) /\ Len(q) = Len(sendQueue[s]) + 1 /\ q[Len(q)] = e /\ Len(sendQueue[s]) \in Nat
      /\ DOMAIN q = 1..Len(q)
    BY <1>1 DEF Enqueued
<1>3. Len(q) \in DOMAIN q /\ \A i \in DOMAIN q : q[i] \in 1..MaxSaid
  <2>1. Len(q) \in 1..Len(q)  BY <1>2
  <2>2. \A i \in 1..Len(q) : q[i] \in 1..MaxSaid  BY <1>2, PartsOfSeq
  <2> QED BY <1>2, <2>1, <2>2
<1>4. sendQueue[s] = <<>> => DOMAIN q = {1} /\ q[1] = e  BY <1>2
<1> HIDE DEF q
<1> QED BY <1>2, <1>3, <1>4 DEF q

\* What asking for the members does to the set, the answers and the refills under way.
LEMMA MembersTyped ==
    ASSUME FabricTyped, MembersStep
    PROVE  /\ UNCHANGED <<taskVars, beside, banned, tokens, typed, shown, forbidden>>
           /\ cachedSet' \in {"in", "out", "cold"}
           /\ answer' \in [Askers -> {"unasked", "cold", "awaits", "in", "out", "none"}]
           /\ refills' \subseteq [for : SUBSET Askers, found : {"unread", "in", "out"}]
<1>0. /\ cachedSet \in {"in", "out", "cold"} /\ banned \in BOOLEAN
      /\ answer \in [Askers -> {"unasked", "cold", "awaits", "in", "out", "none"}]
      /\ refills \subseteq [for : SUBSET Askers, found : {"unread", "in", "out"}]
    BY DEF FabricTyped, FabricTypeOK
<1>1. ASSUME NEW a \in Askers, Members(a)
      PROVE  cachedSet' = cachedSet /\ refills' = refills
             /\ answer' \in [Askers -> {"unasked", "cold", "awaits", "in", "out", "none"}]
    BY <1>0, <1>1 DEF Members
<1>2. ASSUME NEW a \in Askers, Refill(a)
      PROVE  /\ cachedSet' = cachedSet
             /\ answer' \in [Askers -> {"unasked", "cold", "awaits", "in", "out", "none"}]
             /\ refills' \subseteq [for : SUBSET Askers, found : {"unread", "in", "out"}]
    BY <1>0, <1>2 DEF Refill
<1>3. ASSUME NEW r \in refills, ReadRows(r)
      PROVE  /\ UNCHANGED <<cachedSet, answer>>
             /\ refills' \subseteq [for : SUBSET Askers, found : {"unread", "in", "out"}]
    BY <1>0, <1>3 DEF ReadRows
<1>4. ASSUME NEW r \in refills, NEW x \in {"cold", "in", "out", "none"}, Answers(r, x)
      PROVE  /\ answer' \in [Askers -> {"unasked", "cold", "awaits", "in", "out", "none"}]
             /\ refills' \subseteq [for : SUBSET Askers, found : {"unread", "in", "out"}]
    BY <1>0, <1>4 DEF Answers
<1>5. ASSUME NEW r \in refills, Seed(r)
      PROVE  cachedSet' \in {"in", "out", "cold"} /\ \E x \in {"cold", "in", "out", "none"} : Answers(r, x)
    BY <1>0, <1>5 DEF Seed
<1>6. ASSUME NEW r \in refills, RefillFails(r)
      PROVE  cachedSet' = cachedSet /\ \E x \in {"cold", "in", "out", "none"} : Answers(r, x)
    BY <1>6 DEF RefillFails
<1>7. UNCHANGED <<taskVars, beside, banned, tokens, typed, shown, forbidden>>
    BY DEF MembersStep, Members, Refill, ReadRows, Seed, RefillFails
<1> QED BY <1>0, <1>1, <1>2, <1>3, <1>4, <1>5, <1>6, <1>7 DEF MembersStep

LEMMA FabricTypedNext == FabricTyped /\ [FabricNext]_<<taskVars, fabricVars>> => FabricTyped'
<1> SUFFICES ASSUME FabricTyped, [FabricNext]_<<taskVars, fabricVars>>
             PROVE  FabricTyped'
    OBVIOUS
<1> USE FabricAssumption
<1>1. CASE UNCHANGED <<taskVars, fabricVars>>
    BY <1>1 DEF FabricTyped, FabricTypeOK, taskVars, fabricVars, saidVars, readVars, memberVars, inVars
<1>2. ASSUME NEW s \in Sockets, SocketStep(s)
      PROVE  FabricTyped'
  <2>1. UNCHANGED <<taskVars, saidVars, onPod, sendQueue, excused, memberVars, banned, typed, shown, forbidden>>
      BY <1>2 DEF SocketStep, OpenSocket, AddEntry, Greet, CatchUp, SweepSocket, LoseClient, Drain, Closed,
                  RemoveEntry, Ping, saidVars, inVars
  <2>2. /\ sock' \in [Sockets -> {"none", "registering", "open", "dead", "closing", "leaving", "gone"}]
        /\ unanswered' \subseteq Sockets /\ entry' \subseteq Sockets /\ caughtUp' \subseteq Sockets
        /\ tokens' \in 0..Limit
    <3>1. CASE OpenSocket(s)  BY <3>1 DEF OpenSocket, inVars, readVars, FabricTyped, FabricTypeOK
    <3>2. CASE AddEntry(s)  BY <3>2 DEF AddEntry, inVars, readVars, FabricTyped, FabricTypeOK
    <3>3. CASE Greet(s)  BY <3>3 DEF Greet, inVars, readVars, FabricTyped, FabricTypeOK
    <3>4. CASE CatchUp(s)  BY <3>4 DEF CatchUp, inVars, readVars, FabricTyped, FabricTypeOK
    <3>5. CASE SweepSocket(s)  BY <3>5 DEF SweepSocket, inVars, readVars, FabricTyped, FabricTypeOK
    <3>6. CASE LoseClient(s)  BY <3>6 DEF LoseClient, inVars, readVars, FabricTyped, FabricTypeOK
    <3>7. CASE Drain(s)  BY <3>7 DEF Drain, inVars, readVars, FabricTyped, FabricTypeOK
    <3>8. CASE Closed(s)  BY <3>8 DEF Closed, inVars, readVars, FabricTyped, FabricTypeOK
    <3>9. CASE RemoveEntry(s)  BY <3>9 DEF RemoveEntry, inVars, readVars, FabricTyped, FabricTypeOK
    <3>10. CASE Ping(s)  BY <3>10 DEF Ping, inVars, readVars, FabricTyped, FabricTypeOK
    <3> QED BY <1>2, <3>1, <3>2, <3>3, <3>4, <3>5, <3>6, <3>7, <3>8, <3>9, <3>10 DEF SocketStep
  <2>3. seen' \subseteq 1..MaxSaid /\ cursor' \in 0..MaxSaid /\ passed' \subseteq 1..MaxSaid
    <3>1. CASE OpenSocket(s)  BY <3>1 DEF OpenSocket, readVars, FabricTyped, FabricTypeOK
    <3>2. CASE AddEntry(s)  BY <3>2 DEF AddEntry, readVars, FabricTyped, FabricTypeOK
    <3>3. CASE Greet(s)  BY <3>3 DEF Greet, readVars, FabricTyped, FabricTypeOK
    <3>4. CASE CatchUp(s)
      <4>1. said \in 0..MaxSaid /\ stored \subseteq 1..said /\ storedLate \subseteq stored
            /\ seen \subseteq 1..MaxSaid /\ passed \subseteq 1..MaxSaid /\ cursor \in 0..MaxSaid
          BY DEF FabricTyped, FabricTypeOK
      <4>2. stored \subseteq 1..MaxSaid  BY <4>1, FabricAssumption
      <4>3. cursor' \in stored \cup {cursor} /\ seen' \subseteq seen \cup stored /\ passed' = passed \cup storedLate
          BY <3>4 DEF CatchUp, Unread
      <4> QED BY <4>1, <4>2, <4>3
    <3>5. CASE SweepSocket(s)  BY <3>5 DEF SweepSocket, readVars, FabricTyped, FabricTypeOK
    <3>6. CASE LoseClient(s)  BY <3>6 DEF LoseClient, readVars, FabricTyped, FabricTypeOK
    <3>7. CASE Drain(s)  BY <3>7 DEF Drain, readVars, FabricTyped, FabricTypeOK
    <3>8. CASE Closed(s)  BY <3>8 DEF Closed, readVars, FabricTyped, FabricTypeOK
    <3>9. CASE RemoveEntry(s)  BY <3>9 DEF RemoveEntry, readVars, FabricTyped, FabricTypeOK
    <3>10. CASE Ping(s)  BY <3>10 DEF Ping, readVars, FabricTyped, FabricTypeOK
    <3> QED BY <1>2, <3>1, <3>2, <3>3, <3>4, <3>5, <3>6, <3>7, <3>8, <3>9, <3>10 DEF SocketStep
  <2> QED BY <2>1, <2>2, <2>3 DEF FabricTyped, FabricTypeOK, taskVars, saidVars, memberVars
<1>3. ASSUME SaidStep \/ FanStep
      PROVE  FabricTyped'
  <2>1. /\ UNCHANGED <<sock, unanswered, readVars, onPod, sendQueue, seen, cachedSet, refills, banned, tokens, typed,
                       shown, forbidden>>
        /\ task' = task
      BY <1>3 DEF SaidStep, FanStep, Say, Store, TellSent, TakeSent, OnMessageSent, PodsFor, Routed, EntriesExpire, inVars, memberVars, saidVars,
                  taskVars
  <2>2. failures' \in Nat /\ entry' \subseteq Sockets
    <3>1. CASE EntriesExpire  BY <3>1 DEF EntriesExpire, FabricTyped
    <3>2. CASE SaidStep \/ OnMessageSent \/ PodsFor \/ Routed
      <4>1. UNCHANGED <<failures, entry>>
          BY <3>2 DEF SaidStep, Say, Store, TellSent, TakeSent, OnMessageSent, PodsFor, Routed, taskVars
      <4> QED BY <4>1 DEF FabricTyped, FabricTypeOK
    <3> QED BY <1>3, <3>1, <3>2 DEF FanStep
  <2>3. answer' \in [Askers -> {"unasked", "cold", "awaits", "in", "out", "none"}]
      BY <1>3 DEF SaidStep, FanStep, Say, Store, TellSent, TakeSent, OnMessageSent, PodsFor, Routed, EntriesExpire, inVars, memberVars, Heard,
                  FabricTyped, FabricTypeOK
  <2>4. said' \in 0..MaxSaid /\ stored' \subseteq 1..said' /\ storedLate' \subseteq stored' /\ told' \subseteq stored'
        /\ fanned' \subseteq told'
    <3>1. CASE Say  BY <3>1 DEF Say, FabricTyped, FabricTypeOK
    <3>2. CASE \E e \in 1..MaxSaid : Store(e) \/ TellSent(e) \/ TakeSent(e)
        BY <3>2 DEF Store, TellSent, TakeSent, FabricTyped, FabricTypeOK
    <3>3. CASE FanStep
        BY <3>3 DEF FanStep, OnMessageSent, PodsFor, Routed, EntriesExpire, saidVars, FabricTyped, FabricTypeOK
    <3> QED BY <1>3, <3>1, <3>2, <3>3 DEF SaidStep
  <2>5. fan' \in [at : {"idle", "members", "pods", "publish"}, msg : 0..MaxSaid, pods : SUBSET Sockets]
        /\ (fan'.at # "idle" => fan'.msg # 0)
    <3>0. /\ fan \in [at : {"idle", "members", "pods", "publish"}, msg : 0..MaxSaid, pods : SUBSET Sockets]
          /\ fan.at # "idle" => fan.msg # 0
          /\ entry \subseteq Sockets
        BY DEF FabricTyped, FabricTypeOK
    <3>1. CASE \E e \in 1..MaxSaid : TakeSent(e)
      <4>1. PICK e \in 1..MaxSaid : fan' = [fan EXCEPT !.at = "members", !.msg = e]
          BY <3>1 DEF TakeSent
      <4>2. e \in 0..MaxSaid /\ e # 0  BY FabricAssumption
      <4> QED BY <3>0, <4>1, <4>2
    <3>2. CASE Say \/ (\E e \in 1..MaxSaid : Store(e) \/ TellSent(e)) \/ EntriesExpire
      <4>1. fan' = fan  BY <3>2 DEF Say, Store, TellSent, EntriesExpire, saidVars
      <4> QED BY <3>0, <4>1
    <3>3. CASE OnMessageSent  BY <3>0, <3>3 DEF OnMessageSent
    <3>4. CASE PodsFor  BY <3>0, <3>4 DEF PodsFor
    <3>5. CASE Routed  BY <3>0, <3>5 DEF Routed
    <3> QED BY <1>3, <3>1, <3>2, <3>3, <3>4, <3>5 DEF SaidStep, FanStep
  <2>6. excused' \subseteq 1..MaxSaid
    <3>1. fan.at # "idle" => fan.msg \in 1..MaxSaid
        BY FabricAssumption DEF FabricTyped, FabricTypeOK
    <3>2. excused' = excused \/ (fan.at # "idle" /\ excused' = excused \cup {fan.msg})
        BY <1>3 DEF SaidStep, FanStep, Say, Store, TellSent, TakeSent, OnMessageSent, PodsFor, Routed, EntriesExpire
    <3> QED BY <3>1, <3>2 DEF FabricTyped, FabricTypeOK
  <2> QED BY <2>1, <2>2, <2>3, <2>4, <2>5, <2>6 DEF FabricTyped, FabricTypeOK, readVars
<1>4. ASSUME NEW s \in Sockets, RoutePod(s)
      PROVE  FabricTyped'
  <2>1. fan.msg \in 1..MaxSaid  BY <1>4 DEF RoutePod, FabricTyped, FabricTypeOK
  <2>2. onPod' \subseteq Sockets \X (1..MaxSaid)
      BY <1>4, <2>1 DEF RoutePod, FabricTyped, FabricTypeOK
  <2>3. fan' \in [at : {"idle", "members", "pods", "publish"}, msg : 0..MaxSaid, pods : SUBSET Sockets]
        /\ fan'.msg = fan.msg
      BY <1>4 DEF RoutePod, FabricTyped, FabricTypeOK
  <2>4. UNCHANGED <<taskVars, sock, unanswered, entry, readVars, said, stored, storedLate, told, fanned, sendQueue,
                    seen, excused, inVars>>
      BY <1>4 DEF RoutePod
  <2> QED BY <2>1, <2>2, <2>3, <2>4 DEF FabricTyped, FabricTypeOK, taskVars, inVars, readVars, memberVars
<1>5. ASSUME NEW s \in Sockets, NEW e \in 1..MaxSaid, DeliverFromPod(s, e)
      PROVE  FabricTyped'
  <2>1. /\ UNCHANGED <<taskVars, sock, unanswered, entry, readVars, saidVars, excused, inVars>>
        /\ onPod' = onPod \ {<<s, e>>}
      BY <1>5 DEF DeliverFromPod
  <2>2. <<>> \in Seq(1..MaxSaid)  OBVIOUS
  <2>3. sendQueue' \in [Sockets -> Seq(1..MaxSaid)]
      BY <1>5, <2>2, QueueTyped DEF DeliverFromPod, FabricTyped
  <2>4. seen' \subseteq 1..MaxSaid
      BY <1>5, QueueTyped DEF DeliverFromPod, FabricTyped, FabricTypeOK
  <2>5. \A r \in Sockets : \A i \in DOMAIN sendQueue'[r] : sendQueue'[r][i] \in 1..MaxSaid  BY <2>3
  <2> QED BY <2>1, <2>3, <2>4, <2>5 DEF FabricTyped, FabricTypeOK, taskVars, saidVars, readVars, memberVars, inVars
<1>6. ASSUME NEW t \in Tasks, NEW f \in Frames, OnInbound(t, f)
      PROVE  FabricTyped'
  <2>1. UNCHANGED <<failures, beside, memberVars, banned, shown, forbidden>>  BY <1>6 DEF OnInbound
  <2>2. task' \in [Tasks -> FrameTasks]  BY <1>6, FrameTaskBegins DEF OnInbound, NoMember
  <2>3. tokens' \in 0..Limit  BY <1>6 DEF OnInbound, FabricTyped, FabricTypeOK
  <2>4. typed' \in [last : Signals, apart : BOOLEAN]
      BY <1>6 DEF OnInbound, FabricTyped, FabricTypeOK, Frames, Signals
  <2> QED BY <2>1, <2>2, <2>3, <2>4 DEF FabricTyped, FabricTypeOK, beside, memberVars, saidVars, readVars
<1>7. ASSUME NEW t \in Tasks, MayAct(t) \/ MayPublish(t) \/ Relay(t)
      PROVE  FabricTyped'
  <2>1. UNCHANGED <<failures, beside, cachedSet, refills, banned, tokens>>
      BY <1>7 DEF MayAct, MayPublish, Relay, memberVars
  <2>2. task[t].at \in {"mayAct", "mayPublish", "send"}  BY <1>7 DEF MayAct, MayPublish, Relay, At
  <2>3. task' \in [Tasks -> FrameTasks]
      BY <1>7, <2>2, FrameTaskGoes, FrameTaskEnds DEF MayAct, MayPublish, Relay, Refused
  <2>4. task[t].op \in Frames /\ task[t].late \in BOOLEAN
      BY <2>2 DEF FabricTyped, FrameTasks, New, Failed
  <2>5. typed' \in [last : Signals, apart : BOOLEAN] /\ shown' \in Signals /\ forbidden' \in BOOLEAN
      BY <1>7, <2>4 DEF MayAct, MayPublish, Relay, Refused, FabricTyped, FabricTypeOK, Frames, Signals
  <2>6. answer' \in [Askers -> {"unasked", "cold", "awaits", "in", "out", "none"}]
      BY <1>7 DEF MayAct, MayPublish, Relay, Heard, memberVars, FabricTyped, FabricTypeOK
  <2> QED BY <2>1, <2>3, <2>5, <2>6 DEF FabricTyped, FabricTypeOK, beside, memberVars, saidVars, readVars
<1>8. ASSUME NEW t \in Tasks, FailFrame(t)
      PROVE  FabricTyped'
  <2>1. task' \in [Tasks -> FrameTasks] /\ failures' \in Nat  BY <1>8, FrameTaskFails DEF FailFrame
  <2> QED BY <1>8, <2>1 DEF FailFrame, FabricTyped, FabricTypeOK, beside, memberVars, saidVars, readVars
<1>9. ASSUME (\E f \in Frames : OverLimit(f)) \/ SecondPasses \/ Ban \/ ProjectRemoval \/ Evict
      PROVE  FabricTyped'
  <2>1. UNCHANGED <<taskVars, beside, answer, refills, shown, forbidden>>
      BY <1>9 DEF OverLimit, SecondPasses, Ban, ProjectRemoval, Evict, memberVars
  <2>2. typed' \in [last : Signals, apart : BOOLEAN]
    <3>1. CASE \E f \in Frames : OverLimit(f)
        BY <3>1 DEF OverLimit, FabricTyped, FabricTypeOK, Frames, Signals
    <3>2. CASE SecondPasses  BY <3>2 DEF SecondPasses, FabricTyped, FabricTypeOK, Frames, Signals
    <3>3. CASE Ban  BY <3>3 DEF Ban, FabricTyped, FabricTypeOK, Frames, Signals
    <3>4. CASE ProjectRemoval
        BY <3>4 DEF ProjectRemoval, FabricTyped, FabricTypeOK, Frames, Signals
    <3>5. CASE Evict  BY <3>5 DEF Evict, FabricTyped, FabricTypeOK, Frames, Signals
    <3> QED BY <1>9, <3>1, <3>2, <3>3, <3>4, <3>5
  <2>3. tokens' \in 0..Limit /\ cachedSet' \in {"in", "out", "cold"} /\ banned' \in BOOLEAN
    <3>1. CASE \E f \in Frames : OverLimit(f)
        BY <3>1 DEF OverLimit, memberVars, FabricTyped, FabricTypeOK
    <3>2. CASE SecondPasses  BY <3>2 DEF SecondPasses, memberVars, FabricTyped, FabricTypeOK
    <3>3. CASE Ban  BY <3>3 DEF Ban, memberVars, FabricTyped, FabricTypeOK
    <3>4. CASE ProjectRemoval  BY <3>4 DEF ProjectRemoval, memberVars, FabricTyped, FabricTypeOK
    <3>5. CASE Evict  BY <3>5 DEF Evict, memberVars, FabricTyped, FabricTypeOK
    <3> QED BY <1>9, <3>1, <3>2, <3>3, <3>4, <3>5
  <2> QED BY <2>1, <2>2, <2>3 DEF FabricTyped, FabricTypeOK, beside, memberVars, saidVars, readVars, taskVars
<1>10. CASE MembersStep
    BY <1>10, MembersTyped DEF FabricTyped, FabricTypeOK, beside, saidVars, readVars, taskVars
<1> QED
    BY <1>1, <1>2, <1>3, <1>4, <1>5, <1>6, <1>7, <1>8, <1>9, <1>10
    DEF FabricNext, DeliveryNext, FanoutStep, FrameStep

\* Every variable of the live delivery and of the frames keeps its type, for any sockets, messages and
\* calls; the queue of a socket holds messages only.
THEOREM FabricTypeCorrect == FabricSpec => []FabricTypeOK
<1>1. FabricTyped => FabricTypeOK  BY DEF FabricTyped
<1> QED BY <1>1, FabricTypedInit, FabricTypedNext, PTL DEF FabricSpec

----------------------------------------------------------------------------
(* Live delivery: what is routed gets there                                *)

\* The fan-out will still publish e to the pod of s, if it finds its entry.
OnItsWay(s, e) ==
    \/ <<s, e>> \in onPod
    \/ e = fan.msg /\ fan.at \in {"members", "pods"}
    \/ e = fan.msg /\ fan.at = "publish" /\ s \in fan.pods

\* A socket that has not closed holds nothing back; one that is open can be found, or its entry
\* expired; what was stored up to the cursor is known or was stored late; and a message that was taken
\* reaches a device that has caught up.
DeliveryInv ==
    /\ FabricTyped
    /\ \A s \in Sockets : sock[s] \notin {"closing", "leaving", "gone"} => sendQueue[s] = <<>>
    /\ \A s \in Sockets : sock[s] = "open" /\ s \notin entry => failures > 0
    /\ \A s \in caughtUp : sock[s] \notin {"none", "registering"}
    /\ \A e \in stored : e <= cursor => e \in seen \cup storedLate
    /\ \A s \in caughtUp, e \in fanned :
          sock[s] = "open" => e \in seen \cup excused \cup passed \/ OnItsWay(s, e)

LEMMA DeliveryInvInit == TasksInit /\ FabricInit => DeliveryInv
    BY FabricTypedInit DEF FabricInit, DeliveryInv

LEMMA DeliveryInvNext == DeliveryInv /\ [FabricNext]_<<taskVars, fabricVars>> => DeliveryInv'
<1> SUFFICES ASSUME DeliveryInv, [FabricNext]_<<taskVars, fabricVars>>
             PROVE  DeliveryInv'
    OBVIOUS
<1> USE FabricAssumption
<1>0. FabricTyped /\ FabricTyped'  BY FabricTypedNext DEF DeliveryInv
<1>1. CASE UNCHANGED <<taskVars, fabricVars>>
    BY <1>0, <1>1 DEF DeliveryInv, OnItsWay, taskVars, fabricVars, saidVars, readVars
<1>2. ASSUME NEW s \in Sockets, SocketStep(s)
      PROVE  DeliveryInv'
  <2>1. UNCHANGED <<taskVars, saidVars, onPod, sendQueue, excused>> /\ fan' = fan /\ fanned' = fanned /\ stored' = stored /\ storedLate' = storedLate
      BY <1>2 DEF SocketStep, OpenSocket, AddEntry, Greet, CatchUp, SweepSocket, LoseClient, Drain, Closed,
                  RemoveEntry, Ping, saidVars, inVars
  <2>2. \A r \in Sockets \ {s} :
           /\ sock'[r] = sock[r]
           /\ r \in entry' <=> r \in entry
           /\ r \in caughtUp' <=> r \in caughtUp
    <3>1. CASE OpenSocket(s)  BY <1>0, <3>1 DEF OpenSocket, readVars, FabricTyped, FabricTypeOK
    <3>2. CASE AddEntry(s)  BY <1>0, <3>2 DEF AddEntry, readVars, FabricTyped, FabricTypeOK
    <3>3. CASE Greet(s)  BY <1>0, <3>3 DEF Greet, readVars, FabricTyped, FabricTypeOK
    <3>4. CASE CatchUp(s)  BY <1>0, <3>4 DEF CatchUp, readVars, FabricTyped, FabricTypeOK
    <3>5. CASE SweepSocket(s)  BY <1>0, <3>5 DEF SweepSocket, readVars, FabricTyped, FabricTypeOK
    <3>6. CASE LoseClient(s)  BY <1>0, <3>6 DEF LoseClient, readVars, FabricTyped, FabricTypeOK
    <3>7. CASE Drain(s)  BY <1>0, <3>7 DEF Drain, readVars, FabricTyped, FabricTypeOK
    <3>8. CASE Closed(s)  BY <1>0, <3>8 DEF Closed, readVars, FabricTyped, FabricTypeOK
    <3>9. CASE RemoveEntry(s)  BY <1>0, <3>9 DEF RemoveEntry, readVars, FabricTyped, FabricTypeOK
    <3>10. CASE Ping(s)  BY <1>0, <3>10 DEF Ping, readVars, FabricTyped, FabricTypeOK
    <3> QED BY <1>2, <3>1, <3>2, <3>3, <3>4, <3>5, <3>6, <3>7, <3>8, <3>9, <3>10 DEF SocketStep
  <2>3. /\ seen \subseteq seen' /\ passed \subseteq passed'
        /\ \A e \in stored : e <= cursor' => e \in seen' \cup storedLate
        /\ s \in caughtUp' /\ s \notin caughtUp => \A e \in stored : e \in seen' \cup passed'
    <3>1. CASE CatchUp(s)
      <4>1. /\ seen' = seen \cup Unread /\ passed' = passed \cup storedLate /\ stored \subseteq Nat /\ cursor \in Nat
            /\ cursor' \in Nat
          BY <1>0, <3>1 DEF CatchUp, FabricTyped, FabricTypeOK
      <4>2. \A e \in stored : e \in seen' \cup storedLate  BY <4>1 DEF Unread, DeliveryInv
      <4> QED BY <4>1, <4>2
    <3>2. CASE ~CatchUp(s)
        BY <1>2, <3>2 DEF SocketStep, OpenSocket, AddEntry, Greet, SweepSocket, LoseClient, Drain, Closed,
                  RemoveEntry, Ping, readVars, DeliveryInv
    <3> QED BY <3>1, <3>2
  <2>4. /\ sock'[s] \notin {"closing", "leaving", "gone"} => sock[s] \notin {"closing", "leaving", "gone"}
        /\ sock'[s] = "open" /\ s \notin entry' => sock[s] = "open" /\ s \notin entry
        /\ s \in caughtUp' => sock'[s] \notin {"none", "registering"}
        /\ s \in caughtUp' /\ s \in caughtUp /\ sock'[s] = "open" => sock[s] = "open"
    <3>1. CASE OpenSocket(s)
        BY <1>0, <3>1 DEF OpenSocket, readVars, Registered, FabricTyped, FabricTypeOK, DeliveryInv
    <3>2. CASE AddEntry(s)
        BY <1>0, <3>2 DEF AddEntry, readVars, Registered, FabricTyped, FabricTypeOK, DeliveryInv
    <3>3. CASE Greet(s)
        BY <1>0, <3>3 DEF Greet, readVars, Registered, FabricTyped, FabricTypeOK, DeliveryInv
    <3>4. CASE CatchUp(s)
        BY <1>0, <3>4 DEF CatchUp, readVars, Registered, FabricTyped, FabricTypeOK, DeliveryInv
    <3>5. CASE SweepSocket(s)
        BY <1>0, <3>5 DEF SweepSocket, readVars, Registered, FabricTyped, FabricTypeOK, DeliveryInv
    <3>6. CASE LoseClient(s)
        BY <1>0, <3>6 DEF LoseClient, readVars, Registered, FabricTyped, FabricTypeOK, DeliveryInv
    <3>7. CASE Drain(s)
        BY <1>0, <3>7 DEF Drain, readVars, Registered, FabricTyped, FabricTypeOK, DeliveryInv
    <3>8. CASE Closed(s)
        BY <1>0, <3>8 DEF Closed, readVars, Registered, FabricTyped, FabricTypeOK, DeliveryInv
    <3>9. CASE RemoveEntry(s)
        BY <1>0, <3>9 DEF RemoveEntry, readVars, Registered, FabricTyped, FabricTypeOK, DeliveryInv
    <3>10. CASE Ping(s)
        BY <1>0, <3>10 DEF Ping, readVars, Registered, FabricTyped, FabricTypeOK, DeliveryInv
    <3> QED BY <1>2, <3>1, <3>2, <3>3, <3>4, <3>5, <3>6, <3>7, <3>8, <3>9, <3>10 DEF SocketStep
  <2>5. fanned \subseteq stored /\ fanned \subseteq Nat  BY <1>0 DEF FabricTyped, FabricTypeOK
  <2>6. \A r \in Sockets, e \in Nat : OnItsWay(r, e)' <=> OnItsWay(r, e)  BY <2>1 DEF OnItsWay
  <2>7. \A r \in Sockets : sock'[r] \notin {"closing", "leaving", "gone"} => sendQueue'[r] = <<>>
      BY <2>1, <2>2, <2>4 DEF DeliveryInv
  <2>8. \A r \in Sockets : sock'[r] = "open" /\ r \notin entry' => failures' > 0
      BY <2>1, <2>2, <2>4 DEF DeliveryInv, taskVars
  <2>9. \A r \in caughtUp' : sock'[r] \notin {"none", "registering"}
      BY <1>0, <2>2, <2>4 DEF DeliveryInv, FabricTyped, FabricTypeOK
  <2>10. ASSUME NEW r \in caughtUp', NEW e \in fanned', sock'[r] = "open"
         PROVE  e \in seen' \cup excused' \cup passed' \/ OnItsWay(r, e)'
    <3>1. r \in Sockets /\ e \in fanned /\ e \in stored /\ e \in Nat
        BY <1>0, <2>1, <2>5 DEF FabricTyped, FabricTypeOK
    <3>2. CASE r \in caughtUp
      <4>1. sock[r] = "open"  BY <2>2, <2>4, <2>10, <3>1, <3>2
      <4> QED BY <2>1, <2>3, <2>6, <3>1, <3>2, <4>1 DEF DeliveryInv
    <3>3. CASE r \notin caughtUp  BY <2>2, <2>3, <3>1, <3>3
    <3> QED BY <3>2, <3>3
  <2> QED BY <1>0, <2>1, <2>3, <2>7, <2>8, <2>9, <2>10 DEF DeliveryInv
<1>3. ASSUME SaidStep \/ FanStep
      PROVE  DeliveryInv'
  <2>1. UNCHANGED <<sock, caughtUp, cursor, passed, onPod, sendQueue, seen>> /\ excused \subseteq excused'
      BY <1>3 DEF SaidStep, FanStep, Say, Store, TellSent, TakeSent, OnMessageSent, PodsFor, Routed, EntriesExpire, inVars, saidVars, readVars,
                  taskVars
  <2>2. \A r \in Sockets : sock'[r] = "open" /\ r \notin entry' => failures' > 0
    <3>1. CASE EntriesExpire  BY <1>0, <3>1 DEF EntriesExpire, FabricTyped
    <3>2. CASE SaidStep \/ OnMessageSent \/ PodsFor \/ Routed
      <4>1. UNCHANGED <<failures, entry, sock>>
          BY <3>2 DEF SaidStep, Say, Store, TellSent, TakeSent, OnMessageSent, PodsFor, Routed, taskVars
      <4> QED BY <4>1 DEF DeliveryInv
    <3> QED BY <1>3, <3>1, <3>2 DEF FanStep
  <2>3. \A e \in stored' : e <= cursor => e \in seen \cup storedLate'
      BY <1>3 DEF SaidStep, FanStep, Say, Store, TellSent, TakeSent, OnMessageSent, PodsFor, Routed, EntriesExpire, saidVars, DeliveryInv
  <2>4. ASSUME NEW s \in caughtUp, NEW e \in fanned', sock[s] = "open"
        PROVE  e \in seen \cup excused' \cup passed \/ OnItsWay(s, e)'
    <3>1. s \in Sockets /\ e \in 1..MaxSaid
      <4>1. fanned' \subseteq 1..MaxSaid  BY <1>0 DEF FabricTyped, FabricTypeOK
      <4> QED BY <1>0, <4>1 DEF FabricTyped, FabricTypeOK
    <3>2. CASE e \notin fanned
      <4>1. PICK f \in 1..MaxSaid : TakeSent(f)
          BY <1>3, <3>2 DEF SaidStep, FanStep, Say, Store, TellSent, TakeSent, OnMessageSent, PodsFor, Routed, EntriesExpire, saidVars
      <4>2. f = e  BY <3>2, <4>1 DEF TakeSent
      <4>3. fan'.msg = e /\ fan'.at = "members"
          BY <1>0, <4>1, <4>2 DEF TakeSent, FabricTyped, FabricTypeOK
      <4> QED BY <4>3 DEF OnItsWay
    <3>3. CASE e \in fanned
      <4>1. e \in seen \cup excused \cup passed \/ OnItsWay(s, e)
          BY <2>4, <3>1, <3>3 DEF DeliveryInv
      <4>2. CASE Say \/ (\E f \in 1..MaxSaid : Store(f) \/ TellSent(f)) \/ EntriesExpire
        <5>1. fan' = fan  BY <4>2 DEF Say, Store, TellSent, EntriesExpire, saidVars
        <5> QED BY <2>1, <4>1, <5>1 DEF OnItsWay
      <4>3. CASE \E f \in 1..MaxSaid : TakeSent(f)
        <5>1. fan.at = "idle"  BY <4>3 DEF TakeSent
        <5> QED BY <2>1, <4>1, <5>1 DEF OnItsWay
      <4>4. CASE OnMessageSent
          BY <1>0, <2>1, <4>1, <4>4 DEF OnMessageSent, OnItsWay, FabricTyped, FabricTypeOK
      <4>5. CASE PodsFor
        <5>1. CASE e = fan.msg /\ s \in entry
            BY <1>0, <4>5, <5>1 DEF PodsFor, OnItsWay, FabricTyped, FabricTypeOK
        <5>2. CASE e = fan.msg /\ s \notin entry
          <6>1. Expired(s)  BY <2>4, <3>1, <5>2 DEF DeliveryInv, Expired
          <6> QED BY <3>1, <4>5, <5>2, <6>1 DEF PodsFor
        <5>3. CASE e # fan.msg  BY <2>1, <4>1, <4>5, <5>3 DEF PodsFor, OnItsWay
        <5> QED BY <5>1, <5>2, <5>3
      <4>6. CASE Routed  BY <1>0, <2>1, <4>1, <4>6 DEF Routed, OnItsWay, FabricTyped, FabricTypeOK
      <4> QED BY <1>3, <4>2, <4>3, <4>4, <4>5, <4>6 DEF SaidStep, FanStep
    <3> QED BY <3>2, <3>3
  <2> QED BY <1>0, <2>1, <2>2, <2>3, <2>4 DEF DeliveryInv
<1>4. ASSUME NEW s \in Sockets, RoutePod(s)
      PROVE  DeliveryInv'
  <2>1. /\ UNCHANGED <<taskVars, sock, entry, caughtUp, cursor, passed, stored, storedLate, fanned, sendQueue, seen,
                       excused>>
        /\ fan' = [fan EXCEPT !.pods = @ \ {s}] /\ onPod' = onPod \cup {<<s, fan.msg>>} /\ fan.at = "publish"
      BY <1>4 DEF RoutePod, readVars
  <2>2. fan'.msg = fan.msg /\ fan'.at = fan.at /\ fan'.pods = fan.pods \ {s}
      BY <1>0, <2>1 DEF FabricTyped, FabricTypeOK
  <2>3. \A r \in Sockets, e \in Nat : OnItsWay(r, e) => OnItsWay(r, e)'  BY <2>1, <2>2 DEF OnItsWay
  <2>4. caughtUp \subseteq Sockets /\ fanned \subseteq Nat  BY <1>0 DEF FabricTyped, FabricTypeOK
  <2> QED BY <1>0, <2>1, <2>3, <2>4 DEF DeliveryInv, taskVars
<1>5. ASSUME NEW s \in Sockets, NEW e \in 1..MaxSaid, DeliverFromPod(s, e)
      PROVE  DeliveryInv'
  <2>1. /\ UNCHANGED <<taskVars, sock, entry, caughtUp, cursor, passed, stored, storedLate, fanned, fan, excused>>
        /\ onPod' = onPod \ {<<s, e>>}
      BY <1>5 DEF DeliverFromPod, saidVars, readVars
  <2> DEFINE Q == {Enqueued(s, e)[i] : i \in DOMAIN Enqueued(s, e)}
  <2>2. OnTables(s) /\ sock[s] # "closing" => Q = {e}  BY QueueTyped, <1>0 DEF DeliveryInv, OnTables
  <2>3. seen \subseteq seen' /\ (sock[s] = "open" => e \in seen')
      BY <1>5, <2>2 DEF DeliverFromPod, OnTables
  <2>4. \A r \in Sockets \ {s} : sendQueue'[r] = sendQueue[r]
      BY <1>0, <1>5 DEF DeliverFromPod, FabricTyped
  <2>5. sock[s] \notin {"closing", "leaving", "gone"} => sendQueue'[s] = <<>>
      BY <1>0, <1>5 DEF DeliverFromPod, FabricTyped, DeliveryInv
  <2>6. ASSUME NEW r \in caughtUp, NEW f \in fanned, sock[r] = "open"
        PROVE  f \in seen' \cup excused \cup passed \/ OnItsWay(r, f)'
    <3>1. f \in seen \cup excused \cup passed \/ OnItsWay(r, f)  BY <2>6 DEF DeliveryInv
    <3> QED BY <2>1, <2>3, <2>6, <3>1 DEF OnItsWay
  <2> QED BY <1>0, <2>1, <2>3, <2>4, <2>5, <2>6 DEF DeliveryInv, taskVars
<1>6. ASSUME FrameStep \/ MembersStep \/ Evict
      PROVE  DeliveryInv'
  <2>1. UNCHANGED beside
      BY <1>0, <1>6, MembersTyped DEF FrameStep, OnInbound, MayAct, MayPublish, Relay, FailFrame, OverLimit,
                  SecondPasses, Ban, ProjectRemoval, Evict
  <2>2. failures' >= failures /\ failures \in Nat /\ failures' \in Nat
    <3>1. failures' = failures \/ \E t \in Tasks : Fails(t)
        BY <1>0, <1>6, MembersTyped DEF FrameStep, OnInbound, MayAct, MayPublish, Relay, FailFrame, OverLimit,
                    SecondPasses, Ban, ProjectRemoval, Evict, taskVars
    <3> QED BY <1>0, <3>1 DEF Fails, FabricTyped
  <2> QED BY <1>0, <2>1, <2>2 DEF DeliveryInv, OnItsWay, beside, saidVars, readVars
<1> QED
    BY <1>1, <1>2, <1>3, <1>4, <1>5, <1>6
    DEF FabricNext, DeliveryNext, FanoutStep

\* For any sockets and messages, and whatever frames come in besides: a device that has caught up on
\* the socket it holds knows every message the fan-out is done with, but those excused and those stored
\* behind its cursor before it caught up, and nothing waits for an open socket.
THEOREM LiveDeliveryIsComplete == FabricSpec => []LiveDeliveryHolds
<1>1. DeliveryInv => LiveDeliveryHolds
  <2> SUFFICES ASSUME DeliveryInv PROVE LiveDeliveryHolds  OBVIOUS
  <2>1. NothingWaitsForAnOpenSocket  BY DEF DeliveryInv, NothingWaitsForAnOpenSocket
  <2>2. CaughtUpMissesNothing
    <3> SUFFICES ASSUME NEW s \in caughtUp, NEW e \in fanned, sock[s] = "open",
                        e # fan.msg \/ fan.at = "idle",
                        \A r \in Sockets : <<r, e>> \notin onPod
                 PROVE  e \in seen \cup excused \cup passed
        BY DEF CaughtUpMissesNothing
    <3>1. s \in Sockets  BY DEF DeliveryInv, FabricTyped, FabricTypeOK
    <3>2. ~OnItsWay(s, e)  BY <3>1 DEF OnItsWay
    <3> QED BY <3>2 DEF DeliveryInv
  <2> QED BY <2>1, <2>2 DEF LiveDeliveryHolds
<1> QED BY <1>1, DeliveryInvInit, DeliveryInvNext, PTL DEF FabricSpec

----------------------------------------------------------------------------
(* Frames from the socket                                                  *)

\* A handler that has not begun has asked nothing; once neither the set nor a refill has the user they
\* never have him again, so the handler of a late frame gets no further than the first question, whose
\* answer is never yes; and while the frames were handled one by one, those under way are the last, or
\* the others see it.
FramesInv ==
    /\ FabricTyped
    /\ \A t \in Tasks : task[t] = New => answer[t] = "unasked" /\ \A r \in refills : t \notin r.for
    /\ \A t \in Handling : task[t].late => NoMember /\ At(t, "mayAct") /\ answer[t] # "in"
    /\ ~forbidden
    /\ typed.apart =>
          /\ \A t \in Handling : task[t].op \in {"receipt", typed.last}
          /\ (\A t \in Handling : task[t].op = "receipt") => shown = typed.last

LEMMA FramesInvInit == TasksInit /\ FabricInit => FramesInv
<1> SUFFICES ASSUME TasksInit, FabricInit PROVE FramesInv  OBVIOUS
<1>1. Handling = {}  BY DEF TasksInit, Handling, New
<1> QED BY <1>1, FabricTypedInit DEF FabricInit, FramesInv, Askers

\* Who is no member stays none while members are asked for, and is never the answer.
LEMMA NoMemberStays ==
    ASSUME FabricTyped, MembersStep,
           \A t \in Tasks : task[t] = New => answer[t] = "unasked" /\ \A r \in refills : t \notin r.for
    PROVE  /\ NoMember => NoMember'
           /\ NoMember => \A t \in Tasks : answer'[t] = "in" => answer[t] = "in"
           /\ \A t \in Tasks : task[t] = New => answer'[t] = "unasked" /\ \A r \in refills' : t \notin r.for
<1> USE FabricAssumption
<1>0. /\ answer \in [Askers -> {"unasked", "cold", "awaits", "in", "out", "none"}] /\ banned' = banned
      /\ refills \subseteq [for : SUBSET Askers, found : {"unread", "in", "out"}]
      /\ Tasks \subseteq Askers
    BY MembersTyped DEF FabricTyped, FabricTypeOK, Askers
<1>1. ASSUME NEW a \in Askers, Asks(a) PROVE a \notin Tasks \/ task[a] # New  BY <1>1 DEF Asks, New
<1>2. ASSUME NEW a \in Askers, Members(a) PROVE UNCHANGED refills /\ cachedSet' = cachedSet /\ Asks(a)
                                              /\ answer' = [answer EXCEPT ![a] = cachedSet]
    BY <1>2 DEF Members
<1>3. ASSUME NEW a \in Askers, Refill(a)
      PROVE  /\ cachedSet' = cachedSet /\ Asks(a) /\ answer' = [answer EXCEPT ![a] = "awaits"]
             /\ \A r \in refills' : \/ r \in refills
                                    \/ r.for = {a} /\ r.found = "unread"
                                    \/ \E q \in refills : r.for = q.for \cup {a} /\ r.found = q.found
    BY <1>0, <1>3 DEF Refill
<1>4. ASSUME NEW r \in refills, ReadRows(r)
      PROVE  /\ UNCHANGED <<cachedSet, answer>>
             /\ \A q \in refills' : \/ q \in refills
                                    \/ q.for = r.for /\ (banned => q.found = "out")
    BY <1>0, <1>4 DEF ReadRows
<1>5. ASSUME NEW r \in refills, NEW x, Answers(r, x)
      PROVE  refills' \subseteq refills /\ \A t \in Askers : answer'[t] = IF t \in r.for THEN x ELSE answer[t]
    BY <1>5 DEF Answers
<1>6. CASE \E a \in Askers : Members(a)  BY <1>0, <1>1, <1>2, <1>6 DEF NoMember
<1>7. CASE \E a \in Askers : Refill(a)  BY <1>0, <1>1, <1>3, <1>7 DEF NoMember
<1>8. CASE \E r \in refills : ReadRows(r)  BY <1>0, <1>4, <1>8 DEF NoMember
<1>9. ASSUME NEW r \in refills, Seed(r)
      PROVE  /\ NoMember => NoMember'
             /\ NoMember => \A t \in Tasks : answer'[t] = "in" => answer[t] = "in"
             /\ \A t \in Tasks : task[t] = New => answer'[t] = "unasked" /\ \A q \in refills' : t \notin q.for
    BY <1>0, <1>5, <1>9 DEF Seed, NoMember
<1>10. ASSUME NEW r \in refills, RefillFails(r)
       PROVE  /\ NoMember => NoMember'
              /\ NoMember => \A t \in Tasks : answer'[t] = "in" => answer[t] = "in"
              /\ \A t \in Tasks : task[t] = New => answer'[t] = "unasked" /\ \A q \in refills' : t \notin q.for
  <2>1. PICK x \in {"none", "cold"} : Answers(r, x)  BY <1>10 DEF RefillFails
  <2>2. cachedSet' = cachedSet  BY <1>10 DEF RefillFails
  <2> QED BY <1>0, <1>5, <2>1, <2>2 DEF NoMember
<1> QED BY <1>6, <1>7, <1>8, <1>9, <1>10 DEF MembersStep

LEMMA FramesInvNext == FramesInv /\ [FabricNext]_<<taskVars, fabricVars>> => FramesInv'
<1> SUFFICES ASSUME FramesInv, [FabricNext]_<<taskVars, fabricVars>>
             PROVE  FramesInv'
    OBVIOUS
<1>0. FabricTyped /\ FabricTyped'  BY FabricTypedNext DEF FramesInv
<1>1. ASSUME UNCHANGED <<task, typed, shown, forbidden, refills>>, banned => banned',
             \A t \in Tasks : answer'[t] = answer[t],
             cachedSet' = cachedSet \/ cachedSet' = "cold" \/ cachedSet' = "out"
      PROVE  FramesInv'
  <2>1. NoMember => NoMember'  BY <1>1 DEF NoMember
  <2>2. Handling \subseteq Tasks  BY DEF Handling
  <2> QED BY <1>0, <1>1, <2>1, <2>2 DEF FramesInv, Handling, At
<1>2. CASE UNCHANGED <<taskVars, fabricVars>>
    BY <1>1, <1>2 DEF taskVars, fabricVars, inVars, memberVars
<1>3. ASSUME NEW s \in Sockets, SocketStep(s)
      PROVE  FramesInv'
  <2>1. UNCHANGED <<task, typed, shown, forbidden, banned, cachedSet, answer, refills>>
      BY <1>3 DEF SocketStep, OpenSocket, AddEntry, Greet, CatchUp, SweepSocket, LoseClient, Drain, Closed,
                  RemoveEntry, Ping, inVars, memberVars, taskVars
  <2> QED BY <1>1, <2>1
<1>4. CASE FanoutStep
  <2>1. UNCHANGED <<task, typed, shown, forbidden, banned, cachedSet, refills>>
      BY <1>4 DEF FanoutStep, Say, Store, TellSent, TakeSent, OnMessageSent, PodsFor, Routed, EntriesExpire, RoutePod, DeliverFromPod, SaidStep,
                  FanStep, inVars, memberVars, taskVars
  <2>2. answer' = answer \/ answer' = [answer EXCEPT ![Fanout] = "unasked"]
      BY <1>4 DEF FanoutStep, Say, Store, TellSent, TakeSent, OnMessageSent, PodsFor, Routed, EntriesExpire, RoutePod, DeliverFromPod, SaidStep,
                  FanStep, inVars, memberVars, Heard
  <2>3. \A t \in Tasks : answer'[t] = answer[t]
      BY <1>0, <2>2, FabricAssumption DEF FabricTyped, FabricTypeOK, Askers
  <2> QED BY <1>1, <2>1, <2>3
<1>5. CASE SecondPasses \/ Ban \/ ProjectRemoval \/ Evict
    BY <1>1, <1>5 DEF SecondPasses, Ban, ProjectRemoval, Evict, memberVars, taskVars
<1>11. CASE MembersStep
  <2>1. UNCHANGED <<task, typed, shown, forbidden, banned>>
      BY <1>0, <1>11, MembersTyped DEF taskVars
  <2>2. Handling' = Handling /\ Handling \subseteq Tasks  BY <2>1 DEF Handling
  <2> QED BY <1>0, <1>11, <2>1, <2>2, NoMemberStays DEF FramesInv, At
<1>6. ASSUME NEW f \in Frames, OverLimit(f)
      PROVE  FramesInv'
  <2>1. UNCHANGED <<task, cachedSet, answer, refills, banned, forbidden>> /\ ~typed'.apart
      BY <1>6 DEF OverLimit, memberVars, taskVars
  <2> QED BY <1>0, <2>1 DEF FramesInv, Handling, NoMember, At
<1>7. ASSUME NEW t \in Tasks, FailFrame(t)
      PROVE  FramesInv'
  <2>1. task'[t] = Failed /\ \A u \in Tasks \ {t} : task'[u] = task[u]
      BY <1>0, <1>7, FrameTaskFails DEF FailFrame
  <2>2. UNCHANGED <<cachedSet, answer, refills, banned, forbidden>> /\ ~typed'.apart
      BY <1>0, <1>7 DEF FailFrame, memberVars, FabricTyped, FabricTypeOK
  <2>3. /\ \A u \in Handling' : u \in Handling /\ task'[u] = task[u]
        /\ \A u \in Tasks : task'[u] = New => task[u] = New
      BY <2>1 DEF Handling, Failed, New
  <2> QED BY <1>0, <2>2, <2>3 DEF FramesInv, NoMember, At
<1>8. ASSUME NEW t \in Tasks, NEW f \in Frames, OnInbound(t, f)
      PROVE  FramesInv'
  <2>1. /\ task'[t].at = "mayAct" /\ task'[t].op = f /\ task'[t].late = NoMember
        /\ \A u \in Tasks \ {t} : task'[u] = task[u]
      BY <1>0, <1>8, FrameTaskBegins DEF OnInbound, NoMember
  <2>2. UNCHANGED <<cachedSet, answer, refills, banned, shown, forbidden>> /\ task[t] = New
      BY <1>8 DEF OnInbound, Begins, memberVars
  <2>3. t \notin Handling /\ Handling' = Handling \cup {t}  BY <2>1, <2>2 DEF Handling, New
  <2>4. \A u \in Handling' : task'[u].late => NoMember' /\ At(u, "mayAct")' /\ answer'[u] # "in"
    <3>1. NoMember' <=> NoMember  BY <2>2 DEF NoMember
    <3>2. At(t, "mayAct")' /\ (task'[t].late => NoMember) /\ answer'[t] # "in"
        BY <2>1, <2>2 DEF At, FramesInv
    <3>3. \A u \in Handling : task'[u] = task[u]  BY <2>1, <2>3 DEF Handling
    <3> QED BY <2>2, <2>3, <3>1, <3>2, <3>3 DEF FramesInv, At
  <2>5. ASSUME typed'.apart
        PROVE  /\ \A u \in Handling' : task'[u].op \in {"receipt", typed'.last}
               /\ (\A u \in Handling' : task'[u].op = "receipt") => shown' = typed'.last
    <3>1. CASE f = "receipt"
      <4>1. typed' = typed  BY <1>8, <3>1 DEF OnInbound
      <4> QED BY <2>1, <2>2, <2>3, <2>5, <3>1, <4>1 DEF FramesInv, Handling
    <3>2. CASE f # "receipt"
      <4>1. typed'.last = f /\ \A u \in Handling : task[u].op = "receipt"
          BY <1>8, <2>5, <3>2 DEF OnInbound
      <4> QED BY <2>1, <2>3, <3>2, <4>1 DEF Handling
    <3> QED BY <3>1, <3>2
  <2>6. \A u \in Tasks : task'[u] = New => task[u] = New  BY <2>1, <2>2
  <2> QED BY <1>0, <2>2, <2>4, <2>5, <2>6 DEF FramesInv
<1>9. ASSUME NEW t \in Tasks, MayAct(t) \/ MayPublish(t)
      PROVE  FramesInv'
  <2>1. \/ answer[t] = "in" /\ (Goes(t, "mayPublish") \/ Goes(t, "send")) /\ typed' = typed
        \/ Ends(t) /\ typed' = [typed EXCEPT !.apart = FALSE]
      BY <1>9 DEF MayAct, MayPublish, Confirms, Refused
  <2>2. UNCHANGED <<cachedSet, refills, banned, shown, forbidden>> /\ task[t].at \in {"mayAct", "mayPublish"}
      BY <1>9 DEF MayAct, MayPublish, At
  <2>3. /\ NoMember' <=> NoMember
        /\ \A u \in Tasks : answer'[u] = answer[u] \/ answer'[u] = "unasked"
    <3>1. answer' = [answer EXCEPT ![t] = "unasked"] /\ t \in Askers
        BY <1>9 DEF MayAct, MayPublish, Heard, Askers
    <3> QED BY <1>0, <2>2, <3>1 DEF NoMember, FabricTyped, FabricTypeOK, Askers
  <2>4. t \in Handling  BY <2>2 DEF Handling
  <2>5. CASE answer[t] = "in" /\ (Goes(t, "mayPublish") \/ Goes(t, "send")) /\ typed' = typed
    <3>1. ~task[t].late  BY <2>4, <2>5 DEF FramesInv
    <3>2. /\ task'[t].op = task[t].op /\ task'[t].late = task[t].late /\ task'[t].at \in {"mayPublish", "send"}
          /\ \A u \in Tasks \ {t} : task'[u] = task[u]
        BY <1>0, <2>2, <2>5, FrameTaskGoes
    <3>3. Handling' = Handling /\ \A u \in Handling : task'[u].op = task[u].op
        BY <2>4, <3>2 DEF Handling
    <3>4. \A u \in Handling' : task'[u].late => NoMember' /\ At(u, "mayAct")' /\ answer'[u] # "in"
        BY <2>3, <3>1, <3>2, <3>3 DEF FramesInv, At, Handling
    <3>5. \A u \in Tasks : task'[u] = New => task[u] = New  BY <3>2 DEF New
    <3> QED BY <1>0, <2>2, <2>3, <2>5, <3>3, <3>4, <3>5 DEF FramesInv
  <2>6. CASE Ends(t) /\ typed' = [typed EXCEPT !.apart = FALSE]
    <3>1. task'[t].at = "over" /\ \A u \in Tasks \ {t} : task'[u] = task[u]
        BY <1>0, <2>2, <2>6, FrameTaskEnds
    <3>2. /\ \A u \in Handling' : u \in Handling /\ u \in Tasks /\ task'[u] = task[u]
          /\ \A u \in Tasks : task'[u] = New => task[u] = New
        BY <3>1 DEF Handling, New
    <3>3. ~typed'.apart  BY <1>0, <2>6 DEF FabricTyped, FabricTypeOK
    <3> QED BY <1>0, <2>2, <2>3, <3>2, <3>3 DEF FramesInv, At
  <2> QED BY <2>1, <2>5, <2>6
<1>10. ASSUME NEW t \in Tasks, Relay(t)
       PROVE  FramesInv'
  <2>1. UNCHANGED <<cachedSet, answer, refills, banned, typed>> /\ task[t].at = "send"
      BY <1>10 DEF Relay, At, memberVars
  <2>2. t \in Handling /\ ~task[t].late  BY <2>1 DEF Handling, FramesInv, At
  <2>3. task'[t].at = "over" /\ \A u \in Tasks \ {t} : task'[u] = task[u]
      BY <1>0, <1>10, <2>1, FrameTaskEnds DEF Relay
  <2>4. /\ Handling' = Handling \ {t} /\ \A u \in Handling' : task'[u] = task[u]
        /\ \A u \in Tasks : task'[u] = New => task[u] = New
      BY <2>3 DEF Handling, New
  <2>5. ~forbidden'  BY <1>10, <2>2 DEF Relay, FramesInv
  <2>6. ASSUME typed.apart
        PROVE  (\A u \in Handling' : task'[u].op = "receipt") => shown' = typed.last
    <3>1. task[t].op # "receipt" => task[t].op = typed.last  BY <2>2, <2>6 DEF FramesInv
    <3> QED BY <1>10, <2>4, <2>6, <3>1 DEF Relay, FramesInv
  <2> QED BY <1>0, <2>1, <2>4, <2>5, <2>6 DEF FramesInv, NoMember, At
<1> QED
    BY <1>2, <1>3, <1>4, <1>5, <1>6, <1>7, <1>8, <1>9, <1>10, <1>11
    DEF FabricNext, DeliveryNext, FrameStep

\* For any sockets and handlers, and whatever is delivered besides: a frame of a user who is no member
\* any more, by the rows, the set and the refills under way, has no effect, and the others see the last typing signal of frames handled one by one.
THEOREM FramesStayHonest == FabricSpec => []FramesHold
<1>1. FramesInv => FramesHold  BY DEF FramesInv, FramesHold, FormerMemberIsMute, TypingIsTheLast
<1> QED BY <1>1, FramesInvInit, FramesInvNext, PTL DEF FabricSpec

=============================================================================
