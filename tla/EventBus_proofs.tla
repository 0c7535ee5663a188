---------------------------- MODULE EventBus_proofs ----------------------------
(***************************************************************************)
(* What the buses keep for any number of groups, processes and entries,     *)
(* whatever fails: Redis Streams of EventBus first, then the Kafka consumers *)
(* and the memory bus of Buses.                                             *)
(***************************************************************************)
EXTENDS EventBus, Buses, FiniteSetTheorems, SequenceTheorems, TLAPS

----------------------------------------------------------------------------
(* Batches                                                                 *)

\* A batch that is not empty has an oldest entry: the intervals up to its entries are finite
\* sets, and one of them contains no other.
LEMMA OldestIsFirst ==
    ASSUME NEW S \in SUBSET Nat, S # {}
    PROVE  Oldest(S) \in S /\ \A f \in S : Oldest(S) <= f
<1> DEFINE T == {1..e : e \in S}
           R == StrictSubsetOrdering(Nat)
<1>1. T \subseteq FiniteSubsetsOf(Nat) /\ T # {}
  <2>1. \A e \in S : 1..e \in FiniteSubsetsOf(Nat)  BY FS_Interval DEF FiniteSubsetsOf
  <2> QED BY <2>1
<1>2. IsWellFoundedOn(R, FiniteSubsetsOf(Nat))  BY FS_StrictSubsetOrderingWellFounded
<1> HIDE DEF R
<1>3. PICK x \in T : \A y \in T : ~(<<y, x>> \in R)  BY <1>1, <1>2, WFMin
<1>4. PICK e \in S : x = 1..e  OBVIOUS
<1>5. ASSUME NEW f \in S, f < e PROVE FALSE
  <2>1. 1..f \in T /\ 1..f \subseteq x /\ 1..f # x  BY <1>4, <1>5
  <2>2. <<1..f, x>> \in R  BY <2>1, <1>4 DEF R, StrictSubsetOrdering
  <2> QED BY <1>3, <2>1, <2>2
<1>6. \A f \in S : e <= f  BY <1>5
<1> QED BY <1>6 DEF Oldest

\* A thread that turns to a batch has exactly that batch in hand, and no other thread moves.
LEMMA LoadTakes ==
    ASSUME TypeOK, NEW t \in Threads, NEW B \in SUBSET Entries, Load(t, B)
    PROVE  /\ tpc' \in [Threads -> {"idle", "check", "dlq", "handle", "mark", "ack"}]
           /\ cur' \in [Threads -> 0..MaxEvents]
           /\ rest' \in [Threads -> SUBSET Entries]
           /\ tries' \in [Threads -> 1..MaxAttempts]
           /\ \A u \in Threads \ {t} : /\ tpc'[u] = tpc[u] /\ cur'[u] = cur[u]
                                       /\ rest'[u] = rest[u] /\ tries'[u] = tries[u]
           /\ B = {} => tpc'[t] = "idle" /\ cur'[t] = 0 /\ rest'[t] = {}
           /\ B # {} => /\ tpc'[t] \in {"check", "dlq"}
                        /\ cur'[t] \in B
                        /\ \A f \in B : cur'[t] <= f
                        /\ rest'[t] = B \ {cur'[t]}
<1>1. /\ MaxAttempts \in Nat /\ 1 <= MaxAttempts /\ MaxEvents \in Nat
      /\ tpc \in [Threads -> {"idle", "check", "handle", "mark", "dlq", "ack"}]
      /\ cur \in [Threads -> 0..MaxEvents]
      /\ rest \in [Threads -> SUBSET Entries]
      /\ tries \in [Threads -> 1..MaxAttempts]
    BY BusAssumption DEF TypeOK
<1>2. CASE B = {}
  <2>1. /\ tpc' = [tpc EXCEPT ![t] = "idle"]
        /\ cur' = [cur EXCEPT ![t] = 0]
        /\ rest' = [rest EXCEPT ![t] = {}]
        /\ tries' = [tries EXCEPT ![t] = 1]
      BY <1>2 DEF Load, Goto
  <2> QED BY <1>1, <1>2, <2>1
<1>3. CASE B # {}
  <2> DEFINE o == Oldest(B)
  <2>1. o \in B /\ \A f \in B : o <= f  BY <1>3, OldestIsFirst DEF Entries
  <2>2. /\ Goto(t, IF o \in Malformed THEN "dlq" ELSE "check")
        /\ cur' = [cur EXCEPT ![t] = o]
        /\ rest' = [rest EXCEPT ![t] = B \ {o}]
        /\ tries' = [tries EXCEPT ![t] = 1]
      BY <1>3 DEF Load
  <2>3. o \in Entries  BY <2>1
  <2>4. Entries \subseteq 0..MaxEvents  BY <1>1 DEF Entries
  <2> HIDE DEF o
  <2> QED BY <1>1, <1>3, <2>1, <2>2, <2>3, <2>4 DEF Goto
<1> QED BY <1>2, <1>3

----------------------------------------------------------------------------
(* Types                                                                   *)

\* A thread that is handling an entry has one.
Busy == \A t \in Threads : IF tpc[t] = "idle" THEN cur[t] = 0 /\ rest[t] = {}
                                             ELSE cur[t] \in Entries

BusInv == TypeOK /\ Busy

\* The process and the group of a thread.
LEMMA ThreadParts ==
    ASSUME NEW t \in Threads
    PROVE  t[1] \in Processes /\ Group(t) \in Groups
BY BusAssumption DEF Threads, Group

\* The process's two threads.
LEMMA ProcessThreads ==
    ASSUME NEW p \in Processes, NEW k \in {"loop", "reclaim"}
    PROVE  <<p, k>> \in Threads /\ Group(<<p, k>>) = GroupOf[p] /\ GroupOf[p] \in Groups
BY BusAssumption DEF Threads, Group

\* Turning to a batch keeps the threads well formed.
LEMMA LoadKeepsBusy ==
    ASSUME BusInv, NEW t \in Threads, NEW B \in SUBSET Entries, Load(t, B)
    PROVE  Busy'
<1>1. \A u \in Threads \ {t} : tpc'[u] = tpc[u] /\ cur'[u] = cur[u] /\ rest'[u] = rest[u]
    BY LoadTakes DEF BusInv
<1>2. B = {} => tpc'[t] = "idle" /\ cur'[t] = 0 /\ rest'[t] = {}  BY LoadTakes DEF BusInv
<1>3. B # {} => tpc'[t] # "idle" /\ cur'[t] \in Entries  BY LoadTakes DEF BusInv
<1> QED BY <1>1, <1>2, <1>3 DEF Busy, BusInv

\* What the group has not been delivered yet is an interval, and the cursor moves to its end.
LEMMA UndeliveredIsNext ==
    ASSUME TypeOK, NEW g \in Groups,
           NEW c \in Nat, c = cursor[g] + Cardinality(Undelivered(g)), Undelivered(g) # {}
    PROVE  /\ c <= stream /\ cursor[g] < c
           /\ Undelivered(g) = {e \in Entries : cursor[g] < e /\ e <= c}
<1> DEFINE b == IF stream <= cursor[g] + BatchSize THEN stream ELSE cursor[g] + BatchSize
<1>1. cursor[g] \in Nat /\ stream \in Nat /\ BatchSize \in Nat /\ MaxEvents \in Nat /\ stream <= MaxEvents
    BY BusAssumption DEF TypeOK
<1>2. Undelivered(g) = (cursor[g] + 1)..b  BY <1>1 DEF Undelivered, Entries
<1>3. b \in Nat /\ cursor[g] < b  BY <1>1, <1>2
<1> HIDE DEF b
<1>4. Cardinality(Undelivered(g)) = b - (cursor[g] + 1) + 1
  <2> DEFINE a == cursor[g] + 1
  <2>1. a \in Int /\ b \in Int /\ a <= b  BY <1>1, <1>3
  <2> HIDE DEF a
  <2>2. Cardinality(a..b) = b - a + 1  BY <2>1, FS_Interval
  <2> QED BY <1>2, <2>2 DEF a
<1>5. c = b  BY <1>1, <1>3, <1>4
<1> QED BY <1>1, <1>2, <1>3, <1>5 DEF b, Entries

\* What the server does for a read: the group's cursor goes forward over the batch, which is pending.
LEMMA XReadGroupMoves ==
    ASSUME TypeOK, NEW g \in Groups, XReadGroup(g)
    PROVE  /\ cursor' \in [Groups -> 0..MaxEvents] /\ pel' \in [Groups -> SUBSET Entries]
           /\ cursor'[g] <= stream /\ cursor[g] < cursor'[g] /\ cursor[g] \in Nat /\ cursor'[g] \in Nat
           /\ Undelivered(g) = {e \in Entries : cursor[g] < e /\ e <= cursor'[g]}
           /\ pel'[g] = pel[g] \cup Undelivered(g)
           /\ \A h \in Groups \ {g} : cursor'[h] = cursor[h] /\ pel'[h] = pel[h]
           /\ UNCHANGED <<stream, created, first>> /\ Undelivered(g) # {} /\ Undelivered(g) \in SUBSET Entries
<1> DEFINE U == Undelivered(g)
<1>1. /\ cursor' = [cursor EXCEPT ![g] = cursor[g] + Cardinality(U)] /\ pel' = [pel EXCEPT ![g] = pel[g] \cup U]
      /\ UNCHANGED <<stream, created, first>> /\ U # {}
    BY DEF XReadGroup
<1>0. U \in SUBSET Entries  BY DEF Undelivered
<1>2. cursor[g] + Cardinality(U) \in Nat
  <2>1. IsFiniteSet(U)
    <3>1. 1 \in Int /\ MaxEvents \in Int  BY BusAssumption
    <3> QED BY <1>0, <3>1, FS_Interval, FS_Subset DEF Entries
  <2>2. Cardinality(U) \in Nat /\ cursor[g] \in Nat  BY <2>1, FS_CardinalityType DEF TypeOK
  <2> QED BY <2>2
<1>3. cursor[g] + Cardinality(U) <= stream /\ cursor[g] < cursor[g] + Cardinality(U)
      /\ U = {e \in Entries : cursor[g] < e /\ e <= cursor[g] + Cardinality(U)}
    BY <1>1, <1>2, UndeliveredIsNext
<1> HIDE DEF U
<1>4. cursor \in [Groups -> 0..MaxEvents] /\ pel \in [Groups -> SUBSET Entries] /\ stream \in 0..MaxEvents
      /\ MaxEvents \in Nat
    BY BusAssumption DEF TypeOK
<1>5. cursor'[g] = cursor[g] + Cardinality(U) /\ pel'[g] = pel[g] \cup U
      /\ \A h \in Groups \ {g} : cursor'[h] = cursor[h] /\ pel'[h] = pel[h]
    BY <1>1, <1>4
<1>6. cursor' \in [Groups -> 0..MaxEvents] /\ pel' \in [Groups -> SUBSET Entries]
    BY <1>0, <1>1, <1>2, <1>3, <1>4
<1>7. cursor[g] \in Nat /\ cursor'[g] \in Nat  BY <1>4, <1>6
<1>8. U = {e \in Entries : cursor[g] < e /\ e <= cursor'[g]} /\ cursor'[g] <= stream /\ cursor[g] < cursor'[g]
    BY <1>3, <1>5
<1> QED BY <1>0, <1>1, <1>5, <1>6, <1>7, <1>8 DEF U

\* Initially the variables are well typed.
LEMMA InitBus == Init => BusInv
BY BusAssumption DEF Init, BusInv, TypeOK, Busy, FaultKinds

\* So they stay when a process starts, dies or takes a batch.
LEMMA ProcessStepType ==
    ASSUME BusInv, NEW p \in Processes, ProcessStep(p)
    PROVE  BusInv'
<1> USE DEF BusInv
<1>1. CASE Start(p)
  <2>1. GroupOf[p] \in Groups  BY BusAssumption
  <2>2. first' \in [Groups -> 0..MaxEvents] /\ cursor' \in [Groups -> 0..MaxEvents]
      BY <1>1, <2>1 DEF Start, TypeOK
  <2>3. created' \in SUBSET Groups /\ up' \in SUBSET Processes  BY <1>1, <2>1 DEF Start, TypeOK
  <2> QED BY <1>1, <2>2, <2>3 DEF Start, TypeOK, Busy, effects, threads
<1>2. CASE Crash(p)
  <2>1. Busy'  BY <1>2, ThreadParts DEF Crash, Busy, TypeOK
  <2>2. /\ tpc' \in [Threads -> {"idle", "check", "handle", "mark", "dlq", "ack"}]
        /\ cur' \in [Threads -> 0..MaxEvents]
        /\ rest' \in [Threads -> SUBSET Entries]
        /\ tries' \in [Threads -> 1..MaxAttempts]
      BY <1>2, BusAssumption DEF Crash, TypeOK
  <2>3. faults' \in [FaultKinds -> Nat] /\ up' \in SUBSET Processes
      BY <1>2 DEF Crash, Fault, TypeOK, FaultKinds
  <2> QED BY <1>2, <2>1, <2>2, <2>3 DEF Crash, TypeOK, broker, effects
<1>3. CASE Read(p)
  <2>1. /\ <<p, "loop">> \in Threads /\ GroupOf[p] \in Groups /\ XReadGroup(GroupOf[p])
        /\ Load(<<p, "loop">>, Undelivered(GroupOf[p])) /\ UNCHANGED <<effects, up, overlapped, faults>>
      BY <1>3, ProcessThreads DEF Read
  <2> QED BY <2>1, XReadGroupMoves, LoadTakes, LoadKeepsBusy DEF TypeOK, effects
<1>5. CASE ReadFails(p)
  <2>1. /\ GroupOf[p] \in Groups /\ XReadGroup(GroupOf[p])
        /\ UNCHANGED <<effects, up, threads, overlapped>>
      BY <1>5, ProcessThreads DEF ReadFails
  <2>2. faults' \in [FaultKinds -> Nat]  BY <1>5 DEF ReadFails, Fault, TypeOK, FaultKinds
  <2> QED BY <2>1, <2>2, XReadGroupMoves DEF TypeOK, Busy, effects, threads
<1>4. CASE Reclaim(p)
  <2>1. PICK B \in SUBSET pel[GroupOf[p]] : ReclaimBatch(p, B)  BY <1>4 DEF Reclaim
  <2>2. <<p, "reclaim">> \in Threads /\ B \in SUBSET Entries  BY <2>1, ProcessThreads DEF TypeOK
  <2> QED BY <2>1, <2>2, LoadTakes, LoadKeepsBusy DEF ReclaimBatch, TypeOK, broker, effects
<1> QED BY <1>1, <1>2, <1>3, <1>4, <1>5 DEF ProcessStep

\* A failed attempt leads to the next one or to the dead letters.
LEMMA RetryType ==
    ASSUME BusInv, NEW t \in Threads, RetryOrDivert(t), tpc[t] \in {"handle", "mark"}
    PROVE  /\ tpc' \in [Threads -> {"idle", "check", "handle", "mark", "dlq", "ack"}]
           /\ tries' \in [Threads -> 1..MaxAttempts]
           /\ tpc'[t] \in {"handle", "dlq"}
           /\ \A u \in Threads \ {t} : tpc'[u] = tpc[u]
<1>1. /\ tpc \in [Threads -> {"idle", "check", "handle", "mark", "dlq", "ack"}]
      /\ tries \in [Threads -> 1..MaxAttempts]
      /\ MaxAttempts \in Nat
    BY BusAssumption DEF BusInv, TypeOK
<1>2. CASE tries[t] < MaxAttempts  BY <1>1, <1>2 DEF RetryOrDivert, Goto
<1>3. CASE ~(tries[t] < MaxAttempts)  BY <1>1, <1>3 DEF RetryOrDivert, Goto
<1> QED BY <1>2, <1>3

\* And when a thread handles an entry.
LEMMA ThreadStepType ==
    ASSUME BusInv, NEW t \in Threads, HandleStep(t) \/ FaultStep(t)
    PROVE  BusInv'
<1> USE DEF BusInv
<1>1. Group(t) \in Groups /\ rest[t] \in SUBSET Entries /\ {} \in SUBSET Entries /\ MaxAttempts \in Nat
    BY ThreadParts, BusAssumption DEF TypeOK
<1>2. CASE Check(t)  BY <1>1, <1>2 DEF Check, Goto, TypeOK, Busy, broker, effects
<1>3. CASE HandlerSucceeds(t)  BY <1>1, <1>3 DEF HandlerSucceeds, Goto, TypeOK, Busy, broker
<1>4. CASE HandlerFails(t)  BY <1>4, RetryType DEF HandlerFails, TypeOK, Busy, broker, effects
<1>5. CASE Mark(t)  BY <1>1, <1>5 DEF Mark, Goto, TypeOK, Busy, broker
<1>6. CASE ToDlq(t)  BY <1>1, <1>6 DEF ToDlq, Goto, TypeOK, Busy, broker
<1>7. CASE Ack(t)
  <2>1. pel' \in [Groups -> SUBSET Entries]  BY <1>1, <1>7 DEF Ack, TypeOK
  <2> QED BY <1>1, <1>7, <2>1, LoadTakes, LoadKeepsBusy DEF Ack, TypeOK, effects
<1>8. CASE CheckFails(t)
  <2>1. faults' \in [FaultKinds -> Nat]  BY <1>8 DEF CheckFails, Fault, TypeOK, FaultKinds
  <2> QED BY <1>1, <1>8, <2>1, LoadTakes, LoadKeepsBusy DEF CheckFails, TypeOK, broker, effects
<1>9. CASE MarkFails(t)
    BY <1>9, RetryType DEF MarkFails, Fault, TypeOK, Busy, broker, effects, FaultKinds
<1>10. CASE DlqFails(t)  BY <1>1, <1>10 DEF DlqFails, Fault, Goto, TypeOK, Busy, broker, FaultKinds
<1>11. CASE AckFails(t)
  <2>1. faults' \in [FaultKinds -> Nat]  BY <1>11 DEF AckFails, Fault, TypeOK, FaultKinds
  <2> QED BY <1>1, <1>11, <2>1, LoadTakes, LoadKeepsBusy DEF AckFails, TypeOK, broker, effects
<1> QED BY <1>2, <1>3, <1>4, <1>5, <1>6, <1>7, <1>8, <1>9, <1>10, <1>11 DEF HandleStep, FaultStep

\* Every step keeps the types.
LEMMA NextBus == BusInv /\ [Next]_vars => BusInv'
<1> SUFFICES ASSUME BusInv, [Next]_vars PROVE BusInv'  OBVIOUS
<1>1. CASE Publish  BY <1>1, BusAssumption DEF Publish, BusInv, TypeOK, Busy, effects, threads
<1>2. CASE UNCHANGED vars  BY <1>2 DEF vars, broker, effects, threads, BusInv, TypeOK, Busy
<1> QED BY <1>1, <1>2, ProcessStepType, ThreadStepType DEF Next

\* Every variable of the bus keeps its type, whatever fails.
THEOREM BusTypeCorrect == Spec => []TypeOK
<1>1. BusInv => TypeOK  BY DEF BusInv
<1> QED BY InitBus, NextBus, <1>1, PTL DEF Spec

----------------------------------------------------------------------------
(* What a step does to the threads                                         *)

\* Turning to a batch, in terms of what is in hand.
LEMMA LoadHands ==
    ASSUME BusInv, NEW t \in Threads, NEW B \in SUBSET Entries, Load(t, B)
    PROVE  /\ InHand(t)' = B
           /\ \A u \in Threads \ {t} : InHand(u)' = InHand(u) /\ tpc'[u] = tpc[u] /\ cur'[u] = cur[u]
           /\ tpc'[t] \notin {"handle", "mark", "ack"}
<1>1. 0 \notin B  BY BusAssumption DEF Entries
<1>2. B = {} => tpc'[t] = "idle" /\ cur'[t] = 0 /\ rest'[t] = {}  BY LoadTakes DEF BusInv
<1>3. B # {} => tpc'[t] \in {"check", "dlq"} /\ cur'[t] \in B /\ rest'[t] = B \ {cur'[t]}
    BY LoadTakes DEF BusInv
<1>4. \A u \in Threads \ {t} : tpc'[u] = tpc[u] /\ cur'[u] = cur[u] /\ rest'[u] = rest[u]
    BY LoadTakes DEF BusInv
<1> QED BY <1>1, <1>2, <1>3, <1>4 DEF InHand

\* A thread that handles an entry keeps what it has in hand, or goes on to the rest, or drops it.
LEMMA ThreadStepHands ==
    ASSUME BusInv, NEW t \in Threads, HandleStep(t) \/ FaultStep(t)
    PROVE  /\ \A u \in Threads : InHand(u)' \subseteq InHand(u)
           /\ \A u \in Threads \ {t} : tpc'[u] = tpc[u] /\ cur'[u] = cur[u] /\ rest'[u] = rest[u]
           /\ tpc[t] # "idle"
<1>1. rest[t] \in SUBSET Entries /\ {} \in SUBSET Entries  BY DEF BusInv, TypeOK
<1>2. \A u \in Threads : rest[u] \subseteq InHand(u)  BY DEF InHand
<1>3. CASE Ack(t) \/ AckFails(t)
  <2>1. Load(t, rest[t]) /\ tpc[t] # "idle"  BY <1>3 DEF Ack, AckFails
  <2> QED BY <1>1, <1>2, <2>1, LoadHands, LoadTakes DEF BusInv
<1>4. CASE CheckFails(t)
  <2>1. Load(t, {}) /\ tpc[t] # "idle"  BY <1>4 DEF CheckFails
  <2> QED BY <1>1, <2>1, LoadHands, LoadTakes DEF BusInv
<1>5. CASE HandlerFails(t) \/ MarkFails(t)
  <2>1. RetryOrDivert(t) /\ tpc[t] \in {"handle", "mark"} /\ UNCHANGED <<cur, rest>>
      BY <1>5 DEF HandlerFails, MarkFails
  <2> QED BY <2>1, RetryType DEF InHand
<1>6. CASE Check(t) \/ HandlerSucceeds(t) \/ Mark(t) \/ ToDlq(t) \/ DlqFails(t)
    BY <1>6 DEF Check, HandlerSucceeds, Mark, ToDlq, DlqFails, Goto, InHand, BusInv, TypeOK
<1> QED BY <1>3, <1>4, <1>5, <1>6 DEF HandleStep, FaultStep

\* What it does to the group: an acknowledgement takes an entry from the pending list.
LEMMA ThreadStepBroker ==
    ASSUME BusInv, NEW t \in Threads, HandleStep(t) \/ FaultStep(t)
    PROVE  /\ UNCHANGED <<stream, created, first, cursor, up, overlapped>>
           /\ \A g \in Groups : pel'[g] \subseteq pel[g]
           /\ \A g \in Groups : \A e \in pel[g] \ pel'[g] : tpc[t] = "ack" /\ g = Group(t) /\ e = cur[t]
<1>1. CASE Ack(t)  BY <1>1 DEF Ack, BusInv, TypeOK
<1>2. CASE UNCHANGED <<broker, up, overlapped>>  BY <1>2 DEF broker
<1> QED BY <1>1, <1>2 DEF HandleStep, FaultStep, Check, HandlerSucceeds, HandlerFails, Mark, ToDlq,
           CheckFails, MarkFails, DlqFails, AckFails, broker

\* And to the effects: one more run of the entry in hand, or a key or a dead letter for it.
LEMMA ThreadStepEffects ==
    ASSUME BusInv, NEW t \in Threads, HandleStep(t) \/ FaultStep(t)
    PROVE  /\ \A g \in Groups, e \in Entries :
                 runs'[g][e] = runs[g][e] \/ (HandlerSucceeds(t) /\ g = Group(t) /\ e = cur[t] /\ runs'[g][e] = runs[g][e] + 1)
           /\ dlq \subseteq dlq' /\ unwritten \subseteq unwritten'
           /\ processed' = processed \/ (Mark(t) /\ processed' = processed \cup {cur[t]})
<1>1. CASE HandlerSucceeds(t)  BY <1>1, ThreadParts DEF HandlerSucceeds, BusInv, Busy, TypeOK
<1>2. CASE Mark(t)  BY <1>2 DEF Mark
<1>3. CASE ToDlq(t)  BY <1>3 DEF ToDlq
<1>4. CASE DlqFails(t)  BY <1>4 DEF DlqFails
<1>5. CASE UNCHANGED effects  BY <1>5 DEF effects
<1> QED BY <1>1, <1>2, <1>3, <1>4, <1>5 DEF HandleStep, FaultStep, Check, HandlerFails, Ack,
           CheckFails, MarkFails, AckFails

----------------------------------------------------------------------------
(* Where the entries are                                                   *)

\* A group, its pending list and its threads know only what was delivered to it.
PlaceInv ==
    /\ created \subseteq {GroupOf[p] : p \in Processes}
    /\ \A p \in up : GroupOf[p] \in created
    /\ \A g \in Groups : cursor[g] <= stream
    /\ \A g \in Groups \ created : cursor[g] = 0
    /\ \A g \in Groups : \A e \in pel[g] : e <= cursor[g]
    /\ \A t \in Threads : \A e \in InHand(t) : e <= cursor[Group(t)]
    /\ \A g \in Groups, e \in Entries : runs[g][e] > 0 => e <= cursor[g]

\* It holds initially.
LEMMA InitPlace == Init => PlaceInv
<1> SUFFICES ASSUME Init PROVE PlaceInv  OBVIOUS
<1>1. \A t \in Threads : InHand(t) = {}  BY DEF Init, InHand
<1> QED BY <1>1 DEF Init, PlaceInv, Entries

\* It stays when cursors go forward and what comes to be known is behind them.
LEMMA PlaceKept ==
    ASSUME BusInv, BusInv', PlaceInv,
           created' \subseteq {GroupOf[p] : p \in Processes},
           \A p \in up' : GroupOf[p] \in created',
           \A g \in Groups : cursor[g] <= cursor'[g] /\ cursor'[g] <= stream',
           \A g \in Groups \ created' : cursor'[g] = 0,
           \A g \in Groups : \A e \in pel'[g] : e \in pel[g] \/ e <= cursor'[g],
           \A t \in Threads : \A e \in InHand(t)' : e \in InHand(t) \/ e <= cursor'[Group(t)],
           \A g \in Groups, e \in Entries : runs'[g][e] > 0 => runs[g][e] > 0 \/ e <= cursor'[g]
    PROVE  PlaceInv'
<1>1. /\ \A g \in Groups : cursor[g] \in Nat /\ cursor'[g] \in Nat
      /\ \A t \in Threads : Group(t) \in Groups /\ Group(t)' = Group(t)
      /\ \A e \in Entries : e \in Nat
    BY ThreadParts DEF BusInv, TypeOK, Entries, Group
<1>2. \A g \in Groups, e \in Entries : e <= cursor[g] => e <= cursor'[g]  BY <1>1
<1>3. /\ \A g \in Groups : pel[g] \subseteq Entries
      /\ \A t \in Threads : InHand(t) \subseteq Entries
    BY DEF BusInv, Busy, TypeOK, InHand
<1>4. (\A g \in Groups : \A e \in pel[g] : e <= cursor[g])'  BY <1>2, <1>3 DEF PlaceInv
<1>5. (\A t \in Threads : \A e \in InHand(t) : e <= cursor[Group(t)])'
    BY <1>1, <1>2, <1>3 DEF PlaceInv
<1>6. (\A g \in Groups, e \in Entries : runs[g][e] > 0 => e <= cursor[g])'  BY <1>2 DEF PlaceInv
<1> QED BY <1>4, <1>5, <1>6 DEF PlaceInv

\* Deliveries and starts move the cursor only forward, to what was published.
LEMMA NextPlace ==
    ASSUME BusInv, BusInv', PlaceInv, [Next]_vars
    PROVE  PlaceInv'
<1>0. /\ \A g \in Groups : cursor[g] \in Nat /\ cursor'[g] \in Nat
      /\ stream \in Nat
      /\ \A p \in Processes : GroupOf[p] \in Groups
      /\ up \subseteq Processes
    BY BusAssumption DEF BusInv, TypeOK
<1>1. CASE Publish \/ UNCHANGED vars
  <2>1. UNCHANGED <<created, cursor, pel, runs, up, cur, rest>> /\ stream <= stream'
      BY <1>0, <1>1 DEF Publish, threads, effects, vars, broker
  <2>2. \A g \in Groups : cursor[g] <= stream'  BY <1>0, <2>1 DEF PlaceInv, BusInv, TypeOK
  <2> QED BY <1>0, <2>1, <2>2, PlaceKept DEF PlaceInv, InHand
<1>2. ASSUME NEW p \in Processes, Start(p) PROVE PlaceInv'
  <2>1. /\ UNCHANGED <<stream, pel, runs, cur, rest>>
        /\ created' = created \cup {GroupOf[p]} /\ up' = up \cup {p}
      BY <1>2 DEF Start, effects, threads
  <2>2. \A g \in Groups : /\ cursor[g] <= cursor'[g] /\ cursor'[g] <= stream
                          /\ g # GroupOf[p] => cursor'[g] = cursor[g]
    <3>1. CASE GroupOf[p] \in created  BY <1>0, <1>2, <3>1 DEF Start, PlaceInv
    <3>2. CASE GroupOf[p] \notin created  BY <1>0, <1>2, <3>2 DEF Start, PlaceInv, BusInv, TypeOK
    <3> QED BY <3>1, <3>2
  <2> QED BY <1>0, <2>1, <2>2, PlaceKept DEF PlaceInv, InHand
<1>3. ASSUME NEW p \in Processes, Crash(p) PROVE PlaceInv'
  <2>1. \A t \in Threads : InHand(t)' \subseteq InHand(t)  BY <1>3 DEF Crash, InHand
  <2> QED BY <1>0, <1>3, <2>1, PlaceKept DEF Crash, broker, effects, PlaceInv
<1>4. ASSUME NEW p \in Processes, Read(p) \/ ReadFails(p) PROVE PlaceInv'
  <2> DEFINE t == <<p, "loop">>
             g == GroupOf[p]
             U == Undelivered(g)
  <2>1. t \in Threads /\ g \in Groups /\ Group(t) = g  BY ProcessThreads
  <2>2. XReadGroup(g) /\ UNCHANGED <<runs, up>> /\ p \in up  BY <1>4 DEF Read, ReadFails, effects
  <2>3. /\ cursor'[g] <= stream /\ cursor[g] < cursor'[g] /\ U \in SUBSET Entries
        /\ U = {e \in Entries : cursor[g] < e /\ e <= cursor'[g]} /\ pel'[g] = pel[g] \cup U
        /\ \A h \in Groups \ {g} : cursor'[h] = cursor[h] /\ pel'[h] = pel[h]
        /\ UNCHANGED <<stream, created>>
      BY <2>1, <2>2, XReadGroupMoves DEF BusInv
  <2>4. \A u \in Threads : InHand(u)' = InHand(u) \/ (u = t /\ InHand(u)' = U)
    <3>1. CASE Read(p)
      <4>1. Load(t, U)  BY <3>1 DEF Read
      <4> HIDE DEF t, U
      <4> QED BY <2>1, <2>3, <4>1, LoadHands
    <3>2. CASE ReadFails(p)  BY <3>2 DEF ReadFails, threads, InHand
    <3> QED BY <1>4, <3>1, <3>2
  <2> HIDE DEF t, g, U
  <2>5. g \in created  BY <2>2 DEF PlaceInv, g
  <2>6. \A h \in Groups : cursor[h] <= cursor'[h] /\ cursor'[h] <= stream'
      BY <1>0, <2>3 DEF PlaceInv
  <2>7. \A h \in Groups : \A e \in pel'[h] : e \in pel[h] \/ e <= cursor'[h]  BY <2>3
  <2>8. \A u \in Threads : \A e \in InHand(u)' : e \in InHand(u) \/ e <= cursor'[Group(u)]
      BY <2>1, <2>3, <2>4
  <2> QED BY <2>2, <2>3, <2>5, <2>6, <2>7, <2>8, PlaceKept DEF PlaceInv
<1>5. ASSUME NEW p \in Processes, NEW B \in SUBSET pel[GroupOf[p]], ReclaimBatch(p, B) PROVE PlaceInv'
  <2> DEFINE t == <<p, "reclaim">>
  <2>1. t \in Threads /\ Group(t) = GroupOf[p] /\ B \in SUBSET Entries
      BY <1>0, ProcessThreads DEF BusInv, TypeOK
  <2>2. Load(t, B) /\ UNCHANGED <<stream, created, cursor, pel, runs, up>>
      BY <1>5 DEF ReclaimBatch, broker, effects
  <2> HIDE DEF t
  <2>3. \A u \in Threads : \A e \in InHand(u)' : e \in InHand(u) \/ e <= cursor'[Group(u)]
      BY <1>0, <2>1, <2>2, LoadHands DEF PlaceInv
  <2> QED BY <1>0, <2>2, <2>3, PlaceKept DEF PlaceInv
<1>6. ASSUME NEW t \in Threads, HandleStep(t) \/ FaultStep(t) PROVE PlaceInv'
  <2>1. /\ UNCHANGED <<stream, created, cursor, up>>
        /\ \A g \in Groups : pel'[g] \subseteq pel[g]
        /\ \A u \in Threads : InHand(u)' \subseteq InHand(u)
      BY <1>6, ThreadStepBroker, ThreadStepHands
  <2>2. tpc[t] # "idle" => cur[t] <= cursor[Group(t)]
      BY BusAssumption DEF PlaceInv, InHand, BusInv, Busy, Entries
  <2>3. \A g \in Groups, e \in Entries : runs'[g][e] > 0 => runs[g][e] > 0 \/ e <= cursor'[g]
      BY <1>6, <2>1, <2>2, ThreadStepEffects, ThreadStepHands
  <2> QED BY <1>0, <2>1, <2>3, PlaceKept DEF PlaceInv
<1> QED BY <1>1, <1>2, <1>3, <1>4, <1>5, <1>6 DEF Next, ProcessStep, Reclaim

\* The key of an entry is shared by the groups, so any group may have handled it.
Settled(g, e) == (\E h \in Groups : runs[h][e] > 0) \/ <<g, e>> \in dlq \cup unwritten

\* A key, and a thread about to mark or to acknowledge, stand for an entry that is settled.
AccountInv ==
    /\ \A e \in processed : \E h \in Groups : runs[h][e] > 0
    /\ \A t \in Threads : tpc[t] = "mark" => runs[Group(t)][cur[t]] > 0
    /\ \A t \in Threads : tpc[t] = "ack" => Settled(Group(t), cur[t])
    /\ \A g \in Groups, e \in Entries : Gone(g, e) => Settled(g, e)

\* It holds initially.
LEMMA InitAccount == Init => AccountInv
<1> SUFFICES ASSUME Init PROVE AccountInv  OBVIOUS
<1>1. processed = {} /\ \A t \in Threads : tpc[t] = "idle"  BY DEF Init
<1>2. \A g \in Groups, e \in Entries : ~Gone(g, e)  BY DEF Init, Gone, Entries
<1> QED BY <1>1, <1>2 DEF AccountInv

\* What is settled stays so.
LEMMA SettledStays ==
    ASSUME BusInv, [Next]_vars
    PROVE  /\ \A g \in Groups, e \in Entries : runs[g][e] > 0 => runs'[g][e] > 0
           /\ \A g \in Groups, e \in Entries : Settled(g, e) => Settled(g, e)'
<1>1. \A g \in Groups, e \in Entries : runs[g][e] \in Nat  BY DEF BusInv, TypeOK
<1>2. CASE UNCHANGED effects  BY <1>2 DEF effects, Settled
<1>3. ASSUME NEW t \in Threads, HandleStep(t) \/ FaultStep(t)
      PROVE  /\ \A g \in Groups, e \in Entries : runs[g][e] > 0 => runs'[g][e] > 0
             /\ dlq \subseteq dlq' /\ unwritten \subseteq unwritten'
    BY <1>1, <1>3, ThreadStepEffects
<1> QED BY <1>2, <1>3 DEF Next, vars, Publish, ProcessStep, Start, Crash, Read, ReadFails, Reclaim, ReclaimBatch, Settled

\* Neither a start, a crash nor a batch settles anything or makes an entry go.
LEMMA ProcessStepAccount ==
    ASSUME BusInv, BusInv', AccountInv, NEW p \in Processes, ProcessStep(p)
    PROVE  AccountInv'
<1>1. UNCHANGED effects  BY DEF ProcessStep, Start, Crash, Read, ReadFails, Reclaim, ReclaimBatch
<1>2. \A g \in Groups, e \in Entries : Settled(g, e)' <=> Settled(g, e)
    BY <1>1 DEF effects, Settled
<1>3. \A t \in Threads : tpc'[t] \in {"mark", "ack"} => tpc'[t] = tpc[t] /\ cur'[t] = cur[t]
  <2>1. CASE Start(p)  BY <2>1 DEF Start, threads
  <2>2. CASE Crash(p)  BY <2>2 DEF Crash
  <2>3. CASE Read(p)
    <3>1. Load(<<p, "loop">>, Undelivered(GroupOf[p])) /\ Undelivered(GroupOf[p]) \in SUBSET Entries
        BY <2>3 DEF Read, Undelivered
    <3> QED BY <3>1, LoadHands, ProcessThreads
  <2>4. CASE Reclaim(p)
    <3>1. PICK B \in SUBSET pel[GroupOf[p]] : Load(<<p, "reclaim">>, B)
        BY <2>4 DEF Reclaim, ReclaimBatch
    <3>2. B \in SUBSET Entries  BY ProcessThreads DEF BusInv, TypeOK
    <3> QED BY <3>1, <3>2, LoadHands, ProcessThreads
  <2>5. CASE ReadFails(p)  BY <2>5 DEF ReadFails, threads
  <2> QED BY <2>1, <2>2, <2>3, <2>4, <2>5 DEF ProcessStep
<1>4. \A g \in Groups, e \in Entries : Gone(g, e)' => Gone(g, e)
  <2>1. CASE Start(p)
    <3>1. CASE GroupOf[p] \in created  BY <2>1, <3>1 DEF Start, Gone
    <3>2. CASE GroupOf[p] \notin created
      <4>1. \A g \in Groups : \/ first'[g] = first[g] /\ cursor'[g] = cursor[g]
                              \/ first'[g] = stream /\ cursor'[g] = stream
          BY <2>1, <3>2 DEF Start, BusInv, TypeOK
      <4>2. \A e \in Entries : ~(stream < e /\ e <= stream)
          BY BusAssumption DEF BusInv, TypeOK, Entries
      <4> QED BY <2>1, <4>1, <4>2 DEF Start, Gone
    <3> QED BY <3>1, <3>2
  <2>2. CASE Crash(p) \/ Reclaim(p)  BY <2>2 DEF Crash, Reclaim, ReclaimBatch, broker, Gone
  <2>3. CASE Read(p) \/ ReadFails(p)
    <3> DEFINE g == GroupOf[p]
    <3>1. g \in Groups /\ XReadGroup(g)  BY <2>3, ProcessThreads DEF Read, ReadFails
    <3>2. /\ Undelivered(g) = {e \in Entries : cursor[g] < e /\ e <= cursor'[g]} /\ pel'[g] = pel[g] \cup Undelivered(g)
          /\ \A h \in Groups \ {g} : cursor'[h] = cursor[h] /\ pel'[h] = pel[h]
          /\ UNCHANGED first /\ cursor[g] \in Nat /\ cursor'[g] \in Nat /\ \A e \in Entries : e \in Nat
        BY <3>1, XReadGroupMoves DEF BusInv, Entries
    <3> HIDE DEF g
    <3>3. ASSUME NEW e \in Entries, Gone(g, e)' PROVE Gone(g, e)  BY <3>2, <3>3 DEF Gone
    <3> QED BY <3>2, <3>3 DEF Gone
  <2> QED BY <2>1, <2>2, <2>3 DEF ProcessStep
<1>5. \A t \in Threads : Group(t)' = Group(t)  BY DEF Group
<1>6. (\A e \in processed : \E h \in Groups : runs[h][e] > 0)'  BY <1>1 DEF effects, AccountInv
<1>7. (\A t \in Threads : tpc[t] = "mark" => runs[Group(t)][cur[t]] > 0)'
    BY <1>1, <1>3, <1>5 DEF effects, AccountInv
<1>8. (\A t \in Threads : tpc[t] = "ack" => Settled(Group(t), cur[t]))'
  <2> SUFFICES ASSUME NEW t \in Threads, tpc'[t] = "ack" PROVE Settled(Group(t), cur[t])'  OBVIOUS
  <2>1. tpc[t] = "ack" /\ cur'[t] = cur[t]  BY <1>3
  <2> QED BY <1>1, <1>5, <2>1 DEF AccountInv, Settled, effects
<1> QED BY <1>2, <1>4, <1>6, <1>7, <1>8 DEF AccountInv

\* A thread acknowledges only what it found settled or settled itself.
LEMMA ThreadStepAccount ==
    ASSUME BusInv, AccountInv, [Next]_vars, NEW t \in Threads, HandleStep(t) \/ FaultStep(t)
    PROVE  AccountInv'
<1> DEFINE g == Group(t)
           e == cur[t]
<1>1. g \in Groups /\ e \in Entries /\ tpc[t] # "idle"
    BY ThreadParts, ThreadStepHands DEF BusInv, Busy
<1>2. /\ \A h \in Groups, f \in Entries : runs[h][f] > 0 => runs'[h][f] > 0
      /\ \A h \in Groups, f \in Entries : Settled(h, f) => Settled(h, f)'
    BY SettledStays
<1>3. \A u \in Threads : Group(u)' = Group(u) /\ Group(u) \in Groups  BY ThreadParts DEF Group
<1>4. (\A f \in processed : \E h \in Groups : runs[h][f] > 0)'
  <2>1. processed' = processed \/ (tpc[t] = "mark" /\ processed' = processed \cup {e})
      BY ThreadStepEffects DEF Mark
  <2>2. processed \subseteq Entries  BY DEF BusInv, TypeOK
  <2> QED BY <1>1, <1>2, <2>1, <2>2 DEF AccountInv
<1>5. tpc'[t] = "mark" => runs'[g][e] > 0 /\ cur'[t] = e
  <2>1. CASE HandlerSucceeds(t)
    <3>1. runs'[g][e] = runs[g][e] + 1 /\ runs[g][e] \in Nat
        BY <1>1, <2>1 DEF HandlerSucceeds, BusInv, TypeOK
    <3> QED BY <2>1, <3>1 DEF HandlerSucceeds
  <2>2. CASE Ack(t) \/ AckFails(t) \/ CheckFails(t)
    <3>1. Load(t, rest[t]) \/ Load(t, {})  BY <2>2 DEF Ack, AckFails, CheckFails
    <3>2. rest[t] \in SUBSET Entries /\ {} \in SUBSET Entries  BY DEF BusInv, TypeOK
    <3> QED BY <3>1, <3>2, LoadHands
  <2>3. CASE HandlerFails(t) \/ MarkFails(t)  BY <2>3, RetryType DEF HandlerFails, MarkFails
  <2>4. CASE Check(t) \/ Mark(t) \/ ToDlq(t) \/ DlqFails(t)
      BY <2>4 DEF Check, Mark, ToDlq, DlqFails, Goto, BusInv, TypeOK
  <2> QED BY <2>1, <2>2, <2>3, <2>4 DEF HandleStep, FaultStep
<1>6. tpc'[t] = "ack" => Settled(g, e)' /\ cur'[t] = e
  <2>1. CASE Check(t)
    <3>1. tpc'[t] = "ack" => e \in processed  BY <2>1 DEF Check, Goto, BusInv, TypeOK
    <3>2. e \in processed => Settled(g, e)  BY DEF AccountInv, Settled
    <3> QED BY <1>1, <1>2, <2>1, <3>1, <3>2 DEF Check
  <2>2. CASE Mark(t)
    <3>1. Settled(g, e)  BY <1>1, <2>2 DEF Mark, AccountInv, Settled
    <3> QED BY <1>1, <1>2, <2>2, <3>1 DEF Mark
  <2>3. CASE ToDlq(t) \/ DlqFails(t)  BY <2>3 DEF ToDlq, DlqFails, Settled
  <2>4. CASE Ack(t) \/ AckFails(t) \/ CheckFails(t)
    <3>1. Load(t, rest[t]) \/ Load(t, {})  BY <2>4 DEF Ack, AckFails, CheckFails
    <3>2. rest[t] \in SUBSET Entries /\ {} \in SUBSET Entries  BY DEF BusInv, TypeOK
    <3> QED BY <3>1, <3>2, LoadHands
  <2>5. CASE HandlerFails(t) \/ MarkFails(t)  BY <2>5, RetryType DEF HandlerFails, MarkFails
  <2>6. CASE HandlerSucceeds(t)  BY <2>6 DEF HandlerSucceeds, Goto, BusInv, TypeOK
  <2> QED BY <2>1, <2>2, <2>3, <2>4, <2>5, <2>6 DEF HandleStep, FaultStep
<1>7. \A u \in Threads \ {t} : tpc'[u] = tpc[u] /\ cur'[u] = cur[u] /\ (tpc[u] # "idle" => cur[u] \in Entries)
    BY ThreadStepHands DEF BusInv, Busy
<1>8. (\A u \in Threads : tpc[u] = "mark" => runs[Group(u)][cur[u]] > 0)'
  <2> SUFFICES ASSUME NEW u \in Threads, tpc'[u] = "mark" PROVE runs'[Group(u)][cur'[u]] > 0
      BY <1>3
  <2>1. CASE u = t  BY <1>5, <2>1
  <2>2. CASE u # t  BY <1>2, <1>3, <1>7, <2>2 DEF AccountInv
  <2> QED BY <2>1, <2>2
<1>9. (\A u \in Threads : tpc[u] = "ack" => Settled(Group(u), cur[u]))'
  <2> SUFFICES ASSUME NEW u \in Threads, tpc'[u] = "ack" PROVE Settled(Group(u), cur[u])'  OBVIOUS
  <2>1. CASE u = t  BY <1>3, <1>6, <2>1 DEF Settled
  <2>2. CASE u # t
    <3>1. cur'[u] = cur[u] /\ Settled(Group(u), cur[u]) /\ Group(u) \in Groups /\ cur[u] \in Entries
        BY <1>3, <1>7, <2>2 DEF AccountInv
    <3> QED BY <1>2, <1>3, <3>1 DEF Settled
  <2> QED BY <2>1, <2>2
<1>10. (\A h \in Groups, f \in Entries : Gone(h, f) => Settled(h, f))'
  <2> SUFFICES ASSUME NEW h \in Groups, NEW f \in Entries, Gone(h, f)' PROVE Settled(h, f)'  OBVIOUS
  <2>1. Gone(h, f) \/ f \in pel[h] \ pel'[h]  BY ThreadStepBroker DEF Gone
  <2>2. CASE Gone(h, f)  BY <1>2, <2>2 DEF AccountInv
  <2>3. CASE f \in pel[h] \ pel'[h]
    <3>1. tpc[t] = "ack" /\ h = g /\ f = e  BY <2>3, ThreadStepBroker
    <3> QED BY <1>1, <1>2, <3>1 DEF AccountInv
  <2> QED BY <2>1, <2>2, <2>3
<1> QED BY <1>4, <1>8, <1>9, <1>10 DEF AccountInv

\* Every step keeps the accounts.
LEMMA NextAccount ==
    ASSUME BusInv, BusInv', AccountInv, [Next]_vars
    PROVE  AccountInv'
<1>1. CASE Publish  BY <1>1 DEF Publish, effects, threads, AccountInv, Gone, Settled, Group
<1>2. CASE UNCHANGED vars
    BY <1>2 DEF vars, broker, effects, threads, AccountInv, Gone, Settled, Group
<1> QED BY <1>1, <1>2, ProcessStepAccount, ThreadStepAccount DEF Next

\* Every entry a group is done with was settled.
SettledWhenGone == \A g \in Groups, e \in Entries : Gone(g, e) => Settled(g, e)

\* Whatever a topic's groups, processes and faults: an entry that leaves a group's pending list
\* was handled by some group, or diverted for this one.  About handleEntry, whose key names the
\* event and not the group.
THEOREM GoneOnlyWhenSettled == Spec => []SettledWhenGone
<1>1. BusInv /\ AccountInv /\ [Next]_vars => (BusInv /\ AccountInv)'  BY NextBus, NextAccount
<1>2. AccountInv => SettledWhenGone  BY DEF AccountInv, SettledWhenGone
<1> QED BY InitBus, InitAccount, <1>1, <1>2, PTL DEF Spec

\* All processes read the topic for one group.
OneGroup == \A p, q \in Processes : GroupOf[p] = GroupOf[q]

\* Then who handled an entry is that group.
LEMMA HandledByTheGroup ==
    ASSUME OneGroup, BusInv, PlaceInv, NEW g \in Groups, NEW h \in Groups, NEW e \in Entries,
           e <= cursor[g], runs[h][e] > 0
    PROVE  g = h /\ \E p \in Processes : GroupOf[p] = g
<1>1. e <= cursor[h]  BY DEF PlaceInv
<1>2. 0 < e /\ e \in Nat /\ cursor[g] \in Nat /\ cursor[h] \in Nat  BY DEF Entries, BusInv, TypeOK
<1>3. g \in created /\ h \in created  BY <1>1, <1>2 DEF PlaceInv
<1> QED BY <1>3 DEF PlaceInv, OneGroup

\* With one group on the topic the bus keeps its promise: what is gone was handled by the group,
\* or diverted.  The run bus_groups shows that a second group breaks it.
THEOREM OneGroupHandlesWhatIsGone ==
    ASSUME OneGroup
    PROVE  Spec => []GroupHandledWhatIsGone
<1>1. Init => BusInv /\ PlaceInv /\ AccountInv  BY InitBus, InitPlace, InitAccount
<1>2. BusInv /\ PlaceInv /\ AccountInv /\ [Next]_vars => (BusInv /\ PlaceInv /\ AccountInv)'
    BY NextBus, NextPlace, NextAccount
<1>3. BusInv /\ PlaceInv /\ AccountInv => GroupHandledWhatIsGone
  <2> SUFFICES ASSUME BusInv, PlaceInv, AccountInv, NEW g \in Groups, NEW e \in Entries, Gone(g, e)
               PROVE  runs[g][e] > 0 \/ <<g, e>> \in dlq \cup unwritten
      BY DEF GroupHandledWhatIsGone
  <2>1. Settled(g, e) /\ e <= cursor[g]  BY DEF AccountInv, Gone
  <2> QED BY <2>1, HandledByTheGroup DEF Settled
<1> QED BY <1>1, <1>2, <1>3, PTL DEF Spec

----------------------------------------------------------------------------
(* Once                                                                    *)

\* What no sweep took from a thread at work has one holder in a group, and was handled only
\* if its key is set or its holder is about to set it.
OnceFor(e) ==
    /\ \A t, u \in Threads : Group(t) = Group(u) /\ e \in InHand(t) /\ e \in InHand(u) => t = u
    /\ \A g \in Groups : runs[g][e] <= 1
    /\ \A g \in Groups : runs[g][e] > 0 =>
           \/ e \in processed
           \/ \E t \in Threads : Group(t) = g /\ cur[t] = e /\ tpc[t] = "mark"
    /\ \A t \in Threads : tpc[t] = "handle" /\ cur[t] = e => runs[Group(t)][e] = 0

OnceInv ==
    faults["crash"] + faults["mark"] = 0 => \A e \in Entries \ overlapped : OnceFor(e)

\* It holds initially.
LEMMA InitOnce == Init => OnceInv
<1> SUFFICES ASSUME Init PROVE OnceInv  OBVIOUS
<1>1. \A t \in Threads : InHand(t) = {} /\ tpc[t] = "idle"  BY DEF Init, InHand
<1>2. \A g \in Groups, e \in Entries : runs[g][e] = 0  BY DEF Init
<1> QED BY <1>1, <1>2 DEF OnceInv, OnceFor

\* Faults and overlaps are not forgotten, and a crash is a fault, as a failed check or mark is.
LEMMA FaultsGrow ==
    ASSUME BusInv, [Next]_vars
    PROVE  /\ \A k \in FaultKinds : faults[k] \in Nat /\ faults'[k] \in Nat /\ faults[k] <= faults'[k]
           /\ overlapped \subseteq overlapped'
<1>1. \A k \in FaultKinds : faults[k] \in Nat  BY DEF BusInv, TypeOK
<1>2. overlapped \subseteq overlapped'
  <2>1. CASE \E p \in Processes : Reclaim(p)  BY <2>1 DEF Reclaim, ReclaimBatch
  <2>2. CASE ~\E p \in Processes : Reclaim(p)
      BY <2>2, ThreadStepBroker DEF Next, vars, Publish, ProcessStep, Start, Crash, Read, ReadFails
  <2> QED BY <2>1, <2>2
<1>3. UNCHANGED faults \/ \E k \in FaultKinds : Fault(k)
    BY DEF Next, vars, Publish, ProcessStep, Start, Crash, Read, ReadFails, Reclaim, ReclaimBatch,
       HandleStep, FaultStep, Check, HandlerSucceeds, HandlerFails, Mark, ToDlq, Ack, CheckFails, MarkFails,
       DlqFails, AckFails, FaultKinds
<1>4. ASSUME NEW k \in FaultKinds, Fault(k)
      PROVE  \A j \in FaultKinds : faults'[j] \in Nat /\ faults[j] <= faults'[j]
    BY <1>1, <1>4 DEF Fault, BusInv, TypeOK
<1> QED BY <1>1, <1>2, <1>3, <1>4

\* A crash and a failed mark count.
LEMMA FaultsCount ==
    ASSUME BusInv, NEW k \in FaultKinds, Fault(k)
    PROVE  faults'[k] = faults[k] + 1 /\ faults[k] \in Nat
BY DEF Fault, BusInv, TypeOK

\* A batch holds nothing that another thread of the group holds, unless a sweep took it.
LEMMA ProcessStepOnce ==
    ASSUME BusInv, BusInv', PlaceInv, NEW p \in Processes, ProcessStep(p), ~Crash(p),
           NEW e \in Entries, e \notin overlapped', OnceFor(e)
    PROVE  OnceFor(e)'
<1>1. UNCHANGED <<processed, runs>>
    BY DEF ProcessStep, Start, Read, ReadFails, Reclaim, ReclaimBatch, effects
<1>2. \A u \in Threads : Group(u)' = Group(u) /\ Group(u) \in Groups  BY ThreadParts DEF Group
<1>3. ASSUME NEW t \in Threads, NEW B \in SUBSET Entries, Load(t, B), tpc[t] = "idle",
             \A u \in Threads : Group(u) = Group(t) => e \notin B \/ e \notin InHand(u)
      PROVE  OnceFor(e)'
  <2>1. /\ InHand(t)' = B /\ tpc'[t] \notin {"handle", "mark", "ack"}
        /\ \A u \in Threads \ {t} : InHand(u)' = InHand(u) /\ tpc'[u] = tpc[u] /\ cur'[u] = cur[u]
      BY <1>3, LoadHands
  <2>2. (\A u, v \in Threads : Group(u) = Group(v) /\ e \in InHand(u) /\ e \in InHand(v) => u = v)'
      BY <1>2, <1>3, <2>1 DEF OnceFor
  <2>3. (\A g \in Groups : runs[g][e] > 0 =>
           \/ e \in processed
           \/ \E u \in Threads : Group(u) = g /\ cur[u] = e /\ tpc[u] = "mark")'
    <3> SUFFICES ASSUME NEW g \in Groups, runs[g][e] > 0, e \notin processed
                 PROVE  \E u \in Threads : Group(u) = g /\ cur'[u] = e /\ tpc'[u] = "mark"
        BY <1>1, <1>2
    <3>1. PICK u \in Threads : Group(u) = g /\ cur[u] = e /\ tpc[u] = "mark"  BY DEF OnceFor
    <3> QED BY <1>3, <2>1, <3>1
  <2>4. (\A u \in Threads : tpc[u] = "handle" /\ cur[u] = e => runs[Group(u)][e] = 0)'
      BY <1>1, <1>2, <2>1 DEF OnceFor
  <2> QED BY <1>1, <2>2, <2>3, <2>4 DEF OnceFor
<1>4. CASE Start(p)  BY <1>1, <1>2, <1>4 DEF Start, threads, OnceFor, InHand
<1>5. CASE Read(p)
  <2> DEFINE t == <<p, "loop">>
             U == Undelivered(GroupOf[p])
  <2>1. t \in Threads /\ Group(t) = GroupOf[p] /\ GroupOf[p] \in Groups  BY ProcessThreads
  <2>2. Load(t, U) /\ tpc[t] = "idle" /\ U \in SUBSET Entries  BY <1>5 DEF Read, Undelivered
  <2>3. \A f \in U : f \in Nat /\ cursor[GroupOf[p]] \in Nat /\ ~(f <= cursor[GroupOf[p]])
      BY <2>1 DEF Undelivered, BusInv, TypeOK, Entries
  <2>4. \A u \in Threads : Group(u) = Group(t) => e \notin U \/ e \notin InHand(u)
      BY <2>1, <2>3 DEF PlaceInv
  <2> QED BY <1>3, <2>1, <2>2, <2>4
<1>7. CASE ReadFails(p)  BY <1>1, <1>2, <1>7 DEF ReadFails, threads, OnceFor, InHand
<1>6. CASE Reclaim(p)
  <2> DEFINE t == <<p, "reclaim">>
  <2>1. PICK B \in SUBSET pel[GroupOf[p]] : ReclaimBatch(p, B)  BY <1>6 DEF Reclaim
  <2>2. t \in Threads /\ Group(t) = GroupOf[p] /\ B \in SUBSET Entries
      BY ProcessThreads DEF BusInv, TypeOK
  <2>3. Load(t, B) /\ tpc[t] = "idle"  BY <2>1 DEF ReclaimBatch
  <2>4. \A u \in Threads : Group(u) = Group(t) => e \notin B \/ e \notin InHand(u)
      BY <2>1, <2>2 DEF ReclaimBatch
  <2> QED BY <1>3, <2>2, <2>3, <2>4
<1> QED BY <1>4, <1>5, <1>6, <1>7 DEF ProcessStep

\* A thread handles an entry only while the group has not, and then goes on to set its key.
LEMMA ThreadStepOnce ==
    ASSUME BusInv, BusInv', NEW t \in Threads, HandleStep(t) \/ FaultStep(t), ~MarkFails(t),
           NEW e \in Entries, OnceFor(e)
    PROVE  OnceFor(e)'
<1> DEFINE g == Group(t)
<1>1. \A u \in Threads : Group(u)' = Group(u) /\ Group(u) \in Groups  BY ThreadParts DEF Group
<1>2. /\ \A u \in Threads : InHand(u)' \subseteq InHand(u)
      /\ \A u \in Threads \ {t} : tpc'[u] = tpc[u] /\ cur'[u] = cur[u]
    BY ThreadStepHands
<1>3. \A h \in Groups : runs[h][e] \in Nat /\ runs'[h][e] \in Nat  BY DEF BusInv, TypeOK
<1>4. \A u \in Threads : tpc[u] # "idle" => cur[u] \in InHand(u)
    BY BusAssumption DEF BusInv, Busy, InHand, Entries
<1>5. \A h \in Groups :
          \/ runs'[h][e] = runs[h][e]
          \/ HandlerSucceeds(t) /\ h = g /\ e = cur[t] /\ runs'[h][e] = runs[h][e] + 1
    BY ThreadStepEffects
<1>6. processed \subseteq processed' /\ (tpc[t] = "mark" => cur[t] \in processed')
  <2>1. tpc[t] = "mark" => Mark(t)
      BY DEF HandleStep, FaultStep, Check, HandlerSucceeds, HandlerFails, ToDlq, Ack, CheckFails, DlqFails, AckFails
  <2> QED BY <2>1, ThreadStepEffects DEF Mark
<1>7. HandlerSucceeds(t) => tpc[t] = "handle" /\ tpc'[t] = "mark" /\ cur'[t] = cur[t]
    BY DEF HandlerSucceeds, Goto, BusInv, TypeOK
<1>8. (\A u, v \in Threads : Group(u) = Group(v) /\ e \in InHand(u) /\ e \in InHand(v) => u = v)'
    BY <1>1, <1>2 DEF OnceFor
<1>9. (\A h \in Groups : runs[h][e] <= 1)'  BY <1>3, <1>5, <1>7 DEF OnceFor
<1>10. (\A h \in Groups : runs[h][e] > 0 =>
           \/ e \in processed
           \/ \E u \in Threads : Group(u) = h /\ cur[u] = e /\ tpc[u] = "mark")'
  <2> SUFFICES ASSUME NEW h \in Groups, runs'[h][e] > 0, e \notin processed'
               PROVE  \E u \in Threads : Group(u) = h /\ cur'[u] = e /\ tpc'[u] = "mark"
      BY <1>1
  <2>1. CASE runs'[h][e] = runs[h][e]
    <3>1. PICK u \in Threads : Group(u) = h /\ cur[u] = e /\ tpc[u] = "mark"
        BY <1>6, <2>1 DEF OnceFor
    <3>2. u # t  BY <1>6, <3>1
    <3> QED BY <1>2, <3>1, <3>2
  <2>2. CASE HandlerSucceeds(t) /\ h = g /\ e = cur[t]  BY <1>7, <2>2
  <2> QED BY <1>5, <2>1, <2>2
<1>11. (\A u \in Threads : tpc[u] = "handle" /\ cur[u] = e => runs[Group(u)][e] = 0)'
  <2> SUFFICES ASSUME NEW u \in Threads, tpc'[u] = "handle", cur'[u] = e PROVE runs'[Group(u)][e] = 0
      BY <1>1
  <2>1. CASE u # t
    <3>1. tpc[u] = "handle" /\ cur[u] = e /\ runs[Group(u)][e] = 0  BY <1>2, <2>1 DEF OnceFor
    <3>2. ~(HandlerSucceeds(t) /\ Group(u) = g /\ e = cur[t])  BY <1>4, <1>7, <2>1, <3>1 DEF OnceFor
    <3> QED BY <1>1, <1>5, <3>1, <3>2
  <2>2. CASE u = t
    <3>1. CASE Check(t)
      <4>1. e \notin processed /\ cur[t] = e /\ tpc[t] = "check"
          BY <2>2, <3>1 DEF Check, Goto, BusInv, TypeOK
      <4>2. ~(\E v \in Threads : Group(v) = g /\ cur[v] = e /\ tpc[v] = "mark")
          BY <1>1, <1>4, <4>1 DEF OnceFor
      <4> QED BY <1>1, <1>3, <1>5, <1>7, <2>2, <4>1, <4>2 DEF OnceFor
    <3>2. CASE HandlerFails(t)
      <4>1. cur[t] = e /\ tpc[t] = "handle" /\ UNCHANGED runs
          BY <2>2, <3>2 DEF HandlerFails, effects
      <4> QED BY <2>2, <4>1 DEF OnceFor
    <3>3. CASE Ack(t) \/ AckFails(t) \/ CheckFails(t)
      <4>1. Load(t, rest[t]) \/ Load(t, {})  BY <3>3 DEF Ack, AckFails, CheckFails
      <4>2. rest[t] \in SUBSET Entries /\ {} \in SUBSET Entries  BY DEF BusInv, TypeOK
      <4> QED BY <2>2, <4>1, <4>2, LoadHands
    <3>4. CASE HandlerSucceeds(t) \/ Mark(t) \/ ToDlq(t) \/ DlqFails(t)
        BY <2>2, <3>4 DEF HandlerSucceeds, Mark, ToDlq, DlqFails, Goto, BusInv, TypeOK
    <3> QED BY <3>1, <3>2, <3>3, <3>4 DEF HandleStep, FaultStep
  <2> QED BY <2>1, <2>2
<1> QED BY <1>8, <1>9, <1>10, <1>11 DEF OnceFor

\* Every step keeps what is handled once.
LEMMA NextOnce ==
    ASSUME BusInv, BusInv', PlaceInv, OnceInv, [Next]_vars
    PROVE  OnceInv'
<1> SUFFICES ASSUME faults'["crash"] + faults'["mark"] = 0, NEW e \in Entries, e \notin overlapped'
             PROVE  OnceFor(e)'
    BY DEF OnceInv
<1>0. {"crash", "mark"} \subseteq FaultKinds  BY DEF FaultKinds
<1>1. /\ \A k \in FaultKinds : faults[k] \in Nat /\ faults'[k] \in Nat /\ faults[k] <= faults'[k]
      /\ overlapped \subseteq overlapped'
    BY FaultsGrow
<1>2. faults["crash"] = 0 /\ faults["mark"] = 0 /\ faults'["crash"] = 0 /\ faults'["mark"] = 0
    BY <1>0, <1>1
<1>3. OnceFor(e)  BY <1>1, <1>2 DEF OnceInv
<1>4. ASSUME NEW p \in Processes, ProcessStep(p) PROVE OnceFor(e)'
  <2>1. ~Crash(p)  BY <1>0, <1>2, FaultsCount DEF Crash
  <2> QED BY <1>3, <1>4, <2>1, ProcessStepOnce
<1>5. ASSUME NEW t \in Threads, HandleStep(t) \/ FaultStep(t) PROVE OnceFor(e)'
  <2>1. ~MarkFails(t)  BY <1>0, <1>2, FaultsCount DEF MarkFails
  <2> QED BY <1>3, <1>5, <2>1, ThreadStepOnce
<1>6. CASE Publish  BY <1>3, <1>6 DEF Publish, effects, threads, OnceFor, InHand, Group
<1>7. CASE UNCHANGED vars  BY <1>3, <1>7 DEF vars, effects, threads, OnceFor, InHand, Group
<1> QED BY <1>4, <1>5, <1>6, <1>7 DEF Next

\* A group's handler succeeds twice on one entry only after a crash, a failed mark or a sweep that
\* took it from a thread at work, for any number of groups and processes.
THEOREM TwiceNeedsFault == Spec => []HandledTwiceOnlyAfterFault
<1>1. Init => BusInv /\ PlaceInv /\ OnceInv  BY InitBus, InitPlace, InitOnce
<1>2. BusInv /\ PlaceInv /\ OnceInv /\ [Next]_vars => (BusInv /\ PlaceInv /\ OnceInv)'
    BY NextBus, NextPlace, NextOnce
<1>3. BusInv /\ OnceInv => HandledTwiceOnlyAfterFault
  <2> SUFFICES ASSUME BusInv, OnceInv, NEW g \in Groups, NEW e \in Entries, runs[g][e] > 1, e \notin overlapped
               PROVE  faults["crash"] + faults["mark"] > 0
      BY DEF HandledTwiceOnlyAfterFault
  <2>1. faults["crash"] \in Nat /\ faults["mark"] \in Nat /\ runs[g][e] \in Nat
      BY DEF BusInv, TypeOK, FaultKinds
  <2>2. ~OnceFor(e)  BY <2>1 DEF OnceFor
  <2> QED BY <2>1, <2>2 DEF OnceInv
<1> QED BY <1>1, <1>2, <1>3, PTL DEF Spec

----------------------------------------------------------------------------
(* In order                                                                *)

\* The loop of the only process holds the end of what was delivered, handles it from the front,
\* and has settled what is before it; a sweep holds none of it.
OrderOf(p) ==
    LET g == GroupOf[p]  loop == <<p, "loop">>  sweep == <<p, "reclaim">>
    IN  /\ \A e \in Entries : first[g] < e /\ e <= cursor[g] /\ e \notin InHand(loop) => Settled(g, e)
        /\ tpc[loop] # "idle" => rest[loop] = {e \in Entries : cur[loop] < e /\ e <= cursor[g]}
        /\ InHand(loop) \cap InHand(sweep) = {}
        /\ \A e \in rest[loop] : runs[g][e] = 0

Alone(p) == \A q \in Processes : q = p

OrderInv ==
    \A p \in Processes :
        Alone(p) /\ faults["crash"] + faults["read"] + faults["check"] = 0 /\ overlapped = {} => OrderOf(p)

\* It holds initially.
LEMMA InitOrder == Init => OrderInv
<1> SUFFICES ASSUME Init, NEW p \in Processes PROVE OrderOf(p)  BY DEF OrderInv
<1>1. \A t \in Threads : InHand(t) = {} /\ tpc[t] = "idle" /\ rest[t] = {}  BY DEF Init, InHand
<1>2. first[GroupOf[p]] = 0 /\ cursor[GroupOf[p]] = 0  BY ProcessThreads DEF Init
<1> QED BY <1>1, <1>2, ProcessThreads DEF OrderOf, Entries

\* A process that starts has nothing in hand, nor settled before its group's first entry.
LEMMA StartOrder ==
    ASSUME BusInv, PlaceInv, NEW p \in Processes, Start(p), OrderOf(p)
    PROVE  OrderOf(p)'
<1> DEFINE g == GroupOf[p]
           loop == <<p, "loop">>
<1>1. g \in Groups /\ loop \in Threads /\ Group(loop) = g  BY ProcessThreads
<1>2. UNCHANGED <<tpc, cur, rest, runs, dlq, unwritten>>  BY DEF Start, threads, effects
<1>3. CASE g \in created  BY <1>2, <1>3 DEF Start, OrderOf, InHand, Settled
<1>4. CASE g \notin created
  <2>1. first'[g] = stream /\ cursor'[g] = stream /\ stream \in Nat
      BY <1>1, <1>4 DEF Start, BusInv, TypeOK
  <2>2. \A e \in Entries : e \in Nat /\ 0 < e  BY DEF Entries
  <2>3. cursor[g] = 0 /\ InHand(loop) \subseteq Entries
      BY <1>1, <1>4 DEF PlaceInv, BusInv, Busy, TypeOK, InHand
  <2>4. \A e \in Entries : e \notin InHand(loop)  BY <1>1, <2>2, <2>3 DEF PlaceInv
  <2>5. tpc[loop] = "idle" /\ rest[loop] = {}
    <3>1. InHand(loop) = {}  BY <2>3, <2>4
    <3>2. cur[loop] = 0  BY <3>1 DEF InHand
    <3> QED BY <1>1, <2>2, <3>2 DEF BusInv, Busy
  <2>6. InHand(loop)' = InHand(loop) /\ InHand(<<p, "reclaim">>)' = InHand(<<p, "reclaim">>)
      BY <1>2 DEF InHand
  <2> QED BY <1>2, <2>1, <2>2, <2>5, <2>6 DEF OrderOf
<1> QED BY <1>3, <1>4

\* A loop that reads has settled all before, and takes what is new in order.
LEMMA ReadOrder ==
    ASSUME BusInv, BusInv', PlaceInv, NEW p \in Processes, Read(p), OrderOf(p)
    PROVE  OrderOf(p)'
<1> DEFINE g == GroupOf[p]
           loop == <<p, "loop">>
           sweep == <<p, "reclaim">>
           U == Undelivered(g)
<1>1. g \in Groups /\ loop \in Threads /\ sweep \in Threads /\ sweep # loop /\ Group(loop) = g /\ Group(sweep) = g
    BY ProcessThreads
<1>2. XReadGroup(g) /\ Load(loop, U) /\ tpc[loop] = "idle" /\ UNCHANGED effects  BY DEF Read
<1>3. /\ cursor'[g] \in Nat /\ cursor[g] \in Nat /\ (\A e \in Entries : e \in Nat)
      /\ U # {} /\ U \in SUBSET Entries /\ UNCHANGED first
    BY <1>1, <1>2, XReadGroupMoves DEF BusInv, Entries
<1>4. cursor[g] < cursor'[g] /\ U = {e \in Entries : cursor[g] < e /\ e <= cursor'[g]}
    BY <1>1, <1>2, XReadGroupMoves DEF BusInv
<1> HIDE DEF g, loop, sweep, U
<1>5. /\ InHand(loop)' = U /\ InHand(sweep)' = InHand(sweep)
      /\ cur'[loop] \in U /\ (\A f \in U : cur'[loop] <= f) /\ rest'[loop] = U \ {cur'[loop]}
    BY <1>1, <1>2, <1>3, LoadHands, LoadTakes DEF BusInv
<1>6. InHand(loop) = {}  BY <1>1, <1>2 DEF BusInv, Busy, InHand
<1>7. ASSUME NEW e \in Entries, first'[g] < e, e <= cursor'[g], e \notin U PROVE Settled(g, e)'
  <2>1. e <= cursor[g] /\ first[g] < e  BY <1>3, <1>4, <1>7
  <2>2. Settled(g, e)  BY <1>6, <2>1 DEF OrderOf, g, loop
  <2> QED BY <1>2, <2>2 DEF Settled, effects
<1>8. rest'[loop] = {e \in Entries : cur'[loop] < e /\ e <= cursor'[g]}
  <2>1. ASSUME NEW e \in rest'[loop] PROVE e \in Entries /\ cur'[loop] < e /\ e <= cursor'[g]
    <3>1. e \in Entries /\ e \in Nat /\ cur'[loop] \in Nat /\ cur'[loop] <= e /\ e # cur'[loop] /\ e <= cursor'[g]
        BY <1>3, <1>4, <1>5, <2>1
    <3> QED BY <3>1
  <2>2. ASSUME NEW e \in Entries, cur'[loop] < e, e <= cursor'[g] PROVE e \in rest'[loop]
    <3>1. e \in Nat /\ cur'[loop] \in Nat /\ cursor[g] < cur'[loop]  BY <1>3, <1>4, <1>5
    <3>2. cursor[g] < e /\ e # cur'[loop]  BY <1>3, <2>2, <3>1
    <3> QED BY <1>4, <1>5, <2>2, <3>2
  <2> QED BY <2>1, <2>2
<1>9. U \cap InHand(sweep) = {}  BY <1>1, <1>3, <1>4 DEF PlaceInv
<1>10. \A e \in rest'[loop] : runs'[g][e] = 0
  <2> SUFFICES ASSUME NEW e \in rest'[loop] PROVE runs[g][e] = 0  BY <1>2 DEF effects
  <2>1. e \in Entries /\ e \in Nat /\ cursor[g] < e  BY <1>3, <1>4, <1>5
  <2>2. runs[g][e] \in Nat /\ ~(runs[g][e] > 0)  BY <1>1, <1>3, <2>1 DEF PlaceInv, BusInv, TypeOK
  <2> QED BY <2>2
<1> QED BY <1>5, <1>7, <1>8, <1>9, <1>10 DEF OrderOf, g, loop, sweep

\* A sweep that overtakes nobody takes nothing the loop has in hand.
LEMMA ReclaimOrder ==
    ASSUME BusInv, NEW p \in Processes, Reclaim(p), overlapped' = {}, OrderOf(p)
    PROVE  OrderOf(p)'
<1> DEFINE g == GroupOf[p]
           loop == <<p, "loop">>
           sweep == <<p, "reclaim">>
<1>1. g \in Groups /\ loop \in Threads /\ sweep \in Threads /\ sweep # loop /\ Group(loop) = g
    BY ProcessThreads
<1>2. PICK B \in SUBSET pel[g] : ReclaimBatch(p, B)  BY DEF Reclaim
<1>3. Load(sweep, B) /\ UNCHANGED <<broker, effects>> /\ B \in SUBSET Entries
    BY <1>1, <1>2 DEF ReclaimBatch, BusInv, TypeOK
<1>4. InHand(sweep)' = B /\ InHand(loop)' = InHand(loop)  BY <1>1, <1>3, LoadHands
<1>5. tpc'[loop] = tpc[loop] /\ cur'[loop] = cur[loop] /\ rest'[loop] = rest[loop]
    BY <1>1, <1>3, LoadTakes DEF BusInv
<1>6. B \cap InHand(loop) = {}  BY <1>1, <1>2 DEF ReclaimBatch
<1> HIDE DEF g, loop, sweep
<1>7. \A e \in Entries : Settled(g, e)' <=> Settled(g, e)  BY <1>3 DEF Settled, effects
<1> QED BY <1>3, <1>4, <1>5, <1>6, <1>7 DEF OrderOf, broker, effects, g, loop, sweep

\* The loop comes to the next entry when the one before it is settled.
LEMMA ThreadStepOrder ==
    ASSUME BusInv, BusInv', AccountInv, [Next]_vars, NEW p \in Processes, Alone(p), OrderOf(p),
           NEW t \in Threads, HandleStep(t) \/ FaultStep(t), ~CheckFails(t)
    PROVE  OrderOf(p)'
<1> DEFINE g == GroupOf[p]
           loop == <<p, "loop">>
           sweep == <<p, "reclaim">>
<1>1. g \in Groups /\ loop \in Threads /\ sweep \in Threads /\ sweep # loop /\ Group(loop) = g /\ Group(sweep) = g
    BY ProcessThreads
<1>2. t = loop \/ t = sweep  BY DEF Threads, Alone
<1>3. /\ \A u \in Threads : InHand(u)' \subseteq InHand(u)
      /\ \A u \in Threads \ {t} : tpc'[u] = tpc[u] /\ cur'[u] = cur[u] /\ rest'[u] = rest[u]
      /\ tpc[t] # "idle"
    BY ThreadStepHands
<1>4. UNCHANGED <<first, cursor>>  BY ThreadStepBroker
<1>5. \A e \in Entries : Settled(g, e) => Settled(g, e)'  BY <1>1, SettledStays
<1>6. cur[t] \in Entries /\ cur[t] \in Nat /\ cur[t] \in InHand(t) /\ \A e \in Entries : e \in Nat
    BY <1>3, BusAssumption DEF BusInv, Busy, InHand, Entries
<1>7. \A e \in Entries : runs'[g][e] = runs[g][e] \/ e = cur[t]  BY <1>1, ThreadStepEffects
<1>8. rest[loop] \subseteq InHand(loop) /\ rest[loop] \subseteq Entries
    BY <1>1 DEF InHand, BusInv, TypeOK
<1> HIDE DEF g, loop, sweep
<1> USE DEF OrderOf, g, loop, sweep
<1>9. cur[t] \notin rest[loop]
  <2>1. CASE t = sweep  BY <1>6, <1>8, <2>1
  <2>2. CASE t = loop  BY <1>3, <1>6, <2>2
  <2> QED BY <1>2, <2>1, <2>2
<1>10. CASE t = sweep
  <2>1. InHand(loop)' = InHand(loop) /\ tpc'[loop] = tpc[loop] /\ cur'[loop] = cur[loop] /\ rest'[loop] = rest[loop]
      BY <1>1, <1>3, <1>10 DEF InHand
  <2>2. InHand(sweep)' \subseteq InHand(sweep)  BY <1>1, <1>3
  <2>3. \A e \in rest[loop] : runs'[g][e] = 0  BY <1>7, <1>8, <1>9
  <2> QED BY <1>4, <1>5, <2>1, <2>2, <2>3
<1>11. CASE t = loop /\ ~(Ack(t) \/ AckFails(t))
  <2>1. UNCHANGED <<cur, rest>>
      BY <1>11 DEF HandleStep, FaultStep, Check, HandlerSucceeds, HandlerFails, Mark, ToDlq, MarkFails, DlqFails
  <2>2. InHand(loop)' = InHand(loop) /\ InHand(sweep)' = InHand(sweep)  BY <2>1 DEF InHand
  <2>3. \A e \in rest[loop] : runs'[g][e] = 0  BY <1>7, <1>8, <1>9
  <2> QED BY <1>3, <1>4, <1>5, <1>11, <2>1, <2>2, <2>3
<1>12. CASE t = loop /\ (Ack(t) \/ AckFails(t))
  <2>1. Load(t, rest[t]) /\ tpc[t] = "ack" /\ UNCHANGED runs  BY <1>12 DEF Ack, AckFails, effects
  <2>2. InHand(loop)' = rest[loop] /\ InHand(sweep)' = InHand(sweep)
      BY <1>1, <1>8, <1>12, <2>1, LoadHands
  <2>3. Settled(g, cur[loop])  BY <1>1, <1>12, <2>1 DEF AccountInv
  <2>4. \A e \in InHand(loop) \ rest[loop] : e = cur[loop]  BY DEF InHand
  <2>5. /\ rest[loop] = {} => tpc'[loop] = "idle" /\ rest'[loop] = {}
        /\ rest[loop] # {} => /\ cur'[loop] \in rest[loop] /\ (\A f \in rest[loop] : cur'[loop] <= f)
                              /\ rest'[loop] = rest[loop] \ {cur'[loop]}
      BY <1>1, <1>8, <1>12, <2>1, LoadTakes DEF BusInv
  <2>6. rest[loop] = {e \in Entries : cur[loop] < e /\ e <= cursor[g]}  BY <1>3, <1>12
  <2>7. ASSUME NEW e \in Entries, first[g] < e, e <= cursor[g], e \notin rest[loop] PROVE Settled(g, e)'
      BY <1>5, <2>3, <2>4, <2>7
  <2>8. tpc'[loop] # "idle" => rest'[loop] = {e \in Entries : cur'[loop] < e /\ e <= cursor[g]}
    <3> SUFFICES ASSUME rest[loop] # {} PROVE rest'[loop] = {e \in Entries : cur'[loop] < e /\ e <= cursor[g]}
        BY <2>5
    <3>1. cur'[loop] \in Nat /\ cur[loop] < cur'[loop] /\ cur[loop] \in Nat
        BY <1>6, <1>8, <1>12, <2>5, <2>6
    <3>2. ASSUME NEW e \in rest[loop], e # cur'[loop] PROVE cur'[loop] < e
      <4>1. e \in Nat /\ cur'[loop] <= e  BY <1>6, <1>8, <2>5, <3>2
      <4> QED BY <3>1, <3>2, <4>1
    <3>3. ASSUME NEW e \in Entries, cur'[loop] < e, e <= cursor[g] PROVE e \in rest[loop] /\ e # cur'[loop]
      <4>1. e \in Nat /\ cur[loop] < e  BY <1>6, <3>1, <3>3
      <4> QED BY <2>6, <3>1, <3>3, <4>1
    <3> QED BY <2>5, <2>6, <3>2, <3>3
  <2>9. \A e \in rest'[loop] : runs'[g][e] = 0  BY <2>1, <2>5
  <2>10. rest[loop] \cap InHand(sweep) = {}  BY <1>8
  <2> QED BY <1>4, <2>2, <2>7, <2>8, <2>9, <2>10
<1> QED BY <1>2, <1>10, <1>11, <1>12

\* Every step keeps the order.
LEMMA NextOrder ==
    ASSUME BusInv, BusInv', PlaceInv, AccountInv, OrderInv, [Next]_vars
    PROVE  OrderInv'
<1> SUFFICES ASSUME NEW p \in Processes, Alone(p), faults'["crash"] + faults'["read"] + faults'["check"] = 0, overlapped' = {}
             PROVE  OrderOf(p)'
    BY DEF OrderInv, Alone
<1>0. {"crash", "read", "check"} \subseteq FaultKinds  BY DEF FaultKinds
<1>1. /\ \A k \in FaultKinds : faults[k] \in Nat /\ faults'[k] \in Nat /\ faults[k] <= faults'[k]
      /\ overlapped \subseteq overlapped'
    BY FaultsGrow
<1>2. \A k \in {"crash", "read", "check"} : faults[k] = 0 /\ faults'[k] = 0
  <2> DEFINE low(k) == faults[k]
             high(k) == faults'[k]
  <2>1. \A k \in {"crash", "read", "check"} : low(k) \in Nat /\ high(k) \in Nat /\ low(k) <= high(k)
      BY <1>0, <1>1
  <2>2. high("crash") + high("read") + high("check") = 0  OBVIOUS
  <2> HIDE DEF low, high
  <2>3. \A k \in {"crash", "read", "check"} : low(k) = 0 /\ high(k) = 0  BY <2>1, <2>2
  <2> QED BY <2>3 DEF low, high
<1>3. OrderOf(p)  BY <1>1, <1>2 DEF OrderInv
<1>4. ASSUME NEW q \in Processes, ProcessStep(q) PROVE OrderOf(p)'
  <2>1. ~Crash(q) /\ ~ReadFails(q) /\ q = p  BY <1>0, <1>2, FaultsCount DEF Crash, ReadFails, Alone
  <2> QED BY <1>3, <1>4, <2>1, StartOrder, ReadOrder, ReclaimOrder DEF ProcessStep
<1>5. ASSUME NEW t \in Threads, HandleStep(t) \/ FaultStep(t) PROVE OrderOf(p)'
  <2>1. ~CheckFails(t)  BY <1>0, <1>2, FaultsCount DEF CheckFails
  <2> QED BY <1>3, <1>5, <2>1, ThreadStepOrder
<1>6. CASE Publish  BY <1>3, <1>6 DEF Publish, effects, threads, OrderOf, InHand, Settled
<1>7. CASE UNCHANGED vars
    BY <1>3, <1>7 DEF vars, broker, effects, threads, OrderOf, InHand, Settled
<1> QED BY <1>4, <1>5, <1>6, <1>7 DEF Next

\* With one group on the topic, repeats and reorderings have the causes that HandledOnceInOrder
\* names and no other, for any number of processes, entries and faults.
THEOREM OneGroupHandlesInOrder ==
    ASSUME OneGroup
    PROVE  Spec => []HandledOnceInOrder
<1>1. Init => BusInv /\ PlaceInv /\ AccountInv /\ OrderInv
    BY InitBus, InitPlace, InitAccount, InitOrder
<1>2. /\ BusInv /\ PlaceInv /\ AccountInv /\ OrderInv /\ [Next]_vars
      => (BusInv /\ PlaceInv /\ AccountInv /\ OrderInv)'
    BY NextBus, NextPlace, NextAccount, NextOrder
<1>3. BusInv /\ PlaceInv /\ OrderInv => HandledInOrder
  <2> SUFFICES ASSUME BusInv, PlaceInv, OrderInv, NEW g \in Groups, NEW e \in Entries, NEW f \in Entries,
                      \A p, q \in Processes : GroupOf[p] = g /\ GroupOf[q] = g => p = q,
                      faults["crash"] + faults["read"] + faults["check"] = 0, overlapped = {},
                      runs[g][e] > 0, first[g] < f, f < e
               PROVE  runs[g][f] > 0 \/ <<g, f>> \in dlq \cup unwritten
      BY DEF HandledInOrder
  <2>1. e <= cursor[g] /\ e \in Nat /\ f \in Nat /\ cursor[g] \in Nat
      BY DEF PlaceInv, BusInv, TypeOK, Entries
  <2>2. f <= cursor[g]  BY <2>1
  <2>3. PICK p \in Processes : GroupOf[p] = g  BY <2>1, HandledByTheGroup
  <2>4. Alone(p)  BY <2>3 DEF OneGroup, Alone
  <2>5. OrderOf(p)  BY <2>4 DEF OrderInv
  <2> DEFINE loop == <<p, "loop">>
  <2>6. loop \in Threads  BY ProcessThreads
  <2>7. f \notin InHand(loop)
    <3> SUFFICES ASSUME f \in InHand(loop) PROVE FALSE  OBVIOUS
    <3>1. tpc[loop] # "idle" /\ cur[loop] \in Nat  BY <2>6 DEF BusInv, Busy, InHand, Entries
    <3>2. rest[loop] = {n \in Entries : cur[loop] < n /\ n <= cursor[g]}
        BY <2>3, <2>5, <3>1 DEF OrderOf
    <3>3. cur[loop] <= f  BY <2>1, <3>1, <3>2 DEF InHand
    <3>4. e \in rest[loop]  BY <2>1, <3>1, <3>2, <3>3
    <3> QED BY <2>3, <2>5, <3>4 DEF OrderOf
  <2>8. Settled(g, f)  BY <2>2, <2>3, <2>5, <2>7 DEF OrderOf
  <2> QED BY <2>2, <2>8, HandledByTheGroup DEF Settled
<1>4. Spec => []HandledInOrder  BY <1>1, <1>2, <1>3, PTL DEF Spec
<1>5. HandledTwiceOnlyAfterFault /\ HandledInOrder => HandledOnceInOrder  BY DEF HandledOnceInOrder
<1> QED BY <1>4, <1>5, TwiceNeedsFault, PTL
----------------------------------------------------------------------------
(* Kafka and the memory: the invariant                                     *)

busesVars  == <<taskVars, busVars>>
BusesStart == TasksInit /\ BusInit
BusesSpec  == BusesStart /\ [][BusNext]_busesVars

Offsets    == 1..Len(topic)
Eaters == GroupNames \X (1..2)

BusesTyped ==
    /\ way \in {"kafka", "base", "memory"}
    /\ topic \in Seq({"ok", "malformed", "untenanted"}) /\ Len(topic) <= MaxPublished
    /\ holder \in [GroupNames -> 1..2]
    /\ committed \in [GroupNames -> 0..Len(topic)]
    /\ eating \in [Eaters -> {Idle} \cup [at : {"mark", "handle", "handling", "dlq", "done"}, event : Offsets]]
    /\ idemKeys \subseteq Offsets
    /\ dead \subseteq GroupNames \X Offsets
    /\ waiting \in Seq(Offsets)
    /\ delivering \subseteq [event : Offsets, turn : DOMAIN BusGroups]
    /\ begun \in [GroupNames -> Seq(Offsets)]
    /\ failures \in Nat

\* A consumer is about to run the handler for e.
Takes(c, e) == eating[c].at = "handle" /\ eating[c].event = e

\* What a handler has seen, or is about to, is marked, and seen by one group once.
MarkedInv ==
    /\ \A g \in GroupNames, e \in Offsets : Ran(g, e) => e \in idemKeys
    /\ \A c \in Eaters, e \in Offsets : Takes(c, e) => e \in idemKeys /\ \A g \in GroupNames : ~Ran(g, e)
    /\ \A c, d \in Eaters, e \in Offsets : Takes(c, e) /\ Takes(d, e) => c = d
    /\ OneGroupTakesIt
    /\ \A g \in GroupNames : \A i, j \in DOMAIN begun[g] : i < j => begun[g][i] # begun[g][j]

\* Without a failure nobody takes over: the first consumer works at the event after the committed one.
AtWorkInv ==
    failures = 0 => \A g \in GroupNames :
       /\ holder[g] = 1 /\ eating[<<g, 2>>] = Idle
       /\ eating[<<g, 1>>] # Idle => eating[<<g, 1>>].event = committed[g] + 1
       /\ \A i \in DOMAIN begun[g] :
              \/ begun[g][i] <= committed[g]
              \/ begun[g][i] = committed[g] + 1 /\ eating[<<g, 1>>].at \in {"handling", "done"}
       /\ \A i, j \in DOMAIN begun[g] : i < j => begun[g][i] < begun[g][j]

\* Why a group that is past e has not handled it.
Excused(g, e) ==
    \/ topic[e] = "malformed" /\ way = "kafka"
    \/ topic[e] # "ok" /\ way = "base" /\ <<g, e>> \in dead
    \/ \E h \in GroupNames \ {g}, n \in 1..2 : Ran(h, e) \/ Takes(<<h, n>>, e)

\* Whatever is handled was begun, and whatever is given up or done is accounted for.
AtEase(c) == \A e \in Offsets : eating[c].event = e =>
    /\ eating[c].at = "dlq" => way = "base" /\ topic[e] # "ok"
    /\ eating[c].at = "handling" => Ran(c[1], e)
    /\ eating[c].at = "done" => Ran(c[1], e) \/ Excused(c[1], e)

\* Without a failure a mark is followed by a handler, and whatever is committed is accounted for.
ExcusedInv ==
    failures = 0 =>
       /\ \A e \in idemKeys : \E h \in GroupNames, n \in 1..2 : Ran(h, e) \/ Takes(<<h, n>>, e)
       /\ \A c \in Eaters : AtEase(c)
       /\ \A g \in GroupNames : \A e \in 1..committed[g] : Ran(g, e) \/ Excused(g, e)

KafkaInv == waiting = <<>> /\ delivering = {} /\ MarkedInv /\ AtWorkInv /\ ExcusedInv

StillWaits(e) == \E i \in DOMAIN waiting : waiting[i] = e

\* In memory, an event is delivered once, to one group after the other.
TurnInv ==
    /\ \A i, j \in DOMAIN waiting : i < j => waiting[i] < waiting[j]
    /\ \A d \in delivering : ~StillWaits(d.event)
    /\ \A d, x \in delivering : d.event = x.event => d = x
    /\ \A g \in GroupNames, e \in Offsets : Ran(g, e) => ~StillWaits(e)
    /\ \A k \in DOMAIN BusGroups : \A d \in delivering : Ran(BusGroups[k], d.event) => k <= d.turn
    /\ \A g \in GroupNames : \A i, j \in DOMAIN begun[g] : i < j => begun[g][i] # begun[g][j]

\* The group that subscribed first takes them as they come.
FirstInv ==
    LET ran == begun[BusGroups[1]] IN
    /\ \A i, j \in DOMAIN ran : i < j => ran[i] < ran[j]
    /\ \A i \in DOMAIN ran, j \in DOMAIN waiting : ran[i] < waiting[j]

\* While the process lives, an event waits, or has been with every group up to its turn.
ReachedInv ==
    failures = 0 => \A k \in DOMAIN BusGroups, e \in Offsets :
       ~StillWaits(e) /\ (\A d \in delivering : d.event = e => k <= d.turn) => Ran(BusGroups[k], e)

MemoryInv == (\A c \in Eaters : eating[c] = Idle) /\ TurnInv /\ FirstInv /\ ReachedInv

BusesInv == BusesTyped /\ (way # "memory" => KafkaInv) /\ (way = "memory" => MemoryInv)

LEMMA GroupsAre ==
    /\ BusGroups \in Seq(GroupNames) /\ BusGroups # <<>> /\ Len(BusGroups) \in Nat \ {0}
    /\ DOMAIN BusGroups = 1..Len(BusGroups) /\ 1 \in DOMAIN BusGroups
    /\ \A k \in DOMAIN BusGroups : BusGroups[k] \in GroupNames
    /\ \A g \in GroupNames : \E k \in DOMAIN BusGroups : BusGroups[k] = g
    /\ \A i, j \in DOMAIN BusGroups : BusGroups[i] = BusGroups[j] => i = j
    /\ MaxPublished \in Nat
<1>1. BusGroups \in Seq(GroupNames) /\ BusGroups # <<>>  BY BusesAssumption DEF GroupNames
<1>2. Len(BusGroups) \in Nat /\ DOMAIN BusGroups = 1..Len(BusGroups) /\ Len(BusGroups) # 0
    BY <1>1, LenProperties, EmptySeq
<1> QED BY <1>1, <1>2, BusesAssumption DEF GroupNames

LEMMA Lengthens ==
    ASSUME NEW S, NEW s \in Seq(S), NEW x \in S
    PROVE  /\ Append(s, x) \in Seq(S) /\ DOMAIN s = 1..Len(s) /\ Len(s) \in Nat
           /\ DOMAIN Append(s, x) = 1..(Len(s) + 1) /\ Len(Append(s, x)) = Len(s) + 1
           /\ Append(s, x)[Len(s) + 1] = x
           /\ \A i \in 1..Len(s) : Append(s, x)[i] = s[i] /\ s[i] \in S
    BY AppendProperties, LenProperties

LEMMA Widens == ASSUME NEW S, NEW T, S \subseteq T, NEW s \in Seq(S) PROVE s \in Seq(T)
<1>1. DOMAIN s = 1..Len(s) /\ Len(s) \in Nat /\ \A i \in 1..Len(s) : s[i] \in S
    BY LenProperties, ElementOfSeq
<1>2. s = [i \in 1..Len(s) |-> s[i]]  BY <1>1, SeqDef
<1> QED BY <1>1, <1>2, SeqDef

\* What a group has begun, one event later.
LEMMA RunsHandler ==
    ASSUME BusesTyped, NEW g \in GroupNames, NEW e \in Offsets, begun' = [begun EXCEPT ![g] = Append(@, e)]
    PROVE  /\ begun' \in [GroupNames -> Seq(Offsets)]
           /\ \A h \in GroupNames : h # g => begun'[h] = begun[h]
           /\ begun'[g] = Append(begun[g], e) /\ begun[g] \in Seq(Offsets)
           /\ \A h \in GroupNames, f \in Nat : Ran(h, f)' <=> Ran(h, f) \/ (h = g /\ f = e)
<1>1. begun[g] \in Seq(Offsets) /\ begun'[g] = Append(begun[g], e) /\ \A h \in GroupNames : h # g => begun'[h] = begun[h]
    BY DEF BusesTyped
<1>2. begun' \in [GroupNames -> Seq(Offsets)]
  <2>1. Append(begun[g], e) \in Seq(Offsets)  BY <1>1, Lengthens
  <2> QED BY <2>1 DEF BusesTyped
<1>3. ASSUME NEW f \in Nat PROVE Ran(g, f)' <=> Ran(g, f) \/ f = e
  <2> DEFINE s == begun[g]
             n == Len(s) + 1
  <2>1. /\ DOMAIN s = 1..Len(s) /\ DOMAIN Append(s, e) = 1..(Len(s) + 1) /\ Append(s, e)[Len(s) + 1] = e
        /\ Len(s) \in Nat /\ \A i \in 1..Len(s) : Append(s, e)[i] = s[i]
      BY <1>1, Lengthens
  <2>2. Ran(g, f)' <=> \E i \in DOMAIN Append(s, e) : Append(s, e)[i] = f  BY <1>1 DEF Ran
  <2>3. Ran(g, f) <=> \E i \in DOMAIN s : s[i] = f  BY DEF Ran
  <2> HIDE DEF s
  <2> QED BY <2>1, <2>2, <2>3
<1>4. ASSUME NEW h \in GroupNames, h # g, NEW f \in Nat PROVE Ran(h, f)' <=> Ran(h, f)
    BY <1>1, <1>4 DEF Ran
<1> QED BY <1>1, <1>2, <1>3, <1>4

\* A new event after others is later, and another, than each of them.
LEMMA RunsAnother ==
    ASSUME NEW S, NEW s \in Seq(S), NEW x \in S, \A i, j \in DOMAIN s : i < j => s[i] # s[j], \A i \in DOMAIN s : s[i] # x
    PROVE  \A i, j \in DOMAIN Append(s, x) : i < j => Append(s, x)[i] # Append(s, x)[j]
    BY Lengthens

LEMMA RunsLater ==
    ASSUME NEW S \in SUBSET Nat, NEW s \in Seq(S), NEW x \in S, \A i, j \in DOMAIN s : i < j => s[i] < s[j],
           \A i \in DOMAIN s : s[i] < x
    PROVE  \A i, j \in DOMAIN Append(s, x) : i < j => Append(s, x)[i] < Append(s, x)[j]
    BY Lengthens

LEMMA OffsetsAre == BusesTyped => /\ Len(topic) \in Nat /\ Offsets \subseteq Nat
                                  /\ DOMAIN topic = Offsets /\ \A e \in Offsets : topic[e] \in {"ok", "malformed", "untenanted"}
<1> SUFFICES ASSUME BusesTyped PROVE /\ Len(topic) \in Nat /\ Offsets \subseteq Nat
                                     /\ DOMAIN topic = Offsets /\ \A e \in Offsets : topic[e] \in {"ok", "malformed", "untenanted"}
    OBVIOUS
<1>1. topic \in Seq({"ok", "malformed", "untenanted"})  BY DEF BusesTyped
<1> QED BY <1>1, LenProperties, ElementOfSeq DEF Offsets

EatingAs == {Idle} \cup [at : {"mark", "handle", "handling", "dlq", "done"}, event : Offsets]

LEMMA EatsMoves ==
    ASSUME BusesTyped, NEW c \in Eaters, NEW next \in EatingAs, Eats(c, next)
    PROVE  /\ eating' \in [Eaters -> EatingAs] /\ eating'[c] = next
           /\ \A d \in Eaters : d # c => eating'[d] = eating[d]
    BY DEF BusesTyped, Eats, EatingAs

LEMMA EaterIs ==
    ASSUME BusesTyped, NEW c \in Eaters
    PROVE  /\ c = <<c[1], c[2]>> /\ c[1] \in GroupNames /\ c[2] \in 1..2
           /\ eating[c].at = "idle" <=> eating[c] = Idle
           /\ eating[c].at # "idle" => /\ eating[c] \in [at : {"mark", "handle", "handling", "dlq", "done"}, event : Offsets]
                                       /\ eating[c].event \in Offsets /\ eating[c].event \in Nat
<1>1. eating[c] \in {Idle} \cup [at : {"mark", "handle", "handling", "dlq", "done"}, event : Offsets]
    BY DEF BusesTyped
<1>2. Idle.at = "idle"  BY DEF Idle
<1> QED BY <1>1, <1>2, OffsetsAre DEF Eaters

\* Where nothing is begun or marked, and nobody new is about to begin, the marks are still right.
LEMMA MarkedStays ==
    ASSUME MarkedInv, UNCHANGED <<way, topic, begun, idemKeys>>, \A c \in Eaters, e \in Offsets : Takes(c, e)' => Takes(c, e)
    PROVE  MarkedInv'
<1>1. Offsets' = Offsets /\ (\A g \in GroupNames, e \in Offsets : Ran(g, e)' <=> Ran(g, e)) /\ OneGroupTakesIt'
    BY DEF Offsets, Ran, MarkedInv, OneGroupTakesIt
<1> QED BY <1>1 DEF MarkedInv

LEMMA ExcusedStays ==
    ASSUME NEW g \in GroupNames, NEW e \in Offsets, Excused(g, e), way' = way, topic'[e] = topic[e], dead \subseteq dead',
           \A h \in GroupNames : Ran(h, e) => Ran(h, e)',
           \A h \in GroupNames, n \in 1..2 : Takes(<<h, n>>, e) => Takes(<<h, n>>, e)' \/ Ran(h, e)'
    PROVE  Excused(g, e)'
<1>1. CASE \E h \in GroupNames \ {g}, n \in 1..2 : Ran(h, e) \/ Takes(<<h, n>>, e)
    BY <1>1 DEF Excused
<1>2. CASE ~ \E h \in GroupNames \ {g}, n \in 1..2 : Ran(h, e) \/ Takes(<<h, n>>, e)
    BY <1>2 DEF Excused
<1> QED BY <1>1, <1>2

LEMMA FaultyCounts == BusesTyped /\ Faulty => failures' \in Nat /\ failures' # 0
    BY DEF BusesTyped, Faulty

LEMMA PublishKeeps ==
    ASSUME BusesInv, NEW form \in {"ok", "malformed", "untenanted"}, PublishEnvelope(form)
    PROVE  BusesInv'
<1> USE DEF BusesInv
<1>1. /\ Len(topic) < MaxPublished /\ topic' = Append(topic, form)
      /\ waiting' = IF way = "memory" THEN Append(waiting, Len(topic) + 1) ELSE waiting
      /\ UNCHANGED <<failures, way, holder, committed, eating, idemKeys, dead, delivering, begun>>
    BY DEF PublishEnvelope, taskVars
<1>2. /\ topic' \in Seq({"ok", "malformed", "untenanted"}) /\ Len(topic') = Len(topic) + 1 /\ Len(topic) \in Nat
      /\ \A e \in Offsets : topic'[e] = topic[e]
  <2>1. topic \in Seq({"ok", "malformed", "untenanted"})  BY DEF BusesTyped
  <2> QED BY <1>1, <2>1, Lengthens DEF Offsets
<1>3. Offsets' = Offsets \cup {Len(topic) + 1} /\ Offsets \subseteq Offsets' /\ Offsets' \subseteq Nat /\ Len(topic) + 1 \notin Offsets
    BY <1>2 DEF Offsets
<1>4. begun \in [GroupNames -> Seq(Offsets')]
  <2>1. \A g \in GroupNames : begun[g] \in Seq(Offsets')  BY <1>3, Widens DEF BusesTyped
  <2> QED BY <2>1 DEF BusesTyped
<1>5. waiting \in Seq(Offsets') /\ waiting' \in Seq(Offsets')
  <2>1. waiting \in Seq(Offsets')  BY <1>3, Widens DEF BusesTyped
  <2> QED BY <1>1, <1>3, <2>1, Lengthens
<1>6. BusesTyped'
  <2>1. eating \in [Eaters -> {Idle} \cup [at : {"mark", "handle", "handling", "dlq", "done"}, event : Offsets']]
      BY <1>3 DEF BusesTyped
  <2>2. committed \in [GroupNames -> 0..Len(topic')]  BY <1>2 DEF BusesTyped
  <2>3. delivering \subseteq [event : Offsets', turn : DOMAIN BusGroups]  BY <1>3 DEF BusesTyped
  <2>4. Len(topic') <= MaxPublished /\ idemKeys \subseteq Offsets' /\ dead \subseteq GroupNames \X Offsets'
      BY <1>1, <1>2, <1>3, GroupsAre DEF BusesTyped
  <2> QED BY <1>1, <1>2, <1>4, <1>5, <2>1, <2>2, <2>3, <2>4 DEF BusesTyped
<1>7. \A g \in GroupNames : \A e : (Ran(g, e)' <=> Ran(g, e)) /\ (Ran(g, e) => e \in Offsets)
  <2> SUFFICES ASSUME NEW g \in GroupNames, NEW e PROVE (Ran(g, e)' <=> Ran(g, e)) /\ (Ran(g, e) => e \in Offsets)
      OBVIOUS
  <2>1. begun[g] \in Seq(Offsets)  BY DEF BusesTyped
  <2>2. \A i \in DOMAIN begun[g] : begun[g][i] \in Offsets  BY <2>1, LenProperties, ElementOfSeq
  <2> QED BY <1>1, <2>2 DEF Ran
<1>8. \A c \in Eaters : \A e : (Takes(c, e)' <=> Takes(c, e)) /\ (Takes(c, e) => e \in Offsets)
    BY <1>1, EaterIs DEF Takes
<1>9. CASE way # "memory"
  <2>1. MarkedInv'
    <3>1. OneGroupTakesIt'
      <4>1. \A g, h \in GroupNames, e \in DOMAIN topic : Ran(g, e) /\ Ran(h, e) => g = h
          BY <1>9 DEF KafkaInv, MarkedInv, OneGroupTakesIt
      <4>2. \A g, h \in GroupNames, e \in DOMAIN topic' : Ran(g, e)' /\ Ran(h, e)' => g = h
          BY <1>7, <4>1, OffsetsAre
      <4> QED BY <4>2 DEF OneGroupTakesIt
    <3>2. \A g \in GroupNames : \A i, j \in DOMAIN begun'[g] : i < j => begun'[g][i] # begun'[g][j]
        BY <1>1, <1>9 DEF KafkaInv, MarkedInv
    <3>3. \A g \in GroupNames, e \in Offsets' : Ran(g, e)' => e \in idemKeys'
        BY <1>1, <1>7, <1>9 DEF KafkaInv, MarkedInv
    <3>4. \A c, d \in Eaters, e \in Offsets' : Takes(c, e)' => /\ e \in idemKeys' /\ \A g \in GroupNames : ~Ran(g, e)'
                                                               /\ Takes(d, e)' => c = d
        BY <1>1, <1>7, <1>8, <1>9 DEF KafkaInv, MarkedInv
    <3> QED BY <3>1, <3>2, <3>3, <3>4 DEF MarkedInv
  <2>2. AtWorkInv'  BY <1>1, <1>9 DEF KafkaInv, AtWorkInv
  <2>3. ExcusedInv'
    <3> SUFFICES ASSUME failures = 0 PROVE ExcusedInv'  BY <1>1 DEF ExcusedInv
    <3>1. \A g \in GroupNames, e \in Offsets : Excused(g, e) => Excused(g, e)'
      <4>1. \A h \in GroupNames, n \in 1..2 : <<h, n>> \in Eaters  BY DEF Eaters
      <4> QED BY <1>1, <1>2, <1>7, <1>8, <4>1, ExcusedStays
    <3>2. \A e \in idemKeys' : \E h \in GroupNames, n \in 1..2 : Ran(h, e)' \/ Takes(<<h, n>>, e)'
      <4>1. \A h \in GroupNames, n \in 1..2 : <<h, n>> \in Eaters  BY DEF Eaters
      <4> QED BY <1>1, <1>7, <1>8, <1>9, <4>1 DEF KafkaInv, ExcusedInv
    <3>3. ASSUME NEW c \in Eaters PROVE AtEase(c)'
      <4>1. AtEase(c) /\ c[1] \in GroupNames /\ (eating[c].at # "idle" => eating[c].event \in Offsets)
          BY <1>9, EaterIs DEF KafkaInv, ExcusedInv
      <4>2. eating' = eating /\ way' = way  BY <1>1
      <4> SUFFICES ASSUME NEW e \in Offsets', eating[c].event = e
                   PROVE  /\ eating[c].at = "dlq" => way = "base" /\ topic'[e] # "ok"
                          /\ eating[c].at = "handling" => Ran(c[1], e)'
                          /\ eating[c].at = "done" => Ran(c[1], e)' \/ Excused(c[1], e)'
          BY <4>2 DEF AtEase
      <4>3. CASE e \in Offsets  BY <1>2, <1>7, <3>1, <4>1, <4>3 DEF AtEase
      <4>4. CASE e \notin Offsets  BY <4>1, <4>4
      <4> QED BY <4>3, <4>4
    <3>4. \A g \in GroupNames : \A e \in 1..committed'[g] : Ran(g, e)' \/ Excused(g, e)'
      <4>1. \A g \in GroupNames : \A e \in 1..committed[g] : (Ran(g, e) \/ Excused(g, e)) /\ e \in Offsets
          BY <1>2, <1>9 DEF KafkaInv, ExcusedInv, BusesTyped, Offsets
      <4> SUFFICES ASSUME NEW g \in GroupNames, NEW e \in 1..committed[g] PROVE Ran(g, e)' \/ Excused(g, e)'
          BY <1>1
      <4>2. CASE Ran(g, e)  BY <1>7, <4>2
      <4>3. CASE Excused(g, e)  BY <3>1, <4>1, <4>3
      <4> QED BY <4>1, <4>2, <4>3
    <3> QED BY <3>2, <3>3, <3>4 DEF ExcusedInv
  <2> QED BY <1>1, <1>6, <1>9, <2>1, <2>2, <2>3 DEF KafkaInv
<1>10. CASE way = "memory"
  <2> DEFINE n == Len(topic) + 1
  <2>1. /\ waiting' = Append(waiting, n) /\ waiting \in Seq(Offsets) /\ Offsets \subseteq Nat
        /\ DOMAIN waiting = 1..Len(waiting) /\ Len(waiting) \in Nat /\ DOMAIN waiting' = 1..(Len(waiting) + 1)
        /\ waiting'[Len(waiting) + 1] = n /\ (\A i \in DOMAIN waiting : waiting'[i] = waiting[i] /\ waiting[i] \in Offsets)
    <3>1. waiting \in Seq(Offsets') /\ n \in Offsets' /\ waiting' = Append(waiting, n)
        BY <1>1, <1>3, <1>5, <1>10
    <3>2. waiting \in Seq(Offsets) /\ \A i \in DOMAIN waiting : waiting[i] \in Offsets
        BY LenProperties, ElementOfSeq DEF BusesTyped
    <3> QED BY <1>3, <3>1, <3>2, Lengthens
  <2>2. \A e \in Offsets : e < n  BY <1>2 DEF Offsets
  <2> HIDE DEF n
  <2>3. \A e : StillWaits(e)' <=> StillWaits(e) \/ e = n  BY <2>1 DEF StillWaits
  <2>4. Offsets' = Offsets \cup {n} /\ n \notin Offsets  BY <1>3 DEF n
  <2>5. \A d \in delivering : d.event \in Offsets  BY DEF BusesTyped
  <2>6. TurnInv'
    <3>1. \A i, j \in DOMAIN waiting' : i < j => waiting'[i] < waiting'[j]
      <4>1. \A i, j \in DOMAIN waiting : i < j => waiting[i] < waiting[j]
          BY <1>10 DEF MemoryInv, TurnInv
      <4> SUFFICES ASSUME NEW i \in DOMAIN waiting', NEW j \in DOMAIN waiting', i < j PROVE waiting'[i] < waiting'[j]
          OBVIOUS
      <4>2. i \in DOMAIN waiting  BY <2>1
      <4>3. CASE j \in DOMAIN waiting  BY <2>1, <4>1, <4>2, <4>3
      <4>4. CASE j = Len(waiting) + 1  BY <2>1, <2>2, <4>2, <4>4
      <4> QED BY <2>1, <4>3, <4>4
    <3>2. \A d \in delivering' : ~StillWaits(d.event)'
        BY <1>1, <1>10, <2>3, <2>4, <2>5 DEF MemoryInv, TurnInv
    <3>3. \A g \in GroupNames, e \in Offsets' : Ran(g, e)' => ~StillWaits(e)'
        BY <1>7, <1>10, <2>3, <2>4 DEF MemoryInv, TurnInv
    <3>4. \A k \in DOMAIN BusGroups : \A d \in delivering' : Ran(BusGroups[k], d.event)' => k <= d.turn
        BY <1>1, <1>7, <1>10, GroupsAre DEF MemoryInv, TurnInv
    <3>5. \A d, x \in delivering' : d.event = x.event => d = x
        BY <1>1, <1>10 DEF MemoryInv, TurnInv
    <3>6. \A g \in GroupNames : \A i, j \in DOMAIN begun'[g] : i < j => begun'[g][i] # begun'[g][j]
        BY <1>1, <1>10 DEF MemoryInv, TurnInv
    <3> QED BY <3>1, <3>2, <3>3, <3>4, <3>5, <3>6 DEF TurnInv
  <2>7. FirstInv'
    <3>1. begun[BusGroups[1]] \in Seq(Offsets)  BY GroupsAre DEF BusesTyped
    <3>2. \A i \in DOMAIN begun[BusGroups[1]] : begun[BusGroups[1]][i] \in Offsets
        BY <3>1, LenProperties, ElementOfSeq
    <3>3. /\ \A i, j \in DOMAIN begun[BusGroups[1]] : i < j => begun[BusGroups[1]][i] < begun[BusGroups[1]][j]
          /\ \A i \in DOMAIN begun[BusGroups[1]], j \in DOMAIN waiting : begun[BusGroups[1]][i] < waiting[j]
        BY <1>10 DEF MemoryInv, FirstInv
    <3>4. \A i \in DOMAIN begun[BusGroups[1]], j \in DOMAIN waiting' : begun[BusGroups[1]][i] < waiting'[j]
      <4> SUFFICES ASSUME NEW i \in DOMAIN begun[BusGroups[1]], NEW j \in DOMAIN waiting' PROVE begun[BusGroups[1]][i] < waiting'[j]
          OBVIOUS
      <4>1. CASE j \in DOMAIN waiting  BY <2>1, <3>3, <4>1
      <4>2. CASE j = Len(waiting) + 1  BY <2>1, <2>2, <3>2, <4>2
      <4> QED BY <2>1, <4>1, <4>2
    <3> QED BY <1>1, <3>3, <3>4 DEF FirstInv
  <2>8. ReachedInv'
    <3> SUFFICES ASSUME failures = 0, NEW k \in DOMAIN BusGroups, NEW e \in Offsets', ~StillWaits(e)',
                        \A d \in delivering : d.event = e => k <= d.turn
                 PROVE  Ran(BusGroups[k], e)'
        BY <1>1 DEF ReachedInv
    <3>1. e \in Offsets /\ ~StillWaits(e)  BY <2>3, <2>4
    <3> QED BY <1>7, <1>10, <3>1, GroupsAre DEF MemoryInv, ReachedInv
  <2> QED BY <1>1, <1>6, <1>10, <2>6, <2>7, <2>8 DEF MemoryInv
<1> QED BY <1>9, <1>10

----------------------------------------------------------------------------
(* Kafka: the steps of the consumers                                       *)

\* A consumer that is at something is no consumer of the memory.
LEMMA AtKafka == ASSUME BusesInv, NEW c \in Eaters, eating[c].at # "idle" PROVE way # "memory"
    BY DEF BusesInv, MemoryInv, Idle

\* What a consumer's step leaves as it was.
LEMMA KafkaTypes ==
    ASSUME BusesTyped, UNCHANGED <<way, topic, waiting, delivering>>, holder' \in [GroupNames -> 1..2],
           committed' \in [GroupNames -> 0..Len(topic)], eating' \in [Eaters -> EatingAs], idemKeys' \subseteq Offsets,
           dead' \subseteq GroupNames \X Offsets, begun' \in [GroupNames -> Seq(Offsets)], failures' \in Nat
    PROVE  BusesTyped'
    BY DEF BusesTyped, EatingAs, Offsets

LEMMA OfFirst ==
    ASSUME BusesTyped, AtWorkInv, failures = 0, NEW c \in Eaters, eating[c] # Idle
    PROVE  /\ c = <<c[1], 1>> /\ c[1] \in GroupNames /\ holder[c[1]] = 1 /\ eating[c].event = committed[c[1]] + 1
           /\ committed[c[1]] \in Nat
<1>1. c = <<c[1], c[2]>> /\ c[1] \in GroupNames /\ c[2] \in 1..2  BY EaterIs
<1>2. holder[c[1]] = 1 /\ eating[<<c[1], 2>>] = Idle  BY <1>1 DEF AtWorkInv
<1>3. c[2] = 1  BY <1>1, <1>2
<1>4. committed[c[1]] \in Nat  BY <1>1, OffsetsAre DEF BusesTyped
<1> QED BY <1>1, <1>2, <1>3, <1>4 DEF AtWorkInv

\* Without a failure: each part of ExcusedInv is kept where marks and excuses only grow.
LEMMA ExcusedGrows ==
    ASSUME BusesTyped, ExcusedInv, failures = 0, UNCHANGED <<way, topic>>, dead \subseteq dead',
           \A h \in GroupNames, e \in Offsets : Ran(h, e) => Ran(h, e)',
           \A d \in Eaters, e \in Offsets : Takes(d, e) => Takes(d, e)' \/ Ran(d[1], e)'
    PROVE  /\ \A g \in GroupNames, e \in Offsets : Excused(g, e) => Excused(g, e)'
           /\ \A e \in idemKeys : \E h \in GroupNames, n \in 1..2 : Ran(h, e)' \/ Takes(<<h, n>>, e)'
           /\ \A g \in GroupNames : \A e \in 1..committed[g] : Ran(g, e)' \/ Excused(g, e)'
<1>1. \A h \in GroupNames, n \in 1..2 : <<h, n>> \in Eaters /\ <<h, n>>[1] = h  BY DEF Eaters
<1>2. \A h \in GroupNames, n \in 1..2, e \in Offsets : Takes(<<h, n>>, e) => Takes(<<h, n>>, e)' \/ Ran(h, e)'
    BY <1>1
<1>3. \A g \in GroupNames, e \in Offsets : Excused(g, e) => Excused(g, e)'  BY <1>2, ExcusedStays
<1>4. \A e \in idemKeys : \E h \in GroupNames, n \in 1..2 : Ran(h, e)' \/ Takes(<<h, n>>, e)'
  <2> SUFFICES ASSUME NEW e \in idemKeys PROVE \E h \in GroupNames, n \in 1..2 : Ran(h, e)' \/ Takes(<<h, n>>, e)'
      OBVIOUS
  <2>1. e \in Offsets  BY DEF BusesTyped
  <2>2. PICK h \in GroupNames, n \in 1..2 : Ran(h, e) \/ Takes(<<h, n>>, e)  BY DEF ExcusedInv
  <2> QED BY <1>2, <2>1, <2>2
<1>5. \A g \in GroupNames : \A e \in 1..committed[g] : Ran(g, e)' \/ Excused(g, e)'
  <2> SUFFICES ASSUME NEW g \in GroupNames, NEW e \in 1..committed[g] PROVE Ran(g, e)' \/ Excused(g, e)'
      OBVIOUS
  <2>1. e \in Offsets  BY OffsetsAre DEF BusesTyped, Offsets
  <2>2. Ran(g, e) \/ Excused(g, e)  BY DEF ExcusedInv
  <2>3. CASE Ran(g, e)  BY <2>1, <2>3
  <2>4. CASE Excused(g, e)  BY <1>3, <2>1, <2>4
  <2> QED BY <2>2, <2>3, <2>4
<1> QED BY <1>3, <1>4, <1>5

LEMMA AtEaseStays ==
    ASSUME BusesTyped, NEW c \in Eaters, AtEase(c), eating'[c] = eating[c], UNCHANGED <<way, topic>>,
           \A h \in GroupNames, e \in Offsets : (Ran(h, e) => Ran(h, e)') /\ (Excused(h, e) => Excused(h, e)')
    PROVE  AtEase(c)'
<1>1. c[1] \in GroupNames /\ Offsets' = Offsets  BY EaterIs DEF Offsets
<1> SUFFICES ASSUME NEW e \in Offsets, eating[c].event = e
             PROVE  /\ eating[c].at = "dlq" => way = "base" /\ topic[e] # "ok"
                    /\ eating[c].at = "handling" => Ran(c[1], e)'
                    /\ eating[c].at = "done" => Ran(c[1], e)' \/ Excused(c[1], e)'
    BY <1>1 DEF AtEase
<1> QED BY <1>1 DEF AtEase

LEMMA ExcusedFrom ==
    ASSUME failures' = 0 => /\ \A e \in idemKeys' : \E h \in GroupNames, n \in 1..2 : Ran(h, e)' \/ Takes(<<h, n>>, e)'
                            /\ \A c \in Eaters : AtEase(c)'
                            /\ \A g \in GroupNames : \A e \in 1..committed'[g] : Ran(g, e)' \/ Excused(g, e)'
    PROVE  ExcusedInv'
    BY DEF ExcusedInv

LEMMA EachMessageKeeps ==
    ASSUME BusesInv, NEW g \in GroupNames, EachMessage(g)
    PROVE  BusesInv'
<1> USE DEF BusesInv
<1>0. PICK c, e, next : c = <<g, holder[g]>> /\ e = committed[g] + 1 /\ next = [at |-> AfterParse(e), event |-> e]
    OBVIOUS
<1>1. /\ way # "memory" /\ eating[c].at = "idle" /\ committed[g] < Len(topic) /\ Eats(c, next)
      /\ UNCHANGED <<failures, way, topic, holder, committed, idemKeys, dead, waiting, delivering, begun>>
    BY <1>0 DEF EachMessage, taskVars
<1>2. c \in Eaters /\ eating[c] = Idle /\ c[1] = g
  <2>1. c \in Eaters  BY <1>0 DEF BusesTyped, Eaters
  <2> QED BY <1>0, <1>1, <2>1, EaterIs
<1>3. e \in Offsets /\ e \in Nat /\ committed[g] \in Nat
    BY <1>0, <1>1, OffsetsAre DEF BusesTyped, Offsets
<1>4. /\ AfterParse(e) \in {"mark", "dlq", "done"}
      /\ AfterParse(e) = "dlq" => way = "base" /\ topic[e] # "ok"
      /\ AfterParse(e) = "done" => way = "kafka" /\ topic[e] = "malformed"
  <2>1. topic[e] \in {"ok", "malformed", "untenanted"} /\ way \in {"kafka", "base"}
      BY <1>1, <1>3, OffsetsAre DEF BusesTyped
  <2> QED BY <2>1 DEF AfterParse
<1>5. next \in EatingAs /\ next.at \in {"mark", "dlq", "done"} /\ next.event = e /\ next.at = AfterParse(e)
    BY <1>0, <1>3, <1>4 DEF EatingAs
<1>6. eating' \in [Eaters -> EatingAs] /\ eating'[c] = next /\ \A d \in Eaters : d # c => eating'[d] = eating[d]
    BY <1>1, <1>2, <1>5, EatsMoves
<1>7. BusesTyped'
  <2>1. /\ holder \in [GroupNames -> 1..2] /\ committed \in [GroupNames -> 0..Len(topic)] /\ idemKeys \subseteq Offsets
        /\ dead \subseteq GroupNames \X Offsets /\ begun \in [GroupNames -> Seq(Offsets)] /\ failures \in Nat
      BY DEF BusesTyped
  <2> QED BY <1>1, <1>6, <2>1, KafkaTypes
<1>8. \A d \in Eaters : \A f : Takes(d, f)' <=> Takes(d, f)
  <2>1. \A f : ~Takes(c, f) /\ ~Takes(c, f)'  BY <1>1, <1>5, <1>6 DEF Takes
  <2> QED BY <1>6, <2>1 DEF Takes
<1>9. \A h \in GroupNames : \A f : Ran(h, f)' <=> Ran(h, f)  BY <1>1 DEF Ran
<1>10. MarkedInv'  BY <1>1, <1>8, MarkedStays DEF KafkaInv
<1>11. AtWorkInv'
  <2> SUFFICES ASSUME failures = 0, NEW h \in GroupNames
               PROVE  /\ holder[h] = 1 /\ eating'[<<h, 2>>] = Idle
                      /\ eating'[<<h, 1>>] # Idle => eating'[<<h, 1>>].event = committed[h] + 1
                      /\ \A i \in DOMAIN begun[h] :
                             \/ begun[h][i] <= committed[h]
                             \/ begun[h][i] = committed[h] + 1 /\ eating'[<<h, 1>>].at \in {"handling", "done"}
                      /\ \A i, j \in DOMAIN begun[h] : i < j => begun[h][i] < begun[h][j]
      BY <1>1 DEF AtWorkInv
  <2>1. /\ holder[h] = 1 /\ eating[<<h, 2>>] = Idle
        /\ eating[<<h, 1>>] # Idle => eating[<<h, 1>>].event = committed[h] + 1
        /\ \A i \in DOMAIN begun[h] :
               \/ begun[h][i] <= committed[h]
               \/ begun[h][i] = committed[h] + 1 /\ eating[<<h, 1>>].at \in {"handling", "done"}
        /\ \A i, j \in DOMAIN begun[h] : i < j => begun[h][i] < begun[h][j]
      BY <1>1 DEF KafkaInv, AtWorkInv
  <2>2. <<h, 1>> \in Eaters /\ <<h, 2>> \in Eaters /\ <<h, 2>> # c
    <3>1. holder[g] = 1  BY <1>1 DEF KafkaInv, AtWorkInv
    <3> QED BY <1>0, <3>1 DEF Eaters
  <2>3. CASE h = g
    <3>1. c = <<h, 1>>  BY <1>0, <2>1, <2>3
    <3> QED BY <1>0, <1>1, <1>5, <1>6, <2>1, <2>2, <2>3, <3>1
  <2>4. CASE h # g
    <3>1. <<h, 1>> # c  BY <1>0, <2>4
    <3> QED BY <1>6, <2>1, <2>2, <3>1
  <2> QED BY <2>3, <2>4
<1>12. ExcusedInv'
  <2> SUFFICES ASSUME failures = 0
               PROVE  /\ \A f \in idemKeys : \E h \in GroupNames, n \in 1..2 : Ran(h, f)' \/ Takes(<<h, n>>, f)'
                      /\ \A d \in Eaters : AtEase(d)'
                      /\ \A h \in GroupNames : \A f \in 1..committed[h] : Ran(h, f)' \/ Excused(h, f)'
      BY <1>1, ExcusedFrom
  <2>1. /\ \A h \in GroupNames, f \in Offsets : Excused(h, f) => Excused(h, f)'
        /\ \A f \in idemKeys : \E h \in GroupNames, n \in 1..2 : Ran(h, f)' \/ Takes(<<h, n>>, f)'
        /\ \A h \in GroupNames : \A f \in 1..committed[h] : Ran(h, f)' \/ Excused(h, f)'
      BY <1>1, <1>8, <1>9, ExcusedGrows DEF KafkaInv
  <2>2. AtEase(c)'
    <3>1. \A f : f = e => (eating'[c].at = "done" => Excused(c[1], f)') /\ (eating'[c].at = "dlq" => way' = "base" /\ topic'[f] # "ok")
        BY <1>1, <1>4, <1>5, <1>6 DEF Excused
    <3> QED BY <1>5, <1>6, <3>1 DEF AtEase
  <2>3. ASSUME NEW d \in Eaters, d # c PROVE AtEase(d)'
    <3>1. AtEase(d)  BY <1>1 DEF KafkaInv, ExcusedInv
    <3> QED BY <1>1, <1>6, <1>9, <2>1, <2>3, <3>1, AtEaseStays
  <2> QED BY <2>1, <2>2, <2>3
<1> QED BY <1>1, <1>7, <1>10, <1>11, <1>12 DEF KafkaInv

LEMMA EatsOn ==
    ASSUME BusesTyped, NEW c \in Eaters, eating[c].at # "idle", NEW p \in {"mark", "handle", "handling", "dlq", "done"},
           Eats(c, [eating[c] EXCEPT !.at = p])
    PROVE  /\ eating' \in [Eaters -> EatingAs] /\ eating'[c] # Idle
           /\ eating'[c].at = p /\ eating'[c].event = eating[c].event
           /\ \A d \in Eaters : d # c => eating'[d] = eating[d]
<1>1. eating[c] \in [at : {"mark", "handle", "handling", "dlq", "done"}, event : Offsets]
    BY EaterIs
<1>2. PICK next : next = [eating[c] EXCEPT !.at = p]  OBVIOUS
<1>3. next \in EatingAs /\ next.at = p /\ next.event = eating[c].event /\ next # Idle
    BY <1>1, <1>2 DEF EatingAs, Idle
<1>4. Eats(c, next)  BY <1>2
<1> QED BY <1>3, <1>4, EatsMoves

\* A consumer that goes on with its event, without having begun another.
LEMMA WorkMoves ==
    ASSUME BusesTyped, AtWorkInv, UNCHANGED <<failures, holder, committed, begun>>, NEW c \in Eaters, eating[c] # Idle,
           eating'[c].event = eating[c].event, eating[c].at \in {"handling", "done"} => eating'[c].at \in {"handling", "done"},
           \A d \in Eaters : d # c => eating'[d] = eating[d]
    PROVE  AtWorkInv'
<1> SUFFICES ASSUME failures = 0, NEW h \in GroupNames
             PROVE  /\ holder[h] = 1 /\ eating'[<<h, 2>>] = Idle
                    /\ eating'[<<h, 1>>] # Idle => eating'[<<h, 1>>].event = committed[h] + 1
                    /\ \A i \in DOMAIN begun[h] :
                           \/ begun[h][i] <= committed[h]
                           \/ begun[h][i] = committed[h] + 1 /\ eating'[<<h, 1>>].at \in {"handling", "done"}
                    /\ \A i, j \in DOMAIN begun[h] : i < j => begun[h][i] < begun[h][j]
    BY DEF AtWorkInv
<1>1. /\ holder[h] = 1 /\ eating[<<h, 2>>] = Idle
      /\ eating[<<h, 1>>] # Idle => eating[<<h, 1>>].event = committed[h] + 1
      /\ \A i \in DOMAIN begun[h] :
             \/ begun[h][i] <= committed[h]
             \/ begun[h][i] = committed[h] + 1 /\ eating[<<h, 1>>].at \in {"handling", "done"}
      /\ \A i, j \in DOMAIN begun[h] : i < j => begun[h][i] < begun[h][j]
    BY DEF AtWorkInv
<1>2. <<h, 1>> \in Eaters /\ <<h, 2>> \in Eaters /\ <<h, 2>> # c  BY <1>1 DEF Eaters
<1>3. CASE c = <<h, 1>>  BY <1>1, <1>2, <1>3
<1>4. CASE c # <<h, 1>>  BY <1>1, <1>2, <1>4
<1> QED BY <1>3, <1>4

LEMMA FailureKeeps ==
    ASSUME BusesInv, BusesTyped', way # "memory", failures' # 0, UNCHANGED <<way, topic, idemKeys, waiting, delivering, begun>>,
           \A c \in Eaters, e \in Offsets : Takes(c, e)' => Takes(c, e)
    PROVE  BusesInv'
<1>1. MarkedInv'  BY MarkedStays DEF BusesInv, KafkaInv
<1>2. AtWorkInv' /\ ExcusedInv'  BY DEF AtWorkInv, ExcusedInv
<1> QED BY <1>1, <1>2 DEF BusesInv, KafkaInv

\* Nothing else has a mark that is not there.
LEMMA UnmarkedIsNew ==
    ASSUME BusesTyped, MarkedInv, NEW e \in Offsets, e \notin idemKeys
    PROVE  (\A g \in GroupNames : ~Ran(g, e)) /\ \A d \in Eaters : ~Takes(d, e)
    BY DEF MarkedInv

LEMMA MarkIfNewKeeps ==
    ASSUME BusesInv, NEW c \in Eaters, MarkIfNew(c)
    PROVE  BusesInv'
<1> USE DEF BusesInv
<1>0. PICK e, p : e = eating[c].event /\ p = IF IsNew(e) THEN "handle" ELSE "done"  OBVIOUS
<1>1. /\ eating[c].at = "mark" /\ idemKeys' = idemKeys \cup {e} /\ Eats(c, [eating[c] EXCEPT !.at = p])
      /\ UNCHANGED <<failures, way, topic, holder, committed, dead, waiting, delivering, begun>>
    BY <1>0 DEF MarkIfNew, taskVars
<1>2. way # "memory" /\ e \in Offsets /\ c = <<c[1], c[2]>> /\ c[1] \in GroupNames /\ c[2] \in 1..2 /\ eating[c] # Idle
    BY <1>0, <1>1, AtKafka, EaterIs
<1>3. /\ eating' \in [Eaters -> EatingAs] /\ eating'[c] # Idle /\ eating'[c].at = p /\ eating'[c].event = e
      /\ \A d \in Eaters : d # c => eating'[d] = eating[d]
  <2>1. p \in {"mark", "handle", "handling", "dlq", "done"}  BY <1>0
  <2> QED BY <1>0, <1>1, <2>1, EatsOn
<1>4. BusesTyped'
  <2>1. /\ holder \in [GroupNames -> 1..2] /\ committed \in [GroupNames -> 0..Len(topic)] /\ idemKeys' \subseteq Offsets
        /\ dead \subseteq GroupNames \X Offsets /\ begun \in [GroupNames -> Seq(Offsets)] /\ failures \in Nat
      BY <1>1, <1>2 DEF BusesTyped
  <2> QED BY <1>1, <1>3, <2>1, KafkaTypes
<1>5. \A d \in Eaters, f \in Offsets : Takes(d, f)' <=> Takes(d, f) \/ (d = c /\ f = e /\ e \notin idemKeys)
    BY <1>0, <1>1, <1>2, <1>3 DEF Takes, IsNew
<1>6. \A h \in GroupNames, f \in Offsets : Ran(h, f)' <=> Ran(h, f)  BY <1>1 DEF Ran
<1>7. MarkedInv'
  <2>1. Offsets' = Offsets  BY <1>1 DEF Offsets
  <2>2. OneGroupTakesIt' /\ \A g \in GroupNames : \A i, j \in DOMAIN begun'[g] : i < j => begun'[g][i] # begun'[g][j]
    <3>1. OneGroupTakesIt' <=> OneGroupTakesIt  BY <1>1 DEF OneGroupTakesIt, Ran
    <3> QED BY <1>1, <1>2, <3>1 DEF KafkaInv, MarkedInv
  <2>3. \A g \in GroupNames, f \in Offsets : Ran(g, f)' => f \in idemKeys'
      BY <1>1, <1>2, <1>6 DEF KafkaInv, MarkedInv
  <2>4. \A d, x \in Eaters, f \in Offsets : Takes(d, f)' => /\ f \in idemKeys' /\ \A g \in GroupNames : ~Ran(g, f)'
                                                            /\ Takes(x, f)' => d = x
    <3> SUFFICES ASSUME NEW d \in Eaters, NEW x \in Eaters, NEW f \in Offsets, Takes(d, f)'
                 PROVE  /\ f \in idemKeys' /\ \A g \in GroupNames : ~Ran(g, f)'
                        /\ Takes(x, f)' => d = x
        OBVIOUS
    <3>1. CASE f = e /\ e \notin idemKeys
      <4>1. (\A g \in GroupNames : ~Ran(g, e)) /\ \A y \in Eaters : ~Takes(y, e)
          BY <1>2, <3>1, UnmarkedIsNew DEF KafkaInv
      <4> QED BY <1>1, <1>5, <1>6, <3>1, <4>1
    <3>2. CASE ~(f = e /\ e \notin idemKeys)
      <4>1. Takes(d, f) /\ (Takes(x, f)' => Takes(x, f))  BY <1>5, <3>2
      <4>2. /\ f \in idemKeys /\ \A g \in GroupNames : ~Ran(g, f)
            /\ Takes(x, f) => d = x
          BY <1>2, <4>1 DEF KafkaInv, MarkedInv
      <4> QED BY <1>1, <1>6, <4>1, <4>2
    <3> QED BY <3>1, <3>2
  <2> QED BY <2>1, <2>2, <2>3, <2>4 DEF MarkedInv
<1>8. AtWorkInv'  BY <1>0, <1>1, <1>2, <1>3, WorkMoves DEF KafkaInv
<1>9. ExcusedInv'
  <2> SUFFICES ASSUME failures = 0
               PROVE  /\ \A f \in idemKeys' : \E h \in GroupNames, n \in 1..2 : Ran(h, f)' \/ Takes(<<h, n>>, f)'
                      /\ \A d \in Eaters : AtEase(d)'
                      /\ \A h \in GroupNames : \A f \in 1..committed'[h] : Ran(h, f)' \/ Excused(h, f)'
      BY <1>1, ExcusedFrom
  <2>1. /\ \A h \in GroupNames, f \in Offsets : Excused(h, f) => Excused(h, f)'
        /\ \A f \in idemKeys : \E h \in GroupNames, n \in 1..2 : Ran(h, f)' \/ Takes(<<h, n>>, f)'
        /\ \A h \in GroupNames : \A f \in 1..committed[h] : Ran(h, f)' \/ Excused(h, f)'
      BY <1>1, <1>2, <1>5, <1>6, ExcusedGrows DEF KafkaInv
  <2>2. e \in idemKeys \/ Takes(<<c[1], c[2]>>, e)'  BY <1>2, <1>5
  <2>3. AtEase(c)'
    <3>1. CASE e \notin idemKeys  BY <1>0, <1>3, <3>1 DEF AtEase, IsNew
    <3>2. CASE e \in idemKeys
      <4>1. PICK h \in GroupNames, n \in 1..2 : Ran(h, e) \/ Takes(<<h, n>>, e)
          BY <1>2, <3>2 DEF KafkaInv, ExcusedInv
      <4>2. Ran(c[1], e) \/ Excused(c[1], e)
        <5>1. CASE h = c[1]
          <6>1. c = <<h, 1>> /\ eating[<<h, 2>>] = Idle
              BY <1>2, <5>1, OfFirst DEF KafkaInv, AtWorkInv
          <6>2. ~Takes(<<h, n>>, e)  BY <1>1, <6>1 DEF Takes, Idle
          <6> QED BY <4>1, <5>1, <6>2
        <5>2. CASE h # c[1]  BY <4>1, <5>2 DEF Excused
        <5> QED BY <5>1, <5>2
      <4>3. Ran(c[1], e)' \/ Excused(c[1], e)'  BY <1>2, <1>6, <2>1, <4>2
      <4>4. eating'[c].at = "done"  BY <1>0, <1>3, <3>2 DEF IsNew
      <4> QED BY <1>3, <4>3, <4>4 DEF AtEase
    <3> QED BY <3>1, <3>2
  <2>4. ASSUME NEW d \in Eaters, d # c PROVE AtEase(d)'
    <3>1. AtEase(d)  BY <1>2 DEF KafkaInv, ExcusedInv
    <3> QED BY <1>1, <1>3, <1>6, <2>1, <2>4, <3>1, AtEaseStays
  <2> QED BY <1>1, <1>2, <2>1, <2>2, <2>3, <2>4
<1> QED BY <1>1, <1>2, <1>4, <1>7, <1>8, <1>9 DEF KafkaInv

LEMMA HandleKeeps ==
    ASSUME BusesInv, NEW c \in Eaters, Handle(c)
    PROVE  BusesInv'
<1> USE DEF BusesInv
<1>0. PICK e, g : e = eating[c].event /\ g = c[1]  OBVIOUS
<1>1. /\ eating[c].at = "handle" /\ begun' = [begun EXCEPT ![g] = Append(@, e)] /\ Eats(c, [eating[c] EXCEPT !.at = "handling"])
      /\ UNCHANGED <<failures, way, topic, holder, committed, idemKeys, dead, waiting, delivering>>
    BY <1>0 DEF Handle, taskVars
<1>2. /\ way # "memory" /\ e \in Offsets /\ e \in Nat /\ c = <<g, c[2]>> /\ g \in GroupNames /\ c[2] \in 1..2 /\ eating[c] # Idle
      /\ Takes(c, e)
    BY <1>0, <1>1, AtKafka, EaterIs DEF Takes
<1>3. /\ eating' \in [Eaters -> EatingAs] /\ eating'[c] # Idle /\ eating'[c].at = "handling" /\ eating'[c].event = e
      /\ \A d \in Eaters : d # c => eating'[d] = eating[d]
    BY <1>0, <1>1, EatsOn
<1>4. /\ begun' \in [GroupNames -> Seq(Offsets)] /\ begun[g] \in Seq(Offsets)
      /\ \A h \in GroupNames : h # g => begun'[h] = begun[h]
      /\ begun'[g] = Append(begun[g], e)
      /\ \A h \in GroupNames, f \in Nat : Ran(h, f)' <=> Ran(h, f) \/ (h = g /\ f = e)
    BY <1>1, <1>2, RunsHandler
<1>5. BusesTyped'
  <2>1. /\ holder \in [GroupNames -> 1..2] /\ committed \in [GroupNames -> 0..Len(topic)] /\ idemKeys \subseteq Offsets
        /\ dead \subseteq GroupNames \X Offsets /\ failures \in Nat
      BY DEF BusesTyped
  <2> QED BY <1>1, <1>3, <1>4, <2>1, KafkaTypes
<1>6. \A d \in Eaters, f \in Offsets : (Takes(d, f)' => Takes(d, f) /\ d # c) /\ (Takes(d, f) => Takes(d, f)' \/ Ran(d[1], f)')
  <2> SUFFICES ASSUME NEW d \in Eaters, NEW f \in Offsets
               PROVE  (Takes(d, f)' => Takes(d, f) /\ d # c) /\ (Takes(d, f) => Takes(d, f)' \/ Ran(d[1], f)')
      OBVIOUS
  <2>1. CASE d = c
    <3>1. ~Takes(c, f)'  BY <1>3 DEF Takes
    <3>2. Takes(c, f) => f = e  BY <1>0 DEF Takes
    <3> QED BY <1>0, <1>2, <1>4, <2>1, <3>1, <3>2
  <2>2. CASE d # c  BY <1>3, <2>2 DEF Takes
  <2> QED BY <2>1, <2>2
<1>7. e \in idemKeys /\ (\A h \in GroupNames : ~Ran(h, e)) /\ \A d \in Eaters : Takes(d, e) => d = c
    BY <1>2 DEF KafkaInv, MarkedInv
<1>8. \A h \in GroupNames, f \in Offsets : Ran(h, f)' <=> Ran(h, f) \/ (h = g /\ f = e)
    BY <1>4, OffsetsAre
<1>9. MarkedInv'
  <2>1. Offsets' = Offsets  BY <1>1 DEF Offsets
  <2>2. OneGroupTakesIt'
    <3>1. \A h, x \in GroupNames, f \in DOMAIN topic : Ran(h, f) /\ Ran(x, f) => h = x
        BY <1>2 DEF KafkaInv, MarkedInv, OneGroupTakesIt
    <3>2. \A h, x \in GroupNames, f \in DOMAIN topic : Ran(h, f)' /\ Ran(x, f)' => h = x
        BY <1>7, <1>8, <3>1, OffsetsAre
    <3> QED BY <1>1, <3>2 DEF OneGroupTakesIt
  <2>3. \A h \in GroupNames : \A i, j \in DOMAIN begun'[h] : i < j => begun'[h][i] # begun'[h][j]
    <3>1. \A h \in GroupNames : \A i, j \in DOMAIN begun[h] : i < j => begun[h][i] # begun[h][j]
        BY <1>2 DEF KafkaInv, MarkedInv
    <3>2. \A i \in DOMAIN begun[g] : begun[g][i] # e  BY <1>2, <1>7 DEF Ran
    <3>3. PICK s : s = begun[g]  OBVIOUS
    <3>4. s \in Seq(Offsets) /\ (\A i, j \in DOMAIN s : i < j => s[i] # s[j]) /\ \A i \in DOMAIN s : s[i] # e
        BY <1>2, <1>4, <3>1, <3>2, <3>3
    <3>5. \A i, j \in DOMAIN Append(s, e) : i < j => Append(s, e)[i] # Append(s, e)[j]
        BY <1>2, <3>4, RunsAnother
    <3>6. begun'[g] = Append(s, e)  BY <1>4, <3>3
    <3> SUFFICES ASSUME NEW h \in GroupNames PROVE \A i, j \in DOMAIN begun'[h] : i < j => begun'[h][i] # begun'[h][j]
        OBVIOUS
    <3>7. CASE h = g  BY <3>5, <3>6, <3>7
    <3>8. CASE h # g  BY <1>4, <3>1, <3>8
    <3> QED BY <3>7, <3>8
  <2>4. \A h \in GroupNames, f \in Offsets : Ran(h, f)' => f \in idemKeys'
      BY <1>1, <1>2, <1>7, <1>8 DEF KafkaInv, MarkedInv
  <2>5. \A d, x \in Eaters, f \in Offsets : Takes(d, f)' => /\ f \in idemKeys' /\ \A h \in GroupNames : ~Ran(h, f)'
                                                            /\ Takes(x, f)' => d = x
    <3> SUFFICES ASSUME NEW d \in Eaters, NEW x \in Eaters, NEW f \in Offsets, Takes(d, f)'
                 PROVE  /\ f \in idemKeys' /\ \A h \in GroupNames : ~Ran(h, f)'
                        /\ Takes(x, f)' => d = x
        OBVIOUS
    <3>1. Takes(d, f) /\ f # e /\ (Takes(x, f)' => Takes(x, f))  BY <1>6, <1>7
    <3>2. /\ f \in idemKeys /\ \A h \in GroupNames : ~Ran(h, f)
          /\ Takes(x, f) => d = x
        BY <1>2, <3>1 DEF KafkaInv, MarkedInv
    <3> QED BY <1>1, <1>8, <3>1, <3>2
  <2> QED BY <2>1, <2>2, <2>3, <2>4, <2>5 DEF MarkedInv
<1>10. AtWorkInv'
  <2> SUFFICES ASSUME failures = 0, NEW h \in GroupNames
               PROVE  /\ holder[h] = 1 /\ eating'[<<h, 2>>] = Idle
                      /\ eating'[<<h, 1>>] # Idle => eating'[<<h, 1>>].event = committed[h] + 1
                      /\ \A i \in DOMAIN begun'[h] :
                             \/ begun'[h][i] <= committed[h]
                             \/ begun'[h][i] = committed[h] + 1 /\ eating'[<<h, 1>>].at \in {"handling", "done"}
                      /\ \A i, j \in DOMAIN begun'[h] : i < j => begun'[h][i] < begun'[h][j]
      BY <1>1 DEF AtWorkInv
  <2>1. /\ holder[h] = 1 /\ eating[<<h, 2>>] = Idle
        /\ eating[<<h, 1>>] # Idle => eating[<<h, 1>>].event = committed[h] + 1
        /\ \A i \in DOMAIN begun[h] :
               \/ begun[h][i] <= committed[h]
               \/ begun[h][i] = committed[h] + 1 /\ eating[<<h, 1>>].at \in {"handling", "done"}
        /\ \A i, j \in DOMAIN begun[h] : i < j => begun[h][i] < begun[h][j]
      BY <1>2 DEF KafkaInv, AtWorkInv
  <2>2. <<h, 1>> \in Eaters /\ <<h, 2>> \in Eaters /\ <<h, 2>> # c  BY <1>2, <2>1 DEF Eaters
  <2>3. CASE h = g
    <3>1. c = <<h, 1>> /\ e = committed[h] + 1 /\ committed[h] \in Nat
        BY <1>0, <1>2, <2>3, OfFirst DEF KafkaInv
    <3>2. \A i \in DOMAIN begun[g] : begun[g][i] <= committed[h] /\ begun[g][i] < e
      <4>1. begun[g] \in Seq(Nat)  BY <1>4, OffsetsAre, Widens
      <4>2. \A i \in DOMAIN begun[g] : begun[g][i] \in Nat  BY <4>1, LenProperties, ElementOfSeq
      <4>3. eating[<<h, 1>>].at = "handle"  BY <1>1, <3>1
      <4>4. \A i \in DOMAIN begun[h] : begun[h][i] <= committed[h]  BY <2>1, <4>3
      <4> QED BY <2>3, <3>1, <4>2, <4>4
    <3>3. \A i, j \in DOMAIN Append(begun[g], e) : i < j => Append(begun[g], e)[i] < Append(begun[g], e)[j]
        BY <1>2, <1>4, <2>1, <2>3, <3>2, OffsetsAre, RunsLater
    <3>4. \A i \in DOMAIN Append(begun[g], e) : Append(begun[g], e)[i] <= committed[h] \/ Append(begun[g], e)[i] = e
        BY <1>2, <1>4, <3>2, Lengthens
    <3> QED BY <1>3, <1>4, <2>1, <2>2, <2>3, <3>1, <3>3, <3>4
  <2>4. CASE h # g
    <3>1. <<h, 1>> # c  BY <1>2, <2>4
    <3> QED BY <1>3, <1>4, <2>1, <2>2, <2>4, <3>1
  <2> QED BY <2>3, <2>4
<1>11. ExcusedInv'
  <2> SUFFICES ASSUME failures = 0
               PROVE  /\ \A f \in idemKeys' : \E h \in GroupNames, n \in 1..2 : Ran(h, f)' \/ Takes(<<h, n>>, f)'
                      /\ \A d \in Eaters : AtEase(d)'
                      /\ \A h \in GroupNames : \A f \in 1..committed'[h] : Ran(h, f)' \/ Excused(h, f)'
      BY <1>1, ExcusedFrom
  <2>1. /\ \A h \in GroupNames, f \in Offsets : Excused(h, f) => Excused(h, f)'
        /\ \A f \in idemKeys : \E h \in GroupNames, n \in 1..2 : Ran(h, f)' \/ Takes(<<h, n>>, f)'
        /\ \A h \in GroupNames : \A f \in 1..committed[h] : Ran(h, f)' \/ Excused(h, f)'
      BY <1>1, <1>2, <1>6, <1>8, ExcusedGrows DEF KafkaInv
  <2>2. AtEase(c)'
    <3>1. Ran(c[1], e)'  BY <1>0, <1>2, <1>8
    <3> QED BY <1>3, <3>1 DEF AtEase
  <2>3. ASSUME NEW d \in Eaters, d # c PROVE AtEase(d)'
    <3>1. AtEase(d)  BY <1>2 DEF KafkaInv, ExcusedInv
    <3> QED BY <1>1, <1>3, <1>8, <2>1, <2>3, <3>1, AtEaseStays
  <2> QED BY <1>1, <2>1, <2>2, <2>3
<1> QED BY <1>1, <1>2, <1>5, <1>9, <1>10, <1>11 DEF KafkaInv

LEMMA HandlerReturnsKeeps ==
    ASSUME BusesInv, NEW c \in Eaters, HandlerReturns(c)
    PROVE  BusesInv'
<1> USE DEF BusesInv
<1>1. /\ eating[c].at = "handling" /\ Eats(c, [eating[c] EXCEPT !.at = "done"])
      /\ UNCHANGED <<failures, way, topic, holder, committed, idemKeys, dead, waiting, delivering, begun>>
    BY DEF HandlerReturns, taskVars
<1>2. way # "memory" /\ eating[c] # Idle /\ c[1] \in GroupNames  BY <1>1, AtKafka, EaterIs
<1>3. /\ eating' \in [Eaters -> EatingAs] /\ eating'[c] # Idle /\ eating'[c].at = "done" /\ eating'[c].event = eating[c].event
      /\ \A d \in Eaters : d # c => eating'[d] = eating[d]
    BY <1>1, EatsOn
<1>4. BusesTyped'
  <2>1. /\ holder \in [GroupNames -> 1..2] /\ committed \in [GroupNames -> 0..Len(topic)] /\ idemKeys \subseteq Offsets
        /\ dead \subseteq GroupNames \X Offsets /\ begun \in [GroupNames -> Seq(Offsets)] /\ failures \in Nat
      BY DEF BusesTyped
  <2> QED BY <1>1, <1>3, <2>1, KafkaTypes
<1>5. \A d \in Eaters, f \in Offsets : Takes(d, f)' <=> Takes(d, f)  BY <1>1, <1>3 DEF Takes
<1>6. \A h \in GroupNames, f \in Offsets : Ran(h, f)' <=> Ran(h, f)  BY <1>1 DEF Ran
<1>7. MarkedInv' /\ AtWorkInv'  BY <1>1, <1>2, <1>3, <1>5, MarkedStays, WorkMoves DEF KafkaInv
<1>8. ExcusedInv'
  <2> SUFFICES ASSUME failures = 0
               PROVE  /\ \A f \in idemKeys' : \E h \in GroupNames, n \in 1..2 : Ran(h, f)' \/ Takes(<<h, n>>, f)'
                      /\ \A d \in Eaters : AtEase(d)'
                      /\ \A h \in GroupNames : \A f \in 1..committed'[h] : Ran(h, f)' \/ Excused(h, f)'
      BY <1>1, ExcusedFrom
  <2>1. /\ \A h \in GroupNames, f \in Offsets : Excused(h, f) => Excused(h, f)'
        /\ \A f \in idemKeys : \E h \in GroupNames, n \in 1..2 : Ran(h, f)' \/ Takes(<<h, n>>, f)'
        /\ \A h \in GroupNames : \A f \in 1..committed[h] : Ran(h, f)' \/ Excused(h, f)'
      BY <1>1, <1>2, <1>5, <1>6, ExcusedGrows DEF KafkaInv
  <2>2. \A d \in Eaters : AtEase(d)  BY <1>2 DEF KafkaInv, ExcusedInv
  <2>3. AtEase(c)'
    <3>1. \A f \in Offsets : eating[c].event = f => Ran(c[1], f)'
        BY <1>1, <1>2, <1>6, <2>2 DEF AtEase
    <3>2. Offsets' = Offsets  BY <1>1 DEF Offsets
    <3> QED BY <1>3, <3>1, <3>2 DEF AtEase
  <2>4. ASSUME NEW d \in Eaters, d # c PROVE AtEase(d)'
      BY <1>1, <1>3, <1>6, <2>1, <2>2, <2>4, AtEaseStays
  <2> QED BY <1>1, <2>1, <2>3, <2>4
<1> QED BY <1>1, <1>2, <1>4, <1>7, <1>8 DEF KafkaInv

LEMMA HandlerThrowsKeeps ==
    ASSUME BusesInv, NEW c \in Eaters, HandlerThrows(c)
    PROVE  BusesInv'
<1> USE DEF BusesInv
<1>0. PICK p : p = IF way = "base" THEN "dlq" ELSE "mark"  OBVIOUS
<1>1. /\ eating[c].at = "handling" /\ Eats(c, [eating[c] EXCEPT !.at = p]) /\ Faulty
      /\ UNCHANGED <<way, topic, holder, committed, idemKeys, dead, waiting, delivering, begun>>
    BY <1>0 DEF HandlerThrows
<1>2. way # "memory" /\ p \in {"mark", "handle", "handling", "dlq", "done"} /\ p # "handle"
    BY <1>0, <1>1, AtKafka
<1>3. /\ eating' \in [Eaters -> EatingAs] /\ eating'[c].at = p
      /\ \A d \in Eaters : d # c => eating'[d] = eating[d]
    BY <1>1, <1>2, EatsOn
<1>4. failures' \in Nat /\ failures' # 0  BY <1>1, FaultyCounts
<1>5. BusesTyped'
  <2>1. /\ holder \in [GroupNames -> 1..2] /\ committed \in [GroupNames -> 0..Len(topic)] /\ idemKeys \subseteq Offsets
        /\ dead \subseteq GroupNames \X Offsets /\ begun \in [GroupNames -> Seq(Offsets)]
      BY DEF BusesTyped
  <2> QED BY <1>1, <1>3, <1>4, <2>1, KafkaTypes
<1>6. \A d \in Eaters, f \in Offsets : Takes(d, f)' => Takes(d, f)  BY <1>2, <1>3 DEF Takes
<1> QED BY <1>1, <1>2, <1>4, <1>5, <1>6, FailureKeeps

LEMMA DeadLetterKeeps ==
    ASSUME BusesInv, NEW c \in Eaters, DeadLetter(c)
    PROVE  BusesInv'
<1> USE DEF BusesInv
<1>0. PICK e : e = eating[c].event  OBVIOUS
<1>1. /\ eating[c].at = "dlq" /\ Eats(c, [eating[c] EXCEPT !.at = "done"])
      /\ UNCHANGED <<way, topic, holder, committed, idemKeys, waiting, delivering, begun>>
      /\ \/ dead' = dead \cup {<<c[1], e>>} /\ failures' = failures
         \/ Faulty /\ dead' = dead
    BY <1>0 DEF DeadLetter, taskVars
<1>2. way # "memory" /\ eating[c] # Idle /\ c[1] \in GroupNames /\ e \in Offsets
    BY <1>0, <1>1, AtKafka, EaterIs
<1>3. /\ eating' \in [Eaters -> EatingAs] /\ eating'[c] # Idle /\ eating'[c].at = "done" /\ eating'[c].event = e
      /\ \A d \in Eaters : d # c => eating'[d] = eating[d]
    BY <1>0, <1>1, EatsOn
<1>4. BusesTyped'
  <2>1. /\ holder \in [GroupNames -> 1..2] /\ committed \in [GroupNames -> 0..Len(topic)] /\ idemKeys \subseteq Offsets
        /\ dead' \subseteq GroupNames \X Offsets /\ begun \in [GroupNames -> Seq(Offsets)] /\ failures' \in Nat
      BY <1>1, <1>2, FaultyCounts DEF BusesTyped
  <2> QED BY <1>1, <1>3, <2>1, KafkaTypes
<1>5. \A d \in Eaters, f \in Offsets : Takes(d, f)' <=> Takes(d, f)  BY <1>1, <1>3 DEF Takes
<1>6. CASE Faulty  BY <1>1, <1>2, <1>4, <1>5, <1>6, FaultyCounts, FailureKeeps
<1>7. CASE ~Faulty
  <2>1. failures' = failures /\ dead' = dead \cup {<<c[1], e>>}  BY <1>1, <1>7
  <2>2. \A h \in GroupNames, f \in Offsets : Ran(h, f)' <=> Ran(h, f)  BY <1>1 DEF Ran
  <2>3. MarkedInv' /\ AtWorkInv'
      BY <1>0, <1>1, <1>2, <1>3, <1>5, <2>1, MarkedStays, WorkMoves DEF KafkaInv
  <2>4. ExcusedInv'
    <3> SUFFICES ASSUME failures = 0
                 PROVE  /\ \A f \in idemKeys' : \E h \in GroupNames, n \in 1..2 : Ran(h, f)' \/ Takes(<<h, n>>, f)'
                        /\ \A d \in Eaters : AtEase(d)'
                        /\ \A h \in GroupNames : \A f \in 1..committed'[h] : Ran(h, f)' \/ Excused(h, f)'
        BY <2>1, ExcusedFrom
    <3>1. /\ \A h \in GroupNames, f \in Offsets : Excused(h, f) => Excused(h, f)'
          /\ \A f \in idemKeys : \E h \in GroupNames, n \in 1..2 : Ran(h, f)' \/ Takes(<<h, n>>, f)'
          /\ \A h \in GroupNames : \A f \in 1..committed[h] : Ran(h, f)' \/ Excused(h, f)'
        BY <1>1, <1>2, <1>5, <2>1, <2>2, ExcusedGrows DEF KafkaInv
    <3>2. \A d \in Eaters : AtEase(d)  BY <1>2 DEF KafkaInv, ExcusedInv
    <3>3. AtEase(c)'
      <4>1. way = "base" /\ topic[e] # "ok" /\ <<c[1], e>> \in dead'
          BY <1>0, <1>1, <1>2, <2>1, <3>2 DEF AtEase
      <4>2. Excused(c[1], e)'  BY <1>1, <4>1 DEF Excused
      <4> QED BY <1>3, <4>2 DEF AtEase
    <3>4. ASSUME NEW d \in Eaters, d # c PROVE AtEase(d)'
        BY <1>1, <1>3, <2>2, <3>1, <3>2, <3>4, AtEaseStays
    <3> QED BY <1>1, <3>1, <3>3, <3>4
  <2> QED BY <1>1, <1>2, <1>4, <2>3, <2>4 DEF KafkaInv
<1> QED BY <1>6, <1>7

LEMMA CommitKeeps ==
    ASSUME BusesInv, NEW c \in Eaters, Commit(c)
    PROVE  BusesInv'
<1> USE DEF BusesInv
<1>0. PICK e, g : e = eating[c].event /\ g = c[1]  OBVIOUS
<1>1. /\ eating[c].at = "done" /\ Eats(c, Idle)
      /\ committed' = IF holder[g] = c[2] THEN [committed EXCEPT ![g] = e] ELSE committed
      /\ UNCHANGED <<failures, way, topic, holder, idemKeys, dead, waiting, delivering, begun>>
    BY <1>0 DEF Commit, taskVars
<1>2. way # "memory" /\ eating[c] # Idle /\ c = <<g, c[2]>> /\ g \in GroupNames /\ c[2] \in 1..2 /\ e \in Offsets /\ e \in Nat
    BY <1>0, <1>1, AtKafka, EaterIs
<1>3. /\ eating' \in [Eaters -> EatingAs] /\ eating'[c] = Idle
      /\ \A d \in Eaters : d # c => eating'[d] = eating[d]
  <2>1. Idle \in EatingAs  BY DEF EatingAs
  <2> QED BY <1>1, <2>1, EatsMoves
<1>4. BusesTyped'
  <2>1. /\ holder \in [GroupNames -> 1..2] /\ idemKeys \subseteq Offsets
        /\ dead \subseteq GroupNames \X Offsets /\ begun \in [GroupNames -> Seq(Offsets)] /\ failures \in Nat
      BY DEF BusesTyped
  <2>2. committed' \in [GroupNames -> 0..Len(topic)]
    <3>1. e \in 0..Len(topic)  BY <1>2, OffsetsAre DEF Offsets
    <3> QED BY <1>1, <3>1 DEF BusesTyped
  <2> QED BY <1>1, <1>3, <2>1, <2>2, KafkaTypes
<1>5. \A d \in Eaters, f \in Offsets : Takes(d, f)' <=> Takes(d, f)  BY <1>1, <1>3 DEF Takes, Idle
<1>6. \A h \in GroupNames, f \in Offsets : Ran(h, f)' <=> Ran(h, f)  BY <1>1 DEF Ran
<1>7. MarkedInv'  BY <1>1, <1>2, <1>5, MarkedStays DEF KafkaInv
<1>8. failures = 0 => /\ c = <<g, 1>> /\ e = committed[g] + 1 /\ committed[g] \in Nat
                      /\ committed'[g] = e /\ \A h \in GroupNames : h # g => committed'[h] = committed[h]
  <2> SUFFICES ASSUME failures = 0
               PROVE  /\ c = <<g, 1>> /\ e = committed[g] + 1 /\ committed[g] \in Nat
                      /\ committed'[g] = e /\ \A h \in GroupNames : h # g => committed'[h] = committed[h]
      OBVIOUS
  <2>1. c = <<g, 1>> /\ e = committed[g] + 1 /\ committed[g] \in Nat /\ holder[g] = 1
      BY <1>0, <1>2, OfFirst DEF KafkaInv
  <2>2. c[2] = 1  BY <2>1
  <2> QED BY <1>1, <1>2, <2>1, <2>2 DEF BusesTyped
<1>9. AtWorkInv'
  <2> SUFFICES ASSUME failures = 0, NEW h \in GroupNames
               PROVE  /\ holder[h] = 1 /\ eating'[<<h, 2>>] = Idle
                      /\ eating'[<<h, 1>>] # Idle => eating'[<<h, 1>>].event = committed'[h] + 1
                      /\ \A i \in DOMAIN begun[h] :
                             \/ begun[h][i] <= committed'[h]
                             \/ begun[h][i] = committed'[h] + 1 /\ eating'[<<h, 1>>].at \in {"handling", "done"}
                      /\ \A i, j \in DOMAIN begun[h] : i < j => begun[h][i] < begun[h][j]
      BY <1>1 DEF AtWorkInv
  <2>1. /\ holder[h] = 1 /\ eating[<<h, 2>>] = Idle
        /\ eating[<<h, 1>>] # Idle => eating[<<h, 1>>].event = committed[h] + 1
        /\ \A i \in DOMAIN begun[h] :
               \/ begun[h][i] <= committed[h]
               \/ begun[h][i] = committed[h] + 1 /\ eating[<<h, 1>>].at \in {"handling", "done"}
        /\ \A i, j \in DOMAIN begun[h] : i < j => begun[h][i] < begun[h][j]
      BY <1>2 DEF KafkaInv, AtWorkInv
  <2>2. <<h, 1>> \in Eaters /\ <<h, 2>> \in Eaters /\ <<h, 2>> # c  BY <1>8 DEF Eaters
  <2>3. CASE h = g
    <3>1. \A i \in DOMAIN begun[h] : begun[h][i] <= committed'[h]
      <4>1. begun[g] \in Seq(Nat)  BY <1>2, OffsetsAre, Widens DEF BusesTyped
      <4>2. \A i \in DOMAIN begun[g] : begun[g][i] \in Nat  BY <4>1, LenProperties, ElementOfSeq
      <4>3. \A i \in DOMAIN begun[h] : begun[h][i] <= committed[h] \/ begun[h][i] = committed[h] + 1
          BY <2>1
      <4> QED BY <1>8, <2>3, <4>2, <4>3
    <3> QED BY <1>3, <1>8, <2>1, <2>2, <2>3, <3>1
  <2>4. CASE h # g
    <3>1. <<h, 1>> # c  BY <1>2, <2>4
    <3> QED BY <1>3, <1>8, <2>1, <2>2, <2>4, <3>1
  <2> QED BY <2>3, <2>4
<1>10. ExcusedInv'
  <2> SUFFICES ASSUME failures = 0
               PROVE  /\ \A f \in idemKeys' : \E h \in GroupNames, n \in 1..2 : Ran(h, f)' \/ Takes(<<h, n>>, f)'
                      /\ \A d \in Eaters : AtEase(d)'
                      /\ \A h \in GroupNames : \A f \in 1..committed'[h] : Ran(h, f)' \/ Excused(h, f)'
      BY <1>1, ExcusedFrom
  <2>1. /\ \A h \in GroupNames, f \in Offsets : Excused(h, f) => Excused(h, f)'
        /\ \A f \in idemKeys : \E h \in GroupNames, n \in 1..2 : Ran(h, f)' \/ Takes(<<h, n>>, f)'
        /\ \A h \in GroupNames : \A f \in 1..committed[h] : Ran(h, f)' \/ Excused(h, f)'
      BY <1>1, <1>2, <1>5, <1>6, ExcusedGrows DEF KafkaInv
  <2>2. \A d \in Eaters : AtEase(d)  BY <1>2 DEF KafkaInv, ExcusedInv
  <2>3. AtEase(c)'  BY <1>3 DEF AtEase, Idle
  <2>4. ASSUME NEW d \in Eaters, d # c PROVE AtEase(d)'
      BY <1>1, <1>3, <1>6, <2>1, <2>2, <2>4, AtEaseStays
  <2>5. ASSUME NEW h \in GroupNames, NEW f \in 1..committed'[h] PROVE Ran(h, f)' \/ Excused(h, f)'
    <3>1. CASE h = g /\ f = e
      <4>1. Ran(g, e) \/ Excused(g, e)  BY <1>0, <1>1, <1>2, <2>2 DEF AtEase
      <4>2. Ran(g, e)' \/ Excused(g, e)'  BY <1>2, <1>6, <2>1, <4>1
      <4> QED BY <3>1, <4>2
    <3>2. CASE ~(h = g /\ f = e)
      <4>1. f \in 1..committed[h]  BY <1>2, <1>8, <2>5, <3>2
      <4> QED BY <2>1, <4>1
    <3> QED BY <3>1, <3>2
  <2> QED BY <1>1, <2>1, <2>3, <2>4, <2>5
<1> QED BY <1>1, <1>2, <1>4, <1>7, <1>9, <1>10 DEF KafkaInv

LEMMA RebalanceKeeps ==
    ASSUME BusesInv, NEW g \in GroupNames, NEW gone \in BOOLEAN, Rebalance(g, gone)
    PROVE  BusesInv'
<1> USE DEF BusesInv
<1>1. /\ way # "memory" /\ Faulty /\ holder' = [holder EXCEPT ![g] = 3 - @]
      /\ eating' = IF gone THEN [eating EXCEPT ![<<g, holder[g]>>] = Idle] ELSE eating
      /\ UNCHANGED <<way, topic, committed, idemKeys, dead, waiting, delivering, begun>>
    BY DEF Rebalance
<1>2. failures' \in Nat /\ failures' # 0  BY <1>1, FaultyCounts
<1>3. eating' \in [Eaters -> EatingAs] /\ \A d \in Eaters : eating'[d] = eating[d] \/ eating'[d] = Idle
    BY <1>1 DEF BusesTyped, EatingAs
<1>4. holder' \in [GroupNames -> 1..2]
  <2>1. \A x \in 1..2 : 3 - x \in 1..2  OBVIOUS
  <2> QED BY <1>1, <2>1 DEF BusesTyped
<1>5. BusesTyped'
  <2>1. /\ committed \in [GroupNames -> 0..Len(topic)] /\ idemKeys \subseteq Offsets
        /\ dead \subseteq GroupNames \X Offsets /\ begun \in [GroupNames -> Seq(Offsets)]
      BY DEF BusesTyped
  <2> QED BY <1>1, <1>2, <1>3, <1>4, <2>1, KafkaTypes
<1>6. \A d \in Eaters, f \in Offsets : Takes(d, f)' => Takes(d, f)  BY <1>3 DEF Takes, Idle
<1> QED BY <1>1, <1>2, <1>5, <1>6, FailureKeeps

----------------------------------------------------------------------------
(* In memory                                                               *)

LEMMA MemoryTypes ==
    ASSUME BusesTyped, UNCHANGED <<way, topic, holder, committed, eating, idemKeys, dead>>,
           waiting' \in Seq(Offsets), delivering' \subseteq [event : Offsets, turn : DOMAIN BusGroups],
           begun' \in [GroupNames -> Seq(Offsets)], failures' \in Nat
    PROVE  BusesTyped'
    BY DEF BusesTyped, Offsets

LEMMA DeliverKeeps ==
    ASSUME BusesInv, Deliver
    PROVE  BusesInv'
<1> USE DEF BusesInv
<1>0. PICK e, g, new : e = Head(waiting) /\ g = BusGroups[1] /\ new = [event |-> e, turn |-> 1]
    OBVIOUS
<1>1. /\ waiting # <<>> /\ waiting' = Tail(waiting)
      /\ delivering' = delivering \cup {new}
      /\ begun' = [begun EXCEPT ![g] = Append(@, e)]
      /\ UNCHANGED <<failures, way, topic, holder, committed, eating, idemKeys, dead>>
    BY <1>0 DEF Deliver, taskVars
<1>2. way = "memory" /\ g \in GroupNames /\ 1 \in DOMAIN BusGroups
    BY <1>0, <1>1, GroupsAre DEF KafkaInv
<1>3. /\ waiting \in Seq(Offsets) /\ e \in Offsets /\ e \in Nat /\ e = waiting[1] /\ Len(waiting) \in Nat /\ Len(waiting) # 0
      /\ waiting' \in Seq(Offsets) /\ DOMAIN waiting = 1..Len(waiting) /\ DOMAIN waiting' = 1..(Len(waiting) - 1)
      /\ \A i \in 1..(Len(waiting) - 1) : waiting'[i] = waiting[i + 1]
      /\ \A i \in 1..Len(waiting) : waiting[i] \in Nat
  <2>1. waiting \in Seq(Offsets)  BY DEF BusesTyped
  <2>2. DOMAIN waiting = 1..Len(waiting) /\ Len(waiting) \in Nat /\ Len(waiting) # 0
      BY <1>1, <2>1, LenProperties, EmptySeq
  <2>3. /\ Tail(waiting) \in Seq(Offsets) /\ Len(Tail(waiting)) = Len(waiting) - 1
        /\ \A i \in 1..Len(Tail(waiting)) : Tail(waiting)[i] = waiting[i + 1]
      BY <1>1, <2>1, HeadTailProperties
  <2>4. DOMAIN Tail(waiting) = 1..Len(Tail(waiting))  BY <2>3, LenProperties
  <2>5. \A i \in 1..Len(waiting) : waiting[i] \in Offsets /\ waiting[i] \in Nat
      BY <2>1, <2>2, ElementOfSeq, OffsetsAre
  <2>6. e = waiting[1]  BY <1>0
  <2> QED BY <1>1, <2>1, <2>2, <2>3, <2>4, <2>5, <2>6
<1>4. /\ \A i, j \in DOMAIN waiting : i < j => waiting[i] < waiting[j]
      /\ \A d \in delivering : ~StillWaits(d.event)
      /\ \A d, x \in delivering : d.event = x.event => d = x
      /\ \A h \in GroupNames, f \in Offsets : Ran(h, f) => ~StillWaits(f)
      /\ \A k \in DOMAIN BusGroups : \A d \in delivering : Ran(BusGroups[k], d.event) => k <= d.turn
      /\ \A h \in GroupNames : \A i, j \in DOMAIN begun[h] : i < j => begun[h][i] # begun[h][j]
    BY <1>2 DEF MemoryInv, TurnInv
<1>5. StillWaits(e) /\ ~StillWaits(e)' /\ (\A f : StillWaits(f)' <=> StillWaits(f) /\ f # e) /\ \A j \in DOMAIN waiting' : e < waiting'[j]
  <2>1. StillWaits(e)  BY <1>3 DEF StillWaits
  <2>2. ASSUME NEW j \in DOMAIN waiting' PROVE e < waiting'[j]
    <3>1. 1 \in DOMAIN waiting /\ j + 1 \in DOMAIN waiting /\ 1 < j + 1 /\ waiting'[j] = waiting[j + 1]
        BY <1>3
    <3>2. waiting[1] < waiting[j + 1]  BY <1>4, <3>1
    <3> QED BY <1>3, <3>1, <3>2
  <2>3. ASSUME NEW f, StillWaits(f), f # e PROVE StillWaits(f)'
    <3>1. PICK i \in DOMAIN waiting : waiting[i] = f  BY <2>3 DEF StillWaits
    <3>2. i - 1 \in DOMAIN waiting' /\ waiting'[i - 1] = f  BY <1>3, <2>3, <3>1
    <3> QED BY <3>2 DEF StillWaits
  <2>4. ASSUME NEW f, StillWaits(f)' PROVE StillWaits(f) /\ f # e
    <3>1. PICK i \in DOMAIN waiting' : waiting'[i] = f  BY <2>4 DEF StillWaits
    <3>2. i + 1 \in DOMAIN waiting /\ waiting[i + 1] = f /\ e < f  BY <1>3, <2>2, <3>1
    <3> QED BY <1>3, <3>2 DEF StillWaits
  <2> QED BY <2>1, <2>2, <2>3, <2>4
<1>6. /\ begun' \in [GroupNames -> Seq(Offsets)] /\ begun[g] \in Seq(Offsets)
      /\ \A h \in GroupNames : h # g => begun'[h] = begun[h]
      /\ begun'[g] = Append(begun[g], e)
      /\ \A h \in GroupNames, f \in Nat : Ran(h, f)' <=> Ran(h, f) \/ (h = g /\ f = e)
  <2>1. e \in Offsets /\ g \in GroupNames /\ begun' = [begun EXCEPT ![g] = Append(@, e)]
      BY <1>1, <1>2, <1>3
  <2> QED BY <2>1, RunsHandler
<1>7. new \in [event : Offsets, turn : DOMAIN BusGroups] /\ new.event = e /\ new.turn = 1
    BY <1>0, <1>2, <1>3
<1>8. BusesTyped'
  <2>1. delivering' \subseteq [event : Offsets, turn : DOMAIN BusGroups] /\ failures \in Nat
      BY <1>1, <1>7 DEF BusesTyped
  <2> QED BY <1>1, <1>3, <1>6, <2>1, MemoryTypes
<1>9. (\A h \in GroupNames : ~Ran(h, e)) /\ (\A d \in delivering : d.event # e /\ d.event \in Offsets /\ d.event \in Nat)
    BY <1>3, <1>4, <1>5, OffsetsAre DEF BusesTyped
<1>10. Offsets' = Offsets /\ \A f \in Offsets : f \in Nat  BY <1>1, OffsetsAre DEF Offsets
<1>11. TurnInv'
  <2>1. \A i, j \in DOMAIN waiting' : i < j => waiting'[i] < waiting'[j]
    <3> SUFFICES ASSUME NEW i \in DOMAIN waiting', NEW j \in DOMAIN waiting', i < j PROVE waiting'[i] < waiting'[j]
        OBVIOUS
    <3>1. i + 1 \in DOMAIN waiting /\ j + 1 \in DOMAIN waiting /\ i + 1 < j + 1  BY <1>3
    <3> QED BY <1>3, <1>4, <3>1
  <2>2. \A d \in delivering' : ~StillWaits(d.event)'  BY <1>1, <1>4, <1>5, <1>7
  <2>3. \A d, x \in delivering' : d.event = x.event => d = x  BY <1>1, <1>4, <1>7, <1>9
  <2>4. \A h \in GroupNames, f \in Offsets : Ran(h, f)' => ~StillWaits(f)'
      BY <1>4, <1>5, <1>6, <1>10
  <2>5. \A k \in DOMAIN BusGroups : \A d \in delivering' : Ran(BusGroups[k], d.event)' => k <= d.turn
    <3> SUFFICES ASSUME NEW k \in DOMAIN BusGroups, NEW f \in Offsets, NEW d \in delivering', d.event = f, Ran(BusGroups[k], f)'
                 PROVE  k <= d.turn
      <4>1. \A d \in delivering' : d.event \in Offsets  BY <1>1, <1>7, <1>9
      <4>2. delivering' = delivering \cup {new}  BY <1>1
      <4> QED BY <4>1
    <3>1. BusGroups[k] \in GroupNames /\ (Ran(BusGroups[k], f) \/ (BusGroups[k] = g /\ f = e))
        BY <1>6, <1>10, GroupsAre
    <3>2. CASE d = new  BY <1>0, <1>2, <1>7, <1>9, <3>1, <3>2, GroupsAre
    <3>3. CASE d # new
      <4>1. d \in delivering /\ f # e  BY <1>1, <1>9, <3>3
      <4> QED BY <1>4, <3>1, <4>1
    <3> QED BY <3>2, <3>3
  <2>6. \A h \in GroupNames : \A i, j \in DOMAIN begun'[h] : i < j => begun'[h][i] # begun'[h][j]
    <3>1. PICK s : s = begun[g]  OBVIOUS
    <3>2. s \in Seq(Offsets) /\ (\A i, j \in DOMAIN s : i < j => s[i] # s[j]) /\ \A i \in DOMAIN s : s[i] # e
      <4>1. \A i \in DOMAIN begun[g] : begun[g][i] # e  BY <1>2, <1>9 DEF Ran
      <4> QED BY <1>2, <1>4, <1>6, <3>1, <4>1
    <3>3. \A i, j \in DOMAIN Append(s, e) : i < j => Append(s, e)[i] # Append(s, e)[j]
        BY <1>3, <3>2, RunsAnother
    <3>4. begun'[g] = Append(s, e)  BY <1>6, <3>1
    <3> SUFFICES ASSUME NEW h \in GroupNames PROVE \A i, j \in DOMAIN begun'[h] : i < j => begun'[h][i] # begun'[h][j]
        OBVIOUS
    <3>5. CASE h = g  BY <3>3, <3>4, <3>5
    <3>6. CASE h # g  BY <1>4, <1>6, <3>6
    <3> QED BY <3>5, <3>6
  <2> QED BY <1>10, <2>1, <2>2, <2>3, <2>4, <2>5, <2>6 DEF TurnInv
<1>12. FirstInv'
  <2>1. PICK s : s = begun[g]  OBVIOUS
  <2>2. /\ s \in Seq(Offsets) /\ DOMAIN s = 1..Len(s) /\ Len(s) \in Nat
        /\ \A i, j \in DOMAIN s : i < j => s[i] < s[j]
        /\ \A i \in DOMAIN s, j \in DOMAIN waiting : s[i] < waiting[j]
      BY <1>0, <1>2, <1>6, <2>1, LenProperties DEF MemoryInv, FirstInv
  <2>3. \A i \in DOMAIN s : s[i] < e /\ s[i] \in Nat
    <3>1. 1 \in DOMAIN waiting  BY <1>3
    <3> QED BY <1>3, <1>10, <2>2, <3>1, ElementOfSeq
  <2>4. Offsets \in SUBSET Nat  BY <1>10
  <2>5. \A i, j \in DOMAIN Append(s, e) : i < j => Append(s, e)[i] < Append(s, e)[j]
      BY <1>3, <2>2, <2>3, <2>4, RunsLater
  <2>6. \A i \in DOMAIN Append(s, e), j \in DOMAIN waiting' : Append(s, e)[i] < waiting'[j]
    <3>1. \A i \in DOMAIN Append(s, e) : Append(s, e)[i] \in Nat /\ Append(s, e)[i] <= e
        BY <1>3, <2>2, <2>3, Lengthens
    <3>2. \A j \in DOMAIN waiting' : waiting'[j] \in Nat /\ e < waiting'[j]  BY <1>3, <1>5
    <3> QED BY <1>3, <3>1, <3>2
  <2>7. begun'[BusGroups[1]] = Append(s, e)  BY <1>0, <1>6, <2>1
  <2> QED BY <2>5, <2>6, <2>7 DEF FirstInv
<1>13. ReachedInv'
  <2> SUFFICES ASSUME failures = 0, NEW k \in DOMAIN BusGroups, NEW f \in Offsets, ~StillWaits(f)',
                      \A d \in delivering' : d.event = f => k <= d.turn
               PROVE  Ran(BusGroups[k], f)'
      BY <1>1, <1>10 DEF ReachedInv
  <2>1. CASE f = e
    <3>1. k <= 1  BY <1>1, <1>7, <2>1
    <3>2. k = 1  BY <3>1, GroupsAre
    <3> QED BY <1>0, <1>2, <1>3, <1>6, <2>1, <3>2
  <2>2. CASE f # e
    <3>1. ~StillWaits(f) /\ \A d \in delivering : d.event = f => k <= d.turn  BY <1>1, <1>5, <2>2
    <3>2. Ran(BusGroups[k], f)  BY <1>2, <3>1 DEF MemoryInv, ReachedInv
    <3> QED BY <1>6, <1>10, <3>2, GroupsAre
  <2> QED BY <2>1, <2>2
<1>14. \A c \in Eaters : eating'[c] = Idle  BY <1>1, <1>2 DEF MemoryInv
<1> QED BY <1>1, <1>2, <1>8, <1>11, <1>12, <1>13, <1>14 DEF MemoryInv

LEMMA NextHandlerKeeps ==
    ASSUME BusesInv, NEW d \in delivering, NextHandler(d)
    PROVE  BusesInv'
<1> USE DEF BusesInv
<1>1. way = "memory" /\ d \in [event : Offsets, turn : DOMAIN BusGroups] /\ d.event \in Nat
    BY OffsetsAre DEF KafkaInv, BusesTyped
<1>2. UNCHANGED <<failures, way, topic, holder, committed, eating, idemKeys, dead, waiting>>
    BY DEF NextHandler, taskVars
<1>3. /\ \A i, j \in DOMAIN waiting : i < j => waiting[i] < waiting[j]
      /\ \A x \in delivering : ~StillWaits(x.event)
      /\ \A y, x \in delivering : y.event = x.event => y = x
      /\ \A h \in GroupNames, f \in Offsets : Ran(h, f) => ~StillWaits(f)
      /\ \A k \in DOMAIN BusGroups : \A x \in delivering : Ran(BusGroups[k], x.event) => k <= x.turn
      /\ \A h \in GroupNames : \A i, j \in DOMAIN begun[h] : i < j => begun[h][i] # begun[h][j]
    BY <1>1 DEF MemoryInv, TurnInv
<1>4. Offsets' = Offsets /\ (\A f \in Offsets : f \in Nat) /\ \A f : StillWaits(f)' <=> StillWaits(f)
    BY <1>2, OffsetsAre DEF Offsets, StillWaits
<1>5. \A c \in Eaters : eating'[c] = Idle  BY <1>1, <1>2 DEF MemoryInv
<1>6. \A x \in delivering : x.event \in Offsets /\ x.turn \in DOMAIN BusGroups  BY DEF BusesTyped
<1>7. CASE d.turn = Len(BusGroups)
  <2>1. delivering' = delivering \ {d} /\ begun' = begun  BY <1>7 DEF NextHandler
  <2>2. BusesTyped'
    <3>1. /\ waiting \in Seq(Offsets) /\ delivering' \subseteq [event : Offsets, turn : DOMAIN BusGroups]
          /\ begun \in [GroupNames -> Seq(Offsets)] /\ failures \in Nat
        BY <2>1 DEF BusesTyped
    <3> QED BY <1>2, <2>1, <3>1, MemoryTypes
  <2>3. \A h, f : Ran(h, f)' <=> Ran(h, f)  BY <2>1 DEF Ran
  <2>4. TurnInv'  BY <1>2, <1>3, <1>4, <2>1, <2>3 DEF TurnInv, Ran, StillWaits
  <2>5. FirstInv'  BY <1>1, <1>2, <2>1 DEF MemoryInv, FirstInv
  <2>6. ReachedInv'
    <3> SUFFICES ASSUME failures = 0, NEW k \in DOMAIN BusGroups, NEW f \in Offsets, ~StillWaits(f),
                        \A x \in delivering' : x.event = f => k <= x.turn
                 PROVE  Ran(BusGroups[k], f)
        BY <1>2, <1>4, <2>3 DEF ReachedInv
    <3>1. \A x \in delivering : x.event = f => k <= x.turn  BY <1>7, <2>1, GroupsAre
    <3> QED BY <1>1, <3>1 DEF MemoryInv, ReachedInv
  <2> QED BY <1>1, <1>2, <1>5, <2>2, <2>4, <2>5, <2>6 DEF MemoryInv
<1>8. CASE d.turn # Len(BusGroups)
  <2>0. PICK e, t, g, new : e = d.event /\ t = d.turn + 1 /\ g = BusGroups[d.turn + 1] /\ new = [d EXCEPT !.turn = d.turn + 1]
      OBVIOUS
  <2>1. delivering' = (delivering \ {d}) \cup {new} /\ begun' = [begun EXCEPT ![g] = Append(@, e)]
      BY <1>8, <2>0 DEF NextHandler
  <2>2. /\ e \in Offsets /\ e \in Nat /\ t \in DOMAIN BusGroups /\ t \in Nat /\ g = BusGroups[t] /\ g \in GroupNames
        /\ new \in [event : Offsets, turn : DOMAIN BusGroups] /\ new.event = e /\ new.turn = t
    <3>1. t \in DOMAIN BusGroups /\ t \in Nat  BY <1>1, <1>8, <2>0, GroupsAre
    <3> QED BY <1>1, <2>0, <3>1, GroupsAre
  <2>3. /\ begun' \in [GroupNames -> Seq(Offsets)] /\ begun[g] \in Seq(Offsets)
        /\ \A h \in GroupNames : h # g => begun'[h] = begun[h]
        /\ begun'[g] = Append(begun[g], e)
        /\ \A h \in GroupNames, f \in Nat : Ran(h, f)' <=> Ran(h, f) \/ (h = g /\ f = e)
      BY <2>1, <2>2, RunsHandler
  <2>4. BusesTyped'
    <3>1. waiting \in Seq(Offsets) /\ delivering' \subseteq [event : Offsets, turn : DOMAIN BusGroups] /\ failures \in Nat
        BY <2>1, <2>2 DEF BusesTyped
    <3> QED BY <1>2, <2>3, <3>1, MemoryTypes
  <2>5. ~Ran(g, e)
    <3>1. Ran(BusGroups[t], d.event) => t <= d.turn  BY <1>3, <2>2
    <3>2. d.turn \in Nat /\ ~(d.turn + 1 <= d.turn)  BY <1>1, GroupsAre
    <3> QED BY <2>0, <2>2, <3>1, <3>2
  <2>6. \A x \in delivering : x # d => x.event # e  BY <1>3, <2>0
  <2>7. TurnInv'
    <3>1. \A x \in delivering' : ~StillWaits(x.event)  BY <1>3, <2>0, <2>1, <2>2
    <3>2. \A y, x \in delivering' : y.event = x.event => y = x  BY <1>3, <2>1, <2>2, <2>6
    <3>3. \A h \in GroupNames, f \in Offsets : Ran(h, f)' => ~StillWaits(f)
        BY <1>3, <1>4, <2>0, <2>3
    <3>4. \A k \in DOMAIN BusGroups : \A x \in delivering' : Ran(BusGroups[k], x.event)' => k <= x.turn
      <4> SUFFICES ASSUME NEW k \in DOMAIN BusGroups, NEW f \in Offsets, NEW x \in delivering', x.event = f, Ran(BusGroups[k], f)'
                   PROVE  k <= x.turn
        <5>1. \A x \in delivering' : x.event \in Offsets  BY <1>6, <2>1, <2>2
        <5>2. delivering' = (delivering \ {d}) \cup {new}  BY <2>1
        <5> QED BY <5>1
      <4>1. BusGroups[k] \in GroupNames /\ (Ran(BusGroups[k], f) \/ (BusGroups[k] = g /\ f = e))
          BY <1>4, <2>3, GroupsAre
      <4>2. CASE x = new
        <5>1. f = e /\ x.turn = t  BY <2>2, <4>2
        <5>2. CASE BusGroups[k] = g
          <6>1. k = t  BY <2>2, <5>2, GroupsAre
          <6> QED BY <2>2, <5>1, <6>1
        <5>3. CASE BusGroups[k] # g
          <6>1. k <= d.turn /\ k \in Nat  BY <1>3, <2>0, <4>1, <5>1, <5>3, GroupsAre
          <6> QED BY <1>1, <2>0, <5>1, <6>1, GroupsAre
        <5> QED BY <5>2, <5>3
      <4>3. CASE x # new
        <5>1. x \in delivering /\ f # e  BY <2>1, <2>6, <4>3
        <5> QED BY <1>3, <4>1, <5>1
      <4> QED BY <4>2, <4>3
    <3>5. \A h \in GroupNames : \A i, j \in DOMAIN begun'[h] : i < j => begun'[h][i] # begun'[h][j]
      <4>1. PICK s : s = begun[g]  OBVIOUS
      <4>2. s \in Seq(Offsets) /\ (\A i, j \in DOMAIN s : i < j => s[i] # s[j]) /\ \A i \in DOMAIN s : s[i] # e
        <5>1. \A i \in DOMAIN begun[g] : begun[g][i] # e  BY <2>5 DEF Ran
        <5> QED BY <1>3, <2>2, <2>3, <4>1, <5>1
      <4>3. \A i, j \in DOMAIN Append(s, e) : i < j => Append(s, e)[i] # Append(s, e)[j]
          BY <2>2, <4>2, RunsAnother
      <4>4. begun'[g] = Append(s, e)  BY <2>3, <4>1
      <4> SUFFICES ASSUME NEW h \in GroupNames PROVE \A i, j \in DOMAIN begun'[h] : i < j => begun'[h][i] # begun'[h][j]
          OBVIOUS
      <4>5. CASE h = g  BY <4>3, <4>4, <4>5
      <4>6. CASE h # g  BY <1>3, <2>3, <4>6
      <4> QED BY <4>5, <4>6
    <3>6. waiting' = waiting  BY <1>2
    <3> QED BY <1>3, <1>4, <3>1, <3>2, <3>3, <3>4, <3>5, <3>6 DEF TurnInv
  <2>8. FirstInv'
    <3>1. g # BusGroups[1]  BY <1>1, <2>0, <2>2, GroupsAre
    <3>2. begun'[BusGroups[1]] = begun[BusGroups[1]]  BY <2>3, <3>1, GroupsAre
    <3> QED BY <1>1, <1>2, <3>2 DEF MemoryInv, FirstInv
  <2>9. ReachedInv'
    <3> SUFFICES ASSUME failures = 0, NEW k \in DOMAIN BusGroups, NEW f \in Offsets, ~StillWaits(f),
                        \A x \in delivering' : x.event = f => k <= x.turn
                 PROVE  Ran(BusGroups[k], f)'
        BY <1>2, <1>4 DEF ReachedInv
    <3>1. BusGroups[k] \in GroupNames  BY GroupsAre
    <3>2. CASE f = e
      <4>1. k <= t  BY <2>1, <2>2, <3>2
      <4>2. CASE k = t  BY <2>2, <2>3, <3>2, <4>2
      <4>3. CASE k # t
        <5>1. k <= d.turn  BY <1>1, <2>0, <4>1, <4>3, GroupsAre
        <5>2. \A x \in delivering : x.event = f => k <= x.turn  BY <2>6, <3>2, <5>1
        <5>3. Ran(BusGroups[k], f)  BY <1>1, <5>2 DEF MemoryInv, ReachedInv
        <5> QED BY <1>4, <2>3, <3>1, <5>3
      <4> QED BY <4>2, <4>3
    <3>3. CASE f # e
      <4>1. \A x \in delivering : x.event = f => k <= x.turn  BY <2>0, <2>1, <3>3
      <4>2. Ran(BusGroups[k], f)  BY <1>1, <4>1 DEF MemoryInv, ReachedInv
      <4> QED BY <1>4, <2>3, <3>1, <4>2
    <3> QED BY <3>2, <3>3
  <2> QED BY <1>1, <1>2, <1>5, <2>4, <2>7, <2>8, <2>9 DEF MemoryInv
<1> QED BY <1>7, <1>8

\* What was under way is gone; what was handled stays handled.
LEMMA ProcessDiesKeeps ==
    ASSUME BusesInv, ProcessDies
    PROVE  BusesInv'
<1> USE DEF BusesInv
<1>1. /\ way = "memory" /\ Faulty /\ waiting' = <<>> /\ delivering' = {}
      /\ UNCHANGED <<way, topic, holder, committed, eating, idemKeys, dead, begun>>
    BY DEF ProcessDies
<1>2. failures' \in Nat /\ failures' # 0  BY <1>1, FaultyCounts
<1>3. waiting' \in Seq(Offsets) /\ DOMAIN waiting' = {}  BY <1>1, EmptySeq
<1>4. BusesTyped'  BY <1>1, <1>2, <1>3, MemoryTypes DEF BusesTyped
<1>5. \A h \in GroupNames : \A i, j \in DOMAIN begun[h] : i < j => begun[h][i] # begun[h][j]
    BY <1>1 DEF MemoryInv, TurnInv
<1>6. TurnInv'  BY <1>1, <1>3, <1>5 DEF TurnInv, StillWaits
<1>7. FirstInv'  BY <1>1, <1>3 DEF MemoryInv, FirstInv
<1>8. ReachedInv'  BY <1>2 DEF ReachedInv
<1>9. \A c \in Eaters : eating'[c] = Idle  BY <1>1 DEF MemoryInv
<1> QED BY <1>1, <1>4, <1>6, <1>7, <1>8, <1>9 DEF MemoryInv

----------------------------------------------------------------------------
(* Kafka and the memory: what holds                                        *)

LEMMA BusesStarts == BusesStart => BusesInv
<1> SUFFICES ASSUME BusesStart PROVE BusesInv  OBVIOUS
<1>1. /\ way \in {"kafka", "base", "memory"} /\ topic = <<>> /\ waiting = <<>> /\ delivering = {}
      /\ holder = [g \in GroupNames |-> 1] /\ committed = [g \in GroupNames |-> 0]
      /\ eating = [c \in Eaters |-> Idle] /\ idemKeys = {} /\ dead = {}
      /\ begun = [g \in GroupNames |-> <<>>] /\ failures = 0
    BY DEF BusesStart, BusInit, TasksInit, Eaters
<1>2. Len(topic) = 0 /\ DOMAIN topic = {} /\ DOMAIN waiting = {} /\ Offsets = {}
    BY <1>1, EmptySeq DEF Offsets
<1>3. /\ topic \in Seq({"ok", "malformed", "untenanted"}) /\ waiting \in Seq(Offsets) /\ begun \in [GroupNames -> Seq(Offsets)]
      /\ \A g \in GroupNames : begun[g] = <<>> /\ DOMAIN begun[g] = {} /\ committed[g] = 0 /\ holder[g] = 1
    BY <1>1, EmptySeq
<1>4. BusesTyped  BY <1>1, <1>2, <1>3, GroupsAre DEF BusesTyped
<1>5. \A c \in Eaters : eating[c] = Idle /\ eating[c].at = "idle" /\ eating[c].event = 0
    BY <1>1 DEF Idle
<1>6. \A g \in GroupNames : <<g, 1>> \in Eaters /\ <<g, 2>> \in Eaters  BY DEF Eaters
<1>7. MarkedInv  BY <1>2, <1>3 DEF MarkedInv, OneGroupTakesIt
<1>8. AtWorkInv  BY <1>3, <1>5, <1>6 DEF AtWorkInv
<1>9. ExcusedInv  BY <1>1, <1>2, <1>3 DEF ExcusedInv, AtEase
<1>10. TurnInv  BY <1>1, <1>2, <1>3 DEF TurnInv
<1>11. FirstInv  BY <1>2, <1>3, GroupsAre DEF FirstInv
<1>12. ReachedInv  BY <1>2 DEF ReachedInv
<1> QED BY <1>1, <1>4, <1>5, <1>7, <1>8, <1>9, <1>10, <1>11, <1>12 DEF BusesInv, KafkaInv, MemoryInv

LEMMA BusesStutter == BusesInv /\ UNCHANGED busesVars => BusesInv'
<1> SUFFICES ASSUME BusesInv, UNCHANGED busesVars PROVE BusesInv'  OBVIOUS
<1>1. UNCHANGED <<failures, way, topic, holder, committed, eating, idemKeys, dead, waiting, delivering, begun>>
    BY DEF busesVars, taskVars, busVars
<1>2. BusesTyped'  BY <1>1 DEF BusesInv, BusesTyped, Offsets
<1>3. ASSUME way # "memory" PROVE KafkaInv'
  <2>1. MarkedInv /\ AtWorkInv /\ ExcusedInv /\ waiting = <<>> /\ delivering = {}
      BY <1>3 DEF BusesInv, KafkaInv
  <2>2. /\ Offsets' = Offsets /\ (\A c, e : Takes(c, e)' <=> Takes(c, e)) /\ (\A g, e : Ran(g, e)' <=> Ran(g, e))
      BY <1>1 DEF Offsets, Takes, Ran
  <2>3. MarkedInv'  BY <1>1, <2>1, <2>2, MarkedStays
  <2>4. AtWorkInv'  BY <1>1, <2>1 DEF AtWorkInv
  <2>5. (\A g, e : Excused(g, e)' <=> Excused(g, e)) /\ \A c \in Eaters : AtEase(c)' <=> AtEase(c)
    <3>1. \A g, e : Excused(g, e)' <=> Excused(g, e)  BY <1>1, <2>2 DEF Excused
    <3> QED BY <1>1, <2>2, <3>1 DEF AtEase
  <2>6. ExcusedInv'  BY <1>1, <2>1, <2>2, <2>5 DEF ExcusedInv
  <2> QED BY <1>1, <2>1, <2>3, <2>4, <2>6 DEF KafkaInv
<1>4. way = "memory" => MemoryInv'
    BY <1>1 DEF BusesInv, MemoryInv, TurnInv, FirstInv, ReachedInv, StillWaits, Ran, Offsets
<1> QED BY <1>1, <1>2, <1>3, <1>4 DEF BusesInv

LEMMA BusesStep == BusesInv /\ [BusNext]_busesVars => BusesInv'
<1> SUFFICES ASSUME BusesInv, BusNext PROVE BusesInv'  BY BusesStutter
<1>1. CASE \E form \in {"ok", "malformed", "untenanted"} : PublishEnvelope(form)
    BY <1>1, PublishKeeps
<1>2. CASE \E g \in GroupNames : EachMessage(g) \/ \E gone \in BOOLEAN : Rebalance(g, gone)
    BY <1>2, EachMessageKeeps, RebalanceKeeps
<1>3. CASE \E c \in Eaters : MarkIfNew(c) \/ Handle(c) \/ HandlerReturns(c) \/ HandlerThrows(c) \/ DeadLetter(c) \/ Commit(c)
    BY <1>3, MarkIfNewKeeps, HandleKeeps, HandlerReturnsKeeps, HandlerThrowsKeeps, DeadLetterKeeps, CommitKeeps
<1>4. CASE Deliver  BY <1>4, DeliverKeeps
<1>5. CASE ProcessDies  BY <1>5, ProcessDiesKeeps
<1>6. CASE \E d \in delivering : NextHandler(d)  BY <1>6, NextHandlerKeeps
<1> QED BY <1>1, <1>2, <1>3, <1>4, <1>5, <1>6 DEF BusNext, Eaters

LEMMA BusesAlways == BusesSpec => []BusesInv
    BY BusesStarts, BusesStep, PTL DEF BusesSpec

\* Each group is either past an event it handled, or has the reason the property asks for.
LEMMA KafkaPassesOver ==
    ASSUME BusesTyped, ExcusedInv, failures = 0, NEW g \in GroupNames, NEW e \in Offsets, e <= committed[g], ~Ran(g, e)
    PROVE  \/ topic[e] = "malformed" /\ way = "kafka"
           \/ topic[e] # "ok" /\ way = "base" /\ <<g, e>> \in dead
           \/ \E h \in GroupNames \ {g}, n \in 1..2 : Ran(h, e) \/ eating[<<h, n>>] = [at |-> "handle", event |-> e]
<1>1. e \in 1..committed[g]  BY OffsetsAre DEF BusesTyped, Offsets
<1>2. Excused(g, e)  BY <1>1 DEF ExcusedInv
<1>3. ASSUME NEW h \in GroupNames, NEW n \in 1..2, Takes(<<h, n>>, e) PROVE eating[<<h, n>>] = [at |-> "handle", event |-> e]
  <2>1. <<h, n>> \in Eaters  BY DEF Eaters
  <2>2. eating[<<h, n>>].at = "handle" /\ eating[<<h, n>>].event = e  BY <1>3 DEF Takes
  <2>3. eating[<<h, n>>] \in [at : {"mark", "handle", "handling", "dlq", "done"}, event : Offsets]
      BY <2>1, <2>2 DEF BusesTyped, Idle
  <2> QED BY <2>2, <2>3
<1> QED BY <1>2, <1>3 DEF Excused

LEMMA BusesInvHolds == BusesInv => BusTypeOK /\ BusesHold
<1> SUFFICES ASSUME BusesInv PROVE BusTypeOK /\ BusesHold  OBVIOUS
<1>1. BusesTyped /\ (way # "memory" => MarkedInv /\ AtWorkInv /\ ExcusedInv) /\ (way = "memory" => TurnInv /\ FirstInv /\ ReachedInv)
    BY DEF BusesInv, KafkaInv, MemoryInv
<1>2. /\ Len(topic) \in Nat /\ MaxPublished \in Nat /\ Len(topic) <= MaxPublished /\ DOMAIN topic = Offsets
      /\ Offsets \subseteq 1..MaxPublished /\ \A e \in Offsets : topic[e] \in {"ok", "malformed", "untenanted"}
    BY <1>1, OffsetsAre, GroupsAre DEF BusesTyped, Offsets
<1>3. BusTypeOK
  <2>1. waiting \in Seq(Offsets) /\ \A g \in GroupNames : begun[g] \in Seq(Offsets)
      BY <1>1 DEF BusesTyped
  <2>2. (\A i \in DOMAIN waiting : waiting[i] \in Offsets) /\ \A g \in GroupNames : \A i \in DOMAIN begun[g] : begun[g][i] \in Offsets
      BY <2>1, LenProperties, ElementOfSeq
  <2>3. \A g \in GroupNames : committed[g] \in 0..MaxPublished
    <3> SUFFICES ASSUME NEW g \in GroupNames PROVE committed[g] \in 0..MaxPublished  OBVIOUS
    <3>1. committed[g] \in 0..Len(topic)  BY <1>1 DEF BusesTyped
    <3> QED BY <1>2, <3>1
  <2>4. committed \in [GroupNames -> 0..MaxPublished]  BY <1>1, <2>3 DEF BusesTyped
  <2> DEFINE As == [at : {"idle", "mark", "handle", "handling", "dlq", "done"}, event : 0..MaxPublished]
  <2>5. \A e \in Offsets : e \in 0..MaxPublished  BY <1>2
  <2>6. Idle \in As  BY <1>2 DEF Idle
  <2>7. [at : {"mark", "handle", "handling", "dlq", "done"}, event : Offsets] \subseteq As  BY <2>5
  <2>8. eating \in [Eaters -> As]  BY <1>1, <2>6, <2>7 DEF BusesTyped
  <2>9. delivering \subseteq [event : 1..MaxPublished, turn : DOMAIN BusGroups]
      BY <1>1, <1>2 DEF BusesTyped
  <2> QED BY <1>1, <1>2, <2>2, <2>4, <2>8, <2>9 DEF BusTypeOK, BusesTyped, Eaters
<1>4. OnceAndInOrder
  <2> SUFFICES ASSUME NEW g \in GroupNames, NEW i \in DOMAIN begun[g], NEW j \in DOMAIN begun[g], i < j
               PROVE  /\ begun[g][i] # begun[g][j]
                      /\ way = "memory" => (g = BusGroups[1] => begun[g][i] < begun[g][j])
                      /\ way # "memory" => (failures = 0 => begun[g][i] < begun[g][j])
      BY DEF OnceAndInOrder
  <2>1. CASE way = "memory"  BY <1>1, <2>1 DEF TurnInv, FirstInv
  <2>2. CASE way # "memory"
    <3>1. begun[g][i] # begun[g][j]  BY <1>1, <2>2 DEF MarkedInv
    <3>2. failures = 0 => begun[g][i] < begun[g][j]  BY <1>1, <2>2 DEF AtWorkInv
    <3> QED BY <2>2, <3>1, <3>2
  <2> QED BY <2>1, <2>2
<1>5. PassedOverOnlyBy
  <2> SUFFICES ASSUME NEW g \in GroupNames, NEW e \in Offsets, Passed(g, e), ~Ran(g, e), failures = 0
               PROVE  /\ way # "memory"
                      /\ \/ topic[e] = "malformed" /\ way = "kafka"
                         \/ topic[e] # "ok" /\ way = "base" /\ <<g, e>> \in dead
                         \/ \E h \in GroupNames \ {g}, n \in 1..2 : Ran(h, e) \/ eating[<<h, n>>] = [at |-> "handle", event |-> e]
      BY <1>2 DEF PassedOverOnlyBy
  <2>1. way # "memory"
    <3> SUFFICES ASSUME way = "memory" PROVE FALSE  OBVIOUS
    <3>1. ~StillWaits(e) /\ \A d \in delivering : d.event # e  BY DEF Passed, StillWaits
    <3>2. PICK k \in DOMAIN BusGroups : BusGroups[k] = g  BY GroupsAre
    <3>3. Ran(BusGroups[k], e)  BY <1>1, <3>1 DEF ReachedInv
    <3> QED BY <3>2, <3>3
  <2>2. e <= committed[g]
    <3>1. committed[g] >= e /\ committed[g] \in Int /\ e \in Int
        BY <1>1, <1>2, <2>1 DEF Passed, BusesTyped
    <3> QED BY <3>1
  <2> QED BY <1>1, <2>1, <2>2, KafkaPassesOver
<1>6. OneGroupTakesIt  BY <1>1 DEF MarkedInv, OneGroupTakesIt
<1> QED BY <1>3, <1>4, <1>5, <1>6 DEF BusesHold

\* Whatever way the bus goes, its state has the types BusTypeOK gives it.
THEOREM BusesTypeCorrect == BusesSpec => []BusTypeOK
    BY BusesAlways, BusesInvHolds, PTL

\* With Kafka and in memory a group handles an event at most once, in order as far as the bus gives an
\* order, passes over one only for the reasons named, and with Kafka takes it from all other groups:
\* markIfNew against two consumers of a group, across rebalances that leave a slow consumer at work
\* (kafka.bus.ts:99, kafka-consumer.base.ts:73), and deliver in memory, whose deliveries overlap.
THEOREM BusesKept == BusesSpec => []BusesHold
    BY BusesAlways, BusesInvHolds, PTL
=============================================================================
