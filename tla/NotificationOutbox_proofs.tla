----------------------- MODULE NotificationOutbox_proofs -----------------------
(***************************************************************************)
(* What rows and endpoints keep for any number of rows, devices and         *)
(* replicas of the worker, whatever fails; and what the services beside     *)
(* messaging, whose calls and workers fail the same way, promise: presence, *)
(* calls, polls, receipts, resends, campaigns, jobs.                        *)
(***************************************************************************)
EXTENDS NotificationOutbox, Services, FiniteSetTheorems, SequenceTheorems, TLAPS

----------------------------------------------------------------------------
(* Types                                                                   *)

Stations == {"idle", "lookup", "push", "prune", "settle"}

\* A worker turns to a batch: it has just that in hand, and knows nothing of endpoints yet.
LEMMA LoadTakes ==
    ASSUME TypeOK, NEW w \in Workers, NEW B \in SUBSET Rows, NEW c \in [Rows -> Nat], Load(w, B, c)
    PROVE  /\ wpc' \in [Workers -> Stations] /\ batch' \in [Workers -> SUBSET Rows]
           /\ held' \in [Workers -> [Rows -> Nat]] /\ cur' \in [Workers -> SUBSET Rows]
           /\ targets' \in [Workers -> [Devices -> Nat]] /\ outcome' \in [Workers -> [Devices -> Outcomes]]
           /\ \A v \in Workers \ {w} :
                 /\ wpc'[v] = wpc[v] /\ batch'[v] = batch[v] /\ held'[v] = held[v] /\ cur'[v] = cur[v]
                 /\ targets'[v] = targets[v] /\ outcome'[v] = outcome[v]
           /\ batch'[w] = B \ cur'[w]
           /\ \/ cur'[w] = {} /\ B = {} /\ wpc'[w] = "idle"
              \/ \E k \in B : cur'[w] = {k} /\ wpc'[w] = "lookup"
           /\ \A k \in Rows : held'[w][k] = (IF k \in B THEN c[k] ELSE 0)
           /\ \A d \in Devices : targets'[w][d] = 0 /\ outcome'[w][d] = "none"
<1>1. /\ wpc \in [Workers -> Stations] /\ batch \in [Workers -> SUBSET Rows]
      /\ held \in [Workers -> [Rows -> Nat]] /\ cur \in [Workers -> SUBSET Rows]
      /\ targets \in [Workers -> [Devices -> Nat]] /\ outcome \in [Workers -> [Devices -> Outcomes]]
    BY DEF TypeOK, Stations
<1>2. /\ NoTargets \in [Devices -> Nat] /\ \A d \in Devices : NoTargets[d] = 0
      /\ NoOutcomes \in [Devices -> Outcomes] /\ \A d \in Devices : NoOutcomes[d] = "none"
    BY DEF NoTargets, NoOutcomes, Outcomes
<1>3. /\ targets' = [targets EXCEPT ![w] = NoTargets] /\ outcome' = [outcome EXCEPT ![w] = NoOutcomes]
      /\ held' = [held EXCEPT ![w] = [k \in Rows |-> IF k \in B THEN c[k] ELSE 0]]
      /\ batch' = [batch EXCEPT ![w] = B \ cur'[w]]
    BY DEF Load
<1> DEFINE Turned ==
             /\ cur' \in [Workers -> SUBSET Rows] /\ wpc' \in [Workers -> Stations]
             /\ \A v \in Workers \ {w} : cur'[v] = cur[v] /\ wpc'[v] = wpc[v]
             /\ \/ cur'[w] = {} /\ B = {} /\ wpc'[w] = "idle"
              \/ \E k \in B : cur'[w] = {k} /\ wpc'[w] = "lookup"
<1>4. Turned
  <2>1. CASE B = {} /\ cur' = [cur EXCEPT ![w] = {}] /\ wpc' = [wpc EXCEPT ![w] = "idle"]
      BY <1>1, <2>1 DEF Stations
  <2>2. ASSUME NEW k \in B, cur' = [cur EXCEPT ![w] = {k}], wpc' = [wpc EXCEPT ![w] = "lookup"]
        PROVE  Turned
      BY <1>1, <2>2 DEF Stations
  <2> QED BY <2>1, <2>2 DEF Load
<1>5. batch' \in [Workers -> SUBSET Rows]  BY <1>1, <1>3
<1> QED BY <1>1, <1>2, <1>3, <1>4, <1>5

\* Initially the variables are well typed.
LEMMA InitType == Init => TypeOK
<1> SUFFICES ASSUME Init PROVE TypeOK  OBVIOUS
<1>1. token \in [Devices -> Nat] /\ valid \in [Devices -> Nat]  BY DEF Init
<1>2. targets \in [Workers -> [Devices -> Nat]] /\ outcome \in [Workers -> [Devices -> Outcomes]]
    BY DEF Init, NoTargets, NoOutcomes, Outcomes
<1>3. \A w \in Workers : wpc[w] = "idle" /\ cur[w] = {}  BY DEF Init
<1>4. /\ received \in [Rows -> [Devices -> Nat]] /\ held \in [Workers -> [Rows -> Nat]]
      /\ cur \in [Workers -> SUBSET Rows] /\ batch \in [Workers -> SUBSET Rows]
    BY DEF Init
<1> QED BY <1>1, <1>2, <1>3, <1>4 DEF Init, TypeOK

\* Every fault is counted.
LEMMA FaultType ==
    ASSUME TypeOK, NEW k \in FaultKinds, Fault(k)
    PROVE  faults' \in [FaultKinds -> Nat] /\ TotalFaults' > 0 /\ TotalFaults \in Nat
BY DEF TypeOK, Fault, TotalFaults, FaultKinds

\* What the provider answers settles which endpoints are to be pruned.
LEMMA PushType ==
    ASSUME TypeOK, NEW w \in Workers, NEW o \in [Devices -> Outcomes], PushAnswered(w, o), wpc[w] = "push"
    PROVE  /\ outcome' \in [Workers -> [Devices -> Outcomes]] /\ outcome'[w] = o
           /\ targets' \in [Workers -> [Devices -> Nat]]
           /\ \A d \in Devices : targets'[w][d] = (IF o[d] = "gone" THEN targets[w][d] ELSE 0)
           /\ wpc' \in [Workers -> Stations] /\ wpc'[w] \in {"prune", "settle"}
           /\ \A v \in Workers \ {w} : outcome'[v] = outcome[v] /\ targets'[v] = targets[v] /\ wpc'[v] = wpc[v]
<1>1. /\ wpc \in [Workers -> Stations] /\ outcome \in [Workers -> [Devices -> Outcomes]]
      /\ targets \in [Workers -> [Devices -> Nat]]
    BY DEF TypeOK, Stations
<1>2. outcome' = [outcome EXCEPT ![w] = o]  BY DEF PushAnswered
<1>3. targets' = [targets EXCEPT ![w] = [d \in Devices |-> IF o[d] = "gone" THEN targets[w][d] ELSE 0]]
    BY DEF PushAnswered
<1>4. wpc' = [wpc EXCEPT ![w] = "prune"] \/ wpc' = [wpc EXCEPT ![w] = "settle"]  BY DEF PushAnswered
<1>5. wpc' \in [Workers -> Stations] /\ wpc'[w] \in {"prune", "settle"} /\ \A v \in Workers \ {w} : wpc'[v] = wpc[v]
    BY <1>1, <1>4 DEF Stations
<1> QED BY <1>1, <1>2, <1>3, <1>5

\* The pushes of one row that arrive are counted for it.
LEMMA ReceiveType ==
    ASSUME TypeOK, NEW k \in Rows, NEW D, Receive(k, D)
    PROVE  /\ received' \in [Rows -> [Devices -> Nat]]
           /\ \A d \in Devices : received'[k][d] = received[k][d] + (IF d \in D THEN 1 ELSE 0)
           /\ \A j \in Rows \ {k} : received'[j] = received[j]
<1>1. received \in [Rows -> [Devices -> Nat]]  BY DEF TypeOK
<1>2. received' = [received EXCEPT ![k] = [d \in Devices |-> received[k][d] + (IF d \in D THEN 1 ELSE 0)]]
    BY DEF Receive
<1> QED BY <1>1, <1>2

\* Rows and devices change well typed.
LEMMA OutsideType ==
    ASSUME TypeOK, (\E k \in Rows : RowStep(k)) \/ (\E d \in Devices : DeviceStep(d))
    PROVE  TypeOK'
<1>1. ASSUME NEW k \in Rows, RowStep(k) PROVE TypeOK'
    BY <1>1 DEF RowStep, OnMessageSent, BackoffOver, TypeOK, rows, endpoints, locals
<1>2. ASSUME NEW d \in Devices, DeviceStep(d) PROVE TypeOK'
  <2>0. token \in [Devices -> Nat] /\ valid \in [Devices -> Nat]  BY DEF TypeOK
  <2>1. token' \in [Devices -> Nat] /\ valid' \in [Devices -> Nat]
    <3>1. CASE NewToken(d)  BY <2>0, <3>1 DEF NewToken
    <3>2. CASE RegisterEndpoint(d)
      <4>1. valid[d] \in Nat /\ token' = [token EXCEPT ![d] = valid[d]] /\ valid' = valid
          BY <2>0, <3>2 DEF RegisterEndpoint
      <4> QED BY <2>0, <4>1
    <3> QED BY <1>2, <3>1, <3>2 DEF DeviceStep
  <2>2. UNCHANGED <<rows, locals, received, shared, faults>>
      BY <1>2 DEF DeviceStep, NewToken, RegisterEndpoint
  <2> QED BY <2>1, <2>2 DEF TypeOK, rows, locals
<1> QED BY <1>1, <1>2

\* A worker that turns to a batch keeps the types.
LEMMA LoadType ==
    ASSUME TypeOK, NEW w \in Workers, NEW B \in SUBSET Rows, NEW c \in [Rows -> Nat], Load(w, B, c),
           status' \in [Rows -> {"absent", "pending", "sent", "dead"}], attempts' \in [Rows -> Nat],
           due' \in SUBSET Rows, shared' \in SUBSET Rows, faults' \in [FaultKinds -> Nat],
           UNCHANGED <<token, valid, received>>
    PROVE  TypeOK'
<1>1. \A v \in Workers : wpc'[v] = "idle" <=> cur'[v] = {}
  <2>1. \A v \in Workers : wpc[v] = "idle" <=> cur[v] = {}  BY DEF TypeOK
  <2>2. \A v \in Workers \ {w} : wpc'[v] = wpc[v] /\ cur'[v] = cur[v]  BY LoadTakes
  <2>3. wpc'[w] = "idle" <=> cur'[w] = {}
    <3>1. (cur'[w] = {} /\ B = {} /\ wpc'[w] = "idle") \/ \E k \in B : cur'[w] = {k} /\ wpc'[w] = "lookup"
        BY LoadTakes
    <3>2. ASSUME NEW k \in B, cur'[w] = {k}, wpc'[w] = "lookup" PROVE wpc'[w] # "idle" /\ cur'[w] # {}
        BY <3>2
    <3> QED BY <3>1, <3>2
  <2> QED BY <2>1, <2>2, <2>3
<1>2. /\ wpc' \in [Workers -> Stations] /\ batch' \in [Workers -> SUBSET Rows]
      /\ held' \in [Workers -> [Rows -> Nat]] /\ cur' \in [Workers -> SUBSET Rows]
      /\ targets' \in [Workers -> [Devices -> Nat]] /\ outcome' \in [Workers -> [Devices -> Outcomes]]
    BY LoadTakes
<1> QED BY <1>1, <1>2 DEF TypeOK, Stations

\* So does every step of a worker.
LEMMA WorkerType ==
    ASSUME TypeOK, NEW w \in Workers, Tick(w) \/ Deliver(w) \/ FaultStep(w)
    PROVE  TypeOK'
<1>0. {"crash", "db", "lostReply"} \subseteq FaultKinds  BY DEF FaultKinds
<1>1. ASSUME NEW B \in SUBSET due, Claim(w, B) PROVE TypeOK'
  <2>1. B \in SUBSET Rows /\ attempts' \in [Rows -> Nat] /\ shared' \in SUBSET Rows
      BY <1>1 DEF Claim, TypeOK
  <2> QED BY <1>1, <2>1, LoadType DEF Claim, TypeOK, endpoints
<1>2. CASE EndpointsFor(w)
  <2>1. wpc' = [wpc EXCEPT ![w] = "settle"] \/ wpc' = [wpc EXCEPT ![w] = "push"]
      BY <1>2 DEF EndpointsFor
  <2> QED BY <1>2, <2>1 DEF EndpointsFor, TypeOK, rows, endpoints
<1>3. ASSUME NEW o \in [Devices -> Outcomes], NEW k \in Rows, NEW D, wpc[w] = "push",
             PushAnswered(w, o), Receive(k, D), faults' \in [FaultKinds -> Nat],
             UNCHANGED <<rows, endpoints, batch, held, cur, shared>>
      PROVE  TypeOK'
  <2>1. \A v \in Workers : wpc'[v] = "idle" <=> cur'[v] = {}  BY <1>3, PushType DEF TypeOK
  <2> QED BY <1>3, <2>1, PushType, ReceiveType DEF TypeOK, rows, endpoints, Stations
<1>4. CASE Push(w)
  <2>1. PICK o \in [Devices -> Outcomes], k \in cur[w] :
            PushAnswered(w, o) /\ Receive(k, {d \in Devices : o[d] = "delivered"})
      BY <1>4 DEF Push
  <2>2. k \in Rows /\ faults' \in [FaultKinds -> Nat]  BY <1>4 DEF Push, TypeOK
  <2> QED BY <1>3, <1>4, <2>1, <2>2 DEF Push
<1>5. CASE PushReplyLost(w)
  <2>1. PICK o \in [Devices -> Outcomes], k \in cur[w], lost \in Devices :
            PushAnswered(w, o) /\ Receive(k, {lost} \cup {d \in Devices : o[d] = "delivered"})
      BY <1>5 DEF PushReplyLost
  <2>2. k \in Rows /\ faults' \in [FaultKinds -> Nat]
      BY <1>0, <1>5, FaultType DEF PushReplyLost, TypeOK
  <2> QED BY <1>3, <1>5, <2>1, <2>2 DEF PushReplyLost
<1>6. ASSUME NEW d \in Devices, NEW deleted \in BOOLEAN, PruneOne(w, d, deleted), faults' \in [FaultKinds -> Nat]
      PROVE  TypeOK'
  <2>1. wpc' = [wpc EXCEPT ![w] = "settle"] \/ wpc' = [wpc EXCEPT ![w] = "prune"]
      BY <1>6 DEF PruneOne
  <2>2. wpc[w] = "prune" /\ UNCHANGED <<rows, valid, batch, held, cur, received, shared>>
      BY <1>6 DEF PruneOne
  <2>3. wpc' \in [Workers -> {"idle", "lookup", "push", "prune", "settle"}] /\ \A v \in Workers : wpc'[v] = "idle" <=> cur'[v] = {}
      BY <2>1, <2>2 DEF TypeOK
  <2>4. token' \in [Devices -> Nat]  BY <1>6 DEF PruneOne, TypeOK
  <2>5. outcome' \in [Workers -> [Devices -> Outcomes]] /\ targets' \in [Workers -> [Devices -> Nat]]
      BY <1>6 DEF PruneOne, TypeOK, Outcomes
  <2> QED BY <1>6, <2>2, <2>3, <2>4, <2>5 DEF TypeOK, rows
<1>7. CASE Prune(w)  BY <1>6, <1>7 DEF Prune, TypeOK
<1>8. CASE PruneFails(w)  BY <1>0, <1>6, <1>8, FaultType DEF PruneFails
<1>9. CASE Settle(w)
  <2>1. batch[w] \in SUBSET Rows /\ held[w] \in [Rows -> Nat]  BY DEF TypeOK
  <2>2. status' \in [Rows -> {"absent", "pending", "sent", "dead"}] /\ due' \in SUBSET Rows
      BY <1>9 DEF Settle, MarkRetryOrDead, MarkSent, TypeOK
  <2> QED BY <1>9, <2>1, <2>2, LoadType DEF Settle, TypeOK, endpoints
<1>10. CASE QueryFails(w) \/ Crash(w)
  <2>1. {} \in SUBSET Rows /\ held[w] \in [Rows -> Nat] /\ faults' \in [FaultKinds -> Nat]
      BY <1>0, <1>10, FaultType DEF QueryFails, Crash, TypeOK
  <2> QED BY <1>10, <2>1, LoadType DEF QueryFails, Crash, TypeOK, endpoints, rows
<1> QED BY <1>1, <1>2, <1>4, <1>5, <1>7, <1>8, <1>9, <1>10 DEF Tick, Deliver, FaultStep

\* Every step keeps the types.
LEMMA NextType == TypeOK /\ [Next]_vars => TypeOK'
<1> SUFFICES ASSUME TypeOK, [Next]_vars PROVE TypeOK'  OBVIOUS
<1>1. CASE UNCHANGED vars  BY <1>1 DEF vars, rows, endpoints, locals, TypeOK
<1> QED BY <1>1, OutsideType, WorkerType DEF Next

\* Every variable of the outbox keeps its type, whatever fails.
THEOREM OutboxTypeCorrect == Spec => []TypeOK
BY InitType, NextType, PTL DEF Spec

----------------------------------------------------------------------------
(* Who holds a row                                                         *)

\* A row no two workers ever held at once is in one worker's hands at most, and pending while it is.
HandOf(k) ==
    /\ \A w, v \in Workers : k \in InHand(w) /\ k \in InHand(v) => w = v
    /\ \A w \in Workers : k \in InHand(w) => status[k] = "pending"

HandInv ==
    /\ \A w \in Workers : batch[w] \cap cur[w] = {} /\ \A j, k \in cur[w] : j = k
    /\ \A k \in Rows \ shared : HandOf(k)

\* A worker that turns to a batch has that batch in hand, one row of it in work.
LEMMA LoadHands ==
    ASSUME TypeOK, NEW w \in Workers, NEW B \in SUBSET Rows, NEW c \in [Rows -> Nat], Load(w, B, c)
    PROVE  /\ InHand(w)' = B
           /\ batch'[w] \cap cur'[w] = {} /\ \A j, k \in cur'[w] : j = k
           /\ \A v \in Workers \ {w} : InHand(v)' = InHand(v) /\ batch'[v] = batch[v] /\ cur'[v] = cur[v]
<1>1. /\ \A v \in Workers \ {w} : batch'[v] = batch[v] /\ cur'[v] = cur[v]
      /\ batch'[w] = B \ cur'[w]
      /\ (cur'[w] = {} /\ B = {} /\ wpc'[w] = "idle") \/ \E k \in B : cur'[w] = {k} /\ wpc'[w] = "lookup"
    BY LoadTakes
<1>2. cur'[w] \subseteq B /\ \A j, k \in cur'[w] : j = k  BY <1>1
<1> QED BY <1>1, <1>2 DEF InHand

\* Steps that leave the hands and the states of the rows in them alone.
LEMMA HandFrame ==
    ASSUME HandInv, UNCHANGED <<batch, cur, shared>>,
           \A k \in Rows : status[k] = "pending" => status'[k] = "pending"
    PROVE  HandInv'
BY DEF HandInv, HandOf, InHand

\* A worker drops what it had in hand.
LEMMA DropHand ==
    ASSUME TypeOK, HandInv, NEW w \in Workers, Load(w, {}, held[w]), UNCHANGED <<status, shared>>
    PROVE  HandInv'
<1>1. held[w] \in [Rows -> Nat]  BY DEF TypeOK
<1>2. /\ InHand(w)' = {} /\ batch'[w] \cap cur'[w] = {} /\ \A j, k \in cur'[w] : j = k
      /\ \A v \in Workers \ {w} : InHand(v)' = InHand(v) /\ batch'[v] = batch[v] /\ cur'[v] = cur[v]
    BY <1>1, LoadHands
<1>3. \A v \in Workers : InHand(v)' \subseteq InHand(v)  BY <1>2
<1>4. ASSUME NEW k \in Rows \ shared PROVE HandOf(k)'  BY <1>3 DEF HandInv, HandOf
<1> QED BY <1>2, <1>4 DEF HandInv

\* The claim of a row another worker holds makes it a shared one.
LEMMA ClaimHand ==
    ASSUME TypeOK, HandInv, NEW w \in Workers, NEW B \in SUBSET due, Claim(w, B)
    PROVE  HandInv'
<1>1. B \in SUBSET Rows /\ attempts' \in [Rows -> Nat]  BY DEF TypeOK, Claim
<1>2. /\ InHand(w)' = B /\ batch'[w] \cap cur'[w] = {} /\ \A j, k \in cur'[w] : j = k
      /\ \A v \in Workers \ {w} : InHand(v)' = InHand(v) /\ batch'[v] = batch[v] /\ cur'[v] = cur[v]
    BY <1>1, LoadHands DEF Claim
<1>3. ASSUME NEW k \in Rows \ shared' PROVE HandOf(k)'
  <2>1. k \in Rows \ shared /\ status' = status  BY <1>3 DEF Claim
  <2>2. CASE k \in B
    <3>1. status[k] = "pending" /\ \A v \in Workers : k \notin InHand(v)  BY <1>3, <2>2 DEF Claim
    <3> QED BY <1>2, <2>1, <3>1 DEF HandOf
  <2>3. CASE k \notin B  BY <1>2, <2>1, <2>3 DEF HandInv, HandOf
  <2> QED BY <2>2, <2>3
<1> QED BY <1>2, <1>3 DEF HandInv

\* What settling a row does to it, and to no other.
LEMMA SettleRow ==
    ASSUME TypeOK, NEW w \in Workers, Settle(w)
    PROVE  \E k \in cur[w] :
             /\ k \in Rows
             /\ status' \in [Rows -> {"absent", "pending", "sent", "dead"}]
             /\ \A j \in Rows \ {k} : status'[j] = status[j]
             /\ \/ WorthRetrying(w) /\ held[w][k] >= MaxAttempts /\ status'[k] = "dead"
                \/ WorthRetrying(w) /\ status'[k] = "pending"
                \/ ~WorthRetrying(w) /\ status'[k] = "sent"
<1>1. PICK k \in cur[w] : MarkRetryOrDead(w, k) \/ MarkSent(w, k)  BY DEF Settle
<1>2. k \in Rows /\ status \in [Rows -> {"absent", "pending", "sent", "dead"}]  BY DEF TypeOK
<1>3. CASE MarkRetryOrDead(w, k)  BY <1>2, <1>3 DEF MarkRetryOrDead
<1>4. CASE MarkSent(w, k)  BY <1>2, <1>4 DEF MarkSent
<1> QED BY <1>1, <1>3, <1>4

\* The settled row leaves the worker's hands with its state.
LEMMA SettleHand ==
    ASSUME TypeOK, HandInv, NEW w \in Workers, Settle(w)
    PROVE  HandInv'
<1>1. batch[w] \in SUBSET Rows /\ held[w] \in [Rows -> Nat] /\ shared' = shared
    BY DEF TypeOK, Settle
<1>2. /\ InHand(w)' = batch[w] /\ batch'[w] \cap cur'[w] = {} /\ \A j, k \in cur'[w] : j = k
      /\ \A v \in Workers \ {w} : InHand(v)' = InHand(v) /\ batch'[v] = batch[v] /\ cur'[v] = cur[v]
    BY <1>1, LoadHands DEF Settle
<1>3. PICK k \in cur[w] : k \in Rows /\ \A j \in Rows \ {k} : status'[j] = status[j]  BY SettleRow
<1>4. \A v \in Workers : InHand(v)' \subseteq InHand(v)  BY <1>2 DEF InHand
<1>5. k \in InHand(w) /\ k \notin InHand(w)'  BY <1>2 DEF HandInv, InHand
<1>6. ASSUME NEW j \in Rows \ shared PROVE HandOf(j)'
  <2>1. HandOf(j)  BY DEF HandInv
  <2>2. \A v \in Workers : j \in InHand(v)' => status'[j] = "pending"
    <3>1. CASE j # k  BY <1>3, <1>4, <2>1, <3>1 DEF HandOf
    <3>2. CASE j = k  BY <1>4, <1>5, <2>1, <3>2 DEF HandOf
    <3> QED BY <3>1, <3>2
  <2> QED BY <1>4, <2>1, <2>2 DEF HandOf
<1> QED BY <1>1, <1>2, <1>6 DEF HandInv

\* Every step keeps the hands apart.
LEMMA NextHand == TypeOK /\ HandInv /\ [Next]_vars => HandInv'
<1> SUFFICES ASSUME TypeOK, HandInv, [Next]_vars PROVE HandInv'  OBVIOUS
<1>1. ASSUME NEW k \in Rows, RowStep(k) PROVE HandInv'
    BY <1>1, HandFrame DEF RowStep, OnMessageSent, BackoffOver, TypeOK, locals
<1>2. ASSUME NEW d \in Devices, DeviceStep(d) PROVE HandInv'
    BY <1>2, HandFrame DEF DeviceStep, NewToken, RegisterEndpoint, rows, locals
<1>3. ASSUME NEW w \in Workers, Tick(w) \/ Deliver(w) \/ FaultStep(w) PROVE HandInv'
  <2>1. CASE Tick(w)  BY <2>1, ClaimHand DEF Tick
  <2>2. CASE EndpointsFor(w) \/ Push(w) \/ PushReplyLost(w)
      BY <2>2, HandFrame DEF EndpointsFor, Push, PushReplyLost, rows
  <2>3. CASE Prune(w) \/ PruneFails(w)  BY <2>3, HandFrame DEF Prune, PruneFails, PruneOne, rows
  <2>4. CASE Settle(w)  BY <2>4, SettleHand
  <2>5. CASE QueryFails(w) \/ Crash(w)  BY <2>5, DropHand DEF QueryFails, Crash, rows
  <2> QED BY <1>3, <2>1, <2>2, <2>3, <2>4, <2>5 DEF Deliver, FaultStep
<1>4. CASE UNCHANGED vars  BY <1>4, HandFrame DEF vars, rows, locals
<1> QED BY <1>1, <1>2, <1>3, <1>4 DEF Next

\* Initially nobody holds a row.
LEMMA InitHand == Init => HandInv
BY DEF Init, HandInv, HandOf, InHand

\* A row no two workers held at once keeps the state it was settled in, whatever fails.
THEOREM SettledRowsStay == Spec => SettledForGood
<1>1. TypeOK /\ HandInv /\ [Next]_vars =>
          [\A k \in Rows : status[k] \in {"sent", "dead"} => status'[k] = status[k] \/ k \in shared]_vars
  <2> SUFFICES ASSUME TypeOK, HandInv, Next, NEW k \in Rows \ shared, status[k] \in {"sent", "dead"}
               PROVE  status'[k] = status[k]
      OBVIOUS
  <2>1. ASSUME NEW j \in Rows, RowStep(j) PROVE status'[k] = status[k]
      BY <2>1 DEF RowStep, OnMessageSent, BackoffOver, TypeOK
  <2>2. ASSUME NEW d \in Devices, DeviceStep(d) PROVE status'[k] = status[k]
      BY <2>2 DEF DeviceStep, NewToken, RegisterEndpoint, rows
  <2>3. ASSUME NEW w \in Workers, Tick(w) \/ Deliver(w) \/ FaultStep(w) PROVE status'[k] = status[k]
    <3>1. CASE Settle(w)
      <4>1. k \notin cur[w]  BY DEF HandInv, HandOf, InHand
      <4> QED BY <3>1, <4>1, SettleRow
    <3>2. CASE ~Settle(w)
        BY <2>3, <3>2 DEF Tick, Claim, Deliver, EndpointsFor, Push, Prune, PruneOne, FaultStep,
                          PushReplyLost, PruneFails, QueryFails, Crash, rows
    <3> QED BY <3>1, <3>2
  <2> QED BY <2>1, <2>2, <2>3 DEF Next
<1> QED BY <1>1, InitType, NextType, InitHand, NextHand, PTL DEF Spec, SettledForGood

----------------------------------------------------------------------------
(* Tokens                                                                  *)

\* Tokens only get newer: no one holds a newer one than the provider accepts, and one it called
\* gone is an older one.  Nothing is known of the tokens before they are looked up.
EndpointInv ==
    /\ \A d \in Devices : valid[d] >= 1 /\ token[d] <= valid[d]
    /\ \A w \in Workers, d \in Devices :
          /\ targets[w][d] <= valid[d]
          /\ outcome[w][d] = "gone" => targets[w][d] < valid[d]
          /\ wpc[w] = "lookup" => outcome[w][d] = "none"

\* A worker that turns to a batch knows no token.
LEMMA LoadEndpoint ==
    ASSUME TypeOK, EndpointInv, NEW w \in Workers, NEW B \in SUBSET Rows, NEW c \in [Rows -> Nat],
           Load(w, B, c), UNCHANGED endpoints
    PROVE  EndpointInv'
<1>1. /\ \A v \in Workers \ {w} : targets'[v] = targets[v] /\ outcome'[v] = outcome[v] /\ wpc'[v] = wpc[v]
      /\ \A d \in Devices : targets'[w][d] = 0 /\ outcome'[w][d] = "none"
    BY LoadTakes, ZenonT(30)
<1>2. token' = token /\ valid' = valid /\ \A d \in Devices : valid[d] \in Nat
    BY DEF endpoints, TypeOK
<1>3. ASSUME NEW v \in Workers, NEW d \in Devices
      PROVE  /\ targets'[v][d] <= valid'[d] /\ (outcome'[v][d] = "gone" => targets'[v][d] < valid'[d])
             /\ wpc'[v] = "lookup" => outcome'[v][d] = "none"
  <2>1. CASE v = w  BY <1>1, <1>2, <2>1
  <2>2. CASE v # w  BY <1>1, <1>2, <2>2 DEF EndpointInv
  <2> QED BY <2>1, <2>2
<1> QED BY <1>2, <1>3 DEF EndpointInv

\* The provider calls a token gone only if it has accepted a newer one since.
LEMMA PushEndpoint ==
    ASSUME TypeOK, EndpointInv, NEW w \in Workers, NEW o \in [Devices -> Outcomes], wpc[w] = "push",
           PushAnswered(w, o), UNCHANGED endpoints
    PROVE  EndpointInv'
<1>1. /\ outcome'[w] = o
      /\ \A d \in Devices : targets'[w][d] = (IF o[d] = "gone" THEN targets[w][d] ELSE 0)
      /\ \A v \in Workers \ {w} : outcome'[v] = outcome[v] /\ targets'[v] = targets[v] /\ wpc'[v] = wpc[v]
      /\ wpc'[w] # "lookup"
    BY PushType
<1>2. token' = token /\ valid' = valid  BY DEF endpoints
<1>3. ASSUME NEW d \in Devices
      PROVE  targets'[w][d] <= valid[d] /\ (outcome'[w][d] = "gone" => targets'[w][d] < valid[d])
  <2>1. targets[w][d] \in Nat /\ valid[d] \in Nat /\ targets[w][d] <= valid[d]
      BY DEF TypeOK, EndpointInv
  <2>2. o[d] \in Answers(w, d)  BY DEF PushAnswered
  <2>3. o[d] = "gone" => targets[w][d] # valid[d]  BY <2>2 DEF Answers
  <2> QED BY <1>1, <2>1, <2>3
<1>4. ASSUME NEW v \in Workers, NEW d \in Devices
      PROVE  /\ targets'[v][d] <= valid[d] /\ (outcome'[v][d] = "gone" => targets'[v][d] < valid[d])
             /\ wpc'[v] = "lookup" => outcome'[v][d] = "none"
    BY <1>1, <1>3 DEF EndpointInv
<1> QED BY <1>2, <1>4 DEF EndpointInv

\* A pruned endpoint is forgotten by the worker, whether the deletion succeeded or not.
LEMMA PruneEndpoint ==
    ASSUME TypeOK, EndpointInv, NEW w \in Workers, NEW d \in Devices, NEW deleted \in BOOLEAN,
           PruneOne(w, d, deleted)
    PROVE  EndpointInv'
<1>1. /\ token \in [Devices -> Nat] /\ valid \in [Devices -> Nat] /\ valid' = valid
      /\ targets \in [Workers -> [Devices -> Nat]] /\ outcome \in [Workers -> [Devices -> Outcomes]]
    BY DEF PruneOne, TypeOK
<1>2. outcome' = [outcome EXCEPT ![w][d] = "none"] /\ targets' = [targets EXCEPT ![w][d] = 0]
    BY DEF PruneOne
<1>3. \A e \in Devices : token'[e] = token[e] \/ token'[e] = 0  BY <1>1 DEF PruneOne
<1>4. \A v \in Workers, e \in Devices :
         \/ targets'[v][e] = targets[v][e] /\ outcome'[v][e] = outcome[v][e]
         \/ targets'[v][e] = 0 /\ outcome'[v][e] = "none"
    BY <1>1, <1>2
<1>5. \A v \in Workers : wpc'[v] = "lookup" => wpc[v] = "lookup"
  <2>1. wpc' = [wpc EXCEPT ![w] = "settle"] \/ wpc' = [wpc EXCEPT ![w] = "prune"]  BY DEF PruneOne
  <2>2. wpc \in [Workers -> Stations]  BY DEF TypeOK, Stations
  <2> QED BY <2>1, <2>2
<1>6. \A e \in Devices : valid[e] \in Nat /\ valid'[e] = valid[e] /\ valid[e] >= 1 /\ token[e] <= valid[e]
    BY <1>1 DEF EndpointInv
<1>7. \A e \in Devices : token'[e] <= valid[e]  BY <1>3, <1>6
<1>8. ASSUME NEW v \in Workers, NEW e \in Devices
      PROVE  /\ targets'[v][e] <= valid[e] /\ (outcome'[v][e] = "gone" => targets'[v][e] < valid[e])
             /\ wpc'[v] = "lookup" => outcome'[v][e] = "none"
    BY <1>4, <1>5, <1>6 DEF EndpointInv
<1> QED BY <1>6, <1>7, <1>8 DEF EndpointInv

\* Every step keeps the order of the tokens.
LEMMA NextEndpoint == TypeOK /\ EndpointInv /\ [Next]_vars => EndpointInv'
<1> SUFFICES ASSUME TypeOK, EndpointInv, [Next]_vars PROVE EndpointInv'  OBVIOUS
<1>0. /\ token \in [Devices -> Nat] /\ valid \in [Devices -> Nat]
      /\ targets \in [Workers -> [Devices -> Nat]] /\ outcome \in [Workers -> [Devices -> Outcomes]]
    BY DEF TypeOK
<1>1. CASE UNCHANGED <<endpoints, targets, outcome, wpc>>  BY <1>1 DEF EndpointInv, endpoints
<1>2. ASSUME NEW k \in Rows, RowStep(k) PROVE EndpointInv'
    BY <1>1, <1>2 DEF RowStep, OnMessageSent, BackoffOver, locals
<1>3. ASSUME NEW d \in Devices, DeviceStep(d) PROVE EndpointInv'
  <2>1. CASE NewToken(d)
    <3>1. \A e \in Devices : valid'[e] \in Nat /\ valid[e] <= valid'[e]  BY <1>0, <2>1 DEF NewToken
    <3>2. UNCHANGED <<token, targets, outcome, wpc>>  BY <2>1 DEF NewToken, locals
    <3> QED BY <1>0, <3>1, <3>2 DEF EndpointInv
  <2>2. CASE RegisterEndpoint(d)
    <3>1. \A e \in Devices : token'[e] = token[e] \/ token'[e] = valid[e]
        BY <1>0, <2>2 DEF RegisterEndpoint
    <3>2. UNCHANGED <<valid, targets, outcome, wpc>>  BY <2>2 DEF RegisterEndpoint, locals
    <3> QED BY <1>0, <3>1, <3>2 DEF EndpointInv
  <2> QED BY <1>3, <2>1, <2>2 DEF DeviceStep
<1>4. ASSUME NEW w \in Workers, Tick(w) \/ Deliver(w) \/ FaultStep(w) PROVE EndpointInv'
  <2>1. ASSUME NEW B \in SUBSET due, Claim(w, B) PROVE EndpointInv'
    <3>1. B \in SUBSET Rows /\ attempts' \in [Rows -> Nat]  BY <2>1 DEF Claim, TypeOK
    <3> QED BY <2>1, <3>1, LoadEndpoint DEF Claim
  <2>2. CASE EndpointsFor(w)
    <3>1. UNCHANGED <<token, valid, outcome>> /\ targets' = [targets EXCEPT ![w] = token] /\ wpc[w] = "lookup"
        BY <2>2 DEF EndpointsFor, endpoints
    <3>2. ASSUME NEW v \in Workers, NEW d \in Devices
          PROVE  /\ targets'[v][d] <= valid[d] /\ (outcome[v][d] = "gone" => targets'[v][d] < valid[d])
                 /\ wpc'[v] = "lookup" => outcome[v][d] = "none"
      <4>1. CASE v = w  BY <1>0, <3>1, <4>1 DEF EndpointInv
      <4>2. CASE v # w
        <5>1. targets'[v] = targets[v] /\ wpc'[v] = wpc[v]
            BY <1>0, <2>2, <3>1, <4>2 DEF EndpointsFor, TypeOK
        <5> QED BY <5>1 DEF EndpointInv
      <4> QED BY <4>1, <4>2
    <3> QED BY <3>1, <3>2 DEF EndpointInv
  <2>3. CASE Push(w) \/ PushReplyLost(w)  BY <2>3, PushEndpoint DEF Push, PushReplyLost
  <2>4. CASE Prune(w) \/ PruneFails(w)  BY <2>4, PruneEndpoint DEF Prune, PruneFails
  <2>5. CASE Settle(w)
    <3>1. batch[w] \in SUBSET Rows /\ held[w] \in [Rows -> Nat]  BY DEF TypeOK
    <3> QED BY <2>5, <3>1, LoadEndpoint DEF Settle
  <2>6. CASE QueryFails(w) \/ Crash(w)
    <3>1. {} \in SUBSET Rows /\ held[w] \in [Rows -> Nat]  BY DEF TypeOK
    <3> QED BY <2>6, <3>1, LoadEndpoint DEF QueryFails, Crash
  <2> QED BY <1>4, <2>1, <2>2, <2>3, <2>4, <2>5, <2>6 DEF Tick, Deliver, FaultStep
<1>5. CASE UNCHANGED vars  BY <1>1, <1>5 DEF vars, locals
<1> QED BY <1>2, <1>3, <1>4, <1>5 DEF Next

\* Initially every token in use is the provider's first one.
LEMMA InitEndpoint == Init => EndpointInv
BY DEF Init, EndpointInv, NoTargets, NoOutcomes

\* A worker removes an endpoint only for the token it pushed to, whatever fails.
THEOREM WorkingEndpointsStay == Spec => WorkingEndpointKept
<1> DEFINE Kept(d) == token[d] # 0 /\ token[d] = valid[d] /\ token'[d] = 0 =>
                          \E w \in Workers : outcome[w][d] = "gone" /\ targets[w][d] < token[d]
<1>1. ASSUME TypeOK, EndpointInv, Next, NEW d \in Devices PROVE Kept(d)
  <2>0. /\ token \in [Devices -> Nat] /\ valid \in [Devices -> Nat]
        /\ targets \in [Workers -> [Devices -> Nat]]
      BY <1>1 DEF TypeOK
  <2>1. CASE token' = token  BY <2>1
  <2>2. ASSUME NEW k \in Rows, RowStep(k) PROVE token' = token
      BY <2>2 DEF RowStep, OnMessageSent, BackoffOver, endpoints
  <2>3. ASSUME NEW e \in Devices, DeviceStep(e) PROVE Kept(d)
    <3>1. CASE NewToken(e)  BY <2>1, <3>1 DEF NewToken
    <3>2. CASE RegisterEndpoint(e)
      <4>1. token'[d] = token[d] \/ token'[d] = valid[d]  BY <2>0, <3>2 DEF RegisterEndpoint
      <4> QED BY <4>1
    <3> QED BY <2>3, <3>1, <3>2 DEF DeviceStep
  <2>4. ASSUME NEW w \in Workers, NEW e \in Devices, PruneOne(w, e, TRUE) PROVE Kept(d)
    <3>1. token' = [token EXCEPT ![e] = 0] /\ outcome[w][e] = "gone"  BY <2>4 DEF PruneOne
    <3>2. targets[w][e] < valid[e]  BY <3>1, <1>1 DEF EndpointInv
    <3>3. CASE d = e  BY <3>1, <3>2, <3>3
    <3>4. CASE d # e  BY <2>0, <3>1, <3>4
    <3> QED BY <3>3, <3>4
  <2>5. ASSUME NEW w \in Workers, NEW e \in Devices, PruneOne(w, e, FALSE) PROVE token' = token
      BY <2>5 DEF PruneOne
  <2>6. ASSUME NEW w \in Workers, Tick(w) \/ Deliver(w) \/ FaultStep(w), ~Prune(w), ~PruneFails(w)
        PROVE  token' = token
      BY <2>6 DEF Tick, Claim, Deliver, EndpointsFor, Push, Settle, FaultStep, PushReplyLost, QueryFails,
                  Crash, endpoints
  <2> HIDE DEF Kept
  <2> QED BY <1>1, <2>1, <2>2, <2>3, <2>4, <2>5, <2>6 DEF Next, Prune, PruneFails
<1>2. TypeOK /\ EndpointInv /\ [Next]_vars => [\A d \in Devices : Kept(d)]_vars  BY <1>1
<1> QED BY <1>2, InitType, NextType, InitEndpoint, NextEndpoint, PTL DEF Spec, WorkingEndpointKept

\* Settled rows and working endpoints stay as they are, for any number of rows, devices and
\* replicas, whatever fails.
THEOREM SettledAndWorkingStay == Spec => SettledAndWorkingKept
BY SettledRowsStay, WorkingEndpointsStay, PTL DEF SettledAndWorkingKept

----------------------------------------------------------------------------
(* Claims                                                                  *)

\* No worker holds a higher count than the row has, and a row is given up at the maximum.
ClaimInv ==
    /\ \A w \in Workers, k \in Rows : held[w][k] <= attempts[k]
    /\ \A k \in Rows : status[k] = "dead" => attempts[k] >= MaxAttempts

\* A worker turns to a batch with the counts its rows have, or with those it had read.
LEMMA LoadClaims ==
    ASSUME TypeOK, ClaimInv, NEW w \in Workers, NEW B \in SUBSET Rows, NEW c \in [Rows -> Nat], Load(w, B, c)
    PROVE  attempts' \in [Rows -> Nat] /\ (\A k \in Rows : attempts[k] <= attempts'[k] /\ c[k] <= attempts'[k])
           => \A v \in Workers, k \in Rows : held'[v][k] <= attempts'[k]
<1>0. /\ \A v \in Workers \ {w} : held'[v] = held[v]
      /\ \A k \in Rows : held'[w][k] = (IF k \in B THEN c[k] ELSE 0)
  <2>1. held \in [Workers -> [Rows -> Nat]] /\ held' = [held EXCEPT ![w] = [k \in Rows |-> IF k \in B THEN c[k] ELSE 0]]
      BY DEF TypeOK, Load
  <2> QED BY <2>1
<1> SUFFICES ASSUME attempts' \in [Rows -> Nat], \A k \in Rows : attempts[k] <= attempts'[k] /\ c[k] <= attempts'[k],
                    NEW v \in Workers, NEW k \in Rows
             PROVE  held'[v][k] <= attempts'[k]
    OBVIOUS
<1>1. held[v][k] \in Nat /\ attempts[k] \in Nat /\ attempts'[k] \in Nat /\ held[v][k] <= attempts[k]
    BY DEF TypeOK, ClaimInv
<1>2. CASE v = w
  <2>1. held'[w][k] = (IF k \in B THEN c[k] ELSE 0)  BY <1>0
  <2> QED BY <1>1, <1>2, <2>1
<1>3. CASE v # w
  <2>1. held'[v] = held[v]  BY <1>0, <1>3
  <2> QED BY <1>1, <2>1
<1> QED BY <1>2, <1>3

\* Every step keeps the counts.
LEMMA NextClaims == TypeOK /\ TypeOK' /\ ClaimInv /\ [Next]_vars => ClaimInv'
<1> SUFFICES ASSUME TypeOK, TypeOK', ClaimInv, [Next]_vars PROVE ClaimInv'  OBVIOUS
<1>0. /\ attempts \in [Rows -> Nat] /\ attempts' \in [Rows -> Nat] /\ MaxAttempts \in Nat
      /\ \A w \in Workers : held[w] \in [Rows -> Nat]
    BY OutboxAssumption DEF TypeOK
<1>1. CASE UNCHANGED <<held, attempts>> /\ \A k \in Rows : status'[k] = "dead" => status[k] = "dead"
    BY <1>1 DEF ClaimInv
<1>2. ASSUME NEW k \in Rows, RowStep(k) PROVE ClaimInv'
    BY <1>1, <1>2 DEF RowStep, OnMessageSent, BackoffOver, TypeOK, locals
<1>3. ASSUME NEW d \in Devices, DeviceStep(d) PROVE ClaimInv'
    BY <1>1, <1>3 DEF DeviceStep, NewToken, RegisterEndpoint, rows, locals
<1>4. ASSUME NEW w \in Workers, Tick(w) \/ Deliver(w) \/ FaultStep(w) PROVE ClaimInv'
  <2>1. ASSUME NEW B \in SUBSET due, Claim(w, B) PROVE ClaimInv'
    <3>1. B \in SUBSET Rows /\ status' = status  BY <2>1 DEF Claim, TypeOK
    <3>2. \A k \in Rows : attempts[k] <= attempts'[k] /\ attempts'[k] <= attempts'[k]
        BY <1>0, <2>1 DEF Claim
    <3>3. \A v \in Workers, k \in Rows : held'[v][k] <= attempts'[k]
        BY <1>0, <2>1, <3>1, <3>2, LoadClaims DEF Claim
    <3> QED BY <1>0, <3>1, <3>2, <3>3 DEF ClaimInv
  <2>2. CASE EndpointsFor(w) \/ Push(w) \/ PushReplyLost(w)
      BY <1>1, <2>2 DEF EndpointsFor, Push, PushReplyLost, rows
  <2>3. CASE Prune(w) \/ PruneFails(w)  BY <1>1, <2>3 DEF Prune, PruneFails, PruneOne, rows
  <2>4. ASSUME NEW B \in SUBSET Rows, Load(w, B, held[w]), attempts' = attempts
        PROVE  \A v \in Workers, k \in Rows : held'[v][k] <= attempts'[k]
    <3>1. \A k \in Rows : attempts[k] <= attempts'[k] /\ held[w][k] <= attempts'[k]
        BY <1>0, <2>4 DEF ClaimInv
    <3> QED BY <1>0, <2>4, <3>1, LoadClaims
  <2>5. CASE Settle(w)
    <3>1. batch[w] \in SUBSET Rows /\ attempts' = attempts /\ Load(w, batch[w], held[w])
        BY <2>5 DEF Settle, TypeOK
    <3>2. \A v \in Workers, k \in Rows : held'[v][k] <= attempts'[k]  BY <2>4, <3>1
    <3>3. \A k \in Rows : status'[k] = "dead" => status[k] = "dead" \/ held[w][k] >= MaxAttempts
        BY <2>5, SettleRow
    <3> QED BY <1>0, <3>1, <3>2, <3>3 DEF ClaimInv
  <2>6. CASE QueryFails(w) \/ Crash(w)
    <3>1. {} \in SUBSET Rows /\ attempts' = attempts /\ status' = status /\ Load(w, {}, held[w])
        BY <2>6 DEF QueryFails, Crash, rows
    <3>2. \A v \in Workers, k \in Rows : held'[v][k] <= attempts'[k]  BY <2>4, <3>1
    <3> QED BY <3>1, <3>2 DEF ClaimInv
  <2> QED BY <1>4, <2>1, <2>2, <2>3, <2>5, <2>6 DEF Tick, Deliver, FaultStep
<1>5. CASE UNCHANGED vars  BY <1>1, <1>5 DEF vars, rows, locals
<1> QED BY <1>2, <1>3, <1>4, <1>5 DEF Next

\* Initially nothing is claimed.
LEMMA InitClaims == Init => ClaimInv
BY OutboxAssumption DEF Init, ClaimInv

----------------------------------------------------------------------------
(* What the devices received                                               *)

\* Worker w knows what the pushes of row k were answered.
AnsweredFor(w, k) == k \in cur[w] /\ wpc[w] \in {"prune", "settle"}

\* What the devices got of row k is what the worker that pushes it was answered; when no worker
\* was, they got something only if the row is sent.
RowTold(k) ==
    /\ \A d \in Devices : received[k][d] <= 1
    /\ \A w \in Workers : AnsweredFor(w, k) =>
          \A d \in Devices : received[k][d] = (IF outcome[w][d] = "delivered" THEN 1 ELSE 0)
    /\ status[k] # "sent" /\ (\A w \in Workers : ~AnsweredFor(w, k)) =>
          \A d \in Devices : received[k][d] = 0

ToldInv == TotalFaults = 0 => \A k \in Rows \ shared : RowTold(k)

\* Steps that leave the answers for a row and what was received of it alone.
LEMMA ToldFrame ==
    ASSUME NEW k \in Rows, RowTold(k), received'[k] = received[k], status'[k] # "sent" => status[k] # "sent",
           \A v \in Workers : AnsweredFor(v, k)' <=> AnsweredFor(v, k),
           \A v \in Workers, d \in Devices :
              AnsweredFor(v, k) => (outcome'[v][d] = "delivered" <=> outcome[v][d] = "delivered")
    PROVE  RowTold(k)'
BY DEF RowTold

\* A worker that turns to a batch knows no answer.
LEMMA LoadAnswers ==
    ASSUME TypeOK, NEW w \in Workers, NEW B \in SUBSET Rows, NEW c \in [Rows -> Nat], Load(w, B, c)
    PROVE  \A k \in Rows :
              /\ ~AnsweredFor(w, k)'
              /\ \A v \in Workers \ {w} : AnsweredFor(v, k)' = AnsweredFor(v, k) /\ outcome'[v] = outcome[v]
<1>1. /\ \A v \in Workers \ {w} : wpc'[v] = wpc[v] /\ cur'[v] = cur[v] /\ outcome'[v] = outcome[v]
      /\ (cur'[w] = {} /\ B = {} /\ wpc'[w] = "idle") \/ \E j \in B : cur'[w] = {j} /\ wpc'[w] = "lookup"
    BY LoadTakes, ZenonT(30)
<1> QED BY <1>1 DEF AnsweredFor

\* A row nobody held alone is pending and unanswered until its pushes return.
LEMMA HeldAlone ==
    ASSUME HandInv, NEW w \in Workers, NEW k \in cur[w], k \in Rows \ shared
    PROVE  status[k] = "pending" /\ \A v \in Workers \ {w} : ~AnsweredFor(v, k)
BY DEF HandInv, HandOf, InHand, AnsweredFor

\* The claim of a row tells nothing of it.
LEMMA ClaimTold ==
    ASSUME TypeOK, NEW w \in Workers, NEW B \in SUBSET due, Claim(w, B), NEW k \in Rows, RowTold(k)
    PROVE  RowTold(k)'
<1>1. B \in SUBSET Rows /\ attempts' \in [Rows -> Nat] /\ status' = status /\ received' = received
    BY DEF Claim, TypeOK
<1>2. /\ ~AnsweredFor(w, k)'
      /\ \A v \in Workers \ {w} : AnsweredFor(v, k)' = AnsweredFor(v, k) /\ outcome'[v] = outcome[v]
    BY <1>1, LoadAnswers DEF Claim
<1>3. ~AnsweredFor(w, k)  BY DEF Claim, AnsweredFor
<1> QED BY <1>1, <1>2, <1>3, ToldFrame

\* A row whose user has no endpoint is answered by nobody and reaches nobody.
LEMMA LookupTold ==
    ASSUME TypeOK, HandInv, EndpointInv, NEW w \in Workers, EndpointsFor(w), NEW k \in Rows \ shared, RowTold(k)
    PROVE  RowTold(k)'
<1>1. wpc[w] = "lookup" /\ UNCHANGED <<status, received, cur, outcome>>  BY DEF EndpointsFor, rows
<1>2. \A v \in Workers \ {w} : wpc'[v] = wpc[v]  BY DEF EndpointsFor, TypeOK
<1>3. CASE k \notin cur[w]
  <2>1. \A v \in Workers : AnsweredFor(v, k)' <=> AnsweredFor(v, k)
      BY <1>1, <1>2, <1>3 DEF AnsweredFor
  <2> QED BY <1>1, <2>1, ToldFrame
<1>4. CASE k \in cur[w]
  <2>1. \A v \in Workers : ~AnsweredFor(v, k)  BY <1>1, <1>4, HeldAlone DEF AnsweredFor
  <2>2. \A d \in Devices : received[k][d] = 0  BY <1>4, <2>1, HeldAlone DEF RowTold
  <2>3. \A v \in Workers \ {w} : ~AnsweredFor(v, k)'  BY <1>1, <1>2, <2>1 DEF AnsweredFor
  <2>4. \A d \in Devices : outcome[w][d] # "delivered"  BY <1>1 DEF EndpointInv
  <2> QED BY <1>1, <2>2, <2>3, <2>4 DEF RowTold
<1> QED BY <1>3, <1>4

\* The answers to a row's pushes tell what was received of it.
LEMMA PushTold ==
    ASSUME TypeOK, HandInv, NEW w \in Workers, Push(w), NEW k \in Rows \ shared, RowTold(k)
    PROVE  RowTold(k)'
<1>1. PICK o \in [Devices -> Outcomes], j \in cur[w] :
          PushAnswered(w, o) /\ Receive(j, {d \in Devices : o[d] = "delivered"})
    BY DEF Push
<1>2. wpc[w] = "push" /\ UNCHANGED <<status, cur>> /\ j \in Rows  BY DEF Push, rows, TypeOK
<1>3. /\ outcome'[w] = o /\ wpc'[w] \in {"prune", "settle"}
      /\ \A v \in Workers \ {w} : outcome'[v] = outcome[v] /\ wpc'[v] = wpc[v]
    BY <1>1, <1>2, PushType
<1>4. /\ \A d \in Devices : received'[j][d] = received[j][d] + (IF d \in {e \in Devices : o[e] = "delivered"} THEN 1 ELSE 0)
      /\ \A i \in Rows \ {j} : received'[i] = received[i]
    BY <1>1, <1>2, ReceiveType
<1>5. CASE k # j
  <2>1. k \notin cur[w]  BY <1>5 DEF HandInv
  <2>2. \A v \in Workers : AnsweredFor(v, k)' <=> AnsweredFor(v, k)
      BY <1>2, <1>3, <2>1 DEF AnsweredFor
  <2>3. \A v \in Workers, d \in Devices :
           AnsweredFor(v, k) => (outcome'[v][d] = "delivered" <=> outcome[v][d] = "delivered")
      BY <1>3, <2>1 DEF AnsweredFor
  <2> QED BY <1>2, <1>4, <1>5, <2>2, <2>3, ToldFrame
<1>6. CASE k = j
  <2>1. \A v \in Workers : ~AnsweredFor(v, k)  BY <1>2, <1>6, HeldAlone DEF AnsweredFor
  <2>2. \A d \in Devices : received[k][d] = 0  BY <1>6, <2>1, HeldAlone DEF RowTold
  <2>3. \A d \in Devices : received'[k][d] = (IF o[d] = "delivered" THEN 1 ELSE 0)
      BY <1>4, <1>6, <2>2
  <2>4. \A v \in Workers \ {w} : ~AnsweredFor(v, k)'  BY <1>2, <1>3, <2>1 DEF AnsweredFor
  <2>5. AnsweredFor(w, k)'  BY <1>2, <1>3, <1>6 DEF AnsweredFor
  <2> QED BY <1>3, <2>3, <2>4, <2>5 DEF RowTold
<1> QED BY <1>5, <1>6

\* Pruning a gone endpoint forgets no delivery.
LEMMA PruneTold ==
    ASSUME TypeOK, NEW w \in Workers, NEW d \in Devices, PruneOne(w, d, TRUE), NEW k \in Rows, RowTold(k)
    PROVE  RowTold(k)'
<1>1. wpc[w] = "prune" /\ UNCHANGED <<status, received, cur>>  BY DEF PruneOne, rows
<1>2. wpc' = [wpc EXCEPT ![w] = "settle"] \/ wpc' = [wpc EXCEPT ![w] = "prune"]  BY DEF PruneOne
<1>3. \A v \in Workers : wpc'[v] \in {"prune", "settle"} <=> wpc[v] \in {"prune", "settle"}
  <2>1. wpc \in [Workers -> Stations]  BY DEF TypeOK, Stations
  <2> QED BY <1>1, <1>2, <2>1
<1>4. \A v \in Workers : AnsweredFor(v, k)' <=> AnsweredFor(v, k)  BY <1>1, <1>3 DEF AnsweredFor
<1>5. \A v \in Workers, e \in Devices : outcome'[v][e] = "delivered" <=> outcome[v][e] = "delivered"
  <2>1. outcome \in [Workers -> [Devices -> Outcomes]]  BY DEF TypeOK
  <2>2. outcome[w][d] = "gone" /\ outcome' = [outcome EXCEPT ![w][d] = "none"]  BY DEF PruneOne
  <2> QED BY <2>1, <2>2
<1> QED BY <1>1, <1>4, <1>5, ToldFrame

\* A row goes back, or is given up, only when its pushes reached nobody.
LEMMA SettleTold ==
    ASSUME TypeOK, HandInv, NEW w \in Workers, Settle(w), NEW k \in Rows \ shared, RowTold(k)
    PROVE  RowTold(k)'
<1>1. batch[w] \in SUBSET Rows /\ held[w] \in [Rows -> Nat] /\ received' = received /\ wpc[w] = "settle"
    BY DEF TypeOK, Settle
<1>2. /\ ~AnsweredFor(w, k)'
      /\ \A v \in Workers \ {w} : AnsweredFor(v, k)' = AnsweredFor(v, k) /\ outcome'[v] = outcome[v]
    BY <1>1, LoadAnswers DEF Settle
<1>3. PICK j \in cur[w] :
         /\ \A i \in Rows \ {j} : status'[i] = status[i]
         /\ \/ WorthRetrying(w)
            \/ ~WorthRetrying(w) /\ status'[j] = "sent"
    BY SettleRow
<1>4. CASE k # j
  <2>1. ~AnsweredFor(w, k)  BY <1>4 DEF HandInv, AnsweredFor
  <2> QED BY <1>1, <1>2, <1>3, <1>4, <2>1, ToldFrame
<1>5. CASE k = j
  <2>1. AnsweredFor(w, k) /\ \A v \in Workers \ {w} : ~AnsweredFor(v, k)
      BY <1>1, <1>5, HeldAlone DEF AnsweredFor
  <2>2. \A v \in Workers : ~AnsweredFor(v, k)'  BY <1>2, <2>1
  <2>3. WorthRetrying(w) => \A d \in Devices : received'[k][d] = 0
      BY <1>1, <2>1 DEF WorthRetrying, Answered, RowTold
  <2>4. \A d \in Devices : received'[k][d] <= 1  BY <1>1 DEF RowTold
  <2> QED BY <1>3, <1>5, <2>2, <2>3, <2>4 DEF RowTold
<1> QED BY <1>4, <1>5

\* Every step but a fault keeps what is told of the rows.
LEMMA NextTold == TypeOK /\ HandInv /\ EndpointInv /\ ToldInv /\ [Next]_vars => ToldInv'
<1> SUFFICES ASSUME TypeOK, HandInv, EndpointInv, ToldInv, [Next]_vars, TotalFaults' = 0,
                    NEW k \in Rows, k \notin shared'
             PROVE  RowTold(k)'
    BY DEF ToldInv
<1>0. {"crash", "db", "lostReply"} \subseteq FaultKinds  BY DEF FaultKinds
<1>1. ASSUME UNCHANGED faults, k \notin shared PROVE RowTold(k)  BY <1>1 DEF ToldInv, TotalFaults
<1>2. CASE UNCHANGED <<faults, shared, status, received, wpc, cur, outcome>>
    BY <1>1, <1>2 DEF RowTold, AnsweredFor
<1>3. ASSUME NEW j \in Rows, RowStep(j) PROVE RowTold(k)'
  <2>1. UNCHANGED <<faults, shared, received, wpc, cur, outcome>> /\ (status'[k] # "sent" => status[k] # "sent")
      BY <1>3 DEF RowStep, OnMessageSent, BackoffOver, TypeOK, locals
  <2>2. \A v \in Workers : AnsweredFor(v, k)' <=> AnsweredFor(v, k)  BY <2>1 DEF AnsweredFor
  <2> QED BY <1>1, <2>1, <2>2, ToldFrame
<1>4. ASSUME NEW d \in Devices, DeviceStep(d) PROVE RowTold(k)'
    BY <1>2, <1>4 DEF DeviceStep, NewToken, RegisterEndpoint, rows, locals
<1>5. ASSUME NEW w \in Workers, Tick(w) \/ Deliver(w) PROVE RowTold(k)'
  <2>1. UNCHANGED faults /\ k \notin shared
      BY <1>5 DEF Tick, Claim, Deliver, EndpointsFor, Push, Prune, PruneOne, Settle
  <2>2. RowTold(k)  BY <1>1, <2>1
  <2> QED BY <1>5, <2>1, <2>2, ClaimTold, LookupTold, PushTold, PruneTold, SettleTold DEF Tick, Deliver, Prune
<1>6. ASSUME NEW w \in Workers, FaultStep(w) PROVE FALSE
  <2>1. PICK f \in FaultKinds : Fault(f)
      BY <1>0, <1>6 DEF FaultStep, PushReplyLost, PruneFails, QueryFails, Crash
  <2>2. TotalFaults' > 0  BY <2>1, FaultType
  <2> QED BY <2>2
<1>7. CASE UNCHANGED vars  BY <1>2, <1>7 DEF vars, rows, locals
<1> QED BY <1>3, <1>4, <1>5, <1>6, <1>7 DEF Next

\* Initially nothing was received.
LEMMA InitTold == Init => ToldInv
BY DEF Init, ToldInv, RowTold, AnsweredFor

\* Without a fault and without two replicas on one row no device gets a push twice, and a row given
\* up reached nobody; whatever fails, it is given up only after MaxAttempts claims.
THEOREM RowsAreTrue == Spec => []RowsTellTheTruth
<1>1. TypeOK /\ ClaimInv /\ ToldInv /\ HandInv => RowsTellTheTruth
  <2> SUFFICES ASSUME TypeOK, ClaimInv, ToldInv, HandInv PROVE RowsTellTheTruth  OBVIOUS
  <2>1. ASSUME NEW k \in Rows \ shared, TotalFaults = 0
        PROVE  /\ \A d \in Devices : received[k][d] <= 1
               /\ status[k] = "dead" => \A d \in Devices : received[k][d] = 0
    <3>1. RowTold(k)  BY <2>1 DEF ToldInv
    <3>2. status[k] = "dead" => \A w \in Workers : ~AnsweredFor(w, k)
        BY DEF HandInv, HandOf, InHand, AnsweredFor
    <3> QED BY <3>1, <3>2 DEF RowTold
  <2>2. TotalFaults \in Nat  BY DEF TypeOK, TotalFaults, FaultKinds
  <2>3. \A k \in Rows, d \in Devices : received[k][d] \in Nat  BY DEF TypeOK
  <2>4. RepeatedOnlyAfterFault
    <3> SUFFICES ASSUME NEW k \in Rows, NEW d \in Devices, received[k][d] > 1, TotalFaults = 0, k \notin shared
                 PROVE  FALSE
        BY <2>2 DEF RepeatedOnlyAfterFault
    <3> QED BY <2>1, <2>3
  <2>5. DeadReachedNobody
    <3> SUFFICES ASSUME NEW k \in Rows, status[k] = "dead"
                 PROVE  /\ attempts[k] >= MaxAttempts
                        /\ (\E d \in Devices : received[k][d] > 0) => TotalFaults > 0 \/ k \in shared
        BY DEF DeadReachedNobody
    <3>1. attempts[k] >= MaxAttempts  BY DEF ClaimInv
    <3>2. TotalFaults = 0 /\ k \notin shared => \A d \in Devices : received[k][d] = 0  BY <2>1
    <3> QED BY <2>2, <2>3, <3>1, <3>2
  <2> QED BY <2>4, <2>5 DEF RowsTellTheTruth
<1> QED BY <1>1, InitType, NextType, InitHand, NextHand, InitEndpoint, NextEndpoint, InitClaims, NextClaims,
           InitTold, NextTold, PTL DEF Spec

----------------------------------------------------------------------------
(* Steps of the tasks                                                      *)

\* Where a step of t leaves it; no other call moves.
TaskMoves(t, r) == /\ task' = [u \in Tasks |-> task'[u]] /\ task'[t] = r
                   /\ \A u \in Tasks : u # t => task'[u] = task[u]

LEMMA TaskStep ==
    ASSUME task = [u \in Tasks |-> task[u]], NEW t \in Tasks, NEW r, task' = [task EXCEPT ![t] = r]
    PROVE  TaskMoves(t, r)
<1>1. task' = [u \in Tasks |-> IF u = t THEN r ELSE task[u]]  OBVIOUS
<1> QED BY <1>1 DEF TaskMoves

LEMMA TaskBegins ==
    ASSUME task = [u \in Tasks |-> task[u]], NEW t \in Tasks, NEW r, Begins(t, r)
    PROVE  TaskMoves(t, r) /\ task[t] = New /\ task[t].at = "new"
<1>1. task[t] = New /\ task' = [task EXCEPT ![t] = r]  BY DEF Begins
<1>2. TaskMoves(t, r)  BY <1>1, TaskStep
<1> QED BY <1>1, <1>2 DEF New

LEMMA TaskGoes ==
    ASSUME task = [u \in Tasks |-> task[u]], NEW t \in Tasks, NEW next, Goes(t, next)
    PROVE  TaskMoves(t, [task[t] EXCEPT !.at = next])
<1>1. task' = [task EXCEPT ![t] = [task[t] EXCEPT !.at = next]]  BY DEF Goes
<1> QED BY <1>1, TaskStep

LEMMA TaskGoesWith ==
    ASSUME task = [u \in Tasks |-> task[u]], NEW t \in Tasks, NEW f, NEW v, NEW next, GoesWith(t, f, v, next)
    PROVE  TaskMoves(t, With(task[t], f, v, next))
    BY TaskStep DEF GoesWith

LEMMA TaskEnds ==
    ASSUME task = [u \in Tasks |-> task[u]], NEW t \in Tasks, Ends(t)
    PROVE  TaskMoves(t, [op |-> task[t].op, at |-> "over"])
<1>1. task' = [task EXCEPT ![t] = [op |-> task[t].op, at |-> "over"]]  BY DEF Ends
<1> QED BY <1>1, TaskStep

LEMMA TaskFails ==
    ASSUME task = [u \in Tasks |-> task[u]], failures \in Nat, NEW t \in Tasks, Fails(t)
    PROVE  /\ TaskMoves(t, Failed) /\ Failed.at = "failed" /\ task[t].at \notin {"new", "over", "failed"}
           /\ failures' \in Nat /\ failures' = failures + 1 /\ failures' # 0
<1>1. task' = [task EXCEPT ![t] = Failed] /\ failures' = failures + 1 /\ task[t].at \notin {"new", "over", "failed"}
    BY DEF Fails
<1>2. TaskMoves(t, Failed)  BY <1>1, TaskStep
<1> QED BY <1>1, <1>2 DEF Failed

\* Where every task is after a step of t.
LEMMA TasksAfter ==
    ASSUME NEW t \in Tasks, NEW r, TaskMoves(t, r)
    PROVE  /\ task'[t] = r /\ (\A p : At(t, p)' <=> r.at = p)
           /\ \A op : Under(t, op)' <=> r.at \notin {"new", "over", "failed"} /\ r.op = op
           /\ \A u \in Tasks : u # t => /\ task'[u] = task[u] /\ (\A p : At(u, p)' <=> At(u, p))
                                        /\ \A op : Under(u, op)' <=> Under(u, op)
    BY DEF TaskMoves, At, Under

----------------------------------------------------------------------------
(* Presence                                                                *)

PresenceCall(r) ==
    \/ r = New \/ r = Failed
    \/ r \in [op : {"offline"}, at : {"remaining", "seen"}]
    \/ r \in [op : {"online", "setStatus", "offline"}, at : {"count"}]
    \/ r \in [op : {"online", "setStatus", "offline"}, count : Nat, at : {"manual"}]
    \/ r \in [op : {"online", "setStatus", "offline"}, count : Nat, status : {"online", "away", "offline"}, at : {"changed"}]
    \/ r \in [op : {"online", "setStatus", "offline"}, at : {"over"}]

PresenceTyped ==
    /\ PresenceTypeOK /\ failures \in Nat
    /\ task = [t \in Tasks |-> task[t]] /\ \A t \in Tasks : PresenceCall(task[t])

AtRest(t) == task[t].at \in {"new", "over", "failed"}

\* Alone, the call at work knows what it has read, and what was fanned out before it is current, unless it will
\* fan out itself; last seen is written with no device there, and nobody is away without it but by a call at work.
FannedInv ==
    ~silent /\ ~interleaved /\ failures = 0 =>
       /\ \A t, u \in Tasks : ~AtRest(t) /\ ~AtRest(u) => t = u
       /\ \A t \in Tasks : At(t, "manual") => task[t].count = Cardinality(online)
       /\ \A t \in Tasks : At(t, "changed") => task[t].status = StatusNow
       /\ \A t \in Tasks : At(t, "remaining") => online = {} \/ fanned = StatusNow
       /\ (\A t \in Tasks : AtRest(t)) => fanned = StatusNow
       /\ \A t \in Tasks : At(t, "seen") => online = {}
       /\ lastSeen # "during"
       /\ online # {} \/ lastSeen = "after" \/ \E t \in Tasks : At(t, "remaining") \/ At(t, "seen")

PresenceInv == PresenceTyped /\ FannedInv

\* How many devices are online is a number, and zero only if none is.
LEMMA HowManyOnline ==
    ASSUME NEW S \in SUBSET UserDevices
    PROVE  Cardinality(S) \in Nat /\ (Cardinality(S) = 0 <=> S = {})
<1>1. IsFiniteSet(S)  BY PresenceAssumption, FS_Subset
<1> QED BY <1>1, FS_CardinalityType, FS_EmptySet

LEMMA CoarseIs ==
    ASSUME NEW n \in Nat, NEW m \in Manuals
    PROVE  Coarse(n, m) \in {"online", "away", "offline"}
    BY DEF Coarse, Manuals

LEMMA PresencePlaces ==
    ASSUME PresenceTyped, NEW t \in Tasks
    PROVE  /\ At(t, "remaining") => task[t] \in [op : {"offline"}, at : {"remaining"}]
           /\ At(t, "seen") => task[t] \in [op : {"offline"}, at : {"seen"}]
           /\ At(t, "count") => task[t] \in [op : {"online", "setStatus", "offline"}, at : {"count"}]
           /\ At(t, "manual") => task[t] \in [op : {"online", "setStatus", "offline"}, count : Nat, at : {"manual"}]
           /\ At(t, "changed") => task[t] \in [op : {"online", "setStatus", "offline"}, count : Nat,
                                               status : {"online", "away", "offline"}, at : {"changed"}]
<1>1. PresenceCall(task[t])  BY DEF PresenceTyped
<1>2. CASE task[t] = New \/ task[t] = Failed  BY <1>2 DEF New, Failed, At
<1>3. CASE task[t] # New /\ task[t] # Failed  BY <1>1, <1>3 DEF PresenceCall, At
<1> QED BY <1>2, <1>3

\* A step of a call to where a call may be keeps the types.
LEMMA PresenceTypes ==
    ASSUME PresenceTyped, PresenceTypeOK', failures' \in Nat, NEW t \in Tasks, NEW r, PresenceCall(r), TaskMoves(t, r)
    PROVE  PresenceTyped'
<1>1. ASSUME NEW u \in Tasks PROVE PresenceCall(task'[u])
  <2>1. CASE u = t  BY <2>1 DEF TaskMoves
  <2>2. CASE u # t  BY <2>2 DEF TaskMoves, PresenceTyped
  <2> QED BY <2>1, <2>2
<1>2. task' = [u \in Tasks |-> task'[u]]  BY DEF TaskMoves
<1> QED BY <1>1, <1>2 DEF PresenceTyped

\* A call that begins at p, when no other is at work, is the only one.
LEMMA PresenceBegins ==
    ASSUME PresenceTyped, NEW t \in Tasks, NEW r, Begins(t, r), MeetsAny, ~interleaved'
    PROVE  (\A u \in Tasks : AtRest(u)) /\ ~interleaved /\ \A u \in Tasks : ~AtRest(u)' => u = t
<1>1. \A u \in Tasks : AtRest(u)  BY DEF MeetsAny, Alone, AtRest
<1>2. TaskMoves(t, r)  BY TaskBegins DEF PresenceTyped
<1> QED BY <1>1, <1>2 DEF MeetsAny, AtRest, TaskMoves

\* What a call that adds a device, or sets the status, leaves to its fan-out.
LEMMA FansOutKeeps ==
    ASSUME PresenceInv, NEW t \in Tasks, NEW op \in {"online", "setStatus"}, Begins(t, [op |-> op, at |-> "count"]), MeetsAny,
           UNCHANGED <<failures, fanned, silent>>, online' \in SUBSET UserDevices, manual' \in Manuals,
           (online' # {} /\ lastSeen' = "none") \/ UNCHANGED <<online, lastSeen>>
    PROVE  PresenceInv'
<1> USE DEF PresenceInv
<1>1. Begins(t, [op |-> op, at |-> "count"]) /\ MeetsAny /\ UNCHANGED <<failures, fanned, silent>>
    OBVIOUS
<1>2. /\ online' \in SUBSET UserDevices /\ manual' \in Manuals
      /\ (online' # {} /\ lastSeen' = "none") \/ UNCHANGED <<online, lastSeen>>
    OBVIOUS
<1>3. PICK r : r = [op |-> op, at |-> "count"]  OBVIOUS
<1>4. TaskMoves(t, r) /\ PresenceCall(r) /\ r.at = "count"
    BY <1>1, <1>3, TaskBegins DEF PresenceCall, PresenceTyped
<1>5. PresenceTyped'
  <2>1. PresenceTypeOK'  BY <1>1, <1>2 DEF MeetsAny, PresenceTyped, PresenceTypeOK
  <2>2. failures' \in Nat  BY <1>1 DEF PresenceTyped
  <2> QED BY <1>4, <2>1, <2>2, PresenceTypes
<1>6. FannedInv'
  <2> SUFFICES ASSUME ~silent, ~interleaved', failures = 0
               PROVE  /\ \A u, w \in Tasks : ~AtRest(u)' /\ ~AtRest(w)' => u = w
                      /\ \A u \in Tasks : ~(At(u, "manual") \/ At(u, "changed") \/ At(u, "remaining") \/ At(u, "seen"))'
                      /\ ~ \A u \in Tasks : AtRest(u)'
                      /\ lastSeen' # "during" /\ (online' # {} \/ lastSeen' = "after")
      BY <1>1 DEF FannedInv
  <2>1. \A u \in Tasks : ~AtRest(u)' => u = t  BY <1>1, <1>3, PresenceBegins
  <2>2. At(t, "count")' /\ ~AtRest(t)'  BY <1>4 DEF TaskMoves, At, AtRest
  <2>3. ~interleaved /\ \A u \in Tasks : AtRest(u)  BY <1>1, <1>3, PresenceBegins
  <2>4. lastSeen # "during" /\ (online # {} \/ lastSeen = "after")
      BY <2>3 DEF FannedInv, AtRest, At
  <2> QED BY <1>2, <2>1, <2>2, <2>4 DEF At, AtRest
<1> QED BY <1>5, <1>6

LEMMA AddDeviceKeeps == ASSUME PresenceInv, NEW t \in Tasks, NEW d \in UserDevices, AddDevice(t, d) PROVE PresenceInv'
<1>1. /\ Begins(t, [op |-> "online", at |-> "count"]) /\ MeetsAny /\ UNCHANGED <<failures, fanned, silent>>
      /\ online' \in SUBSET UserDevices /\ manual' \in Manuals
      /\ (online' # {} /\ lastSeen' = "none") \/ UNCHANGED <<online, lastSeen>>
    BY DEF AddDevice, PresenceInv, PresenceTyped, PresenceTypeOK
<1> QED BY <1>1, FansOutKeeps

LEMMA SetManualKeeps == ASSUME PresenceInv, NEW t \in Tasks, NEW m \in Manuals, SetManual(t, m) PROVE PresenceInv'
<1>1. /\ Begins(t, [op |-> "setStatus", at |-> "count"]) /\ MeetsAny /\ UNCHANGED <<failures, fanned, silent>>
      /\ online' \in SUBSET UserDevices /\ manual' \in Manuals
      /\ (online' # {} /\ lastSeen' = "none") \/ UNCHANGED <<online, lastSeen>>
    BY DEF SetManual, PresenceInv, PresenceTyped, PresenceTypeOK
<1> QED BY <1>1, FansOutKeeps

LEMMA RemoveDeviceKeeps ==
    ASSUME PresenceInv, NEW t \in Tasks, NEW d \in UserDevices, RemoveDevice(t, d)
    PROVE  PresenceInv'
<1> USE DEF PresenceInv
<1>1. PICK r : r = [op |-> "offline", at |-> "remaining"]  OBVIOUS
<1>2. Begins(t, r) /\ MeetsAny /\ online' = online \ {d} /\ UNCHANGED <<failures, manual, lastSeen, fanned, silent>>
    BY <1>1 DEF RemoveDevice
<1>3. TaskMoves(t, r) /\ PresenceCall(r) /\ r.at = "remaining"
    BY <1>1, <1>2, TaskBegins DEF PresenceCall, PresenceTyped
<1>4. PresenceTyped'
  <2>1. PresenceTypeOK' /\ failures' \in Nat  BY <1>2 DEF MeetsAny, PresenceTyped, PresenceTypeOK
  <2> QED BY <1>3, <2>1, PresenceTypes
<1>5. FannedInv'
  <2> SUFFICES ASSUME ~silent', ~interleaved', failures' = 0
               PROVE  /\ \A u, w \in Tasks : ~AtRest(u)' /\ ~AtRest(w)' => u = w
                      /\ \A u \in Tasks : ~(At(u, "manual") \/ At(u, "changed") \/ At(u, "seen"))'
                      /\ online' = {} \/ fanned' = StatusNow'
                      /\ ~ \A u \in Tasks : AtRest(u)'
                      /\ lastSeen' # "during" /\ \E u \in Tasks : At(u, "remaining")'
      BY DEF FannedInv
  <2>1. (\A u \in Tasks : AtRest(u)) /\ ~interleaved /\ \A u \in Tasks : ~AtRest(u)' => u = t
      BY <1>2, PresenceBegins
  <2>2. At(t, "remaining")' /\ ~AtRest(t)'  BY <1>3 DEF TaskMoves, At, AtRest
  <2>3. fanned = StatusNow /\ lastSeen # "during"  BY <1>2, <2>1 DEF FannedInv
  <2>4. online' # {} => StatusNow' = StatusNow
    <3> SUFFICES ASSUME online' # {} PROVE StatusNow' = StatusNow  OBVIOUS
    <3>1. online \in SUBSET UserDevices /\ online' \in SUBSET UserDevices /\ online # {} /\ manual' = manual /\ manual \in Manuals
        BY <1>2 DEF PresenceTyped, PresenceTypeOK
    <3>2. Cardinality(online) # 0 /\ Cardinality(online') # 0  BY <3>1, HowManyOnline
    <3>3. PICK n, k : n = Cardinality(online) /\ k = Cardinality(online')  OBVIOUS
    <3>4. Coarse(n, manual) = Coarse(k, manual)  BY <3>1, <3>2, <3>3 DEF Coarse, Manuals
    <3> QED BY <3>1, <3>3, <3>4 DEF StatusNow
  <2> QED BY <1>2, <2>1, <2>2, <2>3, <2>4 DEF At, AtRest
<1> QED BY <1>4, <1>5

\* A step within a call reads what is there, and no other call is at work when it matters.
LEMMA PresenceGoes ==
    ASSUME PresenceInv, NEW t \in Tasks, NEW r, PresenceCall(r), TaskMoves(t, r), ~AtRest(t), UNCHANGED <<failures, presenceVars>>,
           r.at = "manual" => r.count = Cardinality(online),
           r.at = "changed" /\ FannedInv /\ ~silent /\ ~interleaved /\ failures = 0 => r.status = StatusNow,
           r.at \in {"new", "over", "failed"} /\ ~silent /\ ~interleaved /\ failures = 0 => fanned = StatusNow,
           r.at # "remaining", r.at = "seen" => online = {}, At(t, "remaining") => online # {} \/ r.at = "seen",
           ~At(t, "seen")
    PROVE  PresenceInv'
<1> USE DEF PresenceInv
<1>1. UNCHANGED <<online, manual, lastSeen, fanned, silent, interleaved>>  BY DEF presenceVars
<1>2. PresenceTyped'
  <2>1. PresenceTypeOK' /\ failures' \in Nat  BY <1>1 DEF PresenceTyped, PresenceTypeOK
  <2> QED BY <2>1, PresenceTypes
<1>3. StatusNow' = StatusNow  BY <1>1 DEF StatusNow
<1>4. FannedInv'
  <2> SUFFICES ASSUME ~silent, ~interleaved, failures = 0
               PROVE  /\ \A u, w \in Tasks : ~AtRest(u)' /\ ~AtRest(w)' => u = w
                      /\ \A u \in Tasks : At(u, "manual")' => task'[u].count = Cardinality(online)
                      /\ \A u \in Tasks : At(u, "changed")' => task'[u].status = StatusNow
                      /\ \A u \in Tasks : At(u, "remaining")' => online = {} \/ fanned = StatusNow
                      /\ (\A u \in Tasks : AtRest(u)') => fanned = StatusNow
                      /\ \A u \in Tasks : At(u, "seen")' => online = {}
                      /\ lastSeen # "during"
                      /\ online # {} \/ lastSeen = "after" \/ \E u \in Tasks : At(u, "remaining")' \/ At(u, "seen")'
      BY <1>1, <1>3 DEF FannedInv
  <2>1. \A u \in Tasks : u # t => AtRest(u)  BY DEF FannedInv
  <2>2. \A u \in Tasks : u # t => /\ AtRest(u)' /\ ~At(u, "manual")' /\ ~At(u, "changed")' /\ ~At(u, "remaining")'
                                  /\ ~At(u, "seen")' /\ ~At(u, "seen") /\ ~At(u, "remaining")
      BY <2>1 DEF AtRest, TaskMoves, At
  <2>3. (AtRest(t)' <=> r.at \in {"new", "over", "failed"}) /\ (\A p : At(t, p)' <=> r.at = p) /\ task'[t] = r
      BY DEF TaskMoves, At, AtRest
  <2>4. /\ lastSeen # "during"
        /\ online # {} \/ lastSeen = "after" \/ \E u \in Tasks : At(u, "remaining")' \/ At(u, "seen")'
      BY <2>2, <2>3 DEF FannedInv
  <2> QED BY <2>2, <2>3, <2>4
<1> QED BY <1>2, <1>4

LEMMA RemainingKeeps ==
    ASSUME PresenceInv, NEW t \in Tasks, Remaining(t)
    PROVE  PresenceInv'
<1> USE DEF PresenceInv
<1>1. At(t, "remaining") /\ ~AtRest(t) /\ UNCHANGED <<failures, presenceVars>> /\ task[t] = [op |-> "offline", at |-> "remaining"]
    BY PresencePlaces DEF Remaining, At, AtRest
<1>2. CASE online = {}
  <2>1. Goes(t, "seen")  BY <1>2 DEF Remaining, NoneLeft
  <2>2. PICK r : r = [task[t] EXCEPT !.at = "seen"]  OBVIOUS
  <2>3. TaskMoves(t, r) /\ PresenceCall(r) /\ r.at = "seen"
      BY <1>1, <2>1, <2>2, TaskGoes DEF PresenceTyped, PresenceCall
  <2> QED BY <1>1, <1>2, <2>3, PresenceGoes DEF At
<1>3. CASE online # {}
  <2>1. Ends(t)  BY <1>3 DEF Remaining, NoneLeft
  <2>2. PICK r : r = [op |-> task[t].op, at |-> "over"]  OBVIOUS
  <2>3. TaskMoves(t, r) /\ PresenceCall(r) /\ r.at = "over"
      BY <1>1, <2>1, <2>2, TaskEnds DEF PresenceTyped, PresenceCall
  <2>4. ~silent /\ ~interleaved /\ failures = 0 => fanned = StatusNow  BY <1>1, <1>3 DEF FannedInv
  <2> QED BY <1>1, <1>3, <2>3, <2>4, PresenceGoes DEF At
<1> QED BY <1>2, <1>3

LEMMA WriteLastSeenKeeps ==
    ASSUME PresenceInv, NEW t \in Tasks, WriteLastSeen(t)
    PROVE  PresenceInv'
<1> USE DEF PresenceInv
<1>1. /\ At(t, "seen") /\ ~AtRest(t) /\ UNCHANGED <<failures, online, manual, fanned, silent, interleaved>>
      /\ lastSeen' = (IF online = {} THEN "after" ELSE "during") /\ task[t] = [op |-> "offline", at |-> "seen"]
    BY PresencePlaces DEF WriteLastSeen, At, AtRest
<1>2. PICK r : r = [task[t] EXCEPT !.at = "count"]  OBVIOUS
<1>3. TaskMoves(t, r) /\ PresenceCall(r) /\ r.at = "count"
    BY <1>1, <1>2, TaskGoes DEF WriteLastSeen, PresenceTyped, PresenceCall
<1>4. PresenceTyped'
  <2>1. PresenceTypeOK' /\ failures' \in Nat  BY <1>1 DEF PresenceTyped, PresenceTypeOK
  <2> QED BY <1>3, <2>1, PresenceTypes
<1>5. FannedInv'
  <2> SUFFICES ASSUME ~silent, ~interleaved, failures = 0
               PROVE  /\ \A u, w \in Tasks : ~AtRest(u)' /\ ~AtRest(w)' => u = w
                      /\ \A u \in Tasks : ~(At(u, "manual") \/ At(u, "changed") \/ At(u, "remaining") \/ At(u, "seen"))'
                      /\ ~ \A u \in Tasks : AtRest(u)'
                      /\ lastSeen' = "after"
      BY <1>1 DEF FannedInv
  <2>1. online = {} /\ \A u \in Tasks : u # t => AtRest(u)  BY <1>1 DEF FannedInv
  <2>2. (\A u \in Tasks : u # t => AtRest(u)') /\ ~AtRest(t)' /\ At(t, "count")'
      BY <1>3, <2>1 DEF AtRest, TaskMoves, At
  <2> QED BY <1>1, <2>1, <2>2 DEF AtRest, At
<1> QED BY <1>4, <1>5

LEMMA OnlineCountKeeps ==
    ASSUME PresenceInv, NEW t \in Tasks, OnlineCount(t)
    PROVE  PresenceInv'
<1> USE DEF PresenceInv
<1>1. /\ At(t, "count") /\ ~AtRest(t) /\ UNCHANGED <<failures, presenceVars>>
      /\ task[t] \in [op : {"online", "setStatus", "offline"}, at : {"count"}]
    BY PresencePlaces DEF OnlineCount, At, AtRest
<1>2. PICK n, r : n = Cardinality(online) /\ r = With(task[t], "count", n, "manual")  OBVIOUS
<1>3. n \in Nat  BY <1>2, HowManyOnline DEF PresenceTyped, PresenceTypeOK
<1>4. r = [op |-> task[t].op, count |-> n, at |-> "manual"]  BY <1>1, <1>2 DEF With
<1>5. TaskMoves(t, r)  BY <1>2, TaskGoesWith DEF OnlineCount, PresenceTyped
<1>6. PresenceCall(r) /\ r.at = "manual" /\ r.count = n  BY <1>1, <1>3, <1>4 DEF PresenceCall
<1> QED BY <1>1, <1>2, <1>5, <1>6, PresenceGoes DEF At

LEMMA GetManualKeeps ==
    ASSUME PresenceInv, NEW t \in Tasks, GetManual(t)
    PROVE  PresenceInv'
<1> USE DEF PresenceInv
<1>1. /\ At(t, "manual") /\ ~AtRest(t) /\ UNCHANGED <<failures, presenceVars>>
      /\ task[t] \in [op : {"online", "setStatus", "offline"}, count : Nat, at : {"manual"}]
    BY PresencePlaces DEF GetManual, At, AtRest
<1>2. PICK s, r : s = Coarse(task[t].count, manual) /\ r = With(task[t], "status", s, "changed")
    OBVIOUS
<1>3. s \in {"online", "away", "offline"}  BY <1>1, <1>2, CoarseIs DEF PresenceTyped, PresenceTypeOK
<1>4. r = [op |-> task[t].op, count |-> task[t].count, status |-> s, at |-> "changed"]
    BY <1>1, <1>2 DEF With
<1>5. TaskMoves(t, r)  BY <1>2, TaskGoesWith DEF GetManual, PresenceTyped
<1>6. PresenceCall(r) /\ r.at = "changed" /\ r.status = s  BY <1>1, <1>3, <1>4 DEF PresenceCall
<1>7. ~silent /\ ~interleaved /\ failures = 0 => s = StatusNow
    BY <1>1, <1>2 DEF FannedInv, StatusNow
<1> QED BY <1>1, <1>5, <1>6, <1>7, PresenceGoes DEF At

LEMMA ChangedKeeps ==
    ASSUME PresenceInv, NEW t \in Tasks, Changed(t)
    PROVE  PresenceInv'
<1> USE DEF PresenceInv
<1>1. /\ At(t, "changed") /\ ~AtRest(t) /\ fanned' = task[t].status /\ UNCHANGED <<failures, online, manual, lastSeen, silent, interleaved>>
      /\ task[t] \in [op : {"online", "setStatus", "offline"}, count : Nat, status : {"online", "away", "offline"}, at : {"changed"}]
    BY PresencePlaces DEF Changed, At, AtRest
<1>2. PICK r : r = [op |-> task[t].op, at |-> "over"]  OBVIOUS
<1>3. TaskMoves(t, r) /\ PresenceCall(r) /\ r.at = "over"
    BY <1>1, <1>2, TaskEnds DEF Changed, PresenceTyped, PresenceCall
<1>4. PresenceTyped'
  <2>1. PresenceTypeOK' /\ failures' \in Nat  BY <1>1 DEF PresenceTyped, PresenceTypeOK
  <2> QED BY <1>3, <2>1, PresenceTypes
<1>5. StatusNow' = StatusNow  BY <1>1 DEF StatusNow
<1>6. FannedInv'
  <2> SUFFICES ASSUME ~silent, ~interleaved, failures = 0
               PROVE  /\ \A u \in Tasks : AtRest(u)' /\ ~(At(u, "manual") \/ At(u, "changed") \/ At(u, "remaining") \/ At(u, "seen"))'
                      /\ fanned' = StatusNow /\ lastSeen # "during" /\ (online # {} \/ lastSeen = "after")
      BY <1>1, <1>5 DEF FannedInv
  <2>1. \A u \in Tasks : u # t => AtRest(u)  BY <1>1 DEF FannedInv
  <2>2. \A u \in Tasks : AtRest(u)'  BY <1>3, <2>1 DEF AtRest, TaskMoves
  <2>3. fanned' = StatusNow  BY <1>1 DEF FannedInv
  <2>4. \A u \in Tasks : ~At(u, "remaining") /\ ~At(u, "seen")  BY <1>1, <2>1 DEF AtRest, At
  <2>5. lastSeen # "during" /\ (online # {} \/ lastSeen = "after")  BY <2>4 DEF FannedInv
  <2> QED BY <2>2, <2>3, <2>5 DEF AtRest, At
<1> QED BY <1>4, <1>6

\* What happens by itself is silent, or changes nothing.
LEMMA SilentKeeps ==
    ASSUME PresenceInv, UNCHANGED <<taskVars, lastSeen, fanned, interleaved>>, online' \in SUBSET UserDevices, manual' \in Manuals,
           silent' \in BOOLEAN, silent' \/ UNCHANGED <<online, manual, silent>>
    PROVE  PresenceInv'
<1> USE DEF PresenceInv
<1>1. UNCHANGED <<task, failures, lastSeen, fanned, interleaved>>  BY DEF taskVars
<1>2. PresenceTyped'  BY <1>1 DEF PresenceTyped, PresenceTypeOK
<1>3. FannedInv'
  <2>1. CASE silent'  BY <2>1 DEF FannedInv
  <2>2. CASE UNCHANGED <<online, manual, silent>>
    <3>1. StatusNow' = StatusNow /\ (\A u : AtRest(u)' <=> AtRest(u)) /\ \A u, p : At(u, p)' <=> At(u, p)
        BY <1>1, <2>2 DEF AtRest, At, StatusNow
    <3> QED BY <1>1, <2>2, <3>1 DEF FannedInv
  <2> QED BY <2>1, <2>2
<1> QED BY <1>2, <1>3

LEMMA PresenceStep ==
    ASSUME PresenceInv, PresenceNext
    PROVE  PresenceInv'
<1> USE DEF PresenceInv
<1>1. CASE \E t \in Tasks, d \in UserDevices : AddDevice(t, d)  BY <1>1, AddDeviceKeeps
<1>2. CASE \E t \in Tasks, d \in UserDevices : RemoveDevice(t, d)  BY <1>2, RemoveDeviceKeeps
<1>3. CASE \E t \in Tasks, m \in Manuals : SetManual(t, m)  BY <1>3, SetManualKeeps
<1>4. CASE \E d \in UserDevices : Heartbeat(d)
    BY <1>4, SilentKeeps DEF Heartbeat, PresenceTyped, PresenceTypeOK
<1>5. CASE \E t \in Tasks : Remaining(t) \/ WriteLastSeen(t) \/ OnlineCount(t) \/ GetManual(t) \/ Changed(t)
    BY <1>5, RemainingKeeps, WriteLastSeenKeeps, OnlineCountKeeps, GetManualKeeps, ChangedKeeps
<1>6. CASE \E t \in Tasks : FailPresence(t)
  <2>1. PICK t \in Tasks : FailPresence(t)  BY <1>6
  <2>2. TaskMoves(t, Failed) /\ failures' \in Nat /\ failures' # 0 /\ UNCHANGED presenceVars
      BY <2>1, TaskFails DEF FailPresence, PresenceTyped
  <2>3. PresenceTypeOK' /\ PresenceCall(Failed)
      BY <2>2 DEF presenceVars, PresenceTyped, PresenceTypeOK, PresenceCall
  <2>4. PresenceTyped'  BY <2>2, <2>3, PresenceTypes
  <2>5. FannedInv'  BY <2>2 DEF FannedInv
  <2> QED BY <2>4, <2>5
<1>7. CASE Lapse \/ ManualExpires
  <2>1. /\ UNCHANGED <<taskVars, lastSeen, fanned, interleaved>> /\ silent' = TRUE
        /\ online' \in SUBSET UserDevices /\ manual' \in Manuals
      BY <1>7 DEF Lapse, ManualExpires, Silently, PresenceTyped, PresenceTypeOK, Manuals
  <2> QED BY <2>1, SilentKeeps
<1> QED BY <1>1, <1>2, <1>3, <1>4, <1>5, <1>6, <1>7 DEF PresenceNext, PresenceRequests

LEMMA PresenceRests ==
    ASSUME PresenceInv, UNCHANGED <<taskVars, presenceVars>>
    PROVE  PresenceInv'
<1>1. UNCHANGED <<taskVars, lastSeen, fanned, interleaved, online, manual, silent>>
    BY DEF presenceVars
<1>2. online' \in SUBSET UserDevices /\ manual' \in Manuals /\ silent' \in BOOLEAN
    BY <1>1 DEF PresenceInv, PresenceTyped, PresenceTypeOK
<1> QED BY <1>1, <1>2, SilentKeeps

LEMMA PresenceStarts == TasksInit /\ PresenceInit => PresenceInv
<1> SUFFICES ASSUME TasksInit, PresenceInit PROVE PresenceInv  OBVIOUS
<1>1. (\A t \in Tasks : task[t] = New) /\ task = [t \in Tasks |-> task[t]] /\ failures = 0 /\ New.at = "new"
    BY DEF TasksInit, New
<1>2. PresenceTyped  BY <1>1 DEF PresenceTyped, PresenceTypeOK, PresenceInit, PresenceCall, Manuals
<1>3. StatusNow = "offline"  BY FS_EmptySet DEF PresenceInit, StatusNow, Coarse
<1>4. FannedInv  BY <1>1, <1>3 DEF FannedInv, AtRest, At, PresenceInit
<1> QED BY <1>2, <1>4 DEF PresenceInv

LEMMA PresenceSays == PresenceInv => FannedIsCurrent /\ LastSeenIsTheEnd
<1> SUFFICES ASSUME PresenceInv PROVE FannedIsCurrent /\ LastSeenIsTheEnd  OBVIOUS
<1>1. FannedIsCurrent  BY DEF PresenceInv, FannedInv, FannedIsCurrent, Alone, AtRest
<1>2. Alone => \A t \in Tasks : ~At(t, "remaining") /\ ~At(t, "seen")  BY DEF Alone, At
<1>3. LastSeenIsTheEnd  BY <1>2 DEF PresenceInv, FannedInv, LastSeenIsTheEnd
<1> QED BY <1>1, <1>3

----------------------------------------------------------------------------
(* Calls                                                                   *)

RoomCall(r) ==
    \/ r = New \/ r = Failed
    \/ r \in [op : {"call"}, u : Callers, at : {"row", "add", "announce", "tell"}]
    \/ r \in [op : {"meet"}, u : Callers, at : {"row", "meeting", "announce"}]
    \/ r \in [op : {"join"}, u : Callers, at : {"add", "start", "tell"}]
    \/ r \in [op : {"leave"}, u : Callers, at : {"out", "tell"}]
    \/ r \in [op : {"control"}, at : {"create"}]
    \/ r \in [op : {"call", "meet", "join", "leave", "control"}, at : {"over"}]

CallsTyped ==
    /\ CallTypeOK /\ failures \in Nat
    /\ task = [t \in Tasks |-> task[t]] /\ \A t \in Tasks : RoomCall(task[t])

Creates(t)  == Under(t, "call") \/ Under(t, "meet")
About(t, v) == (Under(t, "call") \/ Under(t, "join") \/ Under(t, "leave")) /\ task[t].u = v
Agree(v)    == lastEvent[v] = "joined" <=> present[v] = "in"

\* What a call that is past a step relies on.
MadeFits(t) ==
    /\ At(t, "row") => call = "none"
    /\ Under(t, "call") /\ ~At(t, "row") => call = "live" /\ began
    /\ Under(t, "call") /\ task[t].at \in {"announce", "tell"} => keys /\ present[task[t].u] # "none"
    /\ Under(t, "meet") /\ ~At(t, "row") => call = "meeting"
    /\ Under(t, "meet") /\ At(t, "announce") => details
    /\ Under(t, "join") /\ At(t, "tell") => began
    /\ Under(t, "join") => announced

\* The call is made once, and told of when it is there.
MadeInv ==
    /\ \A t, u \in Tasks : Creates(t) /\ Creates(u) => t = u
    /\ \A t \in Tasks : MadeFits(t)
    /\ announced => \/ call = "live" /\ began /\ keys /\ \E v \in Callers : present[v] # "none"
                    \/ call = "meeting" /\ details
    /\ ~began => \A v \in Callers : lastEvent[v] # "joined"
    /\ call = "none" => ~began

\* The only call about v knows what it has written; while there is none, the last event is the row.
RowFits(v) ==
    /\ \A t, u \in Tasks : About(t, v) /\ About(u, v) => t = u
    /\ \A t \in Tasks : About(t, v) =>
          /\ task[t].at \in {"row", "add", "out"} => Agree(v)
          /\ task[t].at \in {"start", "announce"} => present[v] = "in"
          /\ task[t].at = "tell" => (present[v] = "in" <=> task[t].op # "leave")
    /\ (\A t \in Tasks : ~About(t, v)) => Agree(v)

RowInv == failures = 0 /\ (keys \/ call # "live") => \A v \in Callers \ met : RowFits(v)

ControlInv ==
    ~crowded => /\ \A t, u \in Tasks : At(t, "create") /\ At(u, "create") => t = u
                /\ (\E t \in Tasks : At(t, "create")) => live = 0
                /\ live <= 1

CallsInv == CallsTyped /\ MadeInv /\ RowInv /\ ControlInv

LEMMA RoomPlaces ==
    ASSUME CallsTyped, NEW t \in Tasks
    PROVE  /\ At(t, "row") => task[t] \in [op : {"call", "meet"}, u : Callers, at : {"row"}]
           /\ At(t, "meeting") => task[t] \in [op : {"meet"}, u : Callers, at : {"meeting"}]
           /\ At(t, "announce") => task[t] \in [op : {"call", "meet"}, u : Callers, at : {"announce"}]
           /\ At(t, "add") => task[t] \in [op : {"call", "join"}, u : Callers, at : {"add"}]
           /\ At(t, "start") => task[t] \in [op : {"join"}, u : Callers, at : {"start"}]
           /\ At(t, "out") => task[t] \in [op : {"leave"}, u : Callers, at : {"out"}]
           /\ At(t, "tell") => task[t] \in [op : {"call", "join", "leave"}, u : Callers, at : {"tell"}]
           /\ At(t, "create") => task[t] \in [op : {"control"}, at : {"create"}]
           /\ Under(t, "control") <=> At(t, "create")
<1>1. RoomCall(task[t])  BY DEF CallsTyped
<1>2. CASE task[t] = New \/ task[t] = Failed  BY <1>2 DEF New, Failed, At, Under
<1>3. CASE task[t] # New /\ task[t] # Failed  BY <1>1, <1>3 DEF RoomCall, At, Under
<1> QED BY <1>2, <1>3

LEMMA CallsTypes ==
    ASSUME CallsTyped, CallTypeOK', failures' \in Nat, NEW t \in Tasks, NEW r, RoomCall(r), TaskMoves(t, r)
    PROVE  CallsTyped'
<1>1. ASSUME NEW u \in Tasks PROVE RoomCall(task'[u])
  <2>1. CASE u = t  BY <2>1 DEF TaskMoves
  <2>2. CASE u # t  BY <2>2 DEF TaskMoves, CallsTyped
  <2> QED BY <2>1, <2>2
<1>2. task' = [u \in Tasks |-> task'[u]]  BY DEF TaskMoves
<1> QED BY <1>1, <1>2 DEF CallsTyped

\* A step by one that creates only if it did, and forgets nothing, needs to fit where it leads.
LEMMA MadeStays ==
    ASSUME CallsTyped, MadeInv, NEW t \in Tasks, NEW r, TaskMoves(t, r), Creates(t)' => Creates(t), MadeFits(t)',
           UNCHANGED <<call, keys>>, began => began', began' => began \/ call # "none", details => details', announced => announced',
           \A v \in Callers : present[v] # "none" => present'[v] # "none",
           announced' => announced \/ \/ call = "live" /\ began' /\ keys /\ \E v \in Callers : present'[v] # "none"
                                      \/ call = "meeting" /\ details',
           ~began' => \A v \in Callers : lastEvent'[v] # "joined"
    PROVE  MadeInv'
<1>1. \A u \in Tasks : Creates(u)' => Creates(u)  BY TasksAfter DEF Creates
<1>2. ASSUME NEW u \in Tasks, u # t PROVE MadeFits(u)'
  <2>1. MadeFits(u) /\ task'[u] = task[u] /\ (\A p : At(u, p)' <=> At(u, p)) /\ \A op : Under(u, op)' <=> Under(u, op)
      BY <1>2, TasksAfter DEF MadeInv
  <2>2. Under(u, "call") /\ task[u].at \in {"announce", "tell"} => task[u].u \in Callers
      BY RoomPlaces DEF At
  <2> QED BY <2>1, <2>2 DEF MadeFits
<1>3. announced' => \/ call' = "live" /\ began' /\ keys' /\ \E v \in Callers : present'[v] # "none"
                    \/ call' = "meeting" /\ details'
    BY DEF MadeInv
<1> QED BY <1>1, <1>2, <1>3 DEF MadeInv

\* What a step by another, or about another, leaves of v.
LEMMA RowElse ==
    ASSUME NEW v, RowFits(v), NEW t \in Tasks, NEW r, TaskMoves(t, r), ~About(t, v), ~About(t, v)',
           present'[v] = present[v], lastEvent'[v] = lastEvent[v]
    PROVE  RowFits(v)'
<1>1. \A u \in Tasks : (About(u, v)' <=> About(u, v)) /\ (About(u, v) => task'[u] = task[u])
    BY TasksAfter DEF About
<1>2. Agree(v)' <=> Agree(v)  BY DEF Agree
<1> QED BY <1>1, <1>2 DEF RowFits

\* A step of the only call about v.
LEMMA RowHere ==
    ASSUME NEW v, RowFits(v), NEW t \in Tasks, NEW r, TaskMoves(t, r), About(t, v), About(t, v)' \/ Agree(v)',
           About(t, v)' => /\ r.at \in {"row", "add", "out"} => Agree(v)'
                           /\ r.at \in {"start", "announce"} => present'[v] = "in"
                           /\ r.at = "tell" => (present'[v] = "in" <=> r.op # "leave")
    PROVE  RowFits(v)'
<1>1. \A u \in Tasks : u # t => ~About(u, v)  BY DEF RowFits
<1>2. \A u \in Tasks : u # t => ~About(u, v)'  BY <1>1, TasksAfter DEF About
<1>3. task'[t] = r  BY DEF TaskMoves
<1> QED BY <1>2, <1>3 DEF RowFits

\* Any step but those that tell the row or write it.
LEMMA RowStays ==
    ASSUME RowInv, NEW t \in Tasks, NEW r, TaskMoves(t, r), failures' = 0 => failures = 0,
           keys' \/ call' # "live" => keys \/ call # "live", met' = met,
           failures = 0 /\ (keys' \/ call' # "live") =>
              \A v \in Callers \ met : (~About(t, v) => ~About(t, v)' /\ present'[v] = present[v] /\ lastEvent'[v] = lastEvent[v])
                                       /\ (About(t, v) /\ RowFits(v) => RowFits(v)')
    PROVE  RowInv'
<1> SUFFICES ASSUME failures' = 0, keys' \/ call' # "live", NEW v \in Callers \ met PROVE RowFits(v)'
    BY DEF RowInv
<1>1. RowFits(v)  BY DEF RowInv
<1> QED BY <1>1, RowElse

LEMMA ControlStays ==
    ASSUME ControlInv, NEW t \in Tasks, NEW r, TaskMoves(t, r), r.at # "create", UNCHANGED <<live, crowded>>
    PROVE  ControlInv'
<1>1. \A u \in Tasks : At(u, "create")' => At(u, "create")  BY TasksAfter
<1> QED BY <1>1 DEF ControlInv

\* A call that concerns v begins.
LEMMA ConcernsKeeps ==
    ASSUME CallsInv, NEW t \in Tasks, NEW v \in Callers, NEW op \in {"call", "meet", "join", "leave"}, NEW p, Concerns(t, v, op, p),
           RoomCall([op |-> op, u |-> v, at |-> p]), p \in {"row", "add", "out"}, op \in {"call", "meet"} <=> p = "row",
           op \in {"call", "meet"} => call = "none" /\ ~Creating, op = "join" => announced
    PROVE  CallsInv'
<1> USE DEF CallsInv
<1>1. PICK r : r = [op |-> op, u |-> v, at |-> p]  OBVIOUS
<1>2. /\ TaskMoves(t, r) /\ task[t].at = "new" /\ RoomCall(r)
      /\ r.op = op /\ r.u = v /\ r.at = p
    BY <1>1, TaskBegins DEF Concerns, CallsTyped
<1>3. /\ UNCHANGED <<failures, keys, call, began, details, announced, present, lastEvent, live, crowded>>
      /\ met' = IF InACall(v) THEN met \cup {v} ELSE met
    BY DEF Concerns, roomVars
<1>4. CallsTyped'
  <2>1. CallTypeOK' /\ failures' \in Nat  BY <1>3 DEF CallsTyped, CallTypeOK
  <2> QED BY <1>2, <2>1, CallsTypes
<1>5. \A u \in Tasks : (\A x : At(u, x)' <=> IF u = t THEN p = x ELSE At(u, x))
                       /\ \A o : Under(u, o)' <=> IF u = t THEN o = op ELSE Under(u, o)
    BY <1>2, TasksAfter
<1>6. ~Creates(t) /\ \A w : ~About(t, w)  BY <1>2 DEF Creates, About, Under
<1>7. MadeInv'
  <2>1. \A u, w \in Tasks : Creates(u)' /\ Creates(w)' => u = w
    <3>1. CASE op \in {"call", "meet"}
      <4>1. \A u \in Tasks : ~Creates(u)  BY <3>1 DEF Creating, Creates
      <4> QED BY <1>5, <4>1 DEF Creates
    <3>2. CASE op \notin {"call", "meet"}
      <4>1. \A u \in Tasks : Creates(u)' => Creates(u)  BY <1>5, <3>2 DEF Creates
      <4> QED BY <4>1 DEF MadeInv
    <3> QED BY <3>1, <3>2
  <2>2. ASSUME NEW u \in Tasks PROVE MadeFits(u)'
    <3>1. CASE u = t  BY <1>2, <1>3, <1>5, <3>1 DEF MadeFits, TaskMoves
    <3>2. CASE u # t
      <4>1. MadeFits(u) /\ task'[u] = task[u]  BY <1>2, <3>2 DEF MadeInv, TaskMoves
      <4> QED BY <1>3, <1>5, <3>2, <4>1 DEF MadeFits
    <3> QED BY <3>1, <3>2
  <2> QED BY <1>3, <2>1, <2>2 DEF MadeInv
<1>8. RowInv'
  <2> SUFFICES ASSUME failures = 0, keys \/ call # "live", NEW w \in Callers \ met' PROVE RowFits(w)'
      BY <1>3 DEF RowInv
  <2>1. RowFits(w) /\ w \notin met  BY <1>3 DEF RowInv
  <2>2. CASE w # v
    <3>1. ~About(t, w)'  BY <1>2, <2>2 DEF TaskMoves, About
    <3> QED BY <1>2, <1>3, <1>6, <2>1, <3>1, RowElse
  <2>3. CASE w = v
    <3>1. \A u \in Tasks : ~About(u, v)  BY <1>3, <2>3 DEF InACall, About
    <3>2. Agree(v) /\ (Agree(v)' <=> Agree(v))  BY <1>3, <2>1, <2>3, <3>1 DEF RowFits, Agree
    <3>3. \A u \in Tasks : u # t => ~About(u, v)'  BY <1>2, <3>1, TasksAfter DEF About
    <3> QED BY <1>2, <2>3, <3>2, <3>3 DEF RowFits, TaskMoves
  <2> QED BY <2>2, <2>3
<1>9. ControlInv'  BY <1>2, <1>3, ControlStays
<1> QED BY <1>4, <1>7, <1>8, <1>9

LEMMA InsertCallKeeps ==
    ASSUME CallsInv, NEW t \in Tasks, InsertCall(t)
    PROVE  CallsInv'
<1> USE DEF CallsInv
<1>1. /\ At(t, "row") /\ task[t] \in [op : {"call", "meet"}, u : Callers, at : {"row"}]
      /\ call' = IF task[t].op = "call" THEN "live" ELSE "meeting"
      /\ began' \in BOOLEAN /\ (task[t].op = "call" => began')
      /\ UNCHANGED <<failures, keys, details, announced, present, lastEvent, met, live, crowded>>
    BY RoomPlaces DEF InsertCall
<1>2. PICK p, r : p = (IF task[t].op = "call" THEN "add" ELSE "meeting") /\ r = [task[t] EXCEPT !.at = p]
    OBVIOUS
<1>3. TaskMoves(t, r) /\ RoomCall(r) /\ r.at = p /\ r.op = task[t].op /\ r.u = task[t].u /\ r.op \in {"call", "meet"}
      /\ p \in {"add", "meeting"} /\ (r.op = "call" <=> p = "add")
    BY <1>1, <1>2, TaskGoes DEF InsertCall, CallsTyped, RoomCall
<1>4. CallsTyped'
  <2>1. CallTypeOK' /\ failures' \in Nat  BY <1>1 DEF CallsTyped, CallTypeOK
  <2> QED BY <1>3, <2>1, CallsTypes
<1>5. \A u \in Tasks : (\A x : At(u, x)' <=> IF u = t THEN p = x ELSE At(u, x))
                       /\ \A o : Under(u, o)' <=> IF u = t THEN o = r.op ELSE Under(u, o)
    BY <1>3, TasksAfter
<1>6. Creates(t) /\ call = "none" /\ \A u \in Tasks : u # t => ~Creates(u)
    BY <1>1 DEF MadeInv, MadeFits, Creates, Under, At
<1>7. ~announced  BY <1>6 DEF MadeInv
<1>8. MadeInv'
  <2>1. \A u \in Tasks : Creates(u)' => u = t  BY <1>5, <1>6 DEF Creates
  <2>2. ASSUME NEW u \in Tasks PROVE MadeFits(u)'
    <3>1. CASE u = t
      <4>1. (r.op = "call" => call' = "live" /\ began') /\ (r.op = "meet" => call' = "meeting")
          BY <1>1, <1>3
      <4>2. (\A x : At(t, x)' <=> p = x) /\ (\A o : Under(t, o)' <=> o = r.op) /\ task'[t].at = p
          BY <1>3, <1>5 DEF TaskMoves
      <4>3. MadeFits(t)'  BY <1>3, <4>1, <4>2 DEF MadeFits
      <4> QED BY <3>1, <4>3
    <3>2. CASE u # t
      <4>1. ~At(u, "row") /\ ~Under(u, "call") /\ ~Under(u, "meet")
          BY <1>6, <3>2, RoomPlaces DEF Creates, Under, At
      <4>2. ~Under(u, "join")  BY <1>7 DEF MadeInv, MadeFits
      <4> QED BY <1>5, <3>2, <4>1, <4>2 DEF MadeFits
    <3> QED BY <3>1, <3>2
  <2>3. \A v \in Callers : lastEvent'[v] # "joined"  BY <1>1, <1>6 DEF MadeInv
  <2> QED BY <1>1, <1>7, <2>1, <2>2, <2>3 DEF MadeInv
<1>9. RowInv'
  <2>1. ASSUME keys' \/ call' # "live", NEW v \in Callers \ met, About(t, v), RowFits(v) PROVE RowFits(v)'
    <3>1. Agree(v) /\ (Agree(v)' <=> Agree(v))  BY <1>1, <2>1 DEF RowFits, Agree
    <3> QED BY <1>3, <2>1, <3>1, RowHere
  <2>2. \A v : ~About(t, v) => ~About(t, v)'
    <3>1. \A o : Under(t, o) <=> o = r.op  BY <1>1, <1>3 DEF Under, At
    <3>2. task'[t].u = task[t].u  BY <1>3 DEF TaskMoves
    <3> QED BY <1>5, <3>1, <3>2 DEF About
  <2> QED BY <1>1, <1>3, <1>6, <2>1, <2>2, RowStays
<1>10. ControlInv'  BY <1>1, <1>2, <1>3, ControlStays
<1> QED BY <1>4, <1>8, <1>9, <1>10

LEMMA CreateMeetingKeeps ==
    ASSUME CallsInv, NEW t \in Tasks, CreateMeeting(t)
    PROVE  CallsInv'
<1> USE DEF CallsInv
<1>1. /\ At(t, "meeting") /\ task[t] \in [op : {"meet"}, u : Callers, at : {"meeting"}] /\ details' = TRUE
      /\ UNCHANGED <<failures, keys, call, began, announced, present, lastEvent, met, live, crowded>>
    BY RoomPlaces DEF CreateMeeting
<1>2. PICK r : r = [task[t] EXCEPT !.at = "announce"]  OBVIOUS
<1>3. TaskMoves(t, r) /\ RoomCall(r) /\ r.at = "announce" /\ r.op = "meet"
    BY <1>1, <1>2, TaskGoes DEF CreateMeeting, CallsTyped, RoomCall
<1>4. CallsTyped'
  <2>1. CallTypeOK' /\ failures' \in Nat  BY <1>1 DEF CallsTyped, CallTypeOK
  <2> QED BY <1>3, <2>1, CallsTypes
<1>5. (\A x : At(t, x)' <=> x = "announce") /\ (\A o : Under(t, o)' <=> o = "meet") /\ Under(t, "meet")
    BY <1>1, <1>3, TasksAfter DEF Under
<1>6. MadeInv'
  <2>1. call = "meeting"  BY <1>1, <1>5 DEF MadeInv, MadeFits, At
  <2>2. MadeFits(t)'  BY <1>1, <1>5, <2>1 DEF MadeFits
  <2>3. Creates(t)  BY <1>5 DEF Creates
  <2>4. (announced' => announced) /\ (~began' => \A v \in Callers : lastEvent'[v] # "joined") /\ (began' => began)
      BY <1>1 DEF MadeInv
  <2> QED BY <1>1, <1>3, <2>2, <2>3, <2>4, MadeStays
<1>7. RowInv'
  <2>1. \A v : ~About(t, v) /\ ~About(t, v)'  BY <1>1, <1>5 DEF About, Under
  <2> QED BY <1>1, <1>3, <2>1, RowStays
<1>8. ControlInv'  BY <1>1, <1>3, ControlStays
<1> QED BY <1>4, <1>6, <1>7, <1>8

LEMMA AnnounceKeeps ==
    ASSUME CallsInv, NEW t \in Tasks, Announce(t)
    PROVE  CallsInv'
<1> USE DEF CallsInv
<1>1. /\ At(t, "announce") /\ task[t] \in [op : {"call", "meet"}, u : Callers, at : {"announce"}] /\ announced' = TRUE
      /\ UNCHANGED <<failures, keys, call, began, details, present, lastEvent, met, live, crowded>>
    BY RoomPlaces DEF Announce
<1>2. PICK r : r = IF task[t].op = "call" THEN [task[t] EXCEPT !.at = "tell"] ELSE [op |-> task[t].op, at |-> "over"]
    OBVIOUS
<1>3. /\ TaskMoves(t, r) /\ RoomCall(r) /\ r.op = task[t].op /\ r.at \in {"tell", "over"}
      /\ task[t].op = "call" => r.at = "tell" /\ r.u = task[t].u
      /\ task[t].op = "meet" => r.at = "over"
  <2>1. CASE task[t].op = "call"  BY <1>1, <1>2, <2>1, TaskGoes DEF Announce, CallsTyped, RoomCall
  <2>2. CASE task[t].op = "meet"  BY <1>1, <1>2, <2>2, TaskEnds DEF Announce, CallsTyped, RoomCall
  <2> QED BY <1>1, <2>1, <2>2
<1>4. CallsTyped'
  <2>1. CallTypeOK' /\ failures' \in Nat  BY <1>1 DEF CallsTyped, CallTypeOK
  <2> QED BY <1>3, <2>1, CallsTypes
<1>5. /\ (\A x : At(t, x)' <=> r.at = x) /\ task'[t] = r
      /\ \A o : Under(t, o)' <=> r.at = "tell" /\ task[t].op = o
      /\ \A o : Under(t, o) <=> task[t].op = o
    BY <1>1, <1>3, TasksAfter DEF Under
<1>6. MadeInv'
  <2>1. MadeFits(t)  BY DEF MadeInv
  <2>2. /\ task[t].op = "call" => call = "live" /\ began /\ keys /\ present[task[t].u] # "none"
        /\ task[t].op = "meet" => call = "meeting" /\ details
      BY <1>1, <1>5, <2>1 DEF MadeFits, At
  <2>3. MadeFits(t)'  BY <1>1, <1>3, <1>5, <2>2 DEF MadeFits
  <2>4. Creates(t)  BY <1>1, <1>5 DEF Creates
  <2>5. \/ call = "live" /\ began /\ keys /\ \E v \in Callers : present[v] # "none"
        \/ call = "meeting" /\ details
      BY <1>1, <2>2
  <2>6. (~began' => \A v \in Callers : lastEvent'[v] # "joined") /\ (began' => began)
      BY <1>1 DEF MadeInv
  <2> QED BY <1>1, <1>3, <2>3, <2>4, <2>5, <2>6, MadeStays
<1>7. RowInv'
  <2>1. ASSUME NEW v \in Callers \ met, About(t, v), RowFits(v) PROVE RowFits(v)'
    <3>1. task[t].u = v /\ task[t].op = "call" /\ present[v] = "in"
        BY <1>1, <1>5, <2>1 DEF About, RowFits, At
    <3> QED BY <1>1, <1>3, <1>5, <2>1, <3>1, RowHere DEF About
  <2>2. ASSUME NEW v, About(t, v)' PROVE About(t, v)
    <3>1. r.at = "tell" /\ task[t].op = "call" /\ task[t].u = v  BY <1>1, <1>3, <1>5, <2>2 DEF About
    <3> QED BY <1>5, <3>1 DEF About
  <2> QED BY <1>1, <1>3, <2>1, <2>2, RowStays
<1>8. ControlInv'  BY <1>1, <1>3, ControlStays
<1> QED BY <1>4, <1>6, <1>7, <1>8

LEMMA AddParticipantKeeps ==
    ASSUME CallsInv, NEW t \in Tasks, AddParticipant(t)
    PROVE  CallsInv'
<1> USE DEF CallsInv
<1>1. /\ At(t, "add") /\ task[t] \in [op : {"call", "join"}, u : Callers, at : {"add"}]
      /\ present' = [present EXCEPT ![task[t].u] = "in"]
      /\ UNCHANGED <<failures, keys, call, began, details, announced, lastEvent, met, live, crowded>>
    BY RoomPlaces DEF AddParticipant, roomVars
<1>2. PICK p, r : /\ p = IF task[t].op = "join" THEN "start" ELSE IF keys THEN "announce" ELSE "over"
                  /\ r = IF p = "over" THEN [op |-> task[t].op, at |-> "over"] ELSE [task[t] EXCEPT !.at = p]
    OBVIOUS
<1>3. /\ TaskMoves(t, r) /\ RoomCall(r) /\ r.op = task[t].op /\ r.at = p
      /\ p # "over" => r.u = task[t].u
      /\ task[t].op = "join" => p = "start"
      /\ task[t].op = "call" => p \in {"announce", "over"} /\ (p = "over" <=> ~keys)
  <2>1. CASE task[t].op = "join" \/ keys
      BY <1>1, <1>2, <2>1, TaskGoes DEF AddParticipant, CallsTyped, RoomCall
  <2>2. CASE ~(task[t].op = "join" \/ keys)
      BY <1>1, <1>2, <2>2, TaskEnds DEF AddParticipant, CallsTyped, RoomCall
  <2> QED BY <2>1, <2>2
<1>4. present' \in [Callers -> {"none", "in", "out"}] /\ present'[task[t].u] = "in"
      /\ \A v \in Callers : v # task[t].u => present'[v] = present[v]
    BY <1>1 DEF CallsTyped, CallTypeOK
<1>5. CallsTyped'
  <2>1. CallTypeOK' /\ failures' \in Nat  BY <1>1, <1>4 DEF CallsTyped, CallTypeOK
  <2> QED BY <1>3, <2>1, CallsTypes
<1>6. /\ (\A x : At(t, x)' <=> p = x) /\ task'[t] = r
      /\ \A o : Under(t, o)' <=> p # "over" /\ task[t].op = o
      /\ \A o : Under(t, o) <=> task[t].op = o
    BY <1>1, <1>3, TasksAfter DEF Under
<1>7. MadeFits(t)  BY DEF MadeInv
<1>8. MadeInv'
  <2>1. task[t].op = "call" => call = "live" /\ began  BY <1>1, <1>6, <1>7 DEF MadeFits, At
  <2>2. task[t].op = "join" => announced  BY <1>6, <1>7 DEF MadeFits
  <2>3. MadeFits(t)'  BY <1>1, <1>3, <1>4, <1>6, <2>1, <2>2 DEF MadeFits
  <2>4. Creates(t)' => Creates(t)  BY <1>6 DEF Creates
  <2>5. \A v \in Callers : present[v] # "none" => present'[v] # "none"  BY <1>4
  <2>6. (~began' => \A v \in Callers : lastEvent'[v] # "joined") /\ (announced' => announced) /\ (began' => began)
      BY <1>1 DEF MadeInv
  <2> QED BY <1>1, <1>3, <2>3, <2>4, <2>5, <2>6, MadeStays
<1>9. RowInv'
  <2>1. ASSUME keys \/ call # "live", NEW v \in Callers \ met, About(t, v), RowFits(v) PROVE RowFits(v)'
    <3>1. task[t].u = v /\ p # "over"  BY <1>1, <1>3, <1>6, <1>7, <2>1 DEF About, MadeFits, At
    <3>2. present'[v] = "in" /\ About(t, v)' /\ r.at \in {"start", "announce"}
        BY <1>1, <1>3, <1>4, <1>6, <3>1 DEF About
    <3> QED BY <1>3, <2>1, <3>2, RowHere
  <2>2. ASSUME NEW v \in Callers, ~About(t, v) PROVE ~About(t, v)' /\ present'[v] = present[v]
    <3>1. task[t].u # v  BY <1>1, <1>6, <2>2 DEF About
    <3> QED BY <1>3, <1>4, <1>6, <3>1 DEF About
  <2> QED BY <1>1, <1>3, <2>1, <2>2, RowStays
<1>10. ControlInv'  BY <1>1, <1>3, ControlStays
<1> QED BY <1>5, <1>8, <1>9, <1>10

LEMMA MarkStartedKeeps ==
    ASSUME CallsInv, NEW t \in Tasks, MarkStarted(t)
    PROVE  CallsInv'
<1> USE DEF CallsInv
<1>1. /\ At(t, "start") /\ task[t] \in [op : {"join"}, u : Callers, at : {"start"}] /\ began' = TRUE
      /\ UNCHANGED <<failures, keys, call, details, announced, present, lastEvent, met, live, crowded>>
    BY RoomPlaces DEF MarkStarted
<1>2. PICK r : r = [task[t] EXCEPT !.at = "tell"]  OBVIOUS
<1>3. TaskMoves(t, r) /\ RoomCall(r) /\ r.at = "tell" /\ r.op = "join" /\ r.u = task[t].u
    BY <1>1, <1>2, TaskGoes DEF MarkStarted, CallsTyped, RoomCall
<1>4. CallsTyped'
  <2>1. CallTypeOK' /\ failures' \in Nat  BY <1>1 DEF CallsTyped, CallTypeOK
  <2> QED BY <1>3, <2>1, CallsTypes
<1>5. (\A x : At(t, x)' <=> x = "tell") /\ (\A o : Under(t, o)' <=> o = "join") /\ (\A o : Under(t, o) <=> o = "join")
    BY <1>1, <1>3, TasksAfter DEF Under
<1>6. MadeInv'
  <2>1. announced /\ call # "none"  BY <1>5 DEF MadeInv, MadeFits
  <2>2. MadeFits(t)'  BY <1>1, <1>5, <2>1 DEF MadeFits
  <2>3. ~Creates(t)'  BY <1>5 DEF Creates
  <2> QED BY <1>1, <1>3, <2>1, <2>2, <2>3, MadeStays
<1>7. RowInv'
  <2>1. ASSUME NEW v \in Callers \ met, About(t, v), RowFits(v) PROVE RowFits(v)'
    <3>1. present[v] = "in"  BY <1>1, <2>1 DEF RowFits, At
    <3> QED BY <1>1, <1>3, <1>5, <2>1, <3>1, RowHere, TasksAfter DEF About
  <2>2. \A v : ~About(t, v) => ~About(t, v)'  BY <1>3, <1>5, TasksAfter DEF About
  <2> QED BY <1>1, <1>3, <2>1, <2>2, RowStays
<1>8. ControlInv'  BY <1>1, <1>3, ControlStays
<1> QED BY <1>4, <1>6, <1>7, <1>8

LEMMA MarkLeftKeeps ==
    ASSUME CallsInv, NEW t \in Tasks, MarkLeft(t)
    PROVE  CallsInv'
<1> USE DEF CallsInv
<1>1. /\ At(t, "out") /\ task[t] \in [op : {"leave"}, u : Callers, at : {"out"}]
      /\ present' = [present EXCEPT ![task[t].u] = RowLeft(task[t].u)]
      /\ UNCHANGED <<failures, keys, call, began, details, announced, lastEvent, met, live, crowded>>
    BY RoomPlaces DEF MarkLeft, roomVars
<1>2. PICK r : r = [task[t] EXCEPT !.at = "tell"]  OBVIOUS
<1>3. TaskMoves(t, r) /\ RoomCall(r) /\ r.at = "tell" /\ r.op = "leave" /\ r.u = task[t].u
    BY <1>1, <1>2, TaskGoes DEF MarkLeft, CallsTyped, RoomCall
<1>4. /\ present' \in [Callers -> {"none", "in", "out"}] /\ present'[task[t].u] # "in"
      /\ \A v \in Callers : v # task[t].u => present'[v] = present[v]
      /\ \A v \in Callers : present[v] # "none" => present'[v] # "none"
    BY <1>1 DEF CallsTyped, CallTypeOK, RowLeft
<1>5. CallsTyped'
  <2>1. CallTypeOK' /\ failures' \in Nat  BY <1>1, <1>4 DEF CallsTyped, CallTypeOK
  <2> QED BY <1>3, <2>1, CallsTypes
<1>6. (\A x : At(t, x)' <=> x = "tell") /\ (\A o : Under(t, o)' <=> o = "leave") /\ (\A o : Under(t, o) <=> o = "leave")
    BY <1>1, <1>3, TasksAfter DEF Under
<1>7. MadeInv'
  <2>1. MadeFits(t)' /\ ~Creates(t)'  BY <1>6 DEF MadeFits, Creates
  <2>2. (~began' => \A v \in Callers : lastEvent'[v] # "joined") /\ (announced' => announced) /\ (began' => began)
      BY <1>1 DEF MadeInv
  <2> QED BY <1>1, <1>3, <1>4, <2>1, <2>2, MadeStays
<1>8. RowInv'
  <2>1. ASSUME NEW v \in Callers, About(t, v), RowFits(v) PROVE RowFits(v)'
    <3>1. task[t].u = v /\ About(t, v)'  BY <1>3, <1>6, <2>1, TasksAfter DEF About
    <3> QED BY <1>3, <1>4, <2>1, <3>1, RowHere
  <2>2. ASSUME NEW v \in Callers, ~About(t, v) PROVE ~About(t, v)' /\ present'[v] = present[v]
    <3>1. task[t].u # v  BY <1>6, <2>2 DEF About
    <3> QED BY <1>3, <1>4, <3>1, TasksAfter DEF About
  <2> QED BY <1>1, <1>3, <2>1, <2>2, RowStays
<1>9. ControlInv'  BY <1>1, <1>3, ControlStays
<1> QED BY <1>5, <1>7, <1>8, <1>9

LEMMA TellParticipantKeeps ==
    ASSUME CallsInv, NEW t \in Tasks, TellParticipant(t)
    PROVE  CallsInv'
<1> USE DEF CallsInv
<1>1. /\ At(t, "tell") /\ task[t] \in [op : {"call", "join", "leave"}, u : Callers, at : {"tell"}]
      /\ lastEvent' = [lastEvent EXCEPT ![task[t].u] = EventOf(task[t].op)]
      /\ UNCHANGED <<failures, keys, call, began, details, announced, present, met, live, crowded>>
    BY RoomPlaces DEF TellParticipant, roomVars
<1>2. PICK r : r = [op |-> task[t].op, at |-> "over"]  OBVIOUS
<1>3. TaskMoves(t, r) /\ RoomCall(r) /\ r.at = "over"
    BY <1>1, <1>2, TaskEnds DEF TellParticipant, CallsTyped, RoomCall
<1>4. /\ lastEvent' \in [Callers -> {"none", "joined", "left"}]
      /\ lastEvent'[task[t].u] = "joined" <=> task[t].op # "leave"
      /\ \A v \in Callers : v # task[t].u => lastEvent'[v] = lastEvent[v]
    BY <1>1 DEF CallsTyped, CallTypeOK, EventOf
<1>5. CallsTyped'
  <2>1. CallTypeOK' /\ failures' \in Nat  BY <1>1, <1>4 DEF CallsTyped, CallTypeOK
  <2> QED BY <1>3, <2>1, CallsTypes
<1>6. (\A x : At(t, x)' <=> x = "over") /\ (\A o : ~Under(t, o)') /\ (\A o : Under(t, o) <=> task[t].op = o)
    BY <1>1, <1>3, TasksAfter DEF Under
<1>7. MadeInv'
  <2>1. MadeFits(t)' /\ ~Creates(t)'  BY <1>6 DEF MadeFits, Creates
  <2>2. task[t].op # "leave" => began  BY <1>1, <1>6 DEF MadeInv, MadeFits, At
  <2>3. ~began => \A v \in Callers : lastEvent[v] # "joined"  BY DEF MadeInv
  <2>4. ~began' => \A v \in Callers : lastEvent'[v] # "joined"  BY <1>1, <1>4, <2>2, <2>3
  <2> QED BY <1>1, <1>3, <2>1, <2>4, MadeStays
<1>8. RowInv'
  <2>1. ASSUME NEW v \in Callers, About(t, v), RowFits(v) PROVE RowFits(v)'
    <3>1. task[t].u = v /\ (present[v] = "in" <=> task[t].op # "leave") /\ ~About(t, v)'
        BY <1>1, <1>6, <2>1 DEF RowFits, About, At
    <3>2. Agree(v)'  BY <1>1, <1>4, <3>1 DEF Agree
    <3> QED BY <1>3, <2>1, <3>1, <3>2, RowHere
  <2>2. ASSUME NEW v \in Callers, ~About(t, v) PROVE ~About(t, v)' /\ lastEvent'[v] = lastEvent[v]
    <3>1. task[t].u # v  BY <1>1, <1>6, <2>2 DEF About
    <3> QED BY <1>4, <1>6, <3>1 DEF About
  <2> QED BY <1>1, <1>3, <2>1, <2>2, RowStays
<1>9. ControlInv'  BY <1>1, <1>3, ControlStays
<1> QED BY <1>5, <1>7, <1>8, <1>9

\* A step of a request for control, or one that fails, writes nothing of the call.
LEMMA ControlElse ==
    ASSUME CallsInv, NEW t \in Tasks, NEW r, TaskMoves(t, r), RoomCall(r), r.at \notin {"new", "over", "failed"} => r.op = "control",
           UNCHANGED <<keys, call, began, details, announced, present, lastEvent, met>>,
           failures' \in Nat, failures' = failures \/ failures' # 0, live' \in 0..MaxRequests, crowded' \in BOOLEAN,
           task[t].at = "new" \/ Under(t, "control") \/ failures' # 0
    PROVE  CallsTyped' /\ MadeInv' /\ RowInv'
<1> USE DEF CallsInv
<1>1. CallsTyped'
  <2>1. CallTypeOK'  BY DEF CallsTyped, CallTypeOK
  <2> QED BY <2>1, CallsTypes
<1>2. \A o \in {"call", "meet", "join", "leave"} : ~Under(t, o)'  BY TasksAfter
<1>3. MadeInv'
  <2>1. ~Creates(t)'  BY <1>2 DEF Creates
  <2>2. ~At(t, "row")'
    <3>1. At(t, "row")' => Under(t, "call")' \/ Under(t, "meet")'
        BY <1>1, RoomPlaces DEF At, Under, CallsTyped, RoomCall, New, Failed
    <3> QED BY <1>2, <3>1
  <2>3. MadeFits(t)'  BY <1>2, <2>2 DEF MadeFits
  <2>4. (~began' => \A v \in Callers : lastEvent'[v] # "joined") /\ (announced' => announced) /\ (began' => began)
      BY DEF MadeInv
  <2> QED BY <2>1, <2>3, <2>4, MadeStays
<1>4. RowInv'
  <2>1. CASE failures' # 0  BY <2>1 DEF RowInv
  <2>2. CASE failures' = 0
    <3>1. \A v : ~About(t, v) /\ ~About(t, v)'
      <4>1. task[t].at = "new" \/ Under(t, "control")  BY <2>2
      <4>2. ~Under(t, "call") /\ ~Under(t, "join") /\ ~Under(t, "leave")  BY <4>1 DEF Under
      <4> QED BY <1>2, <4>2 DEF About
    <3> QED BY <2>2, <3>1, RowStays
  <2> QED BY <2>1, <2>2
<1> QED BY <1>1, <1>3, <1>4

LEMMA ReadCurrentKeeps ==
    ASSUME CallsInv, NEW t \in Tasks, ReadCurrent(t)
    PROVE  CallsInv'
<1> USE DEF CallsInv
<1>1. PICK r : r = [op |-> "control", at |-> "create"]  OBVIOUS
<1>2. TaskMoves(t, r) /\ RoomCall(r) /\ task[t].at = "new" /\ r.at = "create" /\ r.op = "control"
    BY <1>1, TaskBegins DEF ReadCurrent, CallsTyped, RoomCall
<1>3. /\ UNCHANGED <<failures, keys, call, began, details, announced, present, lastEvent, met, live>>
      /\ live = 0 /\ crowded' = (crowded \/ \E u \in Tasks : Under(u, "control"))
    BY DEF ReadCurrent, NoneLive, roomVars
<1>4. CallsTyped' /\ MadeInv' /\ RowInv'
  <2>1. failures' \in Nat /\ live' \in 0..MaxRequests /\ crowded' \in BOOLEAN
      BY <1>3 DEF CallsTyped, CallTypeOK
  <2> QED BY <1>2, <1>3, <2>1, ControlElse
<1>5. ControlInv'
  <2>1. ASSUME ~crowded' PROVE \A u \in Tasks : ~At(u, "create")  BY <1>3, <2>1, RoomPlaces
  <2>2. ASSUME ~crowded' PROVE \A u \in Tasks : At(u, "create")' => u = t
      BY <1>2, <2>1, <2>2, TasksAfter
  <2> QED BY <1>3, <2>2 DEF ControlInv
<1> QED BY <1>4, <1>5

LEMMA CreateRequestKeeps ==
    ASSUME CallsInv, NEW t \in Tasks, CreateRequest(t)
    PROVE  CallsInv'
<1> USE DEF CallsInv
<1>1. /\ At(t, "create") /\ task[t] \in [op : {"control"}, at : {"create"}] /\ live < MaxRequests /\ live' = live + 1
      /\ UNCHANGED <<failures, keys, call, began, details, announced, present, lastEvent, met, crowded>>
    BY RoomPlaces DEF CreateRequest, roomVars
<1>2. PICK r : r = [op |-> "control", at |-> "over"]  OBVIOUS
<1>3. TaskMoves(t, r) /\ RoomCall(r) /\ r.at = "over"
    BY <1>1, <1>2, TaskEnds DEF CreateRequest, CallsTyped, RoomCall
<1>4. CallsTyped' /\ MadeInv' /\ RowInv'
  <2>1. failures' \in Nat /\ live' \in 0..MaxRequests /\ crowded' \in BOOLEAN
      BY <1>1, CallsAssumption DEF CallsTyped, CallTypeOK
  <2>2. Under(t, "control")  BY <1>1 DEF Under
  <2> QED BY <1>1, <1>3, <2>1, <2>2, ControlElse
<1>5. ControlInv'
  <2>1. \A u \in Tasks : At(u, "create")' => At(u, "create") /\ u # t  BY <1>3, TasksAfter
  <2> QED BY <1>1, <2>1 DEF ControlInv
<1> QED BY <1>4, <1>5

LEMMA FailCallKeeps ==
    ASSUME CallsInv, NEW t \in Tasks, FailCall(t)
    PROVE  CallsInv'
<1> USE DEF CallsInv
<1>1. /\ TaskMoves(t, Failed) /\ Failed.at = "failed" /\ failures' \in Nat /\ failures' # 0
      /\ UNCHANGED <<keys, call, began, details, announced, present, lastEvent, met, live, crowded>>
    BY TaskFails DEF FailCall, callVars, roomVars, CallsTyped
<1>2. RoomCall(Failed)  BY DEF RoomCall
<1>3. CallsTyped' /\ MadeInv' /\ RowInv'
  <2>1. live' \in 0..MaxRequests /\ crowded' \in BOOLEAN  BY <1>1 DEF CallsTyped, CallTypeOK
  <2> QED BY <1>1, <1>2, <2>1, ControlElse
<1>4. ControlInv'  BY <1>1, ControlStays
<1> QED BY <1>3, <1>4

LEMMA CallsStep ==
    ASSUME CallsInv, CallNext
    PROVE  CallsInv'
<1>1. PICK t \in Tasks : \/ CallRequests(t) \/ ControlRequests(t)
                         \/ InsertCall(t) \/ CreateMeeting(t) \/ Announce(t)
                         \/ AddParticipant(t) \/ MarkStarted(t) \/ MarkLeft(t) \/ TellParticipant(t)
                         \/ CreateRequest(t)
                         \/ FailCall(t)
    BY DEF CallNext
<1>2. ASSUME NEW u \in Callers, CreateCall(t, u) PROVE CallsInv'
  <2>1. RoomCall([op |-> "call", u |-> u, at |-> "row"])  BY DEF RoomCall
  <2> QED BY <1>2, <2>1, ConcernsKeeps DEF CreateCall
<1>3. ASSUME NEW u \in Callers, ScheduleMeeting(t, u) PROVE CallsInv'
  <2>1. RoomCall([op |-> "meet", u |-> u, at |-> "row"])  BY DEF RoomCall
  <2> QED BY <1>3, <2>1, ConcernsKeeps DEF ScheduleMeeting
<1>4. ASSUME NEW u \in Callers, Join(t, u) PROVE CallsInv'
  <2>1. RoomCall([op |-> "join", u |-> u, at |-> "add"])  BY DEF RoomCall
  <2> QED BY <1>4, <2>1, ConcernsKeeps DEF Join
<1>5. ASSUME NEW u \in Callers, Leave(t, u) PROVE CallsInv'
  <2>1. RoomCall([op |-> "leave", u |-> u, at |-> "out"])  BY DEF RoomCall
  <2> QED BY <1>5, <2>1, ConcernsKeeps DEF Leave
<1>6. CallRequests(t) => CallsInv'  BY <1>2, <1>3, <1>4, <1>5 DEF CallRequests
<1>7. ControlRequests(t) => CallsInv'  BY ReadCurrentKeeps DEF ControlRequests
<1> QED BY <1>1, <1>6, <1>7, InsertCallKeeps, CreateMeetingKeeps, AnnounceKeeps, AddParticipantKeeps, MarkStartedKeeps,
           MarkLeftKeeps, TellParticipantKeeps, CreateRequestKeeps, FailCallKeeps

LEMMA CallsRests ==
    ASSUME CallsInv, UNCHANGED <<taskVars, callVars>>
    PROVE  CallsInv'
<1> USE DEF CallsInv
<1>1. UNCHANGED <<task, failures, keys, call, began, details, announced, present, lastEvent, met, live, crowded>>
    BY DEF taskVars, callVars, roomVars
<1>2. CallsTyped'  BY <1>1 DEF CallsTyped, CallTypeOK, RoomCall
<1>3. MadeInv'  BY <1>1 DEF MadeInv, MadeFits, Creates, At, Under
<1>4. RowInv'  BY <1>1 DEF RowInv, RowFits, About, Agree, At, Under
<1>5. ControlInv'  BY <1>1 DEF ControlInv, At
<1> QED BY <1>2, <1>3, <1>4, <1>5

LEMMA CallsStarts ==
    ASSUME TasksInit, CallInit
    PROVE  CallsInv
<1> USE DEF CallsInv
<1>1. \A t \in Tasks : task[t] = New /\ task[t].at = "new"  BY DEF TasksInit, New
<1>2. CallsTyped
  <2>1. CallTypeOK
    <3>1. live \in 0..MaxRequests  BY CallsAssumption DEF CallInit
    <3>2. /\ {keys, began, details, announced} \subseteq BOOLEAN /\ crowded \in BOOLEAN
          /\ call \in {"none", "live", "meeting"} /\ met \in SUBSET Callers
        BY DEF CallInit
    <3>3. present \in [Callers -> {"none", "in", "out"}] /\ lastEvent \in [Callers -> {"none", "joined", "left"}]
        BY DEF CallInit
    <3> QED BY <3>1, <3>2, <3>3 DEF CallTypeOK
  <2>2. (\A t \in Tasks : RoomCall(task[t])) /\ task = [t \in Tasks |-> task[t]] /\ failures \in Nat
      BY <1>1 DEF TasksInit, RoomCall
  <2> QED BY <2>1, <2>2 DEF CallsTyped
<1>3. \A t \in Tasks : (\A p : At(t, p) => p = "new") /\ \A o : ~Under(t, o)  BY <1>1 DEF At, Under
<1>4. MadeInv
  <2>1. \A t \in Tasks : ~Creates(t) /\ MadeFits(t)  BY <1>3 DEF Creates, MadeFits
  <2> QED BY <2>1 DEF MadeInv, CallInit
<1>5. RowInv  BY <1>3 DEF RowInv, RowFits, About, Agree, CallInit
<1>6. ControlInv  BY <1>3 DEF ControlInv, CallInit
<1> QED BY <1>2, <1>4, <1>5, <1>6

LEMMA CallsSays ==
    ASSUME CallsInv
    PROVE  CallsHold
<1>1. ToldOfWhatIs  BY DEF CallsInv, MadeInv, ToldOfWhatIs
<1>2. LastEventIsTheRow
  <2> SUFFICES ASSUME NEW u \in Callers \ met, ~InACall(u), failures = 0, keys \/ announced
               PROVE  Agree(u)
      BY DEF LastEventIsTheRow, Agree
  <2>1. keys \/ call # "live"  BY DEF CallsInv, MadeInv
  <2>2. \A t \in Tasks : ~About(t, u)  BY DEF InACall, About
  <2> QED BY <2>1, <2>2 DEF CallsInv, RowInv, RowFits
<1>3. OneRequestPerCall
    BY CallsAssumption DEF CallsInv, ControlInv, OneRequestPerCall, CallsTyped, CallTypeOK
<1> QED BY <1>1, <1>2, <1>3 DEF CallsHold

----------------------------------------------------------------------------
(* Polls                                                                   *)

PollCall(r) ==
    \/ r = New \/ r = Failed
    \/ r \in [op : {"vote"}, by : Voters, left : (SUBSET Options) \ {{}}, at : {"clear", "add"}]
    \/ r \in [op : {"vote"}, by : Voters, left : SUBSET Options, at : {"tally"}]
    \/ r \in [op : {"vote"}, by : Voters, left : SUBSET Options, tally : SUBSET Ballots, at : {"cache", "publish"}]
    \/ r \in [op : {"results"}, at : {"count"}]
    \/ r \in [op : {"results"}, tally : SUBSET Ballots, at : {"cache"}]
    \/ r \in [op : {"vote", "results"}, at : {"over"}]

PollsTyped ==
    /\ PollTypeOK /\ failures \in Nat
    /\ task = [t \in Tasks |-> task[t]] /\ \A t \in Tasks : PollCall(task[t])

Votes(t, v) == Under(t, "vote") /\ task[t].by = v

\* The only vote of v that is under way has one option left, and has cleared the votes of v before it adds it.
OneFits(v) ==
    /\ \A t, u \in Tasks : Votes(t, v) /\ Votes(u, v) => t = u
    /\ \A t \in Tasks : Votes(t, v) /\ At(t, "add") => Of(v) = {}
    /\ \A b, c \in Of(v) : b = c

ChoiceInv ==
    ~multi => /\ \A t \in Tasks : At(t, "clear") \/ At(t, "add") => \E o \in Options : task[t].left = {o}
              /\ \A v \in Voters \ atOnce : OneFits(v)

\* Alone, a vote that has taken the tally holds the one there is.
TallyInv ==
    ~disorder =>
       /\ Voting = {} => cache \in {votes, NoTally} /\ (votes = {} \/ shown = votes)
       /\ \A t \in Tasks : Voting = {t} =>
             /\ At(t, "cache") => task[t].tally = votes
             /\ At(t, "publish") => task[t].tally = votes /\ cache \in {votes, NoTally}

PollsInv == PollsTyped /\ ChoiceInv /\ TallyInv

LEMMA PollPlaces ==
    ASSUME PollsTyped, NEW t \in Tasks
    PROVE  /\ At(t, "clear") \/ At(t, "add") =>
                 task[t] \in [op : {"vote"}, by : Voters, left : (SUBSET Options) \ {{}}, at : {"clear", "add"}]
           /\ At(t, "tally") => task[t] \in [op : {"vote"}, by : Voters, left : SUBSET Options, at : {"tally"}]
           /\ At(t, "cache") /\ task[t].op = "vote" =>
                 task[t] \in [op : {"vote"}, by : Voters, left : SUBSET Options, tally : SUBSET Ballots, at : {"cache"}]
           /\ At(t, "publish") =>
                 task[t] \in [op : {"vote"}, by : Voters, left : SUBSET Options, tally : SUBSET Ballots, at : {"publish"}]
           /\ At(t, "count") => task[t] \in [op : {"results"}, at : {"count"}]
           /\ At(t, "cache") /\ task[t].op = "results" => task[t] \in [op : {"results"}, tally : SUBSET Ballots, at : {"cache"}]
<1>1. PollCall(task[t])  BY DEF PollsTyped
<1>2. CASE task[t] = New \/ task[t] = Failed  BY <1>2 DEF New, Failed, At
<1>3. CASE task[t] # New /\ task[t] # Failed  BY <1>1, <1>3 DEF PollCall, At
<1> QED BY <1>2, <1>3

LEMMA PollTypes ==
    ASSUME PollsTyped, PollTypeOK', failures' \in Nat, NEW t \in Tasks, NEW r, PollCall(r), TaskMoves(t, r)
    PROVE  PollsTyped'
<1>1. ASSUME NEW u \in Tasks PROVE PollCall(task'[u])
  <2>1. CASE u = t  BY <2>1 DEF TaskMoves
  <2>2. CASE u # t  BY <2>2 DEF TaskMoves, PollsTyped
  <2> QED BY <2>1, <2>2
<1>2. task' = [u \in Tasks |-> task'[u]]  BY DEF TaskMoves
<1> QED BY <1>1, <1>2 DEF PollsTyped

LEMMA VotingAfter ==
    ASSUME NEW t \in Tasks, NEW r, TaskMoves(t, r)
    PROVE  Voting' = IF r.at \notin {"new", "over", "failed"} /\ r.op = "vote" THEN Voting \cup {t} ELSE Voting \ {t}
    BY TasksAfter DEF Voting

\* What a step leaves of a voter's choice: the votes of the voter are as they were, or it is the step of the only
\* vote of that voter.
LEMMA OneStays ==
    ASSUME NEW v, OneFits(v), NEW t \in Tasks, NEW r, TaskMoves(t, r), Votes(t, v)' => Votes(t, v) \/ \A u \in Tasks : ~Votes(u, v),
           \/ Of(v)' = Of(v) /\ (At(t, "add")' /\ Votes(t, v)' => Votes(t, v) /\ At(t, "add"))
           \/ Of(v)' = {}
           \/ Votes(t, v) /\ ~At(t, "add")' /\ \A b, c \in Of(v)' : b = c
    PROVE  OneFits(v)'
<1>1. \A u \in Tasks : u # t => (Votes(u, v)' <=> Votes(u, v)) /\ (At(u, "add")' <=> At(u, "add"))
    BY TasksAfter DEF Votes
<1>2. \A w, u \in Tasks : Votes(w, v)' /\ Votes(u, v)' => w = u  BY <1>1 DEF OneFits
<1>3. \A b, c \in Of(v)' : b = c  BY DEF OneFits
<1>4. ASSUME NEW u \in Tasks, Votes(u, v)', At(u, "add")' PROVE Of(v)' = {}
  <2>1. CASE u = t  BY <1>4, <2>1 DEF OneFits
  <2>2. CASE u # t
    <3>1. Votes(u, v) /\ Of(v) = {} /\ ~Votes(t, v)  BY <1>1, <1>4, <2>2 DEF OneFits
    <3> QED BY <3>1
  <2> QED BY <2>1, <2>2
<1> QED BY <1>2, <1>3, <1>4 DEF OneFits

\* Any step that neither votes nor moves a vote to where it adds one.
LEMMA ChoiceStays ==
    ASSUME PollsTyped, ChoiceInv, NEW t \in Tasks, NEW r, TaskMoves(t, r), r.at \notin {"clear", "add"},
           r.at \in {"new", "over", "failed"} \/ r.op # "vote" \/ (Under(t, "vote") /\ r.by = task[t].by),
           UNCHANGED <<multi, votes, atOnce>>
    PROVE  ChoiceInv'
<1> SUFFICES ASSUME ~multi PROVE ChoiceInv'  BY DEF ChoiceInv
<1>1. \A u \in Tasks : At(u, "clear")' \/ At(u, "add")' => \E o \in Options : task'[u].left = {o}
    BY TasksAfter DEF ChoiceInv
<1>2. ASSUME NEW v \in Voters \ atOnce PROVE OneFits(v)'
  <2>1. OneFits(v)  BY DEF ChoiceInv
  <2>2. Of(v)' = Of(v) /\ ~At(t, "add")'  BY TasksAfter DEF Of
  <2>3. Votes(t, v)' => Votes(t, v)  BY TasksAfter DEF Votes
  <2> QED BY <2>1, <2>2, <2>3, OneStays
<1> QED BY <1>1, <1>2 DEF ChoiceInv

LEMMA ReadPollKeeps ==
    ASSUME PollsInv, NEW t \in Tasks, ReadPoll(t)
    PROVE  PollsInv'
<1> USE DEF PollsInv
<1>1. PICK u \in Voters, C \in (SUBSET Options) \ {{}} :
          /\ multi \/ Cardinality(C) = 1
          /\ Begins(t, [op |-> "vote", by |-> u, left |-> C, at |-> IF multi THEN "add" ELSE "clear"])
          /\ atOnce' = IF \E w \in Voting : task[w].by = u THEN atOnce \cup {u} ELSE atOnce
    BY DEF ReadPoll
<1>2. UNCHANGED <<failures, multi, closed, votes, cache, shown, late, disorder>>  BY DEF ReadPoll
<1>3. PICK r : r = [op |-> "vote", by |-> u, left |-> C, at |-> IF multi THEN "add" ELSE "clear"]
    OBVIOUS
<1>4. /\ TaskMoves(t, r) /\ task[t].at = "new" /\ PollCall(r)
      /\ r.op = "vote" /\ r.by = u /\ r.left = C /\ r.at \in {"clear", "add"} /\ (~multi => r.at = "clear")
    BY <1>1, <1>3, TaskBegins DEF PollsTyped, PollCall
<1>5. PollsTyped'
  <2>1. PollTypeOK' /\ failures' \in Nat  BY <1>1, <1>2 DEF PollsTyped, PollTypeOK
  <2> QED BY <1>4, <2>1, PollTypes
<1>6. Voting' = Voting \cup {t} /\ t \notin Voting  BY <1>4, VotingAfter DEF Voting, Under
<1>7. ChoiceInv'
  <2> SUFFICES ASSUME ~multi PROVE ChoiceInv'  BY <1>2 DEF ChoiceInv
  <2>1. \E o \in Options : C = {o}  BY <1>1, PollsAssumption, FS_Subset, FS_Singleton
  <2>2. \A w \in Tasks : At(w, "clear")' \/ At(w, "add")' => \E o \in Options : task'[w].left = {o}
      BY <1>4, <2>1, TasksAfter DEF ChoiceInv
  <2>3. ASSUME NEW v \in Voters \ atOnce' PROVE OneFits(v)'
    <3>1. OneFits(v) /\ Of(v)' = Of(v)  BY <1>1, <1>2, <2>3 DEF ChoiceInv, Of
    <3>2. ~At(t, "add")'  BY <1>4, TasksAfter
    <3>3. Votes(t, v)' => \A w \in Tasks : ~Votes(w, v)
        BY <1>1, <1>4, <2>3, TasksAfter DEF Votes, Voting
    <3> QED BY <1>4, <3>1, <3>2, <3>3, OneStays
  <2> QED BY <1>2, <2>2, <2>3 DEF ChoiceInv
<1>8. TallyInv'
  <2>1. \A w \in Tasks : Voting' = {w} => w = t  BY <1>6
  <2>2. ~At(t, "cache")' /\ ~At(t, "publish")' /\ Voting' # {}  BY <1>4, <1>6, TasksAfter
  <2> QED BY <2>1, <2>2 DEF TallyInv
<1> QED BY <1>5, <1>7, <1>8

LEMMA ClearUserVotesKeeps ==
    ASSUME PollsInv, NEW t \in Tasks, ClearUserVotes(t)
    PROVE  PollsInv'
<1> USE DEF PollsInv
<1>1. /\ At(t, "clear") /\ task[t] \in [op : {"vote"}, by : Voters, left : (SUBSET Options) \ {{}}, at : {"clear", "add"}]
      /\ votes' = votes \ Of(task[t].by)
      /\ UNCHANGED <<failures, multi, closed, cache, shown, late, atOnce, disorder>>
    BY PollPlaces DEF ClearUserVotes, Cleared
<1>2. PICK r : r = [task[t] EXCEPT !.at = "add"]  OBVIOUS
<1>3. TaskMoves(t, r) /\ PollCall(r) /\ r.at = "add" /\ r.op = "vote" /\ r.by = task[t].by /\ r.left = task[t].left
    BY <1>1, <1>2, TaskGoes DEF ClearUserVotes, PollsTyped, PollCall
<1>4. PollsTyped'
  <2>1. PollTypeOK' /\ failures' \in Nat  BY <1>1 DEF PollsTyped, PollTypeOK
  <2> QED BY <1>3, <2>1, PollTypes
<1>5. t \in Voting /\ Voting' = Voting  BY <1>1, <1>3, VotingAfter DEF Voting, Under, At
<1>6. ChoiceInv'
  <2> SUFFICES ASSUME ~multi PROVE ChoiceInv'  BY <1>1 DEF ChoiceInv
  <2>1. \A w \in Tasks : At(w, "clear")' \/ At(w, "add")' => \E o \in Options : task'[w].left = {o}
      BY <1>1, <1>3, TasksAfter DEF ChoiceInv
  <2>2. ASSUME NEW v \in Voters \ atOnce PROVE OneFits(v)'
    <3>1. OneFits(v)  BY DEF ChoiceInv
    <3>2. Votes(t, v)' => Votes(t, v)  BY <1>3, <1>5, TasksAfter DEF Votes, Voting
    <3>3. IF task[t].by = v THEN Of(v)' = {} ELSE Of(v)' = Of(v) /\ ~Votes(t, v)'
        BY <1>1, <1>3, TasksAfter DEF Of, Votes
    <3> QED BY <1>3, <3>1, <3>2, <3>3, OneStays
  <2> QED BY <1>1, <2>1, <2>2 DEF ChoiceInv
<1>7. TallyInv'
  <2>1. ~At(t, "cache")' /\ ~At(t, "publish")'  BY <1>3, TasksAfter
  <2> QED BY <1>5, <2>1 DEF TallyInv
<1> QED BY <1>4, <1>6, <1>7

LEMMA AddVoteKeeps ==
    ASSUME PollsInv, NEW t \in Tasks, AddVote(t)
    PROVE  PollsInv'
<1> USE DEF PollsInv
<1>1. /\ At(t, "add") /\ task[t] \in [op : {"vote"}, by : Voters, left : (SUBSET Options) \ {{}}, at : {"clear", "add"}]
      /\ UNCHANGED <<failures, multi, closed, cache, shown, late, atOnce, disorder>>
    BY PollPlaces DEF AddVote
<1>2. PICK o \in task[t].left :
          /\ votes' = votes \cup {<<task[t].by, o>>}
          /\ task' = [task EXCEPT ![t].left = @ \ {o}, ![t].at = IF task[t].left = {o} THEN "tally" ELSE "add"]
    BY DEF AddVote
<1>3. PICK r : r = [task[t] EXCEPT !.left = task[t].left \ {o}, !.at = IF task[t].left = {o} THEN "tally" ELSE "add"]
    OBVIOUS
<1>4. /\ TaskMoves(t, r) /\ PollCall(r) /\ r.op = "vote" /\ r.by = task[t].by
      /\ r.at \in {"add", "tally"} /\ (task[t].left = {o} <=> r.at = "tally")
  <2>1. task' = [task EXCEPT ![t] = r]  BY <1>2, <1>3
  <2>2. TaskMoves(t, r)  BY <2>1, TaskStep DEF PollsTyped
  <2>3. task[t].left \ {o} \in SUBSET Options /\ (task[t].left # {o} => task[t].left \ {o} # {})
      BY <1>1
  <2> QED BY <1>1, <1>3, <2>2, <2>3 DEF PollCall
<1>5. PollsTyped'
  <2>1. PollTypeOK' /\ failures' \in Nat
    <3>1. <<task[t].by, o>> \in Ballots  BY <1>1, <1>2 DEF Ballots
    <3>2. votes' \in SUBSET Ballots  BY <1>2, <3>1 DEF PollsTyped, PollTypeOK
    <3> QED BY <1>1, <3>2 DEF PollsTyped, PollTypeOK
  <2> QED BY <1>4, <2>1, PollTypes
<1>6. t \in Voting /\ Voting' = Voting  BY <1>1, <1>4, VotingAfter DEF Voting, Under, At
<1>7. ChoiceInv'
  <2> SUFFICES ASSUME ~multi PROVE ChoiceInv'  BY <1>1 DEF ChoiceInv
  <2>1. task[t].left = {o} /\ r.at = "tally"  BY <1>1, <1>4 DEF ChoiceInv
  <2>2. \A w \in Tasks : At(w, "clear")' \/ At(w, "add")' => \E p \in Options : task'[w].left = {p}
      BY <1>4, <2>1, TasksAfter DEF ChoiceInv
  <2>3. ASSUME NEW v \in Voters \ atOnce PROVE OneFits(v)'
    <3>1. OneFits(v)  BY DEF ChoiceInv
    <3>2. (Votes(t, v)' => Votes(t, v)) /\ ~At(t, "add")' /\ (Votes(t, v) <=> task[t].by = v)
        BY <1>4, <1>6, <2>1, TasksAfter DEF Votes, Voting
    <3>3. CASE task[t].by = v
      <4>1. Of(v) = {}  BY <1>1, <3>1, <3>2, <3>3 DEF OneFits
      <4>2. Of(v)' = {<<v, o>>}  BY <1>2, <3>3, <4>1 DEF Of
      <4> QED BY <1>4, <3>1, <3>2, <3>3, <4>2, OneStays
    <3>4. CASE task[t].by # v
      <4>1. Of(v)' = Of(v)  BY <1>2, <3>4 DEF Of
      <4> QED BY <1>4, <3>1, <3>2, <4>1, OneStays
    <3> QED BY <3>3, <3>4
  <2> QED BY <1>1, <2>2, <2>3 DEF ChoiceInv
<1>8. TallyInv'
  <2>1. ~At(t, "cache")' /\ ~At(t, "publish")'  BY <1>4, TasksAfter
  <2> QED BY <1>6, <2>1 DEF TallyInv
<1> QED BY <1>5, <1>7, <1>8

LEMMA TallyKeeps ==
    ASSUME PollsInv, NEW t \in Tasks, Tally(t)
    PROVE  PollsInv'
<1> USE DEF PollsInv
<1>1. /\ At(t, "tally") /\ task[t] \in [op : {"vote"}, by : Voters, left : SUBSET Options, at : {"tally"}]
      /\ disorder' = (disorder \/ Others(t) # {})
      /\ UNCHANGED <<failures, multi, closed, votes, cache, shown, late, atOnce>>
    BY PollPlaces DEF Tally
<1>2. PICK r : r = With(task[t], "tally", votes, "cache")  OBVIOUS
<1>3. votes \in SUBSET Ballots  BY DEF PollsTyped, PollTypeOK
<1>4. /\ r \in [op : {"vote"}, by : Voters, left : SUBSET Options, tally : SUBSET Ballots, at : {"cache"}]
      /\ r.by = task[t].by /\ r.tally = votes
    BY <1>1, <1>2, <1>3 DEF With
<1>5. TaskMoves(t, r) /\ PollCall(r) /\ r.at = "cache" /\ r.op = "vote"
    BY <1>2, <1>4, TaskGoesWith DEF Tally, PollsTyped, PollCall
<1>6. PollsTyped'
  <2>1. PollTypeOK' /\ failures' \in Nat  BY <1>1 DEF PollsTyped, PollTypeOK
  <2> QED BY <1>5, <2>1, PollTypes
<1>7. t \in Voting /\ Voting' = Voting /\ Under(t, "vote")
    BY <1>1, <1>5, VotingAfter DEF Voting, Under, At
<1>8. ChoiceInv'  BY <1>1, <1>4, <1>5, <1>7, ChoiceStays
<1>9. TallyInv'
  <2>1. \A w \in Tasks : Voting' = {w} => w = t  BY <1>7
  <2>2. ~At(t, "publish")' /\ task'[t].tally = votes'  BY <1>1, <1>4, <1>5, TasksAfter
  <2> QED BY <1>7, <2>1, <2>2 DEF TallyInv
<1> QED BY <1>6, <1>8, <1>9

LEMMA SetCacheKeeps ==
    ASSUME PollsInv, NEW t \in Tasks, SetCache(t)
    PROVE  PollsInv'
<1> USE DEF PollsInv
<1>1. /\ At(t, "cache") /\ cache' = task[t].tally
      /\ task[t] \in [op : {"vote"}, by : Voters, left : SUBSET Options, tally : SUBSET Ballots, at : {"cache"}]
      /\ disorder' = (disorder \/ Others(t) # {})
      /\ UNCHANGED <<failures, multi, closed, votes, shown, late, atOnce>>
    BY PollPlaces DEF SetCache, Overwrite
<1>2. PICK r : r = [task[t] EXCEPT !.at = "publish"]  OBVIOUS
<1>3. TaskMoves(t, r) /\ PollCall(r) /\ r.at = "publish" /\ r.op = "vote" /\ r.by = task[t].by /\ r.tally = task[t].tally
    BY <1>1, <1>2, TaskGoes DEF SetCache, PollsTyped, PollCall
<1>4. PollsTyped'
  <2>1. PollTypeOK' /\ failures' \in Nat  BY <1>1 DEF PollsTyped, PollTypeOK
  <2> QED BY <1>3, <2>1, PollTypes
<1>5. t \in Voting /\ Voting' = Voting /\ Under(t, "vote")
    BY <1>1, <1>3, VotingAfter DEF Voting, Under, At
<1>6. ChoiceInv'  BY <1>1, <1>3, <1>5, ChoiceStays
<1>7. TallyInv'
  <2>1. \A w \in Tasks : Voting' = {w} => w = t  BY <1>5
  <2>2. task'[t].tally = task[t].tally /\ ~At(t, "cache")'  BY <1>3, TasksAfter
  <2>3. ~disorder' /\ Voting = {t} => task[t].tally = votes  BY <1>1 DEF TallyInv
  <2> QED BY <1>1, <1>5, <2>1, <2>2, <2>3 DEF TallyInv
<1> QED BY <1>4, <1>6, <1>7

LEMMA PublishKeeps ==
    ASSUME PollsInv, NEW t \in Tasks, Publish(t)
    PROVE  PollsInv'
<1> USE DEF PollsInv
<1>1. /\ At(t, "publish") /\ shown' = task[t].tally /\ disorder' = (disorder \/ Voting # {t})
      /\ task[t] \in [op : {"vote"}, by : Voters, left : SUBSET Options, tally : SUBSET Ballots, at : {"publish"}]
      /\ UNCHANGED <<failures, multi, closed, votes, cache, late, atOnce>>
    BY PollPlaces DEF Publish
<1>2. PICK r : r = [op |-> task[t].op, at |-> "over"]  OBVIOUS
<1>3. TaskMoves(t, r) /\ PollCall(r) /\ r.at = "over"
    BY <1>1, <1>2, TaskEnds DEF Publish, PollsTyped, PollCall
<1>4. PollsTyped'
  <2>1. PollTypeOK' /\ failures' \in Nat  BY <1>1 DEF PollsTyped, PollTypeOK
  <2> QED BY <1>3, <2>1, PollTypes
<1>5. Voting' = Voting \ {t}  BY <1>3, VotingAfter
<1>6. ChoiceInv'  BY <1>1, <1>3, ChoiceStays
<1>7. TallyInv'
  <2> SUFFICES ASSUME ~disorder' PROVE TallyInv'  BY DEF TallyInv
  <2>1. ~disorder /\ Voting = {t}  BY <1>1
  <2>2. task[t].tally = votes /\ cache \in {votes, NoTally}  BY <1>1, <2>1 DEF TallyInv
  <2> QED BY <1>1, <1>5, <2>1, <2>2 DEF TallyInv
<1> QED BY <1>4, <1>6, <1>7

\* A step of getResults writes the cache, if at all, with the tally of the votes.
LEMMA ResultsKeep ==
    ASSUME PollsInv, NEW t \in Tasks, NEW r, TaskMoves(t, r), PollCall(r), ~Under(t, "vote"),
           r.at \notin {"clear", "add"}, r.at \in {"new", "over", "failed"} \/ r.op # "vote",
           UNCHANGED <<failures, multi, closed, votes, shown, late, atOnce>>, disorder' \in BOOLEAN, disorder => disorder',
           cache' \in (SUBSET Ballots) \cup {NoTally}, ~disorder' => cache' = cache \/ (Voting = {} /\ cache' = votes)
    PROVE  PollsInv'
<1> USE DEF PollsInv
<1>1. PollsTyped'
  <2>1. PollTypeOK' /\ failures' \in Nat  BY DEF PollsTyped, PollTypeOK
  <2> QED BY <2>1, PollTypes
<1>2. Voting' = Voting /\ t \notin Voting  BY VotingAfter DEF Voting
<1>3. ChoiceInv'  BY ChoiceStays
<1>4. TallyInv'
  <2> SUFFICES ASSUME ~disorder' PROVE TallyInv'  BY DEF TallyInv
  <2>1. \A w \in Tasks : Voting = {w} => w # t /\ cache' = cache /\ (At(w, "cache")' <=> At(w, "cache"))
                                         /\ (At(w, "publish")' <=> At(w, "publish")) /\ task'[w] = task[w]
      BY <1>2, TasksAfter
  <2> QED BY <1>2, <2>1 DEF TallyInv
<1> QED BY <1>1, <1>3, <1>4

LEMMA GetResultsKeeps ==
    ASSUME PollsInv, NEW t \in Tasks, GetResults(t)
    PROVE  PollsInv'
<1> USE DEF PollsInv
<1>1. PICK r : r = [op |-> "results", at |-> IF cache = NoTally THEN "count" ELSE "over"]  OBVIOUS
<1>2. TaskMoves(t, r) /\ task[t].at = "new" /\ PollCall(r) /\ r.at \in {"count", "over"} /\ r.op = "results"
    BY <1>1, TaskBegins DEF GetResults, PollsTyped, PollCall
<1>3. UNCHANGED <<failures, multi, closed, votes, cache, shown, late, atOnce, disorder>> /\ ~Under(t, "vote")
    BY <1>2 DEF GetResults, pollVars, Under
<1>4. disorder' \in BOOLEAN /\ cache' \in (SUBSET Ballots) \cup {NoTally}
    BY <1>3 DEF PollsTyped, PollTypeOK
<1> QED BY <1>2, <1>3, <1>4, ResultsKeep

LEMMA CountResultsKeeps ==
    ASSUME PollsInv, NEW t \in Tasks, CountResults(t)
    PROVE  PollsInv'
<1> USE DEF PollsInv
<1>1. At(t, "count") /\ task[t] \in [op : {"results"}, at : {"count"}] /\ votes \in SUBSET Ballots
    BY PollPlaces DEF CountResults, PollsTyped, PollTypeOK
<1>2. PICK r : r = With(task[t], "tally", votes, "cache")  OBVIOUS
<1>3. r \in [op : {"results"}, tally : SUBSET Ballots, at : {"cache"}]  BY <1>1, <1>2 DEF With
<1>4. TaskMoves(t, r) /\ PollCall(r) /\ r.at = "cache" /\ r.op = "results"
    BY <1>2, <1>3, TaskGoesWith DEF CountResults, PollsTyped, PollCall
<1>5. UNCHANGED <<failures, multi, closed, votes, cache, shown, late, atOnce, disorder>> /\ ~Under(t, "vote")
    BY <1>1 DEF CountResults, pollVars, Under
<1>6. disorder' \in BOOLEAN /\ cache' \in (SUBSET Ballots) \cup {NoTally}
    BY <1>5 DEF PollsTyped, PollTypeOK
<1> QED BY <1>4, <1>5, <1>6, ResultsKeep

LEMMA CacheResultsKeeps ==
    ASSUME PollsInv, NEW t \in Tasks, CacheResults(t)
    PROVE  PollsInv'
<1> USE DEF PollsInv
<1>1. /\ task[t] \in [op : {"results"}, tally : SUBSET Ballots, at : {"cache"}] /\ cache' = task[t].tally
      /\ disorder' = (disorder \/ task[t].tally # votes \/ Voting # {})
      /\ UNCHANGED <<failures, multi, closed, votes, shown, late, atOnce>>
    BY PollPlaces DEF CacheResults
<1>2. PICK r : r = [op |-> task[t].op, at |-> "over"]  OBVIOUS
<1>3. TaskMoves(t, r) /\ PollCall(r) /\ r.at = "over"
    BY <1>1, <1>2, TaskEnds DEF CacheResults, PollsTyped, PollCall
<1>4. ~Under(t, "vote") /\ cache' \in (SUBSET Ballots) \cup {NoTally}  BY <1>1 DEF Under
<1>5. disorder' \in BOOLEAN  BY <1>1 DEF PollsTyped, PollTypeOK
<1> QED BY <1>1, <1>3, <1>4, <1>5, ResultsKeep

LEMMA FailPollKeeps ==
    ASSUME PollsInv, NEW t \in Tasks, FailPoll(t)
    PROVE  PollsInv'
<1> USE DEF PollsInv
<1>1. TaskMoves(t, Failed) /\ Failed.at = "failed" /\ failures' \in Nat
    BY TaskFails DEF FailPoll, PollsTyped
<1>2. UNCHANGED <<multi, closed, votes, cache, shown, late, atOnce>> /\ disorder' = (disorder \/ t \in Voting)
    BY DEF FailPoll
<1>3. PollsTyped'
  <2>1. PollTypeOK'  BY <1>2 DEF PollsTyped, PollTypeOK
  <2>2. PollCall(Failed)  BY DEF PollCall
  <2> QED BY <1>1, <2>1, <2>2, PollTypes
<1>4. Voting' = Voting \ {t}  BY <1>1, VotingAfter
<1>5. ChoiceInv'  BY <1>1, <1>2, ChoiceStays
<1>6. TallyInv'
  <2> SUFFICES ASSUME ~disorder' PROVE TallyInv'  BY DEF TallyInv
  <2>1. ~disorder /\ Voting' = Voting /\ t \notin Voting  BY <1>2, <1>4
  <2>2. \A w \in Tasks : Voting = {w} => (At(w, "cache")' <=> At(w, "cache")) /\ (At(w, "publish")' <=> At(w, "publish"))
                                         /\ task'[w] = task[w]
      BY <1>1, <2>1, TasksAfter
  <2> QED BY <1>2, <2>1, <2>2 DEF TallyInv
<1> QED BY <1>3, <1>5, <1>6

LEMMA PollRest ==
    ASSUME PollsInv, UNCHANGED <<taskVars, multi, votes, shown, atOnce, disorder>>, PollTypeOK', cache' \in {cache, NoTally}
    PROVE  PollsInv'
<1> USE DEF PollsInv
<1>1. UNCHANGED <<task, failures>>  BY DEF taskVars
<1>2. PollsTyped'  BY <1>1 DEF PollsTyped, PollCall
<1>3. ChoiceInv'  BY <1>1 DEF ChoiceInv, OneFits, Votes, Of, At, Under
<1>4. TallyInv'  BY <1>1 DEF TallyInv, Voting, At, Under
<1> QED BY <1>2, <1>3, <1>4

LEMMA PollsStep ==
    ASSUME PollsInv, PollNext
    PROVE  PollsInv'
<1>1. Close => PollsInv'
  <2>1. ASSUME Close PROVE PollTypeOK'
    <3>1. Voting \in SUBSET Tasks  BY DEF Voting
    <3> QED BY <2>1, <3>1 DEF Close, PollsInv, PollsTyped, PollTypeOK
  <2> QED BY <2>1, PollRest DEF Close
<1>2. CacheLapses => PollsInv'
  <2>1. CacheLapses => PollTypeOK'  BY DEF CacheLapses, PollsInv, PollsTyped, PollTypeOK
  <2> QED BY <2>1, PollRest DEF CacheLapses
<1>3. ASSUME NEW t \in Tasks,
             \/ PollRequests(t)
             \/ ClearUserVotes(t) \/ AddVote(t) \/ Tally(t) \/ SetCache(t) \/ Publish(t)
             \/ CountResults(t) \/ CacheResults(t) \/ FailPoll(t)
      PROVE  PollsInv'
    BY <1>3, ReadPollKeeps, ClearUserVotesKeeps, AddVoteKeeps, TallyKeeps, SetCacheKeeps, PublishKeeps, GetResultsKeeps,
       CountResultsKeeps, CacheResultsKeeps, FailPollKeeps DEF PollRequests
<1> QED BY <1>1, <1>2, <1>3 DEF PollNext

LEMMA PollsRest ==
    ASSUME PollsInv, UNCHANGED <<taskVars, pollVars>>
    PROVE  PollsInv'
<1>1. PollTypeOK' /\ cache' \in {cache, NoTally}  BY DEF pollVars, PollsInv, PollsTyped, PollTypeOK
<1>2. UNCHANGED <<taskVars, multi, votes, shown, atOnce, disorder>>  BY DEF pollVars
<1> QED BY <1>1, <1>2, PollRest

LEMMA PollsStart ==
    ASSUME TasksInit, PollInit
    PROVE  PollsInv
<1>1. \A t \in Tasks : task[t] = New /\ task[t].at = "new"  BY DEF TasksInit, New
<1>2. \A t \in Tasks : (\A p : At(t, p) => p = "new") /\ \A o : ~Under(t, o)  BY <1>1 DEF At, Under
<1>3. PollTypeOK  BY DEF PollInit, PollTypeOK
<1>4. PollsTyped  BY <1>1, <1>3 DEF PollsTyped, TasksInit, PollCall
<1>5. ChoiceInv  BY <1>2 DEF ChoiceInv, OneFits, Votes, Of, PollInit
<1>6. TallyInv  BY <1>2 DEF TallyInv, Voting, PollInit
<1> QED BY <1>4, <1>5, <1>6 DEF PollsInv

LEMMA PollsSay ==
    ASSUME PollsInv
    PROVE  PollCounts
<1>1. OneChoiceEach
  <2> SUFFICES ASSUME NEW u \in Voters, ~multi, u \notin atOnce PROVE ~(Cardinality(Of(u)) > 1)
      BY DEF OneChoiceEach
  <2>1. \A b, c \in Of(u) : b = c  BY DEF PollsInv, ChoiceInv, OneFits
  <2>2. Of(u) = {} \/ \E b : Of(u) = {b}  BY <2>1
  <2>3. Cardinality(Of(u)) \in {0, 1}  BY <2>2, FS_EmptySet, FS_Singleton, Zenon
  <2> QED BY <2>3
<1>2. TallyIsCurrent  BY DEF PollsInv, TallyInv, TallyIsCurrent
<1> QED BY <1>1, <1>2 DEF PollCounts

----------------------------------------------------------------------------
(* Receipts                                                                *)

Receipt == [op : {"receipt"}, state : ReceiptStates, upTo : 1..MaxSeq, ts : Nat, at : {"sent"}]

ReceiptsTyped ==
    /\ mark \in [ReceiptStates -> [upTo : Nat, ts : Nat]] /\ clock \in Nat
    /\ task = [t \in Tasks |-> task[t]] /\ \A t \in Tasks : task[t] = New \/ task[t] \in Receipt
    /\ handled \in SUBSET {t \in Tasks : At(t, "sent")}

\* The watermark of one state.
MarkFits(s) ==
    /\ \A t \in Recorded(s) : task[t].upTo <= mark[s].upTo
    /\ IF Recorded(s) = {}
       THEN mark[s].upTo = 0
       ELSE \E t \in Recorded(s) : task[t].upTo = mark[s].upTo /\ (s \notin unordered => task[t].ts = mark[s].ts)

ReceiptsInv == ReceiptsTyped /\ \A s \in ReceiptStates : MarkFits(s)

LEMMA SendReceiptKeeps ==
    ASSUME ReceiptsInv, NEW t \in Tasks, SendReceipt(t)
    PROVE  ReceiptsInv'
<1> USE DEF ReceiptsInv
<1>1. PICK s \in ReceiptStates, n \in 1..MaxSeq :
          Begins(t, [op |-> "receipt", state |-> s, upTo |-> n, ts |-> clock + 1, at |-> "sent"])
    BY DEF SendReceipt
<1>2. PICK r : r = [op |-> "receipt", state |-> s, upTo |-> n, ts |-> clock + 1, at |-> "sent"]
    OBVIOUS
<1>3. TaskMoves(t, r) /\ r \in Receipt /\ task[t].at = "new"
    BY <1>1, <1>2, TaskBegins DEF ReceiptsTyped, Receipt
<1>4. clock' = clock + 1 /\ UNCHANGED <<mark, handled, unordered>>  BY DEF SendReceipt
<1>5. t \notin handled  BY <1>3 DEF ReceiptsTyped, At
<1>6. \A u \in handled : u \in Tasks /\ task'[u] = task[u]
    BY <1>3, <1>5 DEF TaskMoves, ReceiptsTyped
<1>7. ReceiptsTyped'
  <2>1. \A u \in Tasks : task'[u] = New \/ task'[u] \in Receipt
      BY <1>3 DEF TaskMoves, ReceiptsTyped
  <2>2. handled' \in SUBSET {u \in Tasks : At(u, "sent")'}  BY <1>4, <1>6 DEF ReceiptsTyped, At
  <2> QED BY <1>3, <1>4, <2>1, <2>2 DEF ReceiptsTyped, TaskMoves
<1>8. \A q \in ReceiptStates : MarkFits(q)'  BY <1>4, <1>6 DEF MarkFits, Recorded
<1> QED BY <1>7, <1>8

LEMMA RecordKeeps ==
    ASSUME ReceiptsInv, NEW t \in Tasks, Record(t)
    PROVE  ReceiptsInv'
<1> USE DEF ReceiptsInv
<1>1. task[t] \in Receipt /\ At(t, "sent")  BY DEF Record, ReceiptsTyped, At, New
<1>2. PICK r : r = task[t] /\ r \in Receipt  BY <1>1
<1>3. /\ mark' = [mark EXCEPT ![r.state] = [upTo |-> Highest(@.upTo, r.upTo), ts |-> r.ts]]
      /\ unordered' = IF \E u \in handled : task[u].state = r.state /\ task[u].upTo > r.upTo
                      THEN unordered \cup {r.state} ELSE unordered
      /\ handled' = handled \cup {t} /\ UNCHANGED <<task, failures, clock>>
    BY <1>2 DEF Record, taskVars
<1>4. /\ mark'[r.state] = [upTo |-> Highest(mark[r.state].upTo, r.upTo), ts |-> r.ts]
      /\ \A s \in ReceiptStates : s # r.state => mark'[s] = mark[s]
      /\ mark' \in [ReceiptStates -> [upTo : Nat, ts : Nat]]
    BY <1>2, <1>3 DEF ReceiptsTyped, Receipt, Highest
<1>5. ReceiptsTyped'  BY <1>1, <1>3, <1>4 DEF ReceiptsTyped, At
<1>6. ASSUME NEW s \in ReceiptStates PROVE MarkFits(s)'
  <2>1. CASE s # r.state
    <3>1. Recorded(s)' = Recorded(s) /\ (s \in unordered' <=> s \in unordered)
        BY <1>2, <1>3, <2>1 DEF Recorded
    <3> QED BY <1>3, <1>4, <2>1, <3>1 DEF MarkFits
  <2>2. CASE s = r.state
    <3>1. Recorded(s)' = Recorded(s) \cup {t} /\ task[t].upTo = r.upTo /\ task[t].ts = r.ts
        BY <1>2, <1>3, <2>2 DEF Recorded
    <3>2. /\ mark[s].upTo \in Nat /\ r.upTo \in Nat /\ r.upTo > 0
          /\ mark'[s].upTo = Highest(mark[s].upTo, r.upTo) /\ mark'[s].ts = r.ts
        BY <1>2, <1>4, <2>2 DEF ReceiptsTyped, Receipt
    <3>3. \A u \in Recorded(s) : task[u].upTo \in Nat
      <4>1. \A u \in handled : u \in Tasks /\ task[u].at = "sent"  BY DEF ReceiptsTyped, At
      <4>2. \A u \in handled : task[u] \in Receipt  BY <4>1 DEF ReceiptsTyped, New
      <4>3. \A u \in handled : task[u].upTo \in Nat  BY <4>2 DEF Receipt
      <4> QED BY <4>3 DEF Recorded
    <3>4. \A u \in Recorded(s)' : task'[u].upTo <= mark'[s].upTo
        BY <1>3, <3>1, <3>2, <3>3 DEF MarkFits, Highest
    <3>5. CASE r.upTo >= mark[s].upTo  BY <1>3, <3>1, <3>2, <3>4, <3>5 DEF MarkFits, Highest
    <3>6. CASE r.upTo < mark[s].upTo
      <4>1. PICK u \in Recorded(s) : task[u].upTo = mark[s].upTo  BY <3>2, <3>6 DEF MarkFits
      <4>2. s \in unordered' /\ mark'[s].upTo = mark[s].upTo
          BY <1>3, <2>2, <3>2, <3>6, <4>1 DEF Recorded, Highest
      <4> QED BY <1>3, <3>1, <3>4, <4>1, <4>2 DEF MarkFits
    <3> QED BY <3>2, <3>5, <3>6
  <2> QED BY <2>1, <2>2
<1> QED BY <1>5, <1>6

LEMMA ReceiptsStep ==
    ASSUME ReceiptsInv, ReceiptNext
    PROVE  ReceiptsInv'
    BY SendReceiptKeeps, RecordKeeps DEF ReceiptNext

LEMMA ReceiptsRest ==
    ASSUME ReceiptsInv, UNCHANGED <<taskVars, receiptVars>>
    PROVE  ReceiptsInv'
<1>1. UNCHANGED <<task, mark, clock, handled, unordered>>  BY DEF taskVars, receiptVars
<1>2. ReceiptsTyped'  BY <1>1 DEF ReceiptsInv, ReceiptsTyped, At
<1>3. \A s \in ReceiptStates : MarkFits(s)'  BY <1>1 DEF ReceiptsInv, MarkFits, Recorded
<1> QED BY <1>2, <1>3 DEF ReceiptsInv

LEMMA ReceiptsStart ==
    ASSUME TasksInit, ReceiptInit
    PROVE  ReceiptsInv
<1>1. ReceiptsTyped  BY DEF TasksInit, ReceiptInit, ReceiptsTyped
<1>2. \A s \in ReceiptStates : MarkFits(s)  BY DEF ReceiptInit, MarkFits, Recorded
<1> QED BY <1>1, <1>2 DEF ReceiptsInv

LEMMA ReceiptsSay ==
    ASSUME ReceiptsInv
    PROVE  WatermarkIsTheHighest
    BY DEF ReceiptsInv, MarkFits, WatermarkIsTheHighest

----------------------------------------------------------------------------
(* Resends                                                                 *)

ResendRows == [status : {"none", "requested", "fulfilled", "exhausted"}, attempts : Nat]

ResendCall(r) ==
    \/ r = New \/ r = Failed
    \/ r \in [op : {"resend"}, seen : ResendRows, at : {"upsert", "exhaust", "publish", "over"}]
    \/ r \in [op : {"fulfil"}, at : {"status", "sent", "over"}]

ResendTyped ==
    /\ ResendTypeOK /\ failures \in Nat
    /\ task = [t \in Tasks |-> task[t]] /\ \A t \in Tasks : ResendCall(task[t])

ResendInv ==
    /\ ResendTyped
    /\ \A t \in Tasks : At(t, "upsert") => Allowed(task[t].seen.attempts) /\ ~Terminal(task[t].seen.status)
    /\ ResendHolds

\* What a step leaves of the calls.
LEMMA ResendMoves ==
    ASSUME ResendInv, ResendTypeOK', failures' \in Nat, NEW t \in Tasks, NEW r, ResendCall(r), TaskMoves(t, r),
           r.at = "upsert" => Allowed(r.seen.attempts) /\ ~Terminal(r.seen.status), ResendHolds'
    PROVE  ResendInv'
<1> USE DEF ResendInv
<1>1. ASSUME NEW u \in Tasks PROVE ResendCall(task'[u])
  <2>1. CASE u = t  BY <2>1 DEF TaskMoves
  <2>2. CASE u # t  BY <2>2 DEF TaskMoves, ResendTyped
  <2> QED BY <2>1, <2>2
<1>2. ResendTyped'  BY <1>1 DEF TaskMoves, ResendTyped
<1>3. \A u \in Tasks : At(u, "upsert")' => Allowed(task'[u].seen.attempts) /\ ~Terminal(task'[u].seen.status)
    BY TasksAfter
<1> QED BY <1>2, <1>3

LEMMA ResendPlaces ==
    ASSUME ResendTyped, NEW t \in Tasks
    PROVE  /\ At(t, "upsert") \/ At(t, "exhaust") \/ At(t, "publish") =>
                 task[t] \in [op : {"resend"}, seen : ResendRows, at : {"upsert", "exhaust", "publish"}]
           /\ At(t, "status") \/ At(t, "sent") => task[t] \in [op : {"fulfil"}, at : {"status", "sent"}]
<1>1. ResendCall(task[t])  BY DEF ResendTyped
<1>2. CASE task[t] = New \/ task[t] = Failed  BY <1>2 DEF New, Failed, At
<1>3. CASE task[t] # New /\ task[t] # Failed  BY <1>1, <1>3 DEF ResendCall, At
<1> QED BY <1>2, <1>3

LEMMA GetRowKeeps ==
    ASSUME ResendInv, NEW t \in Tasks, GetRow(t)
    PROVE  ResendInv'
<1> USE DEF ResendInv
<1>1. PICK r : r = [op |-> "resend", seen |-> row, at |-> IF Allowed(row.attempts) THEN "upsert" ELSE "exhaust"]
    OBVIOUS
<1>2. row \in ResendRows  BY DEF ResendTyped, ResendTypeOK, ResendRows
<1>3. TaskMoves(t, r) /\ ResendCall(r) /\ r.seen = row /\ task[t].at = "new" /\ (r.at = "upsert" => Allowed(row.attempts))
    BY <1>1, <1>2, TaskBegins DEF GetRow, ResendTyped, ResendCall
<1>4. UNCHANGED <<failures, row, requested, sent, overwritten, reopened>> /\ ~Terminal(row.status)
    BY DEF GetRow, resendVars
<1>5. ResendTypeOK' /\ failures' \in Nat  BY <1>4 DEF ResendTyped, ResendTypeOK
<1>6. ResendHolds'
  <2>1. \A u \in Tasks : At(u, "sent") => At(u, "sent")'  BY <1>3, TasksAfter DEF At
  <2> QED BY <1>4, <2>1 DEF ResendHolds, ResendLimits, FulfilledWasSent
<1> QED BY <1>3, <1>4, <1>5, <1>6, ResendMoves

LEMMA UpsertKeeps ==
    ASSUME ResendInv, NEW t \in Tasks, Upsert(t)
    PROVE  ResendInv'
<1> USE DEF ResendInv
<1>1. /\ At(t, "upsert") /\ task[t] \in [op : {"resend"}, seen : ResendRows, at : {"upsert", "exhaust", "publish"}]
      /\ Allowed(task[t].seen.attempts) /\ ~Terminal(task[t].seen.status)
    BY ResendPlaces DEF Upsert
<1>2. /\ row' = [status |-> "requested", attempts |-> row.attempts + 1]
      /\ overwritten' = (overwritten \/ row # task[t].seen)
      /\ reopened' = (reopened \/ Terminal(row.status))
      /\ UNCHANGED <<failures, requested, sent>>
    BY DEF Upsert
<1>3. PICK r : r = [task[t] EXCEPT !.at = "publish"]  OBVIOUS
<1>4. TaskMoves(t, r) /\ ResendCall(r) /\ r.at = "publish"
    BY <1>1, <1>3, TaskGoes DEF Upsert, ResendTyped, ResendCall
<1>5. ResendTypeOK' /\ failures' \in Nat
  <2>1. row' \in [status : {"none", "requested", "fulfilled", "exhausted"}, attempts : Nat]
      BY <1>2 DEF ResendTyped, ResendTypeOK
  <2>2. overwritten' \in BOOLEAN /\ reopened' \in BOOLEAN
      BY <1>2 DEF ResendTyped, ResendTypeOK, Terminal
  <2> QED BY <1>2, <2>1, <2>2 DEF ResendTyped, ResendTypeOK
<1>6. ResendHolds'
  <2>1. row.attempts \in Nat /\ MaxResendAttempts \in Nat
      BY ReceiptsAssumption DEF ResendTyped, ResendTypeOK
  <2>2. ResendLimits'
    <3>1. ASSUME row = task[t].seen, ~overwritten PROVE ~(row'.attempts > MaxResendAttempts) /\ ~reopened'
      <4>1. row.attempts < MaxResendAttempts /\ ~Terminal(row.status)  BY <1>1, <3>1 DEF Allowed
      <4>2. row'.attempts = row.attempts + 1  BY <1>2
      <4>3. ~reopened  BY <3>1 DEF ResendHolds, ResendLimits
      <4>4. ~(row'.attempts > MaxResendAttempts)  BY <2>1, <4>1, <4>2
      <4> QED BY <1>2, <4>1, <4>3, <4>4
    <3> QED BY <1>2, <3>1 DEF ResendLimits
  <2>3. FulfilledWasSent'  BY <1>2 DEF FulfilledWasSent
  <2> QED BY <2>2, <2>3 DEF ResendHolds
<1> QED BY <1>4, <1>5, <1>6, ResendMoves

LEMMA ExhaustKeeps ==
    ASSUME ResendInv, NEW t \in Tasks, Exhaust(t)
    PROVE  ResendInv'
<1> USE DEF ResendInv
<1>1. task[t] \in [op : {"resend"}, seen : ResendRows, at : {"upsert", "exhaust", "publish"}]
    BY ResendPlaces DEF Exhaust
<1>2. /\ row' = [row EXCEPT !.status = "exhausted"] /\ overwritten' = (overwritten \/ row # task[t].seen)
      /\ UNCHANGED <<failures, requested, sent, reopened>>
    BY DEF Exhaust
<1>3. PICK r : r = [task[t] EXCEPT !.at = "over"]  OBVIOUS
<1>4. TaskMoves(t, r) /\ ResendCall(r) /\ r.at = "over"
    BY <1>1, <1>3, TaskGoes DEF Exhaust, ResendTyped, ResendCall
<1>5. /\ row' \in [status : {"none", "requested", "fulfilled", "exhausted"}, attempts : Nat]
      /\ row'.attempts = row.attempts /\ row'.status = "exhausted"
    BY <1>2 DEF ResendTyped, ResendTypeOK
<1>6. ResendTypeOK' /\ failures' \in Nat
  <2>1. overwritten' \in BOOLEAN  BY <1>2 DEF ResendTyped, ResendTypeOK
  <2> QED BY <1>2, <1>5, <2>1 DEF ResendTyped, ResendTypeOK
<1>7. ResendHolds'  BY <1>2, <1>5 DEF ResendHolds, ResendLimits, FulfilledWasSent
<1> QED BY <1>4, <1>6, <1>7, ResendMoves

LEMMA PublishRequestedKeeps ==
    ASSUME ResendInv, NEW t \in Tasks, PublishRequested(t)
    PROVE  ResendInv'
<1> USE DEF ResendInv
<1>1. At(t, "publish") /\ task[t] \in [op : {"resend"}, seen : ResendRows, at : {"upsert", "exhaust", "publish"}]
    BY ResendPlaces DEF PublishRequested
<1>2. requested' = requested + 1 /\ UNCHANGED <<failures, row, sent, overwritten, reopened>>
    BY DEF PublishRequested
<1>3. PICK r : r = [task[t] EXCEPT !.at = "over"]  OBVIOUS
<1>4. TaskMoves(t, r) /\ ResendCall(r) /\ r.at = "over"
    BY <1>1, <1>3, TaskGoes DEF PublishRequested, ResendTyped, ResendCall
<1>5. ResendTypeOK' /\ failures' \in Nat  BY <1>2 DEF ResendTyped, ResendTypeOK
<1>6. ResendHolds'
  <2>1. \A u \in Tasks : At(u, "sent") => At(u, "sent")'  BY <1>1, <1>4, TasksAfter DEF At
  <2> QED BY <1>2, <2>1 DEF ResendHolds, ResendLimits, FulfilledWasSent
<1> QED BY <1>4, <1>5, <1>6, ResendMoves

LEMMA FulfilKeeps ==
    ASSUME ResendInv, NEW t \in Tasks, ReadRequest(t) \/ SetFulfilled(t) \/ PublishFulfilled(t)
    PROVE  ResendInv'
<1> USE DEF ResendInv
<1>1. CASE ReadRequest(t)
  <2>1. PICK r : r = [op |-> "fulfil", at |-> "status"]  OBVIOUS
  <2>2. TaskMoves(t, r) /\ ResendCall(r) /\ r.at = "status" /\ task[t].at = "new"
      BY <1>1, <2>1, TaskBegins DEF ReadRequest, ResendTyped, ResendCall
  <2>3. UNCHANGED <<failures, row, requested, sent, overwritten, reopened>>
      BY <1>1 DEF ReadRequest, resendVars
  <2>4. ResendTypeOK' /\ failures' \in Nat  BY <2>3 DEF ResendTyped, ResendTypeOK
  <2>5. ResendHolds'
    <3>1. \A u \in Tasks : At(u, "sent") => At(u, "sent")'  BY <2>2, TasksAfter DEF At
    <3> QED BY <2>3, <3>1 DEF ResendHolds, ResendLimits, FulfilledWasSent
  <2> QED BY <2>2, <2>4, <2>5, ResendMoves
<1>2. CASE SetFulfilled(t)
  <2>1. task[t] \in [op : {"fulfil"}, at : {"status", "sent"}]
      BY <1>2, ResendPlaces DEF SetFulfilled
  <2>2. row' = [row EXCEPT !.status = "fulfilled"] /\ UNCHANGED <<failures, requested, sent, overwritten, reopened>>
      BY <1>2 DEF SetFulfilled
  <2>3. PICK r : r = [task[t] EXCEPT !.at = "sent"]  OBVIOUS
  <2>4. TaskMoves(t, r) /\ ResendCall(r) /\ r.at = "sent"
      BY <1>2, <2>1, <2>3, TaskGoes DEF SetFulfilled, ResendTyped, ResendCall
  <2>5. /\ row' \in [status : {"none", "requested", "fulfilled", "exhausted"}, attempts : Nat]
        /\ row'.attempts = row.attempts
      BY <2>2 DEF ResendTyped, ResendTypeOK
  <2>6. ResendTypeOK' /\ failures' \in Nat  BY <2>2, <2>5 DEF ResendTyped, ResendTypeOK
  <2>7. ResendHolds'
    <3>1. At(t, "sent")'  BY <2>4, TasksAfter
    <3> QED BY <2>2, <2>5, <3>1 DEF ResendHolds, ResendLimits, FulfilledWasSent
  <2> QED BY <2>4, <2>6, <2>7, ResendMoves
<1>3. CASE PublishFulfilled(t)
  <2>1. task[t] \in [op : {"fulfil"}, at : {"status", "sent"}]
      BY <1>3, ResendPlaces DEF PublishFulfilled
  <2>2. sent' = TRUE /\ UNCHANGED <<failures, row, requested, overwritten, reopened>>
      BY <1>3 DEF PublishFulfilled
  <2>3. PICK r : r = [task[t] EXCEPT !.at = "over"]  OBVIOUS
  <2>4. TaskMoves(t, r) /\ ResendCall(r) /\ r.at = "over"
      BY <1>3, <2>1, <2>3, TaskGoes DEF PublishFulfilled, ResendTyped, ResendCall
  <2>5. ResendTypeOK' /\ failures' \in Nat  BY <2>2 DEF ResendTyped, ResendTypeOK
  <2>6. ResendHolds'  BY <2>2 DEF ResendHolds, ResendLimits, FulfilledWasSent
  <2> QED BY <2>4, <2>5, <2>6, ResendMoves
<1> QED BY <1>1, <1>2, <1>3

LEMMA ResendStep ==
    ASSUME ResendInv, ResendNext
    PROVE  ResendInv'
<1>1. ASSUME NEW t \in Tasks, Fails(t), UNCHANGED resendVars PROVE ResendInv'
  <2>1. TaskMoves(t, Failed) /\ Failed.at = "failed" /\ failures' \in Nat /\ failures' # 0
      BY <1>1, TaskFails DEF ResendInv, ResendTyped
  <2>2. UNCHANGED <<row, requested, sent, overwritten, reopened>>  BY <1>1 DEF resendVars
  <2>3. ResendTypeOK' /\ ResendCall(Failed)
      BY <2>2 DEF ResendInv, ResendTyped, ResendTypeOK, ResendCall
  <2>4. ResendHolds'  BY <2>1, <2>2 DEF ResendInv, ResendHolds, ResendLimits, FulfilledWasSent
  <2> QED BY <2>1, <2>3, <2>4, ResendMoves
<1> QED BY <1>1, GetRowKeeps, UpsertKeeps, ExhaustKeeps, PublishRequestedKeeps, FulfilKeeps DEF ResendNext, ResendRequests

LEMMA ResendRests ==
    ASSUME ResendInv, UNCHANGED <<taskVars, resendVars>>
    PROVE  ResendInv'
<1>1. UNCHANGED <<task, failures, row, requested, sent, overwritten, reopened>>
    BY DEF taskVars, resendVars
<1>2. ResendTyped'  BY <1>1 DEF ResendInv, ResendTyped, ResendTypeOK, ResendCall
<1>3. ResendHolds'  BY <1>1 DEF ResendInv, ResendHolds, ResendLimits, FulfilledWasSent, At
<1> QED BY <1>1, <1>2, <1>3 DEF ResendInv, At

LEMMA ResendStarts ==
    ASSUME TasksInit, ResendInit
    PROVE  ResendInv
<1>1. ResendTyped  BY DEF TasksInit, ResendInit, ResendTyped, ResendTypeOK, ResendCall
<1>2. \A t \in Tasks : ~At(t, "upsert")  BY DEF TasksInit, New, At
<1>3. ResendHolds  BY ReceiptsAssumption DEF ResendInit, ResendHolds, ResendLimits, FulfilledWasSent
<1> QED BY <1>1, <1>2, <1>3 DEF ResendInv

LEMMA ResendSays ==
    ASSUME ResendInv
    PROVE  ResendHolds
    BY DEF ResendInv

----------------------------------------------------------------------------
(* Answers to pushes                                                       *)

AckCall(r) ==
    \/ r = New \/ r = Failed
    \/ r \in [op : {"answer"}, for : Owners, as : Owners, at : {"member", "emit"}]
    \/ r \in [op : {"answer"}, at : {"over"}]

AcksTyped ==
    /\ AckTypeOK
    /\ task = [t \in Tasks |-> task[t]] /\ \A t \in Tasks : AckCall(task[t])

\* What an answer at work has seen still holds, or what it is excused by has happened.
AnswerFits(t) ==
    /\ Under(t, "answer") /\ task[t].for # task[t].as => handedOver
    /\ At(t, "emit") => task[t].as \in belongs \/ departed

AcksInv ==
    /\ AcksTyped
    /\ \A p \in sending \cup pushed : p.token = endpoint.token /\ p.user # endpoint.user => handedOver
    /\ \A t \in Tasks : AnswerFits(t)
    /\ AnswersAreTheRecipients

LEMMA AckPlaces ==
    ASSUME AcksTyped, NEW t \in Tasks
    PROVE  /\ At(t, "member") \/ At(t, "emit") =>
                 task[t] \in [op : {"answer"}, for : Owners, as : Owners, at : {"member", "emit"}]
           /\ Under(t, "answer") <=> At(t, "member") \/ At(t, "emit")
<1>1. AckCall(task[t])  BY DEF AcksTyped
<1>2. CASE task[t] = New \/ task[t] = Failed  BY <1>2 DEF New, Failed, At, Under
<1>3. CASE task[t] # New /\ task[t] # Failed  BY <1>1, <1>3 DEF AckCall, At, Under
<1> QED BY <1>2, <1>3

\* A step of an answer.
LEMMA AckMoves ==
    ASSUME AcksInv, NEW t \in Tasks, NEW r, TaskMoves(t, r), AckCall(r), UNCHANGED <<endpoint, belongs, sending, pushed, handedOver, departed>>,
           r.at \in {"member", "emit"} => /\ r.for # r.as => handedOver
                                          /\ r.at = "emit" => r.as \in belongs \/ departed,
           reported' \in SUBSET [for : Owners, as : Owners, member : BOOLEAN], AnswersAreTheRecipients'
    PROVE  AcksInv'
<1> USE DEF AcksInv
<1>1. ASSUME NEW u \in Tasks PROVE AckCall(task'[u])
  <2>1. CASE u = t  BY <2>1 DEF TaskMoves
  <2>2. CASE u # t  BY <2>2 DEF TaskMoves, AcksTyped
  <2> QED BY <2>1, <2>2
<1>2. AcksTyped'  BY <1>1 DEF TaskMoves, AcksTyped, AckTypeOK
<1>3. ASSUME NEW u \in Tasks PROVE AnswerFits(u)'
  <2>1. CASE u = t
    <3>1. r.at \notin {"new", "over", "failed"} => r.at \in {"member", "emit"}
        BY DEF AckCall, New, Failed
    <3> QED BY <2>1, <3>1, TasksAfter DEF AnswerFits
  <2>2. CASE u # t  BY <2>2, TasksAfter DEF AnswerFits
  <2> QED BY <2>1, <2>2
<1> QED BY <1>2, <1>3

\* A step beside the answers.
LEMMA AckElse ==
    ASSUME AcksInv, UNCHANGED <<taskVars, reported>>, AckTypeOK', handedOver => handedOver', departed => departed',
           belongs' = belongs \/ departed' \/ \A t \in Tasks : ~Under(t, "answer"),
           \A p \in (sending \cup pushed)' : p.token = endpoint'.token /\ p.user # endpoint'.user => handedOver'
    PROVE  AcksInv'
<1> USE DEF AcksInv
<1>1. task' = task  BY DEF taskVars
<1>2. AcksTyped'  BY <1>1 DEF AcksTyped, AckCall
<1>3. \A t \in Tasks : AnswerFits(t)'  BY <1>1, AckPlaces DEF AnswerFits, At, Under
<1>4. AnswersAreTheRecipients'  BY DEF AnswersAreTheRecipients
<1> QED BY <1>2, <1>3, <1>4

LEMMA DeviceKeeps ==
    ASSUME AcksInv, (\E e \in Endpoints : Register(e)) \/ ReadEndpoint \/ (\E e \in Endpoints : SendPush(e)) \/ \E u \in Owners : Leaves(u)
    PROVE  AcksInv'
<1> USE DEF AcksInv
<1>1. AckTypeOK  BY DEF AcksTyped
<1>2. ASSUME NEW e \in Endpoints, Register(e) PROVE AcksInv'
  <2>1. endpoint' = e /\ UNCHANGED <<taskVars, belongs, sending, pushed, reported, departed>>
        /\ handedOver' = (handedOver \/ \E p \in sending \cup pushed : p.token = e.token /\ p.user # e.user)
      BY <1>2 DEF Register
  <2>2. handedOver' \in BOOLEAN /\ handedOver \in BOOLEAN  BY <1>1, <2>1 DEF AckTypeOK
  <2>3. AckTypeOK'  BY <1>1, <2>1, <2>2 DEF AckTypeOK
  <2>4. \A p \in (sending \cup pushed)' : p.token = endpoint'.token /\ p.user # endpoint'.user => handedOver'
      BY <2>1
  <2> QED BY <2>1, <2>3, <2>4, AckElse
<1>3. ASSUME ReadEndpoint PROVE AcksInv'
  <2>1. /\ endpoint # NoEndpoint /\ sending' = sending \cup {endpoint}
        /\ UNCHANGED <<taskVars, endpoint, belongs, pushed, reported, handedOver, departed>>
      BY <1>3 DEF ReadEndpoint
  <2>2. AckTypeOK'  BY <1>1, <2>1 DEF AckTypeOK
  <2>3. \A p \in (sending \cup pushed)' : p.token = endpoint'.token /\ p.user # endpoint'.user => handedOver'
      BY <2>1
  <2> QED BY <2>1, <2>2, <2>3, AckElse
<1>5. ASSUME NEW e \in Endpoints, SendPush(e) PROVE AcksInv'
  <2>1. /\ e \in sending /\ sending' = sending \ {e} /\ pushed' = pushed \cup {e}
        /\ UNCHANGED <<taskVars, endpoint, belongs, reported, handedOver, departed>>
      BY <1>5 DEF SendPush
  <2>2. AckTypeOK'  BY <1>1, <2>1 DEF AckTypeOK
  <2>3. \A p \in (sending \cup pushed)' : p.token = endpoint'.token /\ p.user # endpoint'.user => handedOver'
      BY <2>1
  <2> QED BY <2>1, <2>2, <2>3, AckElse
<1>4. ASSUME NEW u \in Owners, Leaves(u) PROVE AcksInv'
  <2>1. /\ belongs' = belongs \ {u} /\ departed' = (departed \/ Answering # {})
        /\ UNCHANGED <<taskVars, endpoint, sending, pushed, reported, handedOver>>
      BY <1>4 DEF Leaves
  <2>2. AckTypeOK'  BY <1>1, <2>1 DEF AckTypeOK
  <2>3. departed' \/ \A t \in Tasks : ~Under(t, "answer")  BY <2>1 DEF Answering
  <2> QED BY <2>1, <2>2, <2>3, AckElse
<1> QED BY <1>2, <1>3, <1>4, <1>5

LEMMA AccountForPushTokenKeeps ==
    ASSUME AcksInv, NEW t \in Tasks, AccountForPushToken(t)
    PROVE  AcksInv'
<1> USE DEF AcksInv
<1>1. PICK p \in pushed :
          /\ p.token = endpoint.token
          /\ Begins(t, [op |-> "answer", for |-> p.user, as |-> endpoint.user, at |-> "member"])
    BY DEF AccountForPushToken
<1>2. p \in Endpoints /\ endpoint \in Endpoints
    BY <1>1 DEF AcksTyped, AckTypeOK, Endpoints, NoEndpoint
<1>3. PICK r : r = [op |-> "answer", for |-> p.user, as |-> endpoint.user, at |-> "member"]  OBVIOUS
<1>4. TaskMoves(t, r) /\ AckCall(r) /\ r.at = "member" /\ r.for = p.user /\ r.as = endpoint.user
    BY <1>1, <1>2, <1>3, TaskBegins DEF AcksTyped, AckCall, Endpoints
<1>5. UNCHANGED <<endpoint, belongs, sending, pushed, reported, handedOver, departed>>
    BY DEF AccountForPushToken, ackVars
<1>6. r.for # r.as => handedOver  BY <1>1, <1>4
<1>7. reported' \in SUBSET [for : Owners, as : Owners, member : BOOLEAN] /\ AnswersAreTheRecipients'
    BY <1>5 DEF AcksTyped, AckTypeOK, AnswersAreTheRecipients
<1> QED BY <1>4, <1>5, <1>6, <1>7, AckMoves

LEMMA IsMemberKeeps ==
    ASSUME AcksInv, NEW t \in Tasks, IsMember(t)
    PROVE  AcksInv'
<1> USE DEF AcksInv
<1>1. /\ At(t, "member") /\ Under(t, "answer")
      /\ task[t] \in [op : {"answer"}, for : Owners, as : Owners, at : {"member", "emit"}]
    BY AckPlaces DEF IsMember
<1>2. UNCHANGED <<endpoint, belongs, sending, pushed, reported, handedOver, departed>>
    BY DEF IsMember, ackVars
<1>3. reported' \in SUBSET [for : Owners, as : Owners, member : BOOLEAN] /\ AnswersAreTheRecipients'
    BY <1>2 DEF AcksTyped, AckTypeOK, AnswersAreTheRecipients
<1>4. CASE task[t].as \in belongs
  <2>1. PICK r : r = [task[t] EXCEPT !.at = "emit"]  OBVIOUS
  <2>2. TaskMoves(t, r) /\ AckCall(r) /\ r.at = "emit" /\ r.for = task[t].for /\ r.as = task[t].as
      BY <1>1, <1>4, <2>1, TaskGoes DEF IsMember, AcksTyped, AckCall
  <2>3. r.for # r.as => handedOver  BY <1>1, <2>2 DEF AnswerFits
  <2> QED BY <1>2, <1>3, <1>4, <2>2, <2>3, AckMoves
<1>5. CASE task[t].as \notin belongs
  <2>1. PICK r : r = [op |-> task[t].op, at |-> "over"]  OBVIOUS
  <2>2. TaskMoves(t, r) /\ AckCall(r) /\ r.at = "over"
      BY <1>1, <1>5, <2>1, TaskEnds DEF IsMember, AcksTyped, AckCall
  <2> QED BY <1>2, <1>3, <2>2, AckMoves
<1> QED BY <1>4, <1>5

LEMMA EmitReceiptKeeps ==
    ASSUME AcksInv, NEW t \in Tasks, EmitReceipt(t)
    PROVE  AcksInv'
<1> USE DEF AcksInv
<1>1. /\ At(t, "emit") /\ Under(t, "answer")
      /\ task[t] \in [op : {"answer"}, for : Owners, as : Owners, at : {"member", "emit"}]
    BY AckPlaces DEF EmitReceipt
<1>2. /\ reported' = reported \cup {[for |-> task[t].for, as |-> task[t].as, member |-> task[t].as \in belongs]}
      /\ UNCHANGED <<endpoint, belongs, sending, pushed, handedOver, departed>>
    BY DEF EmitReceipt
<1>3. PICK r : r = [op |-> task[t].op, at |-> "over"]  OBVIOUS
<1>4. TaskMoves(t, r) /\ AckCall(r) /\ r.at = "over"
    BY <1>1, <1>3, TaskEnds DEF EmitReceipt, AcksTyped, AckCall
<1>5. PICK m \in BOOLEAN : m = (task[t].as \in belongs)
  <2>1. (task[t].as \in belongs) = TRUE \/ (task[t].as \in belongs) = FALSE  OBVIOUS
  <2> QED BY <2>1
<1>6. PICK a : a = [for |-> task[t].for, as |-> task[t].as, member |-> m]  OBVIOUS
<1>7. /\ a \in [for : Owners, as : Owners, member : BOOLEAN]
      /\ a.for # a.as => handedOver
      /\ ~a.member => departed
  <2>1. a.for = task[t].for /\ a.as = task[t].as /\ a.member = m  BY <1>6
  <2>2. (task[t].for # task[t].as => handedOver) /\ (~m => departed)  BY <1>1, <1>5 DEF AnswerFits
  <2> QED BY <1>1, <1>6, <2>1, <2>2
<1>8. reported' \in SUBSET [for : Owners, as : Owners, member : BOOLEAN]
    BY <1>2, <1>5, <1>6, <1>7 DEF AcksTyped, AckTypeOK
<1>9. AnswersAreTheRecipients'  BY <1>2, <1>5, <1>6, <1>7 DEF AnswersAreTheRecipients
<1> QED BY <1>2, <1>4, <1>8, <1>9, AckMoves

LEMMA AcksStep ==
    ASSUME AcksInv, AckNext
    PROVE  AcksInv'
<1>1. ASSUME NEW t \in Tasks, Fails(t), UNCHANGED ackVars PROVE AcksInv'
  <2>1. task' = [task EXCEPT ![t] = Failed]  BY <1>1 DEF Fails
  <2>2. TaskMoves(t, Failed) /\ Failed.at = "failed" /\ AckCall(Failed)
      BY <2>1, TaskStep DEF AcksInv, AcksTyped, AckCall, Failed
  <2>3. UNCHANGED <<endpoint, belongs, sending, pushed, reported, handedOver, departed>>
      BY <1>1 DEF ackVars
  <2>4. reported' \in SUBSET [for : Owners, as : Owners, member : BOOLEAN] /\ AnswersAreTheRecipients'
      BY <2>3 DEF AcksInv, AcksTyped, AckTypeOK, AnswersAreTheRecipients
  <2> QED BY <2>2, <2>3, <2>4, AckMoves
<1>2. DeviceRequests => AcksInv'  BY DeviceKeeps, AccountForPushTokenKeeps DEF DeviceRequests
<1> QED BY <1>1, <1>2, DeviceKeeps, IsMemberKeeps, EmitReceiptKeeps DEF AckNext

LEMMA AcksRest ==
    ASSUME AcksInv, UNCHANGED <<taskVars, ackVars>>
    PROVE  AcksInv'
<1>1. UNCHANGED <<taskVars, endpoint, belongs, sending, pushed, reported, handedOver, departed>>
    BY DEF ackVars
<1>2. AckTypeOK'  BY <1>1 DEF AcksInv, AcksTyped, AckTypeOK
<1>3. \A p \in (sending \cup pushed)' : p.token = endpoint'.token /\ p.user # endpoint'.user => handedOver'
    BY <1>1 DEF AcksInv
<1> QED BY <1>1, <1>2, <1>3, AckElse

LEMMA AcksStart ==
    ASSUME TasksInit, AckInit
    PROVE  AcksInv
<1>1. AckTypeOK  BY DEF AckInit, AckTypeOK
<1>2. AcksTyped  BY <1>1 DEF TasksInit, AcksTyped, AckCall
<1>3. \A t \in Tasks : AnswerFits(t)  BY DEF TasksInit, New, AnswerFits, At, Under
<1> QED BY <1>2, <1>3 DEF AcksInv, AckInit, AnswersAreTheRecipients

LEMMA AcksSay ==
    ASSUME AcksInv
    PROVE  AnswersAreTheRecipients
    BY DEF AcksInv

----------------------------------------------------------------------------
(* Campaigns                                                               *)

CampRows == [mode : {"once", "recurring"}, status : {"active", "paused", "canceled", "completed"}, next : BOOLEAN, occurrences : Nat]
Claimed  == UNION {[D -> CampRows] : D \in SUBSET Campaigns}

CampCall(r) ==
    \/ r = New \/ r = Failed
    \/ r \in [op : {"runDue"}, left : SUBSET Campaigns, c : Campaigns, to : SUBSET Recipients, at : {"mail", "record"}, row : Claimed]
    \/ r \in [op : {"runDue"}, at : {"over"}]

CampsTyped ==
    /\ campaigns \in [Campaigns -> CampRows] /\ rounds \in [Campaigns -> Nat]
    /\ stopped \in SUBSET Campaigns /\ asked \in SUBSET Campaigns /\ crossed \in SUBSET Campaigns /\ revived \in SUBSET Campaigns
    /\ failures \in Nat
    /\ task = [t \in Tasks |-> task[t]] /\ \A t \in Tasks : CampCall(task[t])

\* A run is at one of the campaigns that it has claimed, as their rows were.
HasRows(r) == r.c \in r.left /\ \A d \in r.left : r.row[d] \in CampRows

Has(t, c) == Under(t, "runDue") /\ c \in task[t].left

\* A campaign that nobody crossed has one run at most, which goes by the row as it still is, and no request since.
RunFits(c) ==
    /\ \A t, u \in Tasks : Has(t, c) /\ Has(u, c) => t = u
    /\ \A t \in Tasks : Has(t, c) => /\ task[t].row[c].occurrences = campaigns[c].occurrences
                                     /\ c \notin stopped /\ c \notin asked
    /\ campaigns[c].occurrences = rounds[c]
    /\ c \in stopped => campaigns[c].status = "canceled"
    /\ c \in asked => campaigns[c].status = "active" /\ campaigns[c].next

ActiveFits(c) ==
    c \notin revived /\ campaigns[c].status = "active" /\ ~campaigns[c].next => failures > 0 \/ \E t \in Tasks : Has(t, c)

CampFits(c) == (c \notin crossed => RunFits(c)) /\ ActiveFits(c)

CampsInv ==
    /\ CampsTyped
    /\ \A t \in Tasks : Under(t, "runDue") => HasRows(task[t])
    /\ \A c \in Campaigns : CampFits(c)

LEMMA CampPlaces ==
    ASSUME CampsTyped, NEW t \in Tasks
    PROVE  /\ At(t, "mail") \/ At(t, "record") =>
                 task[t] \in [op : {"runDue"}, left : SUBSET Campaigns, c : Campaigns, to : SUBSET Recipients,
                              at : {"mail", "record"}, row : Claimed]
           /\ Under(t, "runDue") <=> At(t, "mail") \/ At(t, "record")
<1>1. CampCall(task[t])  BY DEF CampsTyped
<1>2. CASE task[t] = New \/ task[t] = Failed  BY <1>2 DEF New, Failed, At, Under
<1>3. CASE task[t] # New /\ task[t] # Failed  BY <1>1, <1>3 DEF CampCall, At, Under
<1> QED BY <1>2, <1>3

LEMMA WorkIsHeld ==
    ASSUME NEW c
    PROVE  c \in AtWork <=> \E t \in Tasks : Has(t, c)
    BY DEF AtWork, Has

LEMMA CampCalls ==
    ASSUME CampsInv, NEW t \in Tasks, NEW r, TaskMoves(t, r), CampCall(r), r.at \in {"mail", "record"} => HasRows(r)
    PROVE  /\ task' = [u \in Tasks |-> task'[u]] /\ \A u \in Tasks : CampCall(task'[u])
           /\ \A u \in Tasks : Under(u, "runDue")' => HasRows(task'[u])
<1>1. r.at \notin {"new", "over", "failed"} => r.at \in {"mail", "record"}
    BY DEF CampCall, New, Failed
<1>2. \A u \in Tasks : CampCall(task'[u])  BY DEF TaskMoves, CampsInv, CampsTyped
<1>3. ASSUME NEW u \in Tasks, Under(u, "runDue")' PROVE HasRows(task'[u])
  <2>1. CASE u = t  BY <1>1, <1>3, <2>1, TasksAfter
  <2>2. CASE u # t  BY <1>3, <2>2, TasksAfter DEF CampsInv
  <2> QED BY <2>1, <2>2
<1> QED BY <1>2, <1>3 DEF TaskMoves

\* What a step does not touch.
LEMMA CampElse ==
    ASSUME NEW d, CampFits(d), campaigns'[d] = campaigns[d], rounds'[d] = rounds[d], failures > 0 => failures' > 0,
           d \in stopped' => d \in stopped, d \in asked' => d \in asked, d \in crossed => d \in crossed',
           d \in revived => d \in revived',
           \A t \in Tasks : (Has(t, d)' => Has(t, d)) /\ (Has(t, d) => Has(t, d)' \/ failures' > 0),
           \A t \in Tasks : Has(t, d)' => task'[t].row[d] = task[t].row[d]
    PROVE  CampFits(d)'
    BY DEF CampFits, RunFits, ActiveFits

\* The calls that control a campaign.
LEMMA ControlKeeps ==
    ASSUME CampsInv, NEW c \in Campaigns, Pause(c) \/ Resume(c) \/ Cancel(c) \/ SendNow(c)
    PROVE  CampsInv'
<1> USE DEF CampsInv
<1>1. UNCHANGED <<task, failures, rounds>> /\ crossed' = IF c \in AtWork THEN crossed \cup {c} ELSE crossed
    BY DEF Pause, Resume, Cancel, SendNow, Crossing, taskVars
<1>2. campaigns[c] \in CampRows  BY DEF CampsTyped
<1>3. /\ \/ campaigns' = [campaigns EXCEPT ![c].status = "paused"]
         \/ campaigns' = [campaigns EXCEPT ![c].status = "active"]
         \/ campaigns' = [campaigns EXCEPT ![c].status = "canceled"]
         \/ campaigns' = [campaigns EXCEPT ![c] = Triggered(@)]
      /\ \A d : d # c => /\ d \in stopped' <=> d \in stopped
                         /\ d \in asked' <=> d \in asked
                         /\ d \in revived' <=> d \in revived
      /\ stopped' \in SUBSET Campaigns /\ asked' \in SUBSET Campaigns /\ revived' \in SUBSET Campaigns
    BY DEF Pause, Resume, Cancel, SendNow, SetStatus, CampsTyped
<1>4. /\ campaigns' \in [Campaigns -> CampRows]
      /\ \A d \in Campaigns : d # c => campaigns'[d] = campaigns[d]
      /\ campaigns'[c].occurrences = campaigns[c].occurrences
  <2>1. PICK s \in {"active", "paused", "canceled"}, n \in BOOLEAN : campaigns' = [campaigns EXCEPT ![c] = [@ EXCEPT !.status = s, !.next = n]]
    <3>1. campaigns[c].next \in BOOLEAN /\ campaigns[c] = [campaigns[c] EXCEPT !.next = campaigns[c].next]
        BY <1>2 DEF CampRows
    <3>2. \A s : [campaigns[c] EXCEPT !.status = s] = [campaigns[c] EXCEPT !.status = s, !.next = campaigns[c].next]
        BY <1>2 DEF CampRows
    <3> QED BY <1>3, <3>1, <3>2 DEF Triggered
  <2>2. campaigns' = [campaigns EXCEPT ![c] = [campaigns[c] EXCEPT !.status = s, !.next = n]]
      BY <2>1
  <2>3. PICK new : new = [campaigns[c] EXCEPT !.status = s, !.next = n]  OBVIOUS
  <2>4. new \in CampRows /\ new.occurrences = campaigns[c].occurrences  BY <1>2, <2>3 DEF CampRows
  <2> QED BY <2>2, <2>3, <2>4 DEF CampsTyped
<1>5. CampsTyped'
  <2>1. crossed' \in SUBSET Campaigns  BY <1>1 DEF CampsTyped
  <2> QED BY <1>1, <1>3, <1>4, <2>1 DEF CampsTyped, CampCall
<1>6. \A t \in Tasks : (Has(t, c)' <=> Has(t, c)) /\ (Under(t, "runDue")' <=> Under(t, "runDue")) /\ task'[t] = task[t]
    BY <1>1 DEF Has, Under
<1>7. \A t \in Tasks : Under(t, "runDue")' => HasRows(task'[t])  BY <1>6
<1>8. ASSUME NEW d \in Campaigns, d # c PROVE CampFits(d)'
  <2>1. \A t \in Tasks : (Has(t, d)' <=> Has(t, d)) /\ task'[t] = task[t]  BY <1>1 DEF Has, Under
  <2>2. CampFits(d)  OBVIOUS
  <2> QED BY <1>1, <1>3, <1>4, <1>8, <2>1, <2>2, CampElse
<1>9. CampFits(c)'
  <2>1. ASSUME c \notin crossed' PROVE RunFits(c)'
    <3>1. /\ c \notin crossed /\ RunFits(c)
          /\ \A t \in Tasks : ~Has(t, c)
        BY <1>1, <2>1, WorkIsHeld DEF CampFits
    <3>2. c \in stopped' => campaigns'[c].status = "canceled"
      <4>1. CASE Pause(c) \/ Resume(c)  BY <4>1 DEF Pause, Resume
      <4>2. CASE Cancel(c)  BY <1>2, <4>2 DEF Cancel, SetStatus, CampsTyped
      <4>3. CASE SendNow(c)  BY <3>1, <4>3 DEF SendNow, Triggers, RunFits
      <4> QED BY <4>1, <4>2, <4>3
    <3>3. c \in asked' => campaigns'[c].status = "active" /\ campaigns'[c].next
      <4>1. CASE Pause(c) \/ Cancel(c)  BY <4>1 DEF Pause, Cancel
      <4>2. CASE Resume(c)
        <5>1. campaigns'[c].status = "active" /\ campaigns'[c].next = campaigns[c].next /\ asked' = asked
            BY <1>2, <4>2 DEF Resume, SetStatus, CampsTyped, CampRows
        <5> QED BY <3>1, <5>1 DEF RunFits
      <4>3. CASE SendNow(c)  BY <1>2, <4>3 DEF SendNow, Triggered, CampsTyped, CampRows
      <4> QED BY <4>1, <4>2, <4>3
    <3> QED BY <1>1, <1>4, <1>6, <3>1, <3>2, <3>3 DEF RunFits
  <2>2. ActiveFits(c)'
    <3>1. CASE Pause(c) \/ Cancel(c)
      <4>1. campaigns'[c].status \in {"paused", "canceled"}
          BY <1>2, <3>1 DEF Pause, Cancel, SetStatus, CampsTyped, CampRows
      <4> QED BY <4>1 DEF ActiveFits
    <3>2. CASE Resume(c)
      <4>1. campaigns'[c].next = campaigns[c].next /\ (c \notin revived' => campaigns[c].next)
          BY <1>2, <3>2 DEF Resume, SetStatus, CampsTyped, CampRows
      <4> QED BY <4>1 DEF ActiveFits
    <3>3. CASE SendNow(c)
      <4>1. campaigns'[c].next  BY <1>2, <3>3 DEF SendNow, Triggered, CampsTyped, CampRows
      <4> QED BY <4>1 DEF ActiveFits
    <3> QED BY <3>1, <3>2, <3>3
  <2> QED BY <2>1, <2>2 DEF CampFits
<1> QED BY <1>5, <1>7, <1>8, <1>9

LEMMA ClaimDueKeeps ==
    ASSUME CampsInv, NEW t \in Tasks, ClaimDue(t)
    PROVE  CampsInv'
<1> USE DEF CampsInv
<1>1. PICK D \in (SUBSET Due) \ {{}}, c \in Campaigns :
          /\ c \in D
          /\ Begins(t, [op |-> "runDue", left |-> D, c |-> c, to |-> Recipients, at |-> "mail",
                        row |-> [d \in D |-> campaigns[d]]])
          /\ campaigns' = [d \in Campaigns |-> IF d \in D THEN [campaigns[d] EXCEPT !.next = FALSE] ELSE campaigns[d]]
          /\ asked' = asked \ D
          /\ crossed' = crossed \cup (D \cap AtWork)
    BY DEF ClaimDue
<1>2. UNCHANGED <<failures, rounds, stopped, revived>>  BY DEF ClaimDue
<1>3. D \in SUBSET Campaigns /\ \A d \in D : campaigns[d].status = "active" /\ campaigns[d].next
    BY <1>1 DEF Due
<1>4. PICK asRead : asRead = [d \in D |-> campaigns[d]]  OBVIOUS
<1>5. asRead \in Claimed /\ \A d \in D : asRead[d] = campaigns[d] /\ asRead[d] \in CampRows
  <2>1. asRead \in [D -> CampRows]  BY <1>3, <1>4 DEF CampsTyped
  <2> QED BY <1>3, <1>4, <2>1 DEF Claimed
<1>6. PICK r : r = [op |-> "runDue", left |-> D, c |-> c, to |-> Recipients, at |-> "mail", row |-> asRead]
    OBVIOUS
<1>7. /\ TaskMoves(t, r) /\ task[t].at = "new" /\ r.at = "mail" /\ r.op = "runDue" /\ r.left = D /\ r.row = asRead /\ r.c = c
    BY <1>1, <1>4, <1>6, TaskBegins DEF CampsTyped
<1>8. CampCall(r) /\ HasRows(r)  BY <1>1, <1>3, <1>5, <1>6, <1>7 DEF CampCall, HasRows
<1>9. CampsTyped' /\ \A u \in Tasks : Under(u, "runDue")' => HasRows(task'[u])
  <2>1. campaigns' \in [Campaigns -> CampRows]  BY <1>1 DEF CampsTyped, CampRows
  <2>2. asked' \in SUBSET Campaigns /\ crossed' \in SUBSET Campaigns  BY <1>1, <1>3 DEF CampsTyped
  <2> QED BY <1>2, <1>7, <1>8, <2>1, <2>2, CampCalls DEF CampsTyped
<1>10. \A u \in Tasks, d \in Campaigns : IF u = t THEN ~Has(u, d) /\ (Has(u, d)' <=> d \in D)
                                          ELSE (Has(u, d)' <=> Has(u, d)) /\ task'[u] = task[u]
    BY <1>7, TasksAfter DEF Has, Under
<1>11. ASSUME NEW d \in Campaigns PROVE CampFits(d)'
  <2>1. CampFits(d)  OBVIOUS
  <2>2. CASE d \notin D
    <3>1. campaigns'[d] = campaigns[d]  BY <1>1, <2>2
    <3> QED BY <1>1, <1>2, <1>10, <2>1, <2>2, <3>1, CampElse
  <2>3. CASE d \in D
    <3>1. campaigns'[d].status = "active" /\ campaigns'[d].occurrences = campaigns[d].occurrences
        BY <1>1, <1>3, <2>3 DEF CampsTyped, CampRows
    <3>2. ActiveFits(d)'  BY <1>10, <2>3 DEF ActiveFits
    <3>3. ASSUME d \notin crossed' PROVE RunFits(d)'
      <4>1. d \notin crossed /\ \A u \in Tasks : ~Has(u, d)  BY <1>1, <2>3, <3>3, WorkIsHeld
      <4>2. RunFits(d) /\ d \notin stopped  BY <1>3, <2>1, <2>3, <4>1 DEF CampFits, RunFits
      <4>3. task'[t].row[d].occurrences = campaigns'[d].occurrences
          BY <1>5, <1>7, <2>3, <3>1 DEF TaskMoves
      <4>4. \A u \in Tasks : Has(u, d)' <=> u = t  BY <1>10, <2>3, <4>1
      <4> QED BY <1>1, <1>2, <2>3, <3>1, <4>2, <4>3, <4>4 DEF RunFits
    <3> QED BY <3>2, <3>3 DEF CampFits
  <2> QED BY <2>2, <2>3
<1> QED BY <1>9, <1>11

LEMMA MailKeeps ==
    ASSUME CampsInv, NEW t \in Tasks, Mail(t)
    PROVE  CampsInv'
<1> USE DEF CampsInv
<1>1. /\ At(t, "mail") /\ Under(t, "runDue")
      /\ task[t] \in [op : {"runDue"}, left : SUBSET Campaigns, c : Campaigns, to : SUBSET Recipients,
                      at : {"mail", "record"}, row : Claimed]
    BY CampPlaces DEF Mail
<1>2. PICK x \in task[t].to :
          task' = [task EXCEPT ![t].to = @ \ {x}, ![t].at = IF task[t].to = {x} THEN "record" ELSE "mail"]
    BY DEF Mail
<1>3. UNCHANGED <<failures, campaigns, rounds, stopped, asked, crossed, revived>>
    BY DEF Mail, campVars
<1>4. PICK r : r = [task[t] EXCEPT !.to = task[t].to \ {x}, !.at = IF task[t].to = {x} THEN "record" ELSE "mail"]
    OBVIOUS
<1>5. /\ TaskMoves(t, r) /\ r.at \in {"mail", "record"} /\ r.op = "runDue" /\ r.left = task[t].left /\ r.row = task[t].row
      /\ r.c = task[t].c /\ CampCall(r)
  <2>1. task' = [task EXCEPT ![t] = r]  BY <1>2, <1>4
  <2>2. TaskMoves(t, r)  BY <2>1, TaskStep DEF CampsTyped
  <2> QED BY <1>1, <1>4, <2>2 DEF CampCall
<1>6. CampsTyped' /\ \A u \in Tasks : Under(u, "runDue")' => HasRows(task'[u])
  <2>1. HasRows(r)  BY <1>1, <1>5 DEF HasRows
  <2> QED BY <1>3, <1>5, <2>1, CampCalls DEF CampsTyped
<1>7. \A u \in Tasks, d \in Campaigns : (Has(u, d)' <=> Has(u, d)) /\ (Has(u, d) => task'[u].row = task[u].row)
    BY <1>1, <1>5, TasksAfter DEF Has
<1>8. ASSUME NEW d \in Campaigns PROVE CampFits(d)'
  <2>1. CampFits(d)  OBVIOUS
  <2> QED BY <1>3, <1>7, <2>1, CampElse
<1> QED BY <1>6, <1>8

LEMMA RecordRunKeeps ==
    ASSUME CampsInv, NEW t \in Tasks, RecordRun(t)
    PROVE  CampsInv'
<1> USE DEF CampsInv
<1>1. /\ Under(t, "runDue") /\ HasRows(task[t])
      /\ task[t] \in [op : {"runDue"}, left : SUBSET Campaigns, c : Campaigns, to : SUBSET Recipients,
                      at : {"mail", "record"}, row : Claimed]
    BY CampPlaces DEF RecordRun
<1>2. PICK c \in Campaigns, left \in SUBSET Campaigns, seen \in CampRows :
         c = task[t].c /\ left = task[t].left \ {c} /\ seen = task[t].row[c] /\ c \in task[t].left
    BY <1>1 DEF HasRows
<1>3. /\ campaigns' = [campaigns EXCEPT ![c].occurrences = Counted(seen), ![c].next = ~Completes(seen),
                                        ![c].status = StatusAfter(Completes(seen))]
      /\ rounds' = [rounds EXCEPT ![c] = @ + 1]
      /\ revived' = revived \ {c}
      /\ UNCHANGED <<failures, stopped, asked, crossed>>
      /\ IF left = {}
         THEN Ends(t)
         ELSE \E d \in left : task' = [task EXCEPT ![t].left = left, ![t].c = d, ![t].to = Recipients, ![t].at = "mail"]
    BY <1>2 DEF RecordRun, IsAt
<1>4. PICK n \in BOOLEAN, s \in {"completed", "active"} :
         /\ n = ~Completes(seen) /\ s = StatusAfter(Completes(seen)) /\ (s = "active" => n)
  <2>1. CASE Completes(seen)  BY <2>1 DEF StatusAfter
  <2>2. CASE ~Completes(seen)  BY <2>2 DEF StatusAfter
  <2> QED BY <2>1, <2>2
<1>5. /\ campaigns' \in [Campaigns -> CampRows]
      /\ campaigns'[c].occurrences = seen.occurrences + 1 /\ campaigns'[c].next = n /\ campaigns'[c].status = s
      /\ \A d \in Campaigns : d # c => campaigns'[d] = campaigns[d]
  <2>1. PICK new : new = [campaigns[c] EXCEPT !.occurrences = seen.occurrences + 1, !.next = n, !.status = s]
      OBVIOUS
  <2>2. campaigns' = [campaigns EXCEPT ![c] = new]  BY <1>3, <1>4, <2>1 DEF Counted
  <2>3. campaigns[c] \in CampRows  BY DEF CampsTyped
  <2>4. new \in CampRows /\ new.occurrences = seen.occurrences + 1 /\ new.next = n /\ new.status = s
    <3>1. seen.occurrences + 1 \in Nat  BY <1>2 DEF CampRows
    <3>2. n \in BOOLEAN /\ s \in {"completed", "active"}  OBVIOUS
    <3> QED BY <2>1, <2>3, <3>1, <3>2 DEF CampRows
  <2> QED BY <2>2, <2>4 DEF CampsTyped
<1>6. PICK r : /\ TaskMoves(t, r) /\ CampCall(r)
               /\ IF left = {} THEN r.at = "over"
                  ELSE r.at = "mail" /\ r.op = "runDue" /\ r.left = left /\ r.c \in left /\ r.row = task[t].row
  <2>1. CASE left = {}
    <3>1. PICK r : r = [op |-> task[t].op, at |-> "over"]  OBVIOUS
    <3>2. TaskMoves(t, r) /\ CampCall(r) /\ r.at = "over"
        BY <1>1, <1>3, <2>1, <3>1, TaskEnds DEF CampsTyped, CampCall
    <3> QED BY <2>1, <3>2
  <2>2. CASE left # {}
    <3>1. PICK d \in left : task' = [task EXCEPT ![t].left = left, ![t].c = d, ![t].to = Recipients, ![t].at = "mail"]
        BY <1>3, <2>2
    <3>2. PICK r : r = [task[t] EXCEPT !.left = left, !.c = d, !.to = Recipients, !.at = "mail"]
        OBVIOUS
    <3>3. task' = [task EXCEPT ![t] = r]  BY <3>1, <3>2
    <3>4. TaskMoves(t, r)  BY <3>3, TaskStep DEF CampsTyped
    <3>5. CampCall(r) /\ r.at = "mail" /\ r.op = "runDue" /\ r.left = left /\ r.c \in left /\ r.row = task[t].row
        BY <1>1, <1>2, <3>1, <3>2 DEF CampCall
    <3> QED BY <2>2, <3>4, <3>5
  <2> QED BY <2>1, <2>2
<1>7. r.at \in {"mail", "record"} => HasRows(r)  BY <1>1, <1>2, <1>6 DEF HasRows
<1>8. CampsTyped' /\ \A u \in Tasks : Under(u, "runDue")' => HasRows(task'[u])
  <2>1. rounds' = [rounds EXCEPT ![c] = @ + 1] /\ revived' = revived \ {c}  BY <1>3
  <2>2. rounds' \in [Campaigns -> Nat] /\ revived' \in SUBSET Campaigns  BY <2>1 DEF CampsTyped
  <2> QED BY <1>3, <1>5, <1>6, <1>7, <2>2, CampCalls DEF CampsTyped
<1>9. \A u \in Tasks, d \in Campaigns :
         IF u = t THEN (Has(u, d)' <=> Has(u, d) /\ d # c) /\ (Has(u, d)' => task'[u].row = task[u].row)
         ELSE (Has(u, d)' <=> Has(u, d)) /\ task'[u] = task[u]
  <2>1. ASSUME NEW u \in Tasks, NEW d \in Campaigns, u # t PROVE (Has(u, d)' <=> Has(u, d)) /\ task'[u] = task[u]
      BY <1>6, <2>1, TasksAfter DEF Has
  <2>2. ASSUME NEW d \in Campaigns PROVE (Has(t, d)' <=> Has(t, d) /\ d # c) /\ (Has(t, d)' => task'[t].row = task[t].row)
    <3>1. Has(t, d) <=> d \in task[t].left  BY <1>1 DEF Has
    <3>2. CASE left = {}  BY <1>2, <1>6, <3>1, <3>2, TasksAfter DEF Has
    <3>3. CASE left # {}
      <4>1. task'[t] = r /\ Under(t, "runDue")'  BY <1>6, <3>3, TasksAfter
      <4> QED BY <1>2, <1>6, <3>1, <3>3, <4>1 DEF Has
    <3> QED BY <3>2, <3>3
  <2> QED BY <2>1, <2>2
<1>10. ASSUME NEW d \in Campaigns, d # c PROVE CampFits(d)'
  <2>1. CampFits(d) /\ rounds'[d] = rounds[d]  BY <1>3, <1>10 DEF CampsTyped
  <2>2. d \in revived => d \in revived'  BY <1>3, <1>10
  <2> QED BY <1>3, <1>5, <1>9, <1>10, <2>1, <2>2, CampElse
<1>11. CampFits(c)'
  <2>1. ActiveFits(c)'  BY <1>4, <1>5 DEF ActiveFits
  <2>2. ASSUME c \notin crossed PROVE RunFits(c)'
    <3>1. RunFits(c) /\ Has(t, c)  BY <1>1, <1>2, <2>2 DEF CampFits, Has
    <3>2. \A u \in Tasks : ~Has(u, c)'  BY <1>9, <3>1 DEF RunFits
    <3>3. seen.occurrences = rounds[c] /\ rounds'[c] = rounds[c] + 1 /\ c \notin stopped /\ c \notin asked
        BY <1>2, <1>3, <3>1 DEF RunFits, CampsTyped
    <3> QED BY <1>3, <1>5, <3>2, <3>3 DEF RunFits
  <2> QED BY <1>3, <2>1, <2>2 DEF CampFits
<1> QED BY <1>8, <1>10, <1>11

LEMMA FailRunKeeps ==
    ASSUME CampsInv, NEW t \in Tasks, FailRun(t)
    PROVE  CampsInv'
<1> USE DEF CampsInv
<1>1. TaskMoves(t, Failed) /\ Failed.at = "failed" /\ failures' \in Nat /\ failures' = failures + 1
    BY TaskFails DEF FailRun, CampsTyped
<1>2. UNCHANGED <<campaigns, rounds, stopped, asked, crossed, revived>>  BY DEF FailRun, campVars
<1>3. CampsTyped' /\ \A u \in Tasks : Under(u, "runDue")' => HasRows(task'[u])
  <2>1. CampCall(Failed)  BY DEF CampCall
  <2> QED BY <1>1, <1>2, <2>1, CampCalls DEF CampsTyped
<1>4. failures' > 0  BY <1>1 DEF CampsTyped
<1>5. \A u \in Tasks, d \in Campaigns : (Has(u, d)' => Has(u, d)) /\ (Has(u, d)' => task'[u] = task[u])
    BY <1>1, TasksAfter DEF Has
<1>6. ASSUME NEW d \in Campaigns PROVE CampFits(d)'
  <2>1. CampFits(d)  OBVIOUS
  <2> QED BY <1>2, <1>4, <1>5, <2>1, CampElse
<1> QED BY <1>3, <1>6

LEMMA CampsStep ==
    ASSUME CampsInv, CampNext
    PROVE  CampsInv'
    BY ControlKeeps, ClaimDueKeeps, MailKeeps, RecordRunKeeps, FailRunKeeps DEF CampNext, CampRequests

LEMMA CampsRest ==
    ASSUME CampsInv, UNCHANGED <<taskVars, campVars>>
    PROVE  CampsInv'
<1> USE DEF CampsInv
<1>1. UNCHANGED <<task, failures, campaigns, rounds, stopped, asked, crossed, revived>>
    BY DEF taskVars, campVars
<1>2. CampsTyped'  BY <1>1 DEF CampsTyped, CampCall
<1>3. \A t \in Tasks : Under(t, "runDue")' => HasRows(task'[t])  BY <1>1 DEF Under
<1>4. ASSUME NEW d \in Campaigns PROVE CampFits(d)'
  <2>1. CampFits(d) /\ \A t \in Tasks : (Has(t, d)' <=> Has(t, d)) /\ task'[t] = task[t]
      BY <1>1 DEF Has, Under
  <2> QED BY <1>1, <2>1, CampElse
<1> QED BY <1>2, <1>3, <1>4

LEMMA CampsStart ==
    ASSUME TasksInit, CampInit
    PROVE  CampsInv
<1>1. PICK m \in [Campaigns -> {"once", "recurring"}] :
         campaigns = [c \in Campaigns |-> [mode |-> m[c], status |-> "active", next |-> TRUE, occurrences |-> 0]]
    BY DEF CampInit
<1>2. \A c \in Campaigns : /\ campaigns[c] \in CampRows /\ campaigns[c].status = "active" /\ campaigns[c].next
                           /\ campaigns[c].occurrences = 0 /\ rounds[c] = 0
    BY <1>1 DEF CampRows, CampInit
<1>3. campaigns \in [Campaigns -> CampRows]  BY <1>1, <1>2
<1>4. CampsTyped  BY <1>3 DEF TasksInit, CampInit, CampsTyped, CampCall
<1>5. \A t \in Tasks : ~Under(t, "runDue") /\ \A c : ~Has(t, c)  BY DEF TasksInit, New, Under, Has
<1>6. stopped = {} /\ asked = {} /\ crossed = {} /\ revived = {}  BY DEF CampInit
<1>7. \A c \in Campaigns : CampFits(c)  BY <1>2, <1>5, <1>6 DEF CampFits, RunFits, ActiveFits
<1> QED BY <1>4, <1>5, <1>7 DEF CampsInv

LEMMA CampsSay ==
    ASSUME CampsInv
    PROVE  CampaignsObey
<1>1. \A c \in Campaigns : CampFits(c)  BY DEF CampsInv
<1>2. stopped \in SUBSET Campaigns /\ asked \in SUBSET Campaigns  BY DEF CampsInv, CampsTyped
<1>3. CanceledStaysCanceled /\ AskedIsQueued /\ OccurrencesAreRuns
    BY <1>1, <1>2 DEF CampFits, RunFits, CanceledStaysCanceled, AskedIsQueued, OccurrencesAreRuns, Due
<1>4. ActiveIsScheduled  BY <1>1, WorkIsHeld DEF CampFits, ActiveFits, ActiveIsScheduled
<1> QED BY <1>3, <1>4 DEF CampaignsObey

----------------------------------------------------------------------------
(* Jobs                                                                    *)

JobRows == [run : 1..MaxJobs, kind : {"single", "step"}, step : 1..Steps, status : {"pending", "running", "done", "dead"},
            attempts : Nat]

JobCall(r) ==
    \/ r = New \/ r = Failed
    \/ r \in [op : {"trigger"}, at : {"enqueue"}]
    \/ r \in [op : {"jobs"}, left : SUBSET (1..MaxJobs), at : {"run"}]
    \/ r \in [op : {"jobs"}, left : SUBSET (1..MaxJobs), job : 1..MaxJobs, at : {"chain", "done", "retry"}]
    \/ r \in [op : {"trigger", "jobs"}, at : {"over"}]

JobsTyped ==
    /\ jobs \in Seq(JobRows) /\ Len(jobs) <= MaxJobs
    /\ effects \in [(1..MaxJobs) \X (1..Steps) -> Nat] /\ failures \in Nat
    /\ task = [t \in Tasks |-> task[t]] /\ \A t \in Tasks : JobCall(task[t])

Effective(i)   == effects[<<jobs[i].run, jobs[i].step>>] > 0
Follows(j, i)  == jobs[j].run = jobs[i].run /\ jobs[j].kind = "step" /\ jobs[j].step = jobs[i].step + 1
Finished(i)    == Effective(i) /\ (Chains(i) => \E j \in Ids : Follows(j, i))
HeldBy(t, i)   == Under(t, "jobs") /\ i \in Held(t)

\* A run begins with its first step, goes on step by step, and either has a job of the last step or one that is not
\* done and that no job follows.
RowsInv ==
    /\ \A i \in Ids : jobs[i].run <= i
    /\ \A r \in 1..MaxJobs, s \in 1..Steps : r > Len(jobs) => effects[<<r, s>>] = 0
    /\ \A i, j \in Ids : jobs[i].run = jobs[j].run => jobs[i].kind = jobs[j].kind
    /\ \A i \in Ids : jobs[i].kind = "single" => jobs[i].step = 1
    /\ \A i \in Ids : \A s \in 1..jobs[i].step : \E j \in Ids : jobs[j].run = jobs[i].run /\ jobs[j].step = s
    /\ \A i \in Ids : jobs[i].status = "done" => Finished(i)
    /\ \A i \in Ids : jobs[i].kind = "step" =>
          \E j \in Ids : /\ jobs[j].run = jobs[i].run /\ jobs[j].kind = "step"
                         /\ \/ jobs[j].step = Steps
                            \/ jobs[j].status # "done" /\ \A k \in Ids : ~Follows(k, j)

\* A tick holds jobs that are running, and knows what the one at hand has done.
TickFits(t) ==
    /\ Under(t, "jobs") => /\ Held(t) \in SUBSET Ids /\ Cardinality(Held(t)) <= Batch
                           /\ \A i \in Held(t) : jobs[i].status = "running"
    /\ At(t, "chain") \/ At(t, "done") \/ At(t, "retry") => task[t].job \in Held(t)
    /\ At(t, "chain") => Chains(task[t].job) /\ Effective(task[t].job)
    /\ At(t, "done") => Finished(task[t].job)

TicksInv ==
    /\ \A t \in Tasks : TickFits(t)
    /\ \A t, u \in Tasks : \A i : HeldBy(t, i) /\ HeldBy(u, i) => t = u

\* The jobs that may yet bring about step s of run r: those due or held that have not taken effect, and those that have
\* and are about to chain.
LiveAt(t, i) == HeldBy(t, i) /\ (At(t, "run") \/ At(t, "retry") \/ task[t].job # i)
Live(i)      == jobs[i].status = "pending" \/ \E t \in Tasks : LiveAt(t, i)
Chaining(i)  == \E t \in Tasks : At(t, "chain") /\ task[t].job = i
Coming(r, s) ==
    {i \in Ids : jobs[i].run = r /\ ((jobs[i].step <= s /\ Live(i)) \/ (jobs[i].step < s /\ Chaining(i)))}

RepeatInv ==
    \A r \in 1..MaxJobs, s \in 1..Steps : effects[<<r, s>>] + Cardinality(Coming(r, s)) <= 1 + failures

StuckInv == Cardinality(Stuck) <= Batch * failures

JobsInv == JobsTyped /\ RowsInv /\ TicksInv /\ RepeatInv /\ StuckInv

LEMMA JobPlaces ==
    ASSUME JobsTyped, NEW t \in Tasks
    PROVE  /\ At(t, "enqueue") => task[t] \in [op : {"trigger"}, at : {"enqueue"}]
           /\ At(t, "run") => task[t] \in [op : {"jobs"}, left : SUBSET (1..MaxJobs), at : {"run"}]
           /\ At(t, "chain") \/ At(t, "done") \/ At(t, "retry") =>
                 task[t] \in [op : {"jobs"}, left : SUBSET (1..MaxJobs), job : 1..MaxJobs, at : {"chain", "done", "retry"}]
           /\ Under(t, "jobs") <=> At(t, "run") \/ At(t, "chain") \/ At(t, "done") \/ At(t, "retry")
<1>1. JobCall(task[t])  BY DEF JobsTyped
<1>2. CASE task[t] = New \/ task[t] = Failed  BY <1>2 DEF New, Failed, At, Under
<1>3. CASE task[t] # New /\ task[t] # Failed  BY <1>1, <1>3 DEF JobCall, At, Under
<1> QED BY <1>2, <1>3

LEMMA JobsShape ==
    ASSUME JobsTyped
    PROVE  /\ Len(jobs) \in Nat /\ Ids = 1..Len(jobs) /\ IsFiniteSet(Ids)
           /\ \A i \in Ids : jobs[i] \in JobRows /\ i \in Nat
<1>1. Len(jobs) \in Nat /\ Ids = 1..Len(jobs) /\ jobs \in [1..Len(jobs) -> JobRows]
    BY LenProperties DEF JobsTyped, Ids
<1>2. IsFiniteSet(1..Len(jobs))  BY <1>1, FS_Interval
<1> QED BY <1>1, <1>2

LEMMA JobsRewritten ==
    ASSUME JobsTyped, jobs' \in [Ids -> JobRows]
    PROVE  jobs' \in Seq(JobRows) /\ Len(jobs') = Len(jobs) /\ Ids' = Ids
<1>1. Len(jobs) \in Nat /\ Ids = 1..Len(jobs)  BY JobsShape
<1>2. jobs' \in Seq(JobRows)  BY <1>1
<1>3. Ids' = Ids  BY DEF Ids
<1>4. Len(jobs') \in Nat /\ Ids' = 1..Len(jobs')  BY <1>2, LenProperties DEF Ids
<1>5. Len(jobs') = Len(jobs)  BY <1>1, <1>3, <1>4
<1> QED BY <1>2, <1>3, <1>5

LEMMA JobAppended ==
    ASSUME JobsTyped, NEW job \in JobRows, Len(jobs) < MaxJobs, jobs' = Append(jobs, job)
    PROVE  /\ jobs' \in Seq(JobRows) /\ Len(jobs') = Len(jobs) + 1 /\ Len(jobs') <= MaxJobs
           /\ Ids' = Ids \cup {Len(jobs) + 1} /\ Len(jobs) + 1 \notin Ids
           /\ jobs'[Len(jobs) + 1] = job /\ \A i \in Ids : jobs'[i] = jobs[i]
<1>1. Len(jobs) \in Nat /\ Ids = 1..Len(jobs) /\ MaxJobs \in Nat  BY JobsShape, JobsAssumption
<1>2. /\ jobs' \in Seq(JobRows) /\ Len(jobs') = Len(jobs) + 1
      /\ \A i \in 1..Len(jobs) : jobs'[i] = jobs[i]
      /\ jobs'[Len(jobs) + 1] = job
    BY AppendProperties DEF JobsTyped
<1>3. Ids' = 1..Len(jobs')  BY <1>2, LenProperties DEF Ids
<1> QED BY <1>1, <1>2, <1>3

LEMMA ComingIsFinite ==
    ASSUME JobsTyped, NEW r, NEW s
    PROVE  IsFiniteSet(Coming(r, s)) /\ Cardinality(Coming(r, s)) \in Nat
<1>1. Coming(r, s) \in SUBSET Ids  BY DEF Coming
<1>2. IsFiniteSet(Coming(r, s))  BY <1>1, JobsShape, FS_Subset
<1> QED BY <1>2, FS_CardinalityType

LEMMA StuckIsFinite ==
    ASSUME JobsTyped
    PROVE  IsFiniteSet(Stuck) /\ Cardinality(Stuck) \in Nat
<1>1. Stuck \in SUBSET Ids  BY DEF Stuck
<1>2. IsFiniteSet(Stuck)  BY <1>1, JobsShape, FS_Subset
<1> QED BY <1>2, FS_CardinalityType

\* How many a set has against another.
LEMMA CountLess ==
    ASSUME NEW S, NEW T, IsFiniteSet(S), T \subseteq S
    PROVE  /\ IsFiniteSet(T) /\ Cardinality(T) \in Nat /\ Cardinality(S) \in Nat /\ Cardinality(T) <= Cardinality(S)
           /\ \A i \in S : i \notin T => Cardinality(T) <= Cardinality(S) - 1
<1>1. IsFiniteSet(T) /\ Cardinality(T) <= Cardinality(S)  BY FS_Subset
<1>2. Cardinality(T) \in Nat /\ Cardinality(S) \in Nat  BY <1>1, FS_CardinalityType
<1>3. ASSUME NEW i \in S, i \notin T PROVE Cardinality(T) <= Cardinality(S) - 1
  <2>1. IsFiniteSet(S \ {i}) /\ Cardinality(S \ {i}) = Cardinality(S) - 1  BY <1>3, FS_RemoveElement
  <2>2. T \subseteq S \ {i}  BY <1>3
  <2>3. Cardinality(T) <= Cardinality(S \ {i})  BY <2>1, <2>2, FS_Subset
  <2> QED BY <2>1, <2>3
<1> QED BY <1>1, <1>2, <1>3

LEMMA CountMore ==
    ASSUME NEW S, NEW T, IsFiniteSet(S), NEW i, T \subseteq S \cup {i}
    PROVE  Cardinality(T) \in Nat /\ Cardinality(S) \in Nat /\ Cardinality(T) <= Cardinality(S) + 1
<1>1. IsFiniteSet(S \cup {i}) /\ Cardinality(S \cup {i}) = IF i \in S THEN Cardinality(S) ELSE Cardinality(S) + 1
    BY FS_AddElement
<1>2. Cardinality(S) \in Nat  BY FS_CardinalityType
<1>3. Cardinality(T) \in Nat /\ Cardinality(T) <= Cardinality(S \cup {i})  BY <1>1, CountLess
<1> QED BY <1>1, <1>2, <1>3

LEMMA JobsTypes ==
    ASSUME JobsTyped, jobs' \in Seq(JobRows), Len(jobs') <= MaxJobs, effects' \in [(1..MaxJobs) \X (1..Steps) -> Nat],
           failures' \in Nat, NEW t \in Tasks, NEW r, JobCall(r), TaskMoves(t, r)
    PROVE  JobsTyped'
<1>1. ASSUME NEW u \in Tasks PROVE JobCall(task'[u])
  <2>1. CASE u = t  BY <2>1 DEF TaskMoves
  <2>2. CASE u # t  BY <2>2 DEF TaskMoves, JobsTyped
  <2> QED BY <2>1, <2>2
<1>2. task' = [u \in Tasks |-> task'[u]]  BY DEF TaskMoves
<1> QED BY <1>1, <1>2 DEF JobsTyped

\* Rows keep what they are about, effects stay, and jobs are only added.
RowsGrow == /\ Ids \subseteq Ids'
            /\ \A i \in Ids : jobs'[i].run = jobs[i].run /\ jobs'[i].kind = jobs[i].kind /\ jobs'[i].step = jobs[i].step
            /\ \A r \in 1..MaxJobs, s \in 1..Steps : effects'[<<r, s>>] >= effects[<<r, s>>]

LEMMA GrowKeeps ==
    ASSUME JobsTyped, RowsGrow, effects' \in [(1..MaxJobs) \X (1..Steps) -> Nat], NEW i \in Ids
    PROVE  /\ Chains(i)' <=> Chains(i)
           /\ \A j \in Ids : Follows(j, i)' <=> Follows(j, i)
           /\ Effective(i) => Effective(i)'
           /\ Finished(i) => Finished(i)'
<1>1. jobs[i].run \in 1..MaxJobs /\ jobs[i].step \in 1..Steps  BY JobsShape DEF JobRows
<1>2. effects[<<jobs[i].run, jobs[i].step>>] \in Nat /\ effects'[<<jobs[i].run, jobs[i].step>>] \in Nat
    BY <1>1 DEF JobsTyped
<1>3. Chains(i)' <=> Chains(i)  BY DEF Chains, RowsGrow
<1>4. \A j \in Ids : Follows(j, i)' <=> Follows(j, i)  BY DEF Follows, RowsGrow
<1>5. Effective(i) => Effective(i)'  BY <1>1, <1>2 DEF Effective, RowsGrow
<1> QED BY <1>3, <1>4, <1>5 DEF Finished, RowsGrow

\* What a step of another leaves of a tick.
LEMMA TickElse ==
    ASSUME JobsTyped, RowsGrow, effects' \in [(1..MaxJobs) \X (1..Steps) -> Nat], NEW t \in Tasks, NEW r, TaskMoves(t, r),
           NEW u \in Tasks, u # t, TickFits(u),
           \A i \in Ids : HeldBy(u, i) => jobs'[i].status = jobs[i].status
    PROVE  TickFits(u)'
<1>1. task'[u] = task[u] /\ (Under(u, "jobs")' <=> Under(u, "jobs")) /\ \A p : At(u, p)' <=> At(u, p)
    BY TasksAfter
<1>2. Held(u)' = Held(u)  BY <1>1 DEF Held
<1>3. Under(u, "jobs") => /\ Held(u)' \in SUBSET Ids' /\ Cardinality(Held(u)') <= Batch
                          /\ \A i \in Held(u)' : jobs'[i].status = "running"
    BY <1>2 DEF TickFits, HeldBy, RowsGrow
<1>4. At(u, "chain") \/ At(u, "done") \/ At(u, "retry") => task[u].job \in Held(u) /\ task[u].job \in Ids
    BY JobPlaces DEF TickFits
<1>5. At(u, "chain") => Chains(task[u].job)' /\ Effective(task[u].job)'
    BY <1>1, <1>4, GrowKeeps DEF TickFits
<1>6. At(u, "done") => Finished(task[u].job)'  BY <1>1, <1>4, GrowKeeps DEF TickFits
<1> QED BY <1>1, <1>2, <1>3, <1>4, <1>5, <1>6 DEF TickFits

\* A step that rewrites rows, and marks those done that are finished.
LEMMA RowsStay ==
    ASSUME JobsTyped, RowsInv, RowsGrow, jobs' \in [Ids -> JobRows], effects' \in [(1..MaxJobs) \X (1..Steps) -> Nat],
           \A r \in 1..MaxJobs, s \in 1..Steps : r > Len(jobs) => effects'[<<r, s>>] = effects[<<r, s>>],
           \A i \in Ids : jobs'[i].status = "done" => jobs[i].status = "done" \/ Finished(i)
    PROVE  RowsInv'
<1>1. Ids' = Ids /\ Len(jobs') = Len(jobs)  BY JobsRewritten
<1>2. \A i \in Ids : jobs'[i].run = jobs[i].run /\ jobs'[i].kind = jobs[i].kind /\ jobs'[i].step = jobs[i].step
    BY DEF RowsGrow
<1>3. \A i \in Ids' : jobs'[i].run <= i  BY <1>1, <1>2 DEF RowsInv
<1>8. \A r \in 1..MaxJobs, s \in 1..Steps : r > Len(jobs') => effects'[<<r, s>>] = 0
    BY <1>1 DEF RowsInv
<1>9. \A i, j \in Ids' : jobs'[i].run = jobs'[j].run => jobs'[i].kind = jobs'[j].kind
    BY <1>1, <1>2 DEF RowsInv
<1>10. \A i \in Ids' : jobs'[i].kind = "single" => jobs'[i].step = 1  BY <1>1, <1>2 DEF RowsInv
<1>7. \A i \in Ids' : \A s \in 1..jobs'[i].step : \E j \in Ids' : jobs'[j].run = jobs'[i].run /\ jobs'[j].step = s
  <2> SUFFICES ASSUME NEW i \in Ids, NEW s \in 1..jobs[i].step PROVE \E j \in Ids : jobs'[j].run = jobs'[i].run /\ jobs'[j].step = s
      BY <1>1, <1>2
  <2>1. PICK j \in Ids : jobs[j].run = jobs[i].run /\ jobs[j].step = s  BY DEF RowsInv
  <2> QED BY <1>2, <2>1
<1>4. \A i \in Ids : jobs'[i].status = "done" => Finished(i) /\ Finished(i)'
    BY GrowKeeps DEF RowsInv
<1>5. ASSUME NEW i \in Ids, jobs[i].kind = "step"
      PROVE  \E j \in Ids : /\ jobs'[j].run = jobs'[i].run /\ jobs'[j].kind = "step"
                            /\ \/ jobs'[j].step = Steps
                               \/ jobs'[j].status # "done" /\ \A k \in Ids : ~Follows(k, j)'
  <2>1. PICK j \in Ids : /\ jobs[j].run = jobs[i].run /\ jobs[j].kind = "step"
                         /\ \/ jobs[j].step = Steps
                            \/ jobs[j].status # "done" /\ \A k \in Ids : ~Follows(k, j)
      BY <1>5 DEF RowsInv
  <2>2. \A k \in Ids : Follows(k, j)' <=> Follows(k, j)  BY GrowKeeps
  <2>3. jobs[j].step \in 1..Steps  BY JobsShape DEF JobRows
  <2>4. jobs[j].step = Steps \/ jobs'[j].status # "done"
      BY <1>4, <2>1, <2>3, JobsAssumption DEF Finished, Chains
  <2>5. jobs[j].step = Steps \/ \A k \in Ids : ~Follows(k, j)  BY <2>1
  <2> QED BY <1>2, <2>1, <2>2, <2>4, <2>5
<1>6. \A i \in Ids' : jobs'[i].kind = "step" =>
         \E j \in Ids' : /\ jobs'[j].run = jobs'[i].run /\ jobs'[j].kind = "step"
                         /\ \/ jobs'[j].step = Steps
                            \/ jobs'[j].status # "done" /\ \A k \in Ids' : ~Follows(k, j)'
    BY <1>1, <1>2, <1>5
<1>11. \A i \in Ids' : jobs'[i].status = "done" => Finished(i)'  BY <1>1, <1>4
<1> QED BY <1>3, <1>6, <1>7, <1>8, <1>9, <1>10, <1>11 DEF RowsInv

\* A step of t that rewrites no row that another holds.
LEMMA TicksMove ==
    ASSUME JobsTyped, TicksInv, RowsGrow, effects' \in [(1..MaxJobs) \X (1..Steps) -> Nat], NEW t \in Tasks, NEW r, TaskMoves(t, r),
           TickFits(t)',
           \A i \in Ids : \A u \in Tasks : u # t /\ HeldBy(u, i) => jobs'[i].status = jobs[i].status,
           \A i : HeldBy(t, i)' => HeldBy(t, i) \/ \A u \in Tasks : ~HeldBy(u, i)
    PROVE  TicksInv'
<1>1. \A u \in Tasks : TickFits(u)'  BY TickElse DEF TicksInv
<1>2. \A u \in Tasks : \A i : u # t => (HeldBy(u, i)' <=> HeldBy(u, i))
    BY TasksAfter DEF HeldBy, Held
<1>3. \A v, u \in Tasks : \A i : HeldBy(v, i)' /\ HeldBy(u, i)' => v = u  BY <1>2 DEF TicksInv
<1> QED BY <1>1, <1>3 DEF TicksInv

LEMMA HeldElse ==
    ASSUME NEW t \in Tasks, NEW r, TaskMoves(t, r), NEW u \in Tasks, u # t
    PROVE  /\ \A i : HeldBy(u, i)' <=> HeldBy(u, i)
           /\ \A i : LiveAt(u, i)' <=> LiveAt(u, i)
           /\ task'[u] = task[u] /\ \A p : At(u, p)' <=> At(u, p)
    BY TasksAfter DEF HeldBy, Held, LiveAt

\* No job comes up again that could not come before.
LEMMA ComingStays ==
    ASSUME JobsTyped, RowsGrow, Ids' = Ids, NEW t \in Tasks, NEW r, TaskMoves(t, r),
           \A i \in Ids : jobs'[i].status = "pending" => Live(i),
           \A i \in Ids : LiveAt(t, i)' => Live(i),
           \A i \in Ids : At(t, "chain")' /\ task'[t].job = i => Live(i) \/ Chaining(i)
    PROVE  \A x \in 1..MaxJobs, s \in 1..Steps : Coming(x, s)' \subseteq Coming(x, s)
<1>1. \A i \in Ids : Live(i)' => Live(i)  BY HeldElse DEF Live
<1>2. \A i \in Ids : Chaining(i)' => Live(i) \/ Chaining(i)  BY HeldElse DEF Chaining
<1>3. ASSUME NEW x \in 1..MaxJobs, NEW s \in 1..Steps, NEW i \in Coming(x, s)' PROVE i \in Coming(x, s)
  <2>1. i \in Ids /\ jobs[i].run = x /\ jobs'[i].step = jobs[i].step  BY <1>3 DEF Coming, RowsGrow
  <2>2. (jobs[i].step <= s /\ Live(i)') \/ (jobs[i].step < s /\ Chaining(i)')
      BY <1>3, <2>1 DEF Coming
  <2>3. jobs[i].step \in Int /\ s \in Int  BY <2>1, JobsShape DEF JobRows
  <2>4. (jobs[i].step <= s /\ Live(i)) \/ (jobs[i].step < s /\ Chaining(i))
      BY <1>1, <1>2, <2>1, <2>2, <2>3
  <2> QED BY <2>1, <2>4 DEF Coming
<1> QED BY <1>3

LEMMA RepeatStays ==
    ASSUME JobsTyped, RepeatInv, failures' \in Nat, effects' \in [(1..MaxJobs) \X (1..Steps) -> Nat],
           \A x \in 1..MaxJobs, s \in 1..Steps : /\ Coming(x, s)' \subseteq Coming(x, s)
                                                 /\ effects'[<<x, s>>] - effects[<<x, s>>] <= failures' - failures
    PROVE  RepeatInv'
<1> SUFFICES ASSUME NEW x \in 1..MaxJobs, NEW s \in 1..Steps
             PROVE  effects'[<<x, s>>] + Cardinality(Coming(x, s)') <= 1 + failures'
    BY DEF RepeatInv
<1>1. IsFiniteSet(Coming(x, s))  BY ComingIsFinite
<1>2. /\ Cardinality(Coming(x, s)') \in Nat /\ Cardinality(Coming(x, s)) \in Nat
      /\ Cardinality(Coming(x, s)') <= Cardinality(Coming(x, s))
    BY <1>1, CountLess
<1>3. effects[<<x, s>>] + Cardinality(Coming(x, s)) <= 1 + failures  BY DEF RepeatInv
<1>4. effects[<<x, s>>] \in Nat /\ effects'[<<x, s>>] \in Nat /\ failures \in Nat  BY DEF JobsTyped
<1>5. effects'[<<x, s>>] - effects[<<x, s>>] <= failures' - failures  OBVIOUS
<1> QED BY <1>2, <1>3, <1>4, <1>5

LEMMA StuckIs ==
    ASSUME NEW i
    PROVE  i \in Stuck <=> i \in Ids /\ jobs[i].status = "running" /\ \A t \in Tasks : ~HeldBy(t, i)
    BY DEF Stuck, Ticks, HeldBy

LEMMA BatchTimes ==
    ASSUME NEW m \in Nat, NEW n \in Nat, m <= n
    PROVE  Batch * m <= Batch * n /\ Batch * (m + 1) = Batch * m + Batch /\ Batch * m \in Nat
    BY JobsAssumption

LEMMA StuckStays ==
    ASSUME JobsTyped, StuckInv, failures' \in Nat, failures <= failures', Stuck' \subseteq Stuck
    PROVE  StuckInv'
<1>1. Cardinality(Stuck') \in Nat /\ Cardinality(Stuck) \in Nat /\ Cardinality(Stuck') <= Cardinality(Stuck)
    BY StuckIsFinite, CountLess
<1>2. failures \in Nat  BY DEF JobsTyped
<1>3. Batch * failures \in Nat /\ Batch * failures' \in Nat /\ Batch * failures <= Batch * failures'
    BY <1>2, BatchTimes
<1> QED BY <1>1, <1>3 DEF StuckInv

\* A step of t that keeps the rows running and held as they were.
LEMMA StuckElse ==
    ASSUME NEW t \in Tasks, NEW r, TaskMoves(t, r),
           \A i \in Ids' : jobs'[i].status = "running" => (i \in Ids /\ jobs[i].status = "running") \/ HeldBy(t, i)',
           \A i \in Ids' : jobs'[i].status = "running" /\ HeldBy(t, i) => HeldBy(t, i)'
    PROVE  Stuck' \subseteq Stuck
<1>1. ASSUME NEW i \in Stuck' PROVE i \in Stuck
  <2>1. i \in Ids' /\ jobs'[i].status = "running" /\ \A u \in Tasks : ~HeldBy(u, i)'
      BY <1>1 DEF Stuck, Ticks, HeldBy
  <2>2. i \in Ids /\ jobs[i].status = "running" /\ ~HeldBy(t, i)  BY <2>1
  <2>3. \A u \in Tasks : ~HeldBy(u, i)  BY <2>1, <2>2, HeldElse
  <2> QED BY <2>2, <2>3, StuckIs
<1> QED BY <1>1

\* The last command of a job, which the tick then no longer holds.
LEMMA WritesBackKeeps ==
    ASSUME JobsInv, NEW t \in Tasks, At(t, "done") \/ At(t, "retry"), NEW new \in JobRows, WritesBack(t, new),
           new.run = jobs[task[t].job].run, new.kind = jobs[task[t].job].kind, new.step = jobs[task[t].job].step,
           new.status # "running", new.status = "done" => At(t, "done"), new.status = "pending" => At(t, "retry")
    PROVE  JobsInv'
<1> USE DEF JobsInv
<1>1. /\ task[t] \in [op : {"jobs"}, left : SUBSET (1..MaxJobs), job : 1..MaxJobs, at : {"chain", "done", "retry"}]
      /\ Under(t, "jobs")
    BY JobPlaces
<1>2. PICK i \in Ids, left \in SUBSET (1..MaxJobs) :
         i = task[t].job /\ left = task[t].left \ {i} /\ i \in task[t].left /\ task[t].left \in SUBSET Ids
  <2>1. TickFits(t)  BY DEF TicksInv
  <2>2. task[t].left \in SUBSET Ids /\ task[t].job \in task[t].left
      BY <1>1, <2>1 DEF TickFits, Held
  <2>3. task[t].left \ {task[t].job} \in SUBSET (1..MaxJobs)  BY <1>1
  <2> QED BY <2>2, <2>3
<1>3. /\ jobs' = [jobs EXCEPT ![i] = new]
      /\ IF left = {} THEN Ends(t) ELSE task' = [task EXCEPT ![t] = [op |-> "jobs", left |-> left, at |-> "run"]]
      /\ UNCHANGED <<failures, enabled, effects>>
    BY <1>2 DEF WritesBack
<1>4. PICK r : r = IF left = {} THEN [op |-> task[t].op, at |-> "over"] ELSE [op |-> "jobs", left |-> left, at |-> "run"]
    OBVIOUS
<1>5. /\ TaskMoves(t, r) /\ JobCall(r)
      /\ IF left = {} THEN r.at = "over" ELSE r.at = "run" /\ r.op = "jobs" /\ r.left = left
  <2>1. CASE left = {}  BY <1>1, <1>3, <1>4, <2>1, TaskEnds DEF JobsTyped, JobCall
  <2>2. CASE left # {}
    <3>1. TaskMoves(t, r)  BY <1>3, <1>4, <2>2, TaskStep DEF JobsTyped
    <3> QED BY <1>4, <2>2, <3>1 DEF JobCall
  <2> QED BY <2>1, <2>2
<1>6. /\ jobs' \in [Ids -> JobRows] /\ jobs'[i] = new /\ \A j \in Ids : j # i => jobs'[j] = jobs[j]
      /\ jobs' \in Seq(JobRows) /\ Len(jobs') = Len(jobs) /\ Ids' = Ids
  <2>1. jobs' \in [Ids -> JobRows] /\ jobs'[i] = new /\ \A j \in Ids : j # i => jobs'[j] = jobs[j]
      BY <1>3, JobsShape DEF Ids
  <2> QED BY <2>1, JobsRewritten
<1>7. effects' \in [(1..MaxJobs) \X (1..Steps) -> Nat] /\ failures' \in Nat /\ failures' = failures /\ failures \in Nat
      /\ \A x \in 1..MaxJobs, s \in 1..Steps : effects'[<<x, s>>] = effects[<<x, s>>] /\ effects[<<x, s>>] \in Nat
    BY <1>3 DEF JobsTyped
<1>8. RowsGrow  BY <1>2, <1>6, <1>7 DEF RowsGrow
<1>9. JobsTyped'
  <2>1. Len(jobs') <= MaxJobs  BY <1>6 DEF JobsTyped
  <2> QED BY <1>5, <1>6, <1>7, <2>1, JobsTypes
<1>10. RowsInv'
  <2>1. At(t, "done") => Finished(i)  BY <1>2 DEF TicksInv, TickFits
  <2>2. \A j \in Ids : jobs'[j].status = "done" => jobs[j].status = "done" \/ Finished(j)
      BY <1>6, <2>1
  <2> QED BY <1>6, <1>7, <1>8, <2>2, RowsStay
<1>11. /\ \A p : At(t, p)' <=> r.at = p
       /\ Under(t, "jobs")' <=> left # {}
       /\ left # {} => Held(t)' = left
       /\ \A j : HeldBy(t, j)' <=> j \in left
       /\ \A j : HeldBy(t, j) <=> j = i \/ j \in left
  <2>1. /\ \A p : At(t, p)' <=> r.at = p
        /\ Under(t, "jobs")' <=> left # {}
        /\ left # {} => Held(t)' = left
      BY <1>5, TasksAfter DEF Held
  <2>2. \A j : HeldBy(t, j)' <=> j \in left  BY <2>1 DEF HeldBy
  <2>3. \A j : HeldBy(t, j) <=> j = i \/ j \in left  BY <1>1, <1>2 DEF HeldBy, Held
  <2> QED BY <2>1, <2>2, <2>3
<1>12. TicksInv'
  <2>1. TickFits(t)  BY DEF TicksInv
  <2>2. IsFiniteSet(task[t].left) /\ left \subseteq task[t].left  BY <1>2, JobsShape, FS_Subset
  <2>3. Cardinality(left) <= Batch /\ \A j \in left : jobs'[j].status = "running" /\ j \in Ids
    <3>1. Cardinality(left) \in Nat /\ Cardinality(task[t].left) \in Nat /\ Cardinality(left) <= Cardinality(task[t].left)
        BY <2>2, CountLess
    <3>2. Cardinality(task[t].left) <= Batch /\ \A j \in task[t].left : jobs[j].status = "running"
        BY <1>1, <2>1 DEF TickFits, Held
    <3> QED BY <1>2, <1>6, <3>1, <3>2, JobsAssumption
  <2>4. TickFits(t)'  BY <1>5, <1>6, <1>11, <2>3 DEF TickFits
  <2>5. \A j \in Ids : \A u \in Tasks : u # t /\ HeldBy(u, j) => jobs'[j].status = jobs[j].status
      BY <1>6, <1>11 DEF TicksInv
  <2> QED BY <1>5, <1>7, <1>8, <1>11, <2>4, <2>5, TicksMove
<1>13. RepeatInv'
  <2>1. LiveAt(t, i) <=> At(t, "retry")  BY <1>1, <1>2, <1>11 DEF LiveAt, At
  <2>2. \A j \in Ids : jobs'[j].status = "pending" => Live(j)  BY <1>6, <2>1 DEF Live
  <2>3. \A j \in Ids : LiveAt(t, j)' => Live(j)
    <3>1. \A j \in Ids : LiveAt(t, j)' => j \in left  BY <1>11 DEF LiveAt
    <3>2. \A j \in left : LiveAt(t, j)  BY <1>2, <1>11 DEF LiveAt
    <3> QED BY <3>1, <3>2 DEF Live
  <2>4. ~At(t, "chain")'  BY <1>5, <1>11
  <2>5. \A x \in 1..MaxJobs, s \in 1..Steps : Coming(x, s)' \subseteq Coming(x, s)
      BY <1>5, <1>6, <1>8, <2>2, <2>3, <2>4, ComingStays
  <2> QED BY <1>7, <2>5, RepeatStays
<1>14. StuckInv'
  <2>1. \A j \in Ids : jobs'[j].status = "running" => j # i /\ jobs[j].status = "running"  BY <1>6
  <2>2. Stuck' \subseteq Stuck  BY <1>5, <1>6, <1>11, <2>1, StuckElse
  <2> QED BY <1>7, <2>2, StuckStays
<1> QED BY <1>9, <1>10, <1>12, <1>13, <1>14

LEMMA MarkJobDoneKeeps ==
    ASSUME JobsInv, NEW t \in Tasks, MarkJobDone(t)
    PROVE  JobsInv'
<1>1. At(t, "done") /\ task[t].job \in Ids
  <2>1. At(t, "done") /\ Under(t, "jobs")  BY JobPlaces DEF MarkJobDone, JobsInv
  <2> QED BY <2>1 DEF JobsInv, TicksInv, TickFits
<1>2. PICK new : new = [jobs[task[t].job] EXCEPT !.status = "done"]  OBVIOUS
<1>3. jobs[task[t].job] \in JobRows  BY <1>1, JobsShape DEF JobsInv
<1>4. /\ new \in JobRows /\ new.run = jobs[task[t].job].run /\ new.kind = jobs[task[t].job].kind
      /\ new.step = jobs[task[t].job].step /\ new.status = "done"
    BY <1>2, <1>3 DEF JobRows
<1>5. WritesBack(t, new)  BY <1>2 DEF MarkJobDone
<1> QED BY <1>1, <1>4, <1>5, WritesBackKeeps

LEMMA MarkJobRetryOrDeadKeeps ==
    ASSUME JobsInv, NEW t \in Tasks, MarkJobRetryOrDead(t)
    PROVE  JobsInv'
<1>1. At(t, "retry") /\ task[t].job \in Ids
  <2>1. At(t, "retry") /\ Under(t, "jobs")  BY JobPlaces DEF MarkJobRetryOrDead, JobsInv
  <2> QED BY <2>1 DEF JobsInv, TicksInv, TickFits
<1>2. PICK s \in {"dead", "pending"} : s = IF IsDead(jobs[task[t].job]) THEN "dead" ELSE "pending"
    OBVIOUS
<1>6. PICK new : new = [jobs[task[t].job] EXCEPT !.status = s, !.attempts = @ + 1]  OBVIOUS
<1>3. jobs[task[t].job] \in JobRows  BY <1>1, JobsShape DEF JobsInv
<1>4. /\ new \in JobRows /\ new.run = jobs[task[t].job].run /\ new.kind = jobs[task[t].job].kind
      /\ new.step = jobs[task[t].job].step /\ new.status = s
  <2>1. jobs[task[t].job].attempts + 1 \in Nat  BY <1>3 DEF JobRows
  <2> QED BY <1>3, <1>6, <2>1 DEF JobRows
<1>5. WritesBack(t, new)  BY <1>2, <1>6 DEF MarkJobRetryOrDead
<1> QED BY <1>1, <1>2, <1>4, <1>5, WritesBackKeeps

\* A step in which no tick has a part.
QuietStep == \A u \in Tasks :
    \/ task'[u] = task[u]
    \/ /\ ~Under(u, "jobs") /\ task[u].at \notin {"run", "chain", "done", "retry"}
       /\ ~Under(u, "jobs")' /\ task'[u].at \notin {"run", "chain", "done", "retry"}

LEMMA QuietTicks ==
    ASSUME QuietStep
    PROVE  /\ \A u \in Tasks : \A i : HeldBy(u, i)' <=> HeldBy(u, i)
           /\ \A u \in Tasks : \A i : LiveAt(u, i)' <=> LiveAt(u, i)
           /\ \A u \in Tasks : At(u, "chain")' <=> At(u, "chain")
           /\ \A u \in Tasks : At(u, "chain") => task'[u] = task[u]
<1>1. ASSUME NEW u \in Tasks
      PROVE  /\ \A i : HeldBy(u, i)' <=> HeldBy(u, i)
             /\ \A i : LiveAt(u, i)' <=> LiveAt(u, i)
             /\ (At(u, "chain")' <=> At(u, "chain")) /\ (At(u, "chain") => task'[u] = task[u])
  <2>1. CASE task'[u] = task[u]  BY <2>1 DEF HeldBy, LiveAt, Held, Under, At
  <2>2. CASE task'[u] # task[u]  BY <2>2 DEF QuietStep, HeldBy, LiveAt, At
  <2> QED BY <2>1, <2>2
<1> QED BY <1>1

LEMMA QuietFits ==
    ASSUME JobsTyped, TicksInv, RowsGrow, effects' \in [(1..MaxJobs) \X (1..Steps) -> Nat], QuietStep,
           \A i \in Ids : jobs'[i].status = jobs[i].status
    PROVE  TicksInv'
<1>1. ASSUME NEW u \in Tasks PROVE TickFits(u)'
  <2>1. CASE task'[u] = task[u]
    <3>1. (Under(u, "jobs")' <=> Under(u, "jobs")) /\ (\A p : At(u, p)' <=> At(u, p)) /\ Held(u)' = Held(u)
        BY <2>1 DEF Under, At, Held
    <3>2. TickFits(u)  BY DEF TicksInv
    <3>3. Under(u, "jobs") => /\ Held(u)' \in SUBSET Ids' /\ Cardinality(Held(u)') <= Batch
                              /\ \A i \in Held(u)' : jobs'[i].status = "running"
        BY <3>1, <3>2 DEF TickFits, RowsGrow
    <3>4. At(u, "chain") \/ At(u, "done") \/ At(u, "retry") => task[u].job \in Held(u) /\ task[u].job \in Ids
        BY <3>2, JobPlaces DEF TickFits
    <3>5. At(u, "chain") => Chains(task[u].job)' /\ Effective(task[u].job)'
      <4>1. \A i \in Ids : (Chains(i)' <=> Chains(i)) /\ (Effective(i) => Effective(i)')
          BY GrowKeeps
      <4> QED BY <2>1, <3>2, <3>4, <4>1 DEF TickFits
    <3>6. At(u, "done") => Finished(task[u].job)'
      <4>1. \A i \in Ids : Finished(i) => Finished(i)'  BY GrowKeeps
      <4> QED BY <2>1, <3>2, <3>4, <4>1 DEF TickFits
    <3> QED BY <2>1, <3>1, <3>3, <3>4, <3>5, <3>6 DEF TickFits
  <2>2. CASE task'[u] # task[u]  BY <2>2 DEF QuietStep, TickFits, At
  <2> QED BY <2>1, <2>2
<1>2. \A v, u \in Tasks : \A i : HeldBy(v, i)' /\ HeldBy(u, i)' => v = u
  <2>1. \A u \in Tasks : \A i : HeldBy(u, i)' <=> HeldBy(u, i)  BY QuietTicks
  <2> QED BY <2>1 DEF TicksInv
<1> QED BY <1>1, <1>2 DEF TicksInv

LEMMA QuietComing ==
    ASSUME JobsTyped, RowsGrow, QuietStep, \A i \in Ids : jobs'[i].status = jobs[i].status
    PROVE  \A x \in 1..MaxJobs, s \in 1..Steps : \A i \in Ids : i \in Coming(x, s)' => i \in Coming(x, s)
<1>1. \A i \in Ids : (Live(i)' => Live(i)) /\ (Chaining(i)' => Chaining(i))
  <2> TAKE i \in Ids
  <2>1. /\ \A u \in Tasks : LiveAt(u, i)' <=> LiveAt(u, i)
        /\ \A u \in Tasks : (At(u, "chain")' <=> At(u, "chain")) /\ (At(u, "chain") => task'[u] = task[u])
      BY QuietTicks
  <2>2. Live(i)' => Live(i)  BY <2>1 DEF Live
  <2>3. Chaining(i)' => Chaining(i)  BY <2>1 DEF Chaining
  <2> QED BY <2>2, <2>3
<1>2. ASSUME NEW x \in 1..MaxJobs, NEW s \in 1..Steps, NEW i \in Ids, i \in Coming(x, s)' PROVE i \in Coming(x, s)
  <2>1. jobs[i].run = x /\ jobs'[i].step = jobs[i].step  BY <1>2 DEF Coming, RowsGrow
  <2>2. (jobs[i].step <= s /\ Live(i)') \/ (jobs[i].step < s /\ Chaining(i)')
      BY <1>2, <2>1 DEF Coming
  <2>3. (jobs[i].step <= s /\ Live(i)) \/ (jobs[i].step < s /\ Chaining(i))  BY <1>1, <2>2
  <2> QED BY <2>1, <2>3 DEF Coming
<1> QED BY <1>2

LEMMA QuietStuck ==
    ASSUME JobsTyped, QuietStep, \A i \in Ids : jobs'[i].status = jobs[i].status,
           \A i \in Ids' : i \notin Ids => jobs'[i].status # "running"
    PROVE  Stuck' \subseteq Stuck
<1>1. ASSUME NEW i \in Stuck' PROVE i \in Stuck
  <2>1. i \in Ids' /\ jobs'[i].status = "running" /\ \A u \in Tasks : ~HeldBy(u, i)'
      BY <1>1 DEF Stuck, Ticks, HeldBy
  <2>2. i \in Ids /\ jobs[i].status = "running" /\ \A u \in Tasks : ~HeldBy(u, i)
    <3>1. \A u \in Tasks : \A x : HeldBy(u, x)' <=> HeldBy(u, x)  BY QuietTicks
    <3> QED BY <2>1, <3>1
  <2> QED BY <2>2, StuckIs
<1> QED BY <1>1

\* Nothing but the calls that begin or end outside the ticks.
LEMMA QuietKeeps ==
    ASSUME JobsInv, JobsTyped', QuietStep, UNCHANGED <<failures, jobs, effects>>
    PROVE  JobsInv'
<1> USE DEF JobsInv
<1>1. /\ failures' = failures /\ jobs' = jobs /\ effects' = effects /\ Ids' = Ids
      /\ effects' \in [(1..MaxJobs) \X (1..Steps) -> Nat] /\ failures' \in Nat /\ failures \in Nat
    BY DEF JobsTyped, Ids
<1>2. \A x \in 1..MaxJobs, s \in 1..Steps : effects'[<<x, s>>] = effects[<<x, s>>] /\ effects[<<x, s>>] \in Nat
    BY <1>1
<1>3. RowsGrow  BY <1>1, <1>2 DEF RowsGrow
<1>4. RowsInv'  BY <1>1 DEF RowsInv, Finished, Effective, Chains, Follows
<1>5. TicksInv'  BY <1>1, <1>3, QuietFits
<1>6. RepeatInv'
  <2>1. \A x \in 1..MaxJobs, s \in 1..Steps : Coming(x, s)' \subseteq Coming(x, s)
    <3>1. \A x, s : Coming(x, s)' \subseteq Ids  BY <1>1 DEF Coming
    <3> QED BY <1>1, <1>3, <3>1, QuietComing
  <2> QED BY <1>1, <1>2, <2>1, RepeatStays
<1>7. StuckInv'
  <2>1. Stuck' \subseteq Stuck  BY <1>1, QuietStuck
  <2> QED BY <1>1, <2>1, StuckStays
<1> QED BY <1>4, <1>5, <1>6, <1>7

\* A job of a run of its own.
LEMMA FreshJobKeeps ==
    ASSUME JobsInv, JobsTyped', QuietStep, NEW kind \in {"single", "step"}, EnqueueJob(Len(jobs) + 1, kind, 1),
           UNCHANGED <<failures, effects>>
    PROVE  JobsInv'
<1> USE DEF JobsInv
<1>1. Len(jobs) \in Nat /\ MaxJobs \in Nat /\ 1 \in 1..Steps /\ Ids = 1..Len(jobs) /\ Len(jobs) < MaxJobs
    BY JobsShape, JobsAssumption DEF EnqueueJob
<1>2. PICK n \in 1..MaxJobs : n = Len(jobs) + 1  BY <1>1
<1>3. PICK job : job = [run |-> n, kind |-> kind, step |-> 1, status |-> "pending", attempts |-> 0]
    OBVIOUS
<1>4. job \in JobRows /\ job.run = n /\ job.kind = kind /\ job.step = 1 /\ job.status = "pending"
    BY <1>1, <1>3 DEF JobRows
<1>5. jobs' = Append(jobs, job)  BY <1>2, <1>3 DEF EnqueueJob, Enqueued
<1>6. /\ Ids' = Ids \cup {n} /\ n \notin Ids /\ jobs'[n] = job /\ Len(jobs') = n
      /\ \A i \in Ids : jobs'[i] = jobs[i]
    BY <1>1, <1>2, <1>4, <1>5, JobAppended
<1>7. /\ failures' = failures /\ effects' = effects
      /\ effects' \in [(1..MaxJobs) \X (1..Steps) -> Nat] /\ failures' \in Nat /\ failures \in Nat
      /\ \A x \in 1..MaxJobs, s \in 1..Steps : effects'[<<x, s>>] = effects[<<x, s>>] /\ effects[<<x, s>>] \in Nat
    BY DEF JobsTyped
<1>8. RowsGrow  BY <1>6, <1>7 DEF RowsGrow
<1>9. \A i \in Ids : jobs[i] \in JobRows /\ jobs[i].run \in 1..MaxJobs /\ jobs[i].run < n /\ jobs[i].step \in 1..Steps
    BY <1>1, <1>2, JobsShape DEF RowsInv, JobRows
<1>10. RowsInv'
  <2>1. \A i \in Ids' : jobs'[i].run <= i
    <3>1. \A i \in Ids : jobs'[i].run <= i  BY <1>6 DEF RowsInv
    <3> QED BY <1>4, <1>6, <3>1
  <2>2. \A r \in 1..MaxJobs, s \in 1..Steps : r > Len(jobs') => effects'[<<r, s>>] = 0
      BY <1>1, <1>2, <1>6, <1>7 DEF RowsInv
  <2>3. \A i, j \in Ids' : jobs'[i].run = jobs'[j].run => jobs'[i].kind = jobs'[j].kind
    <3>1. \A i, j \in Ids : jobs'[i].run = jobs'[j].run => jobs'[i].kind = jobs'[j].kind
        BY <1>6 DEF RowsInv
    <3>2. \A i \in Ids : jobs'[i].run # jobs'[n].run  BY <1>4, <1>6, <1>9
    <3> QED BY <1>6, <3>1, <3>2
  <2>4. \A i \in Ids' : jobs'[i].kind = "single" => jobs'[i].step = 1
    <3>1. \A i \in Ids : jobs'[i].kind = "single" => jobs'[i].step = 1  BY <1>6 DEF RowsInv
    <3> QED BY <1>4, <1>6, <3>1
  <2>5. \A i \in Ids' : \A s \in 1..jobs'[i].step : \E j \in Ids' : jobs'[j].run = jobs'[i].run /\ jobs'[j].step = s
    <3>1. ASSUME NEW i \in Ids, NEW s \in 1..jobs[i].step PROVE \E j \in Ids' : jobs'[j].run = jobs'[i].run /\ jobs'[j].step = s
      <4>1. PICK j \in Ids : jobs[j].run = jobs[i].run /\ jobs[j].step = s  BY DEF RowsInv
      <4> QED BY <1>6, <4>1
    <3>2. \A s \in 1..jobs'[n].step : jobs'[n].step = s  BY <1>4, <1>6
    <3> QED BY <1>6, <3>1, <3>2
  <2>6. \A i \in Ids' : jobs'[i].status = "done" => Finished(i)'
    <3>1. \A i \in Ids : jobs'[i].status = "done" => Finished(i)'
        BY <1>6, <1>7, <1>8, GrowKeeps DEF RowsInv
    <3> QED BY <1>4, <1>6, <3>1
  <2>7. \A i \in Ids' : jobs'[i].kind = "step" =>
           \E j \in Ids' : /\ jobs'[j].run = jobs'[i].run /\ jobs'[j].kind = "step"
                           /\ \/ jobs'[j].step = Steps
                              \/ jobs'[j].status # "done" /\ \A k \in Ids' : ~Follows(k, j)'
    <3>1. ASSUME NEW i \in Ids, jobs[i].kind = "step"
          PROVE  \E j \in Ids' : /\ jobs'[j].run = jobs'[i].run /\ jobs'[j].kind = "step"
                                 /\ \/ jobs'[j].step = Steps
                                    \/ jobs'[j].status # "done" /\ \A k \in Ids' : ~Follows(k, j)'
      <4>1. PICK j \in Ids : /\ jobs[j].run = jobs[i].run /\ jobs[j].kind = "step"
                             /\ \/ jobs[j].step = Steps
                                \/ jobs[j].status # "done" /\ \A k \in Ids : ~Follows(k, j)
          BY <3>1 DEF RowsInv
      <4>2. \A k \in Ids : Follows(k, j)' <=> Follows(k, j)  BY <1>7, <1>8, GrowKeeps
      <4>3. ~Follows(n, j)'  BY <1>4, <1>6, <1>9 DEF Follows
      <4>4. jobs[j].step = Steps \/ \A k \in Ids' : ~Follows(k, j)'  BY <1>6, <4>1, <4>2, <4>3
      <4> QED BY <1>6, <4>1, <4>4
    <3>2. \A k \in Ids' : ~Follows(k, n)'
      <4>1. \A k \in Ids : ~Follows(k, n)'  BY <1>4, <1>6, <1>9 DEF Follows
      <4>2. ~Follows(n, n)'  BY <1>4, <1>6 DEF Follows
      <4> QED BY <1>6, <4>1, <4>2
    <3>3. jobs'[n].status # "done"  BY <1>4, <1>6
    <3> QED BY <1>6, <3>1, <3>2, <3>3
  <2> QED BY <2>1, <2>2, <2>3, <2>4, <2>5, <2>6, <2>7 DEF RowsInv
<1>11. TicksInv'  BY <1>6, <1>7, <1>8, QuietFits
<1>12. RepeatInv'
  <2> SUFFICES ASSUME NEW x \in 1..MaxJobs, NEW s \in 1..Steps
               PROVE  effects'[<<x, s>>] + Cardinality(Coming(x, s)') <= 1 + failures'
      BY DEF RepeatInv
  <2>1. effects[<<x, s>>] + Cardinality(Coming(x, s)) <= 1 + failures  BY DEF RepeatInv
  <2>2. \A i \in Coming(x, s)' : i \in Ids' /\ jobs'[i].run = x  BY DEF Coming
  <2>3. \A i \in Ids : i \in Coming(x, s)' => i \in Coming(x, s)  BY <1>6, <1>8, QuietComing
  <2>4. CASE x # n
    <3>1. Coming(x, s)' \subseteq Coming(x, s)  BY <1>4, <1>6, <2>2, <2>3, <2>4
    <3>2. Cardinality(Coming(x, s)') \in Nat /\ Cardinality(Coming(x, s)) \in Nat /\ Cardinality(Coming(x, s)') <= Cardinality(Coming(x, s))
        BY <3>1, ComingIsFinite, CountLess
    <3> QED BY <1>7, <2>1, <3>2
  <2>5. CASE x = n
    <3>1. Coming(x, s)' \subseteq {n}  BY <1>6, <1>9, <2>2, <2>5
    <3>2. IsFiniteSet({n}) /\ Cardinality({n}) = 1  BY FS_Singleton
    <3>3. Cardinality(Coming(x, s)') \in Nat /\ Cardinality(Coming(x, s)') <= 1
        BY <3>1, <3>2, CountLess
    <3>4. effects'[<<x, s>>] = 0  BY <1>1, <1>2, <1>7, <2>5 DEF RowsInv
    <3> QED BY <1>7, <3>3, <3>4
  <2> QED BY <2>4, <2>5
<1>13. StuckInv'
  <2>1. Stuck' \subseteq Stuck  BY <1>4, <1>6, QuietStuck
  <2> QED BY <1>7, <2>1, StuckStays
<1> QED BY <1>10, <1>11, <1>12, <1>13

LEMMA CreateReminderKeeps ==
    ASSUME JobsInv, CreateReminder
    PROVE  JobsInv'
<1>1. EnqueueJob(Len(jobs) + 1, "single", 1) /\ task' = task /\ failures' = failures /\ effects' = effects
    BY DEF CreateReminder, taskVars
<1>2. QuietStep  BY <1>1 DEF QuietStep
<1>3. PICK job \in JobRows : jobs' = Append(jobs, job) /\ Len(jobs) < MaxJobs
  <2>1. 1 \in 1..Steps /\ Len(jobs) + 1 \in 1..MaxJobs
      BY <1>1, JobsShape, JobsAssumption DEF JobsInv, EnqueueJob
  <2> QED BY <1>1, <2>1 DEF EnqueueJob, Enqueued, JobRows
<1>4. jobs' \in Seq(JobRows) /\ Len(jobs') <= MaxJobs  BY <1>3, JobAppended DEF JobsInv
<1>5. JobsTyped'  BY <1>1, <1>4 DEF JobsInv, JobsTyped
<1> QED BY <1>1, <1>2, <1>5, FreshJobKeeps

LEMMA EnqueueFirstKeeps ==
    ASSUME JobsInv, NEW t \in Tasks, EnqueueFirst(t)
    PROVE  JobsInv'
<1>1. /\ EnqueueJob(Len(jobs) + 1, "step", 1) /\ At(t, "enqueue") /\ Ends(t) /\ failures' = failures /\ effects' = effects
    BY DEF EnqueueFirst
<1>2. task[t] \in [op : {"trigger"}, at : {"enqueue"}]  BY <1>1, JobPlaces DEF JobsInv
<1>3. PICK r : r = [op |-> "trigger", at |-> "over"]  OBVIOUS
<1>4. TaskMoves(t, r) /\ JobCall(r) /\ r.at = "over"
    BY <1>1, <1>2, <1>3, TaskEnds DEF JobsInv, JobsTyped, JobCall
<1>5. QuietStep  BY <1>2, <1>4, TasksAfter DEF QuietStep, Under
<1>6. PICK job \in JobRows : jobs' = Append(jobs, job) /\ Len(jobs) < MaxJobs
  <2>1. 1 \in 1..Steps /\ Len(jobs) + 1 \in 1..MaxJobs
      BY <1>1, JobsShape, JobsAssumption DEF JobsInv, EnqueueJob
  <2> QED BY <1>1, <2>1 DEF EnqueueJob, Enqueued, JobRows
<1>7. jobs' \in Seq(JobRows) /\ Len(jobs') <= MaxJobs  BY <1>6, JobAppended DEF JobsInv
<1>8. effects' \in [(1..MaxJobs) \X (1..Steps) -> Nat] /\ failures' \in Nat
    BY <1>1 DEF JobsInv, JobsTyped
<1>9. JobsTyped'  BY <1>4, <1>7, <1>8, JobsTypes DEF JobsInv
<1> QED BY <1>1, <1>5, <1>9, FreshJobKeeps

LEMMA ReadWorkflowKeeps ==
    ASSUME JobsInv, NEW t \in Tasks, ReadWorkflow(t)
    PROVE  JobsInv'
<1>1. Begins(t, [op |-> "trigger", at |-> "enqueue"]) /\ failures' = failures /\ jobs' = jobs /\ effects' = effects
    BY DEF ReadWorkflow, jobVars
<1>2. PICK r : r = [op |-> "trigger", at |-> "enqueue"]  OBVIOUS
<1>3. TaskMoves(t, r) /\ JobCall(r) /\ r.at = "enqueue" /\ r.op = "trigger" /\ task[t].at = "new"
    BY <1>1, <1>2, TaskBegins DEF JobsInv, JobsTyped, JobCall
<1>4. QuietStep  BY <1>3, TasksAfter DEF QuietStep, Under
<1>5. JobsTyped'  BY <1>1, <1>3, JobsTypes DEF JobsInv, JobsTyped
<1> QED BY <1>1, <1>4, <1>5, QuietKeeps

LEMMA SetEnabledKeeps ==
    ASSUME JobsInv, SetEnabled
    PROVE  JobsInv'
<1>1. task' = task /\ failures' = failures /\ jobs' = jobs /\ effects' = effects
    BY DEF SetEnabled, taskVars
<1>2. QuietStep  BY <1>1 DEF QuietStep
<1>3. JobsTyped'  BY <1>1 DEF JobsInv, JobsTyped
<1> QED BY <1>1, <1>2, <1>3, QuietKeeps

LEMMA ClaimDueJobsKeeps ==
    ASSUME JobsInv, NEW t \in Tasks, ClaimDueJobs(t)
    PROVE  JobsInv'
<1> USE DEF JobsInv
<1>1. PICK J \in (SUBSET DueJobs) \ {{}} :
         /\ Cardinality(J) = Batch \/ (Cardinality(J) < Batch /\ J = DueJobs)
         /\ jobs' = MarkRunning(J)
         /\ Begins(t, [op |-> "jobs", left |-> J, at |-> "run"])
    BY DEF ClaimDueJobs
<1>2. failures' = failures /\ effects' = effects  BY DEF ClaimDueJobs
<1>3. J \subseteq Ids /\ (\A i \in J : jobs[i].status = "pending") /\ Cardinality(J) <= Batch
  <2>1. J \subseteq Ids /\ \A i \in J : jobs[i].status = "pending"  BY DEF DueJobs
  <2>2. Cardinality(J) \in Nat  BY <2>1, JobsShape, CountLess
  <2> QED BY <1>1, <2>1, <2>2, JobsAssumption
<1>4. J \in SUBSET (1..MaxJobs)  BY <1>3, JobsShape, JobsAssumption DEF JobsTyped
<1>5. PICK r : r = [op |-> "jobs", left |-> J, at |-> "run"]  OBVIOUS
<1>6. TaskMoves(t, r) /\ r.at = "run" /\ r.op = "jobs" /\ r.left = J /\ task[t].at = "new"
    BY <1>1, <1>5, TaskBegins DEF JobsTyped
<1>7. JobCall(r)  BY <1>4, <1>5 DEF JobCall
<1>8. \A i \in Ids : jobs[i] \in JobRows /\ [jobs[i] EXCEPT !.status = "running"] \in JobRows
  <2>1. \A i \in Ids : jobs[i] \in JobRows  BY JobsShape
  <2> QED BY <2>1 DEF JobRows
<1>9. /\ jobs' \in [Ids -> JobRows]
      /\ \A i \in Ids : jobs'[i] = IF i \in J THEN [jobs[i] EXCEPT !.status = "running"] ELSE jobs[i]
    BY <1>1, <1>8 DEF MarkRunning
<1>10. jobs' \in Seq(JobRows) /\ Len(jobs') = Len(jobs) /\ Ids' = Ids  BY <1>9, JobsRewritten
<1>11. /\ \A i \in Ids : jobs'[i].run = jobs[i].run /\ jobs'[i].kind = jobs[i].kind /\ jobs'[i].step = jobs[i].step
       /\ \A i \in J : jobs'[i].status = "running"
       /\ \A i \in Ids : i \notin J => jobs'[i].status = jobs[i].status
    BY <1>3, <1>8, <1>9 DEF JobRows
<1>12. /\ effects' \in [(1..MaxJobs) \X (1..Steps) -> Nat] /\ failures' \in Nat /\ failures \in Nat
       /\ \A x \in 1..MaxJobs, s \in 1..Steps : effects'[<<x, s>>] = effects[<<x, s>>] /\ effects[<<x, s>>] \in Nat
    BY <1>2 DEF JobsTyped
<1>13. RowsGrow  BY <1>10, <1>11, <1>12 DEF RowsGrow
<1>14. JobsTyped'
  <2>1. Len(jobs') <= MaxJobs  BY <1>10 DEF JobsTyped
  <2> QED BY <1>6, <1>7, <1>10, <1>12, <2>1, JobsTypes
<1>15. RowsInv'
  <2>1. \A i \in Ids : jobs'[i].status = "done" => jobs[i].status = "done"  BY <1>11
  <2> QED BY <1>9, <1>12, <1>13, <2>1, RowsStay
<1>16. /\ \A p : At(t, p)' <=> r.at = p
       /\ Under(t, "jobs")' /\ Held(t)' = J
       /\ \A i : HeldBy(t, i)' <=> i \in J
       /\ \A i : ~HeldBy(t, i)
  <2>1. (\A p : At(t, p)' <=> r.at = p) /\ Under(t, "jobs")' /\ Held(t)' = J
      BY <1>6, TasksAfter DEF Held
  <2>2. \A i : HeldBy(t, i)' <=> i \in J  BY <2>1 DEF HeldBy
  <2>3. \A i : ~HeldBy(t, i)  BY <1>6 DEF HeldBy, Under
  <2> QED BY <2>1, <2>2, <2>3
<1>17. \A i \in J : \A u \in Tasks : ~HeldBy(u, i)
  <2>1. \A u \in Tasks : \A i : HeldBy(u, i) => jobs[i].status = "running"
      BY DEF TicksInv, TickFits, HeldBy
  <2> QED BY <1>3, <2>1
<1>18. TicksInv'
  <2>1. TickFits(t)'  BY <1>3, <1>6, <1>10, <1>11, <1>16 DEF TickFits
  <2>2. \A i \in Ids : \A u \in Tasks : u # t /\ HeldBy(u, i) => jobs'[i].status = jobs[i].status
      BY <1>11, <1>17
  <2>3. \A i : HeldBy(t, i)' => \A u \in Tasks : ~HeldBy(u, i)  BY <1>16, <1>17
  <2> QED BY <1>6, <1>12, <1>13, <2>1, <2>2, <2>3, TicksMove
<1>19. RepeatInv'
  <2>1. \A i \in Ids : jobs'[i].status = "pending" => Live(i)  BY <1>11 DEF Live
  <2>2. \A i \in Ids : LiveAt(t, i)' => Live(i)
    <3>1. \A i : LiveAt(t, i)' => i \in J  BY <1>16 DEF LiveAt
    <3> QED BY <1>3, <3>1 DEF Live
  <2>3. ~At(t, "chain")'  BY <1>6, <1>16
  <2>4. \A x \in 1..MaxJobs, s \in 1..Steps : Coming(x, s)' \subseteq Coming(x, s)
      BY <1>6, <1>10, <1>13, <2>1, <2>2, <2>3, ComingStays
  <2> QED BY <1>2, <1>12, <2>4, RepeatStays
<1>20. StuckInv'
  <2>1. Stuck' \subseteq Stuck  BY <1>6, <1>10, <1>11, <1>16, StuckElse
  <2> QED BY <1>2, <1>12, <2>1, StuckStays
<1> QED BY <1>14, <1>15, <1>18, <1>19, <1>20

\* A tick goes on with a job it holds: the rows stay, and effects may grow.
LEMMA TickGoesOn ==
    ASSUME JobsInv, NEW t \in Tasks, Under(t, "jobs"), NEW i \in Ids, i \in task[t].left,
           NEW r, TaskMoves(t, r), JobCall(r), r.op = "jobs", r.left = task[t].left, r.job = i, r.at \in {"chain", "done", "retry"},
           jobs' = jobs, failures' \in Nat, failures <= failures',
           effects' \in [(1..MaxJobs) \X (1..Steps) -> Nat],
           \A x \in 1..MaxJobs, s \in 1..Steps : /\ effects'[<<x, s>>] >= effects[<<x, s>>]
                                                 /\ x > Len(jobs) => effects'[<<x, s>>] = effects[<<x, s>>],
           r.at = "chain" => Chains(i) /\ Effective(i)',
           r.at = "done" => Finished(i)'
    PROVE  /\ JobsTyped' /\ RowsInv' /\ TicksInv' /\ StuckInv' /\ RowsGrow /\ Ids' = Ids
           /\ \A j : HeldBy(t, j) <=> j \in task[t].left
           /\ \A j : LiveAt(t, j)' <=> j \in task[t].left /\ (r.at = "retry" \/ j # i)
           /\ \A j : At(t, "chain")' /\ task'[t].job = j => r.at = "chain" /\ j = i
<1> USE DEF JobsInv
<1>1. Ids' = Ids /\ jobs' \in [Ids -> JobRows] /\ jobs' \in Seq(JobRows) /\ Len(jobs') <= MaxJobs
  <2>1. jobs \in [1..Len(jobs) -> JobRows] /\ Ids = 1..Len(jobs) /\ Ids' = Ids
      BY JobsShape DEF JobsTyped, Ids
  <2> QED BY <2>1 DEF JobsTyped
<1>2. RowsGrow  BY <1>1 DEF RowsGrow
<1>3. JobsTyped'  BY <1>1, JobsTypes
<1>4. RowsInv'  BY <1>1, <1>2, RowsStay
<1>5. /\ \A p : At(t, p)' <=> r.at = p
      /\ Under(t, "jobs")' /\ Held(t)' = task[t].left /\ task'[t].job = i
    BY TasksAfter DEF Held
<1>6. /\ \A j : HeldBy(t, j) <=> j \in task[t].left
      /\ \A j : HeldBy(t, j)' <=> j \in task[t].left
    BY <1>5 DEF HeldBy, Held
<1>7. TickFits(t)  BY DEF TicksInv
<1>8. TickFits(t)'
  <2>1. Held(t)' \in SUBSET Ids' /\ Cardinality(Held(t)') <= Batch /\ \A j \in Held(t)' : jobs'[j].status = "running"
      BY <1>1, <1>5, <1>7 DEF TickFits, Held
  <2>2. At(t, "chain")' => Chains(i)' /\ Effective(i)'  BY <1>5 DEF Chains
  <2>3. At(t, "done")' => Finished(i)'  BY <1>5
  <2>4. task'[t].job \in Held(t)'  BY <1>5
  <2> QED BY <1>5, <2>1, <2>2, <2>3, <2>4 DEF TickFits
<1>9. TicksInv'  BY <1>2, <1>6, <1>8, TicksMove
<1>10. StuckInv'
  <2>1. Stuck' \subseteq Stuck  BY <1>1, <1>6, StuckElse
  <2> QED BY <2>1, StuckStays
<1>11. \A j : LiveAt(t, j)' <=> j \in task[t].left /\ (r.at = "retry" \/ j # i)
    BY <1>5, <1>6 DEF LiveAt
<1>12. \A j : At(t, "chain")' /\ task'[t].job = j => r.at = "chain" /\ j = i  BY <1>5
<1> QED BY <1>1, <1>2, <1>3, <1>4, <1>6, <1>9, <1>10, <1>11, <1>12

\* What an effect counts.
LEMMA EffectCounts ==
    ASSUME JobsTyped, RowsInv, NEW i \in Ids, Effect(i)
    PROVE  /\ effects' \in [(1..MaxJobs) \X (1..Steps) -> Nat]
           /\ \A x \in 1..MaxJobs, s \in 1..Steps :
                 /\ effects'[<<x, s>>] = effects[<<x, s>>] + (IF x = jobs[i].run /\ s = jobs[i].step THEN 1 ELSE 0)
                 /\ effects'[<<x, s>>] \in Nat /\ effects[<<x, s>>] \in Nat
                 /\ x > Len(jobs) => effects'[<<x, s>>] = effects[<<x, s>>]
           /\ jobs[i].run \in 1..MaxJobs /\ jobs[i].step \in 1..Steps
           /\ effects'[<<jobs[i].run, jobs[i].step>>] > 0
<1>1. jobs[i].run \in 1..MaxJobs /\ jobs[i].step \in 1..Steps /\ jobs[i].run <= Len(jobs) /\ Len(jobs) \in Nat
  <2>1. jobs[i] \in JobRows /\ i \in 1..Len(jobs) /\ Len(jobs) \in Nat /\ jobs[i].run <= i
      BY JobsShape DEF RowsInv
  <2> QED BY <2>1, JobsAssumption DEF JobRows
<1>2. PICK q : q = <<jobs[i].run, jobs[i].step>>  OBVIOUS
<1>3. q \in (1..MaxJobs) \X (1..Steps) /\ effects' = [effects EXCEPT ![q] = @ + 1]
    BY <1>1, <1>2 DEF Effect
<1>4. \A x \in 1..MaxJobs, s \in 1..Steps : effects[<<x, s>>] \in Nat  BY DEF JobsTyped
<1>5. effects[q] + 1 \in Nat /\ effects[q] \in Nat  BY <1>3 DEF JobsTyped
<1>6. effects' \in [(1..MaxJobs) \X (1..Steps) -> Nat] /\ effects'[q] = effects[q] + 1
    BY <1>3, <1>5 DEF JobsTyped
<1>7. \A x \in 1..MaxJobs, s \in 1..Steps : <<x, s>> # q => effects'[<<x, s>>] = effects[<<x, s>>]
    BY <1>3 DEF JobsTyped
<1>8. ASSUME NEW x \in 1..MaxJobs, NEW s \in 1..Steps
      PROVE  /\ effects'[<<x, s>>] = effects[<<x, s>>] + (IF x = jobs[i].run /\ s = jobs[i].step THEN 1 ELSE 0)
             /\ effects'[<<x, s>>] \in Nat /\ effects[<<x, s>>] \in Nat
             /\ x > Len(jobs) => effects'[<<x, s>>] = effects[<<x, s>>]
  <2>1. CASE x = jobs[i].run /\ s = jobs[i].step
    <3>1. <<x, s>> = q /\ ~(x > Len(jobs))  BY <1>1, <1>2, <2>1
    <3> QED BY <1>5, <1>6, <2>1, <3>1
  <2>2. CASE ~(x = jobs[i].run /\ s = jobs[i].step)
    <3>1. <<x, s>> # q  BY <1>2, <2>2
    <3>2. effects'[<<x, s>>] = effects[<<x, s>>] /\ effects[<<x, s>>] \in Nat  BY <1>4, <1>7, <3>1
    <3> QED BY <2>2, <3>2
  <2> QED BY <2>1, <2>2
<1>9. effects'[<<jobs[i].run, jobs[i].step>>] > 0  BY <1>2, <1>5, <1>6
<1> QED BY <1>1, <1>6, <1>8, <1>9

LEMMA ExecuteKeeps ==
    ASSUME JobsInv, NEW t \in Tasks, Execute(t)
    PROVE  JobsInv'
<1> USE DEF JobsInv
<1>1. At(t, "run") /\ failures' = failures /\ jobs' = jobs  BY DEF Execute
<1>2. task[t] \in [op : {"jobs"}, left : SUBSET (1..MaxJobs), at : {"run"}] /\ Under(t, "jobs")
    BY <1>1, JobPlaces
<1>3. PICK i \in Held(t) : Effect(i) /\ GoesWith(t, "job", i, IF Chains(i) THEN "chain" ELSE "done")
    BY DEF Execute
<1>4. i \in Ids /\ i \in task[t].left /\ i \in 1..MaxJobs /\ jobs[i].status = "running"
  <2>1. TickFits(t)  BY DEF TicksInv
  <2>2. i \in Ids /\ jobs[i].status = "running"  BY <1>2, <1>3, <2>1 DEF TickFits
  <2> QED BY <1>2, <1>3, <2>2 DEF Held
<1>5. PICK p \in {"chain", "done"} : p = (IF Chains(i) THEN "chain" ELSE "done")  OBVIOUS
<1>14. PICK r : r = With(task[t], "job", i, p)  OBVIOUS
<1>6. r = [op |-> "jobs", left |-> task[t].left, job |-> i, at |-> p]  BY <1>2, <1>14 DEF With
<1>7. TaskMoves(t, r) /\ JobCall(r)
  <2>1. TaskMoves(t, r)  BY <1>3, <1>5, <1>14, TaskGoesWith DEF JobsTyped
  <2> QED BY <1>2, <1>4, <1>6, <2>1 DEF JobCall
<1>8. /\ effects' \in [(1..MaxJobs) \X (1..Steps) -> Nat]
      /\ \A x \in 1..MaxJobs, s \in 1..Steps :
            /\ effects'[<<x, s>>] = effects[<<x, s>>] + (IF x = jobs[i].run /\ s = jobs[i].step THEN 1 ELSE 0)
            /\ effects'[<<x, s>>] \in Nat /\ effects[<<x, s>>] \in Nat
            /\ x > Len(jobs) => effects'[<<x, s>>] = effects[<<x, s>>]
      /\ jobs[i].run \in 1..MaxJobs /\ jobs[i].step \in 1..Steps
      /\ effects'[<<jobs[i].run, jobs[i].step>>] > 0
    BY <1>3, <1>4, EffectCounts
<1>9. Effective(i)' /\ (~Chains(i) => Finished(i)')  BY <1>1, <1>8 DEF Effective, Finished, Chains
<1>10. /\ JobsTyped' /\ RowsInv' /\ TicksInv' /\ StuckInv' /\ RowsGrow /\ Ids' = Ids
       /\ \A j : HeldBy(t, j) <=> j \in task[t].left
       /\ \A j : LiveAt(t, j)' <=> j \in task[t].left /\ (r.at = "retry" \/ j # i)
       /\ \A j : At(t, "chain")' /\ task'[t].job = j => r.at = "chain" /\ j = i
  <2>1. \A x \in 1..MaxJobs, s \in 1..Steps : /\ effects'[<<x, s>>] >= effects[<<x, s>>]
                                              /\ x > Len(jobs) => effects'[<<x, s>>] = effects[<<x, s>>]
    <3> TAKE x \in 1..MaxJobs, s \in 1..Steps
    <3>1. effects[<<x, s>>] \in Nat /\ effects'[<<x, s>>] = effects[<<x, s>>] + (IF x = jobs[i].run /\ s = jobs[i].step THEN 1 ELSE 0)
        BY <1>8
    <3>2. x > Len(jobs) => effects'[<<x, s>>] = effects[<<x, s>>]  BY <1>8
    <3> QED BY <3>1, <3>2
  <2>2. failures' \in Nat /\ failures <= failures'  BY <1>1 DEF JobsTyped
  <2>3. r.op = "jobs" /\ r.left = task[t].left /\ r.job = i /\ r.at = p  BY <1>6
  <2>4. (r.at = "chain" => Chains(i) /\ Effective(i)') /\ (r.at = "done" => Finished(i)')
      BY <1>5, <1>9, <2>3
  <2>5. effects' \in [(1..MaxJobs) \X (1..Steps) -> Nat] /\ r.at \in {"chain", "done", "retry"}
      BY <1>5, <1>8, <2>3
  <2>6. jobs' = jobs  BY <1>1
  <2> QED BY <1>2, <1>4, <1>7, <2>1, <2>2, <2>3, <2>4, <2>5, <2>6, TickGoesOn
<1>11. \A j : LiveAt(t, j) <=> j \in task[t].left  BY <1>1, <1>10 DEF LiveAt
<1>12. /\ \A x \in 1..MaxJobs, s \in 1..Steps : Coming(x, s)' \subseteq Coming(x, s)
       /\ \A x \in 1..MaxJobs, s \in 1..Steps : x = jobs[i].run /\ s = jobs[i].step => i \in Coming(x, s) /\ i \notin Coming(x, s)'
  <2>1. \A j \in Ids : jobs'[j].status = "pending" => Live(j)  BY <1>1 DEF Live
  <2>2. \A j \in Ids : LiveAt(t, j)' => Live(j)  BY <1>10, <1>11 DEF Live
  <2>3. \A j \in Ids : At(t, "chain")' /\ task'[t].job = j => Live(j)
      BY <1>4, <1>10, <1>11 DEF Live
  <2>4. \A x \in 1..MaxJobs, s \in 1..Steps : Coming(x, s)' \subseteq Coming(x, s)
      BY <1>7, <1>10, <2>1, <2>2, <2>3, ComingStays
  <2>5. Live(i) /\ ~Live(i)'
    <3>1. Live(i)  BY <1>4, <1>11 DEF Live
    <3>2. ~LiveAt(t, i)'  BY <1>5, <1>6, <1>10
    <3>3. \A u \in Tasks : u # t => ~LiveAt(u, i)'
      <4>1. \A u \in Tasks : u # t => ~HeldBy(u, i)  BY <1>4, <1>10 DEF TicksInv
      <4> QED BY <1>7, <4>1, HeldElse DEF LiveAt
    <3>4. jobs'[i].status # "pending"  BY <1>1, <1>4
    <3> QED BY <3>1, <3>2, <3>3, <3>4 DEF Live
  <2>6. ASSUME NEW x \in 1..MaxJobs, NEW s \in 1..Steps, x = jobs[i].run, s = jobs[i].step
        PROVE  i \in Coming(x, s) /\ i \notin Coming(x, s)'
    <3>1. i \in Coming(x, s)  BY <1>4, <2>5, <2>6 DEF Coming
    <3>2. i \notin Coming(x, s)'  BY <1>1, <2>5, <2>6 DEF Coming
    <3> QED BY <3>1, <3>2
  <2> QED BY <2>4, <2>6
<1>13. RepeatInv'
  <2> SUFFICES ASSUME NEW x \in 1..MaxJobs, NEW s \in 1..Steps
               PROVE  effects'[<<x, s>>] + Cardinality(Coming(x, s)') <= 1 + failures'
      BY DEF RepeatInv
  <2>1. effects[<<x, s>>] + Cardinality(Coming(x, s)) <= 1 + failures  BY DEF RepeatInv
  <2>2. IsFiniteSet(Coming(x, s))  BY ComingIsFinite
  <2>3. /\ Cardinality(Coming(x, s)') \in Nat /\ Cardinality(Coming(x, s)) \in Nat
        /\ Cardinality(Coming(x, s)') <= Cardinality(Coming(x, s))
        /\ \A j \in Coming(x, s) : j \notin Coming(x, s)' => Cardinality(Coming(x, s)') <= Cardinality(Coming(x, s)) - 1
      BY <1>12, <2>2, CountLess
  <2>4. failures' = failures /\ failures \in Nat /\ effects[<<x, s>>] \in Nat
      BY <1>1, <1>8 DEF JobsTyped
  <2>5. CASE x = jobs[i].run /\ s = jobs[i].step
    <3>1. effects'[<<x, s>>] = effects[<<x, s>>] + 1  BY <1>8, <2>5
    <3>2. Cardinality(Coming(x, s)') <= Cardinality(Coming(x, s)) - 1  BY <1>12, <2>3, <2>5
    <3> QED BY <2>1, <2>3, <2>4, <3>1, <3>2
  <2>6. CASE ~(x = jobs[i].run /\ s = jobs[i].step)
    <3>1. effects'[<<x, s>>] = effects[<<x, s>>]  BY <1>8, <2>4, <2>6
    <3> QED BY <2>1, <2>3, <2>4, <3>1
  <2> QED BY <2>5, <2>6
<1> QED BY <1>10, <1>13

LEMMA ExecuteFailsKeeps ==
    ASSUME JobsInv, NEW t \in Tasks, ExecuteFails(t)
    PROVE  JobsInv'
<1> USE DEF JobsInv
<1>1. At(t, "run") /\ jobs' = jobs  BY DEF ExecuteFails
<1>2. task[t] \in [op : {"jobs"}, left : SUBSET (1..MaxJobs), at : {"run"}] /\ Under(t, "jobs")
    BY <1>1, JobPlaces
<1>3. PICK i \in Held(t) : /\ UNCHANGED <<failures, effects>> \/ (Rejected /\ Effect(i))
                           /\ GoesWith(t, "job", i, "retry")
    BY DEF ExecuteFails
<1>4. i \in Ids /\ i \in task[t].left /\ i \in 1..MaxJobs
  <2>1. TickFits(t)  BY DEF TicksInv
  <2>2. i \in Ids  BY <1>2, <1>3, <2>1 DEF TickFits
  <2> QED BY <1>2, <1>3, <2>2 DEF Held
<1>5. PICK r : r = With(task[t], "job", i, "retry")  OBVIOUS
<1>6. r = [op |-> "jobs", left |-> task[t].left, job |-> i, at |-> "retry"]  BY <1>2, <1>5 DEF With
<1>7. TaskMoves(t, r) /\ JobCall(r)
    BY <1>2, <1>3, <1>4, <1>5, <1>6, TaskGoesWith DEF JobsTyped, JobCall
<1>8. /\ effects' \in [(1..MaxJobs) \X (1..Steps) -> Nat] /\ failures' \in Nat /\ failures <= failures'
      /\ \A x \in 1..MaxJobs, s \in 1..Steps :
            /\ effects'[<<x, s>>] >= effects[<<x, s>>] /\ effects'[<<x, s>>] - effects[<<x, s>>] <= failures' - failures
            /\ x > Len(jobs) => effects'[<<x, s>>] = effects[<<x, s>>]
  <2>1. failures \in Nat /\ effects \in [(1..MaxJobs) \X (1..Steps) -> Nat]  BY DEF JobsTyped
  <2>2. CASE UNCHANGED <<failures, effects>>
    <3>1. failures' = failures /\ effects' = effects  BY <2>2
    <3>2. \A x \in 1..MaxJobs, s \in 1..Steps : effects'[<<x, s>>] = effects[<<x, s>>] /\ effects[<<x, s>>] \in Nat
        BY <2>1, <3>1
    <3> QED BY <2>1, <3>1, <3>2
  <2>3. CASE Rejected /\ Effect(i)
    <3>1. failures' = failures + 1  BY <2>3 DEF Rejected
    <3>2. /\ effects' \in [(1..MaxJobs) \X (1..Steps) -> Nat]
          /\ \A x \in 1..MaxJobs, s \in 1..Steps :
                /\ effects'[<<x, s>>] = effects[<<x, s>>] + (IF x = jobs[i].run /\ s = jobs[i].step THEN 1 ELSE 0)
                /\ effects'[<<x, s>>] \in Nat /\ effects[<<x, s>>] \in Nat
                /\ x > Len(jobs) => effects'[<<x, s>>] = effects[<<x, s>>]
        BY <1>4, <2>3, EffectCounts
    <3> QED BY <2>1, <3>1, <3>2
  <2> QED BY <1>3, <2>2, <2>3
<1>9. r.op = "jobs" /\ r.left = task[t].left /\ r.job = i /\ r.at = "retry"  BY <1>6
<1>10. /\ JobsTyped' /\ RowsInv' /\ TicksInv' /\ StuckInv' /\ RowsGrow /\ Ids' = Ids
       /\ \A j : HeldBy(t, j) <=> j \in task[t].left
       /\ \A j : LiveAt(t, j)' <=> j \in task[t].left /\ (r.at = "retry" \/ j # i)
       /\ \A j : At(t, "chain")' /\ task'[t].job = j => r.at = "chain" /\ j = i
    BY <1>1, <1>2, <1>4, <1>7, <1>8, <1>9, TickGoesOn
<1>11. \A x \in 1..MaxJobs, s \in 1..Steps : Coming(x, s)' \subseteq Coming(x, s)
  <2>1. \A j \in Ids : jobs'[j].status = "pending" => Live(j)  BY <1>1 DEF Live
  <2>2. \A j : LiveAt(t, j)' => LiveAt(t, j)  BY <1>1, <1>10 DEF LiveAt
  <2>3. \A j \in Ids : LiveAt(t, j)' => Live(j)  BY <2>2 DEF Live
  <2>4. \A j \in Ids : ~(At(t, "chain")' /\ task'[t].job = j)  BY <1>9, <1>10
  <2> QED BY <1>7, <1>10, <2>1, <2>3, <2>4, ComingStays
<1>12. RepeatInv'  BY <1>8, <1>11, RepeatStays
<1> QED BY <1>10, <1>12

LEMMA CommandFailsKeeps ==
    ASSUME JobsInv, NEW t \in Tasks, CommandFails(t)
    PROVE  JobsInv'
<1> USE DEF JobsInv
<1>1. /\ At(t, "chain") \/ At(t, "done")
      /\ failures' = failures + 1 /\ failures \in Nat /\ Goes(t, "retry") /\ jobs' = jobs /\ effects' = effects
    BY DEF CommandFails, Rejected, JobsTyped
<1>2. /\ task[t] \in [op : {"jobs"}, left : SUBSET (1..MaxJobs), job : 1..MaxJobs, at : {"chain", "done", "retry"}]
      /\ Under(t, "jobs")
    BY <1>1, JobPlaces
<1>3. PICK i \in Ids : i = task[t].job /\ i \in task[t].left
  <2>1. TickFits(t)  BY DEF TicksInv
  <2>2. task[t].job \in Ids /\ task[t].job \in task[t].left  BY <1>1, <1>2, <2>1 DEF TickFits, Held
  <2> QED BY <2>2
<1>4. PICK r : r = [task[t] EXCEPT !.at = "retry"]  OBVIOUS
<1>5. TaskMoves(t, r) /\ JobCall(r)  BY <1>1, <1>2, <1>4, TaskGoes DEF JobsTyped, JobCall
<1>6. r.op = "jobs" /\ r.left = task[t].left /\ r.job = i /\ r.at = "retry"  BY <1>2, <1>3, <1>4
<1>7. /\ effects' \in [(1..MaxJobs) \X (1..Steps) -> Nat] /\ failures' \in Nat /\ failures <= failures'
      /\ \A x \in 1..MaxJobs, s \in 1..Steps : effects'[<<x, s>>] = effects[<<x, s>>] /\ effects[<<x, s>>] \in Nat
    BY <1>1 DEF JobsTyped
<1>8. /\ JobsTyped' /\ RowsInv' /\ TicksInv' /\ StuckInv' /\ RowsGrow /\ Ids' = Ids
      /\ \A j : HeldBy(t, j) <=> j \in task[t].left
      /\ \A j : LiveAt(t, j)' <=> j \in task[t].left /\ (r.at = "retry" \/ j # i)
      /\ \A j : At(t, "chain")' /\ task'[t].job = j => r.at = "chain" /\ j = i
  <2>1. \A x \in 1..MaxJobs, s \in 1..Steps : /\ effects'[<<x, s>>] >= effects[<<x, s>>]
                                              /\ x > Len(jobs) => effects'[<<x, s>>] = effects[<<x, s>>]
    <3> TAKE x \in 1..MaxJobs, s \in 1..Steps
    <3>1. effects'[<<x, s>>] = effects[<<x, s>>] /\ effects[<<x, s>>] \in Nat  BY <1>7
    <3> QED BY <3>1
  <2>2. (r.at = "chain" => Chains(i) /\ Effective(i)') /\ (r.at = "done" => Finished(i)')  BY <1>6
  <2> QED BY <1>1, <1>2, <1>3, <1>5, <1>6, <1>7, <2>1, <2>2, TickGoesOn
<1>9. \A j : LiveAt(t, j)' => LiveAt(t, j) \/ j = i  BY <1>3, <1>8 DEF LiveAt
<1>10. RepeatInv'
  <2> SUFFICES ASSUME NEW x \in 1..MaxJobs, NEW s \in 1..Steps
               PROVE  effects'[<<x, s>>] + Cardinality(Coming(x, s)') <= 1 + failures'
      BY DEF RepeatInv
  <2>1. \A j \in Ids : j # i => (Live(j)' => Live(j)) /\ (Chaining(j)' => Chaining(j))
    <3> SUFFICES ASSUME NEW j \in Ids, j # i PROVE (Live(j)' => Live(j)) /\ (Chaining(j)' => Chaining(j))
        OBVIOUS
    <3>1. /\ \A u \in Tasks : u # t => (LiveAt(u, j)' <=> LiveAt(u, j))
          /\ \A u \in Tasks : u # t => task'[u] = task[u]
          /\ \A u \in Tasks : u # t => (At(u, "chain")' <=> At(u, "chain"))
        BY <1>5, HeldElse
    <3>2. Live(j)' => Live(j)  BY <1>1, <1>9, <3>1 DEF Live
    <3>3. Chaining(j)' => Chaining(j)  BY <1>6, <1>8, <3>1 DEF Chaining
    <3> QED BY <3>2, <3>3
  <2>2. Coming(x, s)' \subseteq Coming(x, s) \cup {i}  BY <1>1, <1>8, <2>1 DEF Coming
  <2>3. /\ Cardinality(Coming(x, s)') \in Nat /\ Cardinality(Coming(x, s)) \in Nat
        /\ Cardinality(Coming(x, s)') <= Cardinality(Coming(x, s)) + 1
      BY <2>2, ComingIsFinite, CountMore
  <2>4. effects[<<x, s>>] + Cardinality(Coming(x, s)) <= 1 + failures  BY DEF RepeatInv
  <2> QED BY <1>1, <1>7, <2>3, <2>4
<1> QED BY <1>8, <1>10

LEMMA FailJobKeeps ==
    ASSUME JobsInv, NEW t \in Tasks, FailJob(t)
    PROVE  JobsInv'
<1> USE DEF JobsInv
<1>1. Fails(t) /\ jobs' = jobs /\ effects' = effects  BY DEF FailJob
<1>2. /\ TaskMoves(t, Failed) /\ Failed.at = "failed" /\ task[t].at \notin {"new", "over", "failed"}
      /\ failures' \in Nat /\ failures' = failures + 1 /\ failures \in Nat
    BY <1>1, TaskFails DEF JobsTyped
<1>3. /\ effects' \in [(1..MaxJobs) \X (1..Steps) -> Nat] /\ Ids' = Ids
      /\ \A x \in 1..MaxJobs, s \in 1..Steps : effects'[<<x, s>>] = effects[<<x, s>>] /\ effects[<<x, s>>] \in Nat
    BY <1>1 DEF JobsTyped, Ids
<1>4. RowsGrow  BY <1>1, <1>3 DEF RowsGrow
<1>5. JobsTyped'
  <2>1. jobs' \in Seq(JobRows) /\ Len(jobs') <= MaxJobs  BY <1>1 DEF JobsTyped
  <2>2. JobCall(Failed)  BY DEF JobCall
  <2> QED BY <1>2, <1>3, <2>1, <2>2, JobsTypes
<1>6. RowsInv'  BY <1>1, <1>3 DEF RowsInv, Finished, Effective, Chains, Follows
<1>7. (\A p : At(t, p)' <=> p = "failed") /\ ~Under(t, "jobs")' /\ \A i : ~HeldBy(t, i)'
  <2>1. (\A p : At(t, p)' <=> p = "failed") /\ ~Under(t, "jobs")'  BY <1>2, TasksAfter
  <2> QED BY <2>1 DEF HeldBy
<1>8. TicksInv'
  <2>1. TickFits(t)'  BY <1>7 DEF TickFits
  <2>2. \A i \in Ids : jobs'[i].status = jobs[i].status  BY <1>1
  <2> QED BY <1>2, <1>3, <1>4, <1>7, <2>1, <2>2, TicksMove
<1>9. RepeatInv'
  <2>1. \A i \in Ids : jobs'[i].status = "pending" => Live(i)  BY <1>1 DEF Live
  <2>2. \A i \in Ids : ~LiveAt(t, i)' /\ ~At(t, "chain")'  BY <1>7 DEF LiveAt
  <2>3. \A x \in 1..MaxJobs, s \in 1..Steps : Coming(x, s)' \subseteq Coming(x, s)
      BY <1>2, <1>3, <1>4, <2>1, <2>2, ComingStays
  <2>4. \A x \in 1..MaxJobs, s \in 1..Steps : effects'[<<x, s>>] - effects[<<x, s>>] <= failures' - failures
    <3> TAKE x \in 1..MaxJobs, s \in 1..Steps
    <3>1. effects'[<<x, s>>] = effects[<<x, s>>] /\ effects[<<x, s>>] \in Nat  BY <1>3
    <3> QED BY <1>2, <3>1
  <2> QED BY <1>2, <1>3, <2>3, <2>4, RepeatStays
<1>10. StuckInv'
  <2>1. PICK H \in SUBSET Ids : /\ \A i \in Ids : HeldBy(t, i) <=> i \in H
                                /\ Cardinality(H) <= Batch
    <3>1. TickFits(t)  BY DEF TicksInv
    <3>2. CASE Under(t, "jobs")  BY <3>1, <3>2 DEF TickFits, HeldBy
    <3>3. CASE ~Under(t, "jobs")
      <4>1. Cardinality({}) = 0  BY FS_EmptySet
      <4>2. \A i \in Ids : ~HeldBy(t, i)  BY <3>3 DEF HeldBy
      <4> QED BY <4>1, <4>2, JobsAssumption
    <3> QED BY <3>2, <3>3
  <2>2. Stuck' \subseteq Stuck \cup H
    <3>1. ASSUME NEW i \in Stuck', i \notin H PROVE i \in Stuck
      <4>1. i \in Ids /\ jobs[i].status = "running" /\ \A u \in Tasks : ~HeldBy(u, i)'
          BY <1>1, <1>3, <3>1 DEF Stuck, Ticks, HeldBy
      <4>2. ~HeldBy(t, i)  BY <2>1, <3>1, <4>1
      <4>3. \A u \in Tasks : ~HeldBy(u, i)  BY <1>2, <4>1, <4>2, HeldElse
      <4> QED BY <4>1, <4>3, StuckIs
    <3> QED BY <3>1
  <2>3. IsFiniteSet(Stuck) /\ Cardinality(Stuck) \in Nat /\ IsFiniteSet(H)
      BY StuckIsFinite, JobsShape, FS_Subset
  <2>4. /\ IsFiniteSet(Stuck \cup H) /\ Cardinality(Stuck \cup H) = Cardinality(Stuck) + Cardinality(H) - Cardinality(Stuck \cap H)
      BY <2>3, FS_Union
  <2>5. Cardinality(H) \in Nat /\ Cardinality(Stuck \cap H) \in Nat
    <3>1. IsFiniteSet(Stuck \cap H)  BY <2>3, FS_Subset
    <3> QED BY <2>3, <3>1, FS_CardinalityType
  <2>6. Cardinality(Stuck') \in Nat /\ Cardinality(Stuck') <= Cardinality(Stuck \cup H)
      BY <2>2, <2>4, CountLess
  <2>7. Cardinality(Stuck') <= Cardinality(Stuck) + Batch
      BY <2>1, <2>3, <2>4, <2>5, <2>6, JobsAssumption
  <2>8. Batch * failures \in Nat /\ Batch * failures' = Batch * failures + Batch
      BY <1>2, BatchTimes
  <2>9. Cardinality(Stuck) <= Batch * failures  BY DEF StuckInv
  <2>10. Cardinality(Stuck') <= Batch * failures'  BY <2>3, <2>6, <2>7, <2>8, <2>9, JobsAssumption
  <2> QED BY <2>10 DEF StuckInv
<1> QED BY <1>5, <1>6, <1>8, <1>9, <1>10

\* Which rows there are when a job has chained the next.
LEMMA ScheduledRows ==
    ASSUME JobsTyped, RowsInv, NEW i \in Ids, Chains(i), Len(jobs) < MaxJobs, effects' = effects,
           NEW n, n = Len(jobs) + 1, jobs' = Append(jobs, [run |-> jobs[i].run, kind |-> "step", step |-> jobs[i].step + 1,
                                                           status |-> "pending", attempts |-> 0])
    PROVE  /\ RowsInv' /\ RowsGrow /\ jobs' \in Seq(JobRows) /\ Len(jobs') <= MaxJobs
           /\ Ids' = Ids \cup {n} /\ n \notin Ids /\ \A j \in Ids : jobs'[j] = jobs[j]
           /\ jobs'[n].run = jobs[i].run /\ jobs'[n].step = jobs[i].step + 1 /\ jobs'[n].status = "pending"
           /\ Follows(n, i)'
<1>1. Len(jobs) \in Nat /\ MaxJobs \in Nat /\ Ids = 1..Len(jobs) /\ n \in Nat /\ Steps \in Nat
    BY JobsShape, JobsAssumption
<1>2. /\ \A j \in Ids : jobs[j] \in JobRows /\ jobs[j].run \in 1..MaxJobs /\ jobs[j].run <= j /\ jobs[j].step \in 1..Steps
      /\ jobs[i].kind = "step" /\ jobs[i].step < Steps
  <2>1. \A j \in Ids : jobs[j] \in JobRows /\ jobs[j].run <= j  BY JobsShape DEF RowsInv
  <2>2. jobs[i].kind = "step" /\ jobs[i].step < Steps  BY DEF Chains
  <2> QED BY <2>1, <2>2 DEF JobRows
<1>3. PICK job : job = [run |-> jobs[i].run, kind |-> "step", step |-> jobs[i].step + 1, status |-> "pending", attempts |-> 0]
    OBVIOUS
<1>4. jobs[i].step + 1 \in 1..Steps /\ jobs[i].run \in 1..MaxJobs /\ jobs[i].step \in Nat
    BY <1>1, <1>2
<1>5. job \in JobRows /\ job.run = jobs[i].run /\ job.kind = "step" /\ job.step = jobs[i].step + 1 /\ job.status = "pending"
    BY <1>3, <1>4 DEF JobRows
<1>19. /\ jobs' \in Seq(JobRows) /\ Len(jobs') = n /\ Len(jobs') <= MaxJobs
       /\ Ids' = Ids \cup {n} /\ n \notin Ids /\ jobs'[n] = job /\ \A j \in Ids : jobs'[j] = jobs[j]
    BY <1>3, <1>5, JobAppended
<1>6. Ids' = Ids \cup {n} /\ n \notin Ids /\ jobs'[n] = job /\ \A j \in Ids : jobs'[j] = jobs[j]
    BY <1>19
<1>7. /\ effects' \in [(1..MaxJobs) \X (1..Steps) -> Nat]
      /\ \A x \in 1..MaxJobs, s \in 1..Steps : effects'[<<x, s>>] = effects[<<x, s>>] /\ effects[<<x, s>>] \in Nat
    BY DEF JobsTyped
<1>8. RowsGrow
  <2>1. Ids \subseteq Ids'  BY <1>6
  <2>2. \A j \in Ids : jobs'[j].run = jobs[j].run /\ jobs'[j].kind = jobs[j].kind /\ jobs'[j].step = jobs[j].step
      BY <1>6
  <2>3. \A x \in 1..MaxJobs, s \in 1..Steps : effects'[<<x, s>>] >= effects[<<x, s>>]
    <3> TAKE x \in 1..MaxJobs, s \in 1..Steps
    <3>1. effects'[<<x, s>>] = effects[<<x, s>>] /\ effects[<<x, s>>] \in Nat  BY <1>7
    <3> QED BY <3>1
  <2> QED BY <2>1, <2>2, <2>3 DEF RowsGrow
<1>9. \A j \in Ids' : jobs'[j].run <= j
  <2>1. \A j \in Ids : jobs'[j].run <= j  BY <1>2, <1>6
  <2>2. jobs'[n].run <= n  BY <1>1, <1>2, <1>5, <1>6
  <2> QED BY <1>6, <2>1, <2>2
<1>10. \A r \in 1..MaxJobs, s \in 1..Steps : r > Len(jobs') => effects'[<<r, s>>] = 0
    BY <1>1, <1>4, <1>7, <1>19 DEF RowsInv
<1>11. \A j, k \in Ids' : jobs'[j].run = jobs'[k].run => jobs'[j].kind = jobs'[k].kind
  <2>1. \A j, k \in Ids : jobs'[j].run = jobs'[k].run => jobs'[j].kind = jobs'[k].kind
    <3>1. \A j, k \in Ids : jobs[j].run = jobs[k].run => jobs[j].kind = jobs[k].kind  BY DEF RowsInv
    <3> TAKE j, k \in Ids
    <3>2. jobs'[j] = jobs[j] /\ jobs'[k] = jobs[k]  BY <1>6
    <3> QED BY <3>1, <3>2
  <2>2. jobs'[n].run = jobs'[i].run /\ jobs'[n].kind = jobs'[i].kind  BY <1>2, <1>5, <1>6
  <2> QED
    <3> SUFFICES ASSUME NEW j \in Ids', NEW k \in Ids', jobs'[j].run = jobs'[k].run PROVE jobs'[j].kind = jobs'[k].kind
        OBVIOUS
    <3>1. CASE j \in Ids /\ k \in Ids  BY <2>1, <3>1
    <3>2. CASE j = n /\ k \in Ids  BY <2>1, <2>2, <3>2
    <3>3. CASE j \in Ids /\ k = n  BY <2>1, <2>2, <3>3
    <3> QED BY <1>6, <3>1, <3>2, <3>3
<1>12. \A j \in Ids' : jobs'[j].kind = "single" => jobs'[j].step = 1
  <2>1. \A j \in Ids : jobs'[j].kind = "single" => jobs'[j].step = 1
    <3>1. \A j \in Ids : jobs[j].kind = "single" => jobs[j].step = 1  BY DEF RowsInv
    <3> QED BY <1>6, <3>1
  <2>2. jobs'[n].kind # "single"  BY <1>5, <1>6
  <2> QED BY <1>6, <2>1, <2>2
<1>13. \A j \in Ids' : \A s \in 1..jobs'[j].step : \E k \in Ids' : jobs'[k].run = jobs'[j].run /\ jobs'[k].step = s
  <2>1. ASSUME NEW j \in Ids, NEW s \in 1..jobs[j].step PROVE \E k \in Ids : jobs'[k].run = jobs'[j].run /\ jobs'[k].step = s
    <3>1. PICK k \in Ids : jobs[k].run = jobs[j].run /\ jobs[k].step = s  BY DEF RowsInv
    <3> QED BY <1>6, <3>1
  <2>2. ASSUME NEW s \in 1..jobs'[n].step PROVE \E k \in Ids' : jobs'[k].run = jobs'[n].run /\ jobs'[k].step = s
    <3>1. s \in 1..(jobs[i].step + 1)  BY <1>5, <1>6
    <3>2. CASE s = jobs[i].step + 1  BY <1>5, <1>6, <3>2
    <3>3. CASE s # jobs[i].step + 1
      <4>1. s \in 1..jobs[i].step  BY <1>4, <3>1, <3>3
      <4>2. PICK k \in Ids : jobs'[k].run = jobs'[i].run /\ jobs'[k].step = s  BY <2>1, <4>1
      <4> QED BY <1>5, <1>6, <4>2
    <3> QED BY <3>2, <3>3
  <2>3. ASSUME NEW j \in Ids, NEW s \in 1..jobs'[j].step PROVE \E k \in Ids' : jobs'[k].run = jobs'[j].run /\ jobs'[k].step = s
    <3>1. s \in 1..jobs[j].step /\ Ids \subseteq Ids'  BY <1>6
    <3>2. PICK k \in Ids : jobs'[k].run = jobs'[j].run /\ jobs'[k].step = s  BY <2>1, <3>1
    <3> QED BY <3>1, <3>2
  <2> SUFFICES ASSUME NEW j \in Ids', NEW s \in 1..jobs'[j].step PROVE \E k \in Ids' : jobs'[k].run = jobs'[j].run /\ jobs'[k].step = s
      OBVIOUS
  <2>4. CASE j \in Ids  BY <2>3, <2>4
  <2>5. CASE j = n  BY <2>2, <2>5
  <2> QED BY <1>6, <2>4, <2>5
<1>14. \A j \in Ids' : jobs'[j].status = "done" => Finished(j)'
  <2>1. \A j \in Ids : jobs'[j].status = "done" => Finished(j)'
      BY <1>6, <1>7, <1>8, GrowKeeps DEF RowsInv
  <2> QED BY <1>5, <1>6, <2>1
<1>15. ASSUME NEW j \in Ids, jobs[j].kind = "step"
       PROVE  \E k \in Ids' : /\ jobs'[k].run = jobs'[j].run /\ jobs'[k].kind = "step"
                              /\ \/ jobs'[k].step = Steps
                                 \/ jobs'[k].status # "done" /\ \A l \in Ids' : ~Follows(l, k)'
  <2>1. PICK k \in Ids : /\ jobs[k].run = jobs[j].run /\ jobs[k].kind = "step"
                         /\ \/ jobs[k].step = Steps
                            \/ jobs[k].status # "done" /\ \A l \in Ids : ~Follows(l, k)
      BY <1>15 DEF RowsInv
  <2>2. \A l \in Ids : Follows(l, k)' <=> Follows(l, k)  BY <1>7, <1>8, GrowKeeps
  <2>3. CASE jobs[k].step = Steps  BY <1>6, <2>1, <2>3
  <2>4. CASE jobs[k].step # Steps /\ ~Follows(n, k)'
    <3>1. \A l \in Ids' : ~Follows(l, k)'  BY <1>6, <2>1, <2>2, <2>4
    <3> QED BY <1>6, <2>1, <2>4, <3>1
  <2>5. CASE jobs[k].step # Steps /\ Follows(n, k)'
    <3>1. jobs[k].run = jobs[i].run /\ jobs[k].step = jobs[i].step
      <4>1. jobs[k].run = jobs[i].run /\ jobs[k].step + 1 = jobs[i].step + 1
          BY <1>5, <1>6, <2>5 DEF Follows
      <4>2. jobs[k].step \in Nat  BY <1>2
      <4> QED BY <1>4, <4>1, <4>2
    <3>2. ASSUME NEW l \in Ids, Follows(l, n)' PROVE FALSE
      <4>1. jobs[l].run = jobs[k].run /\ jobs[l].kind = "step" /\ jobs[l].step = jobs[k].step + 1 + 1
          BY <1>5, <1>6, <3>1, <3>2 DEF Follows
      <4>2. jobs[k].step + 1 \in 1..jobs[l].step  BY <1>2, <4>1
      <4>3. PICK m \in Ids : jobs[m].run = jobs[l].run /\ jobs[m].step = jobs[k].step + 1
          BY <4>2 DEF RowsInv
      <4>4. jobs[m].kind = "step"  BY <4>1, <4>3 DEF RowsInv
      <4>5. Follows(m, k)  BY <4>1, <4>3, <4>4 DEF Follows
      <4> QED BY <2>1, <2>5, <4>5
    <3>3. ~Follows(n, n)'  BY <1>4, <1>5, <1>6 DEF Follows
    <3>4. \A l \in Ids' : ~Follows(l, n)'  BY <1>6, <3>2, <3>3
    <3>5. jobs'[n].run = jobs'[j].run /\ jobs'[n].kind = "step" /\ jobs'[n].status # "done"
        BY <1>5, <1>6, <2>1, <3>1
    <3> QED BY <1>6, <3>4, <3>5
  <2> QED BY <2>3, <2>4, <2>5
<1>16. \A j \in Ids' : jobs'[j].kind = "step" =>
          \E k \in Ids' : /\ jobs'[k].run = jobs'[j].run /\ jobs'[k].kind = "step"
                          /\ \/ jobs'[k].step = Steps
                             \/ jobs'[k].status # "done" /\ \A l \in Ids' : ~Follows(l, k)'
  <2>1. ASSUME NEW j \in Ids, jobs'[j].kind = "step"
        PROVE  \E k \in Ids' : /\ jobs'[k].run = jobs'[j].run /\ jobs'[k].kind = "step"
                               /\ \/ jobs'[k].step = Steps
                                  \/ jobs'[k].status # "done" /\ \A l \in Ids' : ~Follows(l, k)'
      BY <1>6, <1>15, <2>1
  <2>2. \E k \in Ids' : /\ jobs'[k].run = jobs'[n].run /\ jobs'[k].kind = "step"
                        /\ \/ jobs'[k].step = Steps
                           \/ jobs'[k].status # "done" /\ \A l \in Ids' : ~Follows(l, k)'
    <3>1. jobs'[n].run = jobs'[i].run  BY <1>5, <1>6
    <3> QED BY <1>2, <1>15, <3>1
  <2> QED BY <1>6, <2>1, <2>2
<1>17. RowsInv'  BY <1>9, <1>10, <1>11, <1>12, <1>13, <1>14, <1>16 DEF RowsInv
<1>18. Follows(n, i)'  BY <1>5, <1>6 DEF Follows
<1> QED BY <1>5, <1>6, <1>8, <1>17, <1>18, <1>19

LEMMA ScheduleNextKeeps ==
    ASSUME JobsInv, NEW t \in Tasks, ScheduleNext(t)
    PROVE  JobsInv'
<1> USE DEF JobsInv
<1>1. At(t, "chain") /\ Goes(t, "done") /\ failures' = failures /\ failures \in Nat /\ effects' = effects
    BY DEF ScheduleNext, JobsTyped
<1>2. /\ task[t] \in [op : {"jobs"}, left : SUBSET (1..MaxJobs), job : 1..MaxJobs, at : {"chain", "done", "retry"}]
      /\ Under(t, "jobs")
    BY <1>1, JobPlaces
<1>3. PICK i \in Ids : i = task[t].job /\ i \in task[t].left /\ Chains(i) /\ Effective(i)
  <2>1. TickFits(t)  BY DEF TicksInv
  <2>2. task[t].job \in Ids /\ task[t].job \in task[t].left /\ Chains(task[t].job) /\ Effective(task[t].job)
      BY <1>1, <1>2, <2>1 DEF TickFits, Held
  <2> QED BY <2>2
<1>4. PICK n : n = Len(jobs) + 1  OBVIOUS
<1>5. /\ Len(jobs) < MaxJobs
      /\ jobs' = Append(jobs, [run |-> jobs[i].run, kind |-> "step", step |-> jobs[i].step + 1, status |-> "pending", attempts |-> 0])
    BY <1>3 DEF ScheduleNext, EnqueueJob, Enqueued
<1>6. /\ RowsInv' /\ RowsGrow /\ jobs' \in Seq(JobRows) /\ Len(jobs') <= MaxJobs
      /\ Ids' = Ids \cup {n} /\ n \notin Ids /\ \A j \in Ids : jobs'[j] = jobs[j]
      /\ jobs'[n].run = jobs[i].run /\ jobs'[n].step = jobs[i].step + 1 /\ jobs'[n].status = "pending"
      /\ Follows(n, i)'
    BY <1>1, <1>3, <1>4, <1>5, ScheduledRows
<1>7. PICK r : r = [task[t] EXCEPT !.at = "done"]  OBVIOUS
<1>8. TaskMoves(t, r) /\ JobCall(r)  BY <1>1, <1>2, <1>7, TaskGoes DEF JobsTyped, JobCall
<1>9. r.op = "jobs" /\ r.left = task[t].left /\ r.job = i /\ r.at = "done"  BY <1>2, <1>3, <1>7
<1>10. /\ effects' \in [(1..MaxJobs) \X (1..Steps) -> Nat] /\ failures' \in Nat /\ failures <= failures'
       /\ \A x \in 1..MaxJobs, s \in 1..Steps : effects'[<<x, s>>] = effects[<<x, s>>] /\ effects[<<x, s>>] \in Nat
    BY <1>1 DEF JobsTyped
<1>11. JobsTyped'  BY <1>6, <1>8, <1>10, JobsTypes
<1>12. /\ \A p : At(t, p)' <=> p = "done"
       /\ Under(t, "jobs")' /\ Held(t)' = task[t].left /\ task'[t].job = i
       /\ \A j : HeldBy(t, j) <=> j \in task[t].left
       /\ \A j : HeldBy(t, j)' <=> j \in task[t].left
  <2>1. (\A p : At(t, p)' <=> p = "done") /\ Under(t, "jobs")' /\ Held(t)' = task[t].left /\ task'[t].job = i
      BY <1>8, <1>9, TasksAfter DEF Held
  <2> QED BY <1>2, <2>1 DEF HeldBy, Held
<1>13. TicksInv'
  <2>1. TickFits(t)  BY DEF TicksInv
  <2>2. Effective(i)' /\ i \in Ids'
    <3>1. Effective(i)'  BY <1>3, <1>6, <1>10, GrowKeeps
    <3> QED BY <1>6, <3>1
  <2>3. Finished(i)'  BY <1>6, <2>2 DEF Finished
  <2>4. task[t].left \in SUBSET Ids /\ Cardinality(task[t].left) <= Batch /\ \A j \in task[t].left : jobs[j].status = "running"
      BY <1>2, <2>1 DEF TickFits, Held
  <2>5. Held(t)' \in SUBSET Ids' /\ Cardinality(Held(t)') <= Batch /\ \A j \in Held(t)' : jobs'[j].status = "running"
      BY <1>6, <1>12, <2>4
  <2>6. task'[t].job \in Held(t)'  BY <1>3, <1>12
  <2>7. TickFits(t)'  BY <1>12, <2>3, <2>5, <2>6 DEF TickFits
  <2>8. \A j \in Ids : jobs'[j].status = jobs[j].status  BY <1>6
  <2> QED BY <1>6, <1>8, <1>10, <1>12, <2>7, <2>8, TicksMove
<1>14. \A u \in Tasks : u # t => ~HeldBy(u, i)  BY <1>3, <1>12 DEF TicksInv
<1>15. /\ \A j \in Ids : (Live(j)' => Live(j)) /\ (Chaining(j)' => Chaining(j))
       /\ ~Live(i)' /\ ~Chaining(i)' /\ Chaining(i)
  <2>1. /\ \A u \in Tasks : u # t => \A j : LiveAt(u, j)' <=> LiveAt(u, j)
        /\ \A u \in Tasks : u # t => task'[u] = task[u]
        /\ \A u \in Tasks : u # t => (At(u, "chain")' <=> At(u, "chain"))
      BY <1>8, HeldElse
  <2>2. \A j : LiveAt(t, j)' <=> j \in task[t].left /\ j # i  BY <1>12 DEF LiveAt
  <2>3. \A j : LiveAt(t, j)' => LiveAt(t, j)  BY <1>3, <1>12, <2>2 DEF LiveAt
  <2>4. \A j \in Ids : Live(j)' => Live(j)  BY <1>6, <2>1, <2>3 DEF Live
  <2>5. ~At(t, "chain")'  BY <1>12
  <2>6. \A j \in Ids : Chaining(j)' => Chaining(j)  BY <2>1, <2>5 DEF Chaining
  <2>7. jobs'[i].status = "running"
    <3>1. TickFits(t)  BY DEF TicksInv
    <3> QED BY <1>2, <1>3, <1>6, <3>1 DEF TickFits, Held
  <2>8. ~Live(i)'
    <3>1. \A u \in Tasks : u # t => ~LiveAt(u, i)'  BY <1>14, <2>1 DEF LiveAt
    <3> QED BY <2>2, <2>7, <3>1 DEF Live
  <2>9. ~Chaining(i)'
    <3>1. \A u \in Tasks : u # t => ~(At(u, "chain") /\ task[u].job = i)
      <4>1. \A u \in Tasks : At(u, "chain") => HeldBy(u, task[u].job)
        <5> TAKE u \in Tasks
        <5>1. TickFits(u) /\ (At(u, "chain") => Under(u, "jobs"))  BY JobPlaces DEF TicksInv
        <5> QED BY <5>1 DEF TickFits, HeldBy
      <4> QED BY <1>14, <4>1
    <3> QED BY <2>1, <2>5, <3>1 DEF Chaining
  <2>10. Chaining(i)  BY <1>1, <1>3 DEF Chaining
  <2> QED BY <2>4, <2>6, <2>8, <2>9, <2>10
<1>16. /\ \A j \in Ids : jobs[j].step \in Nat
       /\ \A j \in Ids : jobs'[j].run = jobs[j].run /\ jobs'[j].step = jobs[j].step
  <2>1. \A j \in Ids : jobs[j].step \in Nat  BY JobsShape DEF JobRows
  <2>2. \A j \in Ids : jobs'[j].run = jobs[j].run /\ jobs'[j].step = jobs[j].step  BY <1>6
  <2> QED BY <2>1, <2>2
<1>17. RepeatInv'
  <2> SUFFICES ASSUME NEW x \in 1..MaxJobs, NEW s \in 1..Steps
               PROVE  effects'[<<x, s>>] + Cardinality(Coming(x, s)') <= 1 + failures'
      BY DEF RepeatInv
  <2>1. effects[<<x, s>>] + Cardinality(Coming(x, s)) <= 1 + failures  BY DEF RepeatInv
  <2>2. ASSUME NEW j \in Ids, j \in Coming(x, s)' PROVE j \in Coming(x, s) /\ j # i
    <3>1. jobs[j].run = x /\ ((jobs[j].step <= s /\ Live(j)') \/ (jobs[j].step < s /\ Chaining(j)'))
        BY <1>16, <2>2 DEF Coming
    <3>2. (jobs[j].step <= s /\ Live(j)) \/ (jobs[j].step < s /\ Chaining(j))  BY <1>15, <3>1
    <3>3. j # i  BY <1>15, <3>1
    <3> QED BY <3>1, <3>2, <3>3 DEF Coming
  <2>3. IsFiniteSet(Coming(x, s)) /\ Cardinality(Coming(x, s)) \in Nat  BY ComingIsFinite
  <2>4. \A j \in Coming(x, s)' : j \in Ids \/ j = n  BY <1>6 DEF Coming
  <2>5. CASE n \notin Coming(x, s)'
    <3>1. Coming(x, s)' \subseteq Coming(x, s)  BY <2>2, <2>4, <2>5
    <3>2. Cardinality(Coming(x, s)') \in Nat /\ Cardinality(Coming(x, s)') <= Cardinality(Coming(x, s))
        BY <2>3, <3>1, CountLess
    <3> QED BY <1>1, <1>10, <2>1, <2>3, <3>2
  <2>6. CASE n \in Coming(x, s)'
    <3>1. jobs[i].run = x /\ jobs[i].step + 1 <= s  BY <1>6, <1>16, <2>6 DEF Coming
    <3>2. i \in Coming(x, s)  BY <1>15, <1>16, <3>1 DEF Coming
    <3>3. PICK S : S = Coming(x, s) \ {i}  OBVIOUS
    <3>4. IsFiniteSet(S) /\ Cardinality(S) \in Nat /\ Cardinality(S) <= Cardinality(Coming(x, s)) - 1
        BY <2>3, <3>2, <3>3, CountLess
    <3>5. Coming(x, s)' \subseteq S \cup {n}  BY <2>2, <2>4, <3>3
    <3>6. Cardinality(Coming(x, s)') \in Nat /\ Cardinality(Coming(x, s)') <= Cardinality(S) + 1
        BY <3>4, <3>5, CountMore
    <3> QED BY <1>1, <1>10, <2>1, <2>3, <3>4, <3>6
  <2> QED BY <2>5, <2>6
<1>18. StuckInv'
  <2>1. \A j \in Ids' : jobs'[j].status = "running" => j \in Ids /\ jobs[j].status = "running"
      BY <1>6
  <2>2. Stuck' \subseteq Stuck  BY <1>8, <1>12, <2>1, StuckElse
  <2> QED BY <1>10, <2>2, StuckStays
<1> QED BY <1>6, <1>11, <1>13, <1>17, <1>18

LEMMA JobsStep ==
    ASSUME JobsInv, JobNext
    PROVE  JobsInv'
<1>1. CASE CreateReminder  BY <1>1, CreateReminderKeeps
<1>2. CASE SetEnabled  BY <1>2, SetEnabledKeeps
<1>3. ASSUME NEW t \in Tasks, ReadWorkflow(t) PROVE JobsInv'  BY <1>3, ReadWorkflowKeeps
<1>4. ASSUME NEW t \in Tasks,
             \/ EnqueueFirst(t)
             \/ ClaimDueJobs(t) \/ Execute(t) \/ ExecuteFails(t) \/ ScheduleNext(t) \/ MarkJobDone(t)
             \/ CommandFails(t) \/ MarkJobRetryOrDead(t) \/ FailJob(t)
      PROVE  JobsInv'
  <2>1. CASE EnqueueFirst(t)  BY <2>1, EnqueueFirstKeeps
  <2>2. CASE ClaimDueJobs(t)  BY <2>2, ClaimDueJobsKeeps
  <2>3. CASE Execute(t)  BY <2>3, ExecuteKeeps
  <2>4. CASE ExecuteFails(t)  BY <2>4, ExecuteFailsKeeps
  <2>5. CASE ScheduleNext(t)  BY <2>5, ScheduleNextKeeps
  <2>6. CASE MarkJobDone(t)  BY <2>6, MarkJobDoneKeeps
  <2>7. CASE CommandFails(t)  BY <2>7, CommandFailsKeeps
  <2>8. CASE MarkJobRetryOrDead(t)  BY <2>8, MarkJobRetryOrDeadKeeps
  <2>9. CASE FailJob(t)  BY <2>9, FailJobKeeps
  <2> QED BY <1>4, <2>1, <2>2, <2>3, <2>4, <2>5, <2>6, <2>7, <2>8, <2>9
<1> QED BY <1>1, <1>2, <1>3, <1>4 DEF JobNext, JobRequests

LEMMA JobsRest ==
    ASSUME JobsInv, UNCHANGED <<taskVars, jobVars>>
    PROVE  JobsInv'
<1>1. task' = task /\ failures' = failures /\ jobs' = jobs /\ effects' = effects
    BY DEF taskVars, jobVars
<1>2. QuietStep  BY <1>1 DEF QuietStep
<1>3. JobsTyped'  BY <1>1 DEF JobsInv, JobsTyped
<1> QED BY <1>1, <1>2, <1>3, QuietKeeps

LEMMA JobsStart ==
    ASSUME TasksInit, JobInit
    PROVE  JobsInv
<1>1. /\ task = [t \in Tasks |-> New] /\ failures = 0 /\ jobs = <<>> /\ Ids = {}
      /\ effects = [x \in (1..MaxJobs) \X (1..Steps) |-> 0]
    BY DEF TasksInit, JobInit, Ids
<1>2. JobsTyped  BY <1>1, JobsAssumption DEF JobsTyped, JobCall
<1>3. RowsInv  BY <1>1 DEF RowsInv
<1>4. \A t \in Tasks : ~Under(t, "jobs") /\ task[t].at = "new"  BY <1>1 DEF Under, New
<1>5. TicksInv  BY <1>4 DEF TicksInv, TickFits, HeldBy, At
<1>6. RepeatInv
  <2> SUFFICES ASSUME NEW r \in 1..MaxJobs, NEW s \in 1..Steps PROVE effects[<<r, s>>] + Cardinality(Coming(r, s)) <= 1 + failures
      BY DEF RepeatInv
  <2>1. Coming(r, s) = {}  BY <1>1 DEF Coming
  <2>2. effects[<<r, s>>] = 0  BY <1>1
  <2> QED BY <1>1, <2>1, <2>2, FS_EmptySet
<1>7. StuckInv
  <2>1. Stuck = {}  BY <1>1 DEF Stuck
  <2> QED BY <1>1, <2>1, FS_EmptySet, JobsAssumption DEF StuckInv
<1> QED BY <1>2, <1>3, <1>5, <1>6, <1>7 DEF JobsInv

LEMMA JobsSay ==
    ASSUME JobsInv
    PROVE  RunsAreWhole
<1> USE DEF JobsInv
<1>1. RepeatsAreFaults
  <2> SUFFICES ASSUME NEW x \in DOMAIN effects PROVE effects[x] <= 1 + failures
      BY DEF RepeatsAreFaults
  <2>1. PICK r \in 1..MaxJobs, s \in 1..Steps : x = <<r, s>>  BY DEF JobsTyped
  <2>2. effects[<<r, s>>] + Cardinality(Coming(r, s)) <= 1 + failures  BY DEF RepeatInv
  <2>3. Cardinality(Coming(r, s)) \in Nat  BY ComingIsFinite
  <2>4. effects[<<r, s>>] \in Nat /\ failures \in Nat  BY DEF JobsTyped
  <2> QED BY <2>1, <2>2, <2>3, <2>4
<1>2. NoStepDropped
  <2> SUFFICES ASSUME NEW r \in Runs, \A i \in Ids : jobs[i].run = r => jobs[i].status = "done",
                      NEW s \in 1..(IF \E i \in Ids : jobs[i].run = r /\ jobs[i].kind = "step" THEN Steps ELSE 1)
               PROVE  effects[<<r, s>>] > 0
      BY DEF NoStepDropped
  <2>1. PICK i \in Ids : jobs[i].run = r  BY DEF Runs
  <2>2. \A j \in Ids : jobs[j].run = r => effects[<<r, jobs[j].step>>] > 0
      BY DEF RowsInv, Finished, Effective
  <2>3. \A j \in Ids : jobs[j] \in JobRows /\ jobs[j].step \in 1..Steps /\ jobs[j].kind \in {"single", "step"}
      BY JobsShape DEF JobRows
  <2>4. CASE \E j \in Ids : jobs[j].run = r /\ jobs[j].kind = "step"
    <3>1. PICK j \in Ids : jobs[j].run = r /\ jobs[j].kind = "step"  BY <2>4
    <3>2. PICK k \in Ids : /\ jobs[k].run = r /\ jobs[k].kind = "step"
                           /\ \/ jobs[k].step = Steps
                              \/ jobs[k].status # "done" /\ \A l \in Ids : ~Follows(l, k)
        BY <3>1 DEF RowsInv
    <3>3. jobs[k].step = Steps  BY <3>2
    <3>4. s \in 1..jobs[k].step  BY <2>4, <3>3
    <3>5. PICK l \in Ids : jobs[l].run = jobs[k].run /\ jobs[l].step = s  BY <3>4 DEF RowsInv
    <3> QED BY <2>2, <3>2, <3>5
  <2>5. CASE ~\E j \in Ids : jobs[j].run = r /\ jobs[j].kind = "step"
    <3>1. s = 1 /\ jobs[i].kind = "single"  BY <2>1, <2>3, <2>5
    <3>2. jobs[i].step = 1  BY <3>1 DEF RowsInv
    <3> QED BY <2>1, <2>2, <3>1, <3>2
  <2> QED BY <2>4, <2>5
<1>3. StrandedOnlyByFaults  BY DEF StuckInv, StrandedOnlyByFaults
<1> QED BY <1>1, <1>2, <1>3 DEF RunsAreWhole

----------------------------------------------------------------------------
(* A service at rest keeps its promise, whatever the others' calls do      *)

LEMMA PollsAtRest ==
    ASSUME PollInit
    PROVE  PollCounts
<1>1. votes = {} /\ cache = NoTally /\ \A u : Of(u) = {}  BY DEF PollInit, Of
<1>2. Cardinality({}) = 0  BY FS_EmptySet
<1>3. OneChoiceEach  BY <1>1, <1>2 DEF OneChoiceEach
<1>4. TallyIsCurrent  BY <1>1 DEF TallyIsCurrent
<1> QED BY <1>3, <1>4 DEF PollCounts

LEMMA ReceiptsAtRest ==
    ASSUME ReceiptInit
    PROVE  WatermarkIsTheHighest
    BY DEF ReceiptInit, WatermarkIsTheHighest, Recorded

LEMMA ResendAtRest ==
    ASSUME ResendInit
    PROVE  ResendHolds
<1>1. row.status = "none" /\ row.attempts = 0 /\ ~reopened  BY DEF ResendInit
<1>2. ResendLimits  BY <1>1, ReceiptsAssumption DEF ResendLimits
<1>3. FulfilledWasSent  BY <1>1 DEF FulfilledWasSent
<1> QED BY <1>2, <1>3 DEF ResendHolds

LEMMA AcksAtRest ==
    ASSUME AckInit
    PROVE  AnswersAreTheRecipients
    BY DEF AckInit, AnswersAreTheRecipients

LEMMA JobsAtRest ==
    ASSUME JobInit, failures \in Nat
    PROVE  RunsAreWhole
<1>1. jobs = <<>> /\ Ids = {} /\ effects = [x \in (1..MaxJobs) \X (1..Steps) |-> 0]
    BY DEF JobInit, Ids
<1>2. RepeatsAreFaults  BY <1>1 DEF RepeatsAreFaults
<1>3. NoStepDropped  BY <1>1 DEF NoStepDropped, Runs
<1>4. StrandedOnlyByFaults
  <2>1. Stuck = {} /\ Cardinality({}) = 0  BY <1>1, FS_EmptySet DEF Stuck
  <2>2. Batch * failures \in Nat  BY BatchTimes
  <2> QED BY <2>1, <2>2 DEF StrandedOnlyByFaults
<1> QED BY <1>2, <1>3, <1>4 DEF RunsAreWhole

LEMMA CampsAtRest ==
    ASSUME CampInit
    PROVE  CampaignsObey
<1>1. \A c \in Campaigns : campaigns[c].next /\ campaigns[c].occurrences = 0 /\ rounds[c] = 0
    BY DEF CampInit
<1>2. stopped = {} /\ asked = {}  BY DEF CampInit
<1> QED BY <1>1, <1>2 DEF CampaignsObey, CanceledStaysCanceled, AskedIsQueued, ActiveIsScheduled, OccurrencesAreRuns

LEMMA CallsAtRest ==
    ASSUME CallInit
    PROVE  CallsHold
<1>1. ~began /\ ~announced /\ live = 0 /\ \A u \in Callers : present[u] = "none" /\ lastEvent[u] = "none"
    BY DEF CallInit
<1>2. ToldOfWhatIs  BY <1>1 DEF ToldOfWhatIs
<1>3. LastEventIsTheRow  BY <1>1 DEF LastEventIsTheRow
<1>4. OneRequestPerCall  BY <1>1 DEF OneRequestPerCall
<1> QED BY <1>2, <1>3, <1>4 DEF CallsHold

LEMMA PresenceAtRest ==
    ASSUME PresenceInit
    PROVE  FannedIsCurrent /\ LastSeenIsTheEnd
<1>1. fanned = "offline" /\ online = {} /\ manual = "none" /\ lastSeen = "after"
    BY DEF PresenceInit
<1>2. Cardinality({}) = 0  BY FS_EmptySet
<1>3. StatusNow = "offline"  BY <1>1, <1>2 DEF StatusNow, Coarse
<1> QED BY <1>1, <1>3 DEF FannedIsCurrent, LastSeenIsTheEnd

\* Rest is rest.
LEMMA RestStays ==
    /\ PollInit /\ UNCHANGED pollVars => PollInit'
    /\ ReceiptInit /\ UNCHANGED receiptVars => ReceiptInit'
    /\ ResendInit /\ UNCHANGED resendVars => ResendInit'
    /\ AckInit /\ UNCHANGED ackVars => AckInit'
    /\ JobInit /\ UNCHANGED jobVars => JobInit'
    /\ CampInit /\ UNCHANGED campVars => CampInit'
    /\ CallInit /\ UNCHANGED callVars => CallInit'
    /\ PresenceInit /\ UNCHANGED presenceVars => PresenceInit'
<1>1. PollInit /\ UNCHANGED pollVars => PollInit'  BY DEF PollInit, pollVars
<1>2. ReceiptInit /\ UNCHANGED receiptVars => ReceiptInit'  BY DEF ReceiptInit, receiptVars
<1>3. ResendInit /\ UNCHANGED resendVars => ResendInit'  BY DEF ResendInit, resendVars
<1>4. AckInit /\ UNCHANGED ackVars => AckInit'  BY DEF AckInit, ackVars
<1>5. JobInit /\ UNCHANGED jobVars => JobInit'  BY DEF JobInit, jobVars
<1>6. CampInit /\ UNCHANGED campVars => CampInit'  BY DEF CampInit, campVars
<1>7. CallInit /\ UNCHANGED callVars => CallInit'
  <2> SUFFICES ASSUME CallInit, UNCHANGED callVars PROVE CallInit'  OBVIOUS
  <2>1. /\ keys' = keys /\ call' = call /\ began' = began /\ details' = details /\ announced' = announced
        /\ present' = present /\ lastEvent' = lastEvent /\ met' = met /\ live' = live /\ crowded' = crowded
      BY DEF callVars, roomVars
  <2> QED BY <2>1 DEF CallInit
<1>8. PresenceInit /\ UNCHANGED presenceVars => PresenceInit'  BY DEF PresenceInit, presenceVars
<1> QED BY <1>1, <1>2, <1>3, <1>4, <1>5, <1>6, <1>7, <1>8

----------------------------------------------------------------------------
(* What the services promise                                               *)

\* A client is told the poll's count, the highest receipt, a resend within its limit and whose receipt a device's is:
\* PollCounts, WatermarkIsTheHighest, ResendHolds and AnswersAreTheRecipients for any voters, receipts, devices and
\* any calls, in any order and with any failures (polls.service.ts:44, receipts.repository.ts:69, resend.service.ts:26,
\* notification.service.ts:47).
THEOREM DeliveryKept == DeliverySpec => []DeliveryHolds
<1>1. TasksInit /\ PollInit /\ ReceiptInit /\ ResendInit /\ AckInit =>
         PollsInv /\ ReceiptsInv /\ ResendInv /\ AcksInv
    BY PollsStart, ReceiptsStart, ResendStarts, AcksStart
<1>2. /\ PollsInv /\ ReceiptInit /\ ResendInit /\ AckInit
      /\ [PollNext /\ UNCHANGED <<receiptVars, resendVars, ackVars>>]_deliveryVars
      => (PollsInv /\ ReceiptInit /\ ResendInit /\ AckInit)'
  <2> SUFFICES ASSUME PollsInv, ReceiptInit, ResendInit, AckInit,
                      [PollNext /\ UNCHANGED <<receiptVars, resendVars, ackVars>>]_deliveryVars
               PROVE  (PollsInv /\ ReceiptInit /\ ResendInit /\ AckInit)'
      OBVIOUS
  <2>1. (PollNext \/ UNCHANGED <<taskVars, pollVars>>) /\ UNCHANGED receiptVars /\ UNCHANGED resendVars /\ UNCHANGED ackVars
      BY DEF deliveryVars
  <2> QED BY <2>1, PollsStep, PollsRest, RestStays
<1>3. /\ ReceiptsInv /\ PollInit /\ ResendInit /\ AckInit
      /\ [ReceiptNext /\ UNCHANGED <<pollVars, resendVars, ackVars>>]_deliveryVars
      => (ReceiptsInv /\ PollInit /\ ResendInit /\ AckInit)'
  <2> SUFFICES ASSUME ReceiptsInv, PollInit, ResendInit, AckInit,
                      [ReceiptNext /\ UNCHANGED <<pollVars, resendVars, ackVars>>]_deliveryVars
               PROVE  (ReceiptsInv /\ PollInit /\ ResendInit /\ AckInit)'
      OBVIOUS
  <2>1. (ReceiptNext \/ UNCHANGED <<taskVars, receiptVars>>) /\ UNCHANGED pollVars /\ UNCHANGED resendVars /\ UNCHANGED ackVars
      BY DEF deliveryVars
  <2> QED BY <2>1, ReceiptsStep, ReceiptsRest, RestStays
<1>4. /\ ResendInv /\ PollInit /\ ReceiptInit /\ AckInit
      /\ [ResendNext /\ UNCHANGED <<pollVars, receiptVars, ackVars>>]_deliveryVars
      => (ResendInv /\ PollInit /\ ReceiptInit /\ AckInit)'
  <2> SUFFICES ASSUME ResendInv, PollInit, ReceiptInit, AckInit,
                      [ResendNext /\ UNCHANGED <<pollVars, receiptVars, ackVars>>]_deliveryVars
               PROVE  (ResendInv /\ PollInit /\ ReceiptInit /\ AckInit)'
      OBVIOUS
  <2>1. (ResendNext \/ UNCHANGED <<taskVars, resendVars>>) /\ UNCHANGED pollVars /\ UNCHANGED receiptVars /\ UNCHANGED ackVars
      BY DEF deliveryVars
  <2> QED BY <2>1, ResendStep, ResendRests, RestStays
<1>5. /\ AcksInv /\ PollInit /\ ReceiptInit /\ ResendInit
      /\ [AckNext /\ UNCHANGED <<pollVars, receiptVars, resendVars>>]_deliveryVars
      => (AcksInv /\ PollInit /\ ReceiptInit /\ ResendInit)'
  <2> SUFFICES ASSUME AcksInv, PollInit, ReceiptInit, ResendInit,
                      [AckNext /\ UNCHANGED <<pollVars, receiptVars, resendVars>>]_deliveryVars
               PROVE  (AcksInv /\ PollInit /\ ReceiptInit /\ ResendInit)'
      OBVIOUS
  <2>1. (AckNext \/ UNCHANGED <<taskVars, ackVars>>) /\ UNCHANGED pollVars /\ UNCHANGED receiptVars /\ UNCHANGED resendVars
      BY DEF deliveryVars
  <2> QED BY <2>1, AcksStep, AcksRest, RestStays
<1>6. /\ PollsInv /\ ReceiptInit /\ ResendInit /\ AckInit => DeliveryHolds
      /\ ReceiptsInv /\ PollInit /\ ResendInit /\ AckInit => DeliveryHolds
      /\ ResendInv /\ PollInit /\ ReceiptInit /\ AckInit => DeliveryHolds
      /\ AcksInv /\ PollInit /\ ReceiptInit /\ ResendInit => DeliveryHolds
    BY PollsSay, ReceiptsSay, ResendSays, AcksSay, PollsAtRest, ReceiptsAtRest, ResendAtRest, AcksAtRest DEF DeliveryHolds
<1> QED BY <1>1, <1>2, <1>3, <1>4, <1>5, <1>6, PTL DEF DeliverySpec

\* Every run of a job or of a workflow is whole, and a campaign runs when it was told to and only then: RunsAreWhole and
\* CampaignsObey for any number of steps, jobs, campaigns, replicas and failures (job.worker.ts:45,
\* campaign.service.ts:123).
THEOREM SchedulesKept == ScheduleSpec => []SchedulesHold
<1>1. TasksInit /\ JobInit /\ CampInit => JobsInv /\ CampsInv  BY JobsStart, CampsStart
<1>2. JobsInv /\ CampInit /\ [JobNext /\ UNCHANGED campVars]_scheduleVars => (JobsInv /\ CampInit)'
  <2> SUFFICES ASSUME JobsInv, CampInit, [JobNext /\ UNCHANGED campVars]_scheduleVars PROVE (JobsInv /\ CampInit)'
      OBVIOUS
  <2>1. (JobNext \/ UNCHANGED <<taskVars, jobVars>>) /\ UNCHANGED campVars  BY DEF scheduleVars
  <2> QED BY <2>1, JobsStep, JobsRest, RestStays
<1>3. CampsInv /\ JobInit /\ [CampNext /\ UNCHANGED jobVars]_scheduleVars => (CampsInv /\ JobInit)'
  <2> SUFFICES ASSUME CampsInv, JobInit, [CampNext /\ UNCHANGED jobVars]_scheduleVars PROVE (CampsInv /\ JobInit)'
      OBVIOUS
  <2>1. (CampNext \/ UNCHANGED <<taskVars, campVars>>) /\ UNCHANGED jobVars  BY DEF scheduleVars
  <2> QED BY <2>1, CampsStep, CampsRest, RestStays
<1>4. JobsInv /\ CampInit => SchedulesHold  BY JobsSay, CampsAtRest DEF SchedulesHold
<1>5. CampsInv /\ JobInit => SchedulesHold
  <2>1. CampsInv => failures \in Nat  BY DEF CampsInv, CampsTyped
  <2> QED BY <2>1, CampsSay, JobsAtRest DEF SchedulesHold
<1> QED BY <1>1, <1>2, <1>3, <1>4, <1>5, PTL DEF ScheduleSpec

\* Who is told of a call can enter it and whoever entered is announced, its screen has one request, what was fanned
\* out of a user is what a reader would be told, and last-seen is when the last device went: CallsHold, FannedIsCurrent
\* and LastSeenIsTheEnd for any callers, devices and failures
\* (calls.service.ts:108, screen-control.service.ts:17, presence.service.ts:122, presence.repository.ts:37).
THEOREM LiveKept == LiveSpec => []LiveHolds
<1>1. TasksInit /\ CallInit /\ PresenceInit => CallsInv /\ PresenceInv
    BY CallsStarts, PresenceStarts
<1>2. CallsInv /\ PresenceInit /\ [CallNext /\ UNCHANGED presenceVars]_liveVars => (CallsInv /\ PresenceInit)'
  <2> SUFFICES ASSUME CallsInv, PresenceInit, [CallNext /\ UNCHANGED presenceVars]_liveVars PROVE (CallsInv /\ PresenceInit)'
      OBVIOUS
  <2>1. (CallNext \/ UNCHANGED <<taskVars, callVars>>) /\ UNCHANGED presenceVars  BY DEF liveVars
  <2> QED BY <2>1, CallsStep, CallsRests, RestStays
<1>3. PresenceInv /\ CallInit /\ [PresenceNext /\ UNCHANGED callVars]_liveVars => (PresenceInv /\ CallInit)'
  <2> SUFFICES ASSUME PresenceInv, CallInit, [PresenceNext /\ UNCHANGED callVars]_liveVars PROVE (PresenceInv /\ CallInit)'
      OBVIOUS
  <2>1. (PresenceNext \/ UNCHANGED <<taskVars, presenceVars>>) /\ UNCHANGED callVars
      BY DEF liveVars
  <2> QED BY <2>1, PresenceStep, PresenceRests, RestStays
<1>4. (CallsInv /\ PresenceInit => LiveHolds) /\ (PresenceInv /\ CallInit => LiveHolds)
    BY CallsSays, PresenceSays, CallsAtRest, PresenceAtRest DEF LiveHolds
<1> QED BY <1>1, <1>2, <1>3, <1>4, PTL DEF LiveSpec
=============================================================================
