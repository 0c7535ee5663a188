-------------------------- MODULE NotificationOutbox --------------------------
(***************************************************************************)
(* The push outbox: NotificationService enqueues one row per (event, user), *)
(* OutboxWorker claims due rows, pushes to the user's device endpoints,     *)
(* prunes endpoints the provider calls gone and settles the row.  Every     *)
(* query and every round of pushes is a step, so replicas of the worker,    *)
(* token refreshes and crashes come between any two.                        *)
(*                                                                         *)
(* The rows belong to one user: rows and endpoints of two users never meet. *)
(* The push provider and the devices are external.                          *)
(***************************************************************************)
EXTENDS Naturals, FiniteSets

CONSTANTS Rows,         \* the dedupe keys of the user's pushes
          Devices,      \* the user's devices
          Workers,      \* replicas running the outbox worker
          BatchSize,    \* rows per claim, 50 in the code
          MaxAttempts,  \* MAX_ATTEMPTS, 6 in the code
          MaxTokens,    \* bound on push tokens: the first device to reach it ends the changes
          MaxFaults     \* bound on the faults of one behaviour

FaultKinds == {"crash", "db", "lostReply"}

ASSUME OutboxAssumption ==
    /\ BatchSize \in Nat \ {0}
    /\ MaxAttempts \in Nat \ {0}
    /\ MaxTokens \in Nat
    /\ MaxFaults \in Nat

VARIABLES
    status,     \* [Rows -> {"absent", "pending", "sent", "dead"}]
    attempts,   \* [Rows -> Nat], the claims of the row
    due,        \* the rows whose next_attempt_at has passed
    token,      \* [Devices -> Nat], the registered push token; 0 without an endpoint
    valid,      \* [Devices -> Nat], the token the provider accepts; 0 for none
    wpc,        \* where each worker stands
    batch,      \* [Workers -> SUBSET Rows], claimed rows it has not settled
    held,       \* [Workers -> [Rows -> Nat]], row.attempts as it was claimed
    cur,        \* [Workers -> SUBSET Rows], the row it is delivering, or none
    targets,    \* [Workers -> [Devices -> Nat]], the endpoints it pushes to or prunes
    outcome,    \* [Workers -> [Devices -> Outcomes]], what the sends answered
    received,   \* [Rows -> [Devices -> Nat]], pushes that reached the device
    shared,     \* rows claimed while a worker still held them
    faults      \* faults so far, by kind

rows      == <<status, attempts, due>>
endpoints == <<token, valid>>
locals    == <<wpc, batch, held, cur, targets, outcome>>
vars      == <<rows, endpoints, locals, received, shared, faults>>

Outcomes == {"none", "delivered", "gone", "refused", "transient"}

NoTargets  == [d \in Devices |-> 0]
NoOutcomes == [d \in Devices |-> "none"]

TypeOK ==
    /\ status \in [Rows -> {"absent", "pending", "sent", "dead"}]
    /\ attempts \in [Rows -> Nat]
    /\ due \in SUBSET Rows
    /\ token \in [Devices -> Nat]
    /\ valid \in [Devices -> Nat]
    /\ wpc \in [Workers -> {"idle", "lookup", "push", "prune", "settle"}]
    /\ batch \in [Workers -> SUBSET Rows]
    /\ held \in [Workers -> [Rows -> Nat]]
    /\ cur \in [Workers -> SUBSET Rows]
    /\ targets \in [Workers -> [Devices -> Nat]]
    /\ outcome \in [Workers -> [Devices -> Outcomes]]
    /\ received \in [Rows -> [Devices -> Nat]]
    /\ shared \in SUBSET Rows
    /\ faults \in [FaultKinds -> Nat]
    /\ \A w \in Workers : wpc[w] = "idle" <=> cur[w] = {}

\* Some devices are registered, some of those with a token that died since.
Init ==
    /\ status = [k \in Rows |-> "absent"]
    /\ attempts = [k \in Rows |-> 0]
    /\ due = {}
    /\ token \in [Devices -> {0, 1}]
    /\ valid = [d \in Devices |-> 1]
    /\ wpc = [w \in Workers |-> "idle"]
    /\ batch = [w \in Workers |-> {}]
    /\ held = [w \in Workers |-> [k \in Rows |-> 0]]
    /\ cur = [w \in Workers |-> {}]
    /\ targets = [w \in Workers |-> NoTargets]
    /\ outcome = [w \in Workers |-> NoOutcomes]
    /\ received = [k \in Rows |-> [d \in Devices |-> 0]]
    /\ shared = {}
    /\ faults = [f \in FaultKinds |-> 0]

----------------------------------------------------------------------------
(* Workers                                                                 *)

\* The rows worker w has claimed and not settled.
InHand(w) == batch[w] \cup cur[w]

\* The worker turns to a row of B, RETURNING's order being unspecified, or is done;
\* what it knew of the rows and endpoints it leaves is gone.
Load(w, B, claims) ==
    /\ \/ B = {} /\ cur' = [cur EXCEPT ![w] = {}] /\ wpc' = [wpc EXCEPT ![w] = "idle"]
       \/ \E k \in B : cur' = [cur EXCEPT ![w] = {k}] /\ wpc' = [wpc EXCEPT ![w] = "lookup"]
    /\ batch' = [batch EXCEPT ![w] = B \ cur'[w]]
    /\ held' = [held EXCEPT ![w] = [k \in Rows |-> IF k \in B THEN claims[k] ELSE 0]]
    /\ targets' = [targets EXCEPT ![w] = NoTargets]
    /\ outcome' = [outcome EXCEPT ![w] = NoOutcomes]

Answered(w, o) == {d \in Devices : outcome[w][d] = o}

TotalFaults == faults["crash"] + faults["db"] + faults["lostReply"]

Fault(k) ==
    /\ TotalFaults < MaxFaults
    /\ faults' = [faults EXCEPT ![k] = @ + 1]

----------------------------------------------------------------------------
(* Enqueueing                                                              *)

\* Mutant of OnMessageSent: the conflict clause revives the row.
EnqueueAgain(k) ==
    /\ status' = [status EXCEPT ![k] = "pending"]
    /\ due' = due \cup {k}
    /\ UNCHANGED <<attempts, endpoints, locals, received, shared, faults>>

\* The bus delivers the event once or more; preferences and presence, which are
\* only read here, decide whether it is delivered to this user at all.
\* ON CONFLICT (dedupe_key) DO NOTHING.
OnMessageSent(k) ==
    /\ status[k] = "absent"
    /\ status' = [status EXCEPT ![k] = "pending"]
    /\ due' = due \cup {k}
    /\ UNCHANGED <<attempts, endpoints, locals, received, shared, faults>>

\* The backoff of a row runs out.
BackoffOver(k) ==
    /\ status[k] = "pending"
    /\ k \notin due
    /\ due' = due \cup {k}
    /\ UNCHANGED <<status, attempts, endpoints, locals, received, shared, faults>>

----------------------------------------------------------------------------
(* Devices                                                                 *)

\* The provider gives the device a new token and forgets the old one.
NewToken(d) ==
    /\ \A e \in Devices : valid[e] < MaxTokens
    /\ valid' = [valid EXCEPT ![d] = @ + 1]
    /\ UNCHANGED <<rows, token, locals, received, shared, faults>>

\* registerEndpoint: an upsert by device id.
RegisterEndpoint(d) ==
    /\ token[d] # valid[d]
    /\ token' = [token EXCEPT ![d] = valid[d]]
    /\ UNCHANGED <<rows, valid, locals, received, shared, faults>>

----------------------------------------------------------------------------
(* Delivering                                                              *)

\* Mutant of Claim: settled rows are claimed too.
ClaimSettled(w, B) ==
    /\ wpc[w] = "idle"
    /\ B # {} /\ Cardinality(B) <= BatchSize /\ B \subseteq due
    /\ attempts' = [k \in Rows |-> attempts[k] + (IF k \in B THEN 1 ELSE 0)]
    /\ shared' = shared \cup {k \in B : \E v \in Workers : k \in InHand(v)}
    /\ Load(w, B, attempts')
    /\ UNCHANGED <<status, due, endpoints, received, faults>>

\* Mutant of Claim: a claim takes the row out of the pending ones.
ClaimForGood(w, B) ==
    /\ wpc[w] = "idle"
    /\ B # {} /\ Cardinality(B) <= BatchSize
    /\ \A k \in B : status[k] = "pending" /\ k \in due
    /\ status' = [k \in Rows |-> IF k \in B THEN "sending" ELSE status[k]]
    /\ attempts' = [k \in Rows |-> attempts[k] + (IF k \in B THEN 1 ELSE 0)]
    /\ Load(w, B, attempts')
    /\ UNCHANGED <<due, endpoints, received, shared, faults>>

\* claimPending: attempts + 1 and nothing else, so a claimed row stays pending and due.
\* SKIP LOCKED holds for the statement only; it makes the batch any part of what is due.
Claim(w, B) ==
    /\ wpc[w] = "idle"
    /\ B # {}
    /\ Cardinality(B) <= BatchSize
    /\ \A k \in B : status[k] = "pending" /\ k \in due
    /\ attempts' = [k \in Rows |-> attempts[k] + (IF k \in B THEN 1 ELSE 0)]
    /\ shared' = shared \cup {k \in B : \E v \in Workers : k \in InHand(v)}
    /\ Load(w, B, attempts')
    /\ UNCHANGED <<status, due, endpoints, received, faults>>

Tick(w) == \E B \in SUBSET due : Claim(w, B)

\* endpointsFor: a snapshot.
EndpointsFor(w) ==
    /\ wpc[w] = "lookup"
    /\ targets' = [targets EXCEPT ![w] = token]
    /\ wpc' = [wpc EXCEPT ![w] = IF token = NoTargets THEN "settle" ELSE "push"]
    /\ UNCHANGED <<rows, endpoints, batch, held, cur, outcome, received, shared, faults>>

\* What the provider may answer to a push for device d.
Answers(w, d) ==
    CASE targets[w][d] = 0        -> {"none"}
      [] targets[w][d] = valid[d] -> {"delivered", "refused", "transient"}
      [] OTHER                    -> {"gone", "transient"}

\* The endpoints to prune are remembered, and no others.
PushAnswered(w, o) ==
    /\ \A d \in Devices : o[d] \in Answers(w, d)
    /\ outcome' = [outcome EXCEPT ![w] = o]
    /\ targets' = [targets EXCEPT ![w] =
          [d \in Devices |-> IF o[d] = "gone" THEN @[d] ELSE 0]]
    /\ wpc' = [wpc EXCEPT ![w] = IF \E d \in Devices : o[d] = "gone" THEN "prune" ELSE "settle"]

Receive(k, D) ==
    received' = [received EXCEPT ![k] = [d \in Devices |-> @[d] + (IF d \in D THEN 1 ELSE 0)]]

\* Promise.allSettled over the endpoints.
Push(w) ==
    /\ wpc[w] = "push"
    /\ \E o \in [Devices -> Outcomes], k \in cur[w] :
          /\ PushAnswered(w, o)
          /\ Receive(k, {d \in Devices : o[d] = "delivered"})
    /\ UNCHANGED <<rows, endpoints, batch, held, cur, shared, faults>>

\* A push reached its device, and the answer was lost: the worker sees a network error.
PushReplyLost(w) ==
    /\ Fault("lostReply")
    /\ wpc[w] = "push"
    /\ \E o \in [Devices -> Outcomes], k \in cur[w], lost \in Devices :
          /\ PushAnswered(w, o)
          /\ targets[w][lost] = valid[lost] /\ valid[lost] # 0 /\ o[lost] = "transient"
          /\ Receive(k, {lost} \cup {d \in Devices : o[d] = "delivered"})
    /\ UNCHANGED <<rows, endpoints, batch, held, cur, shared>>

\* deleteEndpoint by device id, one gone device at a time; a failure is swallowed.
PruneOne(w, d, deleted) ==
    /\ wpc[w] = "prune"
    /\ outcome[w][d] = "gone"
    /\ token' = IF deleted THEN [token EXCEPT ![d] = 0] ELSE token
    /\ outcome' = [outcome EXCEPT ![w][d] = "none"]
    /\ targets' = [targets EXCEPT ![w][d] = 0]
    /\ wpc' = [wpc EXCEPT ![w] = IF Answered(w, "gone") = {d} THEN "settle" ELSE "prune"]
    /\ UNCHANGED <<rows, valid, batch, held, cur, received, shared>>

Prune(w) == \E d \in Devices : PruneOne(w, d, TRUE) /\ UNCHANGED faults

PruneFails(w) == Fault("db") /\ \E d \in Devices : PruneOne(w, d, FALSE)

\* Retry only when nobody received it and somebody still might.
WorthRetrying(w) == Answered(w, "transient") # {} /\ Answered(w, "delivered") = {}

\* By id alone, whatever the row has become since it was claimed.
MarkRetryOrDead(w, k) ==
    /\ WorthRetrying(w)
    /\ \/ /\ held[w][k] >= MaxAttempts
          /\ status' = [status EXCEPT ![k] = "dead"]
          /\ UNCHANGED due
       \/ /\ held[w][k] < MaxAttempts
          /\ status' = [status EXCEPT ![k] = "pending"]
          /\ due' = due \ {k}

MarkSent(w, k) ==
    /\ ~WorthRetrying(w)
    /\ status' = [status EXCEPT ![k] = "sent"]
    /\ UNCHANGED due

Settle(w) ==
    /\ wpc[w] = "settle"
    /\ \E k \in cur[w] : MarkRetryOrDead(w, k) \/ MarkSent(w, k)
    /\ Load(w, batch[w], held[w])
    /\ UNCHANGED <<attempts, endpoints, received, shared, faults>>

----------------------------------------------------------------------------
(* Failures                                                                *)

\* endpointsFor, markSent or markRetryOrDead rejects: the error leaves runTick
\* with the rest of the batch claimed, still pending, still due.
QueryFails(w) ==
    /\ Fault("db")
    /\ wpc[w] \in {"lookup", "settle"}
    /\ Load(w, {}, held[w])
    /\ UNCHANGED <<rows, endpoints, received, shared>>

\* The replica restarts; the pushes it sent are out.
Crash(w) ==
    /\ Fault("crash")
    /\ wpc[w] # "idle"
    /\ Load(w, {}, held[w])
    /\ UNCHANGED <<rows, endpoints, received, shared>>

----------------------------------------------------------------------------

RowStep(k) == OnMessageSent(k) \/ BackoffOver(k)

DeviceStep(d) == NewToken(d) \/ RegisterEndpoint(d)

Deliver(w) == EndpointsFor(w) \/ Push(w) \/ Prune(w) \/ Settle(w)

FaultStep(w) == PushReplyLost(w) \/ PruneFails(w) \/ QueryFails(w) \/ Crash(w)

Next ==
    \/ \E k \in Rows : RowStep(k)
    \/ \E d \in Devices : DeviceStep(d)
    \/ \E w \in Workers : Tick(w) \/ Deliver(w) \/ FaultStep(w)

Spec == Init /\ [][Next]_vars

\* setInterval keeps ticking and oldest-first ordering lets no due row starve; a
\* started delivery goes on; a backoff runs out.
Fairness ==
    /\ \A w \in Workers : WF_vars(Deliver(w))
    /\ \A k \in Rows :
          /\ WF_vars(BackoffOver(k))
          /\ SF_vars(\E w \in Workers, B \in SUBSET due : k \in B /\ Claim(w, B))

FairSpec == Spec /\ Fairness

----------------------------------------------------------------------------
(* Properties                                                              *)

\* outbox.worker.ts:10-11 "claimed with FOR UPDATE SKIP LOCKED so replicas don't
\* double-send": no device gets one push twice.
NoDoubleSend == \A k \in Rows, d \in Devices : received[k][d] <= 1

\* A device gets a push again only when a worker crashed, a settling query failed
\* or an answer was lost - or when two replicas claimed the row at once.  Bus
\* redelivery, retries with several devices and token changes never repeat one.
RepeatedOnlyAfterFault ==
    \A k \in Rows, d \in Devices :
        received[k][d] > 1 => TotalFaults > 0 \/ k \in shared

\* A settled row stays settled, and a row is given up only after MaxAttempts claims
\* that reached nobody - as long as no two replicas held it at once.
SettledForGood ==
    [][\A k \in Rows :
         status[k] \in {"sent", "dead"} => status'[k] = status[k] \/ k \in shared]_vars

DeadReachedNobody ==
    \A k \in Rows :
        status[k] = "dead" =>
            /\ attempts[k] >= MaxAttempts
            /\ (\E d \in Devices : received[k][d] > 0) => TotalFaults > 0 \/ k \in shared

\* notification.repository.ts:164 "Remove an endpoint the push provider has told us
\* is permanently invalid": an endpoint with a working token is removed only if the
\* device registered that token while a push to its previous one was under way.
WorkingEndpointKept ==
    [][\A d \in Devices :
         token[d] # 0 /\ token[d] = valid[d] /\ token'[d] = 0 =>
             \E w \in Workers : outcome[w][d] = "gone" /\ targets[w][d] < token[d]]_vars

\* Every enqueued push is settled in the end: a crash, a failed query or a
\* transient provider leaves no row pending for ever.
EventuallySettled ==
    \A k \in Rows : status[k] = "pending" ~> status[k] \in {"sent", "dead"}

\* What a device got and what its row says agree (outbox.worker.ts:131-142).
RowsTellTheTruth == RepeatedOnlyAfterFault /\ DeadReachedNobody

\* Settled rows and working endpoints stay (notification.repository.ts:164, :210).
SettledAndWorkingKept == SettledForGood /\ WorkingEndpointKept

=============================================================================
