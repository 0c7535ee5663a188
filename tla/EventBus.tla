------------------------------- MODULE EventBus -------------------------------
(***************************************************************************)
(* RedisStreamsEventBus: one topic stream read by consumer groups, each    *)
(* with one or more processes.  A process has two flows of control that    *)
(* share nothing but Redis: the consume loop and the reclaim sweep.  Both  *)
(* run handleEntry, one await per step.                                    *)
(*                                                                         *)
(* An entry is its position in the stream; publish mints a new event id    *)
(* for each, so the position stands for the event id as well.              *)
(***************************************************************************)
EXTENDS Naturals, FiniteSets

CONSTANTS Groups,       \* the consumer groups subscribed to the topic
          Processes,    \* the processes running a consumer
          GroupOf,      \* [Processes -> Groups]
          Malformed,    \* positions whose payload does not parse
          BatchSize,    \* COUNT of XREADGROUP and XAUTOCLAIM, 10 in the code
          MaxAttempts,  \* MAX_HANDLER_ATTEMPTS, 3 in the code
          MaxEvents,    \* bound on the entries published
          MaxFaults     \* bound on the faults of one behaviour

FaultKinds == {"crash", "read", "check", "mark", "ack", "dlq"}

ASSUME BusAssumption ==
    /\ GroupOf \in [Processes -> Groups]
    /\ Malformed \subseteq Nat
    /\ BatchSize \in Nat \ {0}
    /\ MaxAttempts \in Nat \ {0}
    /\ MaxEvents \in Nat
    /\ MaxFaults \in Nat

Threads == Processes \X {"loop", "reclaim"}
Group(t) == GroupOf[t[1]]
Entries == 1..MaxEvents

VARIABLES
    stream,     \* how many entries the stream holds
    created,    \* the groups XGROUP CREATE has made
    first,      \* [Groups -> Nat], the last entry before the group existed ($)
    cursor,     \* [Groups -> Nat], the last entry delivered to the group
    pel,        \* [Groups -> SUBSET Entries], delivered and not acknowledged
    processed,  \* the idempotency keys evt-idem:{event_id}
    dlq,        \* <<group, entry>> written to the dead-letter stream
    unwritten,  \* <<group, entry>> whose dead-letter write failed
    runs,       \* [Groups -> [Entries -> Nat]], handler runs that succeeded
    up,         \* the processes whose consumer is running
    tpc,        \* where each thread stands in handleEntry
    cur,        \* the entry it is handling; 0 for none
    rest,       \* the entries of its batch it has not come to
    tries,      \* the handler attempt it is at
    overlapped, \* entries a sweep took while another thread still held them
    faults      \* faults so far, by kind

broker  == <<stream, created, first, cursor, pel>>
effects == <<processed, dlq, unwritten, runs>>
threads == <<tpc, cur, rest, tries>>
vars    == <<broker, effects, up, threads, overlapped, faults>>

TypeOK ==
    /\ stream \in 0..MaxEvents
    /\ created \in SUBSET Groups
    /\ first \in [Groups -> 0..MaxEvents]
    /\ cursor \in [Groups -> 0..MaxEvents]
    /\ pel \in [Groups -> SUBSET Entries]
    /\ processed \in SUBSET Entries
    /\ dlq \in SUBSET (Groups \X Entries)
    /\ unwritten \in SUBSET (Groups \X Entries)
    /\ runs \in [Groups -> [Entries -> Nat]]
    /\ up \in SUBSET Processes
    /\ tpc \in [Threads -> {"idle", "check", "handle", "mark", "dlq", "ack"}]
    /\ cur \in [Threads -> 0..MaxEvents]
    /\ rest \in [Threads -> SUBSET Entries]
    /\ tries \in [Threads -> 1..MaxAttempts]
    /\ overlapped \in SUBSET Entries
    /\ faults \in [FaultKinds -> Nat]

Init ==
    /\ stream = 0
    /\ created = {}
    /\ first = [g \in Groups |-> 0]
    /\ cursor = [g \in Groups |-> 0]
    /\ pel = [g \in Groups |-> {}]
    /\ processed = {}
    /\ dlq = {}
    /\ unwritten = {}
    /\ runs = [g \in Groups |-> [e \in Entries |-> 0]]
    /\ up = {}
    /\ tpc = [t \in Threads |-> "idle"]
    /\ cur = [t \in Threads |-> 0]
    /\ rest = [t \in Threads |-> {}]
    /\ tries = [t \in Threads |-> 1]
    /\ overlapped = {}
    /\ faults = [k \in FaultKinds |-> 0]

----------------------------------------------------------------------------
(* Threads                                                                 *)

Goto(t, next) == tpc' = [tpc EXCEPT ![t] = next]

Oldest(S) == CHOOSE e \in S : \A f \in S : e <= f

\* The thread turns to the oldest entry of batch B, or has none left.
Load(t, B) ==
    \/ /\ B = {}
       /\ Goto(t, "idle")
       /\ cur' = [cur EXCEPT ![t] = 0]
       /\ rest' = [rest EXCEPT ![t] = {}]
       /\ tries' = [tries EXCEPT ![t] = 1]
    \/ /\ B # {}
       /\ Goto(t, IF Oldest(B) \in Malformed THEN "dlq" ELSE "check")
       /\ cur' = [cur EXCEPT ![t] = Oldest(B)]
       /\ rest' = [rest EXCEPT ![t] = B \ {Oldest(B)}]
       /\ tries' = [tries EXCEPT ![t] = 1]

\* The entries a thread has in hand.
InHand(t) == rest[t] \cup ({cur[t]} \ {0})

TotalFaults ==
    faults["crash"] + faults["read"] + faults["check"] + faults["mark"] + faults["ack"] + faults["dlq"]

Fault(k) ==
    /\ TotalFaults < MaxFaults
    /\ faults' = [faults EXCEPT ![k] = @ + 1]

----------------------------------------------------------------------------
(* Publishing and starting                                                 *)

Publish ==
    /\ stream < MaxEvents
    /\ stream' = stream + 1
    /\ UNCHANGED <<created, first, cursor, pel, effects, up, threads, overlapped, faults>>

\* XGROUP CREATE at "$" (BUSYGROUP when it exists), then the loop and sweep run.
Start(p) ==
    /\ p \notin up
    /\ up' = up \cup {p}
    /\ created' = created \cup {GroupOf[p]}
    /\ IF GroupOf[p] \in created
       THEN UNCHANGED <<first, cursor>>
       ELSE /\ first' = [first EXCEPT ![GroupOf[p]] = stream]
            /\ cursor' = [cursor EXCEPT ![GroupOf[p]] = stream]
    /\ UNCHANGED <<stream, pel, effects, threads, overlapped, faults>>

\* The process dies: its batches and its attempts are gone, Redis is not.
Crash(p) ==
    /\ Fault("crash")
    /\ p \in up
    /\ up' = up \ {p}
    /\ tpc' = [t \in Threads |-> IF t[1] = p THEN "idle" ELSE tpc[t]]
    /\ cur' = [t \in Threads |-> IF t[1] = p THEN 0 ELSE cur[t]]
    /\ rest' = [t \in Threads |-> IF t[1] = p THEN {} ELSE rest[t]]
    /\ tries' = [t \in Threads |-> IF t[1] = p THEN 1 ELSE tries[t]]
    /\ UNCHANGED <<broker, effects, overlapped>>

----------------------------------------------------------------------------
(* Taking a batch                                                          *)

\* What XREADGROUP ">" returns to group g: the next entries, up to COUNT.
Undelivered(g) ==
    {e \in Entries : cursor[g] < e /\ e <= stream /\ e <= cursor[g] + BatchSize}

\* The server's part of XREADGROUP: the batch enters the pending list as it is delivered.
XReadGroup(g) ==
    /\ Undelivered(g) # {}
    /\ cursor' = [cursor EXCEPT ![g] = @ + Cardinality(Undelivered(g))]
    /\ pel' = [pel EXCEPT ![g] = @ \cup Undelivered(g)]
    /\ UNCHANGED <<stream, created, first>>

\* consumeLoop.
Read(p) ==
    LET t == <<p, "loop">>
    IN  /\ p \in up
        /\ tpc[t] = "idle"
        /\ XReadGroup(GroupOf[p])
        /\ Load(t, Undelivered(GroupOf[p]))
        /\ UNCHANGED <<effects, up, overlapped, faults>>

\* "read error": the reply is lost after the server has acted.  The loop waits and reads on with
\* ">", behind the batch, which is left to the sweep.
ReadFails(p) ==
    /\ Fault("read")
    /\ p \in up
    /\ tpc[<<p, "loop">>] = "idle"
    /\ XReadGroup(GroupOf[p])
    /\ UNCHANGED <<effects, up, threads, overlapped>>

\* XAUTOCLAIM: any pending entries may have been idle long enough, also those a
\* live thread of this or another process is still working on.  An error of the sweep itself
\* ("reclaim sweep skipped") leaves the entries where they are.
ReclaimBatch(p, B) ==
    LET t == <<p, "reclaim">>
    IN  /\ p \in up
        /\ tpc[t] = "idle"
        /\ B # {}
        /\ B \subseteq pel[GroupOf[p]]
        /\ Cardinality(B) <= BatchSize
        /\ overlapped' = overlapped \cup
              {e \in B : \E u \in Threads : Group(u) = GroupOf[p] /\ e \in InHand(u)}
        /\ Load(t, B)
        /\ UNCHANGED <<broker, effects, up, faults>>

Reclaim(p) == \E B \in SUBSET pel[GroupOf[p]] : ReclaimBatch(p, B)

----------------------------------------------------------------------------
(* handleEntry                                                             *)


\* Mutant of Check: the event is marked before its handler runs.
MarkFirst(t) ==
    /\ tpc[t] = "check"
    /\ Goto(t, IF cur[t] \in processed THEN "ack" ELSE "handle")
    /\ processed' = processed \cup {cur[t]}
    /\ UNCHANGED <<broker, dlq, unwritten, runs, up, cur, rest, tries, overlapped, faults>>

\* Mutant of Check: no idempotency check.
CheckNothing(t) ==
    /\ tpc[t] = "check"
    /\ Goto(t, "handle")
    /\ UNCHANGED <<broker, effects, up, cur, rest, tries, overlapped, faults>>

\* wasProcessed: a known event id is acknowledged unhandled.
Check(t) ==
    /\ tpc[t] = "check"
    /\ Goto(t, IF cur[t] \in processed THEN "ack" ELSE "handle")
    /\ UNCHANGED <<broker, effects, up, cur, rest, tries, overlapped, faults>>

\* The EXISTS call rejects: the error leaves handleEntry, and the rest of the
\* batch stays in the pending list.
CheckFails(t) ==
    /\ Fault("check")
    /\ tpc[t] = "check"
    /\ Load(t, {})
    /\ UNCHANGED <<broker, effects, up, overlapped>>

HandlerSucceeds(t) ==
    /\ tpc[t] = "handle"
    /\ runs' = [runs EXCEPT ![Group(t)][cur[t]] = @ + 1]
    /\ Goto(t, "mark")
    /\ UNCHANGED <<broker, processed, dlq, unwritten, up, cur, rest, tries, overlapped, faults>>


\* Another attempt, or the dead-letter stream after the last.
RetryOrDivert(t) ==
    \/ /\ tries[t] < MaxAttempts
       /\ tries' = [tries EXCEPT ![t] = @ + 1]
       /\ Goto(t, "handle")
    \/ /\ tries[t] = MaxAttempts
       /\ Goto(t, "dlq")
       /\ UNCHANGED tries


HandlerFails(t) ==
    /\ tpc[t] = "handle"
    /\ RetryOrDivert(t)
    /\ UNCHANGED <<broker, effects, up, cur, rest, overlapped, faults>>

\* markIfNew, after the handler: SET NX, and nobody looks at its answer.
Mark(t) ==
    /\ tpc[t] = "mark"
    /\ processed' = processed \cup {cur[t]}
    /\ Goto(t, "ack")
    /\ UNCHANGED <<broker, dlq, unwritten, runs, up, cur, rest, tries, overlapped, faults>>

\* Inside the same try as the handler, so it counts as a failed attempt.
MarkFails(t) ==
    /\ Fault("mark")
    /\ tpc[t] = "mark"
    /\ RetryOrDivert(t)
    /\ UNCHANGED <<broker, effects, up, cur, rest, overlapped>>


\* Mutant of ToDlq: the diverted entry is not acknowledged.
DivertOnly(t) ==
    /\ tpc[t] = "dlq"
    /\ dlq' = dlq \cup {<<Group(t), cur[t]>>}
    /\ Load(t, rest[t])
    /\ UNCHANGED <<broker, processed, unwritten, runs, up, overlapped, faults>>

ToDlq(t) ==
    /\ tpc[t] = "dlq"
    /\ dlq' = dlq \cup {<<Group(t), cur[t]>>}
    /\ Goto(t, "ack")
    /\ UNCHANGED <<broker, processed, unwritten, runs, up, cur, rest, tries, overlapped, faults>>

\* toDlq logs a failed write and returns; the entry is acknowledged all the same.
DlqFails(t) ==
    /\ Fault("dlq")
    /\ tpc[t] = "dlq"
    /\ unwritten' = unwritten \cup {<<Group(t), cur[t]>>}
    /\ Goto(t, "ack")
    /\ UNCHANGED <<broker, processed, dlq, runs, up, cur, rest, tries, overlapped>>

Ack(t) ==
    /\ tpc[t] = "ack"
    /\ pel' = [pel EXCEPT ![Group(t)] = @ \ {cur[t]}]
    /\ Load(t, rest[t])
    /\ UNCHANGED <<stream, created, first, cursor, effects, up, overlapped, faults>>

\* ack swallows the error: the entry stays pending.
AckFails(t) ==
    /\ Fault("ack")
    /\ tpc[t] = "ack"
    /\ Load(t, rest[t])
    /\ UNCHANGED <<broker, effects, up, overlapped>>

----------------------------------------------------------------------------

HandleStep(t) ==
    \/ Check(t) \/ HandlerSucceeds(t) \/ HandlerFails(t)
    \/ Mark(t) \/ ToDlq(t) \/ Ack(t)

FaultStep(t) ==
    \/ CheckFails(t) \/ MarkFails(t) \/ DlqFails(t) \/ AckFails(t)

ProcessStep(p) == Start(p) \/ Crash(p) \/ Read(p) \/ ReadFails(p) \/ Reclaim(p)

Next ==
    \/ Publish
    \/ \E p \in Processes : ProcessStep(p)
    \/ \E t \in Threads : HandleStep(t) \/ FaultStep(t)

Spec == Init /\ [][Next]_vars

\* The loops run as long as their process does, a dead process is restarted,
\* and the sweep comes round to every entry that stays pending.
Fairness ==
    /\ \A p \in Processes : WF_vars(Start(p)) /\ WF_vars(Read(p))
    /\ \A t \in Threads : WF_vars(HandleStep(t))
    /\ \A p \in Processes, e \in Entries :
          SF_vars(\E B \in SUBSET pel[GroupOf[p]] : e \in B /\ ReclaimBatch(p, B))

FairSpec == Spec /\ Fairness

----------------------------------------------------------------------------
(* Properties                                                              *)

\* Delivered to the group and no longer pending: Redis will never offer it again.
Gone(g, e) == first[g] < e /\ e <= cursor[g] /\ e \notin pel[g]

\* "The event bus is the delivery guarantee for everything downstream": an entry
\* leaves a group's pending list only when the group handled it, or it is in the
\* dead-letter stream, or writing it there failed.
GroupHandledWhatIsGone ==
    \A g \in Groups, e \in Entries :
        Gone(g, e) => \/ runs[g][e] > 0
                      \/ <<g, e>> \in dlq \cup unwritten

\* A group's handler runs to success twice on one entry only after a crash, a
\* failed mark or a sweep that took the entry from a thread still working on it.
HandledTwiceOnlyAfterFault ==
    \A g \in Groups, e \in Entries :
        runs[g][e] > 1 => faults["crash"] + faults["mark"] > 0 \/ e \in overlapped

\* "Per-entity ordering" on this transport: a group read by one process handles
\* the entries in stream order, a diverted one excepted, until a crash or a failed
\* idempotency check drops the rest of a batch, the reply to a read is lost, or a
\* sweep overtakes the loop.
HandledInOrder ==
    \A g \in Groups, e, f \in Entries :
        (/\ \A p, q \in Processes : GroupOf[p] = g /\ GroupOf[q] = g => p = q
         /\ faults["crash"] + faults["read"] + faults["check"] = 0
         /\ overlapped = {}
         /\ runs[g][e] > 0
         /\ first[g] < f /\ f < e)
        => runs[g][f] > 0 \/ <<g, f>> \in dlq \cup unwritten

\* Every entry a group is entitled to is settled in the end, whatever process
\* dies holding it and whichever acknowledgement is lost.
EventuallySettled ==
    \A g \in Groups, e \in Entries :
        (g \in created /\ first[g] < e /\ e <= stream) ~> Gone(g, e)

\* Repeats and reorderings within a group have the causes named above, and no other
\* (redis-streams.bus.ts:253, :274).
HandledOnceInOrder == HandledTwiceOnlyAfterFault /\ HandledInOrder

=============================================================================
