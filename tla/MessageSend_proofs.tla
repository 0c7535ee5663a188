-------------------------- MODULE MessageSend_proofs --------------------------
(***************************************************************************)
(* Theorems about MessageSend for any number of calls, attempts, faults    *)
(* and any length of the history, and about a device that reads what it     *)
(* stored (HistoryReader), for any page size.                              *)
(***************************************************************************)
EXTENDS HistoryReader, FunctionTheorems, FiniteSetTheorems, TLAPS

----------------------------------------------------------------------------
(* The inductive invariant                                                 *)

\* What is written or emitted under a call's seq was really handed to it.
SeqHeld ==
    \A r \in Requests : pc[r] \in {"persist", "insert", "findWinner", "emit"} => seq[r] > 0

\* The two unique indexes.
Uniq ==
    \A m, n \in messages :
        m.seq = n.seq \/ m.client_msg_id = n.client_msg_id => m = n

\* A stored document is history, or its call has come past the insert and
\* holds it still; so no call before that point can find its own document.
Stored == {"emit", "acked", "failed", "crashed"}

OwnedByItsCall ==
    \A m \in messages :
        \/ m \in OldDocs
        \/ m._id \in Requests /\ pc[m._id] \in Stored /\ m = DocOf(m._id)

EmitStored == \A r \in Requests : pc[r] = "emit" => DocOf(r) \in messages

AckSound ==
    \A a \in acks :
        /\ a.doc \in messages
        /\ a.doc.client_msg_id = MsgOf[a.req]
        /\ a.doc._id = a.req => a.doc \in published

PublishedSound == OldDocs \subseteq published /\ published \subseteq messages

LogInv ==
    /\ TypeOK
    /\ SeqHeld
    /\ Uniq
    /\ OwnedByItsCall
    /\ EmitStored
    /\ AckSound
    /\ PublishedSound
    /\ UnemittedOnlyAfterFault

\* While the counters are intact Redis alone hands out numbers, from above
\* everything stored, and never goes back.
RedisServes ==
    /\ redisUp
    /\ \A r \in Requests : path[r] = "cold" /\ pc[r] # "incrementDurable"

Seeded ==
    /\ \A r \in Requests : pc[r] \in Holding => 0 < redisSeq /\ seq[r] <= redisSeq
    /\ \A r \in Requests : pc[r] = "incr" => 0 < redisSeq
    /\ 0 < redisSeq => \A m \in messages : m.seq <= redisSeq

FloorsHigh ==
    redisSeq = 0 =>
        \A r \in Requests, m \in messages : pc[r] = "seed" => m.seq <= floor[r]

IntactInv == CountersIntact => RedisServes /\ Seeded /\ FloorsHigh

----------------------------------------------------------------------------
(* Types                                                                   *)

\* The history is made of documents under numbers from 1.
LEMMA OldDocsType == OldDocs \subseteq Docs /\ \A m \in OldDocs : m.seq \in 1..History
<1>1. \A m \in OldDocs : m \in Docs /\ m.seq \in 1..History
    BY SendAssumption DEF OldDocs, OldIds, Docs
<1> QED BY <1>1

\* A document built from a positive seq is a document.
LEMMA DocOfType ==
    ASSUME TypeOK, NEW r \in Requests, seq[r] > 0
    PROVE  DocOf(r) \in Docs
BY DEF TypeOK, DocOf, Docs, ClientMsgs

\* Counting a fault keeps the record of faults a record of numbers.
LEMMA FaultType ==
    ASSUME TypeOK, NEW k \in FaultKinds, Fault(k)
    PROVE  faults' \in [FaultKinds -> Nat] /\ faults'[k] = faults[k] + 1
BY DEF TypeOK, Fault

\* The initial states satisfy the type invariant.
LEMMA InitType == Init => TypeOK /\ SeqHeld
BY OldDocsType, SendAssumption DEF Init, TypeOK, SeqHeld, PCs

\* Every step of the send handler keeps the types and the seqs held.
LEMMA SendType ==
    ASSUME TypeOK, SeqHeld, NEW r \in Requests, SendStep(r)
    PROVE  TypeOK' /\ SeqHeld'
<1> USE DEF TypeOK, SeqHeld, PCs, Goto, Hand, AckWith, log, redis, locals
<1>1. CASE FindByClientMsgId(r)  BY <1>1 DEF FindByClientMsgId, Existing
<1>2. CASE HotIncr(r)  BY <1>2 DEF HotIncr
<1>3. CASE FloorCounter(r)  BY <1>3 DEF FloorCounter
<1>4. CASE FloorMessages(r)
  <2>1. \A x \in StoredSeqs \cup {floor[r]} : x \in Nat  BY DEF StoredSeqs, Docs
  <2> QED BY <1>4, <2>1 DEF FloorMessages, AfterFloor
<1>5. CASE Seed(r)  BY <1>5 DEF Seed
<1>6. CASE Persist(r)  BY <1>6 DEF Persist, Larger
<1>7. CASE Incr(r)  BY <1>7 DEF Incr
<1>8. CASE IncrementDurable(r)  BY <1>8 DEF IncrementDurable, Larger
<1>9. CASE Insert(r)  BY <1>9, DocOfType DEF Insert
<1>10. CASE FindWinner(r)
  <2>1. CASE AnswerWinner(r)  BY <1>10, <2>1 DEF FindWinner, AnswerWinner, Existing
  <2>2. CASE TakeFreshSeq(r)  BY <1>10, <2>2, SendAssumption DEF FindWinner, TakeFreshSeq
  <2>3. CASE GiveUp(r)  BY <1>10, <2>3 DEF FindWinner, GiveUp
  <2> QED BY <1>10, <2>1, <2>2, <2>3 DEF FindWinner
<1>11. CASE Emit(r)  BY <1>11, DocOfType DEF Emit
<1> QED BY <1>1, <1>2, <1>3, <1>4, <1>5, <1>6, <1>7, <1>8, <1>9, <1>10, <1>11 DEF SendStep

\* So does every failure of a call.
LEMMA FaultStepType ==
    ASSUME TypeOK, SeqHeld, NEW r \in Requests, FaultStep(r)
    PROVE  TypeOK' /\ SeqHeld'
<1> USE DEF TypeOK, SeqHeld, PCs, Goto, Degrade, log, redis, locals
<1>1. CASE RedisRejects(r)  BY <1>1 DEF RedisRejects
<1>2. CASE RedisReplyLost(r)  BY <1>2, FaultType DEF RedisReplyLost, FaultKinds
<1>3. CASE IncrRejects(r)  BY <1>3 DEF IncrRejects
<1>4. CASE MongoFails(r)  BY <1>4, FaultType DEF MongoFails, FaultKinds
<1>5. CASE InsertReplyLost(r)  BY <1>5, FaultType, DocOfType DEF InsertReplyLost, FaultKinds
<1>6. CASE FloorUnreadable(r)  BY <1>6, FaultType DEF FloorUnreadable, AfterFloor, FaultKinds
<1>7. CASE PersistFails(r)  BY <1>7, FaultType DEF PersistFails, FaultKinds
<1>8. CASE PublishFails(r)  BY <1>8, FaultType, DocOfType DEF PublishFails, FaultKinds
<1>9. CASE Crash(r)  BY <1>9, FaultType DEF Crash, FaultKinds
<1> QED BY <1>1, <1>2, <1>3, <1>4, <1>5, <1>6, <1>7, <1>8, <1>9 DEF FaultStep

\* And everything Redis does on its own.
LEMMA RedisStepType ==
    ASSUME TypeOK, SeqHeld, RedisStep
    PROVE  TypeOK' /\ SeqHeld'
<1> USE DEF TypeOK, SeqHeld, log, redis, locals
<1>1. CASE Evict  BY <1>1, FaultType DEF Evict, FaultKinds
<1>2. CASE RedisDown  BY <1>2, FaultType DEF RedisDown, FaultKinds
<1>3. CASE RedisBack  BY <1>3 DEF RedisBack
<1> QED BY <1>1, <1>2, <1>3 DEF RedisStep

\* Every step keeps the types.
LEMMA NextType ==
    ASSUME TypeOK, SeqHeld, [Next]_vars
    PROVE  TypeOK' /\ SeqHeld'
<1>1. CASE UNCHANGED vars  BY <1>1 DEF TypeOK, SeqHeld, vars, log, redis, locals
<1> QED BY <1>1, SendType, FaultStepType, RedisStepType DEF Next

\* Every variable of the send handler keeps its type, whatever fails.
THEOREM TypeCorrect == Spec => []TypeOK
<1>1. Init => TypeOK /\ SeqHeld  BY InitType
<1>2. TypeOK /\ SeqHeld /\ [Next]_vars => (TypeOK /\ SeqHeld)'  BY NextType
<1> QED BY <1>1, <1>2, PTL DEF Spec

----------------------------------------------------------------------------
(* The log                                                                 *)

\* Faults are only ever counted up.
LEMMA FaultsGrow ==
    ASSUME TypeOK, [Next]_vars
    PROVE  \A k \in FaultKinds : faults'[k] >= faults[k]
<1> USE DEF TypeOK
<1>1. CASE faults' = faults  BY <1>1
<1>2. ASSUME NEW k \in FaultKinds, Fault(k)
      PROVE  \A j \in FaultKinds : faults'[j] >= faults[j]
    BY <1>2 DEF Fault
<1>3. CASE RedisStep  BY <1>1, <1>2, <1>3 DEF RedisStep, Evict, RedisDown, RedisBack, FaultKinds
<1>4. ASSUME NEW r \in Requests, SendStep(r)
      PROVE  faults' = faults
    BY <1>4 DEF SendStep, FindByClientMsgId, HotIncr, FloorCounter, FloorMessages, Seed,
        Persist, Incr, IncrementDurable, Insert, FindWinner, Emit
<1>5. ASSUME NEW r \in Requests, FaultStep(r)
      PROVE  faults' = faults \/ \E k \in FaultKinds : Fault(k)
    BY <1>5 DEF FaultStep, RedisRejects, RedisReplyLost, IncrRejects, MongoFails,
        InsertReplyLost, FloorUnreadable, PersistFails, PublishFails, Crash, FaultKinds
<1> QED BY <1>1, <1>2, <1>3, <1>4, <1>5 DEF Next, vars

\* What the log keeps under any step: the types, the seqs held, and the faults.
LogFrame ==
    /\ TypeOK' /\ SeqHeld'
    /\ \A k \in FaultKinds : faults'[k] >= faults[k]

\* A step that moves one call between two points short of its insert, and
\* touches nothing of the log, keeps the log invariant.
LEMMA QuietStep ==
    ASSUME LogInv, LogFrame, UNCHANGED log,
           NEW r \in Requests, pc[r] \notin Stored,
           NEW x, x # "emit", Goto(r, x),
           \A s \in Requests \ {r} : seq'[s] = seq[s]
    PROVE  LogInv'
<1> USE DEF LogInv, LogFrame, TypeOK, Goto, log, DocOf
<1>1. OwnedByItsCall'  BY DEF OwnedByItsCall, Stored
<1>2. EmitStored'  BY DEF EmitStored
<1>3. UnemittedOnlyAfterFault'
  <2>1. SUFFICES ASSUME NEW m \in messages \ published
                 PROVE  pc'[m._id] = "emit" \/ faults'["mongo"] + faults'["publish"] + faults'["crash"] > 0
      BY DEF UnemittedOnlyAfterFault
  <2>2. m._id \in Requests /\ pc[m._id] \in Stored  BY DEF OwnedByItsCall, PublishedSound
  <2>3. pc'[m._id] = pc[m._id]  BY <2>2
  <2>4. /\ faults["mongo"] \in Nat /\ faults'["mongo"] >= faults["mongo"]
        /\ faults["publish"] \in Nat /\ faults'["publish"] >= faults["publish"]
        /\ faults["crash"] \in Nat /\ faults'["crash"] >= faults["crash"]
        /\ faults'["mongo"] \in Nat /\ faults'["publish"] \in Nat /\ faults'["crash"] \in Nat
      BY DEF FaultKinds
  <2> QED BY <2>3, <2>4 DEF UnemittedOnlyAfterFault
<1>4. Uniq' /\ AckSound' /\ PublishedSound'  BY DEF Uniq, AckSound, PublishedSound
<1> QED BY <1>1, <1>2, <1>3, <1>4

\* So does a step that moves no call at all.
LEMMA IdleStep ==
    ASSUME LogInv, LogFrame, UNCHANGED log, UNCHANGED <<pc, seq>>
    PROVE  LogInv'
<1> USE DEF LogInv, LogFrame, log, DocOf
<1>1. UnemittedOnlyAfterFault'
  <2>1. /\ faults["mongo"] \in Nat /\ faults'["mongo"] >= faults["mongo"]
        /\ faults["publish"] \in Nat /\ faults'["publish"] >= faults["publish"]
        /\ faults["crash"] \in Nat /\ faults'["crash"] >= faults["crash"]
        /\ faults'["mongo"] \in Nat /\ faults'["publish"] \in Nat /\ faults'["crash"] \in Nat
      BY DEF TypeOK, FaultKinds
  <2> QED BY <2>1 DEF UnemittedOnlyAfterFault
<1>2. Uniq' /\ OwnedByItsCall' /\ EmitStored' /\ AckSound' /\ PublishedSound'
    BY DEF Uniq, OwnedByItsCall, EmitStored, AckSound, PublishedSound
<1> QED BY <1>1, <1>2

\* Answering with the stored document of the call's client message: it cannot
\* be the call's own document, the call has not inserted one.
LEMMA AnswerStep ==
    ASSUME LogInv, LogFrame, UNCHANGED <<messages, published, seq, faults>>,
           NEW r \in Requests, pc[r] \notin Stored,
           NEW m \in Existing(r), AckWith(r, m)
    PROVE  LogInv'
<1> USE DEF LogInv, LogFrame, TypeOK, AckWith, Goto, DocOf
<1>1. AckSound'
  <2>1. m \in messages /\ m.client_msg_id = MsgOf[r]  BY DEF Existing
  <2>2. m._id = r => m \in published  BY <2>1 DEF OwnedByItsCall, PublishedSound
  <2> QED BY <2>1, <2>2 DEF AckSound
<1>2. OwnedByItsCall'  BY DEF OwnedByItsCall, Stored
<1>3. UnemittedOnlyAfterFault'
  <2>1. \A n \in messages \ published : n._id \in Requests /\ pc[n._id] \in Stored
      BY DEF OwnedByItsCall, PublishedSound
  <2> QED BY <2>1 DEF UnemittedOnlyAfterFault
<1>4. Uniq' /\ EmitStored' /\ PublishedSound'  BY DEF Uniq, EmitStored, PublishedSound
<1> QED BY <1>1, <1>2, <1>3, <1>4

\* The insert: the unique indexes let the document in, and it is emitted next
\* unless a fault came between.
LEMMA StoreStep ==
    ASSUME LogInv, LogFrame, UNCHANGED <<published, acks, seq>>,
           NEW r \in Requests, pc[r] = "insert", ~DuplicateKey(DocOf(r)),
           messages' = messages \cup {DocOf(r)},
           NEW x \in Stored, Goto(r, x), x = "emit" \/ faults'["mongo"] > 0
    PROVE  LogInv'
<1> USE DEF LogInv, LogFrame, TypeOK, Goto
<1>1. Uniq'  BY DEF Uniq, DuplicateKey
<1>2. pc'[r] = x /\ DocOf(r)' = DocOf(r) /\ DocOf(r)._id = r  BY DEF DocOf
<1>3. \A s \in Requests : DocOf(s)' = DocOf(s) /\ (s # r => pc'[s] = pc[s])  BY DEF DocOf
<1>4. OwnedByItsCall'  BY <1>2, <1>3 DEF OwnedByItsCall, Stored
<1>5. EmitStored'  BY <1>2, <1>3 DEF EmitStored
<1>6. UnemittedOnlyAfterFault'
  <2>1. SUFFICES ASSUME NEW m \in messages' \ published
                 PROVE  pc'[m._id] = "emit" \/ faults'["mongo"] + faults'["publish"] + faults'["crash"] > 0
      BY DEF UnemittedOnlyAfterFault
  <2>2. /\ faults["mongo"] \in Nat /\ faults'["mongo"] >= faults["mongo"]
        /\ faults["publish"] \in Nat /\ faults'["publish"] >= faults["publish"]
        /\ faults["crash"] \in Nat /\ faults'["crash"] >= faults["crash"]
        /\ faults'["mongo"] \in Nat /\ faults'["publish"] \in Nat /\ faults'["crash"] \in Nat
      BY DEF FaultKinds
  <2>3. CASE m = DocOf(r)  BY <1>2, <2>2, <2>3
  <2>4. CASE m # DocOf(r)
    <3>1. m \in messages \ published  BY <2>4
    <3>2. m._id \in Requests /\ pc[m._id] \in Stored  BY <3>1 DEF OwnedByItsCall, PublishedSound
    <3>3. pc'[m._id] = pc[m._id]  BY <3>2, <1>3 DEF Stored
    <3> QED BY <3>1, <3>3, <2>2 DEF UnemittedOnlyAfterFault
  <2> QED BY <2>3, <2>4
<1>7. AckSound' /\ PublishedSound'  BY DEF AckSound, PublishedSound
<1> QED BY <1>1, <1>4, <1>5, <1>6, <1>7

\* Leaving the emission, with the event on the bus or with a fault to show for it.
LEMMA EmissionStep ==
    ASSUME LogInv, LogFrame, UNCHANGED <<messages, seq>>,
           NEW r \in Requests, pc[r] = "emit",
           NEW x \in Stored \ {"emit"}, Goto(r, x),
           \/ published' = published \cup {DocOf(r)}
           \/ published' = published /\ faults'["publish"] + faults'["crash"] > 0,
           \/ acks' = acks
           \/ acks' = acks \cup {[req |-> r, doc |-> DocOf(r)]} /\ DocOf(r) \in published'
    PROVE  LogInv'
<1> USE DEF LogInv, LogFrame, TypeOK, Goto
<1>1. DocOf(r) \in messages  BY DEF EmitStored
<1>2. \A s \in Requests : DocOf(s)' = DocOf(s) /\ (s # r => pc'[s] = pc[s])  BY DEF DocOf
<1>3. pc'[r] = x  OBVIOUS
<1>4. OwnedByItsCall'  BY <1>2, <1>3 DEF OwnedByItsCall, Stored
<1>5. EmitStored'  BY <1>2, <1>3 DEF EmitStored
<1>6. AckSound'  BY <1>1 DEF AckSound, DocOf
<1>7. PublishedSound'  BY <1>1 DEF PublishedSound
<1>8. UnemittedOnlyAfterFault'
  <2>1. SUFFICES ASSUME NEW m \in messages \ published'
                 PROVE  pc'[m._id] = "emit" \/ faults'["mongo"] + faults'["publish"] + faults'["crash"] > 0
      BY DEF UnemittedOnlyAfterFault
  <2>2. /\ faults["mongo"] \in Nat /\ faults'["mongo"] >= faults["mongo"]
        /\ faults["publish"] \in Nat /\ faults'["publish"] >= faults["publish"]
        /\ faults["crash"] \in Nat /\ faults'["crash"] >= faults["crash"]
        /\ faults'["mongo"] \in Nat /\ faults'["publish"] \in Nat /\ faults'["crash"] \in Nat
      BY DEF FaultKinds
  <2>3. m \in messages \ published /\ m._id \in Requests /\ m = DocOf(m._id)
      BY DEF OwnedByItsCall, PublishedSound
  <2>4. CASE m._id = r  BY <2>2, <2>3, <2>4
  <2>5. CASE m._id # r  BY <1>2, <2>2, <2>3, <2>5 DEF UnemittedOnlyAfterFault
  <2> QED BY <2>4, <2>5
<1>9. Uniq'  BY DEF Uniq
<1> QED BY <1>4, <1>5, <1>6, <1>7, <1>8, <1>9

\* The initial states satisfy the log invariant.
LEMMA InitLog == Init => LogInv
<1> SUFFICES ASSUME Init
             PROVE  LogInv
    OBVIOUS
<1>1. TypeOK /\ SeqHeld  BY InitType
<1>2. Uniq
  <2>1. \A o, q \in OldIds : o[2] = q[2] => o = q  BY DEF OldIds
  <2>2. \A m \in OldDocs : m.client_msg_id \in OldIds /\ m.seq = m.client_msg_id[2]
                            /\ m._id = m.client_msg_id
      BY DEF OldDocs
  <2>3. \A m \in OldDocs :
            m = [_id |-> m.client_msg_id, client_msg_id |-> m.client_msg_id, seq |-> m.client_msg_id[2]]
      BY DEF OldDocs
  <2>4. \A m, n \in OldDocs : m.client_msg_id = n.client_msg_id => m = n  BY <2>3
  <2>5. \A m, n \in OldDocs : m.seq = n.seq => m = n  BY <2>1, <2>2, <2>4
  <2> QED BY <2>4, <2>5 DEF Init, Uniq
<1>3. OwnedByItsCall /\ EmitStored /\ AckSound /\ PublishedSound /\ UnemittedOnlyAfterFault
    BY DEF Init, OwnedByItsCall, EmitStored, AckSound, PublishedSound, UnemittedOnlyAfterFault
<1> QED BY <1>1, <1>2, <1>3 DEF LogInv

\* Every step of the send handler keeps the log invariant.
LEMMA SendLog ==
    ASSUME LogInv, LogFrame, NEW r \in Requests, SendStep(r)
    PROVE  LogInv'
<1> USE DEF LogInv, TypeOK
<1>1. CASE FindByClientMsgId(r)
  <2>1. CASE \E m \in Existing(r) : AckWith(r, m)
      BY <1>1, <2>1, AnswerStep DEF FindByClientMsgId, Stored, locals
  <2>2. CASE Goto(r, "next") /\ UNCHANGED acks
      BY <1>1, <2>2, QuietStep DEF FindByClientMsgId, Stored, locals, log
  <2> QED BY <1>1, <2>1, <2>2 DEF FindByClientMsgId
<1>2. CASE HotIncr(r)  BY <1>2, QuietStep DEF HotIncr, Hand, Stored
<1>3. CASE FloorCounter(r)  BY <1>3, QuietStep DEF FloorCounter, Stored
<1>4. CASE FloorMessages(r)  BY <1>4, QuietStep DEF FloorMessages, AfterFloor, Stored
<1>5. CASE Seed(r)  BY <1>5, QuietStep DEF Seed, Hand, Stored
<1>6. CASE Persist(r)  BY <1>6, QuietStep DEF Persist, Stored, locals
<1>7. CASE Incr(r)  BY <1>7, QuietStep DEF Incr, Hand, Stored
<1>8. CASE IncrementDurable(r)  BY <1>8, QuietStep DEF IncrementDurable, Hand, Stored
<1>9. CASE Insert(r)
  <2>1. CASE DuplicateKey(DocOf(r))  BY <1>9, <2>1, QuietStep DEF Insert, Stored, locals, log
  <2>2. CASE ~DuplicateKey(DocOf(r))  BY <1>9, <2>2, StoreStep DEF Insert, Stored, locals
  <2> QED BY <2>1, <2>2
<1>10. CASE FindWinner(r)
  <2>1. CASE AnswerWinner(r)
      BY <1>10, <2>1, AnswerStep DEF FindWinner, AnswerWinner, Stored, locals
  <2>2. CASE TakeFreshSeq(r)
      BY <1>10, <2>2, QuietStep DEF FindWinner, TakeFreshSeq, Hand, Stored, log
  <2>3. CASE GiveUp(r)  BY <1>10, <2>3, QuietStep DEF FindWinner, GiveUp, Stored, locals, log
  <2> QED BY <1>10, <2>1, <2>2, <2>3 DEF FindWinner
<1>11. CASE Emit(r)  BY <1>11, EmissionStep DEF Emit, AckWith, Stored, locals
<1> QED BY <1>1, <1>2, <1>3, <1>4, <1>5, <1>6, <1>7, <1>8, <1>9, <1>10, <1>11 DEF SendStep

\* So does every failure of a call.
LEMMA FaultLog ==
    ASSUME LogInv, LogFrame, NEW r \in Requests, FaultStep(r)
    PROVE  LogInv'
<1> USE DEF LogInv, TypeOK
<1>1. CASE RedisRejects(r)  BY <1>1, QuietStep DEF RedisRejects, Degrade, Stored
<1>2. CASE RedisReplyLost(r)  BY <1>2, QuietStep DEF RedisReplyLost, Degrade, Stored
<1>3. CASE IncrRejects(r)  BY <1>3, QuietStep DEF IncrRejects, Stored, locals
<1>4. CASE MongoFails(r)  BY <1>4, QuietStep DEF MongoFails, Stored, locals
<1>5. CASE InsertReplyLost(r)
  <2>1. faults'["mongo"] > 0  BY <1>5, FaultType DEF InsertReplyLost, FaultKinds
  <2> QED BY <1>5, <2>1, StoreStep DEF InsertReplyLost, Stored, locals
<1>6. CASE FloorUnreadable(r)  BY <1>6, QuietStep DEF FloorUnreadable, AfterFloor, Stored
<1>7. CASE PersistFails(r)  BY <1>7, QuietStep DEF PersistFails, Stored, locals
<1>8. CASE PublishFails(r)
  <2>1. faults'["publish"] > 0 /\ faults'["crash"] >= 0
      BY <1>8, FaultType DEF PublishFails, FaultKinds
  <2>2. faults'["publish"] + faults'["crash"] > 0
      BY <2>1, FaultType, <1>8 DEF PublishFails, FaultKinds
  <2> QED BY <1>8, <2>2, EmissionStep DEF PublishFails, Stored, locals
<1>9. CASE Crash(r)
  <2>1. CASE pc[r] = "emit"
    <3>1. faults'["publish"] + faults'["crash"] > 0  BY <1>9, FaultType DEF Crash, FaultKinds
    <3> QED BY <1>9, <2>1, <3>1, EmissionStep DEF Crash, Stored, locals, log
  <2>2. CASE pc[r] # "emit"  BY <1>9, <2>2, QuietStep DEF Crash, Stored, locals
  <2> QED BY <2>1, <2>2
<1> QED BY <1>1, <1>2, <1>3, <1>4, <1>5, <1>6, <1>7, <1>8, <1>9 DEF FaultStep

\* Every step keeps the log invariant.
LEMMA NextLog ==
    ASSUME LogInv, [Next]_vars
    PROVE  LogInv'
<1>1. LogFrame  BY NextType, FaultsGrow DEF LogInv, LogFrame
<1>2. CASE UNCHANGED vars  BY <1>1, <1>2, IdleStep DEF vars, locals
<1>3. CASE RedisStep  BY <1>1, <1>3, IdleStep DEF RedisStep, Evict, RedisDown, RedisBack, locals
<1> QED BY <1>1, <1>2, <1>3, SendLog, FaultLog DEF Next

\* The log invariant holds throughout.
LEMMA LogInvariant == Spec => []LogInv
<1>1. LogInv /\ [Next]_vars => LogInv'  BY NextLog
<1> QED BY InitLog, <1>1, PTL DEF Spec

\* All answers given for one client message name one stored document, so retries
\* and concurrent duplicates of a send agree on the message id and the seq.
THEOREM RetriesGetOneAnswer == Spec => []RetriesAgree
<1>1. LogInv => RetriesAgree  BY DEF LogInv, Uniq, AckSound, RetriesAgree
<1> QED BY LogInvariant, <1>1, PTL

\* A call that stored its message answers only after message.sent is on the bus,
\* and the bus carries nothing that is not stored.
THEOREM EmissionPrecedesAnswer == Spec => []WriterEmitsFirst
<1>1. LogInv => WriterEmitsFirst  BY DEF LogInv, AckSound, PublishedSound, WriterEmitsFirst
<1> QED BY LogInvariant, <1>1, PTL

\* The event of a stored message goes missing only through a failed Mongo call, a
\* failed publish or a crash, never through the interleaving of calls.
THEOREM EventsFollowStores == Spec => []UnemittedOnlyAfterFault
<1>1. LogInv => UnemittedOnlyAfterFault  BY DEF LogInv
<1> QED BY LogInvariant, <1>1, PTL

----------------------------------------------------------------------------
(* Intact counters                                                         *)

\* What the intact part of the invariant says once the counters are intact.
Intact == CountersIntact /\ RedisServes /\ Seeded /\ FloorsHigh

\* No number is held twice or held and stored.
NoCollision ==
    /\ \A r, s \in Requests :
          r # s /\ pc[r] \in Holding /\ pc[s] \in Holding => seq[r] # seq[s]
    /\ \A r \in Requests, m \in messages : pc[r] \in Holding => seq[r] # m.seq

\* Counters that are intact after a step were intact before it.
LEMMA IntactBefore ==
    ASSUME TypeOK, [Next]_vars, CountersIntact'
    PROVE  CountersIntact
BY FaultsGrow DEF TypeOK, CountersIntact, FaultKinds

\* A step that takes a call to a point where it holds no number, and touches
\* neither counter nor store, keeps the counters above everything.
LEMMA IntactQuiet ==
    ASSUME TypeOK, Intact, NoCollision, UNCHANGED <<redisSeq, redisUp, messages>>,
           NEW r \in Requests, NEW x \in PCs, Goto(r, x), path'[r] = "cold",
           x \notin {"incrementDurable"},
           x \in Holding => pc[r] \in Holding /\ seq'[r] = seq[r],
           x = "incr" => 0 < redisSeq,
           x = "seed" => \A m \in messages : m.seq <= floor'[r],
           \A s \in Requests \ {r} : seq'[s] = seq[s] /\ path'[s] = path[s] /\ floor'[s] = floor[s]
    PROVE  RedisServes' /\ Seeded' /\ FloorsHigh' /\ NoCollision'
<1> USE DEF Intact, TypeOK, Goto
<1>1. \A s \in Requests : pc'[s] = IF s = r THEN x ELSE pc[s]  OBVIOUS
<1>2. RedisServes'  BY <1>1 DEF RedisServes
<1>3. Seeded'  BY <1>1 DEF Seeded, Holding
<1>4. FloorsHigh'  BY <1>1 DEF FloorsHigh
<1>5. NoCollision'  BY <1>1 DEF NoCollision, Holding
<1> QED BY <1>2, <1>3, <1>4, <1>5

\* A number handed out by Redis is above everything held and everything stored.
LEMMA IntactHand ==
    ASSUME TypeOK, Intact, NoCollision, UNCHANGED <<redisUp, messages>>,
           NEW r \in Requests, NEW n \in Nat, NEW x \in Holding, Goto(r, x), Hand(r, n),
           redisSeq' = n, redisSeq < n,
           \A m \in messages : m.seq < n
    PROVE  RedisServes' /\ Seeded' /\ FloorsHigh' /\ NoCollision'
<1> USE DEF Intact, TypeOK, Goto, Hand
<1>1. \A s \in Requests : pc'[s] = IF s = r THEN x ELSE pc[s]  OBVIOUS
<1>2. \A s \in Requests : seq'[s] = IF s = r THEN n ELSE seq[s]  OBVIOUS
<1>3. redisSeq' > 0 /\ \A m \in messages : m.seq \in Nat  BY DEF Docs
<1>4. RedisServes'  BY <1>1 DEF RedisServes, Holding
<1>5. Seeded'  BY <1>1, <1>2, <1>3 DEF Seeded, Holding
<1>6. FloorsHigh'  BY <1>3 DEF FloorsHigh
<1>7. \A s \in Requests : s # r /\ pc[s] \in Holding => seq[s] < n  BY DEF Seeded
<1>8. NoCollision'
  <2>1. ASSUME NEW s \in Requests, NEW t \in Requests, s # t,
               pc'[s] \in Holding, pc'[t] \in Holding
        PROVE  seq'[s] # seq'[t]
      BY <1>1, <1>2, <1>7, <2>1 DEF NoCollision
  <2>2. ASSUME NEW s \in Requests, NEW m \in messages, pc'[s] \in Holding
        PROVE  seq'[s] # m.seq
      BY <1>1, <1>2, <1>3, <2>2 DEF NoCollision
  <2> QED BY <2>1, <2>2 DEF NoCollision
<1> QED BY <1>4, <1>5, <1>6, <1>8

\* An insert moves a held number into the store.
LEMMA IntactStore ==
    ASSUME TypeOK, Intact, NoCollision, UNCHANGED <<redisSeq, redisUp, path, floor, seq>>,
           NEW r \in Requests, pc[r] = "insert", messages' = messages \cup {DocOf(r)},
           NEW x \in PCs \ (Holding \cup {"incr", "incrementDurable", "seed"}), Goto(r, x)
    PROVE  RedisServes' /\ Seeded' /\ FloorsHigh' /\ NoCollision'
<1> USE DEF Intact, TypeOK, Goto
<1>1. \A s \in Requests : pc'[s] = IF s = r THEN x ELSE pc[s]  OBVIOUS
<1>2. DocOf(r).seq = seq[r] /\ seq[r] <= redisSeq /\ 0 < redisSeq  BY DEF DocOf, Seeded, Holding
<1>3. RedisServes'  BY <1>1 DEF RedisServes
<1>4. Seeded'  BY <1>1, <1>2 DEF Seeded
<1>5. FloorsHigh'  BY <1>2 DEF FloorsHigh
<1>6. NoCollision'  BY <1>1, <1>2 DEF NoCollision, Holding
<1> QED BY <1>3, <1>4, <1>5, <1>6

\* Every step of the send handler keeps intact counters above everything.
LEMMA SendIntact ==
    ASSUME TypeOK, Intact, NoCollision, NEW r \in Requests, SendStep(r)
    PROVE  RedisServes' /\ Seeded' /\ FloorsHigh' /\ NoCollision'
<1> USE DEF TypeOK
<1>0. path[r] = "cold" /\ redisUp /\ pc[r] # "incrementDurable"  BY DEF Intact, RedisServes
<1>00. \A m \in messages : m.seq \in Nat  BY DEF Docs
<1>1. CASE FindByClientMsgId(r)
    BY <1>0, <1>1, IntactQuiet DEF FindByClientMsgId, AckWith, Holding, PCs, redis, locals
<1>2. CASE HotIncr(r)
  <2>1. CASE redisSeq > 0
    <3>1. \A m \in messages : m.seq < redisSeq + 1  BY <1>00, <2>1 DEF Intact, Seeded
    <3> QED BY <1>2, <2>1, <3>1, IntactHand DEF HotIncr, Holding, log
  <2>2. CASE redisSeq = 0  BY <1>0, <1>2, <2>2, IntactQuiet DEF HotIncr, Holding, PCs, log
  <2> QED BY <2>1, <2>2
<1>3. CASE FloorCounter(r)  BY <1>0, <1>3, IntactQuiet DEF FloorCounter, Holding, PCs, redis, log
<1>4. CASE FloorMessages(r)
  <2>1. \A m \in messages : m.seq <= floor'[r]  BY <1>4 DEF FloorMessages, IsMaxOf, StoredSeqs
  <2> QED BY <1>0, <1>4, <2>1, IntactQuiet
        DEF FloorMessages, AfterFloor, Holding, PCs, redis, log
<1>5. CASE Seed(r)
  <2>1. CASE redisSeq = 0
    <3>1. \A m \in messages : m.seq < floor[r] + 1
        BY <1>00, <1>5, <2>1 DEF Seed, Intact, FloorsHigh
    <3> QED BY <1>5, <2>1, <3>1, IntactHand DEF Seed, Holding, log
  <2>2. CASE redisSeq > 0  BY <1>0, <1>5, <2>2, IntactQuiet DEF Seed, Holding, PCs, log
  <2> QED BY <2>1, <2>2
<1>6. CASE Persist(r)  BY <1>0, <1>6, IntactQuiet DEF Persist, Holding, PCs, redis, log, locals
<1>7. CASE Incr(r)
  <2>1. \A m \in messages : m.seq < redisSeq + 1  BY <1>00, <1>7 DEF Incr, Intact, Seeded
  <2> QED BY <1>7, <2>1, IntactHand DEF Incr, Holding, log
<1>8. CASE IncrementDurable(r)  BY <1>0, <1>8 DEF IncrementDurable
<1>9. CASE Insert(r)
  <2>1. CASE DuplicateKey(DocOf(r))
      BY <1>0, <1>9, <2>1, IntactQuiet DEF Insert, Holding, PCs, redis, locals
  <2>2. CASE ~DuplicateKey(DocOf(r))
      BY <1>9, <2>2, IntactStore DEF Insert, Holding, PCs, redis, locals
  <2> QED BY <2>1, <2>2
<1>10. CASE FindWinner(r)
  <2>1. CASE AnswerWinner(r)
      BY <1>0, <1>10, <2>1, IntactQuiet DEF FindWinner, AnswerWinner, AckWith, Holding, PCs, redis, locals
  <2>2. CASE TakeFreshSeq(r)
      BY <1>0, <1>10, <2>2, IntactQuiet DEF FindWinner, TakeFreshSeq, Hand, Holding, PCs, redis
  <2>3. CASE GiveUp(r)
      BY <1>0, <1>10, <2>3, IntactQuiet DEF FindWinner, GiveUp, Holding, PCs, redis, locals
  <2> QED BY <1>10, <2>1, <2>2, <2>3 DEF FindWinner
<1>11. CASE Emit(r)  BY <1>0, <1>11, IntactQuiet DEF Emit, AckWith, Holding, PCs, redis, locals
<1> QED BY <1>1, <1>2, <1>3, <1>4, <1>5, <1>6, <1>7, <1>8, <1>9, <1>10, <1>11 DEF SendStep

\* The failures that leave the counters intact do too; the others are excluded.
LEMMA FaultIntact ==
    ASSUME TypeOK, Intact, NoCollision, CountersIntact', NEW r \in Requests, FaultStep(r)
    PROVE  RedisServes' /\ Seeded' /\ FloorsHigh' /\ NoCollision'
<1> USE DEF TypeOK
<1>0. path[r] = "cold" /\ redisUp  BY DEF Intact, RedisServes
<1>1. CASE RedisRejects(r)  BY <1>0, <1>1 DEF RedisRejects
<1>2. CASE RedisReplyLost(r)  BY <1>2, FaultType DEF RedisReplyLost, CountersIntact, FaultKinds
<1>3. CASE IncrRejects(r)  BY <1>0, <1>3 DEF IncrRejects
<1>4. CASE MongoFails(r)
    BY <1>0, <1>4, IntactQuiet DEF MongoFails, Holding, PCs, redis, log, locals
<1>5. CASE InsertReplyLost(r)  BY <1>5, IntactStore DEF InsertReplyLost, Holding, PCs, redis, locals
<1>6. CASE FloorUnreadable(r)  BY <1>6, FaultType DEF FloorUnreadable, CountersIntact, FaultKinds
<1>7. CASE PersistFails(r)
    BY <1>0, <1>7, IntactQuiet DEF PersistFails, Holding, PCs, redis, log, locals
<1>8. CASE PublishFails(r)  BY <1>0, <1>8, IntactQuiet DEF PublishFails, Holding, PCs, redis, locals
<1>9. CASE Crash(r)  BY <1>0, <1>9, IntactQuiet DEF Crash, Holding, PCs, redis, log, locals
<1> QED BY <1>1, <1>2, <1>3, <1>4, <1>5, <1>6, <1>7, <1>8, <1>9 DEF FaultStep

\* Redis on its own either stays as it is or spoils the counters.
LEMMA RedisIntact ==
    ASSUME TypeOK, Intact, CountersIntact'
    PROVE  ~RedisStep
<1> USE DEF TypeOK, CountersIntact, FaultKinds
<1>1. ~Evict  BY FaultType DEF Evict
<1>2. ~RedisDown  BY FaultType DEF RedisDown
<1>3. ~RedisBack  BY DEF RedisBack, Intact, RedisServes
<1> QED BY <1>1, <1>2, <1>3 DEF RedisStep

\* Every step keeps the intact part of the invariant.
LEMMA NextIntact ==
    ASSUME TypeOK, IntactInv, NoCollisionWhileIntact, [Next]_vars
    PROVE  IntactInv' /\ NoCollisionWhileIntact'
<1>1. SUFFICES ASSUME CountersIntact'
               PROVE  RedisServes' /\ Seeded' /\ FloorsHigh' /\ NoCollision'
    BY DEF IntactInv, NoCollisionWhileIntact, NoCollision
<1>2. Intact /\ NoCollision
    BY <1>1, IntactBefore DEF Intact, IntactInv, NoCollisionWhileIntact, NoCollision
<1>3. CASE UNCHANGED vars
    BY <1>2, <1>3 DEF Intact, RedisServes, Seeded, FloorsHigh, NoCollision, vars, redis, locals, log
<1> QED BY <1>1, <1>2, <1>3, SendIntact, FaultIntact, RedisIntact DEF Next

\* While Redis keeps its key and answers and the durable floor stays readable, no
\* number is held by two calls or already stored: SeqService's promise that
\* concurrent cold starts, retries, crashes and failed writes do not collide.
THEOREM NoSpuriousCollision == Spec => []NoCollisionWhileIntact
<1>1. Init => LogInv /\ IntactInv /\ NoCollisionWhileIntact
  <2>1. ASSUME Init
        PROVE  IntactInv /\ NoCollisionWhileIntact
      BY <2>1, OldDocsType, SendAssumption
      DEF Init, IntactInv, NoCollisionWhileIntact, RedisServes, Seeded, FloorsHigh, Holding
  <2> QED BY <2>1, InitLog
<1>2. LogInv /\ IntactInv /\ NoCollisionWhileIntact /\ [Next]_vars
          => (LogInv /\ IntactInv /\ NoCollisionWhileIntact)'
    BY NextLog, NextIntact DEF LogInv
<1> QED BY <1>1, <1>2, PTL DEF Spec

----------------------------------------------------------------------------
(* Refinement                                                              *)

\* What a step of the handler may do to the log.
LogStep == Log!LogNext \/ UNCHANGED log

\* Answering with a stored document is a step of the abstract log.
LEMMA AnswerRefines ==
    ASSUME NEW r \in Requests, NEW m \in Existing(r), AckWith(r, m),
           UNCHANGED <<messages, published>>
    PROVE  Log!LogNext
<1>1. m \in messages' /\ Log!AnswerStored(r, m)
    BY DEF Existing, AckWith, Log!AnswerStored, Log!Answer
<1> QED BY <1>1 DEF Log!LogNext

\* Inserting past the unique indexes is the abstract Store.
LEMMA StoreRefines ==
    ASSUME TypeOK, NEW r \in Requests, ~DuplicateKey(DocOf(r)), seq[r] > 0,
           messages' = messages \cup {DocOf(r)}, UNCHANGED <<published, acks>>
    PROVE  Log!LogNext
<1>1. DocOf(r) \in messages' /\ Log!Store(DocOf(r))  BY DEF DuplicateKey, DocOf, Log!Store
<1> QED BY <1>1 DEF Log!LogNext

\* Every step of the send handler is a step of the log or leaves it alone.
LEMMA SendRefines ==
    ASSUME LogInv, NEW r \in Requests, SendStep(r)
    PROVE  LogStep
<1> USE DEF LogStep, log
<1>1. CASE FindByClientMsgId(r)  BY <1>1, AnswerRefines DEF FindByClientMsgId
<1>2. CASE HotIncr(r) \/ FloorCounter(r) \/ FloorMessages(r) \/ Seed(r) \/ Persist(r)
             \/ Incr(r) \/ IncrementDurable(r)
    BY <1>2 DEF HotIncr, FloorCounter, FloorMessages, Seed, Persist, Incr, IncrementDurable
<1>3. CASE Insert(r)
  <2>1. seq[r] > 0 /\ TypeOK  BY <1>3 DEF Insert, LogInv, SeqHeld
  <2> QED BY <1>3, <2>1, StoreRefines DEF Insert
<1>4. CASE FindWinner(r)  BY <1>4, AnswerRefines DEF FindWinner, AnswerWinner, TakeFreshSeq, GiveUp
<1>5. CASE Emit(r)
  <2>1. DocOf(r) \in messages'  BY <1>5 DEF Emit, LogInv, EmitStored
  <2>2. Log!EmitAndAnswer(DocOf(r))
      BY <1>5, <2>1 DEF Emit, AckWith, DocOf, Log!EmitAndAnswer, Log!Emit, Log!Answer
  <2> QED BY <2>1, <2>2 DEF Log!LogNext
<1> QED BY <1>1, <1>2, <1>3, <1>4, <1>5 DEF SendStep

\* So is every failure of a call.
LEMMA FaultRefines ==
    ASSUME LogInv, NEW r \in Requests, FaultStep(r)
    PROVE  LogStep
<1> USE DEF LogStep, log
<1>1. CASE RedisRejects(r) \/ RedisReplyLost(r) \/ IncrRejects(r) \/ MongoFails(r)
             \/ FloorUnreadable(r) \/ PersistFails(r) \/ Crash(r)
    BY <1>1 DEF RedisRejects, RedisReplyLost, IncrRejects, MongoFails, FloorUnreadable,
        PersistFails, Crash
<1>2. CASE InsertReplyLost(r)
  <2>1. seq[r] > 0 /\ TypeOK  BY <1>2 DEF InsertReplyLost, LogInv, SeqHeld
  <2> QED BY <1>2, <2>1, StoreRefines DEF InsertReplyLost
<1>3. CASE PublishFails(r)
  <2>1. DocOf(r) \in messages'  BY <1>3 DEF PublishFails, LogInv, EmitStored
  <2>2. CASE published' = published  BY <1>3, <2>2 DEF PublishFails
  <2>3. CASE published' = published \cup {DocOf(r)}
    <3>1. Log!EmitOnly(DocOf(r))
        BY <1>3, <2>1, <2>3 DEF PublishFails, DocOf, Log!EmitOnly, Log!Emit
    <3> QED BY <2>1, <3>1 DEF Log!LogNext
  <2> QED BY <1>3, <2>2, <2>3 DEF PublishFails
<1> QED BY <1>1, <1>2, <1>3 DEF FaultStep

\* Sending - counters, retries, faults and all - implements the abstract log: an
\* append-only set of documents unique by seq and client id, events only of stored
\* documents, and answers that name the stored document of the client message.
THEOREM SendImplementsLog == Spec => LogRefined
<1>1. Init => Log!LogInit  BY InitLog DEF Init, LogInv, Uniq, Log!LogInit
<1>2. LogInv /\ [Next]_vars => [Log!LogNext]_(Log!logVars)
  <2>1. SUFFICES ASSUME LogInv, [Next]_vars
                 PROVE  LogStep
      BY DEF LogStep, log, Log!logVars
  <2>2. CASE UNCHANGED vars  BY <2>2 DEF LogStep, vars
  <2>3. CASE RedisStep  BY <2>3 DEF LogStep, RedisStep, Evict, RedisDown, RedisBack
  <2> QED BY <2>1, <2>2, <2>3, SendRefines, FaultRefines DEF Next
<1> QED BY <1>1, <1>2, LogInvariant, PTL DEF Spec, LogRefined, Log!LogSpec

----------------------------------------------------------------------------
(* The device that reads the history: what the senders do is known from     *)
(* above, and what the device adds to it is proved here.                    *)

(* Types                                                                   *)

\* The device keeps documents and numbers, whatever page it gets.
LEMMA DeviceType ==
    ASSUME LogInv, ReaderTypeOK, Fetch \/ \E m \in published : Push(m)
    PROVE  ReaderTypeOK'
<1>1. CASE Fetch
  <2>1. PICK last \in Page(cursor) : cursor' = last.seq /\ inbox' = inbox \cup Page(cursor)
      BY <1>1 DEF Fetch
  <2>2. Page(cursor) \subseteq messages /\ last.seq \in Nat
      BY DEF Page, After, ReaderTypeOK, TypeOK, Docs
  <2> QED BY <1>1, <2>1, <2>2 DEF Fetch, ReaderTypeOK, TypeOK, vars, redis, log, locals
<1>2. CASE \E m \in published : Push(m)
    BY <1>2 DEF Push, ReaderTypeOK, TypeOK, vars, redis, log, locals
<1> QED BY <1>1, <1>2

\* A step of the system beside the device is one of the senders, or leaves them alone.
LEMMA SendersStep == [ReaderNext]_allVars => [Next]_vars
BY DEF ReaderNext, allVars, Fetch, Push

\* Initially all is typed.
LEMMA InitReader == ReaderInit => LogInv /\ ReaderTypeOK
<1>1. ReaderInit => LogInv  BY InitLog DEF ReaderInit
<1> QED BY <1>1, OldDocsType DEF ReaderInit, ReaderTypeOK, LogInv

\* And stays so.
LEMMA NextReaderType ==
    ASSUME LogInv, ReaderTypeOK, [ReaderNext]_allVars
    PROVE  LogInv' /\ ReaderTypeOK'
<1>1. LogInv'  BY SendersStep, NextLog
<1>2. CASE UNCHANGED device  BY <1>1, <1>2 DEF ReaderTypeOK, LogInv, device
<1>3. CASE Fetch \/ \E m \in published : Push(m)  BY <1>1, <1>3, DeviceType
<1> QED BY <1>1, <1>2, <1>3 DEF ReaderNext, allVars

\* Every variable of the senders and of the device keeps its type, whatever fails.
THEOREM ReaderTypeCorrect == ReaderSpec => []ReaderTypeOK
<1>1. LogInv /\ ReaderTypeOK /\ [ReaderNext]_allVars => (LogInv /\ ReaderTypeOK)'  BY NextReaderType
<1> QED BY InitReader, <1>1, PTL DEF ReaderSpec

----------------------------------------------------------------------------
(* What a cursor can pass                                                  *)

\* The cursor is where a page ended.
CursorStored == cursor = 0 \/ \E m \in messages : m.seq = cursor

\* Whoever holds a number the cursor has passed held it then.
HeldAhead == \A r \in Requests : pc[r] \in Holding /\ seq[r] <= cursor => r \in overtaken

\* So does whoever stored what the device has not got.
Missed == \A m \in messages : m.seq <= cursor /\ m \notin inbox => m._id \in overtaken

CursorInv == CountersIntact => CursorStored /\ HeldAhead /\ Missed

\* What the senders do is one of three things to the numbers behind a cursor: nothing new is held ...
Quiet ==
    /\ messages' = messages
    /\ \A s \in Requests : pc'[s] \in Holding => pc[s] \in Holding /\ seq'[s] = seq[s]

\* ... a number above all that is stored is handed out ...
Handed ==
    /\ messages' = messages
    /\ \E r \in Requests :
          /\ \A m \in messages : m.seq < seq'[r]
          /\ 0 < seq'[r]
          /\ \A s \in Requests \ {r} : pc'[s] = pc[s] /\ seq'[s] = seq[s]

\* ... or a number that is held is stored.
Kept ==
    \E r \in Requests :
        /\ pc[r] \in Holding
        /\ messages' = messages \cup {DocOf(r)}
        /\ \A s \in Requests : pc'[s] \in Holding => pc[s] \in Holding /\ seq'[s] = seq[s]

\* None of the three takes a number past the cursor.
LEMMA NumbersStayAhead ==
    ASSUME ReaderTypeOK, ReaderTypeOK', CursorStored, HeldAhead, Missed, UNCHANGED device,
           Quiet \/ Handed \/ Kept
    PROVE  CursorStored' /\ HeldAhead' /\ Missed'
<1> USE DEF CursorStored, HeldAhead, Missed, device
<1>1. CASE Quiet  BY <1>1 DEF Quiet
<1>2. CASE Handed
  <2>1. PICK r \in Requests : /\ \A m \in messages : m.seq < seq'[r]
                              /\ 0 < seq'[r]
                              /\ \A s \in Requests \ {r} : pc'[s] = pc[s] /\ seq'[s] = seq[s]
      BY <1>2 DEF Handed
  <2>2. seq'[r] \in Nat /\ cursor \in Nat /\ cursor < seq'[r]  BY <2>1 DEF ReaderTypeOK, TypeOK
  <2>3. CursorStored' /\ Missed'  BY <1>2 DEF Handed
  <2>4. HeldAhead'  BY <2>1, <2>2
  <2> QED BY <2>3, <2>4
<1>3. CASE Kept  BY <1>3 DEF Kept, DocOf
<1> QED BY <1>1, <1>2, <1>3

\* While the counters are intact a call does one of the three.
LEMMA SendIsOneOfThree ==
    ASSUME LogInv, Intact, NEW r \in Requests, SendStep(r)
    PROVE  Quiet \/ Handed \/ Kept
<1> USE DEF LogInv, TypeOK, Intact, RedisServes, Seeded, FloorsHigh, Goto, Holding
<1>1. CASE FindByClientMsgId(r)  BY <1>1 DEF FindByClientMsgId, AckWith, Quiet, locals
<1>2. CASE HotIncr(r)
  <2>1. CASE redisSeq > 0 /\ Hand(r, redisSeq + 1)
      BY <1>2, <2>1 DEF HotIncr, Hand, Handed, log, Docs
  <2>2. CASE redisSeq = 0  BY <1>2, <2>2 DEF HotIncr, Quiet, log
  <2> QED BY <1>2, <2>1, <2>2 DEF HotIncr
<1>3. CASE FloorCounter(r)  BY <1>3 DEF FloorCounter, Quiet, log
<1>4. CASE FloorMessages(r)  BY <1>4 DEF FloorMessages, AfterFloor, Quiet, log
<1>5. CASE Seed(r)
  <2>1. CASE redisSeq = 0 /\ Hand(r, floor[r] + 1)  BY <1>5, <2>1 DEF Seed, Hand, Handed, log, Docs
  <2>2. CASE redisSeq > 0  BY <1>5, <2>2 DEF Seed, Quiet, log
  <2> QED BY <1>5, <2>1, <2>2 DEF Seed
<1>6. CASE Persist(r)  BY <1>6 DEF Persist, Quiet, log, locals
<1>7. CASE Incr(r)  BY <1>7 DEF Incr, Hand, Handed, log, Docs
<1>8. CASE IncrementDurable(r)  BY <1>8 DEF IncrementDurable
<1>9. CASE Insert(r)  BY <1>9 DEF Insert, Quiet, Kept, locals
<1>10. CASE FindWinner(r)
    BY <1>10 DEF FindWinner, AnswerWinner, TakeFreshSeq, GiveUp, AckWith, Hand, Quiet, locals
<1>11. CASE Emit(r)  BY <1>11 DEF Emit, AckWith, Quiet, locals
<1> QED BY <1>1, <1>2, <1>3, <1>4, <1>5, <1>6, <1>7, <1>8, <1>9, <1>10, <1>11 DEF SendStep

\* So does a call that fails.
LEMMA FaultIsOneOfThree ==
    ASSUME LogInv, Intact, CountersIntact', NEW r \in Requests, FaultStep(r)
    PROVE  Quiet \/ Handed \/ Kept
<1> USE DEF LogInv, TypeOK, Goto, Holding
<1>1. CASE RedisRejects(r)  BY <1>1 DEF RedisRejects, Intact, RedisServes
<1>2. CASE RedisReplyLost(r)  BY <1>2, FaultType DEF RedisReplyLost, CountersIntact, FaultKinds
<1>3. CASE IncrRejects(r)  BY <1>3 DEF IncrRejects, Quiet, log, locals
<1>4. CASE MongoFails(r)  BY <1>4 DEF MongoFails, Quiet, log, locals
<1>5. CASE InsertReplyLost(r)  BY <1>5 DEF InsertReplyLost, Kept, locals
<1>6. CASE FloorUnreadable(r)  BY <1>6, FaultType DEF FloorUnreadable, CountersIntact, FaultKinds
<1>7. CASE PersistFails(r)  BY <1>7 DEF PersistFails, Quiet, log, locals
<1>8. CASE PublishFails(r)  BY <1>8 DEF PublishFails, Quiet, locals
<1>9. CASE Crash(r)  BY <1>9 DEF Crash, Quiet, log, locals
<1> QED BY <1>1, <1>2, <1>3, <1>4, <1>5, <1>6, <1>7, <1>8, <1>9 DEF FaultStep

\* The documents below a number are finitely many, for no two share a number.
LEMMA FewBelow ==
    ASSUME LogInv, NEW c \in Nat, NEW k \in Nat
    PROVE  IsFiniteSet({n \in After(c) : n.seq < k})
<1> DEFINE S == {n \in After(c) : n.seq < k}
           f == [n \in S |-> n.seq]
<1>1. \A n \in S : n \in messages /\ n.seq \in 1..k  BY DEF After, LogInv, TypeOK, Docs
<1>2. f \in Injection(S, 1..k)  BY <1>1, Fun_IsInj DEF LogInv, Uniq
<1> QED BY <1>2, FS_Injection, FS_Interval

\* A page has no gap: what is stored between the cursor and its last document is in it.
LEMMA PageHasNoGap ==
    ASSUME LogInv, cursor \in Nat, NEW last \in Page(cursor),
           NEW m \in messages, cursor < m.seq, m.seq <= last.seq
    PROVE  m \in Page(cursor)
<1> DEFINE Below(x) == {n \in After(cursor) : n.seq < x.seq}
<1>1. last \in messages /\ last.seq \in Nat /\ m.seq \in Nat
    BY DEF Page, After, LogInv, TypeOK, Docs
<1>2. IsFiniteSet(Below(last)) /\ IsFiniteSet(Below(m))  BY <1>1, FewBelow
<1>3. \A n \in After(cursor) : n.seq \in Nat  BY DEF After, LogInv, TypeOK, Docs
<1>4. Below(m) \subseteq Below(last)  BY <1>1, <1>3
<1>5. Cardinality(Below(m)) <= Cardinality(Below(last))  BY <1>2, <1>4, FS_Subset
<1>6. Cardinality(Below(last)) < PageLimit  BY DEF Page
<1>7. Cardinality(Below(m)) \in Nat /\ Cardinality(Below(last)) \in Nat /\ PageLimit \in Nat
    BY <1>2, FS_CardinalityType, PageAssumption
<1>8. m \in After(cursor) /\ Cardinality(Below(m)) < PageLimit  BY <1>5, <1>6, <1>7 DEF After
<1> QED BY <1>8 DEF Page

\* A fetch passes only numbers that are in its page, or held.
LEMMA FetchFollows ==
    ASSUME LogInv, ReaderTypeOK, CursorStored, HeldAhead, Missed, Fetch
    PROVE  CursorStored' /\ HeldAhead' /\ Missed'
<1>1. PICK last \in Page(cursor) :
          /\ \A m \in Page(cursor) : m.seq <= last.seq
          /\ cursor' = last.seq
          /\ inbox' = inbox \cup Page(cursor)
          /\ overtaken' = overtaken \cup {r \in Requests : pc[r] \in InFlight /\ seq[r] <= last.seq}
    BY DEF Fetch
<1>2. UNCHANGED <<messages, pc, seq>>  BY DEF Fetch, vars, log, locals
<1>3. last \in messages /\ cursor < last.seq  BY DEF Page, After
<1>4. CursorStored'  BY <1>1, <1>2, <1>3 DEF CursorStored
<1>5. HeldAhead'  BY <1>1, <1>2 DEF HeldAhead, Holding, InFlight
<1>6. ASSUME NEW m \in messages, m.seq <= last.seq, m \notin inbox'
      PROVE  m._id \in overtaken'
  <2>1. ~(cursor < m.seq)  BY <1>1, <1>6, PageHasNoGap DEF ReaderTypeOK
  <2>2. m.seq \in Nat /\ cursor \in Nat  BY DEF ReaderTypeOK, TypeOK, Docs
  <2> QED BY <1>1, <1>6, <2>1, <2>2 DEF Missed
<1> QED BY <1>1, <1>2, <1>4, <1>5, <1>6 DEF Missed

\* Every step of the system keeps what is behind the cursor.
LEMMA NextCursor ==
    ASSUME LogInv, ReaderTypeOK, IntactInv, CursorInv, [ReaderNext]_allVars
    PROVE  CursorInv'
<1> SUFFICES ASSUME CountersIntact'
             PROVE  CursorStored' /\ HeldAhead' /\ Missed'
    BY DEF CursorInv
<1>1. CountersIntact  BY SendersStep, IntactBefore DEF LogInv
<1>2. Intact /\ CursorStored /\ HeldAhead /\ Missed  BY <1>1 DEF Intact, IntactInv, CursorInv
<1>3. CASE Next /\ UNCHANGED device
  <2>1. ~RedisStep  BY <1>2, RedisIntact DEF LogInv
  <2>2. Quiet \/ Handed \/ Kept  BY <1>2, <1>3, <2>1, SendIsOneOfThree, FaultIsOneOfThree DEF Next
  <2> QED BY <1>2, <1>3, <2>2, NextReaderType, NumbersStayAhead
<1>4. CASE Fetch  BY <1>2, <1>4, FetchFollows
<1>5. CASE (\E m \in published : Push(m)) \/ UNCHANGED allVars
    BY <1>2, <1>5 DEF Push, allVars, vars, log, locals, device, CursorStored, HeldAhead, Missed
<1> QED BY <1>3, <1>4, <1>5 DEF ReaderNext

\* While Redis keeps its counter, a message that appears behind a device's cursor is one whose send
\* held its number when the cursor passed: history(afterSeq) loses nothing else, whatever the pages.
THEOREM CursorsPassOnlyHeldNumbers == ReaderSpec => []OnlyOvertakenAreMissed
<1> DEFINE Inv == LogInv /\ ReaderTypeOK /\ IntactInv /\ NoCollisionWhileIntact /\ CursorInv
<1>1. ReaderInit => Inv
  <2>1. ReaderInit => IntactInv /\ NoCollisionWhileIntact
      BY OldDocsType, SendAssumption
      DEF ReaderInit, Init, IntactInv, NoCollisionWhileIntact, RedisServes, Seeded, FloorsHigh, Holding
  <2>2. ReaderInit => CursorInv
      BY OldDocsType, SendAssumption
      DEF ReaderInit, Init, CursorInv, CursorStored, HeldAhead, Missed, Holding
  <2> QED BY <2>1, <2>2, InitReader
<1>2. Inv /\ [ReaderNext]_allVars => Inv'
    BY NextReaderType, SendersStep, NextIntact, NextCursor DEF LogInv
<1>3. Inv => OnlyOvertakenAreMissed  BY DEF CursorInv, Missed, OnlyOvertakenAreMissed
<1> QED BY <1>1, <1>2, <1>3, PTL DEF ReaderSpec
=============================================================================
