--------------------------- MODULE ConversationLog ---------------------------
(***************************************************************************)
(* What sending promises about one conversation, with none of the          *)
(* machinery that produces sequence numbers: a log of documents in which   *)
(* no sequence number and no client message id occurs twice, an event      *)
(* stream fed only from that log, and acknowledgements that always report  *)
(* the one document the log holds for the client message.                  *)
(***************************************************************************)
EXTENDS Naturals

CONSTANTS Requests,     \* send() calls
          MsgOf         \* the client_msg_id each call carries

VARIABLES log,      \* the documents stored so far
          emitted,  \* the documents a message.sent was emitted for
          answers   \* the answers given: a call and the document it reports

logVars == <<log, emitted, answers>>

LogInit ==
    /\ \A m, n \in log :
          m.seq = n.seq \/ m.client_msg_id = n.client_msg_id => m = n
    /\ emitted = log
    /\ answers = {}

\* A document enters the log only under a fresh seq and a fresh client id.
Store(d) ==
    /\ \A m \in log : m.seq # d.seq /\ m.client_msg_id # d.client_msg_id
    /\ d._id \in Requests /\ d.client_msg_id = MsgOf[d._id] /\ d.seq > 0
    /\ log' = log \cup {d}
    /\ UNCHANGED <<emitted, answers>>

Answer(r, d) ==
    /\ d.client_msg_id = MsgOf[r]
    /\ answers' = answers \cup {[req |-> r, doc |-> d]}
    /\ UNCHANGED log

\* A call that finds the message stored already answers with that document.
AnswerStored(r, d) == d \in log /\ Answer(r, d) /\ UNCHANGED emitted

Emit(d) ==
    /\ d \in log /\ d._id \in Requests
    /\ emitted' = emitted \cup {d}

\* The call that stored the document emits it and answers; the reply to the
\* emission may be lost, and then nothing is answered.
EmitAndAnswer(d) == Emit(d) /\ Answer(d._id, d)

EmitOnly(d) == Emit(d) /\ UNCHANGED <<log, answers>>

\* Every step stores or uses a document of the log it leads to.
LogNext == \E d \in log' :
    \/ Store(d)
    \/ \E r \in Requests : AnswerStored(r, d)
    \/ EmitAndAnswer(d)
    \/ EmitOnly(d)

LogSpec == LogInit /\ [][LogNext]_logVars
=============================================================================
