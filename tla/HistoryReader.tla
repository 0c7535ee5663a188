---------------------------- MODULE HistoryReader ----------------------------
(***************************************************************************)
(* A device of the conversation beside the senders of MessageSend: it      *)
(* pages the history with ChatService.history(afterSeq, limit), and gets   *)
(* each live push of message.sent or loses it to a dropped socket.         *)
(*                                                                         *)
(* The device is external (the clients are in another repository).  It is  *)
(* given the most careful use of the interface: only a page it fetched     *)
(* moves the cursor, a live push never does.                               *)
(***************************************************************************)
EXTENDS MessageSend, FiniteSets

CONSTANTS PageLimit     \* the history page size; the code clamps it to 1..100

ASSUME PageAssumption == PageLimit \in 1..100

VARIABLES
    cursor,     \* afterSeq of its next request
    inbox,      \* the documents the device holds
    pushed,     \* documents whose live push was attempted
    overtaken   \* calls that held a seq when the cursor passed it

device == <<cursor, inbox, pushed, overtaken>>
allVars == <<vars, device>>

ReaderTypeOK ==
    /\ TypeOK
    /\ cursor \in Nat
    /\ inbox \in SUBSET Docs
    /\ pushed \in SUBSET Docs
    /\ overtaken \in SUBSET Requests

ReaderInit ==
    /\ Init
    /\ cursor = 0
    /\ inbox = {}
    /\ pushed = OldDocs
    /\ overtaken = {}

\* history(): seq > afterSeq, ascending, cut at the limit.
After(c) == {m \in messages : m.seq > c}

\* Mutant of Page: the limit is applied to an unsorted result.
PageUnsorted(c) ==
    {m \in After(c) : Cardinality({n \in After(c) : n.seq > m.seq}) < PageLimit}

Page(c) ==
    {m \in After(c) : Cardinality({n \in After(c) : n.seq < m.seq}) < PageLimit}

InFlight == {"persist", "insert", "findWinner"}

\* The device asks for what follows its cursor and moves the cursor to the
\* last document of the page.
Fetch ==
    /\ \E last \in Page(cursor) :
          /\ \A m \in Page(cursor) : m.seq <= last.seq
          /\ cursor' = last.seq
          /\ inbox' = inbox \cup Page(cursor)
          /\ overtaken' = overtaken \cup
                {r \in Requests : pc[r] \in InFlight /\ seq[r] <= last.seq}
    /\ UNCHANGED <<vars, pushed>>

\* The fan-out of message.sent reaches the device, or finds its socket down.
Push(m) ==
    /\ m \in published \ pushed
    /\ pushed' = pushed \cup {m}
    /\ inbox' \in {inbox, inbox \cup {m}}
    /\ UNCHANGED <<vars, cursor, overtaken>>

ReaderNext ==
    \/ Next /\ UNCHANGED device
    \/ Fetch
    \/ \E m \in published : Push(m)

ReaderSpec == ReaderInit /\ [][ReaderNext]_allVars

----------------------------------------------------------------------------

\* While Redis keeps its counter, the only documents that can appear behind the
\* cursor are those whose send already held its seq when the cursor passed it.
OnlyOvertakenAreMissed ==
    CountersIntact =>
        \A m \in messages :
            m.seq <= cursor /\ m \notin inbox => m._id \in overtaken

\* VelChat-Architecture.md:1217 "No message is lost on socket drop: reconnect
\* -> replay missed seq ranges": a message whose live push is over is with the
\* device or still ahead of the cursor the device will replay from.
NoMessageLost ==
    \A m \in pushed : m.seq <= cursor => m \in inbox
=============================================================================
