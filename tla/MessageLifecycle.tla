--------------------------- MODULE MessageLifecycle ---------------------------
(***************************************************************************)
(* One stored message after its send: ChatService.edit, delete, react and   *)
(* unreact, each a read, an update or two and a publish, and the search     *)
(* index that SearchConsumer keeps from the events.                         *)
(*                                                                         *)
(* One emoji stands for all: the updates of two emojis touch two keys of    *)
(* the document.  What an edit writes is named after the call that wrote    *)
(* it.  A refused call changes nothing, so what the first read of a call    *)
(* refuses is a guard of the action that starts it.                         *)
(***************************************************************************)
EXTENDS Naturals, Sequences

CONSTANTS Users,
          Sender,       \* sender_id of the message
          Calls,        \* handler calls, each made at most once
          Original,     \* the content the message was sent with
          Empty,        \* the content '', and the text of an index entry without one
          None,         \* no index entry
          MaxFaults     \* bound on the calls that end half way and the repeated deliveries

ASSUME LifecycleAssumption ==
    /\ Sender \in Users
    /\ {Original, Empty, None} \cap Calls = {}
    /\ Original # Empty /\ Original # None /\ Empty # None
    /\ MaxFaults \in Nat

VARIABLES
    content,
    deleted,
    history,    \* edit_history, the contents in it
    hidden,     \* deleted_for
    key,        \* reactions has the emoji
    reactors,   \* who is in its list
    sentMode,   \* the mode of the send
    call,       \* [Calls -> CallStates]
    published,  \* the events on the bus
    handled,    \* those the search indexer is done with
    index,      \* the text of the message's entry in the search index
    versions,   \* the contents the document has had, tombstones apart, oldest first
    cleared,    \* those a tombstone cleared
    crossed,    \* edits that were applied between the read and the update of another
    racing,     \* edits that had read the message when a tombstone was set
    wants,      \* the users whose latest update of the reactions added theirs
    disordered, \* an older text was indexed after a newer one
    halfDone,   \* removals of a reaction that ended between their two updates
    faults

doc       == <<content, deleted, history, hidden>>
reactions == <<key, reactors, wants>>
search    == <<handled, index, disordered>>
past      == <<versions, cleared, crossed, racing>>
lifeVars  == <<doc, reactions, sentMode, call, published, search, past, halfDone, faults>>

\* What a send or an edit comes with: no tenant, a tenant and encrypted content, or a
\* tenant and content the server can read.
Modes  == {"personal", "sealed", "readable"}
Topics == {"sent", "edited", "deleted", "reaction"}

Contents == Calls \cup {Original, Empty}

\* from: the call, or Original for the send.  text: Empty when the event carries none.
Events == [topic : Topics, from : Calls \cup {Original}, tenant : BOOLEAN, text : Contents]

CallStates ==
    [pc   : {"idle", "apply", "tombstone", "drop", "publish", "done"},
     op   : {"edit", "delete", "react", "unreact"},
     user : Users,
     mode : Modes,
     read : Contents]

Idle == [pc |-> "idle", op |-> "edit", user |-> Sender, mode |-> "personal", read |-> Empty]
\* What a finished call leaves behind is whether its content was readable.
Done(mode) == [Idle EXCEPT !.pc = "done", !.mode = mode]

TypeOK ==
    /\ content \in Contents
    /\ deleted \in BOOLEAN
    /\ history \in Seq(Contents)
    /\ hidden \in SUBSET Users
    /\ key \in BOOLEAN
    /\ reactors \in SUBSET Users
    /\ reactors # {} => key
    /\ sentMode \in Modes
    /\ call \in [Calls -> CallStates]
    /\ published \in SUBSET Events
    /\ handled \in SUBSET published
    /\ index \in Contents \cup {None}
    /\ versions \in Seq(Contents)
    /\ cleared \in SUBSET Contents
    /\ crossed \in SUBSET Calls
    /\ racing \in SUBSET Calls
    /\ wants \in SUBSET Users
    /\ disordered \in BOOLEAN
    /\ halfDone \in SUBSET Calls
    /\ faults \in Nat
    /\ Len(versions) = Len(history) + 1

\* searchText travels only with a tenant and unencrypted content.  Mutant: encryption is
\* not looked at.
TextOfAnyTenant(mode, text) == IF mode = "personal" THEN Empty ELSE text

TextOf(mode, text) == IF mode = "readable" THEN text ELSE Empty

\* messageSent and edited are given input.tenantId; deleted and reaction are not.
Tenant(op, mode) == op \in {"send", "edit"} /\ mode # "personal"

SentEvent(mode) ==
    [topic |-> "sent", from |-> Original, tenant |-> Tenant("send", mode),
     text |-> TextOf(mode, Original)]

Init ==
    /\ content = Original
    /\ deleted = FALSE
    /\ history = <<>>
    /\ hidden = {}
    /\ key = FALSE
    /\ reactors = {}
    /\ sentMode \in Modes
    /\ call = [c \in Calls |-> Idle]
    /\ published = {SentEvent(sentMode)}
    /\ handled = {}
    /\ index = None
    /\ versions = <<Original>>
    /\ cleared = {}
    /\ crossed = {}
    /\ racing = {}
    /\ wants = {}
    /\ disordered = FALSE
    /\ halfDone = {}
    /\ faults = 0

----------------------------------------------------------------------------
(* Edit and delete                                                         *)

Begin(c, rec) ==
    /\ call[c] = Idle
    /\ call' = [call EXCEPT ![c] = rec]

Goto(c, next) == call' = [call EXCEPT ![c].pc = next]

Applying == {c \in Calls : call[c].pc = "apply"}

\* edit: only the sender, and no deleted message.
EditReads(c, mode) ==
    /\ ~deleted
    /\ Begin(c, [Idle EXCEPT !.pc = "apply", !.op = "edit", !.mode = mode, !.read = content])
    /\ UNCHANGED <<doc, reactions, sentMode, published, search, past, halfDone, faults>>

\* Mutant of ApplyEdit: the new content goes to edit_history, not the one read.
ApplyEditKeepsNew(c) ==
    /\ call[c].pc = "apply"
    /\ content' = c
    /\ history' = Append(history, c)
    /\ Goto(c, "publish")
    /\ versions' = Append(versions, c)
    /\ crossed' = IF Applying = {c} THEN crossed ELSE crossed \cup {c}
    /\ UNCHANGED <<deleted, hidden, reactions, sentMode, published, search, cleared, racing,
                   halfDone, faults>>

\* applyEdit has no filter on deleted, and none on the content that was read.
ApplyEdit(c) ==
    /\ call[c].pc = "apply"
    /\ content' = c
    /\ history' = Append(history, call[c].read)
    /\ Goto(c, "publish")
    /\ versions' = Append(versions, c)
    /\ crossed' = IF Applying = {c} THEN crossed ELSE crossed \cup {c}
    /\ UNCHANGED <<deleted, hidden, reactions, sentMode, published, search, cleared, racing,
                   halfDone, faults>>

\* deleteForMe hides the message for one user and tells nobody.
DeleteForMe(c, u) ==
    /\ Begin(c, Done("personal"))
    /\ hidden' = hidden \cup {u}
    /\ UNCHANGED <<content, deleted, history, reactions, sentMode, published, search, past,
                   halfDone, faults>>

\* delete for everyone: only the sender; a tombstone may be deleted again.
DeleteReads(c) ==
    /\ Begin(c, [Idle EXCEPT !.pc = "tombstone", !.op = "delete"])
    /\ UNCHANGED <<doc, reactions, sentMode, published, search, past, halfDone, faults>>

Tombstone(c) ==
    /\ call[c].pc = "tombstone"
    /\ deleted' = TRUE
    /\ content' = Empty
    /\ Goto(c, "publish")
    /\ cleared' = cleared \cup {content}
    /\ racing' = racing \cup Applying
    /\ UNCHANGED <<history, hidden, reactions, sentMode, published, search, versions, crossed,
                   halfDone, faults>>

----------------------------------------------------------------------------
(* Reactions                                                               *)

\* addReaction: one $addToSet, which makes the key if it has to.
React(c, u) ==
    /\ Begin(c, [Idle EXCEPT !.pc = "publish", !.op = "react", !.user = u])
    /\ key' = TRUE
    /\ reactors' = reactors \cup {u}
    /\ wants' = wants \cup {u}
    /\ UNCHANGED <<doc, sentMode, published, search, past, halfDone, faults>>

\* removeReaction, the first update: $pull.
Pull(c, u) ==
    /\ Begin(c, [Idle EXCEPT !.pc = "drop", !.op = "unreact", !.user = u])
    /\ reactors' = reactors \ {u}
    /\ wants' = wants \ {u}
    /\ UNCHANGED <<doc, key, sentMode, published, search, past, halfDone, faults>>

\* removeReaction, the second: $unset of the key, if its list is empty.
DropEmptyKey(c) ==
    /\ call[c].pc = "drop"
    /\ key' = (key /\ reactors # {})
    /\ Goto(c, "publish")
    /\ UNCHANGED <<doc, reactors, wants, sentMode, published, search, past, halfDone, faults>>

----------------------------------------------------------------------------
(* Events and the search index                                             *)

TopicOf(op) ==
    CASE op = "edit" -> "edited" [] op = "delete" -> "deleted" [] OTHER -> "reaction"

\* Mutant of EventOf: the content that was read is published, not the new one.
EventOfRead(c) ==
    [topic  |-> TopicOf(call[c].op), from |-> c,
     tenant |-> Tenant(call[c].op, call[c].mode),
     text   |-> IF call[c].op = "edit" THEN TextOf(call[c].mode, call[c].read) ELSE Empty]

EventOf(c) ==
    [topic  |-> TopicOf(call[c].op), from |-> c,
     tenant |-> Tenant(call[c].op, call[c].mode),
     text   |-> IF call[c].op = "edit" THEN TextOf(call[c].mode, c) ELSE Empty]

\* Every call but deleteForMe ends with its event.
Publish(c) ==
    /\ call[c].pc = "publish"
    /\ published' = published \cup {EventOf(c)}
    /\ call' = [call EXCEPT ![c] = Done(call[c].mode)]
    /\ UNCHANGED <<doc, reactions, sentMode, search, past, halfDone, faults>>

\* The handlers that write an entry: message.sent of a tenant, and message.edited of a
\* tenant that carries its text.
Indexes(e) ==
    /\ e.tenant
    /\ e.topic = "sent" \/ (e.topic = "edited" /\ e.text # Empty)

\* message.deleted of a tenant purges the entry.
Purges(e) == e.tenant /\ e.topic = "deleted"

Older(e, f) ==
    \E i, j \in DOMAIN versions : i < j /\ versions[i] = e.from /\ versions[j] = f.from

\* e is written over an entry that holds the text of a newer version.
OverNewer(e) == Indexes(e) /\ \E f \in handled : Indexes(f) /\ Older(e, f)

\* The indexer handles the events of three topics, in any order: the topics are streams
\* of their own, and one may be taken by several replicas.
Handle(e) ==
    /\ e.topic # "reaction"
    /\ index' = IF Indexes(e) THEN e.text ELSE IF Purges(e) THEN None ELSE index
    /\ disordered' = (disordered \/ OverNewer(e))
    /\ UNCHANGED <<doc, reactions, sentMode, call, published, past, halfDone>>

HandleAndMark(e) ==
    /\ e \notin handled
    /\ Handle(e)
    /\ handled' = handled \cup {e}
    /\ UNCHANGED faults

\* The handler ran and its event was not marked: it will run again.
HandleOnly(e) ==
    /\ e \notin handled
    /\ faults < MaxFaults
    /\ Handle(e)
    /\ faults' = faults + 1
    /\ UNCHANGED handled

\* A call ends half way: a query rejects, the publish fails or the process dies.
Die(c) ==
    /\ call[c].pc \notin {"idle", "done"}
    /\ faults < MaxFaults
    /\ faults' = faults + 1
    /\ call' = [call EXCEPT ![c] = Done(call[c].mode)]
    /\ halfDone' = IF call[c].pc = "drop" THEN halfDone \cup {c} ELSE halfDone
    /\ UNCHANGED <<doc, reactions, sentMode, published, search, past>>

Next ==
    \/ \E c \in Calls : \/ \E mode \in Modes : EditReads(c, mode)
                        \/ ApplyEdit(c)
                        \/ DeleteReads(c)
                        \/ Tombstone(c)
                        \/ DropEmptyKey(c)
                        \/ Publish(c)
                        \/ Die(c)
    \/ \E c \in Calls, u \in Users : \/ DeleteForMe(c, u)
                                     \/ React(c, u)
                                     \/ Pull(c, u)
    \/ \E e \in published : \/ HandleAndMark(e)
                            \/ HandleOnly(e)

Spec == Init /\ [][Next]_lifeVars

----------------------------------------------------------------------------

\* A message deleted for everyone holds content again only if an edit that had read it
\* before the tombstone was applied after it (chat.repository.ts:98: applyEdit does not
\* ask for deleted = false), and the content is that edit's.
TombstoneFilledOnlyByRacingEdit ==
    deleted /\ content # Empty => content \in racing

\* edit_history keeps every version (chat.service.ts:160, "compliance"): a content the
\* message once had is its content now, or in edit_history, or is the last one before a
\* tombstone, or was written between the read and the update of another edit.
VersionsAreKept ==
    \A k \in DOMAIN versions : LET v == versions[k] IN
        \/ v = content \/ v \in cleared \/ v \in crossed
        \/ \E i \in DOMAIN history : history[i] = v

\* The two updates of removeReaction never take another user's reaction with them, however
\* they interleave with additions, and leave an empty list under its emoji only while a
\* removal is between the two or after one has died there.
ReactionsSettle ==
    /\ reactors = wants
    /\ key /\ reactors = {} =>
          \/ \E c \in Calls : call[c].pc = "drop"
          \/ halfDone # {}

\* Server-blind search (search.consumer.ts:45): no content of a send or an edit that was
\* personal or encrypted ever stands in the index.
OnlyReadableTextIsIndexed ==
    /\ index = Original => sentMode = "readable"
    /\ index = Empty => sentMode = "sealed"
    /\ index \in Calls => call[index].mode = "readable"

AtRest ==
    /\ \A c \in Calls : call[c].pc \in {"idle", "done"}
    /\ \A e \in published : e.topic # "reaction" => e \in handled

\* Once every call has ended and every event is handled, and the message is not deleted,
\* the index holds the newest text any event carried, unless texts were indexed out of
\* order: nothing in an event or an entry tells a newer text from an older one.
IndexTrailsOnlyDisorder ==
    AtRest /\ ~deleted /\ ~disordered =>
        \/ index = None /\ \A e \in published : ~Indexes(e)
        \/ \E e \in published : /\ Indexes(e) /\ index \in {e.from, Empty}
                               /\ \A f \in published : Indexes(f) => ~Older(e, f)
=============================================================================
