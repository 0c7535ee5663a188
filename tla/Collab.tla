--------------------------------- MODULE Collab ---------------------------------
(***************************************************************************)
(* What the members of a conversation keep together: the pin of a message   *)
(* and one user's state of the chat (ExtrasService), a list with its items  *)
(* (ListsService) and a canvas (CollabService), with a star and a clip, of   *)
(* one statement each.  A request that needs several statements meets       *)
(* others in between.                                                       *)
(***************************************************************************)
EXTENDS Tasks

VARIABLES
    pinned,     \* the message has a row in pins
    pinTold,    \* the last event said it has
    chat,       \* conversation_state: the call whose value each field has
    misread,    \* patches answered with the value of another
    list,       \* "none", "there" or "gone"
    items,      \* list_items, by the call that adds it: its position, Out before and after
    moved,      \* items given a position by their users
    emptied,    \* a delete has removed the items
    canvas,     \* version, the edits its content has, and the edit its title is from
    accepted,   \* the edits that were answered with a new version
    saved,      \* a star, and a clip, that have a row
    concurrent  \* calls that overlapped with another that matters to them

pinVars    == <<pinned, pinTold, chat, misread>>
listVars   == <<list, items, moved, emptied>>
canvasVars == <<canvas, accepted>>
collabVars == <<pinVars, listVars, canvasVars, saved, concurrent>>

Fields    == {"archived", "pinned", "muted_until"}
Positions == 0..(Cardinality(Tasks) - 1)
Out       == Cardinality(Tasks)
Nobody    == "nobody"

ASSUME CollabAssumption == IsFiniteSet(Tasks)   \* positions and versions are bounded by the calls

CollabTypeOK ==
    /\ {pinned, pinTold, emptied} \subseteq BOOLEAN
    /\ chat \in [Fields -> Tasks \cup {Nobody}] 
    /\ list \in {"none", "there", "gone"}
    /\ items \in [Tasks -> Positions \cup {Out}]
    /\ canvas \in [version : 1..(Cardinality(Tasks) + 1), content : SUBSET Tasks, title : Tasks \cup {Nobody}]
    /\ saved \subseteq {"star", "clip"}
    /\ accepted \subseteq Tasks \X {"title", "content"}
    /\ \A S \in {misread, moved, concurrent} : S \subseteq Tasks

CollabInit ==
    /\ pinned = FALSE /\ pinTold = FALSE
    /\ chat = [f \in Fields |-> Nobody] /\ misread = {}
    /\ list = "none" /\ items = [t \in Tasks |-> Out] /\ moved = {} /\ emptied = FALSE
    /\ canvas = [version |-> 1, content |-> {}, title |-> Nobody] /\ accepted = {}
    /\ saved = {} /\ concurrent = {}

\* Calls under way that match what a beginning one does.
Overlaps(t, others) == concurrent' = IF others = {} THEN concurrent ELSE concurrent \cup others \cup {t}

----------------------------------------------------------------------------
(* Pins and the state of a chat                                            *)

Pinning == {t \in Tasks : Under(t, "pin") \/ Under(t, "unpin")}

WritePin(t, op) ==
    /\ Begins(t, [op |-> op, at |-> "tell"])
    /\ pinned' = (op = "pin")
    /\ Overlaps(t, Pinning)
    /\ UNCHANGED <<failures, pinTold, chat, misread, listVars, canvasVars, saved>>

TellPin(t) ==
    /\ At(t, "tell")
    /\ pinTold' = (task[t].op = "pin")
    /\ Ends(t)
    /\ UNCHANGED <<failures, pinned, chat, misread, listVars, canvasVars, saved, concurrent>>

\* $set leaves the other fields alone, and a field is absent until it is set.
Patched(f, t) == [chat EXCEPT ![f] = t]

SetState(t, f) ==
    /\ Begins(t, [op |-> "setState", field |-> f, at |-> "state"])
    /\ chat' = Patched(f, t)
    /\ Overlaps(t, {u \in Tasks : Under(u, "setState") /\ task[u].field = f})
    /\ UNCHANGED <<failures, pinned, pinTold, misread, listVars, canvasVars, saved>>

\* The answer is read by a command of its own.
AnswerState(t) ==
    /\ At(t, "state")
    /\ misread' = IF chat[task[t].field] = t THEN misread ELSE misread \cup {t}
    /\ Ends(t)
    /\ UNCHANGED <<failures, pinned, pinTold, chat, listVars, canvasVars, saved, concurrent>>

----------------------------------------------------------------------------
(* Lists                                                                   *)

ItemsThere == {t \in Tasks : items[t] # Out}
NextPosition == IF ItemsThere = {} THEN 0
                ELSE 1 + (CHOOSE p \in {items[t] : t \in ItemsThere} : \A t \in ItemsThere : items[t] <= p)

CreateList ==
    /\ list = "none"
    /\ list' = "there"
    /\ UNCHANGED <<taskVars, pinVars, items, moved, emptied, canvasVars, saved, concurrent>>

AddItem(t) ==
    /\ list = "there"
    /\ Begins(t, [op |-> "addItem", at |-> "position"])
    /\ Overlaps(t, {u \in Tasks : Under(u, "addItem") \/ Under(u, "deleteList")})
    /\ UNCHANGED <<failures, pinVars, listVars, canvasVars, saved>>

\* The statement reads the positions when it begins; the row is there for others when it is through.
\* Bounded: no position beyond the number of calls.
FindPosition(t) ==
    /\ At(t, "position") /\ NextPosition \in Positions
    /\ GoesWith(t, "pos", NextPosition, "insert")
    /\ UNCHANGED <<failures, pinVars, listVars, canvasVars, saved, concurrent>>

\* No constraint asks whether the list is still there.
InsertItem(t) ==
    /\ At(t, "insert")
    /\ items' = [items EXCEPT ![t] = task[t].pos]
    /\ Ends(t)
    /\ UNCHANGED <<failures, pinVars, list, moved, emptied, canvasVars, saved, concurrent>>

MoveItem(i, p) ==
    /\ items[i] # Out
    /\ items' = [items EXCEPT ![i] = p]
    /\ moved' = moved \cup {i}
    /\ UNCHANGED <<taskVars, pinVars, list, emptied, canvasVars, saved, concurrent>>

DeleteItem(i) ==
    /\ items[i] # Out
    /\ items' = [items EXCEPT ![i] = Out]
    /\ UNCHANGED <<taskVars, pinVars, list, moved, emptied, canvasVars, saved, concurrent>>

DeleteList(t) ==
    /\ list = "there"
    /\ Begins(t, [op |-> "deleteList", at |-> "items"])
    /\ Overlaps(t, {u \in Tasks : Under(u, "addItem")})
    /\ UNCHANGED <<failures, pinVars, listVars, canvasVars, saved>>

DeleteItems(t) ==
    /\ At(t, "items")
    /\ items' = [i \in Tasks |-> Out]
    /\ emptied' = TRUE
    /\ Goes(t, "list")
    /\ UNCHANGED <<failures, pinVars, list, moved, canvasVars, saved, concurrent>>

DeleteListRow(t) ==
    /\ At(t, "list")
    /\ list' = "gone"
    /\ Ends(t)
    /\ UNCHANGED <<failures, pinVars, items, moved, emptied, canvasVars, saved, concurrent>>

----------------------------------------------------------------------------
(* A canvas                                                                *)

\* What the client has when it begins to edit, and which part it will send.
OpenCanvas(t, part) ==
    /\ Begins(t, [op |-> "edit", part |-> part, at |-> "exists",
                  expected |-> canvas.version, content |-> canvas.content])
    /\ UNCHANGED <<failures, collabVars>>

\* The version read here is only for the words of a refusal.
GetCanvas(t) ==
    /\ At(t, "exists")
    /\ GoesWith(t, "current", canvas.version, "update")
    /\ UNCHANGED <<failures, collabVars>>

\* Mutant: the version is compared when the row is read.
ComparedBefore(t) == task[t].current = task[t].expected

VersionIsExpected(t) == canvas.version = task[t].expected

\* The part that is not sent stays as it is.  A refusal is a conflict, and the client loads anew.
UpdateCanvas(t) ==
    /\ At(t, "update")
    /\ IF VersionIsExpected(t)
       THEN /\ canvas' = IF task[t].part = "content"
                         THEN [canvas EXCEPT !.version = @ + 1, !.content = task[t].content \cup {t}]
                         ELSE [canvas EXCEPT !.version = @ + 1, !.title = t]
            /\ accepted' = accepted \cup {<<t, task[t].part>>}
       ELSE UNCHANGED canvasVars
    /\ Ends(t)
    /\ UNCHANGED <<failures, pinVars, listVars, saved, concurrent>>

----------------------------------------------------------------------------
(* The routes                                                              *)

Save(k)  == saved' = saved \cup {k} /\ UNCHANGED <<taskVars, pinVars, listVars, canvasVars, concurrent>>
Erase(k) == saved' = saved \ {k} /\ UNCHANGED <<taskVars, pinVars, listVars, canvasVars, concurrent>>

FailCollab(t) == Fails(t) /\ UNCHANGED collabVars

ExtrasRequests ==
    \/ Save("star") \/ Erase("star")
    \/ \E t \in Tasks : \/ \E op \in {"pin", "unpin"} : WritePin(t, op)
                       \/ \E f \in Fields : SetState(t, f)

ListsRequests ==
    \/ CreateList
    \/ \E t \in Tasks : AddItem(t) \/ DeleteList(t) \/ DeleteItem(t) \/ \E p \in Positions : MoveItem(t, p)

CanvasRequests ==
    \/ Save("clip") \/ Erase("clip")
    \/ \E t \in Tasks, part \in {"title", "content"} : OpenCanvas(t, part)

\* The three share nothing: they are run one beside the other.
ExtrasNext == ExtrasRequests \/ \E t \in Tasks : TellPin(t) \/ AnswerState(t) \/ FailCollab(t)
ListsNext  == ListsRequests \/ \E t \in Tasks : FindPosition(t) \/ InsertItem(t) \/ DeleteItems(t) \/ DeleteListRow(t) \/ FailCollab(t)
CanvasNext == CanvasRequests \/ \E t \in Tasks : GetCanvas(t) \/ UpdateCanvas(t) \/ FailCollab(t)

----------------------------------------------------------------------------
(* Properties                                                              *)

\* With no call under way, the last event tells whether the message is pinned, unless calls that
\* write it overlapped or one failed.  About pin and unpin, which publish after they have written.
PinsAreToldInOrder ==
    Pinning = {} /\ concurrent = {} /\ failures = 0 => pinTold = pinned

\* A patch is answered with its own value, unless patches of that field overlapped: patches of other
\* fields take nothing from it.  About setState, which answers with a second command.
AnswersHaveThePatch == misread \subseteq concurrent

\* An item has a list, unless its call overlapped with the list's deletion or one failed.  About
\* deleteList, two statements, and addItem, which asks for the list before it inserts; no foreign key
\* does.
ItemsHaveAList ==
    list = "gone" => \A t \in ItemsThere : t \in concurrent

\* Two items share a position only if they were added at the same time, or were moved.  About the
\* next position, which a statement reads before its row is there for others.
PositionsDiffer ==
    \A t, u \in ItemsThere : t # u /\ items[t] = items[u] => {t, u} \subseteq concurrent \/ {t, u} \cap moved # {}

\* A list that lost its items to a deletion is gone, when no deletion is under way and none failed.
EmptiedListsGo ==
    emptied /\ list = "there" => failures > 0 \/ \E t \in Tasks : At(t, "list")

\* "A concurrent edit: 409, reload and retry": an edit that was accepted is in the canvas for good,
\* and no version has two of them.  About updateCanvas, which compares the version in the statement.
NoEditIsLost ==
    /\ \A e \in accepted : e[2] = "content" => e[1] \in canvas.content
    /\ canvas.version = 1 + Cardinality(accepted)

\* What members keep together is what they put there.
CollabHolds ==
    /\ PinsAreToldInOrder /\ AnswersHaveThePatch
    /\ ItemsHaveAList /\ PositionsDiffer /\ EmptiedListsGo
    /\ NoEditIsLost
=============================================================================
