--------------------------------- MODULE Calls ---------------------------------
(***************************************************************************)
(* One call, its participants and the requests to control its screen       *)
(* (CallsService and ScreenControlService over their repositories).  Both  *)
(* services read rows as Postgres names their columns (host_id, ended_at,   *)
(* lobby_enabled, sharer_id) under the names of the row types (hostId, ...), *)
(* which such rows do not have.  So nobody is the host: admit and end       *)
(* refuse everybody and every role is "attendee"; a join finds no lobby, no *)
(* end, and nobody in already; and grant, deny, release and revoke refuse   *)
(* either party.  What these calls would write is therefore not here, nor   *)
(* is the lock, which nothing sets.  The call is created once, live or as   *)
(* the room of a meeting; its id is known once an event has told it.        *)
(***************************************************************************)
EXTENDS Tasks

CONSTANTS
    Callers,
    MaxRequests     \* bound on the requests for control

ASSUME CallsAssumption == MaxRequests \in Nat

VARIABLES
    keys,       \* the LiveKit key and secret are configured: without them no token is minted
    call,       \* calls: "none", "live" or "meeting"
    began,      \* its started_at is set
    details,    \* its row in meetings
    announced,  \* call.started or meeting.scheduled was published
    present,    \* call_participants: "none", "in" (left_at is null) or "out"
    lastEvent,  \* the last call.participant event of each
    met,        \* callers with two calls at once
    live,       \* call_screen_control: the rows that are requested or active
    crowded     \* two requests for control ran at once

roomVars == <<call, began, details, announced>>
callVars == <<keys, roomVars, present, lastEvent, met, live, crowded>>

CallTypeOK ==
    /\ call \in {"none", "live", "meeting"}
    /\ {keys, began, details, announced} \subseteq BOOLEAN
    /\ present \in [Callers -> {"none", "in", "out"}]
    /\ lastEvent \in [Callers -> {"none", "joined", "left"}]
    /\ met \in SUBSET Callers
    /\ live \in 0..MaxRequests
    /\ crowded \in BOOLEAN

CallInit ==
    /\ keys \in BOOLEAN
    /\ call = "none" /\ began = FALSE /\ details = FALSE /\ announced = FALSE
    /\ present = [u \in Callers |-> "none"]
    /\ lastEvent = [u \in Callers |-> "none"]
    /\ met = {}
    /\ live = 0 /\ crowded = FALSE

InACall(u) == \E t \in Tasks, op \in {"call", "join", "leave"} : Under(t, op) /\ task[t].u = u

Concerns(t, u, op, at) ==
    /\ Begins(t, [op |-> op, u |-> u, at |-> at])
    /\ met' = IF InACall(u) THEN met \cup {u} ELSE met
    /\ UNCHANGED <<failures, keys, roomVars, present, lastEvent, live, crowded>>

----------------------------------------------------------------------------
(* createCall and scheduleMeeting                                          *)

Creating == \E t \in Tasks, op \in {"call", "meet"} : Under(t, op)

CreateCall(t, u) == call = "none" /\ ~Creating /\ Concerns(t, u, "call", "row")

ScheduleMeeting(t, u) == call = "none" /\ ~Creating /\ Concerns(t, u, "meet", "row")

\* A live call starts now, and so does a meeting that has no date; one with a date when it is first joined.
InsertCall(t) ==
    /\ At(t, "row")
    /\ call' = IF task[t].op = "call" THEN "live" ELSE "meeting"
    /\ began' \in {TRUE} \cup {x \in {FALSE} : task[t].op = "meet"}
    /\ Goes(t, IF task[t].op = "call" THEN "add" ELSE "meeting")
    /\ UNCHANGED <<failures, keys, details, announced, present, lastEvent, met, live, crowded>>

CreateMeeting(t) ==
    /\ At(t, "meeting")
    /\ details' = TRUE
    /\ Goes(t, "announce")
    /\ UNCHANGED <<failures, keys, call, began, announced, present, lastEvent, met, live, crowded>>

Announce(t) ==
    /\ At(t, "announce")
    /\ announced' = TRUE
    /\ IF task[t].op = "call" THEN Goes(t, "tell") ELSE Ends(t)
    /\ UNCHANGED <<failures, keys, call, began, details, present, lastEvent, met, live, crowded>>

----------------------------------------------------------------------------
(* join and leave                                                          *)

Join(t, u) == announced /\ Concerns(t, u, "join", "add")

\* The host's token is minted here and refused without the keys; a guest's comes last.
AddParticipant(t) ==
    /\ At(t, "add")
    /\ present' = [present EXCEPT ![task[t].u] = "in"]
    /\ IF task[t].op = "join" THEN Goes(t, "start") ELSE IF keys THEN Goes(t, "announce") ELSE Ends(t)
    /\ UNCHANGED <<failures, keys, roomVars, lastEvent, met, live, crowded>>

MarkStarted(t) ==
    /\ At(t, "start")
    /\ began' = TRUE
    /\ Goes(t, "tell")
    /\ UNCHANGED <<failures, keys, call, details, announced, present, lastEvent, met, live, crowded>>

Leave(t, u) == announced /\ Concerns(t, u, "leave", "out")

\* Only an open row is closed; the leave is told all the same.
RowLeft(u) == IF present[u] = "in" THEN "out" ELSE present[u]

MarkLeft(t) ==
    /\ At(t, "out")
    /\ present' = [present EXCEPT ![task[t].u] = RowLeft(task[t].u)]
    /\ Goes(t, "tell")
    /\ UNCHANGED <<failures, keys, roomVars, lastEvent, met, live, crowded>>

EventOf(op) == IF op = "leave" THEN "left" ELSE "joined"

TellParticipant(t) ==
    /\ At(t, "tell")
    /\ lastEvent' = [lastEvent EXCEPT ![task[t].u] = EventOf(task[t].op)]
    /\ Ends(t)
    /\ UNCHANGED <<failures, keys, roomVars, present, met, live, crowded>>

----------------------------------------------------------------------------
(* request                                                                 *)

NoneLive == live = 0

ReadCurrent(t) ==
    /\ NoneLive
    /\ Begins(t, [op |-> "control", at |-> "create"])
    /\ crowded' = (crowded \/ \E u \in Tasks : Under(u, "control"))
    /\ UNCHANGED <<failures, keys, roomVars, present, lastEvent, met, live>>

\* Then it is told, which changes nothing here.
CreateRequest(t) ==
    /\ At(t, "create") /\ live < MaxRequests
    /\ live' = live + 1
    /\ Ends(t)
    /\ UNCHANGED <<failures, keys, roomVars, present, lastEvent, met, crowded>>

FailCall(t) == Fails(t) /\ UNCHANGED callVars

\* The routes of CallsController that write, and that of ScreenControlController.
CallRequests(t) == \E u \in Callers : CreateCall(t, u) \/ ScheduleMeeting(t, u) \/ Join(t, u) \/ Leave(t, u)
ControlRequests(t) == ReadCurrent(t)

CallNext ==
    \E t \in Tasks :
       \/ CallRequests(t) \/ ControlRequests(t)
       \/ InsertCall(t) \/ CreateMeeting(t) \/ Announce(t)
       \/ AddParticipant(t) \/ MarkStarted(t) \/ MarkLeft(t) \/ TellParticipant(t)
       \/ CreateRequest(t)
       \/ FailCall(t)

----------------------------------------------------------------------------
(* Properties                                                              *)

\* With no call under way, the last event about a participant says whether they are in, unless two
\* calls about them overlapped or one failed, or no token can be minted: the host then stays in a
\* call that nobody is told of.  About the events of createCall, join and leave, each published after
\* its row was written.
LastEventIsTheRow ==
    \A u \in Callers \ met :
       ~InACall(u) /\ failures = 0 /\ (keys \/ announced) => (lastEvent[u] = "joined" <=> present[u] = "in")

\* "One at a time": a call has a second live request for control only if two requests overlapped.
\* About request, which inserts on what current() answered, and the table, which has no unique index.
OneRequestPerCall == live > 1 => crowded

\* Whoever is told of a call can enter it, and whoever is told to have entered finds it started: a
\* call.started follows its host's row, a meeting.scheduled the meeting's, and a first join the start.
\* About the order in createCall, scheduleMeeting and join, whose rows outlive a call that dies.
ToldOfWhatIs ==
    /\ announced => IF call = "meeting" THEN details ELSE began /\ \E u \in Callers : present[u] # "none"
    /\ ~began => \A u \in Callers : lastEvent[u] # "joined"

\* Who is in a call, and who asked for its screen.
CallsHold ==
    /\ ToldOfWhatIs
    /\ LastEventIsTheRow
    /\ OneRequestPerCall
=============================================================================
