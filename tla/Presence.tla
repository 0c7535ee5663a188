-------------------------------- MODULE Presence --------------------------------
(***************************************************************************)
(* The presence of one user (PresenceService over PresenceRepository):      *)
(* online, offline, heartbeat and the manual status, command by command,    *)
(* last seen, and what is fanned out.  One time to live holds for the whole *)
(* set of devices.  Privacy and subscriptions are left out.                 *)
(***************************************************************************)
EXTENDS Tasks

CONSTANT UserDevices

\* A set in Redis.
ASSUME PresenceAssumption == IsFiniteSet(UserDevices)

VARIABLES
    online,     \* online:{u}
    manual,     \* pstatus:{u}: "none" also for one that is not set to an availability, or has expired
    lastSeen,   \* lastseen:{u}, since a device last came online: not written ("none"), written while one
                \* was there ("during"), or with none there ("after")
    fanned,     \* the status of the last presence.changed
    silent,     \* what the status is made of changed with nobody to fan it out
    interleaved         \* two calls overlapped

presenceVars == <<online, manual, lastSeen, fanned, silent, interleaved>>

Manuals == {"none", "away", "busy", "offline"}

PresenceTypeOK ==
    /\ online \in SUBSET UserDevices
    /\ manual \in Manuals /\ lastSeen \in {"none", "during", "after"}
    /\ fanned \in {"online", "away", "offline"}
    /\ silent \in BOOLEAN
    /\ interleaved \in BOOLEAN

\* The user is away, and was seen before.
PresenceInit ==
    /\ online = {} /\ manual = "none" /\ lastSeen = "after"
    /\ fanned = "offline"
    /\ silent = FALSE /\ interleaved = FALSE

\* Mutant: a manual status is fanned out as it was set.
KeptAsSet(count, m) == IF m # "none" THEN m ELSE IF count = 0 THEN "offline" ELSE "online"

\* computePresence and coarse: a manual status comes before the devices, and busy counts as online.
Coarse(count, m) ==
    CASE m = "busy"               -> "online"
      [] m \in {"away", "offline"} -> m
      [] m = "none"               -> IF count = 0 THEN "offline" ELSE "online"

StatusNow == Coarse(Cardinality(online), manual)

Alone == \A t \in Tasks : task[t].at \in {"new", "over", "failed"}
MeetsAny == interleaved' = (interleaved \/ ~Alone)

\* A change that no call fans out; one under way may have read before it.
Silently == silent' = TRUE

----------------------------------------------------------------------------
(* The calls                                                               *)

AddDevice(t, d) ==
    /\ Begins(t, [op |-> "online", at |-> "count"])
    /\ online' = online \cup {d}
    /\ lastSeen' = "none"
    /\ MeetsAny
    /\ UNCHANGED <<failures, manual, fanned, silent>>

\* With a device, the set is made anew if it has lapsed.
Heartbeat(d) ==
    /\ online' = online \cup {d}
    /\ silent' = (silent \/ d \notin online)
    /\ UNCHANGED <<taskVars, manual, lastSeen, fanned, interleaved>>

SetManual(t, m) ==
    /\ Begins(t, [op |-> "setStatus", at |-> "count"])
    /\ manual' = m
    /\ MeetsAny
    /\ UNCHANGED <<failures, online, lastSeen, fanned, silent>>

RemoveDevice(t, d) ==
    /\ Begins(t, [op |-> "offline", at |-> "remaining"])
    /\ online' = online \ {d}
    /\ MeetsAny
    /\ UNCHANGED <<failures, manual, lastSeen, fanned, silent>>

\* Mutant: every device that goes is the last.
AnyGone(t) == TRUE

NoneLeft(t) == online = {}

\* Last seen is written and the change fanned out only if no device is left.
Remaining(t) ==
    /\ At(t, "remaining")
    /\ IF NoneLeft(t) THEN Goes(t, "seen") ELSE Ends(t)
    /\ UNCHANGED <<failures, presenceVars>>

WriteLastSeen(t) ==
    /\ At(t, "seen")
    /\ lastSeen' = IF online = {} THEN "after" ELSE "during"
    /\ Goes(t, "count")
    /\ UNCHANGED <<failures, online, manual, fanned, silent, interleaved>>

----------------------------------------------------------------------------
(* fanout                                                                  *)

OnlineCount(t) ==
    /\ At(t, "count")
    /\ GoesWith(t, "count", Cardinality(online), "manual")
    /\ UNCHANGED <<failures, presenceVars>>

GetManual(t) ==
    /\ At(t, "manual")
    /\ GoesWith(t, "status", Coarse(task[t].count, manual), "changed")
    /\ UNCHANGED <<failures, presenceVars>>

Changed(t) ==
    /\ At(t, "changed")
    /\ fanned' = task[t].status
    /\ Ends(t)
    /\ UNCHANGED <<failures, online, manual, lastSeen, silent, interleaved>>

----------------------------------------------------------------------------
(* What happens by itself                                                  *)

\* No heartbeat within the time to live: the whole set goes.
Lapse ==
    /\ online # {}
    /\ online' = {}
    /\ Silently
    /\ UNCHANGED <<taskVars, manual, lastSeen, fanned, interleaved>>

ManualExpires ==
    /\ manual # "none"
    /\ manual' = "none"
    /\ Silently
    /\ UNCHANGED <<taskVars, online, lastSeen, fanned, interleaved>>

FailPresence(t) == Fails(t) /\ UNCHANGED presenceVars

\* The routes of PresenceController that write presence.
PresenceRequests ==
    \/ \E t \in Tasks, d \in UserDevices : AddDevice(t, d) \/ RemoveDevice(t, d)
    \/ \E t \in Tasks, m \in Manuals : SetManual(t, m)
    \/ \E d \in UserDevices : Heartbeat(d)

PresenceNext ==
    \/ PresenceRequests
    \/ \E t \in Tasks : Remaining(t) \/ WriteLastSeen(t) \/ OnlineCount(t) \/ GetManual(t) \/ Changed(t) \/ FailPresence(t)
    \/ Lapse \/ ManualExpires

----------------------------------------------------------------------------
(* Properties                                                              *)

\* With no call under way, what was last fanned out is what a reader would be told, unless the set
\* lapsed or came back by a heartbeat, a manual status expired, calls overlapped or one failed.
\* About online, offline and setStatus, whose fan-out reads again what they wrote.
FannedIsCurrent ==
    Alone /\ ~silent /\ ~interleaved /\ failures = 0 => fanned = StatusNow

\* Last seen is never the time of a device that went while another stayed, and with no call under way
\* and no device left it is the time the last one went, with the same exceptions.  About offline, which
\* counts the devices after it has removed one.
LastSeenIsTheEnd ==
    ~silent /\ ~interleaved /\ failures = 0 =>
        /\ lastSeen # "during"
        /\ Alone /\ online = {} => lastSeen = "after"
=============================================================================
