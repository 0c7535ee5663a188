---------------------------------- MODULE Flags ----------------------------------
(***************************************************************************)
(* One feature flag and the platform document of its scope                  *)
(* (FeatureFlagsService over FeatureFlagsRepository and FeatureFlagsCache), *)
(* and one schedule (FlagScheduleWorker).  Every change reads the document, *)
(* writes it back whole and drops the cache; a change is named by its task. *)
(* create is the state the flag starts in; the audit, which nothing reads   *)
(* back, and the pruning of all but fifty snapshots are left out.           *)
(*                                                                         *)
(* And one segment of the scope, which has neither versions nor events.     *)
(***************************************************************************)
EXTENDS Tasks

CONSTANT Nothing

VARIABLES
    flag,       \* the document: its version and the changes it holds
    snapshots,  \* flag_config_versions
    cached,     \* the definitions in the cache, or Nothing
    announcedVersion,       \* the highest version announced
    platform,   \* platform_config: the changes it holds
    kept,       \* the platform document in the cache, or Nothing
    schedule,   \* "none", "pending", "cancelled" or "done"
    applied,    \* how often the schedule was applied
    raced,      \* caches that may be filled from a read a change overtook, or outlive a change that died
    together,   \* of each document: its changes that overlapped
    ticks       \* ticks of the schedule overlapped, or a cancel came after its tick had read it

flagVars == <<flag, snapshots, cached, announcedVersion, platform, kept, schedule, applied, raced, together, ticks>>

Documents == {"flags", "platform"}
Docs     == [version : 1..(Cardinality(Tasks) + 1), changes : SUBSET Tasks]
Segments == [id : Tasks, changes : SUBSET Tasks]

ASSUME FlagsAssumption ==
    /\ IsFiniteSet(Tasks)
    /\ \A document \in Docs \cup Segments \cup (SUBSET Tasks) : document # Nothing

Changing == {"update", "rollback", "schedule"}
At_(ops) == {t \in Tasks : \E op \in ops : Under(t, op)}

FlagTypeOK ==
    /\ flag \in Docs /\ snapshots \in SUBSET Docs /\ cached \in Docs \cup {Nothing}
    /\ announcedVersion \in 0..(Cardinality(Tasks) + 1) /\ applied \in 0..Cardinality(Tasks)
    /\ platform \in SUBSET Tasks /\ kept \in (SUBSET Tasks) \cup {Nothing}
    /\ schedule \in {"none", "pending", "cancelled", "done"}
    /\ raced \in SUBSET Documents /\ together \in [Documents -> SUBSET Tasks] /\ ticks \in BOOLEAN

FlagInit ==
    /\ flag = [version |-> 1, changes |-> {}] /\ snapshots = {flag} /\ cached = Nothing /\ announcedVersion = 1
    /\ platform = {} /\ kept = Nothing
    /\ schedule = "none" /\ applied = 0
    /\ raced = {} /\ together = [w \in Documents |-> {}] /\ ticks = FALSE

Changers(w) == At_(IF w = "flags" THEN Changing ELSE {"platform"})

Overlapping(t, w) ==
    together' = IF Changers(w) = {} THEN together ELSE [together EXCEPT ![w] = @ \cup {t} \cup Changers(w)]

----------------------------------------------------------------------------
(* update, setEnabled, setRollout, archive; rollback; commit               *)

NextVersion(cur, changes) == [version |-> cur.version + 1, changes |-> changes]

Update(t) ==
    /\ Begins(t, [op |-> "update", next |-> NextVersion(flag, flag.changes \cup {t}), at |-> "replace"])
    /\ Overlapping(t, "flags")
    /\ UNCHANGED <<failures, flag, snapshots, cached, announcedVersion, platform, kept, schedule, applied, raced, ticks>>

\* getVersion finds some snapshot of that version.
Rollback(t) ==
    /\ \E s \in snapshots :
          Begins(t, [op |-> "rollback", next |-> NextVersion(flag, s.changes), at |-> "replace"])
    /\ Overlapping(t, "flags")
    /\ UNCHANGED <<failures, flag, snapshots, cached, announcedVersion, platform, kept, schedule, applied, raced, ticks>>

Replace(t) ==
    /\ At(t, "replace")
    /\ flag' = task[t].next
    /\ applied' = IF task[t].op = "schedule" THEN applied + 1 ELSE applied
    /\ Goes(t, "snapshot")
    /\ UNCHANGED <<failures, snapshots, cached, announcedVersion, platform, kept, schedule, raced, together, ticks>>

InsertVersion(t) ==
    /\ At(t, "snapshot")
    /\ snapshots' = snapshots \cup {task[t].next}
    /\ Goes(t, "invalidate")
    /\ UNCHANGED <<failures, flag, cached, announcedVersion, platform, kept, schedule, applied, raced, together, ticks>>

\* Mutant: what is cached stays.
Keeps(c) == c

Dropped(c) == Nothing

\* A reader between its read and its write will fill the cache with what it read before the change.
Overtaken == {w \in Documents :
                \E t \in Tasks : At(t, "fill") /\ task[t].what = w
                                /\ task[t].read # (IF w = "flags" THEN flag ELSE platform)}

Invalidate(t) ==
    /\ At(t, "invalidate")
    /\ cached' = Dropped(cached) /\ kept' = Dropped(kept)
    /\ raced' = raced \cup Overtaken
    /\ IF task[t].op = "platform" THEN Ends(t) ELSE Goes(t, "tell")
    /\ UNCHANGED <<failures, flag, snapshots, announcedVersion, platform, schedule, applied, together, ticks>>

Tell(t) ==
    /\ At(t, "tell")
    /\ announcedVersion' = IF task[t].next.version > announcedVersion THEN task[t].next.version ELSE announcedVersion
    /\ IF task[t].op = "schedule" THEN Goes(t, "mark") ELSE Ends(t)
    /\ UNCHANGED <<failures, flag, snapshots, cached, platform, kept, schedule, applied, raced, together, ticks>>

----------------------------------------------------------------------------
(* loadFlags, loadPlatform; setMaintenance, setAnnouncement                *)

\* A hit answers; only a miss changes anything.
ReadFlags(t) ==
    /\ cached = Nothing
    /\ Begins(t, [op |-> "load", what |-> "flags", read |-> flag, at |-> "fill"])
    /\ UNCHANGED <<failures, flagVars>>

\* A change starts from the cached document when there is one.
ReadPlatform(t) ==
    /\ \E op \in {"load", "platform"} :
          /\ IF kept = Nothing
             THEN Begins(t, [op |-> op, what |-> "platform", read |-> platform, at |-> "fill"])
             ELSE op = "platform" /\ Begins(t, [op |-> op, what |-> "platform", read |-> kept, at |-> "put"])
          /\ IF op = "platform" THEN Overlapping(t, "platform") ELSE UNCHANGED together
    /\ UNCHANGED <<failures, flag, snapshots, cached, announcedVersion, platform, kept, schedule, applied, raced, ticks>>

Fill(t) ==
    /\ At(t, "fill")
    /\ IF task[t].what = "flags"
       THEN cached' = task[t].read /\ kept' = kept
       ELSE kept' = task[t].read /\ cached' = cached
    /\ IF task[t].op = "platform" THEN Goes(t, "put") ELSE Ends(t)
    /\ UNCHANGED <<failures, flag, snapshots, announcedVersion, platform, schedule, applied, raced, together, ticks>>

WithChange(t) == task[t].read \cup {t}

PutPlatform(t) ==
    /\ At(t, "put")
    /\ platform' = WithChange(t)
    /\ Goes(t, "invalidate")
    /\ UNCHANGED <<failures, flag, snapshots, cached, announcedVersion, kept, schedule, applied, raced, together, ticks>>

----------------------------------------------------------------------------
(* schedule, cancelSchedule, tick                                          *)

ScheduleFlag ==
    /\ schedule = "none" /\ schedule' = "pending"
    /\ UNCHANGED <<taskVars, flag, snapshots, cached, announcedVersion, platform, kept, applied, raced, together, ticks>>

\* By id alone, also one that is done.
CancelSchedule ==
    /\ schedule \in {"pending", "done"} /\ schedule' = "cancelled"
    /\ ticks' = (ticks \/ At_({"schedule"}) # {})
    /\ UNCHANGED <<taskVars, flag, snapshots, cached, announcedVersion, platform, kept, applied, raced, together>>

IsDue == schedule = "pending"

\* The flag is read right after the schedule: dueSchedules, getById and the read of setEnabled.
DueSchedules(t) ==
    /\ IsDue
    /\ Begins(t, [op |-> "schedule", next |-> NextVersion(flag, flag.changes \cup {t}), at |-> "replace"])
    /\ Overlapping(t, "flags")
    /\ ticks' = (ticks \/ At_({"schedule"}) # {})
    /\ UNCHANGED <<failures, flag, snapshots, cached, announcedVersion, platform, kept, schedule, applied, raced>>

MarkScheduleDone(t) ==
    /\ At(t, "mark")
    /\ schedule' = "done"
    /\ Ends(t)
    /\ UNCHANGED <<failures, flag, snapshots, cached, announcedVersion, platform, kept, applied, raced, together, ticks>>

CacheExpires ==
    /\ \/ cached # Nothing /\ cached' = Nothing /\ kept' = kept
       \/ kept # Nothing /\ kept' = Nothing /\ cached' = cached
    /\ UNCHANGED <<taskVars, flag, snapshots, announcedVersion, platform, schedule, applied, raced, together, ticks>>

\* A change that dies between its write and the drop leaves the cache behind.
FailFlag(t) ==
    /\ Fails(t)
    /\ raced' = IF At(t, "snapshot") \/ At(t, "invalidate") THEN Documents ELSE raced
    /\ UNCHANGED <<flag, snapshots, cached, announcedVersion, platform, kept, schedule, applied, together, ticks>>

\* The routes of FeatureFlagsController for a flag that is there: PATCH, enable, disable, rollout,
\* DELETE, rollback, schedule and cancel.
FlagRequests == ScheduleFlag \/ CancelSchedule \/ \E t \in Tasks : Update(t) \/ Rollback(t)

\* evaluate, evaluate/:key and the routes of the platform document.
BundleRequests == \E t \in Tasks : ReadFlags(t) \/ ReadPlatform(t)

FlagNext ==
    \/ FlagRequests \/ BundleRequests \/ CacheExpires
    \/ \E t \in Tasks :
          \/ Replace(t) \/ InsertVersion(t) \/ Invalidate(t) \/ Tell(t)
          \/ Fill(t) \/ PutPlatform(t)
          \/ DueSchedules(t) \/ MarkScheduleDone(t) \/ FailFlag(t)

----------------------------------------------------------------------------
(* A segment: createSegment, updateSegment, deleteSegment, loadSegments.  A drop of the cache for   *)
(* any other change of the scope is an expiry to it.                                               *)

VARIABLES
    segment,    \* the document: its id, which is the call that created it, and the changes in it; or Nothing
    segments,   \* what the cache lists of it, {} when it lists nothing at all
    overtaken,  \* the cache may be filled from a read that a change overtook, or outlive one that died
    clashing    \* changes of the segment that overlapped

segmentVars == <<segment, segments, overtaken, clashing>>

Writes   == {"create", "update", "delete"}

SegmentTypeOK ==
    /\ segment \in Segments \cup {Nothing} /\ segments \in SUBSET (Segments \cup {Nothing})
    /\ overtaken \in BOOLEAN /\ clashing \in SUBSET Tasks

SegmentInit == segment = Nothing /\ segments = {} /\ overtaken = FALSE /\ clashing = {}

\* A create finds none, an update and a delete find one.
GetSegment(t, op) ==
    /\ (op = "create") <=> (segment = Nothing)
    /\ Begins(t, [op |-> op, read |-> segment, at |-> "write"])
    /\ clashing' = IF At_(Writes) = {} THEN clashing ELSE clashing \cup {t} \cup At_(Writes)
    /\ UNCHANGED <<failures, segment, segments, overtaken>>

\* insertOne, which the unique key may refuse, replaceOne and deleteOne, which match the id they read.
SegmentAfter(t) ==
    LET op == task[t].op  read == task[t].read IN
    IF op = "create" THEN IF segment = Nothing THEN [id |-> t, changes |-> {t}] ELSE segment
    ELSE IF segment = Nothing \/ segment.id # read.id THEN segment
    ELSE IF op = "update" THEN [read EXCEPT !.changes = @ \cup {t}] ELSE Nothing

WriteSegment(t) ==
    /\ At(t, "write")
    /\ segment' = SegmentAfter(t)
    /\ IF task[t].op = "create" /\ segment # Nothing THEN Ends(t) ELSE Goes(t, "drop")
    /\ UNCHANGED <<failures, segments, overtaken, clashing>>

Reading == {t \in Tasks : Under(t, "list")}

DropSegments(t) ==
    /\ At(t, "drop")
    /\ segments' = {}
    /\ overtaken' = (overtaken \/ \E u \in Reading : task[u].read # segment)
    /\ Ends(t)
    /\ UNCHANGED <<failures, segment, clashing>>

LoadSegments(t) ==
    /\ segments = {}
    /\ Begins(t, [op |-> "list", read |-> segment, at |-> "keep"])
    /\ UNCHANGED <<failures, segmentVars>>

SetSegments(t) ==
    /\ At(t, "keep")
    /\ segments' = {task[t].read}
    /\ Ends(t)
    /\ UNCHANGED <<failures, segment, overtaken, clashing>>

SegmentsExpire ==
    /\ segments # {} /\ segments' = {}
    /\ UNCHANGED <<taskVars, segment, overtaken, clashing>>

FailSegment(t) ==
    /\ Fails(t)
    /\ overtaken' = (overtaken \/ At(t, "drop"))
    /\ UNCHANGED <<segment, segments, clashing>>

\* The routes of the segments.
SegmentRequests(t) == \E op \in Writes : GetSegment(t, op)

SegmentNext ==
    \/ SegmentsExpire
    \/ \E t \in Tasks : \/ SegmentRequests(t) \/ WriteSegment(t) \/ DropSegments(t)
                        \/ LoadSegments(t) \/ SetSegments(t) \/ FailSegment(t)

----------------------------------------------------------------------------
(* Properties                                                              *)

\* A version number names one content of the flag, so that a rollback to it restores that, unless
\* changes of the flag overlapped or one died.  About commit, which counts from what it had read.
VersionsNameContents ==
    \A a, b \in snapshots \cup {flag} :
       a.version = b.version /\ a # b => together["flags"] # {} \/ failures > 0

\* Once a version is announced no older one is cached, unless a load had read the flag before the
\* change, changes overlapped, or one died before the drop.  About commit, which drops the cache
\* and then announces, and loadFlags.
CacheFollowsEvents ==
    cached # Nothing /\ cached.version < announcedVersion => "flags" \in raced \/ together["flags"] # {}

\* A change of the platform document that finished is in it, unless it overlapped another or one
\* started from a cached document that a load had filled with an old one.  About setMaintenance and
\* setAnnouncement, which start from the cache and write the whole document.
PlatformChangesStay ==
    \A t \in Tasks : Over(t, "platform") /\ t \notin platform => t \in together["platform"] \/ "platform" \in raced

\* The schedule is applied twice only if ticks overlapped, a cancel met a tick at work, or a tick
\* died before it marked the schedule.  About tick, which claims nothing.
ScheduleAppliedOnce ==
    applied > 1 => ticks \/ failures > 0

HasDeleted(t) == Over(t, "delete") \/ (Under(t, "delete") /\ At(t, "drop"))

\* With no change of the segment under way, the cache lists it as it is, unless a load had read it
\* before a change, or one died before the drop; and it holds every update that was answered, unless
\* changes overlapped, one died, or a delete has reached the collection since.  About the three calls, which write and then drop what
\* evaluations use for five minutes.
SegmentsFollow ==
    /\ At_(Writes) = {} /\ segments \notin {{}, {segment}} => overtaken
    /\ \A t \in Tasks : Over(t, "update") /\ segment # Nothing /\ t \notin segment.changes =>
           t \in clashing \/ failures > 0 \/ \E u \in Tasks : HasDeleted(u)

\* Versions, caches, the platform document, the schedule and the segment.
ChangesAreKept ==
    /\ VersionsNameContents
    /\ CacheFollowsEvents
    /\ PlatformChangesStay
    /\ ScheduleAppliedOnce
    /\ SegmentsFollow
=============================================================================
