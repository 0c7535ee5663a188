--------------------------------- MODULE Media ---------------------------------
(***************************************************************************)
(* Media objects (MediaService over MediaRepository and the object          *)
(* storage).  Every upload here carries the same bytes, so that they meet:  *)
(* a buffered upload stores them once for all rows, under their hash, and a *)
(* streamed one under the id of its row.  Of the renditions only that they   *)
(* are told of is here.                                                     *)
(*                                                                         *)
(* And the uploads of encrypted backups of one account, which the feature   *)
(* stores beside them (BackupService.upload over BackupRepository).         *)
(*                                                                         *)
(* Status posts (StatusService, StatusRepository and StatusExpiryWorker):   *)
(* posting, viewing and removing against the ticks that mark the rows whose *)
(* time is up, tell about each and delete the old ones.  The throttle fails *)
(* open and the audience is a choice.                                       *)
(***************************************************************************)
EXTENDS Tasks

CONSTANTS Media,    \* the ids
          ByHash,   \* the key of the bytes' hash; a streamed upload's key is its id
          NoKey,
          NoUpload

ObjectKeys == Media \cup {ByHash}

ASSUME MediaAssumption == /\ ByHash \notin Media /\ NoKey \notin ObjectKeys
                          /\ IsFiniteSet(Tasks) /\ NoUpload \notin Tasks

VARIABLES
    objects,    \* media_objects: status, key (storage_key), once (view_once), viewed (viewed_at is set)
    blobs,      \* the keys with an object
    purgedUnder,    \* rows with an upload that met a purge of the same key
    trusting,   \* rows whose upload believed a row that has its own bytes elsewhere, or has lost them
    restarted,  \* rows uploaded to again
    fileEvent,  \* the last event about each row
    busy        \* rows with two calls at once

mediaVars == <<objects, blobs, purgedUnder, trusting, restarted, fileEvent, busy>>

NoRow == [status |-> "absent", key |-> NoKey, once |-> FALSE, viewed |-> FALSE]

Uploads == {"completeUpload", "streamUpload"}
IsUpload(t) == \E op \in Uploads : Under(t, op)
KeyOf(op, m) == IF op = "streamUpload" THEN m ELSE ByHash

\* A row has lost its bytes when nothing is stored under its key.
Lost(m) == objects[m].status = "ready" /\ objects[m].key \notin blobs

MediaTypeOK ==
    /\ objects \in [Media -> [status : {"absent", "pending", "ready", "deleted"}, key : ObjectKeys \cup {NoKey},
                           once : BOOLEAN, viewed : BOOLEAN]]
    /\ blobs \in SUBSET ObjectKeys
    /\ \A S \in {purgedUnder, trusting, restarted, busy} : S \in SUBSET Media
    /\ fileEvent \in [Media -> {"none", "uploaded", "transcoded", "deleted"}]

MediaInit ==
    /\ objects = [m \in Media |-> NoRow]
    /\ blobs = {}
    /\ purgedUnder = {} /\ trusting = {} /\ restarted = {} /\ busy = {}
    /\ fileEvent = [m \in Media |-> "none"]

IsRow(m)   == objects[m].status \in {"pending", "ready"}
IsReady(m) == objects[m].status = "ready"

----------------------------------------------------------------------------
(* Uploads: initUpload, completeUpload, streamUpload                       *)

InitUpload(m, once) ==
    /\ objects[m] = NoRow
    /\ objects' = [objects EXCEPT ![m] = [@ EXCEPT !.status = "pending", !.once = once]]
    /\ UNCHANGED <<taskVars, blobs, purgedUnder, trusting, restarted, fileEvent, busy>>

Purged == {task[t].key : t \in {u \in Tasks : Under(u, "purge")}}
Purging(m) == \E t \in Tasks : Under(t, "purge") /\ task[t].m = m

OnRow(m)   == \E t \in Tasks, op \in Uploads \cup {"purge", "transcode"} : Under(t, op) /\ task[t].m = m
Meeting(m) == busy' = IF OnRow(m) THEN busy \cup {m} ELSE busy

\* findById; the row may be pending or ready.
BeginUpload(t, m, op) ==
    /\ IsRow(m)
    /\ Begins(t, [op |-> op, m |-> m, key |-> KeyOf(op, m), at |-> IF op = "streamUpload" THEN "stream" ELSE "dedup"])
    /\ purgedUnder' = IF KeyOf(op, m) \in Purged \/ Purging(m) THEN purgedUnder \cup {m} ELSE purgedUnder
    /\ restarted' = IF IsReady(m) \/ \E u \in Tasks : IsUpload(u) /\ task[u].m = m THEN restarted \cup {m} ELSE restarted
    /\ Meeting(m)
    /\ UNCHANGED <<failures, objects, blobs, trusting, fileEvent>>

\* Any ready row with these bytes will do.
FindByHash(t) ==
    /\ At(t, "dedup")
    /\ LET found == {n \in Media : IsReady(n)}  m == task[t].m IN
          \/ /\ found = {}
             /\ Goes(t, "exists")
             /\ UNCHANGED trusting
          \/ /\ found # {}
             /\ Goes(t, "mark")
             /\ trusting' = IF ByHash \in blobs THEN trusting ELSE trusting \cup {m}
    /\ UNCHANGED <<failures, objects, blobs, purgedUnder, restarted, fileEvent, busy>>

Exists(t) ==
    /\ At(t, "exists")
    /\ Goes(t, IF ByHash \in blobs THEN "mark" ELSE "put")
    /\ UNCHANGED <<failures, mediaVars>>

\* putObject, or a stream that ends well.
PutObject(t) ==
    /\ At(t, "put") \/ At(t, "stream")
    /\ blobs' = blobs \cup {task[t].key}
    /\ Goes(t, "mark")
    /\ UNCHANGED <<failures, objects, purgedUnder, trusting, restarted, fileEvent, busy>>

\* A stream that breaks, is too large or empty; the clean-up may fail too, over what was there or was put.
StreamBreaks(t) ==
    /\ At(t, "stream")
    /\ blobs' \in {blobs \ {task[t].key}, blobs, blobs \cup {task[t].key}}
    /\ restarted' = restarted \cup {task[t].m}
    /\ Ends(t)
    /\ UNCHANGED <<failures, objects, purgedUnder, trusting, fileEvent, busy>>

\* No row is updated once it is deleted.
MarkReady(t) ==
    /\ At(t, "mark")
    /\ objects' = IF IsRow(task[t].m) THEN [objects EXCEPT ![task[t].m].status = "ready", ![task[t].m].key = task[t].key]
                                   ELSE objects
    /\ Goes(t, "told")
    /\ UNCHANGED <<failures, blobs, purgedUnder, trusting, restarted, fileEvent, busy>>

----------------------------------------------------------------------------
(* deleteMedia and consumeViewOnce, which end in purge                     *)

\* Uploads to the row, or of the bytes under its key, that are under way.
Meets(m, key) == {task[t].m : t \in {u \in Tasks : IsUpload(u) /\ (task[u].key = key \/ task[u].m = m)}}

\* The row as findById returned it is the one that is purged.
BeginDelete(t, m) ==
    /\ IsRow(m)
    /\ Begins(t, [op |-> "purge", m |-> m, key |-> objects[m].key, at |-> "row"])
    /\ purgedUnder' = purgedUnder \cup Meets(m, objects[m].key)
    /\ Meeting(m)
    /\ UNCHANGED <<failures, objects, blobs, trusting, restarted, fileEvent>>

BeginConsume(t, m) ==
    /\ IsReady(m) /\ objects[m].once
    /\ Begins(t, [op |-> "purge", m |-> m, key |-> objects[m].key, at |-> "claim"])
    /\ purgedUnder' = purgedUnder \cup Meets(m, objects[m].key)
    /\ Meeting(m)
    /\ UNCHANGED <<failures, objects, blobs, trusting, restarted, fileEvent>>

ClaimViewOnce(t) ==
    /\ At(t, "claim")
    /\ LET m == task[t].m IN
       IF IsRow(m) /\ ~objects[m].viewed
       THEN objects' = [objects EXCEPT ![m].viewed = TRUE] /\ Goes(t, "row")
       ELSE Ends(t) /\ UNCHANGED objects
    /\ UNCHANGED <<failures, blobs, purgedUnder, trusting, restarted, fileEvent, busy>>

DeleteRow(t) ==
    /\ At(t, "row")
    /\ objects' = [objects EXCEPT ![task[t].m].status = "deleted"]
    /\ Goes(t, IF task[t].key = NoKey THEN "told" ELSE "count")
    /\ UNCHANGED <<failures, blobs, purgedUnder, trusting, restarted, fileEvent, busy>>

OthersByStorageKey(m, key) == {n \in Media \ {m} : IsRow(n) /\ objects[n].key = key}

CountOthers(t) ==
    /\ At(t, "count")
    /\ IF OthersByStorageKey(task[t].m, task[t].key) = {} THEN Goes(t, "blob") ELSE Goes(t, "told")
    /\ UNCHANGED <<failures, mediaVars>>

DeleteObject(t) ==
    /\ At(t, "blob")
    /\ blobs' = blobs \ {task[t].key}
    /\ Goes(t, "told")
    /\ UNCHANGED <<failures, objects, purgedUnder, trusting, restarted, fileEvent, busy>>

----------------------------------------------------------------------------
(* applyRenditions, and the events                                         *)

\* The write between the two reads of the row changes nothing here.
BeginTranscode(t, m) ==
    /\ IsRow(m)
    /\ Begins(t, [op |-> "transcode", m |-> m, at |-> "reread"])
    /\ Meeting(m)
    /\ UNCHANGED <<failures, objects, blobs, purgedUnder, trusting, restarted, fileEvent>>

\* A row that is gone by now has no fields to tell.
ReadAgain(t) ==
    /\ At(t, "reread")
    /\ IF IsRow(task[t].m) THEN Goes(t, "told") ELSE Ends(t)
    /\ UNCHANGED <<failures, mediaVars>>

FileEventOf(op) == CASE op \in Uploads -> "uploaded" [] op = "transcode" -> "transcoded" [] op = "purge" -> "deleted"

TellFile(t) ==
    /\ At(t, "told")
    /\ fileEvent' = [fileEvent EXCEPT ![task[t].m] = FileEventOf(task[t].op)]
    /\ Ends(t)
    /\ UNCHANGED <<failures, objects, blobs, purgedUnder, trusting, restarted, busy>>

FailMedia(t) == Fails(t) /\ UNCHANGED mediaVars

\* The routes of MediaController for uploads.
UploadRequests ==
    \E m \in Media : \/ \E once \in BOOLEAN : InitUpload(m, once)
                     \/ \E t \in Tasks, op \in Uploads : BeginUpload(t, m, op)

\* The routes that take a stored object away: the only view of a view-once object, and a delete.
RemovalRequests == \E t \in Tasks, m \in Media : BeginDelete(t, m) \/ BeginConsume(t, m)

\* And the one that writes the renditions back.
RenditionRequests == \E t \in Tasks, m \in Media : BeginTranscode(t, m)

MediaNext ==
    \/ UploadRequests \/ RemovalRequests \/ RenditionRequests
    \/ \E t \in Tasks :
          \/ FindByHash(t) \/ Exists(t) \/ PutObject(t) \/ StreamBreaks(t) \/ MarkReady(t)
          \/ ClaimViewOnce(t) \/ DeleteRow(t) \/ CountOthers(t) \/ DeleteObject(t)
          \/ ReadAgain(t) \/ TellFile(t) \/ FailMedia(t)

----------------------------------------------------------------------------
(* Encrypted backups: the version is read, the ciphertext stored under it, and the row with the    *)
(* salt inserted                                                           *)

VARIABLES
    backups,    \* e2ee_backups: the upload whose salt each version has
    ciphers,    \* the upload whose ciphertext is under each version's key
    alongside     \* uploads that ran while another did

backupVars == <<backups, ciphers, alongside>>

BackupVersions == 1..Cardinality(Tasks)
Uploading == {t \in Tasks : Under(t, "upload")}

BackupTypeOK ==
    /\ backups \in [BackupVersions -> Tasks \cup {NoUpload}]
    /\ ciphers \in [BackupVersions -> Tasks \cup {NoUpload}]
    /\ alongside \in SUBSET Tasks

BackupInit ==
    /\ backups = [v \in BackupVersions |-> NoUpload]
    /\ ciphers = [v \in BackupVersions |-> NoUpload]
    /\ alongside = {}

IsVersion(v) == backups[v] # NoUpload

\* Mutant: the latest version, not the one after it.
LatestVersion == CHOOSE v \in BackupVersions : /\ IsVersion(v) \/ v = 1
                                         /\ \A w \in BackupVersions : IsVersion(w) => w <= v

VersionAfter == CHOOSE v \in BackupVersions : ~IsVersion(v) /\ \A w \in 1..(v - 1) : IsVersion(w)

BeginBackup(t) ==
    /\ Begins(t, [op |-> "upload", version |-> VersionAfter, at |-> "object"])
    /\ alongside' = IF Uploading = {} THEN alongside ELSE alongside \cup Uploading \cup {t}
    /\ UNCHANGED <<failures, backups, ciphers>>

PutBackup(t) ==
    /\ At(t, "object")
    /\ ciphers' = [ciphers EXCEPT ![task[t].version] = t]
    /\ Goes(t, "insert")
    /\ UNCHANGED <<failures, backups, alongside>>

\* (account_id, version) is unique: the insert of a version that is there rejects.
InsertBackup(t) ==
    /\ At(t, "insert")
    /\ IF IsVersion(task[t].version)
       THEN UNCHANGED backups
       ELSE backups' = [backups EXCEPT ![task[t].version] = t]
    /\ Ends(t)
    /\ UNCHANGED <<failures, ciphers, alongside>>

FailBackup(t) == Fails(t) /\ UNCHANGED backupVars

BackupNext ==
    \E t \in Tasks : BeginBackup(t) \/ PutBackup(t) \/ InsertBackup(t) \/ FailBackup(t)

----------------------------------------------------------------------------
(* Status posts                                                            *)

CONSTANT Posts

VARIABLES
    posts,      \* status_posts: the state of each; a purged row keeps its last one here
    due,        \* expires_at has passed
    purged,     \* rows deleted for good
    views,      \* status_views and status_reactions, of one viewer
    told,       \* how often status.expired was published for each
    untold      \* publishing it was refused

statusVars == <<posts, due, purged, views, told, untold>>

Marks == {"view", "react"}

StatusTypeOK ==
    /\ posts \in [Posts -> {"none", "active", "expired", "deleted"}]
    /\ \A S \in {due, purged, untold} : S \in SUBSET Posts
    /\ views \in SUBSET (Posts \X Marks)
    /\ told \in [Posts -> 0..Cardinality(Tasks)]

StatusInit ==
    /\ posts = [s \in Posts |-> "none"]
    /\ due = {} /\ purged = {} /\ untold = {}
    /\ views = {}
    /\ told = [s \in Posts |-> 0]

----------------------------------------------------------------------------
(* The calls                                                               *)

\* status.posted, published after the insert, is left out.
Post(s) ==
    /\ posts[s] = "none"
    /\ posts' = [posts EXCEPT ![s] = "active"]
    /\ UNCHANGED <<taskVars, due, purged, views, told, untold>>

TimeIsUp(s) ==
    /\ posts[s] # "none" /\ s \notin due
    /\ due' = due \cup {s}
    /\ UNCHANGED <<taskVars, posts, purged, views, told, untold>>

\* findActive, which every reader goes through.
Visible(s) == posts[s] = "active" /\ s \notin due

BeginMark(t, s, op) ==
    /\ Visible(s)
    /\ Begins(t, [op |-> op, s |-> s, at |-> "relationship"])
    /\ UNCHANGED <<failures, statusVars>>

Relationship(t) ==
    /\ At(t, "relationship")
    /\ Goes(t, "mark") \/ Ends(t)
    /\ UNCHANGED <<failures, statusVars>>

\* A purged row is no longer there to refer to: the insert rejects.
RecordMark(t) ==
    /\ At(t, "mark")
    /\ views' = IF task[t].s \in purged THEN views ELSE views \cup {<<task[t].s, task[t].op>>}
    /\ Ends(t)
    /\ UNCHANGED <<failures, posts, due, purged, told, untold>>

\* A post whose time is up can be removed until a tick marks it.
Remove(s) ==
    /\ posts[s] = "active"
    /\ posts' = [posts EXCEPT ![s] = "deleted"]
    /\ UNCHANGED <<taskVars, due, purged, views, told, untold>>

----------------------------------------------------------------------------
(* A tick of the worker; those of two replicas overlap                     *)

ToExpire == {s \in due : posts[s] = "active"}

\* As many as the batch holds, and none that another tick is marking.
MarkExpired(t) ==
    /\ \E D \in SUBSET ToExpire :
          /\ D # {} \/ ToExpire = {}
          /\ posts' = [s \in Posts |-> IF s \in D THEN "expired" ELSE posts[s]]
          /\ Begins(t, [op |-> "expire", left |-> D, at |-> IF D = {} THEN "purge" ELSE "tell"])
    /\ UNCHANGED <<failures, due, purged, views, told, untold>>

\* A publish that is refused is logged and the tick goes on.
StatusExpired(t) ==
    /\ At(t, "tell")
    /\ \E s \in task[t].left :
          /\ GoesWith(t, "left", task[t].left \ {s}, IF task[t].left = {s} THEN "purge" ELSE "tell")
          /\ \/ told' = [told EXCEPT ![s] = @ + 1] /\ UNCHANGED untold
             \/ untold' = untold \cup {s} /\ UNCHANGED told
    /\ UNCHANGED <<failures, posts, due, purged, views>>

\* The rows past the grace window, with their views.
PurgeAfterGrace(t) ==
    /\ At(t, "purge")
    /\ \E G \in SUBSET {s \in due : posts[s] \in {"expired", "deleted"}} :
          /\ purged' = purged \cup G
          /\ views' = {v \in views : v[1] \notin G}
    /\ Ends(t)
    /\ UNCHANGED <<failures, posts, due, told, untold>>

FailStatus(t) == Fails(t) /\ UNCHANGED statusVars

\* The routes of StatusController that write.
StatusRequests == \E s \in Posts : \/ Post(s) \/ Remove(s)
                                  \/ \E t \in Tasks, op \in Marks : BeginMark(t, s, op)

StatusNext ==
    \/ StatusRequests
    \/ \E s \in Posts : TimeIsUp(s)
    \/ \E t \in Tasks : \/ Relationship(t) \/ RecordMark(t)
                        \/ MarkExpired(t) \/ StatusExpired(t) \/ PurgeAfterGrace(t)
                        \/ FailStatus(t)

----------------------------------------------------------------------------
(* Properties                                                              *)

\* "If these exact bytes are already stored, reuse the key": a ready row has its bytes, unless an
\* upload to it met a purge of the same key or it was uploaded to again.  About completeUpload,
\* which also takes a streamed row for a proof that something is stored under the hash.
ReusedKeyHasTheBytes ==
    \A m \in Media \ (purgedUnder \cup restarted) : ~Lost(m)

\* The same, but for the rows that trusted another.  About purge, which must count every row that
\* shares a key, also one whose upload has only just ended.
ReadyHasItsBytes ==
    \A m \in Media \ (purgedUnder \cup restarted \cup trusting) : ~Lost(m)

\* "Removed from storage only when no OTHER row references it", and then it is: with no call under
\* way, bytes that no row has are left only by a fault, by an upload that met a purge or by a
\* second upload to one row.  About deleteById before countOthersByStorageKey, in that order.
UnreferencedIsRemoved ==
    (\A t \in Tasks : task[t].at \in {"new", "over", "failed"}) /\ failures = 0 /\ purgedUnder = {} /\ restarted = {} =>
        \A k \in blobs : \E m \in Media : IsReady(m) /\ objects[m].key = k

\* With no call under way, the last event about a file that is there tells that it came, and about
\* one that is gone that it went, unless two calls of the file overlapped or one failed.  About the
\* events of the three calls, each published last: a consumer that follows them would else keep a
\* reference to nothing.
FileEventsFollow ==
    \A m \in Media \ busy :
       ~OnRow(m) /\ failures = 0 =>
          /\ IsReady(m) => fileEvent[m] \in {"uploaded", "transcoded"}
          /\ objects[m].status = "deleted" => fileEvent[m] = "deleted"

\* Every row has its bytes, the bytes a row, and the events the row.
BytesFollowRows ==
    /\ ReadyHasItsBytes
    /\ UnreferencedIsRemoved
    /\ FileEventsFollow

\* "Each upload is a new version; restore fetches the latest ciphertext + salt": what is under a
\* version's key was encrypted with the salt in its row.  About upload, which stores before it
\* knows that the version is its own.
SaltOpensTheBackup ==
    \A v \in BackupVersions : IsVersion(v) => ciphers[v] = backups[v]

\* The same, unless uploads overlapped: an upload that fails half-way leaves bytes that the next one
\* of that version replaces.  About nextVersion and the unique constraint.
SaltMismatchOnlyByOverlap ==
    \A v \in BackupVersions : IsVersion(v) /\ ciphers[v] # backups[v] => {ciphers[v], backups[v]} \subseteq alongside

Telling == UNION {task[t].left : t \in {u \in Tasks : Under(u, "expire")}}

\* Each post that expired, and no post that its author removed, is told about: at most once, and
\* not at all only if publishing was refused or a tick died.  About markExpired, which takes a row
\* once however many ticks there are, and softDelete, which may come between.
ExpiryToldOnce ==
    \A s \in Posts :
       /\ told[s] <= 1
       /\ told[s] = 1 => posts[s] = "expired"
       /\ posts[s] = "expired" => told[s] = 1 \/ s \in Telling \cup untold \/ failures > 0

\* "A re-run is a no-op and a crash mid-pass loses nothing": a post that expired is told about, has
\* still to be, or publishing it was refused.  About markExpired, after which no later tick finds
\* the row, and tick, which tells afterwards.
CrashLosesNothing ==
    \A s \in Posts : posts[s] = "expired" => told[s] >= 1 \/ s \in Telling \cup untold

\* What is kept for a while: a media object follows its rows, a backup opens with its salt, and the
\* end of a status is told once (media.service.ts:283, backup.service.ts:31, status.expiry.worker.ts:56).
ContentHolds == BytesFollowRows /\ SaltMismatchOnlyByOverlap /\ ExpiryToldOnce
=============================================================================
