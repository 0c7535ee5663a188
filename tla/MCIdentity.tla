------------------------------- MODULE MCIdentity -------------------------------
(***************************************************************************)
(* The parts of feature-auth, those of feature-user with several actors, the *)
(* questions that services ask each other, the feature flags, media and      *)
(* statuses, which share no row and no key but the discovery token: each behaviour runs one  *)
(* of them with three calls of any kind, one of which may fail.             *)
(***************************************************************************)
EXTENDS Sessions, Accounts, Otp, Recovery, Devices, Directory, ServiceCalls, Flags, Media

CONSTANTS t1, t2, t3, p1, p2, d1, d2, u1, u2

VARIABLE part

Parts == {"sessions", "accounts", "otp", "recovery", "passkeys", "devices", "discovery", "organizations",
          "keys", "questions", "flags", "segments", "media", "backups", "statuses"}

MCTasks     == {t1, t2, t3}
MCPhones    == {p1, p2}
MCDeviceIds == {d1, d2}
MCUsers     == {u1, u2}
MCFactors   == {"backup-code", "passkey"}

\* No definition tells two calls apart.
Symmetry == Permutations(MCTasks)

\* A part that does not run has one initial state.
MCInit ==
    /\ part \in Parts
    /\ TasksInit /\ SessInit /\ AccInit /\ OtpInit /\ RecInit /\ PkInit /\ DevInit /\ DiscInit /\ OrgInit /\ ServiceInit
    /\ FlagInit /\ SegmentInit /\ MediaInit /\ BackupInit /\ StatusInit
    /\ part = "accounts" \/ \A v \in Values : owner[v] = Nobody
    /\ part = "otp" \/ ~devPhone
    /\ part = "recovery" \/ request[Earlier].factors = {}
    /\ part = "passkeys" \/ key = 0
    /\ part = "discovery" \/ activeKey = 0
    /\ config \in IF part \in {"keys", "questions"} THEN {{}, {"insecure"}} ELSE {{}}

Rest(p) ==
    /\ part = p /\ UNCHANGED part
    /\ IF p = "sessions" THEN TRUE ELSE UNCHANGED sessVars
    /\ IF p = "accounts" THEN TRUE ELSE UNCHANGED accVars
    /\ IF p = "otp" THEN TRUE ELSE UNCHANGED otpVars
    /\ IF p = "recovery" THEN TRUE ELSE UNCHANGED recVars
    /\ IF p = "passkeys" THEN TRUE ELSE UNCHANGED pkVars
    /\ IF p = "devices" THEN TRUE ELSE UNCHANGED devVars
    /\ IF p = "discovery" THEN TRUE ELSE UNCHANGED discVars
    /\ IF p = "organizations" THEN TRUE ELSE UNCHANGED orgVars
    /\ IF p \in {"keys", "questions"} THEN TRUE ELSE UNCHANGED serviceVars
    /\ IF p = "flags" THEN TRUE ELSE UNCHANGED flagVars
    /\ IF p = "segments" THEN TRUE ELSE UNCHANGED segmentVars
    /\ IF p = "media" THEN TRUE ELSE UNCHANGED mediaVars
    /\ IF p = "backups" THEN TRUE ELSE UNCHANGED backupVars
    /\ IF p = "statuses" THEN TRUE ELSE UNCHANGED statusVars

\* Two questions of one kind, about the rows they ask for.
OneKind ==
    /\ Cardinality({t \in Tasks : task'[t] # New}) <= 2
    /\ \A t, u \in Tasks : New \in {task'[t], task'[u]} \/ task'[t].op = task'[u].op
    /\ row'["members"] = row["members"] \/ \A t \in Tasks : task[t] = New \/ task[t].op = "isMember"

\* Bounds on the calls, where three of any kind make more states than they show.
Calling(S)   == Cardinality({t \in Tasks : task'[t] # New /\ (task'[t] = Failed \/ task'[t].op \in S)})
TwoChanges   == Calling(Changing \cup {"platform"}) <= 2
OneTranscode == Calling({"transcode"}) <= 1

RunSessions      == part = "sessions" /\ SessNext /\ Rest("sessions")
RunAccounts      == part = "accounts" /\ AccNext /\ Rest("accounts")
RunOtp           == part = "otp" /\ OtpNext /\ Rest("otp")
RunRecovery      == part = "recovery" /\ RecNext /\ Rest("recovery")
RunPasskeys      == part = "passkeys" /\ PkNext /\ Rest("passkeys")
RunDevices       == part = "devices" /\ DevNext /\ Rest("devices")
RunDiscovery     == part = "discovery" /\ DiscNext /\ Rest("discovery")
RunOrganizations == part = "organizations" /\ OrgNext /\ Rest("organizations")
RunKeys          == part = "keys" /\ KeysNext /\ Rest("keys")
RunQuestions     == part = "questions" /\ QuestionsNext /\ Rest("questions") /\ OneKind
RunFlags         == part = "flags" /\ FlagNext /\ Rest("flags") /\ TwoChanges
RunSegments      == part = "segments" /\ SegmentNext /\ Rest("segments")
RunMedia         == part = "media" /\ MediaNext /\ Rest("media") /\ OneTranscode
RunBackups       == part = "backups" /\ BackupNext /\ Rest("backups")
RunStatuses      == part = "statuses" /\ StatusNext /\ Rest("statuses")

MCNext ==
    \/ RunSessions \/ RunAccounts \/ RunOtp \/ RunRecovery \/ RunPasskeys \/ RunDevices
    \/ RunDiscovery \/ RunOrganizations \/ RunKeys \/ RunQuestions \/ RunFlags \/ RunSegments
    \/ RunMedia \/ RunBackups \/ RunStatuses

MCSpec == MCInit /\ [][MCNext]_<<part, taskVars, sessVars, accVars, otpVars, recVars, pkVars, devVars, discVars, orgVars, serviceVars,
                                   flagVars, segmentVars, mediaVars, backupVars, statusVars>>

\* Every part's variables keep their types.
Typed ==
    /\ SessTypeOK /\ AccTypeOK /\ OtpTypeOK /\ RecTypeOK /\ PkTypeOK /\ DevTypeOK
    /\ DiscTypeOK /\ OrgTypeOK /\ ServiceTypeOK /\ FlagTypeOK /\ SegmentTypeOK
    /\ MediaTypeOK /\ BackupTypeOK /\ StatusTypeOK
===============================================================================
