------------------------------- MODULE Directory -------------------------------
(***************************************************************************)
(* Private contact discovery of one number: the OPRF keys, the registered   *)
(* tokens and the contact edges, written by OprfService and, when a number  *)
(* logs in, by AuthService.registerForDiscovery.                            *)
(*                                                                         *)
(* The token of the number under a key is the key's version.  An owner is   *)
(* an account that has the number in its address book; evaluation, batches  *)
(* and rate limits change no state.                                         *)
(*                                                                         *)
(* An organisation: who is in it with which role (TenancyService over       *)
(* TenancyRepository), and its retention policy, which only admins set and  *)
(* which is audited (AdminService over AdminRepository).  Every operation   *)
(* checks the actor's role in one statement and writes in others.           *)
(*                                                                         *)
(* One organisation; a workspace or a team is made in the same way.  The    *)
(* policy is a member of Policies; an export and the lists only read.       *)
(***************************************************************************)
EXTENDS Tasks, FiniteSetsExt

CONSTANTS Owners, Registrants, Unlisted,
          MaxVersion    \* bound on the key rotations

ASSUME DirectoryAssumption == MaxVersion \in Nat \ {0}

VARIABLES
    keys,       \* oprf_keys: the versions there are
    activeKey,  \* the one with is_active, or 0
    known,      \* oprf_discoverable: token -> account, or Unlisted
    edge,       \* contact_edges: owner, token -> "none", Unlisted (not linked), or account
    notified,       \* owners contact.registered was published for
    linked,     \* <<owner, token, account>>: an edge that linkContactEdges changed
    mingled,    \* tokens with an edge or a registration written under another of them
    optedIn     \* tokens registered by the client itself, or removed: nothing is linked then

discVars == <<keys, activeKey, known, edge, notified, linked, mingled, optedIn>>

Versions == 1..MaxVersion

DiscTypeOK ==
    /\ keys \in SUBSET Versions /\ activeKey \in keys \cup {0}
    /\ known \in [Versions -> Registrants \cup {Unlisted}]
    /\ edge \in [Owners \X Versions -> Registrants \cup {Unlisted, "none"}]
    /\ {mingled, optedIn} \subseteq SUBSET Versions

\* Before the first key, or with it.
DiscInit ==
    /\ activeKey \in {0, 1} /\ keys = 1..activeKey
    /\ known = [v \in Versions |-> Unlisted]
    /\ edge = [e \in Owners \X Versions |-> "none"]
    /\ notified = {} /\ linked = {} /\ mingled = {} /\ optedIn = {}

----------------------------------------------------------------------------
(* Keys                                                                    *)

\* rotateKey and the first boot.  The version is read, or is 1; then one transaction, which the
\* primary key refuses when the version is there.
ReadVersion(t) ==
    /\ \/ Begins(t, [op |-> "rotate", version |-> Max(keys \cup {0}) + 1, at |-> "insertKey"])
       \/ activeKey = 0 /\ Begins(t, [op |-> "rotate", version |-> 1, at |-> "insertKey"])
    /\ UNCHANGED <<failures, discVars>>

InsertKey(t) ==
    /\ At(t, "insertKey")
    /\ task[t].version \in Versions
    /\ IF task[t].version \in keys THEN Goes(t, "failed") /\ UNCHANGED <<keys, activeKey>>
       ELSE /\ keys' = keys \cup {task[t].version}
            /\ activeKey' = task[t].version
            /\ Goes(t, "over")
    /\ UNCHANGED <<failures, known, edge, notified, linked, mingled, optedIn>>

----------------------------------------------------------------------------
(* Registration of the number                                              *)

Registering(v) == {u \in Tasks : task[u].at \in {"token", "link"} /\ task[u].version = v}
Inserting(v)   == {u \in Tasks : At(u, "insertEdge") /\ task[u].version = v}

\* registerForDiscovery: getActiveOprfKey.
ReadKey(t) ==
    /\ \E a \in Registrants :
          Begins(t, [op |-> "login", account |-> a, version |-> activeKey,
                     at |-> IF activeKey = 0 THEN "over" ELSE "token"])
    /\ UNCHANGED <<failures, discVars>>

Cross(t, v) == mingled' = IF (Registering(v) \cup Inserting(v)) \ {t} # {} THEN mingled \cup {v} ELSE mingled

RegisterOprfToken(t) ==
    /\ At(t, "token")
    /\ known' = [known EXCEPT ![task[t].version] = task[t].account]
    /\ Cross(t, task[t].version)
    /\ Goes(t, "link")
    /\ UNCHANGED <<failures, keys, activeKey, edge, notified, linked, optedIn>>

\* Mutant: only the edges without a peer.
Unlinked(v, a) == {o \in Owners : edge[<<o, v>>] = Unlisted}

\* peer_id IS DISTINCT FROM the account
Distinct(v, a) == {o \in Owners : edge[<<o, v>>] \notin {"none", a}}

LinkContactEdges(t) ==
    /\ At(t, "link")
    /\ LET v == task[t].version
           a == task[t].account
           O == Distinct(v, a) IN
       /\ edge' = [e \in Owners \X Versions |-> IF e[2] = v /\ e[1] \in O THEN a ELSE edge[e]]
       /\ linked' = linked \cup {<<o, v, a>> : o \in O}
       /\ GoesWith(t, "owners", O, "publish")
       /\ Cross(t, v)
    /\ UNCHANGED <<failures, keys, activeKey, known, notified, optedIn>>

ToNotify(t) == {<<o, task[t].version, task[t].account>> : o \in task[t].owners}

PublishLinked(t) ==
    /\ At(t, "publish")
    /\ notified' = notified \cup ToNotify(t)
    /\ Goes(t, "over")
    /\ UNCHANGED <<failures, keys, activeKey, known, edge, linked, mingled, optedIn>>

\* The client's own register and unregister: one statement each, and no edges.
Register(t) ==
    /\ \E v \in keys, a \in Registrants :
          /\ known' = [known EXCEPT ![v] = a]
          /\ optedIn' = optedIn \cup {v}
    /\ Begins(t, [op |-> "register", at |-> "over"])
    /\ UNCHANGED <<failures, keys, activeKey, edge, notified, linked, mingled>>

Unregister(t) ==
    /\ \E a \in Registrants :
          /\ known' = [v \in Versions |-> IF known[v] = a THEN Unlisted ELSE known[v]]
          /\ optedIn' = optedIn \cup {v \in Versions : known[v] = a}
    /\ Begins(t, [op |-> "unregister", at |-> "over"])
    /\ UNCHANGED <<failures, keys, activeKey, edge, notified, linked, mingled>>

----------------------------------------------------------------------------
(* registerEdges: one statement, which resolves the peer from what was      *)
(* committed when it began                                                  *)

SnapshotPeer(t) ==
    /\ \E o \in Owners, v \in keys :
          Begins(t, [op |-> "edges", owner |-> o, version |-> v, peer |-> known[v], at |-> "insertEdge"])
    /\ UNCHANGED <<failures, discVars>>

Peer(t) == task[t].peer

InsertEdge(t) ==
    /\ At(t, "insertEdge")
    /\ edge' = [edge EXCEPT ![<<task[t].owner, task[t].version>>] = Peer(t)]
    /\ Cross(t, task[t].version)
    /\ Goes(t, "over")
    /\ UNCHANGED <<failures, keys, activeKey, known, notified, linked, optedIn>>

\* The routes of OprfController that write.
DiscRequests(t) == ReadVersion(t) \/ Register(t) \/ Unregister(t) \/ SnapshotPeer(t)

DiscNext ==
    \E t \in Tasks :
       \/ DiscRequests(t)
       \/ InsertKey(t)
       \/ ReadKey(t) \/ RegisterOprfToken(t) \/ LinkContactEdges(t) \/ PublishLinked(t)
       \/ InsertEdge(t)
       \/ Fails(t) /\ UNCHANGED discVars

----------------------------------------------------------------------------
(* An organisation: its members and its retention policy                   *)

CONSTANTS Users, Policies, NoRole, NoPolicy

VARIABLES
    made,       \* the row of the organisation
    role,       \* memberships: [Users -> role]
    memberTold,  \* the role that the last member.added of a user told, or NoRole
    policy,     \* retention_policies
    audited,    \* the policy in the last retention.updated of the audit log
    doubled     \* what two operations wrote at once: users, or "policy"

orgVars == <<made, role, memberTold, policy, audited, doubled>>

Roles == {"member", "admin", "owner"}
AtLeastAdmin(u) == role[u] \in {"admin", "owner"}

OrgTypeOK ==
    /\ made \in BOOLEAN
    /\ role \in [Users -> Roles \cup {NoRole}]
    /\ memberTold \in [Users -> Roles \cup {NoRole}]
    /\ {policy, audited} \subseteq Policies \cup {NoPolicy}
    /\ doubled \in SUBSET (Users \cup {"policy"})

OrgInit ==
    /\ made = FALSE
    /\ role = [u \in Users |-> NoRole] /\ memberTold = role
    /\ policy = NoPolicy /\ audited = NoPolicy /\ doubled = {}

\* Writers of a thing: past the check, and not yet through.
Busy(x) == {t \in Tasks : (\E op \in {"add", "remove", "retention"} : Under(t, op)) /\ task[t].on = x}

Overlap(t) == doubled' = IF Busy(task[t].on) # {t} THEN doubled \cup {task[t].on} ELSE doubled

----------------------------------------------------------------------------
(* Members                                                                 *)

\* createOrg: the organisation, its owner's membership, and the events.
CreateOrg(t) ==
    /\ ~made /\ made' = TRUE
    /\ \E u \in Users : Begins(t, [op |-> "add", on |-> u, role |-> "owner", at |-> "write"])
    /\ UNCHANGED <<failures, role, memberTold, policy, audited, doubled>>

\* addMember grants any role but owner; removeMember removes anyone.
CheckRole(t) ==
    /\ \E a \in Users, u \in Users :
          /\ AtLeastAdmin(a)
          /\ \/ \E r \in {"member", "admin"} : Begins(t, [op |-> "add", on |-> u, role |-> r, at |-> "write"])
             \/ Begins(t, [op |-> "remove", on |-> u, at |-> "write"])
    /\ UNCHANGED <<failures, orgVars>>

Upserted(u, r) == r

AddMember(t) ==
    /\ At(t, "write") /\ task[t].op = "add"
    /\ role' = [role EXCEPT ![task[t].on] = Upserted(task[t].on, task[t].role)]
    /\ Overlap(t)
    /\ Goes(t, "tell")
    /\ UNCHANGED <<failures, made, memberTold, policy, audited>>

MemberAdded(t) ==
    /\ At(t, "tell") /\ task[t].op = "add"
    /\ memberTold' = [memberTold EXCEPT ![task[t].on] = task[t].role]
    /\ Overlap(t)
    /\ Goes(t, "over")
    /\ UNCHANGED <<failures, made, role, policy, audited>>

RemoveMember(t) ==
    /\ At(t, "write") /\ task[t].op = "remove"
    /\ role' = [role EXCEPT ![task[t].on] = NoRole]
    /\ Overlap(t)
    /\ Goes(t, "over")
    /\ UNCHANGED <<failures, made, memberTold, policy, audited>>

----------------------------------------------------------------------------
(* Retention                                                               *)

CheckAdmin(t) ==
    /\ \E a \in Users, p \in Policies :
          AtLeastAdmin(a) /\ Begins(t, [op |-> "retention", on |-> "policy", policy |-> p, at |-> "write"])
    /\ UNCHANGED <<failures, orgVars>>

UpsertRetention(t) ==
    /\ At(t, "write") /\ task[t].op = "retention"
    /\ policy' = task[t].policy
    /\ Overlap(t)
    /\ Goes(t, "tell")
    /\ UNCHANGED <<failures, made, role, memberTold, audited>>

AppendAudit(t) ==
    /\ At(t, "tell") /\ task[t].op = "retention"
    /\ audited' = task[t].policy
    /\ Overlap(t)
    /\ Goes(t, "over")
    /\ UNCHANGED <<failures, made, role, memberTold, policy>>

\* The routes of TenancyController that write.
OrgRequests(t) == CreateOrg(t) \/ CheckRole(t)

OrgNext ==
    \E t \in Tasks :
       \/ OrgRequests(t)
       \/ AddMember(t) \/ MemberAdded(t) \/ RemoveMember(t)
       \/ CheckAdmin(t) \/ UpsertRetention(t) \/ AppendAudit(t)
       \/ Fails(t) /\ UNCHANGED orgVars

----------------------------------------------------------------------------
(* Properties                                                              *)

\* An edge of a registered number leads to the account the token belongs to, unless a
\* registration and an edge (or two registrations) were written one under the other, a
\* registration died before it linked, or the client registered or removed the token itself; and
\* an owner whose edge a registration changed is notified, or will be, or the registration died.  About
\* registerForDiscovery and upsertEdges, which meet in two tables without a transaction.
EdgesFollowTheToken ==
    /\ \A o \in Owners, v \in Versions \ (mingled \cup optedIn) :
          known[v] # Unlisted /\ Registering(v) = {} /\ failures = 0
              => edge[<<o, v>>] \in {"none", known[v]}
    /\ \A l \in linked : l \in notified \/ failures > 0 \/ \E t \in Tasks : At(t, "publish") /\ l \in ToNotify(t)

\* The last member.added of a member tells its role, and the last audit entry tells the policy,
\* unless two operations wrote the same thing at once or one died between its write and what it
\* tells.  About TenancyService and AdminService, which write and then tell.
ToldWhatIsWritten ==
    /\ \A u \in Users \ doubled :
          Busy(u) = {} /\ failures = 0 /\ role[u] # NoRole => memberTold[u] = role[u]
    /\ "policy" \notin doubled /\ Busy("policy") = {} /\ failures = 0 => audited = policy

\* What a directory tells of people: edges follow the token, and an event the row it was written
\* from (oprf.service.ts:88, tenancy.service.ts:50).
DirectoryHolds == EdgesFollowTheToken /\ ToldWhatIsWritten
=============================================================================
