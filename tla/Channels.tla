------------------------------- MODULE Channels -------------------------------
(***************************************************************************)
(* ChannelsService over its Postgres rows: the lifecycle and the members of *)
(* one conversation.  Every query and every publish of a call is a step, so *)
(* two calls interleave between any two of them, and a call may end at any  *)
(* step (Abort) with the queries before it kept: no call is a transaction.  *)
(*                                                                         *)
(* A refused call changes nothing, so the guards of a call's first query    *)
(* are guards of the action that starts it.                                 *)
(***************************************************************************)
EXTENDS Naturals, Sequences, FiniteSets

CONSTANTS Users,
          Peers,        \* the two users a DM's id is derived from
          Calls,        \* handler calls, each made at most once
          MaxMembers,   \* MAX_GROUP_MEMBERS, 1024 in the code
          MaxFaults     \* bound on the calls that end half way

ASSUME ChannelsAssumption ==
    /\ IsFiniteSet(Users)
    /\ Peers \subseteq Users
    /\ MaxMembers \in Nat
    /\ MaxFaults \in Nat

VARIABLES
    kind,       \* what the conversation is, or is to become
    exists,     \* its row is in conversations
    role,       \* [Users -> Roles \cup {"none"}], its rows in conversation_members
    epoch,      \* sender_key_epoch
    log,        \* [Topics -> Seq(SUBSET Users)], the membership events published
    announced,  \* Seq(Nat), the epochs published as group.epoch.changed
    call,       \* [Calls -> CallStates]
    owned,      \* the conversation has had an owner
    holders,    \* removed members who hold the key of the current epoch
    crossed,    \* what changed under a call that had looked at it
    lost,       \* users with a change of membership no event announces
    faults

conversation == <<kind, exists, role, epoch>>
stream       == <<log, announced>>
ghosts       == <<owned, holders, crossed, lost>>
chanVars     == <<conversation, stream, call, ghosts, faults>>

\* A community is its announcement channel.  A private channel is a channel nobody joins.
Kinds  == {"dm", "group", "channel", "community"}
Roles  == {"member", "admin", "owner"}
Topics == {"created", "added", "removed"}
Ops    == {"create", "add", "remove", "leave", "join", "setRole"}

Rank == [r \in Roles |-> CASE r = "member" -> 0 [] r = "admin" -> 1 [] r = "owner" -> 2]

\* to: the role to give.  seen: the target's role as it was read.  party: the members
\* a creation announces; todo: those it has not inserted.  num: the epoch to announce.
CallStates ==
    [pc    : {"idle", "rows", "target", "count", "write", "publish", "bump", "announce", "done"},
     op    : Ops,
     by    : {"none"} \cup Roles,
     actor : {"none"} \cup Users,
     user  : {"none"} \cup Users,
     to    : Roles,
     seen  : {"none"} \cup Roles,
     party : SUBSET Users,
     todo  : SUBSET Users,
     num   : Nat]

Idle == [pc |-> "idle", op |-> "create", by |-> "none", actor |-> "none", user |-> "none",
         to |-> "member", seen |-> "none", party |-> {}, todo |-> {}, num |-> 0]
Done == [Idle EXCEPT !.pc = "done"]

Members == {u \in Users : role[u] # "none"}
Owners  == {u \in Users : role[u] = "owner"}
Quiet   == \A c \in Calls : call[c].pc \in {"idle", "done"}

TypeOK ==
    /\ kind \in Kinds
    /\ exists \in BOOLEAN
    /\ role \in [Users -> {"none"} \cup Roles]
    /\ epoch \in Nat
    /\ log \in [Topics -> Seq(SUBSET Users)]
    /\ announced \in Seq(Nat)
    /\ call \in [Calls -> CallStates]
    /\ owned \in BOOLEAN
    /\ holders \in SUBSET Users
    /\ crossed \in SUBSET {"owners", "limit"}
    /\ lost \in SUBSET Users
    /\ faults \in Nat
    /\ \A c \in Calls : /\ call[c].pc = "rows" <=> call[c].todo # {}
                        /\ call[c].pc \notin {"idle", "done"} => call[c].user \in Users

\* The rows a conversation of kind k may stand with after a history of calls.
Established(k, rows) ==
    LET in == {u \in Users : rows[u] # "none"} IN
    IF k = "dm" THEN /\ in \subseteq Peers
                     /\ \A u \in in : rows[u] = "member"
                ELSE /\ \E u \in Users : rows[u] = "owner"
                     /\ k = "group" => Cardinality(in) <= MaxMembers

\* Nothing exists yet, or the conversation has been in use.
Init ==
    /\ kind \in Kinds
    /\ exists \in BOOLEAN
    /\ role \in [Users -> {"none"} \cup Roles]
    /\ IF exists THEN Established(kind, role) ELSE Members = {}
    /\ epoch = 1
    /\ log = [t \in Topics |-> <<>>]
    /\ announced = <<>>
    /\ call = [c \in Calls |-> Idle]
    /\ owned = (Owners # {})
    /\ holders = {}
    /\ crossed = {}
    /\ lost = {}
    /\ faults = 0

----------------------------------------------------------------------------
(* The first step of a call                                                *)

Admins == {u \in Users : role[u] \in {"owner", "admin"}}

\* A call begins once: the guard is in Start.
Begin(c, rec) == call' = [call EXCEPT ![c] = rec]

\* createConversation for a call that is to insert party: ON CONFLICT DO NOTHING keeps an
\* existing row, and a DM found in place goes straight to its event.
Ensure(c, a, party) ==
    /\ Begin(c, [Idle EXCEPT !.pc = IF exists THEN "publish" ELSE "rows", !.op = "create",
                              !.actor = a, !.user = a, !.party = party,
                              !.todo = IF exists THEN {} ELSE party])
    /\ exists' = TRUE
    /\ UNCHANGED <<kind, role, epoch, stream, ghosts, faults>>

CreateDm(c, a) ==
    /\ kind = "dm" /\ a \in Peers
    /\ Ensure(c, a, Peers)

\* The other creations draw a fresh id: it names one conversation and is made once.
CreateGroup(c, a, memberIds) ==
    /\ kind = "group" /\ ~exists
    /\ Cardinality({a} \cup memberIds) <= MaxMembers
    /\ Ensure(c, a, {a} \cup memberIds)

CreateChannel(c, a) ==
    /\ kind \in {"channel", "community"} /\ ~exists
    /\ Ensure(c, a, {a})

\* assertAdmin, the first query of addMember and of removeMember.
AddMember(c, a, u, r) ==
    /\ exists /\ a \in Admins
    /\ Begin(c, [Idle EXCEPT !.pc = "count", !.op = "add", !.actor = a, !.user = u, !.to = r])
    /\ UNCHANGED <<conversation, stream, ghosts, faults>>

RemoveMember(c, a, u) ==
    /\ exists /\ a \in Admins
    /\ Begin(c, [Idle EXCEPT !.pc = "target", !.op = "remove", !.actor = a, !.user = u])
    /\ UNCHANGED <<conversation, stream, ghosts, faults>>

\* An admin assigns roles below his own, an owner any role.
SetMemberRole(c, a, u, r) ==
    /\ exists /\ a \in Admins
    /\ role[a] = "owner" \/ Rank[r] < Rank[role[a]]
    /\ Begin(c, [Idle EXCEPT !.pc = "target", !.op = "setRole", !.by = role[a],
                              !.actor = a, !.user = u, !.to = r])
    /\ UNCHANGED <<conversation, stream, ghosts, faults>>

\* leaveChannel asks for no type, so groups and DMs are left through it too; the id of
\* a DM is known before the DM is.
LeaveChannel(c, u) ==
    /\ exists \/ kind = "dm"
    /\ Begin(c, [Idle EXCEPT !.pc = "target", !.op = "leave", !.actor = u, !.user = u])
    /\ UNCHANGED <<conversation, stream, ghosts, faults>>

\* Neither the type nor the visibility it reads changes afterwards.
JoinChannel(c, u) ==
    /\ exists /\ kind \in {"channel", "community"}
    /\ Begin(c, [Idle EXCEPT !.pc = "write", !.op = "join", !.actor = u, !.user = u])
    /\ UNCHANGED <<conversation, stream, ghosts, faults>>

----------------------------------------------------------------------------
(* Its later queries                                                       *)

Goto(c, next) == call' = [call EXCEPT ![c] = IF next = "done" THEN Done ELSE [@ EXCEPT !.pc = next]]

\* The rank check of setMemberRole; the other operations have none.
MayChange(d, seen) ==
    (d.op = "setRole" /\ seen # "none" /\ d.by # "owner") => Rank[seen] < Rank[d.by]

TakesOwnership(d) == \/ d.op \in {"remove", "leave"}
                     \/ d.op = "setRole" /\ d.to # "owner"

\* getMemberRole of the user the call is about.
ReadTarget(c) ==
    LET d == call[c] seen == role[d.user] IN
    /\ d.pc = "target"
    /\ call' = [call EXCEPT ![c] =
           IF seen = "owner" /\ TakesOwnership(d) THEN [d EXCEPT !.pc = "count", !.seen = seen]
           ELSE IF MayChange(d, seen) THEN [d EXCEPT !.pc = "write", !.seen = seen]
           ELSE Done]
    /\ UNCHANGED <<conversation, stream, ghosts, faults>>

\* Mutant of Count: the last owner passes for one of two.
CountLastOwner(c) ==
    LET d == call[c]
        allowed == IF d.op = "add" THEN Cardinality(Members) < MaxMembers
                   ELSE Cardinality(Owners) >= 1 /\ MayChange(d, d.seen)
    IN /\ d.pc = "count"
       /\ Goto(c, IF allowed THEN "write" ELSE "done")
       /\ UNCHANGED <<conversation, stream, ghosts, faults>>

\* Mutant of Count: a full group takes one more.
CountOneMore(c) ==
    LET d == call[c]
        allowed == IF d.op = "add" THEN Cardinality(Members) <= MaxMembers
                   ELSE Cardinality(Owners) > 1 /\ MayChange(d, d.seen)
    IN /\ d.pc = "count"
       /\ Goto(c, IF allowed THEN "write" ELSE "done")
       /\ UNCHANGED <<conversation, stream, ghosts, faults>>

\* memberCount for an addition, countByRole(owner) where an owner is to go.
Count(c) ==
    LET d == call[c]
        allowed == IF d.op = "add" THEN Cardinality(Members) < MaxMembers
                   ELSE Cardinality(Owners) > 1 /\ MayChange(d, d.seen)
    IN /\ d.pc = "count"
       /\ Goto(c, IF allowed THEN "write" ELSE "done")
       /\ UNCHANGED <<conversation, stream, ghosts, faults>>

\* What the calls other than c have looked at and not acted on yet.
Relied(c, rows) ==
    {x \in {"owners", "limit"} : \E d \in Calls \ {c} :
        \/ /\ x = "owners" /\ TakesOwnership(call[d]) /\ call[d].pc \in {"count", "write"}
           /\ Owners # {u \in Users : rows[u] = "owner"}
        \/ /\ x = "limit" /\ call[d].op = "add" /\ call[d].pc = "write"
           /\ Members # {u \in Users : rows[u] # "none"}}

\* The rows become rows.
SetRows(c, rows) ==
    /\ role' = rows
    /\ owned' = (owned \/ \E u \in Users : rows[u] = "owner")
    /\ crossed' = crossed \cup Relied(c, rows)

\* createDm inserts its two members one by one, the creator first; createGroup and the
\* channels insert theirs in one statement.  createCommunity then writes only rows no
\* other operation here reads, and publishes nothing.
InsertRows(c) ==
    LET d    == call[c]
        now  == IF d.actor \in d.todo /\ kind = "dm" THEN {d.actor} ELSE d.todo
        rank(u) == IF kind # "dm" /\ u = d.actor THEN "owner" ELSE "member"
        next == IF now # d.todo THEN "rows" ELSE IF kind = "community" THEN "done" ELSE "publish"
    IN /\ d.pc = "rows"
       /\ SetRows(c, [u \in Users |-> IF u \in now /\ role[u] = "none" THEN rank(u) ELSE role[u]])
       /\ call' = [call EXCEPT ![c] = IF next = "done" THEN Done
                                      ELSE [d EXCEPT !.pc = next, !.todo = @ \ now]]
       /\ lost' = IF next = "done" THEN lost \cup now ELSE lost
       /\ UNCHANGED <<kind, exists, epoch, stream, holders, faults>>

\* The write the call is about: an INSERT that yields to an existing row, a DELETE, or an
\* UPDATE of a row that may have gone.
Write(c) ==
    LET d    == call[c]
        has  == role[d.user] # "none"
        new  == CASE d.op \in {"remove", "leave"} -> "none"
                  [] d.op = "setRole" -> IF has THEN d.to ELSE "none"
                  [] OTHER -> IF has THEN role[d.user] ELSE d.to
    IN /\ d.pc = "write"
       /\ SetRows(c, [role EXCEPT ![d.user] = new])
       /\ holders' = CASE d.op = "remove" -> holders \cup {d.user}
                       [] d.op \in {"add", "join"} -> holders \ {d.user}
                       [] OTHER -> holders
       /\ Goto(c, IF d.op = "setRole" THEN "done" ELSE "publish")
       /\ UNCHANGED <<kind, exists, epoch, stream, lost, faults>>

Topic(d) == CASE d.op = "create" -> "created" [] d.op \in {"add", "join"} -> "added" [] OTHER -> "removed"

About(d) == IF d.op = "create" THEN d.party ELSE {d.user}

\* Mutant of Publish: a member who leaves is not announced.
PublishNotLeave(c) ==
    LET d == call[c] IN
    /\ d.pc = "publish"
    /\ log' = IF d.op = "leave" THEN log ELSE [log EXCEPT ![Topic(d)] = Append(@, About(d))]
    /\ Goto(c, IF d.op \in {"add", "remove"} THEN "bump" ELSE "done")
    /\ UNCHANGED <<conversation, announced, ghosts, faults>>

\* Mutant of Publish: the key is rotated for additions only.
PublishRotateOnAdd(c) ==
    LET d == call[c] IN
    /\ d.pc = "publish"
    /\ log' = [log EXCEPT ![Topic(d)] = Append(@, About(d))]
    /\ Goto(c, IF d.op = "add" THEN "bump" ELSE "done")
    /\ UNCHANGED <<conversation, announced, ghosts, faults>>

\* conversationCreated, memberAdded, memberRemoved.
Publish(c) ==
    LET d == call[c] IN
    /\ d.pc = "publish"
    /\ log' = [log EXCEPT ![Topic(d)] = Append(@, About(d))]
    /\ Goto(c, IF d.op \in {"add", "remove"} THEN "bump" ELSE "done")
    /\ UNCHANGED <<conversation, announced, ghosts, faults>>

\* rotateEpoch: UPDATE ... RETURNING for a group, no row for anything else.
BumpEpoch(c) ==
    /\ call[c].pc = "bump"
    /\ epoch' = IF kind = "group" THEN epoch + 1 ELSE epoch
    /\ holders' = IF kind = "group" THEN {} ELSE holders
    /\ call' = [call EXCEPT ![c] = IF kind = "group" THEN [@ EXCEPT !.pc = "announce", !.num = epoch + 1]
                                                     ELSE Done]
    /\ UNCHANGED <<kind, exists, role, stream, owned, crossed, lost, faults>>

AnnounceEpoch(c) ==
    /\ call[c].pc = "announce"
    /\ announced' = Append(announced, call[c].num)
    /\ Goto(c, "done")
    /\ UNCHANGED <<conversation, log, ghosts, faults>>

\* A query or a publish throws, or the process dies: the rest of the handler is not run
\* and nothing repeats it.
Abort(c) ==
    /\ call[c].pc \notin {"idle", "done"}
    /\ faults < MaxFaults
    /\ faults' = faults + 1
    /\ Goto(c, "done")
    /\ lost' = IF call[c].pc \in {"rows", "publish"} THEN lost \cup About(call[c]) ELSE lost
    /\ UNCHANGED <<conversation, stream, owned, holders, crossed>>

----------------------------------------------------------------------------
Step(c) ==
    \/ ReadTarget(c)
    \/ Count(c)
    \/ InsertRows(c)
    \/ Write(c)
    \/ Publish(c)
    \/ BumpEpoch(c)
    \/ AnnounceEpoch(c)
    \/ Abort(c)

Start(c) ==
    /\ call[c] = Idle
    /\ \/ \E a \in Users : CreateDm(c, a)
       \/ \E a \in Users, S \in SUBSET Users : CreateGroup(c, a, S)
       \/ \E a \in Users : CreateChannel(c, a)
       \/ \E a \in Users, u \in Users, r \in Roles : AddMember(c, a, u, r)
       \/ \E a \in Users, u \in Users : RemoveMember(c, a, u)
       \/ \E a \in Users, u \in Users, r \in Roles : SetMemberRole(c, a, u, r)
       \/ \E u \in Users : LeaveChannel(c, u)
       \/ \E u \in Users : JoinChannel(c, u)

ChanNext == \E c \in Calls : Start(c) \/ Step(c)

ChanSpec == Init /\ [][ChanNext]_chanVars

----------------------------------------------------------------------------
(* Properties                                                              *)

\* Last-owner protection: a conversation that has had an owner is left without one only if
\* the owners changed under a call that had looked at its target's role and was still to
\* write.  The counts are plain queries, so two owners who leave at once do get through.
OwnerlessOnlyByRace == owned /\ Owners = {} => "owners" \in crossed

\* A group outgrows MAX_GROUP_MEMBERS only if a member came in between another addition's
\* count and its INSERT.
OverfullOnlyByRace ==
    kind = "group" /\ Cardinality(Members) > MaxMembers => "limit" \in crossed

\* Once the calls have ended, unless one broke off, no member an admin removed from a group
\* holds the key of the epoch in force.  (One who left on his own does: leaveChannel
\* rotates nothing.)
RemovedLoseTheKey == kind = "group" /\ Quiet /\ faults = 0 => holders = {}

\* ... and every epoch the group has passed to was announced exactly once, in whatever order.
EpochsAnnouncedOnce ==
    Quiet /\ faults = 0 =>
        /\ Len(announced) = epoch - 1
        /\ \A n \in 2 .. epoch : \E i \in DOMAIN announced : announced[i] = n

=============================================================================
