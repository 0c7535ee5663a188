---------------------------- MODULE Channels_proofs ----------------------------
(***************************************************************************)
(* What the rows of a conversation keep for any number of users and of      *)
(* concurrent calls, whichever of them break off; and what the set of       *)
(* members in Redis keeps of them, for any number of consumer groups.       *)
(***************************************************************************)
EXTENDS MemberProjection, FiniteSetTheorems, TLAPS

----------------------------------------------------------------------------
(* Types                                                                   *)

\* A record a call may stand at.
Good(r) ==
    /\ r \in CallStates
    /\ r.pc = "rows" <=> r.todo # {}
    /\ r.pc \notin {"idle", "done"} => r.user \in Users

\* The type of everything but the calls.
RowsOK ==
    /\ kind \in Kinds
    /\ exists \in BOOLEAN
    /\ role \in [Users -> {"none"} \cup Roles]
    /\ epoch \in Nat
    /\ log \in [Topics -> Seq(SUBSET Users)]
    /\ announced \in Seq(Nat)
    /\ owned \in BOOLEAN
    /\ holders \in SUBSET Users
    /\ crossed \in SUBSET {"owners", "limit"}
    /\ lost \in SUBSET Users
    /\ faults \in Nat

CallsOK == call \in [Calls -> CallStates] /\ \A c \in Calls : Good(call[c])

\* The type invariant in its two parts.
LEMMA TypeParts == TypeOK <=> RowsOK /\ CallsOK
BY DEF TypeOK, RowsOK, CallsOK, Good

\* The two records without a call are well formed.
LEMMA GoodIdle == Good(Idle) /\ Good(Done)
BY DEF Good, Idle, Done, CallStates, Ops, Roles

\* A call that moves to a well-formed record leaves the calls well formed.
LEMMA MoveCall ==
    ASSUME CallsOK, NEW c \in Calls, NEW r, Good(r), call' = [call EXCEPT ![c] = r]
    PROVE  CallsOK'
BY DEF CallsOK, Good

\* Going on to a step other than the insertion of rows, with none left to insert.
LEMMA MoveOn ==
    ASSUME CallsOK, NEW c \in Calls, NEW pc,
           pc \in {"target", "count", "write", "publish", "bump", "announce", "done"},
           call[c].pc \notin {"idle", "rows", "done"},
           Goto(c, pc)
    PROVE  CallsOK'
<1>1. Good(call[c])  BY DEF CallsOK
<1>2. CASE pc = "done"  BY <1>2, GoodIdle, MoveCall DEF Goto
<1>3. CASE pc # "done"
  <2> DEFINE r == [call[c] EXCEPT !.pc = pc]
  <2>1. Good(r)  BY <1>1, <1>3 DEF Good, CallStates
  <2>2. call' = [call EXCEPT ![c] = r]  BY <1>3 DEF Goto
  <2> QED  BY <2>1, <2>2, MoveCall
<1> QED  BY <1>2, <1>3

\* A call that breaks off leaves the calls well formed too.
LEMMA Finish ==
    ASSUME CallsOK, NEW c \in Calls, Goto(c, "done")
    PROVE  CallsOK'
BY GoodIdle, MoveCall DEF Goto

\* The first step of a creation.
LEMMA EnsureType ==
    ASSUME TypeOK, NEW c \in Calls, NEW a \in Users, NEW party \in SUBSET Users, a \in party,
           Ensure(c, a, party)
    PROVE  TypeOK'
<1> DEFINE r == [Idle EXCEPT !.pc = IF exists THEN "publish" ELSE "rows", !.op = "create",
                             !.actor = a, !.user = a, !.party = party,
                             !.todo = IF exists THEN {} ELSE party]
<1>1. Good(r)
  <2>1. CASE exists  BY <2>1 DEF Good, Idle, CallStates, Ops, Roles
  <2>2. CASE ~exists  BY <2>2 DEF Good, Idle, CallStates, Ops, Roles
  <2> QED  BY <2>1, <2>2
<1>2. CallsOK'
  <2>1. call' = [call EXCEPT ![c] = r]  BY DEF Ensure, Begin
  <2> QED  BY <1>1, <2>1, MoveCall, TypeParts
<1>3. RowsOK'  BY TypeParts DEF RowsOK, Ensure, ghosts, stream
<1> QED  BY <1>2, <1>3, TypeParts DEF TypeOK, RowsOK, CallsOK, Good

\* The first step of every other operation changes nothing but the call.
LEMMA BeginType ==
    ASSUME TypeOK, NEW c \in Calls, NEW r, Good(r), Begin(c, r),
           UNCHANGED <<conversation, stream, ghosts, faults>>
    PROVE  TypeOK'
<1>1. CallsOK'  BY MoveCall, TypeParts DEF Begin
<1>2. RowsOK'  BY TypeParts DEF RowsOK, conversation, stream, ghosts
<1> QED  BY <1>1, <1>2, TypeParts DEF TypeOK, RowsOK, CallsOK, Good

\* Every operation starts well typed.
LEMMA StartType ==
    ASSUME TypeOK, NEW c \in Calls, Start(c)
    PROVE  TypeOK'
<1> USE DEF Good, Idle, CallStates, Ops, Roles
<1>1. ASSUME NEW a \in Users, CreateDm(c, a) PROVE TypeOK'
  BY <1>1, EnsureType, ChannelsAssumption DEF CreateDm
<1>2. ASSUME NEW a \in Users, NEW S \in SUBSET Users, CreateGroup(c, a, S) PROVE TypeOK'
  BY <1>2, EnsureType DEF CreateGroup
<1>3. ASSUME NEW a \in Users, CreateChannel(c, a) PROVE TypeOK'
  BY <1>3, EnsureType DEF CreateChannel
<1>4. ASSUME NEW a \in Users, NEW u \in Users, NEW r \in Roles, AddMember(c, a, u, r)
      PROVE  TypeOK'
  <2> DEFINE rec == [Idle EXCEPT !.pc = "count", !.op = "add", !.actor = a, !.user = u, !.to = r]
  <2>1. Good(rec)  OBVIOUS
  <2> HIDE DEF rec
  <2>2. Begin(c, rec) /\ UNCHANGED <<conversation, stream, ghosts, faults>>
    BY <1>4 DEF AddMember, rec
  <2> QED  BY <2>1, <2>2, BeginType
<1>5. ASSUME NEW a \in Users, NEW u \in Users, RemoveMember(c, a, u) PROVE TypeOK'
  <2> DEFINE rec == [Idle EXCEPT !.pc = "target", !.op = "remove", !.actor = a, !.user = u]
  <2>1. Good(rec)  OBVIOUS
  <2> HIDE DEF rec
  <2>2. Begin(c, rec) /\ UNCHANGED <<conversation, stream, ghosts, faults>>
    BY <1>5 DEF RemoveMember, rec
  <2> QED  BY <2>1, <2>2, BeginType
<1>6. ASSUME NEW a \in Users, NEW u \in Users, NEW r \in Roles, SetMemberRole(c, a, u, r)
      PROVE  TypeOK'
  <2> DEFINE rec == [Idle EXCEPT !.pc = "target", !.op = "setRole", !.by = role[a],
                                 !.actor = a, !.user = u, !.to = r]
  <2>1. Good(rec)  BY DEF TypeOK
  <2> HIDE DEF rec
  <2>2. Begin(c, rec) /\ UNCHANGED <<conversation, stream, ghosts, faults>>
    BY <1>6 DEF SetMemberRole, rec
  <2> QED  BY <2>1, <2>2, BeginType
<1>7. ASSUME NEW u \in Users, LeaveChannel(c, u) PROVE TypeOK'
  <2> DEFINE rec == [Idle EXCEPT !.pc = "target", !.op = "leave", !.actor = u, !.user = u]
  <2>1. Good(rec)  OBVIOUS
  <2> HIDE DEF rec
  <2>2. Begin(c, rec) /\ UNCHANGED <<conversation, stream, ghosts, faults>>
    BY <1>7 DEF LeaveChannel, rec
  <2> QED  BY <2>1, <2>2, BeginType
<1>8. ASSUME NEW u \in Users, JoinChannel(c, u) PROVE TypeOK'
  <2> DEFINE rec == [Idle EXCEPT !.pc = "write", !.op = "join", !.actor = u, !.user = u]
  <2>1. Good(rec)  OBVIOUS
  <2> HIDE DEF rec
  <2>2. Begin(c, rec) /\ UNCHANGED <<conversation, stream, ghosts, faults>>
    BY <1>8 DEF JoinChannel, rec
  <2> QED  BY <2>1, <2>2, BeginType
<1> HIDE DEF Good, Idle, CallStates, Ops, Roles
<1> QED  BY <1>1, <1>2, <1>3, <1>4, <1>5, <1>6, <1>7, <1>8 DEF Start

\* The rows of members keep their type through SetRows.
LEMMA SetRowsType ==
    ASSUME TypeOK, NEW c, NEW rows \in [Users -> {"none"} \cup Roles], SetRows(c, rows)
    PROVE  /\ role' \in [Users -> {"none"} \cup Roles]
           /\ owned' \in BOOLEAN
           /\ crossed' \in SUBSET {"owners", "limit"}
<1>1. Relied(c, rows) \subseteq {"owners", "limit"}  BY DEF Relied
<1> QED  BY <1>1 DEF SetRows, TypeOK

\* Every later query keeps the types.
LEMMA StepType ==
    ASSUME TypeOK, NEW c \in Calls, Step(c)
    PROVE  TypeOK'
<1> USE TypeParts
<1> SUFFICES RowsOK' /\ CallsOK'  BY DEF TypeOK, RowsOK, CallsOK, Good
<1>0. RowsOK /\ CallsOK /\ Good(call[c])  BY DEF CallsOK
<1>1. CASE ReadTarget(c)
  <2> DEFINE seen == role[call[c].user]
             r1 == [call[c] EXCEPT !.pc = "count", !.seen = seen]
             r2 == [call[c] EXCEPT !.pc = "write", !.seen = seen]
  <2>1. seen \in {"none"} \cup Roles  BY <1>0, <1>1 DEF ReadTarget, RowsOK, Good
  <2>2. Good(r1) /\ Good(r2)  BY <1>0, <1>1, <2>1 DEF ReadTarget, Good, CallStates
  <2> HIDE DEF seen
  <2>3. \/ call' = [call EXCEPT ![c] = r1]
        \/ call' = [call EXCEPT ![c] = r2]
        \/ call' = [call EXCEPT ![c] = Done]
    BY <1>1 DEF ReadTarget, seen
  <2>4. CallsOK'
    <3> HIDE DEF r1, r2
    <3> QED  BY <1>0, <2>2, <2>3, GoodIdle, MoveCall
  <2>5. RowsOK'  BY <1>0, <1>1 DEF ReadTarget, RowsOK, conversation, stream, ghosts
  <2> QED  BY <2>4, <2>5
<1>2. CASE Count(c)
  <2>1. CallsOK'
    <3>1. Goto(c, "write") \/ Goto(c, "done")  BY <1>2 DEF Count
    <3> QED  BY <1>0, <1>2, <3>1, MoveOn DEF Count
  <2>2. RowsOK'  BY <1>0, <1>2 DEF Count, RowsOK, conversation, stream, ghosts
  <2> QED  BY <2>1, <2>2
<1>3. CASE InsertRows(c)
  <2> DEFINE d == call[c]
             now == IF d.actor \in d.todo /\ kind = "dm" THEN {d.actor} ELSE d.todo
             rank(u) == IF kind # "dm" /\ u = d.actor THEN "owner" ELSE "member"
             goal == IF now # d.todo THEN "rows" ELSE IF kind = "community" THEN "done" ELSE "publish"
             rows == [u \in Users |-> IF u \in now /\ role[u] = "none" THEN rank(u) ELSE role[u]]
             r == [d EXCEPT !.pc = goal, !.todo = @ \ now]
  <2>1. now \subseteq d.todo /\ d.todo \subseteq Users  BY <1>0 DEF Good, CallStates
  <2>2. rows \in [Users -> {"none"} \cup Roles]  BY <1>0 DEF RowsOK, Roles
  <2>3. SetRows(c, rows)  BY <1>3 DEF InsertRows
  <2>4. /\ role' \in [Users -> {"none"} \cup Roles]
        /\ owned' \in BOOLEAN
        /\ crossed' \in SUBSET {"owners", "limit"}
    <3> HIDE DEF rows
    <3> QED  BY <2>2, <2>3, SetRowsType
  <2>5. lost' \in SUBSET Users  BY <1>0, <1>3, <2>1 DEF InsertRows, RowsOK
  <2>6. RowsOK'  BY <1>0, <1>3, <2>4, <2>5 DEF InsertRows, RowsOK, stream
  <2>7. Good(r) \/ goal = "done"
    <3> DEFINE left == d.todo \ now
    <3>1. d \in CallStates /\ d.pc = "rows" /\ d.user \in Users /\ left \subseteq Users
      BY <1>0, <1>3, <2>1 DEF InsertRows, Good
    <3>2. goal \in {"rows", "done", "publish"} /\ (goal = "rows" <=> left # {})  BY <2>1
    <3>3. r = [d EXCEPT !.pc = goal, !.todo = left]  OBVIOUS
    <3> HIDE DEF goal, left, r, d, now
    <3>4. goal # "done" => r \in CallStates /\ r.pc = goal /\ r.todo = left /\ r.user = d.user
      BY <3>1, <3>2, <3>3 DEF CallStates
    <3> QED  BY <3>1, <3>2, <3>4 DEF Good
  <2>8. call' = [call EXCEPT ![c] = IF goal = "done" THEN Done ELSE r]  BY <1>3 DEF InsertRows
  <2>9. CallsOK'
    <3> HIDE DEF goal, r
    <3>1. CASE goal = "done"  BY <1>0, <2>8, <3>1, GoodIdle, MoveCall
    <3>2. CASE goal # "done"  BY <1>0, <2>7, <2>8, <3>2, MoveCall
    <3> QED  BY <3>1, <3>2
  <2> QED  BY <2>6, <2>9
<1>4. CASE Write(c)
  <2>1. \E new \in {"none"} \cup Roles : SetRows(c, [role EXCEPT ![call[c].user] = new])
    <3>1. call[c].user \in Users /\ call[c].to \in Roles  BY <1>0, <1>4 DEF Write, Good, CallStates
    <3>2. role[call[c].user] \in {"none"} \cup Roles  BY <1>0, <3>1 DEF RowsOK
    <3> QED  BY <1>4, <3>1, <3>2 DEF Write
  <2>2. PICK new \in {"none"} \cup Roles : SetRows(c, [role EXCEPT ![call[c].user] = new])  BY <2>1
  <2>3. [role EXCEPT ![call[c].user] = new] \in [Users -> {"none"} \cup Roles]  BY <1>0 DEF RowsOK
  <2>4. /\ role' \in [Users -> {"none"} \cup Roles]
        /\ owned' \in BOOLEAN
        /\ crossed' \in SUBSET {"owners", "limit"}
    BY <2>2, <2>3, SetRowsType
  <2>5. holders' \in SUBSET Users  BY <1>0, <1>4 DEF Write, RowsOK, Good
  <2>6. RowsOK'  BY <1>0, <1>4, <2>4, <2>5 DEF Write, RowsOK, stream
  <2>7. CallsOK'
    <3>1. Goto(c, "done") \/ Goto(c, "publish")  BY <1>4 DEF Write
    <3> QED  BY <1>0, <1>4, <3>1, MoveOn DEF Write
  <2> QED  BY <2>6, <2>7
<1>5. CASE Publish(c)
  <2>1. About(call[c]) \in SUBSET Users  BY <1>0, <1>5 DEF Publish, About, Good, CallStates
  <2>2. Topic(call[c]) \in Topics  BY DEF Topic, Topics
  <2>3. log[Topic(call[c])] \in Seq(SUBSET Users)  BY <1>0, <2>2 DEF RowsOK
  <2>4. Append(log[Topic(call[c])], About(call[c])) \in Seq(SUBSET Users)  BY <2>1, <2>3
  <2>5. RowsOK'
    <3>1. log' = [log EXCEPT ![Topic(call[c])] = Append(log[Topic(call[c])], About(call[c]))]
      BY <1>5 DEF Publish
    <3>2. log' \in [Topics -> Seq(SUBSET Users)]  BY <1>0, <2>4, <3>1 DEF RowsOK
    <3> QED  BY <1>0, <1>5, <3>2 DEF Publish, RowsOK, conversation, ghosts
  <2>6. CallsOK'
    <3>1. Goto(c, "done") \/ Goto(c, "bump")  BY <1>5 DEF Publish
    <3> QED  BY <1>0, <1>5, <3>1, MoveOn DEF Publish
  <2> QED  BY <2>5, <2>6
<1>6. CASE BumpEpoch(c)
  <2>1. RowsOK'  BY <1>0, <1>6 DEF BumpEpoch, RowsOK, stream
  <2> DEFINE r == [call[c] EXCEPT !.pc = "announce", !.num = epoch + 1]
  <2>2. Good(r)
    <3>1. epoch + 1 \in Nat  BY <1>0 DEF RowsOK
    <3> DEFINE n == epoch + 1
    <3> HIDE DEF n
    <3>2. Good([call[c] EXCEPT !.pc = "announce", !.num = n])
      BY <1>0, <1>6, <3>1 DEF BumpEpoch, Good, CallStates, n
    <3> QED  BY <3>2 DEF n
  <2>3. call' = [call EXCEPT ![c] = r] \/ call' = [call EXCEPT ![c] = Done]  BY <1>6 DEF BumpEpoch
  <2>4. CallsOK'
    <3> HIDE DEF r
    <3> QED  BY <1>0, <2>2, <2>3, GoodIdle, MoveCall
  <2> QED  BY <2>1, <2>4
<1>7. CASE AnnounceEpoch(c)
  <2>1. call[c].num \in Nat  BY <1>0 DEF Good, CallStates
  <2>2. RowsOK'  BY <1>0, <1>7, <2>1 DEF AnnounceEpoch, RowsOK, conversation, ghosts
  <2>3. CallsOK'  BY <1>0, <1>7, Finish DEF AnnounceEpoch
  <2> QED  BY <2>2, <2>3
<1>8. CASE Abort(c)
  <2>1. About(call[c]) \in SUBSET Users  BY <1>0, <1>8 DEF Abort, About, Good, CallStates
  <2>2. RowsOK'  BY <1>0, <1>8, <2>1 DEF Abort, RowsOK, conversation, stream
  <2>3. CallsOK'  BY <1>0, <1>8, Finish DEF Abort
  <2> QED  BY <2>2, <2>3
<1> QED  BY <1>1, <1>2, <1>3, <1>4, <1>5, <1>6, <1>7, <1>8 DEF Step

\* The states the program may start in are well typed.
LEMMA InitType == Init => TypeOK
<1> SUFFICES ASSUME Init PROVE RowsOK /\ CallsOK  BY TypeParts
<1>1. CallsOK  BY GoodIdle DEF Init, CallsOK, Good
<1>2. RowsOK  BY DEF Init, RowsOK, Topics
<1> QED  BY <1>1, <1>2

\* Every variable of the conversation keeps its type, whichever calls break off.
THEOREM ChannelsTypeCorrect == ChanSpec => []TypeOK
<1>1. TypeOK /\ [ChanNext]_chanVars => TypeOK'
  <2> SUFFICES ASSUME TypeOK, [ChanNext]_chanVars PROVE TypeOK'  OBVIOUS
  <2>1. CASE ChanNext  BY <2>1, StartType, StepType DEF ChanNext
  <2>2. CASE UNCHANGED chanVars  BY <2>2 DEF chanVars, conversation, stream, ghosts, TypeOK
  <2> QED  BY <2>1, <2>2
<1> QED  BY <1>1, InitType, PTL DEF ChanSpec

----------------------------------------------------------------------------
(* The last owner                                                          *)

\* The call is about to take ownership away from its user, if he has it.
Taking(r) == r.pc = "write" /\ TakesOwnership(r)

\* If u is an owner, so is someone else.
Spared(u) == role[u] = "owner" => \E v \in Users \ {u} : role[v] = "owner"

\* As long as no owner changed behind a call's back, whoever is about to lose the ownership
\* is not the only one to have it.  OwnerlessOnlyByRace alone is not inductive: it says
\* nothing of the calls that have counted.
OwnInv ==
    "owners" \notin crossed =>
        /\ owned => Owners # {}
        /\ \A d \in Calls : Taking(call[d]) => Spared(call[d].user)

\* A step that leaves the rows alone only has to answer for the calls it sends to write.
LEMMA OwnersKept ==
    ASSUME OwnInv, role' = role, owned' = owned, crossed' = crossed,
           \A d \in Calls : \/ call'[d] = call[d]
                            \/ ~Taking(call'[d])
                            \/ Spared(call'[d].user)
    PROVE  OwnInv'
BY DEF OwnInv, Spared, Owners, Taking, TakesOwnership

\* Of two owners at least one is not u.
LEMMA AnotherOwner ==
    ASSUME NEW u, Cardinality(Owners) > 1
    PROVE  \E v \in Users \ {u} : role[v] = "owner"
<1> SUFFICES ASSUME \A v \in Users \ {u} : role[v] # "owner" PROVE FALSE  OBVIOUS
<1>1. Owners \subseteq {u}  BY DEF Owners
<1>2. IsFiniteSet({u}) /\ Cardinality({u}) = 1  BY FS_Singleton
<1>3. Cardinality(Owners) \in Nat /\ Cardinality(Owners) <= 1
  BY <1>1, <1>2, FS_Subset, FS_CardinalityType
<1> QED  BY <1>3

\* A step that writes the rows may change the owners only while no other call relies on them.
LEMMA OwnersWritten ==
    ASSUME TypeOK, OwnInv, NEW c \in Calls, NEW rows \in [Users -> {"none"} \cup Roles],
           SetRows(c, rows),
           \A d \in Calls \ {c} : call'[d] = call[d],
           ~Taking(call'[c]),
           owned \/ {u \in Users : rows[u] = "owner"} # {} =>
               "owners" \in crossed \/ {u \in Users : rows[u] = "owner"} # {}
    PROVE  OwnInv'
<1> SUFFICES ASSUME "owners" \notin crossed' PROVE OwnInv'  BY DEF OwnInv
<1>1. role' = rows /\ crossed \subseteq crossed' /\ Relied(c, rows) \subseteq crossed'
  BY DEF SetRows
<1>2. "owners" \notin crossed /\ "owners" \notin Relied(c, rows)  BY <1>1
<1>3. owned' => Owners' # {}  BY <1>1, <1>2 DEF SetRows, Owners
<1>4. ASSUME NEW d \in Calls, Taking(call'[d]) PROVE Spared(call[d].user)' /\ call'[d] = call[d]
  <2>1. d # c /\ call'[d] = call[d] /\ Taking(call[d])  BY <1>4 DEF Taking, TakesOwnership
  <2>2. Owners = {u \in Users : rows[u] = "owner"}  BY <1>2, <2>1 DEF Relied, Taking
  <2>3. \A u \in Users : role[u] = "owner" <=> rows[u] = "owner"  BY <2>2 DEF Owners
  <2>4. call[d].user \in Users  BY <2>1 DEF TypeOK, Taking
  <2>5. Spared(call[d].user)  BY <1>2, <2>1 DEF OwnInv
  <2> QED  BY <1>1, <2>1, <2>3, <2>4, <2>5 DEF Spared
<1> QED  BY <1>3, <1>4 DEF OwnInv, Taking, TakesOwnership, Spared

\* A call that has begun is about to take nothing away and has removed nobody.
Fresh(r) ==
    /\ ~Taking(r)
    /\ ~(r.op = "remove" /\ r.pc \in {"publish", "bump"})

LEMMA StartsFresh ==
    ASSUME TypeOK, NEW c \in Calls, Start(c)
    PROVE  /\ Fresh(call'[c])
           /\ \A d \in Calls \ {c} : call'[d] = call[d]
<1>0. call \in [Calls -> CallStates]  BY DEF TypeOK
<1> USE <1>0 DEF Begin, Idle, Fresh, Taking, TakesOwnership
<1>1. CASE \E a \in Users : CreateDm(c, a)  BY <1>1 DEF CreateDm, Ensure
<1>2. CASE \E a \in Users, S \in SUBSET Users : CreateGroup(c, a, S)
  BY <1>2 DEF CreateGroup, Ensure
<1>3. CASE \E a \in Users : CreateChannel(c, a)  BY <1>3 DEF CreateChannel, Ensure
<1>4. CASE \E a \in Users, u \in Users, r \in Roles : AddMember(c, a, u, r)  BY <1>4 DEF AddMember
<1>5. CASE \E a \in Users, u \in Users : RemoveMember(c, a, u)  BY <1>5 DEF RemoveMember
<1>6. CASE \E a \in Users, u \in Users, r \in Roles : SetMemberRole(c, a, u, r)
  BY <1>6 DEF SetMemberRole
<1>7. CASE \E u \in Users : LeaveChannel(c, u)  BY <1>7 DEF LeaveChannel
<1>8. CASE \E u \in Users : JoinChannel(c, u)  BY <1>8 DEF JoinChannel
<1> QED  BY <1>1, <1>2, <1>3, <1>4, <1>5, <1>6, <1>7, <1>8 DEF Start

\* The first step of any call keeps the invariant.
LEMMA StartOwners ==
    ASSUME TypeOK, OwnInv, NEW c \in Calls, Start(c)
    PROVE  OwnInv'
<1>1. role' = role /\ owned' = owned /\ crossed' = crossed
  BY DEF Start, CreateDm, CreateGroup, CreateChannel, AddMember, RemoveMember, SetMemberRole,
         LeaveChannel, JoinChannel, Ensure, conversation, ghosts
<1>2. \A d \in Calls : call'[d] = call[d] \/ ~Taking(call'[d])  BY StartsFresh DEF TypeOK, Fresh
<1> QED  BY <1>1, <1>2, OwnersKept

\* So does every later step.
LEMMA StepOwners ==
    ASSUME TypeOK, OwnInv, NEW c \in Calls, Step(c)
    PROVE  OwnInv'
<1>0. /\ call \in [Calls -> CallStates]
      /\ role \in [Users -> {"none"} \cup Roles]
      /\ ~Taking(Done)
  BY DEF TypeOK, Taking, Done, Idle
<1>1. CASE ReadTarget(c)
  <2>1. /\ call'[c].user = call[c].user \/ ~Taking(call'[c])
        /\ call'[c].pc = "write" /\ TakesOwnership(call'[c]) => role[call[c].user] # "owner"
    BY <1>0, <1>1 DEF ReadTarget, Taking, TakesOwnership, CallStates, Done, Idle
  <2>2. \A d \in Calls : call'[d] = call[d] \/ ~Taking(call'[d]) \/ Spared(call'[d].user)
    BY <1>0, <1>1, <2>1 DEF ReadTarget, Taking, Spared
  <2> QED  BY <1>1, <2>2, OwnersKept DEF ReadTarget, conversation, ghosts
<1>2. CASE Count(c)
  <2>1. Taking(call'[c]) => Spared(call'[c].user)
    <3>1. SUFFICES ASSUME Taking(call'[c]) PROVE Spared(call'[c].user)  OBVIOUS
    <3>2. call[c].op # "add" /\ Goto(c, "write")
      BY <1>0, <1>2, <3>1 DEF Count, Goto, Taking, TakesOwnership, CallStates
    <3>3. Cardinality(Owners) > 1  BY <1>0, <1>2, <3>1, <3>2 DEF Count, Goto, Taking, CallStates
    <3> QED  BY <3>3, AnotherOwner DEF Spared
  <2>2. \A d \in Calls : call'[d] = call[d] \/ ~Taking(call'[d]) \/ Spared(call'[d].user)
    BY <1>0, <1>2, <2>1 DEF Count, Goto
  <2> QED  BY <1>2, <2>2, OwnersKept DEF Count, conversation, ghosts
<1>3. CASE InsertRows(c)
  <2> DEFINE d == call[c]
             now == IF d.actor \in d.todo /\ kind = "dm" THEN {d.actor} ELSE d.todo
             rank(u) == IF kind # "dm" /\ u = d.actor THEN "owner" ELSE "member"
             rows == [u \in Users |-> IF u \in now /\ role[u] = "none" THEN rank(u) ELSE role[u]]
  <2>1. SetRows(c, rows)  BY <1>3 DEF InsertRows
  <2>2. rows \in [Users -> {"none"} \cup Roles]  BY <1>0 DEF Roles
  <2>3. \A u \in Users : role[u] = "owner" => rows[u] = "owner"  OBVIOUS
  <2>4. ~Taking(call'[c]) /\ \A e \in Calls \ {c} : call'[e] = call[e]
    BY <1>0, <1>3 DEF InsertRows, Taking, CallStates
  <2> HIDE DEF rows
  <2> QED  BY <2>1, <2>2, <2>3, <2>4, OwnersWritten DEF OwnInv, Owners
<1>4. CASE Write(c)
  <2> DEFINE u == call[c].user
  <2>1. u \in Users /\ call[c].to \in Roles  BY <1>0, <1>4 DEF Write, TypeOK, CallStates
  <2>2. \E new \in {"none"} \cup Roles :
           /\ SetRows(c, [role EXCEPT ![u] = new])
           /\ role[u] = "owner" /\ new # "owner" => TakesOwnership(call[c])
    BY <1>0, <1>4, <2>1 DEF Write, TakesOwnership, Roles, CallStates, Ops
  <2>3. PICK new \in {"none"} \cup Roles :
           /\ SetRows(c, [role EXCEPT ![u] = new])
           /\ role[u] = "owner" /\ new # "owner" => TakesOwnership(call[c])
    BY <2>2
  <2> DEFINE rows == [role EXCEPT ![u] = new]
  <2>4. rows \in [Users -> {"none"} \cup Roles]  BY <1>0
  <2>5. ASSUME "owners" \notin crossed, owned PROVE {v \in Users : rows[v] = "owner"} # {}
    <3>1. Owners # {}  BY <2>5 DEF OwnInv
    <3>2. CASE role[u] = "owner" /\ new # "owner"
      <4>1. Taking(call[c])  BY <1>4, <2>3, <3>2 DEF Taking, Write
      <4>2. Spared(u)  BY <2>5, <4>1 DEF OwnInv
      <4> QED  BY <1>0, <3>2, <4>2 DEF Spared
    <3>3. CASE ~(role[u] = "owner" /\ new # "owner")  BY <1>0, <2>1, <3>1, <3>3 DEF Owners
    <3> QED  BY <3>2, <3>3
  <2>6. ~Taking(call'[c]) /\ \A e \in Calls \ {c} : call'[e] = call[e]
    BY <1>0, <1>4 DEF Write, Goto, Taking, CallStates
  <2> HIDE DEF rows
  <2>7. SetRows(c, rows)  BY <2>3 DEF rows
  <2> QED  BY <2>4, <2>5, <2>6, <2>7, OwnersWritten
<1>5. CASE Publish(c) \/ BumpEpoch(c) \/ AnnounceEpoch(c) \/ Abort(c)
  <2>1. role' = role /\ owned' = owned /\ crossed' = crossed
    BY <1>5 DEF Publish, BumpEpoch, AnnounceEpoch, Abort, conversation, ghosts
  <2>2. \A d \in Calls : call'[d] = call[d] \/ ~Taking(call'[d])
    BY <1>0, <1>5 DEF Publish, BumpEpoch, AnnounceEpoch, Abort, Goto, Taking, CallStates
  <2> QED  BY <2>1, <2>2, OwnersKept
<1> QED  BY <1>1, <1>2, <1>3, <1>4, <1>5 DEF Step

\* The invariant holds of every reachable state.
LEMMA OwnersInvariant == ChanSpec => []OwnInv
<1>1. Init => OwnInv
  <2> SUFFICES ASSUME Init PROVE OwnInv  OBVIOUS
  <2>1. owned => Owners # {}  BY DEF Init
  <2>2. \A d \in Calls : ~Taking(call[d])  BY DEF Init, Idle, Taking
  <2> QED  BY <2>1, <2>2 DEF OwnInv
<1>2. TypeOK /\ OwnInv /\ [ChanNext]_chanVars => OwnInv'
  <2> SUFFICES ASSUME TypeOK, OwnInv, [ChanNext]_chanVars PROVE OwnInv'  OBVIOUS
  <2>1. CASE ChanNext  BY <2>1, StartOwners, StepOwners DEF ChanNext
  <2>2. CASE UNCHANGED chanVars  BY <2>2, OwnersKept DEF chanVars, conversation, ghosts
  <2> QED  BY <2>1, <2>2
<1> QED  BY <1>1, <1>2, ChannelsTypeCorrect, PTL DEF ChanSpec

\* Last-owner protection, for any number of users and calls: leaveChannel, removeMember and
\* setMemberRole leave a conversation that has had an owner without one only if the owners
\* changed between a call's look and its write.
THEOREM OwnersLostOnlyByRace == ChanSpec => []OwnerlessOnlyByRace
<1>1. OwnInv => OwnerlessOnlyByRace  BY DEF OwnInv, OwnerlessOnlyByRace
<1> QED  BY <1>1, OwnersInvariant, PTL

----------------------------------------------------------------------------
(* The key of a group                                                      *)

\* Between its DELETE and its UPDATE of the epoch, removeMember owes the group a new key.
Rotating(r) == r.op = "remove" /\ r.pc \in {"publish", "bump"}

\* Whoever was removed and still holds the key waits for such a call.
KeyInv ==
    kind = "group" /\ faults = 0 /\ holders # {} => \E c \in Calls : Rotating(call[c])

\* A step of a call that is not rotating, and gives nobody the key of a group he is out of.
LEMMA KeyKept ==
    ASSUME KeyInv, NEW c \in Calls, ~Rotating(call[c]),
           kind' = kind, faults' = faults, holders' \subseteq holders,
           \A d \in Calls \ {c} : call'[d] = call[d]
    PROVE  KeyInv'
<1> SUFFICES ASSUME (kind = "group" /\ faults = 0 /\ holders # {})'
             PROVE  \E d \in Calls : Rotating(call'[d])
  BY DEF KeyInv, Rotating
<1>1. PICK d \in Calls : Rotating(call[d])  BY DEF KeyInv
<1> QED  BY <1>1

\* Every step keeps the invariant.
LEMMA KeyStep ==
    ASSUME TypeOK, KeyInv, NEW c \in Calls, Start(c) \/ Step(c)
    PROVE  KeyInv'
<1>0. call \in [Calls -> CallStates] /\ faults \in Nat  BY DEF TypeOK
<1>1. CASE Start(c)
  <2>1. call[c] = Idle /\ UNCHANGED <<kind, faults, holders>>
    BY <1>1 DEF Start, CreateDm, CreateGroup, CreateChannel, AddMember, RemoveMember,
           SetMemberRole, LeaveChannel, JoinChannel, Ensure, Begin, conversation, ghosts
  <2>2. ~Rotating(call[c])  BY <2>1 DEF Rotating, Idle
  <2> QED  BY <1>1, <2>1, <2>2, StartsFresh, KeyKept
<1>2. CASE ReadTarget(c) \/ Count(c) \/ InsertRows(c) \/ AnnounceEpoch(c)
  <2>1. ~Rotating(call[c])  BY <1>2 DEF ReadTarget, Count, InsertRows, AnnounceEpoch, Rotating
  <2>2. UNCHANGED <<kind, faults, holders>>
    BY <1>2 DEF ReadTarget, Count, InsertRows, AnnounceEpoch, conversation, ghosts
  <2>3. \A d \in Calls \ {c} : call'[d] = call[d]
    BY <1>0, <1>2 DEF ReadTarget, Count, InsertRows, AnnounceEpoch, Goto
  <2> QED  BY <2>1, <2>2, <2>3, KeyKept
<1>3. CASE Write(c)
  <2>1. CASE call[c].op = "remove"
    <3>1. Rotating(call'[c])  BY <1>0, <1>3, <2>1 DEF Write, Goto, Rotating, CallStates
    <3> QED  BY <3>1 DEF KeyInv, Rotating
  <2>2. CASE call[c].op # "remove"
    <3>1. ~Rotating(call[c]) /\ UNCHANGED <<kind, faults>> /\ holders' \subseteq holders
      BY <1>3, <2>2 DEF Write, Rotating
    <3>2. \A d \in Calls \ {c} : call'[d] = call[d]  BY <1>0, <1>3 DEF Write, Goto
    <3> QED  BY <3>1, <3>2, KeyKept
  <2> QED  BY <2>1, <2>2
<1>4. CASE Publish(c)
  <2>1. UNCHANGED <<kind, faults, holders>> /\ \A d \in Calls \ {c} : call'[d] = call[d]
    BY <1>0, <1>4 DEF Publish, Goto, conversation, ghosts
  <2>2. CASE call[c].op = "remove"
    <3>1. Rotating(call'[c])  BY <1>0, <1>4, <2>2 DEF Publish, Goto, Rotating, CallStates
    <3> QED  BY <3>1 DEF KeyInv, Rotating
  <2>3. CASE call[c].op # "remove"  BY <2>1, <2>3, KeyKept DEF Rotating
  <2> QED  BY <2>2, <2>3
<1>5. CASE BumpEpoch(c)
  <2>1. kind' = kind /\ (kind = "group" => holders' = {})  BY <1>5 DEF BumpEpoch
  <2> QED  BY <2>1 DEF KeyInv
<1>6. CASE Abort(c)
  <2>1. faults' # 0  BY <1>0, <1>6 DEF Abort
  <2> QED  BY <2>1 DEF KeyInv
<1> QED  BY <1>1, <1>2, <1>3, <1>4, <1>5, <1>6 DEF Step

\* removeMember leaves nobody it removed with the key of the epoch in force, for any number
\* of concurrent calls, as long as none of them breaks off.
THEOREM RemovedMembersLoseTheKey == ChanSpec => []RemovedLoseTheKey
<1>1. Init => KeyInv  BY DEF Init, KeyInv
<1>2. TypeOK /\ KeyInv /\ [ChanNext]_chanVars => KeyInv'
  <2> SUFFICES ASSUME TypeOK, KeyInv, [ChanNext]_chanVars PROVE KeyInv'  OBVIOUS
  <2>1. CASE ChanNext  BY <2>1, KeyStep DEF ChanNext
  <2>2. CASE UNCHANGED chanVars  BY <2>2 DEF chanVars, conversation, ghosts, KeyInv, Rotating
  <2> QED  BY <2>1, <2>2
<1>3. KeyInv => RemovedLoseTheKey  BY DEF KeyInv, RemovedLoseTheKey, Rotating, Quiet
<1> QED  BY <1>1, <1>2, <1>3, ChannelsTypeCorrect, PTL DEF ChanSpec

----------------------------------------------------------------------------
(* The size of a group                                                     *)

Adding(r)  == r.op = "add" /\ r.pc \in {"count", "write"}
Admitted(r) == r.op = "add" /\ r.pc = "write"

\* Nobody acts on a group before its row exists, nobody is in it and nobody adds to it before
\* its creation has inserted its members, and nobody joins it on his own.
GroupBegins ==
    /\ ~exists => Members = {} /\ Quiet
    /\ \A c \in Calls : /\ call[c].op # "join"
                        /\ call[c].pc = "target" => call[c].op # "add"
                        /\ call[c].pc \in {"target", "count", "write"} => call[c].op # "create"
    /\ \A c \in Calls : call[c].pc = "rows" =>
           /\ Members = {}
           /\ Cardinality(call[c].todo) <= MaxMembers
           /\ \A d \in Calls \ {c} : ~Adding(call[d]) /\ call[d].pc # "rows"

\* As long as no member came behind the back of a call that has counted, there is room.
RoomLeft ==
    "limit" \notin crossed =>
        /\ Cardinality(Members) <= MaxMembers
        /\ \A d \in Calls : Admitted(call[d]) => Cardinality(Members) < MaxMembers

LimitInv == kind = "group" => GroupBegins /\ RoomLeft

\* Sets of members are finite.
LEMMA MembersFinite ==
    ASSUME NEW S \in SUBSET Users
    PROVE  IsFiniteSet(S) /\ Cardinality(S) \in Nat
BY ChannelsAssumption, FS_Subset, FS_CardinalityType

\* Operations on a group that exists begin with a query, and only admins add.
LEMMA GroupStart ==
    ASSUME TypeOK, LimitInv, NEW c \in Calls, Start(c), kind = "group"
    PROVE  LimitInv'
<1>0. call \in [Calls -> CallStates] /\ call[c] = Idle
  BY DEF TypeOK, Start, CreateDm, CreateGroup, CreateChannel, AddMember, RemoveMember,
         SetMemberRole, LeaveChannel, JoinChannel, Ensure, Begin
<1>1. UNCHANGED <<kind, role, crossed>> /\ \A d \in Calls \ {c} : call'[d] = call[d]
  BY <1>0, StartsFresh DEF Start, CreateDm, CreateGroup, CreateChannel, AddMember, RemoveMember,
         SetMemberRole, LeaveChannel, JoinChannel, Ensure, conversation, ghosts
<1>2. GroupBegins /\ RoomLeft /\ Members' = Members  BY <1>1 DEF LimitInv, Members
<1>3. CASE \E a \in Users, S \in SUBSET Users : CreateGroup(c, a, S)
  <2>1. PICK a \in Users, S \in SUBSET Users : CreateGroup(c, a, S)  BY <1>3
  <2>2. ~exists /\ exists' /\ Quiet /\ Members = {}
    BY <1>2, <2>1 DEF CreateGroup, Ensure, GroupBegins
  <2>3. /\ call'[c].pc = "rows" /\ call'[c].op = "create" /\ call'[c].todo = {a} \cup S
        /\ Cardinality({a} \cup S) <= MaxMembers
    BY <1>0, <2>1, <2>2 DEF CreateGroup, Ensure, Begin, Idle
  <2>4. \A d \in Calls \ {c} : ~Adding(call'[d]) /\ call'[d].pc # "rows"
    BY <1>1, <2>2 DEF Quiet, Adding
  <2>5. GroupBegins'  BY <1>1, <1>2, <2>2, <2>3, <2>4 DEF GroupBegins
  <2>6. RoomLeft'
    <3>1. ~Admitted(call'[c])  BY <2>3 DEF Admitted
    <3> QED  BY <1>1, <1>2, <3>1 DEF RoomLeft, Admitted
  <2> QED  BY <2>5, <2>6 DEF LimitInv
<1>4. CASE ~\E a \in Users, S \in SUBSET Users : CreateGroup(c, a, S)
  <2>1. /\ exists /\ exists'
        /\ call'[c].op # "join" /\ call'[c].pc # "rows" /\ ~Admitted(call'[c])
        /\ call'[c].pc = "target" => call'[c].op # "add"
        /\ call'[c].pc \in {"target", "count", "write"} => call'[c].op # "create"
        /\ call'[c].op = "add" => Members # {}
    <3> USE <1>0 DEF Begin, Idle, conversation, Admitted
    <3>1. CASE \E a \in Users, u \in Users, r \in Roles : AddMember(c, a, u, r)
      BY <3>1 DEF AddMember, Admins, Members
    <3>2. CASE \E a \in Users, u \in Users : RemoveMember(c, a, u)  BY <3>2 DEF RemoveMember
    <3>3. CASE \E a \in Users, u \in Users, r \in Roles : SetMemberRole(c, a, u, r)
      BY <3>3 DEF SetMemberRole
    <3>4. CASE \E u \in Users : LeaveChannel(c, u)  BY <3>4 DEF LeaveChannel
    <3> QED  BY <1>4, <3>1, <3>2, <3>3, <3>4 DEF Start, CreateDm, CreateChannel, JoinChannel
  <2>2. GroupBegins'  BY <1>1, <1>2, <2>1 DEF GroupBegins, Adding
  <2>3. RoomLeft'  BY <1>1, <1>2, <2>1 DEF RoomLeft, Admitted
  <2> QED  BY <2>2, <2>3 DEF LimitInv
<1> QED  BY <1>3, <1>4

\* Later steps that do not write the rows.
LEMMA GroupGoesOn ==
    ASSUME TypeOK, LimitInv, NEW c \in Calls, kind = "group",
           call[c].pc \notin {"idle", "done"},
           UNCHANGED <<kind, exists, role, crossed>>,
           \A d \in Calls \ {c} : call'[d] = call[d],
           call'[c].op # "join", call'[c].pc \notin {"rows", "target"},
           call'[c].pc \in {"count", "write"} => call'[c].op # "create",
           Adding(call'[c]) => Adding(call[c]),
           Admitted(call'[c]) => Cardinality(Members) < MaxMembers
    PROVE  LimitInv'
<1>1. GroupBegins /\ RoomLeft /\ Members' = Members  BY DEF LimitInv, Members
<1>2. exists  BY <1>1 DEF GroupBegins, Quiet
<1>3. GroupBegins'  BY <1>1, <1>2 DEF GroupBegins
<1>4. RoomLeft'  BY <1>1 DEF RoomLeft
<1> QED  BY <1>3, <1>4 DEF LimitInv

\* A write of the rows by a call that is none of the additions admitted.
LEMMA GroupWrites ==
    ASSUME TypeOK, LimitInv, NEW c \in Calls, kind = "group",
           call[c].pc \in {"rows", "write"},
           NEW rows \in [Users -> {"none"} \cup Roles], SetRows(c, rows),
           UNCHANGED <<kind, exists>>,
           \A d \in Calls \ {c} : call'[d] = call[d],
           call'[c].op # "join", call'[c].pc \notin {"rows", "target", "count", "write"},
           LET in == {u \in Users : rows[u] # "none"} IN
               \/ in \subseteq Members
               \/ "limit" \notin crossed => Cardinality(in) <= MaxMembers,
           (\E d \in Calls \ {c} : call[d].pc = "rows") => {u \in Users : rows[u] # "none"} = {}
    PROVE  LimitInv'
<1> DEFINE in == {u \in Users : rows[u] # "none"}
<1>1. GroupBegins /\ RoomLeft /\ Members' = in /\ exists
  BY DEF LimitInv, Members, SetRows, GroupBegins, Quiet
<1>2. GroupBegins'
  <2>1. ASSUME NEW d \in Calls, call'[d].pc = "rows" PROVE d # c /\ call[d].pc = "rows"  BY <2>1
  <2>2. ASSUME NEW d \in Calls, call'[d].pc = "rows" PROVE in = {}
    BY <1>1, <2>1, <2>2 DEF GroupBegins
  <2> QED  BY <1>1, <2>1, <2>2 DEF GroupBegins, Adding
<1>3. RoomLeft'
  <2> SUFFICES ASSUME "limit" \notin crossed'
               PROVE  /\ Cardinality(in) <= MaxMembers
                      /\ \A d \in Calls : Admitted(call'[d]) => Cardinality(in) < MaxMembers
    BY <1>1 DEF RoomLeft
  <2>1. "limit" \notin crossed /\ "limit" \notin Relied(c, rows)  BY DEF SetRows
  <2>2. Cardinality(Members) <= MaxMembers  BY <1>1, <2>1 DEF RoomLeft
  <2>3. Cardinality(in) <= MaxMembers
    <3>1. CASE in \subseteq Members
      <4>1. IsFiniteSet(Members) /\ Cardinality(Members) \in Nat /\ Cardinality(in) \in Nat
        BY MembersFinite DEF Members
      <4>2. Cardinality(in) <= Cardinality(Members)  BY <3>1, <4>1, FS_Subset
      <4> QED  BY <2>2, <4>1, <4>2, ChannelsAssumption
    <3> QED  BY <2>1, <3>1
  <2>4. ASSUME NEW d \in Calls, Admitted(call'[d]) PROVE Cardinality(in) < MaxMembers
    <3>1. d # c /\ Admitted(call[d])  BY <2>4 DEF Admitted
    <3>2. Members = in  BY <2>1, <3>1 DEF Relied, Admitted
    <3> QED  BY <1>1, <2>1, <3>1, <3>2 DEF RoomLeft
  <2> QED  BY <2>3, <2>4
<1> QED  BY <1>2, <1>3 DEF LimitInv

\* One more member than there are.
LEMMA OneMore ==
    ASSUME NEW S \in SUBSET Users, NEW u \in Users, Cardinality(S) < MaxMembers
    PROVE  Cardinality(S \cup {u}) <= MaxMembers
<1>1. IsFiniteSet(S) /\ Cardinality(S) \in Nat  BY MembersFinite
<1>2. Cardinality(S \cup {u}) = IF u \in S THEN Cardinality(S) ELSE Cardinality(S) + 1
  BY <1>1, FS_AddElement
<1> QED  BY <1>1, <1>2, ChannelsAssumption

\* Every later step keeps the invariant.
LEMMA GroupStep ==
    ASSUME TypeOK, LimitInv, NEW c \in Calls, Step(c), kind = "group"
    PROVE  LimitInv'
<1>0. /\ call \in [Calls -> CallStates]
      /\ role \in [Users -> {"none"} \cup Roles]
      /\ GroupBegins /\ RoomLeft
      /\ call[c].pc \notin {"idle", "done"}
  BY DEF TypeOK, LimitInv, Step, ReadTarget, Count, InsertRows, Write, Publish, BumpEpoch,
         AnnounceEpoch, Abort
<1>1. call[c].op # "join"  BY <1>0 DEF GroupBegins
<1>2. CASE ReadTarget(c)
  <2>1. call[c].op # "add"  BY <1>0, <1>2 DEF ReadTarget, GroupBegins
  <2>2. /\ call'[c].op # "join" /\ call'[c].pc \notin {"rows", "target"}
        /\ call'[c].pc \in {"count", "write"} => call'[c].op # "create"
        /\ ~Adding(call'[c]) /\ ~Admitted(call'[c])
    BY <1>0, <1>1, <1>2, <2>1 DEF GroupBegins, ReadTarget, CallStates, Done, Idle, Adding, Admitted
  <2>3. \A d \in Calls \ {c} : call'[d] = call[d]  BY <1>0, <1>2 DEF ReadTarget
  <2>4. UNCHANGED <<kind, exists, role, crossed>>  BY <1>2 DEF ReadTarget, conversation, ghosts
  <2> QED  BY <1>0, <2>2, <2>3, <2>4, GroupGoesOn
<1>3. CASE Count(c)
  <2>1. /\ call'[c].op # "join" /\ call'[c].pc \notin {"rows", "target"}
        /\ call'[c].pc \in {"count", "write"} => call'[c].op # "create"
        /\ Adding(call'[c]) => Adding(call[c])
        /\ Admitted(call'[c]) => Cardinality(Members) < MaxMembers
    BY <1>0, <1>1, <1>3 DEF GroupBegins, Count, Goto, CallStates, Done, Idle, Adding, Admitted
  <2>2. \A d \in Calls \ {c} : call'[d] = call[d]  BY <1>0, <1>3 DEF Count, Goto
  <2>3. UNCHANGED <<kind, exists, role, crossed>>  BY <1>3 DEF Count, conversation, ghosts
  <2> QED  BY <1>0, <2>1, <2>2, <2>3, GroupGoesOn
<1>4. CASE InsertRows(c)
  <2> DEFINE d == call[c]
             now == IF d.actor \in d.todo /\ kind = "dm" THEN {d.actor} ELSE d.todo
             rank(u) == IF kind # "dm" /\ u = d.actor THEN "owner" ELSE "member"
             rows == [u \in Users |-> IF u \in now /\ role[u] = "none" THEN rank(u) ELSE role[u]]
             in == {u \in Users : rows[u] # "none"}
  <2>1. SetRows(c, rows) /\ d.pc = "rows"  BY <1>4 DEF InsertRows
  <2>2. rows \in [Users -> {"none"} \cup Roles]  BY <1>0 DEF Roles
  <2>3. Members = {} /\ Cardinality(d.todo) <= MaxMembers /\ d.todo \subseteq Users
    BY <1>0, <2>1 DEF GroupBegins, CallStates
  <2>4. in \subseteq d.todo  BY <2>3 DEF Members
  <2>5. Cardinality(in) <= MaxMembers
    <3>1. Cardinality(in) \in Nat /\ IsFiniteSet(d.todo) /\ Cardinality(d.todo) \in Nat
      BY <2>3, MembersFinite
    <3>2. Cardinality(in) <= Cardinality(d.todo)  BY <2>4, <3>1, FS_Subset
    <3> QED  BY <2>3, <3>1, <3>2, ChannelsAssumption
  <2>6. /\ call'[c].op # "join" /\ call'[c].pc \notin {"rows", "target", "count", "write"}
        /\ \A e \in Calls \ {c} : call'[e] = call[e]
    BY <1>0, <1>1, <1>4 DEF InsertRows, CallStates
  <2>7. UNCHANGED <<kind, exists>>  BY <1>4 DEF InsertRows
  <2> HIDE DEF rows
  <2>8. ~\E e \in Calls \ {c} : call[e].pc = "rows"  BY <1>0, <2>1 DEF GroupBegins
  <2> QED  BY <2>1, <2>2, <2>5, <2>6, <2>7, <2>8, GroupWrites
<1>5. CASE Write(c)
  <2> DEFINE u == call[c].user
             has == role[u] # "none"
             new == CASE call[c].op \in {"remove", "leave"} -> "none"
                      [] call[c].op = "setRole" -> IF has THEN call[c].to ELSE "none"
                      [] OTHER -> IF has THEN role[u] ELSE call[c].to
             rows == [role EXCEPT ![u] = new]
             in == {v \in Users : rows[v] # "none"}
  <2>1. SetRows(c, rows)  BY <1>5 DEF Write
  <2>2. u \in Users /\ call[c].to \in Roles  BY <1>0, <1>5 DEF Write, TypeOK, CallStates
  <2>3. new \in {"none"} \cup Roles  BY <1>0, <2>2
  <2>4. rows \in [Users -> {"none"} \cup Roles]  BY <1>0, <2>3
  <2>5. \/ in \subseteq Members
        \/ call[c].op = "add" /\ in \subseteq Members \cup {u}
    <3>1. call[c].op \in {"add", "remove", "leave", "setRole"}
      BY <1>0, <1>1, <1>5 DEF Write, GroupBegins, CallStates, Ops
    <3>2. CASE call[c].op = "add"  BY <1>0, <2>2, <3>2 DEF Members
    <3>3. CASE call[c].op # "add"  BY <1>0, <2>2, <3>1, <3>3 DEF Members
    <3> QED  BY <3>2, <3>3
  <2>6. /\ call'[c].op # "join" /\ call'[c].pc \notin {"rows", "target", "count", "write"}
        /\ \A e \in Calls \ {c} : call'[e] = call[e]
    BY <1>0, <1>1, <1>5 DEF Write, Goto, CallStates, Done, Idle
  <2>7. UNCHANGED <<kind, exists>>  BY <1>5 DEF Write
  <2> HIDE DEF rows
  <2>8. in \subseteq Members \/ ("limit" \notin crossed => Cardinality(in) <= MaxMembers)
    <3> SUFFICES ASSUME ~(in \subseteq Members), "limit" \notin crossed
                 PROVE  Cardinality(in) <= MaxMembers
      OBVIOUS
    <3>1. Admitted(call[c]) /\ in \subseteq Members \cup {u}  BY <1>5, <2>5 DEF Write, Admitted
    <3>2. Members \in SUBSET Users /\ Cardinality(Members) < MaxMembers
      BY <1>0, <3>1 DEF RoomLeft, Members
    <3>3. Cardinality(Members \cup {u}) <= MaxMembers  BY <2>2, <3>2, OneMore
    <3>4. /\ IsFiniteSet(Members \cup {u}) /\ Cardinality(Members \cup {u}) \in Nat
          /\ Cardinality(in) \in Nat
      BY <2>2, MembersFinite DEF Members
    <3>5. Cardinality(in) <= Cardinality(Members \cup {u})  BY <3>1, <3>4, FS_Subset
    <3> QED  BY <3>3, <3>4, <3>5, ChannelsAssumption
  <2>9. (\E d \in Calls \ {c} : call[d].pc = "rows") => in = {}
    BY <1>0, <1>5, <2>5 DEF GroupBegins, Write, Adding
  <2> QED  BY <1>5, <2>1, <2>4, <2>6, <2>7, <2>8, <2>9, GroupWrites DEF Write
<1>6. CASE Publish(c) \/ BumpEpoch(c) \/ AnnounceEpoch(c) \/ Abort(c)
  <2>1. /\ call'[c].op # "join" /\ call'[c].pc \notin {"rows", "target", "count", "write"}
        /\ \A e \in Calls \ {c} : call'[e] = call[e]
    <3> USE <1>0, <1>1 DEF Goto, CallStates, Done, Idle
    <3>1. CASE Publish(c)  BY <3>1 DEF Publish
    <3>2. CASE BumpEpoch(c)  BY <3>2 DEF BumpEpoch
    <3>3. CASE AnnounceEpoch(c)  BY <3>3 DEF AnnounceEpoch
    <3>4. CASE Abort(c)  BY <3>4 DEF Abort
    <3> QED  BY <1>6, <3>1, <3>2, <3>3, <3>4
  <2>2. UNCHANGED <<kind, exists, role, crossed>>
    BY <1>6 DEF Publish, BumpEpoch, AnnounceEpoch, Abort, conversation, ghosts
  <2> QED  BY <1>0, <2>1, <2>2, GroupGoesOn DEF Adding, Admitted
<1> QED  BY <1>2, <1>3, <1>4, <1>5, <1>6 DEF Step

\* Calls that were not made yet and the rows of an established group start the invariant.
LEMMA GroupInit == Init => LimitInv
<1> SUFFICES ASSUME Init, kind = "group" PROVE GroupBegins /\ RoomLeft  BY DEF LimitInv
<1>1. \A c \in Calls : call[c].pc = "idle" /\ call[c].op = "create"  BY DEF Init, Idle
<1>2. GroupBegins  BY <1>1 DEF Init, GroupBegins, Quiet, Adding
<1>3. Cardinality(Members) <= MaxMembers
  <2>1. CASE exists
    <3>1. Established(kind, role)  BY <2>1 DEF Init
    <3> QED  BY <3>1 DEF Established, Members
  <2>2. CASE ~exists
    <3>1. Members = {}  BY <2>2 DEF Init
    <3>2. Cardinality(Members) = 0  BY <3>1, FS_EmptySet
    <3> QED  BY <3>2, ChannelsAssumption
  <2> QED  BY <2>1, <2>2 DEF Init
<1> QED  BY <1>1, <1>2, <1>3 DEF RoomLeft, Admitted

\* The limit on members, for any limit, users and calls: addMember and createGroup take a
\* group past it only if a member came in between an addition's count and its INSERT.
THEOREM LimitPassedOnlyByRace == ChanSpec => []OverfullOnlyByRace
<1>1. TypeOK /\ LimitInv /\ [ChanNext]_chanVars => LimitInv'
  <2> SUFFICES ASSUME TypeOK, LimitInv, [ChanNext]_chanVars PROVE LimitInv'  OBVIOUS
  <2>1. CASE ChanNext
    <3>1. kind' = kind
      BY <2>1 DEF ChanNext, Start, Step, CreateDm, CreateGroup, CreateChannel, AddMember,
             RemoveMember, SetMemberRole, LeaveChannel, JoinChannel, Ensure, ReadTarget, Count,
             InsertRows, Write, Publish, BumpEpoch, AnnounceEpoch, Abort, conversation
    <3> QED  BY <2>1, <3>1, GroupStart, GroupStep DEF ChanNext, LimitInv
  <2>2. CASE UNCHANGED chanVars
    BY <2>2 DEF chanVars, conversation, ghosts, LimitInv, GroupBegins, RoomLeft, Members, Quiet,
           Adding, Admitted
  <2> QED  BY <2>1, <2>2
<1>2. TypeOK /\ LimitInv => OverfullOnlyByRace
  <2> SUFFICES ASSUME LimitInv, kind = "group", Cardinality(Members) > MaxMembers,
                      "limit" \notin crossed
               PROVE  FALSE
    BY DEF OverfullOnlyByRace
  <2>1. Cardinality(Members) \in Nat /\ Cardinality(Members) <= MaxMembers
    BY MembersFinite DEF LimitInv, RoomLeft, Members
  <2> QED  BY <2>1, ChannelsAssumption
<1> QED  BY <1>1, <1>2, GroupInit, ChannelsTypeCorrect, PTL DEF ChanSpec

----------------------------------------------------------------------------
(* What a call stands for, and the epochs                                  *)

\* What the place of a call says of its operation.
Shaped(r) ==
    /\ r.pc = "rows" => r.op = "create"
    /\ r.todo \subseteq r.party
    /\ r.pc = "rows" /\ kind # "dm" => r.todo = r.party
    /\ r.pc \in {"target", "count", "write"} => r.op # "create"
    /\ r.pc = "publish" => r.op # "setRole"

CallShape == \A c \in Calls : Shaped(call[c])

\* A call that begins changes no row, no event and no epoch.
LEMMA StartMoves ==
    ASSUME TypeOK, NEW c \in Calls, Start(c)
    PROVE  /\ call[c] = Idle
           /\ UNCHANGED <<kind, role, epoch, log, announced, lost, faults>>
           /\ \A d \in Calls \ {c} : call'[d] = call[d]
           /\ Shaped(call'[c])
           /\ call'[c].pc \notin {"bump", "announce"}
<1>0. call \in [Calls -> CallStates] /\ call[c] = Idle  BY DEF TypeOK, Start
<1> DEFINE Opens(r) == Begin(c, r) /\ Shaped(r) /\ r.pc \notin {"bump", "announce"}
           Still == UNCHANGED <<kind, role, epoch, log, announced, lost, faults>>
<1> SUFFICES Still /\ \E r : Opens(r)
  <2>1. ASSUME Still, NEW r, Opens(r)
        PROVE  call'[c] = r /\ \A d \in Calls \ {c} : call'[d] = call[d]
    BY <1>0, <2>1 DEF Begin
  <2> QED  BY <1>0, <2>1
<1>e. \A a, S : Ensure(c, a, S) => Still /\ \E r : Opens(r)
  <2> SUFFICES ASSUME NEW a, NEW S, Ensure(c, a, S) PROVE Still /\ \E r : Opens(r)  OBVIOUS
  <2> DEFINE rec == [Idle EXCEPT !.pc = IF exists THEN "publish" ELSE "rows", !.op = "create",
                                 !.actor = a, !.user = a, !.party = S,
                                 !.todo = IF exists THEN {} ELSE S]
  <2>1. Shaped(rec) /\ rec.pc \notin {"bump", "announce"}  BY DEF Shaped, Idle
  <2>2. Begin(c, rec) /\ Still  BY DEF Ensure, stream, ghosts
  <2> HIDE DEF rec
  <2>3. Opens(rec)  BY <2>1, <2>2
  <2> QED  BY <2>2, <2>3
<1>1. CASE \/ \E a \in Users : CreateDm(c, a)
           \/ \E a \in Users, S \in SUBSET Users : CreateGroup(c, a, S)
           \/ \E a \in Users : CreateChannel(c, a)
  <2>1. PICK a, S : Ensure(c, a, S)  BY <1>1 DEF CreateDm, CreateGroup, CreateChannel
  <2> QED  BY <2>1, <1>e
<1>4. CASE \E a \in Users, u \in Users, r \in Roles : AddMember(c, a, u, r)
  <2>1. PICK a \in Users, u \in Users, r \in Roles : AddMember(c, a, u, r)  BY <1>4
  <2> DEFINE rec == [Idle EXCEPT !.pc = "count", !.op = "add", !.actor = a, !.user = u, !.to = r]
  <2>3. Begin(c, rec) /\ Still  BY <2>1 DEF AddMember, conversation, stream, ghosts
  <2>4. Shaped(rec) /\ rec.pc \notin {"bump", "announce"}  BY DEF Shaped, Idle
  <2> HIDE DEF rec
  <2>5. Opens(rec)  BY <2>3, <2>4
  <2> QED  BY <2>3, <2>5
<1>5. CASE \E a \in Users, u \in Users : RemoveMember(c, a, u)
  <2>1. PICK a \in Users, u \in Users : RemoveMember(c, a, u)  BY <1>5
  <2> DEFINE rec == [Idle EXCEPT !.pc = "target", !.op = "remove", !.actor = a, !.user = u]
  <2>3. Begin(c, rec) /\ Still  BY <2>1 DEF RemoveMember, conversation, stream, ghosts
  <2>4. Shaped(rec) /\ rec.pc \notin {"bump", "announce"}  BY DEF Shaped, Idle
  <2> HIDE DEF rec
  <2>5. Opens(rec)  BY <2>3, <2>4
  <2> QED  BY <2>3, <2>5
<1>6. CASE \E a \in Users, u \in Users, r \in Roles : SetMemberRole(c, a, u, r)
  <2>1. PICK a \in Users, u \in Users, r \in Roles : SetMemberRole(c, a, u, r)  BY <1>6
  <2> DEFINE rec == [Idle EXCEPT !.pc = "target", !.op = "setRole", !.by = role[a],
                                 !.actor = a, !.user = u, !.to = r]
  <2>3. Begin(c, rec) /\ Still  BY <2>1 DEF SetMemberRole, conversation, stream, ghosts
  <2>4. Shaped(rec) /\ rec.pc \notin {"bump", "announce"}  BY DEF Shaped, Idle
  <2> HIDE DEF rec
  <2>5. Opens(rec)  BY <2>3, <2>4
  <2> QED  BY <2>3, <2>5
<1>7. CASE \E u \in Users : LeaveChannel(c, u)
  <2>1. PICK u \in Users : LeaveChannel(c, u)  BY <1>7
  <2> DEFINE rec == [Idle EXCEPT !.pc = "target", !.op = "leave", !.actor = u, !.user = u]
  <2>3. Begin(c, rec) /\ Still  BY <2>1 DEF LeaveChannel, conversation, stream, ghosts
  <2>4. Shaped(rec) /\ rec.pc \notin {"bump", "announce"}  BY DEF Shaped, Idle
  <2> HIDE DEF rec
  <2>5. Opens(rec)  BY <2>3, <2>4
  <2> QED  BY <2>3, <2>5
<1>8. CASE \E u \in Users : JoinChannel(c, u)
  <2>1. PICK u \in Users : JoinChannel(c, u)  BY <1>8
  <2> DEFINE rec == [Idle EXCEPT !.pc = "write", !.op = "join", !.actor = u, !.user = u]
  <2>3. Begin(c, rec) /\ Still  BY <2>1 DEF JoinChannel, conversation, stream, ghosts
  <2>4. Shaped(rec) /\ rec.pc \notin {"bump", "announce"}  BY DEF Shaped, Idle
  <2> HIDE DEF rec
  <2>5. Opens(rec)  BY <2>3, <2>4
  <2> QED  BY <2>3, <2>5
<1> QED
  <2> HIDE DEF Opens, Still
  <2> QED  BY <1>1, <1>4, <1>5, <1>6, <1>7, <1>8 DEF Start

\* A step of a call moves no other call, and keeps the shape of its own.
LEMMA StepShaped ==
    ASSUME TypeOK, CallShape, NEW c \in Calls, Step(c)
    PROVE  Shaped(call'[c]) /\ kind' = kind /\ \A d \in Calls \ {c} : call'[d] = call[d]
<1>0. call \in [Calls -> CallStates] /\ call[c] \in CallStates /\ Shaped(call[c])
  BY DEF TypeOK, CallShape
<1> USE <1>0 DEF Shaped, CallStates, Ops
<1>d. Shaped(Done)  BY DEF Done, Idle
<1>1. CASE ReadTarget(c)  BY <1>1, <1>d DEF ReadTarget, conversation, TakesOwnership
<1>2. CASE Count(c)  BY <1>2, <1>d DEF Count, Goto, conversation
<1>3. CASE InsertRows(c)
  <2>1. PICK now, on :
            call' = [call EXCEPT ![c] = IF on = "done" THEN Done
                                        ELSE [call[c] EXCEPT !.pc = on, !.todo = call[c].todo \ now]]
            /\ on \in {"rows", "publish", "done"} /\ kind' = kind /\ call[c].pc = "rows"
            /\ (on = "rows" => kind = "dm")
    <3> DEFINE now == IF call[c].actor \in call[c].todo /\ kind = "dm" THEN {call[c].actor}
                      ELSE call[c].todo
               on == IF now # call[c].todo THEN "rows"
                     ELSE IF kind = "community" THEN "done" ELSE "publish"
    <3>1. on \in {"rows", "publish", "done"} /\ (on = "rows" => kind = "dm")  OBVIOUS
    <3>2. call' = [call EXCEPT ![c] = IF on = "done" THEN Done
                                      ELSE [call[c] EXCEPT !.pc = on, !.todo = call[c].todo \ now]]
      BY <1>3 DEF InsertRows
    <3> HIDE DEF now, on
    <3> QED  BY <1>3, <3>1, <3>2 DEF InsertRows
  <2> QED  BY <2>1, <1>d
<1>4. CASE Write(c)  BY <1>4, <1>d DEF Write, Goto
<1>5. CASE Publish(c)  BY <1>5, <1>d DEF Publish, Goto, conversation
<1>6. CASE BumpEpoch(c)  BY <1>6, <1>d DEF BumpEpoch
<1>7. CASE AnnounceEpoch(c)  BY <1>7, <1>d DEF AnnounceEpoch, Goto, conversation
<1>8. CASE Abort(c)  BY <1>8, <1>d DEF Abort, Goto, conversation
<1> QED  BY <1>1, <1>2, <1>3, <1>4, <1>5, <1>6, <1>7, <1>8 DEF Step

\* Every call keeps its shape.
LEMMA ShapeInvariant == ChanSpec => [](TypeOK /\ CallShape)
<1>1. Init => CallShape  BY DEF Init, CallShape, Shaped, Idle
<1>2. TypeOK /\ CallShape /\ [ChanNext]_chanVars => CallShape'
  <2> SUFFICES ASSUME TypeOK, CallShape, [ChanNext]_chanVars PROVE CallShape'  OBVIOUS
  <2>1. CASE UNCHANGED chanVars  BY <2>1 DEF chanVars, conversation, CallShape, Shaped
  <2>2. ASSUME NEW c \in Calls, Start(c) \/ Step(c) PROVE CallShape'
    BY <2>2, StartMoves, StepShaped DEF CallShape, Shaped
  <2> QED  BY <2>1, <2>2 DEF ChanNext
<1> QED  BY <1>1, <1>2, ChannelsTypeCorrect, PTL DEF ChanSpec

\* The call has taken a new epoch and is still to announce it.
Announcing(r) == r.pc = "announce"

\* An epoch is announced once, or by one call yet to do so; none is passed over unless a call
\* broke off.
EpochInv ==
    /\ epoch \in Nat \ {0}
    /\ \A i \in DOMAIN announced : announced[i] \in 2 .. epoch
    /\ \A i, j \in DOMAIN announced : announced[i] = announced[j] => i = j
    /\ \A c \in Calls : Announcing(call[c]) =>
           /\ call[c].num \in 2 .. epoch
           /\ \A i \in DOMAIN announced : announced[i] # call[c].num
    /\ \A c, d \in Calls :
           Announcing(call[c]) /\ Announcing(call[d]) /\ call[c].num = call[d].num => c = d
    /\ faults = 0 => \A n \in 2 .. epoch :
           \/ \E i \in DOMAIN announced : announced[i] = n
           \/ \E c \in Calls : Announcing(call[c]) /\ call[c].num = n

\* A step that neither takes nor announces an epoch.
LEMMA EpochKept ==
    ASSUME EpochInv, NEW c \in Calls, UNCHANGED <<epoch, announced>>,
           \A d \in Calls \ {c} : call'[d] = call[d],
           ~Announcing(call'[c]),
           faults' # 0 \/ (faults' = faults /\ ~Announcing(call[c]))
    PROVE  EpochInv'
BY DEF EpochInv, Announcing

\* rotateEpoch takes the number after all the others.
LEMMA EpochTaken ==
    ASSUME TypeOK, EpochInv, NEW c \in Calls, BumpEpoch(c)
    PROVE  EpochInv'
<1>0. /\ call \in [Calls -> CallStates] /\ epoch \in Nat /\ announced \in Seq(Nat)
      /\ call[c].pc = "bump" /\ UNCHANGED <<announced, faults>>
  BY DEF TypeOK, BumpEpoch, stream
<1>1. CASE kind # "group"
  <2>1. UNCHANGED epoch /\ call' = [call EXCEPT ![c] = Done]  BY <1>1 DEF BumpEpoch
  <2>2. ~Announcing(call[c]) /\ ~Announcing(call'[c]) /\ \A d \in Calls \ {c} : call'[d] = call[d]
    BY <1>0, <2>1 DEF Announcing, Done, Idle
  <2> QED  BY <1>0, <2>1, <2>2, EpochKept
<1>2. CASE kind = "group"
  <2>1. /\ epoch' = epoch + 1
        /\ Announcing(call'[c]) /\ call'[c].num = epoch + 1
        /\ \A d \in Calls \ {c} : call'[d] = call[d]
        /\ ~Announcing(call[c])
    BY <1>0, <1>2 DEF BumpEpoch, Announcing, CallStates
  <2>2. \A n : n \in 2 .. epoch' <=> n \in 2 .. epoch \/ n = epoch + 1  BY <1>0, <2>1 DEF EpochInv
  <2>3. epoch + 1 \notin 2 .. epoch /\ epoch' \in Nat \ {0}  BY <1>0, <2>1
  <2>4. \A i \in DOMAIN announced' : announced'[i] \in 2 .. epoch' /\ announced'[i] # epoch + 1
    BY <1>0, <2>2, <2>3 DEF EpochInv
  <2>5. \A d \in Calls : Announcing(call'[d]) =>
           /\ call'[d].num \in 2 .. epoch'
           /\ \A i \in DOMAIN announced' : announced'[i] # call'[d].num
    BY <1>0, <2>1, <2>2, <2>4 DEF EpochInv
  <2>6. \A d, e \in Calls :
           Announcing(call'[d]) /\ Announcing(call'[e]) /\ call'[d].num = call'[e].num => d = e
    BY <2>1, <2>3 DEF EpochInv
  <2>7. faults' = 0 => \A n \in 2 .. epoch' :
           \/ \E i \in DOMAIN announced' : announced'[i] = n
           \/ \E d \in Calls : Announcing(call'[d]) /\ call'[d].num = n
    <3> SUFFICES ASSUME faults' = 0, NEW n \in 2 .. epoch'
                 PROVE  \/ \E i \in DOMAIN announced' : announced'[i] = n
                        \/ \E d \in Calls : Announcing(call'[d]) /\ call'[d].num = n
      OBVIOUS
    <3>1. CASE n = epoch + 1  BY <2>1, <3>1
    <3>2. CASE n \in 2 .. epoch
      <4>1. \/ \E i \in DOMAIN announced : announced[i] = n
            \/ \E d \in Calls : Announcing(call[d]) /\ call[d].num = n
        BY <1>0, <3>2 DEF EpochInv
      <4> QED  BY <1>0, <2>1, <4>1
    <3> QED  BY <2>2, <3>1, <3>2
  <2>8. \A i, j \in DOMAIN announced' : announced'[i] = announced'[j] => i = j  BY <1>0 DEF EpochInv
  <2> QED  BY <2>3, <2>4, <2>5, <2>6, <2>7, <2>8 DEF EpochInv, Announcing
<1> QED  BY <1>1, <1>2

\* An announcement moves the number from the call to what was announced.
LEMMA EpochTold ==
    ASSUME TypeOK, EpochInv, NEW c \in Calls, AnnounceEpoch(c)
    PROVE  EpochInv'
<1>0. call \in [Calls -> CallStates] /\ epoch \in Nat /\ announced \in Seq(Nat)  BY DEF TypeOK
<1>1. /\ Announcing(call[c]) /\ ~Announcing(call'[c])
      /\ UNCHANGED <<epoch, faults>>
      /\ announced' = Append(announced, call[c].num)
      /\ \A d \in Calls \ {c} : call'[d] = call[d]
  BY <1>0 DEF AnnounceEpoch, Announcing, Goto, Done, Idle, conversation
<1>2. call[c].num \in 2 .. epoch /\ call[c].num \in Nat  BY <1>1 DEF EpochInv
<1>3. /\ DOMAIN announced' = DOMAIN announced \cup {Len(announced) + 1}
      /\ Len(announced) + 1 \notin DOMAIN announced
      /\ announced'[Len(announced) + 1] = call[c].num
      /\ \A i \in DOMAIN announced : announced'[i] = announced[i]
  BY <1>0, <1>1, <1>2
<1>4. \A i \in DOMAIN announced : announced[i] # call[c].num  BY <1>1 DEF EpochInv
<1>5. \A i \in DOMAIN announced' : announced'[i] \in 2 .. epoch'  BY <1>1, <1>2, <1>3 DEF EpochInv
<1>6. \A i, j \in DOMAIN announced' : announced'[i] = announced'[j] => i = j
  BY <1>3, <1>4 DEF EpochInv
<1>7. \A d \in Calls : Announcing(call'[d]) =>
          /\ call'[d].num \in 2 .. epoch'
          /\ \A i \in DOMAIN announced' : announced'[i] # call'[d].num
  BY <1>1, <1>3 DEF EpochInv
<1>8. \A d, e \in Calls :
          Announcing(call'[d]) /\ Announcing(call'[e]) /\ call'[d].num = call'[e].num => d = e
  BY <1>1 DEF EpochInv
<1>9. faults' = 0 => \A n \in 2 .. epoch' :
          \/ \E i \in DOMAIN announced' : announced'[i] = n
          \/ \E d \in Calls : Announcing(call'[d]) /\ call'[d].num = n
  <2> SUFFICES ASSUME faults' = 0, NEW n \in 2 .. epoch'
               PROVE  \/ \E i \in DOMAIN announced' : announced'[i] = n
                      \/ \E d \in Calls : Announcing(call'[d]) /\ call'[d].num = n
    OBVIOUS
  <2>1. CASE \E i \in DOMAIN announced : announced[i] = n  BY <2>1, <1>3
  <2>2. CASE \E d \in Calls : Announcing(call[d]) /\ call[d].num = n  BY <2>2, <1>1, <1>3
  <2> QED  BY <1>1, <2>1, <2>2 DEF EpochInv
<1> QED  BY <1>1, <1>5, <1>6, <1>7, <1>8, <1>9 DEF EpochInv, Announcing

\* Every step keeps the epochs.
LEMMA EpochStep ==
    ASSUME TypeOK, CallShape, EpochInv, [ChanNext]_chanVars
    PROVE  EpochInv'
<1>1. CASE UNCHANGED chanVars  BY <1>1 DEF chanVars, conversation, stream, EpochInv, Announcing
<1>2. ASSUME NEW c \in Calls, Start(c) PROVE EpochInv'
  <2>1. ~Announcing(call[c]) /\ ~Announcing(call'[c])  BY <1>2, StartMoves DEF Announcing, Idle
  <2> QED  BY <1>2, <2>1, StartMoves, EpochKept
<1>3. ASSUME NEW c \in Calls, Step(c) PROVE EpochInv'
  <2>0. call \in [Calls -> CallStates] /\ faults \in Nat /\ \A d \in Calls \ {c} : call'[d] = call[d]
    BY <1>3, StepShaped DEF TypeOK
  <2>1. CASE ReadTarget(c) \/ Count(c) \/ InsertRows(c) \/ Write(c) \/ Publish(c)
    <3>1. UNCHANGED <<epoch, announced, faults>> /\ call[c].pc \notin {"announce", "bump"}
      BY <2>1 DEF ReadTarget, Count, InsertRows, Write, Publish, conversation, stream, SetRows
    <3>2. call'[c].pc # "announce"
      <4> USE <2>0 DEF Goto, Done, Idle, CallStates
      <4>1. CASE ReadTarget(c)  BY <4>1 DEF ReadTarget
      <4>2. CASE Count(c)  BY <4>2 DEF Count
      <4>3. CASE InsertRows(c)
        <5>1. PICK now, on :
                  call' = [call EXCEPT ![c] = IF on = "done" THEN Done
                              ELSE [call[c] EXCEPT !.pc = on, !.todo = call[c].todo \ now]]
                  /\ on \in {"rows", "publish", "done"}
          BY <4>3 DEF InsertRows
        <5> QED  BY <5>1
      <4>4. CASE Write(c)  BY <4>4 DEF Write
      <4>5. CASE Publish(c)  BY <4>5 DEF Publish
      <4> QED  BY <2>1, <4>1, <4>2, <4>3, <4>4, <4>5
    <3> QED  BY <2>0, <3>1, <3>2, EpochKept DEF Announcing
  <2>2. CASE BumpEpoch(c)  BY <2>2, EpochTaken
  <2>3. CASE AnnounceEpoch(c)  BY <2>3, EpochTold
  <2>4. CASE Abort(c)
    <3>1. /\ UNCHANGED <<epoch, announced>> /\ faults' # 0
          /\ call'[c].pc = "done"
      BY <2>0, <2>4 DEF Abort, Goto, Done, Idle, conversation, stream
    <3> QED  BY <2>0, <3>1, EpochKept DEF Announcing
  <2> QED  BY <1>3, <2>1, <2>2, <2>3, <2>4 DEF Step
<1> QED  BY <1>1, <1>2, <1>3 DEF ChanNext

\* The epochs announced while none is owed are all there are, each once.
LEMMA EpochsTold ==
    ASSUME TypeOK, EpochInv
    PROVE  EpochsAnnouncedOnce
<1> SUFFICES ASSUME Quiet, faults = 0
             PROVE  /\ Len(announced) = epoch - 1
                    /\ \A n \in 2 .. epoch : \E i \in DOMAIN announced : announced[i] = n
  BY DEF EpochsAnnouncedOnce
<1>0. epoch \in Nat \ {0} /\ Len(announced) \in Nat /\ DOMAIN announced = 1 .. Len(announced)
  BY DEF TypeOK, EpochInv
<1>1. \A n \in 2 .. epoch : \E i \in DOMAIN announced : announced[i] = n
  BY DEF EpochInv, Quiet, Announcing
<1>2. Cardinality(2 .. epoch) = epoch - 1  BY <1>0, FS_Interval
<1>3. ExistsBijection(1 .. Len(announced), 2 .. epoch)
  <2> DEFINE f == [i \in 1 .. Len(announced) |-> announced[i]]
  <2>1. \A i \in 1 .. Len(announced) : announced[i] \in 2 .. epoch  BY <1>0 DEF EpochInv
  <2>2. \A i, j \in 1 .. Len(announced) : announced[i] = announced[j] => i = j  BY <1>0 DEF EpochInv
  <2>3. f \in Bijection(1 .. Len(announced), 2 .. epoch)
    BY <1>0, <1>1, <2>1, <2>2, Zenon DEF Bijection, Injection, Surjection, IsInjective
  <2> QED  BY <2>3 DEF ExistsBijection
<1>4. Cardinality(2 .. epoch) = Len(announced)  BY <1>0, <1>3, FS_CountingElements
<1> QED  BY <1>0, <1>1, <1>2, <1>4

\* rotateEpoch: however calls interleave, each epoch a group has passed to is announced
\* exactly once, unless a call broke off.
THEOREM EveryEpochAnnounced == ChanSpec => []EpochsAnnouncedOnce
<1>1. Init => EpochInv
  <2> SUFFICES ASSUME Init PROVE EpochInv  OBVIOUS
  <2>1. epoch = 1 /\ announced = <<>> /\ \A c \in Calls : ~Announcing(call[c])
    BY DEF Init, Idle, Announcing
  <2> QED  BY <2>1 DEF EpochInv
<1>2. TypeOK /\ EpochInv => EpochsAnnouncedOnce  BY EpochsTold
<1>3. ChanSpec => []EpochInv  BY <1>1, ShapeInvariant, EpochStep, PTL DEF ChanSpec
<1> QED  BY <1>2, <1>3, ChannelsTypeCorrect, PTL

----------------------------------------------------------------------------
(* The set of members that the events keep                                 *)

\* A step of the projection leaves the rows alone, so it is a step of Channels or none.
LEMMA ProjectionIsChannels == Spec => ChanSpec
<1>1. ProjInit => Init  BY DEF ProjInit
<1>2. [Next]_vars => [ChanNext]_chanVars
  BY DEF Next, vars, Take, Apply, PassOver, FillStart, FillRead, FillSeed, Evict
<1> QED  BY <1>1, <1>2, PTL DEF Spec, ChanSpec

\* The entry has been published.
Told(e) == e[2] <= Len(log[e[1]])

\* The entry has been published, and the group subscribes to its topic.
MayHold(g, e) == Told(e) /\ e[1] \in Follows(g)

\* A group has one entry in hand at most, of a topic it follows, and whatever it has read was
\* marked or is in hand.
TakenInv ==
    /\ \A e \in marked : Told(e)
    /\ \A g \in Groups : \/ held[g] = {}
                         \/ \E e \in Entries : held[g] = {e} /\ MayHold(g, e)
    /\ \A g \in Groups, t \in Topics :
           \A i \in 1 .. next[g][t] - 1 : <<t, i>> \in marked \cup held[g]

\* The events published keep their places.
LEMMA LogGrows ==
    ASSUME TypeOK, [ChanNext]_chanVars
    PROVE  \A t \in Topics :
               /\ Len(log[t]) \in Nat /\ Len(log'[t]) \in Nat
               /\ Len(log[t]) <= Len(log'[t])
               /\ \A i \in DOMAIN log[t] : i \in DOMAIN log'[t] /\ log'[t][i] = log[t][i]
<1>0. log \in [Topics -> Seq(SUBSET Users)]  BY DEF TypeOK
<1>1. CASE log' = log
  <2>1. \A t \in Topics : log[t] \in Seq(SUBSET Users)  BY <1>0
  <2> QED  BY <2>1, <1>1
<1>2. ASSUME NEW c \in Calls, Publish(c)
      PROVE  \A t \in Topics :
               /\ Len(log[t]) \in Nat /\ Len(log'[t]) \in Nat
               /\ Len(log[t]) <= Len(log'[t])
               /\ \A i \in DOMAIN log[t] : i \in DOMAIN log'[t] /\ log'[t][i] = log[t][i]
  <2>1. Topic(call[c]) \in Topics  BY DEF Topic, Topics
  <2>2. About(call[c]) \in SUBSET Users  BY <1>2 DEF TypeOK, CallStates, Publish, About
  <2>3. \A t \in Topics : log'[t] = log[t] \/ log'[t] = Append(log[t], About(call[c]))
    BY <1>0, <1>2, <2>1 DEF Publish
  <2> SUFFICES ASSUME NEW t \in Topics
               PROVE  /\ Len(log[t]) \in Nat /\ Len(log'[t]) \in Nat
                      /\ Len(log[t]) <= Len(log'[t])
                      /\ \A i \in DOMAIN log[t] : i \in DOMAIN log'[t] /\ log'[t][i] = log[t][i]
    OBVIOUS
  <2>4. log[t] \in Seq(SUBSET Users)  BY <1>0
  <2>5. CASE log'[t] = log[t]  BY <2>4, <2>5
  <2>6. CASE log'[t] = Append(log[t], About(call[c]))
    <3> DEFINE s == log[t]
               a == About(call[c])
    <3>1. s \in Seq(SUBSET Users) /\ a \in SUBSET Users /\ log'[t] = Append(s, a)
      BY <2>2, <2>4, <2>6
    <3> HIDE DEF s, a
    <3>2. /\ Len(s) \in Nat /\ Len(log'[t]) = Len(s) + 1
          /\ \A i \in 1..Len(s) : log'[t][i] = s[i]
          /\ DOMAIN s = 1..Len(s) /\ DOMAIN log'[t] = 1..(Len(s) + 1)
      BY <3>1
    <3>3. /\ Len(s) <= Len(log'[t]) /\ Len(log'[t]) \in Nat
          /\ \A i \in DOMAIN s : i \in DOMAIN log'[t] /\ log'[t][i] = s[i]
      BY <3>2
    <3> QED  BY <3>2, <3>3 DEF s
  <2> QED  BY <2>3, <2>5, <2>6
<1>3. ASSUME NEW c \in Calls, Start(c) PROVE log' = log  BY <1>3, StartMoves
<1>4. ASSUME NEW c \in Calls, Step(c), ~Publish(c) PROVE log' = log
  BY <1>4 DEF Step, ReadTarget, Count, InsertRows, Write, BumpEpoch, AnnounceEpoch, Abort, stream
<1> QED  BY <1>1, <1>2, <1>3, <1>4 DEF ChanNext, chanVars, stream

\* An entry that was published stays.
LEMMA ToldStays ==
    ASSUME TypeOK, [ChanNext]_chanVars, NEW e \in Entries, Told(e)
    PROVE  Told(e)'
<1>1. e[1] \in Topics /\ e[2] \in Nat  BY DEF Entries
<1> QED  BY <1>1, LogGrows DEF Told

\* The types of the projection.
ProjParts ==
    /\ cached \in SUBSET Users
    /\ next \in [Groups -> [Topics -> Nat \ {0}]]
    /\ held \in [Groups -> SUBSET Entries]
    /\ \A g \in Groups, t \in Topics : next[g][t] <= Len(log[t]) + 1
    /\ marked \subseteq Entries
    /\ filling \in {"no", "read", "seed"}
    /\ fetched \in SUBSET Users
    /\ behind \in SUBSET Users
    /\ missed \in SUBSET Users
    /\ overlooked \in SUBSET Users
    /\ evictions \in 0 .. MaxEvictions
    /\ fills \in 0 .. MaxFills

\* What a write does to the set and to what is remembered of it stays among the users.
LEMMA WriteSetType ==
    ASSUME ProjParts, TypeOK, NEW add, NEW US \in SUBSET Users, WriteSet(add, US)
    PROVE  /\ cached' \in SUBSET Users /\ behind' \in SUBSET Users /\ missed' \in SUBSET Users
           /\ overlooked' \in SUBSET Users
BY DEF ProjParts, WriteSet, Members

\* A published entry names users.
LEMMA EntryHolds ==
    ASSUME TypeOK, NEW e \in Entries, Told(e)
    PROVE  e[1] \in Topics /\ e[2] \in DOMAIN log[e[1]] /\ log[e[1]][e[2]] \in SUBSET Users
<1>1. e[1] \in Topics /\ e[2] \in Nat \ {0}  BY DEF Entries
<1>2. log[e[1]] \in Seq(SUBSET Users)  BY <1>1 DEF TypeOK
<1> QED  BY <1>1, <1>2 DEF Told

\* A group takes the next entry of a topic.
LEMMA TakeStep ==
    ASSUME TypeOK, ProjParts, TakenInv, NEW g \in Groups, NEW t \in Topics, Take(g, t)
    PROVE  ProjParts' /\ TakenInv'
<1> DEFINE i == next[g][t]
<1>0. log[t] \in Seq(SUBSET Users) /\ Len(log[t]) \in Nat  BY DEF TypeOK
<1>1. i \in Nat \ {0} /\ i <= Len(log[t]) /\ held[g] = {} /\ UNCHANGED <<chanVars, marked>> /\ t \in Follows(g)
  BY DEF Take, ProjParts
<1>2. /\ next[g] \in [Topics -> Nat \ {0}]
      /\ next' = [next EXCEPT ![g] = [next[g] EXCEPT ![t] = i + 1]]
  BY DEF Take, ProjParts
<1>3. /\ next'[g][t] = i + 1
      /\ \A h \in Groups, s \in Topics : h # g \/ s # t => next'[h][s] = next[h][s]
      /\ next' \in [Groups -> [Topics -> Nat \ {0}]]
  BY <1>1, <1>2 DEF ProjParts
<1>4. /\ held'[g] = {<<t, i>>} \ marked
      /\ \A h \in Groups \ {g} : held'[h] = held[h]
      /\ held' \in [Groups -> SUBSET Entries]
  <2>1. {<<t, i>>} \ marked \in SUBSET Entries  BY <1>1 DEF Entries
  <2> QED  BY <2>1 DEF Take, ProjParts
<1>5. UNCHANGED <<log, marked>>  BY <1>1 DEF chanVars, stream
<1> HIDE DEF i
<1>6. ProjParts'
  <2>1. \A h \in Groups, s \in Topics : next'[h][s] <= Len(log'[s]) + 1
    <3> SUFFICES ASSUME NEW h \in Groups, NEW s \in Topics
                 PROVE  next'[h][s] <= Len(log[s]) + 1
      BY <1>5
    <3>1. next[h][s] <= Len(log[s]) + 1  BY DEF ProjParts
    <3>2. CASE h = g /\ s = t  BY <3>2, <1>0, <1>1, <1>3
    <3> QED  BY <3>1, <3>2, <1>3
  <2> QED  BY <2>1, <1>3, <1>4 DEF ProjParts, Take
<1>7. \A h \in Groups : \/ held'[h] = {}
                        \/ \E e \in Entries : held'[h] = {e} /\ MayHold(h, e)'
  <2>1. <<t, i>> \in Entries /\ MayHold(g, <<t, i>>)  BY <1>1 DEF Entries, Told, MayHold
  <2>2. held'[g] = {} \/ held'[g] = {<<t, i>>}  BY <1>4
  <2>3. \A f, e : MayHold(f, e) => MayHold(f, e)'  BY <1>5 DEF Told, MayHold
  <2> QED  BY <1>4, <2>1, <2>2, <2>3 DEF TakenInv
<1>8. \A h \in Groups, s \in Topics :
          \A j \in 1 .. next'[h][s] - 1 : <<s, j>> \in marked' \cup held'[h]
  <2> SUFFICES ASSUME NEW h \in Groups, NEW s \in Topics, NEW j \in 1 .. next'[h][s] - 1
               PROVE  <<s, j>> \in marked \cup held'[h]
    BY <1>5
  <2>1. next[h][s] \in Nat \ {0} /\ next'[h][s] \in Nat \ {0}  BY <1>3 DEF ProjParts
  <2>2. CASE j \in 1 .. next[h][s] - 1  BY <2>2, <1>1, <1>4 DEF TakenInv
  <2>3. CASE h = g /\ s = t /\ j = i  BY <2>3, <1>4
  <2>4. j \in 1 .. next[h][s] - 1 \/ (h = g /\ s = t /\ j = i)  BY <1>1, <1>3, <2>1 DEF i
  <2> QED  BY <2>2, <2>3, <2>4
<1> QED  BY <1>5, <1>6, <1>7, <1>8 DEF TakenInv, Told

\* What is done with the entry in hand, whatever the handler did with it.
Handled(g, e) ==
    /\ held[g] = {e} /\ MayHold(g, e) /\ e[1] \in Topics /\ e[2] \in DOMAIN log[e[1]]
    /\ log[e[1]][e[2]] \in SUBSET Users
    /\ marked' = marked \cup {e}
    /\ held'[g] = {} /\ \A h \in Groups \ {g} : held'[h] = held[h]
    /\ held' \in [Groups -> SUBSET Entries]
    /\ UNCHANGED <<chanVars, next, filling, fetched, evictions, fills>>

\* The indexer's handler leaves the set alone.
LeftAlone(e) ==
    /\ UNCHANGED <<cached, behind, missed>>
    /\ overlooked' = IF e \in marked THEN overlooked ELSE overlooked \cup log[e[1]][e[2]]

\* What the handler of an entry does: a keeper writes the set, the indexer does not.
LEMMA ApplyMoves ==
    ASSUME TypeOK, ProjParts, TakenInv, NEW g \in Groups, Apply(g) \/ PassOver(g)
    PROVE  \E e \in Entries :
               /\ Handled(g, e)
               /\ \/ WriteSet(e[1] # "removed", log[e[1]][e[2]])
                  \/ g \notin Keepers /\ LeftAlone(e)
<1>1. PICK e \in held[g] :
          /\ marked' = marked \cup {e}
          /\ \/ WriteSet(e[1] # "removed", log[e[1]][e[2]])
             \/ g \notin Keepers /\ LeftAlone(e)
  BY DEF Apply, PassOver, LeftAlone
<1>2. e \in Entries /\ held[g] = {e} /\ MayHold(g, e)  BY <1>1 DEF TakenInv
<1>3. /\ held'[g] = {} /\ \A h \in Groups \ {g} : held'[h] = held[h]
      /\ held' \in [Groups -> SUBSET Entries]
      /\ UNCHANGED <<chanVars, next, filling, fetched, evictions, fills>>
  BY DEF Apply, PassOver, ProjParts
<1>4. e[1] \in Topics /\ e[2] \in DOMAIN log[e[1]] /\ log[e[1]][e[2]] \in SUBSET Users
  BY <1>2, EntryHolds DEF MayHold
<1> QED  BY <1>1, <1>2, <1>3, <1>4 DEF Handled

\* A handler that ends keeps count of what was read.
LEMMA ApplyStep ==
    ASSUME TypeOK, ProjParts, TakenInv, NEW g \in Groups, Apply(g) \/ PassOver(g)
    PROVE  ProjParts' /\ TakenInv'
<1>0. PICK e \in Entries :
          Handled(g, e) /\ (WriteSet(e[1] # "removed", log[e[1]][e[2]]) \/ LeftAlone(e))
  BY ApplyMoves
<1>1. /\ held[g] = {e} /\ Told(e) /\ marked' = marked \cup {e} /\ log[e[1]][e[2]] \in SUBSET Users
      /\ held'[g] = {} /\ \A h \in Groups \ {g} : held'[h] = held[h]
      /\ held' \in [Groups -> SUBSET Entries]
      /\ UNCHANGED <<chanVars, next, filling, fetched, evictions, fills>>
  BY <1>0 DEF Handled, MayHold
<1>2. UNCHANGED log  BY <1>1 DEF chanVars, stream
<1>3. \A f : Told(f)' <=> Told(f)  BY <1>2 DEF Told
<1>4. ProjParts'
  <2>1. /\ cached' \in SUBSET Users /\ behind' \in SUBSET Users /\ missed' \in SUBSET Users
        /\ overlooked' \in SUBSET Users
    <3>1. CASE WriteSet(e[1] # "removed", log[e[1]][e[2]])  BY <3>1, <1>1, WriteSetType
    <3> QED  BY <1>0, <1>1, <3>1 DEF ProjParts, LeftAlone
  <2> QED  BY <1>1, <1>2, <2>1 DEF ProjParts
<1>5. TakenInv'
  <2>1. \A f \in marked' : Told(f)'  BY <1>1, <1>3 DEF TakenInv
  <2>2. \A h \in Groups : \/ held'[h] = {}
                          \/ \E f \in Entries : held'[h] = {f} /\ MayHold(h, f)'
    BY <1>1, <1>3 DEF TakenInv, MayHold
  <2>3. \A h \in Groups, t \in Topics :
           \A i \in 1 .. next'[h][t] - 1 : <<t, i>> \in marked' \cup held'[h]
    BY <1>1 DEF TakenInv
  <2> QED  BY <2>1, <2>2, <2>3 DEF TakenInv
<1> QED  BY <1>4, <1>5

\* So does a refill, and the loss of the key.
LEMMA FillStep ==
    ASSUME TypeOK, ProjParts, TakenInv, FillStart \/ FillRead \/ FillSeed \/ Evict
    PROVE  ProjParts' /\ TakenInv'
<1>1. UNCHANGED <<chanVars, next, held, marked>> /\ UNCHANGED log
  BY DEF FillStart, FillRead, FillSeed, Evict, chanVars, stream
<1>2. TakenInv'  BY <1>1 DEF TakenInv, Told, MayHold
<1> SUFFICES ProjParts'  BY <1>2
<1>3. CASE FillStart  BY <1>1, <1>3, ProjectionAssumption DEF FillStart, ProjParts
<1>4. CASE FillRead  BY <1>1, <1>4 DEF FillRead, ProjParts, Members
<1>5. CASE FillSeed
  <2>1. /\ cached' \in SUBSET Users /\ behind' \in SUBSET Users /\ missed' \in SUBSET Users
        /\ overlooked' \in SUBSET Users
    BY <1>5, WriteSetType DEF FillSeed, ProjParts
  <2> QED  BY <1>1, <1>5, <2>1 DEF FillSeed, ProjParts
<1>6. CASE Evict  BY <1>1, <1>6, ProjectionAssumption DEF Evict, ProjParts
<1> QED  BY <1>3, <1>4, <1>5, <1>6

\* So do the calls, which only add entries.
LEMMA RowsStep ==
    ASSUME TypeOK, ProjParts, TakenInv, [ChanNext]_chanVars, UNCHANGED projVars
    PROVE  ProjParts' /\ TakenInv'
<1>1. UNCHANGED <<next, held, marked>>  BY DEF projVars
<1>2. \A e \in Entries : Told(e) => Told(e)'  BY ToldStays
<1>3. TakenInv'
  <2>1. \A e \in marked' : Told(e)'  BY <1>1, <1>2 DEF TakenInv, ProjParts
  <2>2. \A h \in Groups : \/ held'[h] = {}
                          \/ \E f \in Entries : held'[h] = {f} /\ MayHold(h, f)'
    BY <1>1, <1>2 DEF TakenInv, MayHold
  <2> QED  BY <1>1, <2>1, <2>2 DEF TakenInv
<1>4. \A g \in Groups, t \in Topics : next'[g][t] <= Len(log'[t]) + 1
  <2> SUFFICES ASSUME NEW g \in Groups, NEW t \in Topics PROVE next[g][t] <= Len(log'[t]) + 1
    BY <1>1
  <2>1. next[g][t] \in Nat /\ next[g][t] <= Len(log[t]) + 1  BY DEF ProjParts
  <2>2. Len(log[t]) \in Nat /\ Len(log'[t]) \in Nat /\ Len(log[t]) <= Len(log'[t])  BY LogGrows
  <2> QED  BY <2>1, <2>2
<1> QED  BY <1>3, <1>4 DEF ProjParts, projVars

\* The groups keep count of what they have read.
LEMMA TakenInvariant == Spec => [](TypeOK /\ CallShape /\ EpochsAnnouncedOnce /\ ProjParts /\ TakenInv)
<1>1. ProjInit => ProjParts /\ TakenInv
  <2> SUFFICES ASSUME ProjInit PROVE ProjParts /\ TakenInv  OBVIOUS
  <2>1. /\ \A g \in Groups, t \in Topics : next[g][t] = 1
        /\ \A t \in Topics : Len(log[t]) = 0
    BY DEF ProjInit, Init
  <2>2. ProjParts  BY <2>1, ProjectionAssumption DEF ProjParts, ProjInit, Members
  <2>3. TakenInv  BY <2>1 DEF ProjInit, TakenInv
  <2> QED  BY <2>2, <2>3
<1>2. TypeOK /\ ProjParts /\ TakenInv /\ [Next]_vars => (ProjParts /\ TakenInv)'
  <2> SUFFICES ASSUME TypeOK, ProjParts, TakenInv, [Next]_vars PROVE ProjParts' /\ TakenInv'
    OBVIOUS
  <2> QED  BY TakeStep, ApplyStep, FillStep, RowsStep DEF Next, vars
<1>3. ChanSpec => [](TypeOK /\ CallShape /\ EpochsAnnouncedOnce)
  BY ShapeInvariant, EveryEpochAnnounced, PTL
<1> QED  BY <1>1, <1>2, <1>3, ProjectionIsChannels, PTL DEF Spec

\* An event of the topics T that names u is published and not handled yet.
Untold(T, u) == \E t \in T : \E i \in DOMAIN log[t] : u \in log[t][i] /\ <<t, i>> \notin marked

\* A call has taken u out, or put him in, and is yet to tell.
Leaving(r, u)  == r.pc = "publish" /\ r.op \in {"remove", "leave"} /\ r.user = u
Entering(r, u) ==
    \/ r.pc \in {"rows", "publish"} /\ r.op = "create" /\ u \in r.party
    \/ r.pc = "publish" /\ r.op \in {"add", "join"} /\ r.user = u

GoneIsToBeTold(u) ==
    u \in lost \/ (\E c \in Calls : Leaving(call[c], u)) \/ Untold({"removed"}, u)
EntryIsToBeTold(u) ==
    u \in lost \/ (\E c \in Calls : Entering(call[c], u)) \/ Untold({"created", "added"}, u)

\* Whoever is wrongly in the set, or wrongly out of it, was written late or is still to be told.
FormerInv == \A u \in cached \ Members : u \in behind \/ GoneIsToBeTold(u)
MissingInv ==
    cached # {} => \A u \in Members \ cached : u \in behind \cup missed \cup overlooked \/ EntryIsToBeTold(u)

\* What is to be told stays so while nothing is handled and no call with something to tell moves.
LEMMA StillToBeTold ==
    ASSUME TypeOK, [ChanNext]_chanVars, UNCHANGED marked, lost \subseteq lost', NEW u
    PROVE  /\ (\A c \in Calls : Leaving(call[c], u) => Leaving(call'[c], u))
                  => (GoneIsToBeTold(u) => GoneIsToBeTold(u)')
           /\ (\A c \in Calls : Entering(call[c], u) => Entering(call'[c], u))
                  => (EntryIsToBeTold(u) => EntryIsToBeTold(u)')
<1>1. \A t \in Topics : \A i \in DOMAIN log[t] : i \in DOMAIN log'[t] /\ log'[t][i] = log[t][i]
  BY LogGrows
<1>2. Untold({"removed"}, u) => Untold({"removed"}, u)'  BY <1>1 DEF Untold, Topics
<1>3. Untold({"created", "added"}, u) => Untold({"created", "added"}, u)'
  BY <1>1 DEF Untold, Topics
<1>4. \A c \in Calls : /\ Leaving(call[c], u)' <=> Leaving(call'[c], u)
                       /\ Entering(call[c], u)' <=> Entering(call'[c], u)
  BY DEF Leaving, Entering
<1> QED  BY <1>2, <1>3, <1>4 DEF GoneIsToBeTold, EntryIsToBeTold, Leaving, Entering

\* What a call that ends a creation, an addition or a removal publishes is there to be handled.
LEMMA PublishTells ==
    ASSUME TypeOK, ProjParts, TakenInv, NEW c \in Calls, Publish(c), UNCHANGED marked
    PROVE  \A u \in About(call[c]) : \A T : Topic(call[c]) \in T => Untold(T, u)'
<1> DEFINE t == Topic(call[c])
           i == Len(log[t]) + 1
<1>0. t \in Topics /\ log[t] \in Seq(SUBSET Users) /\ About(call[c]) \in SUBSET Users
  BY DEF Topic, Topics, TypeOK, About, CallStates, Publish
<1>1. log'[t] = Append(log[t], About(call[c]))  BY <1>0 DEF Publish, TypeOK
<1>2. i \in DOMAIN log'[t] /\ log'[t][i] = About(call[c])  BY <1>0, <1>1
<1>3. <<t, i>> \notin marked
  <2>1. Len(log[t]) \in Nat /\ ~(i <= Len(log[t]))  BY <1>0
  <2>2. ~Told(<<t, i>>)  BY <2>1 DEF Told
  <2> QED  BY <2>2 DEF TakenInv
<1> SUFFICES ASSUME NEW u \in About(call[c]), NEW T, t \in T PROVE Untold(T, u)'  OBVIOUS
<1>4. i \in DOMAIN log'[t] /\ u \in log'[t][i] /\ <<t, i>> \notin marked'  BY <1>2, <1>3
<1> QED
  <2>1. PICK s \in T : \E j : j \in DOMAIN log'[s] /\ u \in log'[s][j] /\ <<s, j>> \notin marked'
    BY <1>4
  <2> QED  BY <2>1 DEF Untold

\* The steps of a call that leave the members and what is to be told of them alone.
LEMMA CallStands ==
    ASSUME TypeOK, CallShape, FormerInv, MissingInv, NEW c \in Calls, [ChanNext]_chanVars,
           UNCHANGED projVars, UNCHANGED <<role, lost>>,
           \A d \in Calls \ {c} : call'[d] = call[d],
           call[c].pc \notin {"rows", "publish"}
    PROVE  FormerInv' /\ MissingInv'
<1>1. UNCHANGED <<cached, marked, behind, missed, overlooked>> /\ Members' = Members
  BY DEF projVars, Members
<1>2. \A u : (GoneIsToBeTold(u) => GoneIsToBeTold(u)') /\ (EntryIsToBeTold(u) => EntryIsToBeTold(u)')
  <2>1. \A u : \A d \in Calls : /\ Leaving(call[d], u) => Leaving(call'[d], u)
                                /\ Entering(call[d], u) => Entering(call'[d], u)
    BY DEF Leaving, Entering
  <2> QED  BY <1>1, <2>1, StillToBeTold
<1> QED  BY <1>1, <1>2 DEF FormerInv, MissingInv

\* The INSERTs of a creation.
LEMMA InsertTells ==
    ASSUME TypeOK, CallShape, FormerInv, MissingInv, NEW c \in Calls, InsertRows(c),
           UNCHANGED projVars, [ChanNext]_chanVars
    PROVE  FormerInv' /\ MissingInv'
<1>0. /\ call \in [Calls -> CallStates] /\ call[c] \in CallStates /\ call[c].pc = "rows"
      /\ call[c].op = "create" /\ call[c].todo \subseteq call[c].party
      /\ call[c].todo \subseteq Users
  BY DEF TypeOK, CallShape, Shaped, InsertRows, CallStates
<1>1. UNCHANGED <<cached, marked, behind, missed, overlooked>>  BY DEF projVars
<1>2. PICK now : /\ now \subseteq call[c].todo
                 /\ Members' = Members \cup now
                 /\ \/ call' = [call EXCEPT ![c] = Done] /\ lost' = lost \cup now
                                /\ now = call[c].todo /\ kind # "dm"
                    \/ \E on \in {"rows", "publish"} :
                          /\ call' = [call EXCEPT ![c] = [call[c] EXCEPT !.pc = on,
                                                            !.todo = call[c].todo \ now]]
                          /\ lost' = lost
  <2> DEFINE d == call[c]
             now == IF d.actor \in d.todo /\ kind = "dm" THEN {d.actor} ELSE d.todo
             rank(u) == IF kind # "dm" /\ u = d.actor THEN "owner" ELSE "member"
             on == IF now # d.todo THEN "rows" ELSE IF kind = "community" THEN "done" ELSE "publish"
  <2>1. now \subseteq d.todo  OBVIOUS
  <2>2. /\ role' = [u \in Users |-> IF u \in now /\ role[u] = "none" THEN rank(u) ELSE role[u]]
        /\ call' = [call EXCEPT ![c] = IF on = "done" THEN Done
                                       ELSE [d EXCEPT !.pc = on, !.todo = d.todo \ now]]
        /\ lost' = IF on = "done" THEN lost \cup now ELSE lost
    BY DEF InsertRows, SetRows
  <2>3. on \in {"rows", "publish", "done"} /\ (on = "done" => now = d.todo /\ kind # "dm")  OBVIOUS
  <2>4. \A u : rank(u) # "none"  OBVIOUS
  <2> HIDE DEF now, rank, on
  <2>5. Members' = Members \cup now  BY <1>0, <2>1, <2>2, <2>4 DEF Members
  <2> QED  BY <2>1, <2>2, <2>3, <2>5
<1>3. lost \subseteq lost'  BY <1>2
<1>4. \A u : \A e \in Calls : Leaving(call[e], u) => Leaving(call'[e], u)  BY <1>0, <1>2 DEF Leaving
<1>5. FormerInv'  BY <1>1, <1>2, <1>3, <1>4, StillToBeTold DEF FormerInv
<1>6. \A u \in now : EntryIsToBeTold(u)'
  <2>1. CASE call' = [call EXCEPT ![c] = Done] /\ lost' = lost \cup now  BY <2>1 DEF EntryIsToBeTold
  <2>2. ASSUME NEW on \in {"rows", "publish"},
               call' = [call EXCEPT ![c] = [call[c] EXCEPT !.pc = on, !.todo = call[c].todo \ now]]
        PROVE  \A u \in now : EntryIsToBeTold(u)'
    <3>1. \A u \in now : Entering(call'[c], u)  BY <1>0, <1>2, <2>2 DEF Entering, CallStates
    <3> QED  BY <3>1 DEF EntryIsToBeTold, Entering
  <2> QED  BY <1>2, <2>1, <2>2
<1>7. ASSUME NEW u \in Members, EntryIsToBeTold(u) PROVE EntryIsToBeTold(u)'
  <2>1. CASE \A e \in Calls : Entering(call[e], u) => Entering(call'[e], u)
    BY <1>1, <1>3, <1>7, <2>1, StillToBeTold
  <2>2. CASE u \in call[c].todo /\ now = call[c].todo  BY <1>6, <2>2
  <2>3. CASE u \notin call[c].party
    <3>1. ~Entering(call[c], u)  BY <1>0, <2>3 DEF Entering
    <3> QED  BY <1>0, <1>2, <3>1, <2>1
  <2>4. ASSUME NEW on \in {"rows", "publish"},
               call' = [call EXCEPT ![c] = [call[c] EXCEPT !.pc = on, !.todo = call[c].todo \ now]]
        PROVE  EntryIsToBeTold(u)'
    <3>1. Entering(call[c], u) => Entering(call'[c], u)  BY <1>0, <2>4 DEF Entering, CallStates
    <3> QED  BY <1>0, <2>1, <2>4, <3>1
  <2>5. CASE call' = [call EXCEPT ![c] = Done] /\ lost' = lost \cup now /\ now = call[c].todo /\ kind # "dm"
    <3>1. call[c].todo = call[c].party  BY <1>0, <2>5 DEF CallShape, Shaped
    <3> QED  BY <2>2, <2>3, <2>5, <3>1
  <2> QED  BY <1>2, <2>4, <2>5
<1>8. MissingInv'  BY <1>1, <1>2, <1>6, <1>7 DEF MissingInv
<1> QED  BY <1>5, <1>8

\* The write of an addition or a removal.
LEMMA WriteTells ==
    ASSUME TypeOK, CallShape, FormerInv, MissingInv, NEW c \in Calls, Write(c),
           UNCHANGED projVars, [ChanNext]_chanVars
    PROVE  FormerInv' /\ MissingInv'
<1>p. PICK d, w : d = call[c] /\ w = d.user  OBVIOUS
<1> DEFINE new == CASE d.op \in {"remove", "leave"} -> "none"
                    [] d.op = "setRole" -> IF role[w] # "none" THEN d.to ELSE "none"
                    [] OTHER -> IF role[w] # "none" THEN role[w] ELSE d.to
<1>0. /\ call \in [Calls -> CallStates] /\ call[c] \in CallStates /\ call[c].pc = "write"
      /\ d.op \in Ops \ {"create"} /\ w \in Users /\ d.to # "none"
      /\ role \in [Users -> {"none"} \cup Roles]
  BY <1>p DEF TypeOK, CallShape, Shaped, Write, CallStates, Roles
<1>1. UNCHANGED <<cached, marked, behind, missed, overlooked, lost>>  BY DEF projVars, Write
<1>2. /\ role' = [role EXCEPT ![w] = new]
      /\ call' = [call EXCEPT ![c] = IF d.op = "setRole" THEN Done ELSE [d EXCEPT !.pc = "publish"]]
  BY <1>p DEF Write, SetRows, Goto
<1>3. \A u \in Users \ {w} : u \in Members' <=> u \in Members  BY <1>p, <1>0, <1>2 DEF Members
<1>4. \A u : \A e \in Calls : /\ Leaving(call[e], u) => Leaving(call'[e], u)
                              /\ Entering(call[e], u) => Entering(call'[e], u)
  BY <1>p, <1>0, <1>2 DEF Leaving, Entering
<1>5. \A u : (GoneIsToBeTold(u) => GoneIsToBeTold(u)') /\ (EntryIsToBeTold(u) => EntryIsToBeTold(u)')
  BY <1>1, <1>4, StillToBeTold
<1>6. CASE d.op \in {"remove", "leave"}
  <2>1. w \notin Members'  BY <1>p, <1>0, <1>2, <1>6 DEF Members
  <2>2. GoneIsToBeTold(w)'
    <3>1. Leaving(call'[c], w)  BY <1>p, <1>0, <1>2, <1>6 DEF Leaving, CallStates
    <3> QED  BY <3>1 DEF GoneIsToBeTold, Leaving
  <2> QED  BY <1>1, <1>3, <1>5, <2>1, <2>2 DEF FormerInv, MissingInv, Members
<1>7. CASE d.op \in {"add", "join"}
  <2>1. w \in Members'  BY <1>p, <1>0, <1>2, <1>7 DEF Members
  <2>2. Entering(call'[c], w)  BY <1>p, <1>0, <1>2, <1>7 DEF Entering, CallStates
  <2> QED
    <3>1. EntryIsToBeTold(w)'  BY <2>2 DEF EntryIsToBeTold, Entering
    <3>2. FormerInv'  BY <1>1, <1>3, <1>5, <2>1 DEF FormerInv, Members
    <3>3. MissingInv'
      <4> SUFFICES ASSUME cached # {}, NEW u \in Members' \ cached
                   PROVE  u \in behind \cup missed \cup overlooked \/ EntryIsToBeTold(u)'
        BY <1>1 DEF MissingInv
      <4> QED  BY <1>3, <1>5, <3>1 DEF MissingInv, Members
    <3> QED  BY <3>2, <3>3
<1>8. CASE d.op = "setRole"
  <2>1. w \in Members' <=> w \in Members  BY <1>p, <1>0, <1>2, <1>8 DEF Members
  <2> QED  BY <1>1, <1>3, <1>5, <2>1 DEF FormerInv, MissingInv, Members
<1> QED  BY <1>0, <1>6, <1>7, <1>8 DEF Ops

\* The event of a call takes over what the call was to tell.
LEMMA PublishHandsOver ==
    ASSUME TypeOK, CallShape, ProjParts, TakenInv, FormerInv, MissingInv, NEW c \in Calls,
           Publish(c), UNCHANGED projVars, [ChanNext]_chanVars
    PROVE  FormerInv' /\ MissingInv'
<1>0. /\ call \in [Calls -> CallStates] /\ call[c] \in CallStates /\ call[c].op \in Ops \ {"setRole"}
      /\ \A e \in Calls \ {c} : call'[e] = call[e]
  BY DEF TypeOK, CallShape, Shaped, Publish, Goto, CallStates
<1>1. UNCHANGED <<cached, marked, behind, missed, overlooked, lost, role>> /\ Members' = Members
  BY DEF projVars, Publish, ghosts, conversation, Members
<1>2. \A u \in About(call[c]) : \A T : Topic(call[c]) \in T => Untold(T, u)'  BY <1>1, PublishTells
<1>3. \A u : Leaving(call[c], u) => Topic(call[c]) \in {"removed"} /\ u \in About(call[c])
  BY <1>0 DEF Leaving, Topic, About
<1>4. \A u : Entering(call[c], u) => Topic(call[c]) \in {"created", "added"} /\ u \in About(call[c])
  BY <1>0 DEF Entering, Topic, About
<1>5. ASSUME NEW u, GoneIsToBeTold(u) PROVE GoneIsToBeTold(u)'
  <2>1. CASE Leaving(call[c], u)  BY <1>2, <1>3, <2>1 DEF GoneIsToBeTold
  <2>2. CASE ~Leaving(call[c], u)  BY <1>0, <1>1, <1>5, <2>2, StillToBeTold
  <2> QED  BY <2>1, <2>2
<1>6. ASSUME NEW u, EntryIsToBeTold(u) PROVE EntryIsToBeTold(u)'
  <2>1. CASE Entering(call[c], u)  BY <1>2, <1>4, <2>1 DEF EntryIsToBeTold
  <2>2. CASE ~Entering(call[c], u)  BY <1>0, <1>1, <1>6, <2>2, StillToBeTold
  <2> QED  BY <2>1, <2>2
<1> QED  BY <1>1, <1>5, <1>6 DEF FormerInv, MissingInv

\* A call that breaks off leaves whom it was to tell of among the lost.
LEMMA AbortLoses ==
    ASSUME TypeOK, CallShape, FormerInv, MissingInv, NEW c \in Calls, Abort(c),
           UNCHANGED projVars, [ChanNext]_chanVars
    PROVE  FormerInv' /\ MissingInv'
<1>0. /\ call \in [Calls -> CallStates] /\ call[c] \in CallStates
      /\ \A e \in Calls \ {c} : call'[e] = call[e]
      /\ lost \subseteq lost'
      /\ call[c].pc \in {"rows", "publish"} => lost' = lost \cup About(call[c])
  BY DEF TypeOK, Abort, Goto
<1>1. UNCHANGED <<cached, marked, behind, missed, overlooked, role>> /\ Members' = Members
  BY DEF projVars, Abort, conversation, Members
<1>2. \A u : Leaving(call[c], u) \/ Entering(call[c], u) => u \in lost'
  BY <1>0 DEF Leaving, Entering, About
<1>3. ASSUME NEW u, GoneIsToBeTold(u) PROVE GoneIsToBeTold(u)'
  <2>1. CASE Leaving(call[c], u)  BY <1>2, <2>1 DEF GoneIsToBeTold
  <2>2. CASE ~Leaving(call[c], u)  BY <1>0, <1>1, <1>3, <2>2, StillToBeTold
  <2> QED  BY <2>1, <2>2
<1>4. ASSUME NEW u, EntryIsToBeTold(u) PROVE EntryIsToBeTold(u)'
  <2>1. CASE Entering(call[c], u)  BY <1>2, <2>1 DEF EntryIsToBeTold
  <2>2. CASE ~Entering(call[c], u)  BY <1>0, <1>1, <1>4, <2>2, StillToBeTold
  <2> QED  BY <2>1, <2>2
<1> QED  BY <1>1, <1>3, <1>4 DEF FormerInv, MissingInv

\* Every step of the calls.
LEMMA RowsTell ==
    ASSUME TypeOK, CallShape, ProjParts, TakenInv, FormerInv, MissingInv,
           [ChanNext]_chanVars, UNCHANGED projVars
    PROVE  FormerInv' /\ MissingInv'
<1>1. CASE UNCHANGED chanVars
  <2>1. UNCHANGED <<role, log, call, lost, cached, marked, behind, missed, overlooked>> /\ Members' = Members
    BY <1>1 DEF chanVars, conversation, stream, ghosts, projVars, Members
  <2>2. \A u : (GoneIsToBeTold(u) <=> GoneIsToBeTold(u)') /\ (EntryIsToBeTold(u) <=> EntryIsToBeTold(u)')
    BY <2>1 DEF GoneIsToBeTold, EntryIsToBeTold, Leaving, Entering, Untold
  <2> QED  BY <2>1, <2>2 DEF FormerInv, MissingInv
<1>2. ASSUME NEW c \in Calls, Start(c) PROVE FormerInv' /\ MissingInv'
  <2>1. call[c].pc \notin {"rows", "publish"}  BY <1>2, StartMoves DEF Idle
  <2> QED  BY <1>2, <2>1, StartMoves, CallStands
<1>3. ASSUME NEW c \in Calls, Step(c) PROVE FormerInv' /\ MissingInv'
  <2>1. CASE ReadTarget(c) \/ Count(c) \/ BumpEpoch(c) \/ AnnounceEpoch(c)
    <3>1. UNCHANGED <<role, lost>> /\ call[c].pc \notin {"rows", "publish"}
      BY <2>1 DEF ReadTarget, Count, BumpEpoch, AnnounceEpoch, conversation, ghosts
    <3>2. \A d \in Calls \ {c} : call'[d] = call[d]  BY <1>3, StepShaped
    <3> QED  BY <3>1, <3>2, CallStands
  <2> QED  BY <1>3, <2>1, InsertTells, WriteTells, PublishHandsOver, AbortLoses DEF Step
<1> QED  BY <1>1, <1>2, <1>3 DEF ChanNext

\* A write of the set answers for the users it names; for the others nothing changes.
LEMMA WriteSetTells ==
    ASSUME TypeOK, ProjParts, FormerInv, MissingInv, NEW add \in BOOLEAN, NEW US \in SUBSET Users,
           WriteSet(add, US), UNCHANGED chanVars, marked \subseteq marked',
           \A e \in marked' \ marked : e \in Entries /\ log[e[1]][e[2]] = US
    PROVE  FormerInv' /\ MissingInv'
<1>1. UNCHANGED <<role, log, call, lost>> /\ Members' = Members
  BY DEF chanVars, conversation, stream, ghosts, Members
<1>2. ASSUME NEW T, NEW u, u \notin US, Untold(T, u) PROVE Untold(T, u)'
  <2>1. PICK t \in T : \E i \in DOMAIN log[t] : u \in log[t][i] /\ <<t, i>> \notin marked
    BY <1>2 DEF Untold
  <2>2. PICK i \in DOMAIN log[t] : u \in log[t][i] /\ <<t, i>> \notin marked  BY <2>1
  <2>3. <<t, i>> \notin marked'
    <3> SUFFICES ASSUME <<t, i>> \in marked' PROVE FALSE  OBVIOUS
    <3>1. log[<<t, i>>[1]][<<t, i>>[2]] = US  BY <2>2
    <3> QED  BY <1>2, <2>2, <3>1
  <2> QED  BY <1>1, <2>2, <2>3 DEF Untold
<1>c. ASSUME NEW u, NEW c \in Calls
      PROVE  (Leaving(call[c], u)' <=> Leaving(call[c], u)) /\ (Entering(call[c], u)' <=> Entering(call[c], u))
  BY <1>1 DEF Leaving, Entering
<1>3. ASSUME NEW u, u \notin US, GoneIsToBeTold(u) PROVE GoneIsToBeTold(u)'
  BY <1>1, <1>2, <1>3, <1>c DEF GoneIsToBeTold
<1>e. ASSUME NEW u, u \notin US, EntryIsToBeTold(u) PROVE EntryIsToBeTold(u)'
  BY <1>1, <1>2, <1>e, <1>c DEF EntryIsToBeTold
<1>4. /\ cached' = IF add THEN cached \cup US ELSE cached \ US
      /\ behind' = (behind \ US) \cup (IF add THEN US \ Members ELSE US \cap Members)
      /\ missed' = (IF cached = {} /\ add THEN Members ELSE missed) \ cached'
      /\ overlooked' = overlooked \ US
  BY DEF WriteSet
<1>5. FormerInv'
  <2> SUFFICES ASSUME NEW u \in cached' \ Members PROVE u \in behind' \/ GoneIsToBeTold(u)'
    BY <1>1 DEF FormerInv
  <2>1. CASE u \in US  BY <2>1, <1>4
  <2>2. CASE u \notin US
    <3>1. u \in cached \ Members  BY <2>2, <1>4
    <3>2. u \in behind => u \in behind'  BY <2>2, <1>4
    <3> QED  BY <2>2, <3>1, <3>2, <1>3 DEF FormerInv
  <2> QED  BY <2>1, <2>2
<1>6. MissingInv'
  <2> SUFFICES ASSUME cached' # {}, NEW u \in Members \ cached'
               PROVE  u \in behind' \cup missed' \cup overlooked' \/ EntryIsToBeTold(u)'
    BY <1>1 DEF MissingInv
  <2>1. CASE u \in US  BY <2>1, <1>4
  <2>2. CASE u \notin US /\ cached = {}  BY <2>2, <1>4
  <2>3. CASE u \notin US /\ cached # {}
    <3>1. u \in Members \ cached  BY <2>3, <1>4
    <3>2. u \in behind \cup missed \cup overlooked => u \in behind' \cup missed' \cup overlooked'
      BY <2>3, <1>4
    <3> QED  BY <2>3, <3>1, <3>2, <1>e DEF MissingInv
  <2> QED  BY <2>1, <2>2, <2>3
<1> QED  BY <1>5, <1>6

\* A creation passed over leaves its users among the overlooked.
LEMMA PassOverTells ==
    ASSUME FormerInv, MissingInv, NEW e \in Entries, e[1] = "created",
           marked' = marked \cup {e}, UNCHANGED chanVars, LeftAlone(e)
    PROVE  FormerInv' /\ MissingInv'
<1>1. UNCHANGED <<role, log, call, lost, cached, behind, missed>> /\ Members' = Members
  BY DEF chanVars, conversation, stream, ghosts, Members, LeftAlone
<1>2. ASSUME NEW u, NEW c \in Calls
      PROVE  (Leaving(call[c], u)' <=> Leaving(call[c], u)) /\ (Entering(call[c], u)' <=> Entering(call[c], u))
  BY <1>1 DEF Leaving, Entering
<1>3. ASSUME NEW u, GoneIsToBeTold(u) PROVE GoneIsToBeTold(u)'
  <2>1. Untold({"removed"}, u) => Untold({"removed"}, u)'  BY <1>1 DEF Untold
  <2> QED  BY <1>1, <1>2, <1>3, <2>1 DEF GoneIsToBeTold
<1>4. ASSUME NEW u, EntryIsToBeTold(u) PROVE u \in overlooked' \/ EntryIsToBeTold(u)'
  <2>1. CASE Untold({"created", "added"}, u)
    <3>1. PICK t \in {"created", "added"} : \E i \in DOMAIN log[t] : u \in log[t][i] /\ <<t, i>> \notin marked
      BY <2>1 DEF Untold
    <3>2. PICK i \in DOMAIN log[t] : u \in log[t][i] /\ <<t, i>> \notin marked  BY <3>1
    <3>3. CASE <<t, i>> = e
      <4>1. e[1] = t /\ e[2] = i  BY <3>3
      <4> QED  BY <3>2, <3>3, <4>1 DEF LeftAlone
    <3>4. CASE <<t, i>> # e  BY <1>1, <3>2, <3>4 DEF EntryIsToBeTold, Untold
    <3> QED  BY <3>3, <3>4
  <2> QED  BY <1>1, <1>2, <1>4, <2>1 DEF EntryIsToBeTold
<1>5. overlooked \subseteq overlooked'  BY DEF LeftAlone
<1> QED  BY <1>1, <1>3, <1>4, <1>5 DEF FormerInv, MissingInv

\* Every step of the projection.
LEMMA SetTells ==
    ASSUME TypeOK, ProjParts, TakenInv, FormerInv, MissingInv,
           \/ \E g \in Groups, t \in Topics : Take(g, t)
           \/ \E g \in Groups : Apply(g) \/ PassOver(g)
           \/ FillStart \/ FillRead \/ FillSeed \/ Evict
    PROVE  FormerInv' /\ MissingInv'
<1>1. CASE (\E g \in Groups, t \in Topics : Take(g, t)) \/ FillStart \/ FillRead \/ Evict
  <2>1. /\ UNCHANGED <<role, log, call, lost, marked, behind, missed, overlooked>> /\ Members' = Members
        /\ cached' = cached \/ cached' = {}
    BY <1>1 DEF Take, FillStart, FillRead, Evict, chanVars, conversation, stream, ghosts, Members
  <2>2. \A u : (GoneIsToBeTold(u) => GoneIsToBeTold(u)') /\ (EntryIsToBeTold(u) => EntryIsToBeTold(u)')
    BY <2>1 DEF GoneIsToBeTold, EntryIsToBeTold, Leaving, Entering, Untold
  <2> QED  BY <2>1, <2>2 DEF FormerInv, MissingInv
<1>2. ASSUME NEW g \in Groups, Apply(g) \/ PassOver(g) PROVE FormerInv' /\ MissingInv'
  <2>1. PICK e \in Entries :
               /\ Handled(g, e)
               /\ \/ WriteSet(e[1] # "removed", log[e[1]][e[2]])
                  \/ g \notin Keepers /\ LeftAlone(e)
    BY <1>2, ApplyMoves
  <2>2. PICK add \in BOOLEAN, US \in SUBSET Users : add = (e[1] # "removed") /\ US = log[e[1]][e[2]]
    BY <2>1 DEF Handled
  <2>3. CASE WriteSet(e[1] # "removed", log[e[1]][e[2]])
    <3>1. WriteSet(add, US)  BY <2>2, <2>3
    <3> QED  BY <2>1, <2>2, <3>1, WriteSetTells DEF Handled
  <2>4. CASE g \notin Keepers /\ LeftAlone(e)
    <3>1. e[1] = "created" /\ marked' = marked \cup {e} /\ UNCHANGED chanVars
      BY <2>1, <2>4 DEF Handled, MayHold, Follows
    <3> QED  BY <2>4, <3>1, PassOverTells
  <2> QED  BY <2>1, <2>3, <2>4
<1>3. CASE FillSeed
  <2>1. PICK US \in SUBSET Users : WriteSet(TRUE, US)  BY <1>3 DEF FillSeed, ProjParts
  <2>2. UNCHANGED chanVars /\ UNCHANGED marked  BY <1>3 DEF FillSeed
  <2> QED  BY <2>1, <2>2, WriteSetTells
<1> QED  BY <1>1, <1>2, <1>3

\* Once everything is handled, nothing is left to be told.
LEMMA NothingToBeTold ==
    ASSUME TypeOK, ProjParts, TakenInv, Settled, NEW u
    PROVE  (GoneIsToBeTold(u) => u \in lost) /\ (EntryIsToBeTold(u) => u \in lost)
<1>1. \A c \in Calls : ~Leaving(call[c], u) /\ ~Entering(call[c], u)
  BY DEF Settled, Quiet, Leaving, Entering
<1>2. ASSUME NEW t \in Topics, NEW i \in DOMAIN log[t] PROVE <<t, i>> \in marked
  <2>1. PICK g \in Groups : held[g] = {} /\ next[g][t] > Len(log[t])
    BY ProjectionAssumption DEF Settled, Follows
  <2>2. log[t] \in Seq(SUBSET Users) /\ next[g][t] \in Nat  BY DEF TypeOK, ProjParts
  <2>3. i \in 1 .. next[g][t] - 1  BY <2>1, <2>2
  <2> QED  BY <2>1, <2>3 DEF TakenInv
<1>3. ~Untold({"removed"}, u) /\ ~Untold({"created", "added"}, u)  BY <1>2 DEF Untold, Topics
<1> QED  BY <1>1, <1>3 DEF GoneIsToBeTold, EntryIsToBeTold

\* The types of the calls, the events and the set, for any number of users, calls and groups.
THEOREM ProjectionTypeCorrect == Spec => []ProjTypeOK
<1>1. TypeOK /\ ProjParts /\ TakenInv => ProjTypeOK
  <2> SUFFICES ASSUME TypeOK, ProjParts, TakenInv, NEW g \in Groups
               PROVE  held[g] \subseteq Entries /\ Cardinality(held[g]) <= 1
    BY DEF ProjParts, ProjTypeOK
  <2>1. CASE held[g] = {}  BY <2>1, FS_EmptySet
  <2>2. ASSUME NEW e \in Entries, held[g] = {e} PROVE held[g] \subseteq Entries /\ Cardinality(held[g]) <= 1
    BY <2>2, FS_Singleton
  <2> QED  BY <2>1, <2>2 DEF TakenInv
<1> QED  BY <1>1, TakenInvariant, PTL

\* The events reach the set, for any number of users, calls and groups: once every call has
\* ended and every event is handled, whoever is wrongly in the set or wrongly out of it was
\* written late, was never announced, was left out when an event made the set anew, or was of
\* a creation that the indexer marked first; and the epochs of a group have been told, each once.
THEOREM MembershipEventsReachTheSet == Spec => []EventsReachTheSet
<1>1. ProjInit => FormerInv /\ MissingInv  BY DEF ProjInit, FormerInv, MissingInv
<1>2. /\ TypeOK /\ CallShape /\ ProjParts /\ TakenInv /\ FormerInv /\ MissingInv
      /\ [Next]_vars
      => (FormerInv /\ MissingInv)'
  <2> SUFFICES ASSUME TypeOK, CallShape, ProjParts, TakenInv, FormerInv, MissingInv, [Next]_vars
               PROVE  FormerInv' /\ MissingInv'
    OBVIOUS
  <2> QED  BY RowsTell, SetTells DEF Next, vars
<1>3. /\ TypeOK /\ ProjParts /\ TakenInv /\ FormerInv /\ MissingInv
      => FormerMemberOnlyIfLate /\ MissingMemberOnlyIfPartial
  BY NothingToBeTold DEF FormerInv, MissingInv, FormerMemberOnlyIfLate, MissingMemberOnlyIfPartial
<1>4. EventsReachTheSet <=> EpochsAnnouncedOnce /\ FormerMemberOnlyIfLate /\ MissingMemberOnlyIfPartial
  BY DEF EventsReachTheSet
<1> QED  BY <1>1, <1>2, <1>3, <1>4, TakenInvariant, PTL DEF Spec

=============================================================================
