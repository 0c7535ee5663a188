------------------------ MODULE MessageLifecycle_proofs ------------------------
(***************************************************************************)
(* The types of MessageLifecycle, and what crossed edits, deletes and       *)
(* reactions can do to the document, for any number of calls and users;     *)
(* then the same for pins, lists and canvases (Collab), and for a process   *)
(* from its boot to its drain (Deployment).                                 *)
(***************************************************************************)
EXTENDS MessageLifecycle, Collab, Deployment, FiniteSetTheorems, TLAPS

\* A message starts as its send left it.
LEMMA InitTypes == Init => TypeOK
<1> SUFFICES ASSUME Init PROVE TypeOK  OBVIOUS
<1> USE LifecycleAssumption
<1>1. Idle \in CallStates  BY DEF Idle, CallStates, Modes, Contents
<1>2. published \in SUBSET Events
  BY DEF Init, SentEvent, Events, Topics, Tenant, TextOf, Modes, Contents
<1>3. /\ history \in Seq(Contents) /\ versions \in Seq(Contents)
      /\ Len(versions) = Len(history) + 1
  <2>1. Original \in Contents  BY DEF Contents
  <2>2. history = << >> /\ versions = <<Original>>  BY DEF Init
  <2> QED  BY <2>1, <2>2
<1>4. call \in [Calls -> CallStates]  BY <1>1 DEF Init
<1>5. content \in Contents /\ sentMode \in Modes /\ index \in Contents \cup {None}
  BY DEF Init, Contents
<1> QED  BY <1>2, <1>3, <1>4, <1>5 DEF Init, TypeOK

\* A call that begins has a well-formed record afterwards, and so has one that moves on.
LEMMA BeginTypes ==
    ASSUME TypeOK, NEW c \in Calls, NEW rec \in CallStates, Begin(c, rec)
    PROVE  call' \in [Calls -> CallStates]
BY DEF TypeOK, Begin

LEMMA GotoTypes ==
    ASSUME TypeOK, NEW c \in Calls,
           NEW next \in {"idle", "apply", "tombstone", "drop", "publish", "done"}, Goto(c, next)
    PROVE  call' \in [Calls -> CallStates]
BY DEF TypeOK, Goto, CallStates

LEMMA DoneTypes == \A mode \in Modes : Done(mode) \in CallStates
BY LifecycleAssumption DEF Done, Idle, CallStates, Contents, Modes

\* An edit, a delete and a hiding of the message keep the types.
LEMMA EditTypes ==
    ASSUME TypeOK, NEW c \in Calls,
           \/ \E mode \in Modes : EditReads(c, mode)
           \/ ApplyEdit(c) \/ DeleteReads(c) \/ Tombstone(c)
           \/ \E u \in Users : DeleteForMe(c, u)
    PROVE  TypeOK'
<1> USE LifecycleAssumption
<1>1. ASSUME NEW mode \in Modes, EditReads(c, mode) PROVE TypeOK'
  <2> DEFINE rec == [Idle EXCEPT !.pc = "apply", !.op = "edit", !.mode = mode, !.read = content]
  <2>1. rec \in CallStates  BY DEF TypeOK, Idle, CallStates
  <2>2. Begin(c, rec)  BY <1>1 DEF EditReads
  <2>3. call' \in [Calls -> CallStates]  BY <2>1, <2>2, BeginTypes
  <2> QED  BY <1>1, <2>3 DEF EditReads, TypeOK, doc, reactions, search, past
<1>2. CASE ApplyEdit(c)
  <2>1. call' \in [Calls -> CallStates]  BY <1>2, GotoTypes DEF ApplyEdit
  <2>2. call[c].read \in Contents /\ c \in Contents  BY DEF TypeOK, CallStates, Contents
  <2>3. history' \in Seq(Contents) /\ versions' \in Seq(Contents)
    BY <1>2, <2>2 DEF ApplyEdit, TypeOK
  <2>4. Len(versions') = Len(history') + 1  BY <1>2, <2>2 DEF ApplyEdit, TypeOK
  <2> QED  BY <1>2, <2>1, <2>2, <2>3, <2>4 DEF ApplyEdit, TypeOK, reactions, search
<1>3. CASE DeleteReads(c)
  <2> DEFINE rec == [Idle EXCEPT !.pc = "tombstone", !.op = "delete"]
  <2>1. rec \in CallStates  BY DEF Idle, CallStates, Contents, Modes
  <2>2. call' \in [Calls -> CallStates]  BY <1>3, <2>1, BeginTypes DEF DeleteReads
  <2> QED  BY <1>3, <2>2 DEF DeleteReads, TypeOK, doc, reactions, search, past
<1>4. CASE Tombstone(c)
  <2>1. call' \in [Calls -> CallStates]  BY <1>4, GotoTypes DEF Tombstone
  <2>2. Applying \subseteq Calls  BY DEF Applying
  <2> QED  BY <1>4, <2>1, <2>2 DEF Tombstone, TypeOK, Contents, reactions, search
<1>5. ASSUME NEW u \in Users, DeleteForMe(c, u) PROVE TypeOK'
  <2>1. call' \in [Calls -> CallStates]  BY <1>5, DoneTypes, BeginTypes DEF DeleteForMe, Modes
  <2> QED  BY <1>5, <2>1 DEF DeleteForMe, TypeOK, reactions, search, past
<1> QED  BY <1>1, <1>2, <1>3, <1>4, <1>5

\* So do the updates of the reactions.
LEMMA ReactionTypes ==
    ASSUME TypeOK, NEW c \in Calls,
           DropEmptyKey(c) \/ \E u \in Users : React(c, u) \/ Pull(c, u)
    PROVE  TypeOK'
<1> USE LifecycleAssumption
<1>1. CASE DropEmptyKey(c)
  <2>1. call' \in [Calls -> CallStates]  BY <1>1, GotoTypes DEF DropEmptyKey
  <2> QED  BY <1>1, <2>1 DEF DropEmptyKey, TypeOK, doc, search, past
<1>2. ASSUME NEW u \in Users, React(c, u) PROVE TypeOK'
  <2> DEFINE rec == [Idle EXCEPT !.pc = "publish", !.op = "react", !.user = u]
  <2>1. rec \in CallStates  BY DEF Idle, CallStates, Contents, Modes
  <2>2. call' \in [Calls -> CallStates]  BY <1>2, <2>1, BeginTypes DEF React
  <2> QED  BY <1>2, <2>2 DEF React, TypeOK, doc, search, past
<1>3. ASSUME NEW u \in Users, Pull(c, u) PROVE TypeOK'
  <2> DEFINE rec == [Idle EXCEPT !.pc = "drop", !.op = "unreact", !.user = u]
  <2>1. rec \in CallStates  BY DEF Idle, CallStates, Contents, Modes
  <2>2. call' \in [Calls -> CallStates]  BY <1>3, <2>1, BeginTypes DEF Pull
  <2>3. reactors' # {} => key'  BY <1>3 DEF Pull, TypeOK
  <2> QED  BY <1>3, <2>2, <2>3 DEF Pull, TypeOK, doc, search, past
<1> QED  BY <1>1, <1>2, <1>3

\* What a call publishes is an event.
LEMMA EventTypes ==
    ASSUME TypeOK, NEW c \in Calls
    PROVE  EventOf(c) \in Events
<1>1. TopicOf(call[c].op) \in Topics  BY DEF TopicOf, Topics
<1>2. Tenant(call[c].op, call[c].mode) \in BOOLEAN  BY DEF Tenant
<1>3. TextOf(call[c].mode, c) \in Contents /\ Empty \in Contents  BY DEF TextOf, Contents
<1> QED  BY <1>1, <1>2, <1>3 DEF EventOf, Events

\* Publishing, dying and indexing keep the types.
LEMMA SearchTypes ==
    ASSUME TypeOK,
           \/ \E c \in Calls : Publish(c) \/ Die(c)
           \/ \E e \in published : HandleAndMark(e) \/ HandleOnly(e)
    PROVE  TypeOK'
<1> USE LifecycleAssumption
<1>1. ASSUME NEW c \in Calls, call' = [call EXCEPT ![c] = Done(call[c].mode)]
      PROVE  call' \in [Calls -> CallStates]
  <2>1. call[c].mode \in Modes  BY DEF TypeOK, CallStates
  <2> QED  BY <1>1, <2>1, DoneTypes DEF TypeOK
<1>2. ASSUME NEW c \in Calls, Publish(c) PROVE TypeOK'
  <2>1. published' \in SUBSET Events /\ handled' \in SUBSET published'
    BY <1>2, EventTypes DEF Publish, TypeOK, search
  <2> QED  BY <1>1, <1>2, <2>1 DEF Publish, TypeOK, doc, reactions, search, past
<1>3. ASSUME NEW c \in Calls, Die(c) PROVE TypeOK'
  <2>1. halfDone' \in SUBSET Calls /\ faults' \in Nat  BY <1>3 DEF Die, TypeOK
  <2> QED  BY <1>1, <1>3, <2>1 DEF Die, TypeOK, doc, reactions, search, past
<1>4. ASSUME NEW e \in published, Handle(e)
      PROVE  /\ index' \in Contents \cup {None} /\ disordered' \in BOOLEAN
             /\ published' = published
  <2>1. e.text \in Contents  BY DEF TypeOK, Events
  <2>2. OverNewer(e) \in BOOLEAN  BY DEF OverNewer, Indexes
  <2> QED  BY <1>4, <2>1, <2>2 DEF Handle, TypeOK
<1>5. ASSUME NEW e \in published, HandleAndMark(e) PROVE TypeOK'
  BY <1>4, <1>5 DEF HandleAndMark, Handle, TypeOK, doc, reactions, past
<1>6. ASSUME NEW e \in published, HandleOnly(e) PROVE TypeOK'
  BY <1>4, <1>6 DEF HandleOnly, Handle, TypeOK, doc, reactions, past
<1> QED  BY <1>2, <1>3, <1>5, <1>6

\* Every step keeps the types.
LEMMA StepTypes == TypeOK /\ [Next]_lifeVars => TypeOK'
<1> SUFFICES ASSUME TypeOK, [Next]_lifeVars PROVE TypeOK'  OBVIOUS
<1>1. CASE Next  BY <1>1, EditTypes, ReactionTypes, SearchTypes DEF Next
<1>2. CASE UNCHANGED lifeVars  BY <1>2 DEF TypeOK, lifeVars, doc, reactions, search, past
<1> QED  BY <1>1, <1>2

\* The state of a stored message and of the calls on it is always well formed, and its
\* history has one entry for every edit.
THEOREM LifecycleTypeCorrect == Spec => []TypeOK
<1> QED  BY InitTypes, StepTypes, PTL DEF Spec

----------------------------------------------------------------------------
(* A tombstone is filled only by an edit that was under way when it was set: such   *)
(* an edit is on record from the moment of the tombstone, and no edit starts later. *)

TombstoneInv ==
    /\ TypeOK
    /\ TombstoneFilledOnlyByRacingEdit
    /\ deleted => Applying \subseteq racing

LEMMA TombstoneStep == TombstoneInv /\ [Next]_lifeVars => TombstoneInv'
<1> SUFFICES ASSUME TombstoneInv, [Next]_lifeVars PROVE TombstoneInv'  OBVIOUS
<1>1. TypeOK'  BY StepTypes DEF TombstoneInv
<1> DEFINE Inv == /\ deleted /\ content # Empty => content \in racing
                  /\ \A c \in Calls : deleted /\ call[c].pc = "apply" => c \in racing
<1>2. Inv  BY DEF TombstoneInv, TombstoneFilledOnlyByRacingEdit, Applying
<1>3. call \in [Calls -> CallStates]  BY DEF TombstoneInv, TypeOK
<1>4. Inv'
  <2>1. ASSUME NEW c \in Calls, NEW mode \in Modes, EditReads(c, mode) PROVE Inv'
    BY <1>2, <2>1 DEF EditReads, doc, past
  <2>2. ASSUME NEW c \in Calls, ApplyEdit(c) PROVE Inv'
    BY <1>2, <1>3, <2>2 DEF ApplyEdit, Goto, CallStates
  <2>3. ASSUME NEW c \in Calls, DeleteReads(c) PROVE Inv'
    BY <1>2, <1>3, <2>3 DEF DeleteReads, Begin, Idle, doc, past
  <2>4. ASSUME NEW c \in Calls, Tombstone(c) PROVE Inv'
    BY <1>3, <2>4 DEF Tombstone, Goto, Applying, CallStates
  <2>5. ASSUME NEW c \in Calls, DropEmptyKey(c) PROVE Inv'
    BY <1>2, <1>3, <2>5 DEF DropEmptyKey, Goto, CallStates, doc, past
  <2>6. ASSUME NEW c \in Calls, Publish(c) \/ Die(c) PROVE Inv'
    <3>1. \A d \in Calls : call'[d].pc = "apply" => call[d].pc = "apply"
      BY <1>3, <2>6 DEF Publish, Die, Done, Idle
    <3>2. UNCHANGED <<content, deleted, racing>>  BY <2>6 DEF Publish, Die, doc, past
    <3> QED  BY <1>2, <3>1, <3>2
  <2>7. ASSUME NEW c \in Calls, NEW u \in Users, DeleteForMe(c, u) PROVE Inv'
    BY <1>2, <1>3, <2>7 DEF DeleteForMe, Begin, Done, Idle, past
  <2>8. ASSUME NEW c \in Calls, NEW u \in Users, React(c, u) \/ Pull(c, u) PROVE Inv'
    <3>1. \A d \in Calls : call'[d].pc = "apply" => call[d].pc = "apply"
      BY <1>3, <2>8 DEF React, Pull, Begin, Idle
    <3>2. UNCHANGED <<content, deleted, racing>>  BY <2>8 DEF React, Pull, doc, past
    <3> QED  BY <1>2, <3>1, <3>2
  <2>9. ASSUME NEW e \in published, HandleAndMark(e) \/ HandleOnly(e) PROVE Inv'
    BY <1>2, <2>9 DEF HandleAndMark, HandleOnly, Handle, doc, past
  <2>10. CASE UNCHANGED lifeVars  BY <1>2, <2>10 DEF lifeVars, doc, past
  <2> QED  BY <2>1, <2>2, <2>3, <2>4, <2>5, <2>6, <2>7, <2>8, <2>9, <2>10 DEF Next
<1> QED  BY <1>1, <1>4 DEF TombstoneInv, TombstoneFilledOnlyByRacingEdit, Applying

\* applyEdit over a tombstone: whatever the number of edits and deletes, the content found
\* in a deleted message is that of an edit that had read it before it was deleted.
THEOREM TombstonesFilledOnlyByRacingEdits == Spec => []TombstoneFilledOnlyByRacingEdit
<1>1. Init => TombstoneInv  BY InitTypes DEF Init, TombstoneInv, TombstoneFilledOnlyByRacingEdit
<1>2. TombstoneInv => TombstoneFilledOnlyByRacingEdit  BY DEF TombstoneInv
<1> QED  BY <1>1, <1>2, TombstoneStep, PTL DEF Spec

----------------------------------------------------------------------------
(* No version leaves the record without a cause.  What makes this inductive is what  *)
(* a waiting edit has read: the content as it is, unless the content is that of an   *)
(* edit that crossed it, or a tombstone's.                                           *)

Kept(v) == \/ v = content \/ v \in cleared \/ v \in crossed
           \/ \E i \in DOMAIN history : history[i] = v

VersionsInv ==
    /\ \A k \in DOMAIN versions : Kept(versions[k]) /\ versions[k] # Empty
    /\ \A c \in Calls : call[c].pc = "apply" =>
          call[c].read = content \/ content \in crossed \/ content = Empty

\* Steps that leave the record alone and let no call begin or end an edit.
LEMMA VersionsUndisturbed ==
    ASSUME TypeOK, VersionsInv, UNCHANGED <<content, history, versions, cleared, crossed>>,
           \A d \in Calls : call'[d].pc = "apply" => call'[d] = call[d]
    PROVE  VersionsInv'
BY DEF VersionsInv, Kept

LEMMA ApplyKeepsVersions ==
    ASSUME TypeOK, VersionsInv, NEW c \in Calls, ApplyEdit(c)
    PROVE  VersionsInv'
<1>1. /\ call \in [Calls -> CallStates] /\ call[c].pc = "apply" /\ c \in Contents
      /\ call[c].read \in Contents /\ history \in Seq(Contents) /\ versions \in Seq(Contents)
  BY DEF TypeOK, ApplyEdit, CallStates, Contents
<1>2. /\ content' = c /\ cleared' = cleared /\ crossed \subseteq crossed'
      /\ history' = Append(history, call[c].read) /\ versions' = Append(versions, c)
  BY DEF ApplyEdit
<1>3. \A i \in DOMAIN history : i \in DOMAIN history' /\ history'[i] = history[i]  BY <1>1, <1>2
<1>4. \E i \in DOMAIN history' : history'[i] = call[c].read
  <2>1. Len(history) + 1 \in DOMAIN history' /\ history'[Len(history) + 1] = call[c].read
    BY <1>1, <1>2
  <2> QED  BY <2>1
<1>5. ASSUME NEW k \in DOMAIN versions' PROVE Kept(versions[k])' /\ versions'[k] # Empty
  <2>1. CASE k \in DOMAIN versions
    <3>1. versions'[k] = versions[k] /\ Kept(versions[k]) /\ versions[k] # Empty
      BY <1>1, <1>2, <2>1 DEF VersionsInv
    <3>2. CASE versions[k] = content  BY <1>1, <1>2, <1>4, <3>1, <3>2 DEF VersionsInv, Kept
    <3>3. CASE versions[k] # content  BY <1>2, <1>3, <3>1, <3>3 DEF Kept
    <3> QED  BY <3>2, <3>3
  <2>2. CASE k \notin DOMAIN versions
    <3>1. versions'[k] = c  BY <1>1, <1>2, <2>2
    <3> QED  BY <1>2, <3>1, LifecycleAssumption DEF Kept
  <2> QED  BY <2>1, <2>2
<1>6. ASSUME NEW d \in Calls, call'[d].pc = "apply" PROVE c \in crossed'
  <2>1. d # c /\ d \in Applying  BY <1>1, <1>6 DEF ApplyEdit, Goto, Applying, CallStates
  <2> QED  BY <2>1 DEF ApplyEdit
<1> QED  BY <1>2, <1>5, <1>6 DEF VersionsInv

LEMMA VersionsStep == TypeOK /\ VersionsInv /\ [Next]_lifeVars => VersionsInv'
<1> SUFFICES ASSUME TypeOK, VersionsInv, [Next]_lifeVars PROVE VersionsInv'  OBVIOUS
<1>0. call \in [Calls -> CallStates]  BY DEF TypeOK
<1>1. ASSUME NEW c \in Calls, NEW mode \in Modes, EditReads(c, mode) PROVE VersionsInv'
  <2>1. /\ \A d \in Calls : d # c => call'[d] = call[d]
        /\ call'[c].read = content
    BY <1>0, <1>1 DEF EditReads, Begin, Idle
  <2>2. UNCHANGED <<content, history, versions, cleared, crossed>>  BY <1>1 DEF EditReads, doc, past
  <2> QED  BY <2>1, <2>2 DEF VersionsInv, Kept
<1>2. ASSUME NEW c \in Calls, ApplyEdit(c) PROVE VersionsInv'  BY <1>2, ApplyKeepsVersions
<1>3. ASSUME NEW c \in Calls, Tombstone(c) PROVE VersionsInv'
  <2>1. /\ content' = Empty /\ cleared' = cleared \cup {content}
        /\ UNCHANGED <<history, versions, crossed>>
    BY <1>3 DEF Tombstone
  <2> QED  BY <2>1 DEF VersionsInv, Kept
<1>4. ASSUME NEW c \in Calls, DeleteReads(c) PROVE VersionsInv'
  BY <1>0, <1>4, VersionsUndisturbed DEF DeleteReads, Begin, Idle, doc, past
<1>5. ASSUME NEW c \in Calls, DropEmptyKey(c) PROVE VersionsInv'
  BY <1>0, <1>5, VersionsUndisturbed DEF DropEmptyKey, Goto, CallStates, doc, past
<1>6. ASSUME NEW c \in Calls, Publish(c) PROVE VersionsInv'
  BY <1>0, <1>6, VersionsUndisturbed DEF Publish, Done, Idle, doc, past
<1>7. ASSUME NEW c \in Calls, Die(c) PROVE VersionsInv'
  BY <1>0, <1>7, VersionsUndisturbed DEF Die, Done, Idle, doc, past
<1>8. ASSUME NEW c \in Calls, NEW u \in Users, DeleteForMe(c, u) PROVE VersionsInv'
  BY <1>0, <1>8, VersionsUndisturbed DEF DeleteForMe, Begin, Done, Idle, past
<1>9. ASSUME NEW c \in Calls, NEW u \in Users, React(c, u) PROVE VersionsInv'
  BY <1>0, <1>9, VersionsUndisturbed DEF React, Begin, Idle, doc, past
<1>10. ASSUME NEW c \in Calls, NEW u \in Users, Pull(c, u) PROVE VersionsInv'
  BY <1>0, <1>10, VersionsUndisturbed DEF Pull, Begin, Idle, doc, past
<1>11. ASSUME NEW e \in published, HandleAndMark(e) \/ HandleOnly(e) PROVE VersionsInv'
  BY <1>11, VersionsUndisturbed DEF HandleAndMark, HandleOnly, Handle, doc, past
<1>12. CASE UNCHANGED lifeVars  BY <1>12, VersionsUndisturbed DEF lifeVars, doc, past
<1> QED  BY <1>1, <1>2, <1>3, <1>4, <1>5, <1>6, <1>7, <1>8, <1>9, <1>10, <1>11, <1>12 DEF Next

\* edit_history: whatever the number of edits and deletes, a version of the message is on
\* record, or a tombstone cleared it, or it was written while another edit waited.
THEOREM VersionsAlwaysKept == Spec => []VersionsAreKept
<1>1. Init => VersionsInv
  <2> SUFFICES ASSUME Init PROVE VersionsInv  OBVIOUS
  <2>1. \A k \in DOMAIN versions : versions[k] = Original  BY DEF Init
  <2>2. \A c \in Calls : call[c].pc = "idle"  BY DEF Init, Idle
  <2> QED  BY <2>1, <2>2, LifecycleAssumption DEF Init, VersionsInv, Kept
<1>2. VersionsInv => VersionsAreKept  BY DEF VersionsInv, VersionsAreKept, Kept
<1> QED  BY <1>1, <1>2, InitTypes, StepTypes, VersionsStep, PTL DEF Spec

----------------------------------------------------------------------------
(* Reactions                                                               *)

LEMMA ReactionStep ==
    TypeOK /\ ReactionsSettle /\ [Next]_lifeVars => ReactionsSettle'
<1> SUFFICES ASSUME TypeOK, ReactionsSettle, [Next]_lifeVars PROVE ReactionsSettle'  OBVIOUS
<1> USE DEF ReactionsSettle
<1>0. call \in [Calls -> CallStates]  BY DEF TypeOK
<1>1. ASSUME NEW c \in Calls, NEW mode \in Modes, EditReads(c, mode) PROVE ReactionsSettle'
  BY <1>0, <1>1 DEF EditReads, Begin, Idle, reactions
<1>2. ASSUME NEW c \in Calls, ApplyEdit(c) \/ Tombstone(c) PROVE ReactionsSettle'
  BY <1>0, <1>2 DEF ApplyEdit, Tombstone, Goto, reactions
<1>3. ASSUME NEW c \in Calls, DeleteReads(c) PROVE ReactionsSettle'
  BY <1>0, <1>3 DEF DeleteReads, Begin, Idle, reactions
<1>4. ASSUME NEW c \in Calls, DropEmptyKey(c) PROVE ReactionsSettle'  BY <1>4 DEF DropEmptyKey
<1>5. ASSUME NEW c \in Calls, Publish(c) PROVE ReactionsSettle'
  BY <1>0, <1>5 DEF Publish, reactions
<1>6. ASSUME NEW c \in Calls, Die(c) PROVE ReactionsSettle'  BY <1>0, <1>6 DEF Die, reactions
<1>7. ASSUME NEW c \in Calls, NEW u \in Users, DeleteForMe(c, u) PROVE ReactionsSettle'
  BY <1>0, <1>7 DEF DeleteForMe, Begin, Idle, reactions
<1>8. ASSUME NEW c \in Calls, NEW u \in Users, React(c, u) PROVE ReactionsSettle'  BY <1>8 DEF React
<1>9. ASSUME NEW c \in Calls, NEW u \in Users, Pull(c, u) PROVE ReactionsSettle'
  <2>1. call'[c].pc = "drop"  BY <1>0, <1>9 DEF Pull, Begin, Idle
  <2> QED  BY <1>9, <2>1 DEF Pull
<1>10. ASSUME NEW e \in published, HandleAndMark(e) \/ HandleOnly(e) PROVE ReactionsSettle'
  BY <1>10 DEF HandleAndMark, HandleOnly, Handle, reactions
<1>11. CASE UNCHANGED lifeVars  BY <1>11 DEF lifeVars, reactions
<1> QED  BY <1>1, <1>2, <1>3, <1>4, <1>5, <1>6, <1>7, <1>8, <1>9, <1>10, <1>11 DEF Next

\* removeReaction: whatever additions and removals interleave with its two updates, no
\* reaction is lost or kept against its user's last update, and an empty list has a cause.
THEOREM ReactionsAlwaysSettle == Spec => []ReactionsSettle
<1>1. Init => ReactionsSettle  BY DEF Init, ReactionsSettle
<1> QED  BY <1>1, InitTypes, StepTypes, ReactionStep, PTL DEF Spec

----------------------------------------------------------------------------
(* What may be indexed.  An event carries a text only if its call is over and was    *)
(* readable, so that neither the event nor the entry outlives the permission.        *)

Open(c) == c \in Calls /\ call[c].mode = "readable" /\ call[c].pc = "done"

EventInv ==
    \A e \in published :
        /\ e.topic = "sent" /\ e.tenant =>
              \/ sentMode = "readable" /\ e.text = Original
              \/ sentMode = "sealed" /\ e.text = Empty
        /\ e.topic = "edited" /\ e.text # Empty => Open(e.text)

IndexInv ==
    /\ index = Original => sentMode = "readable"
    /\ index = Empty => sentMode = "sealed"
    /\ index \in Calls => Open(index)

\* A finished call stays finished.
LEMMA DoneForGood ==
    ASSUME TypeOK, [Next]_lifeVars
    PROVE  /\ sentMode' = sentMode
           /\ \A c \in Calls : Open(c) => Open(c)'
<1> USE DEF Open
<1>0. call \in [Calls -> CallStates]  BY DEF TypeOK
<1>1. ASSUME NEW c \in Calls, call[c].pc # "done",
             \A d \in Calls : d # c => call'[d] = call[d]
      PROVE  \A d \in Calls : Open(d) => Open(d)'
  BY <1>1
<1>2. ASSUME NEW c \in Calls, call[c] = Idle, \A d \in Calls : d # c => call'[d] = call[d]
      PROVE  \A d \in Calls : Open(d) => Open(d)'
  BY <1>2 DEF Idle
<1>3. ASSUME NEW c \in Calls, \E mode \in Modes : EditReads(c, mode)
      PROVE  sentMode' = sentMode /\ \A d \in Calls : Open(d) => Open(d)'
  BY <1>0, <1>2, <1>3 DEF EditReads, Begin
<1>4. ASSUME NEW c \in Calls, ApplyEdit(c) \/ Tombstone(c) \/ DropEmptyKey(c)
      PROVE  sentMode' = sentMode /\ \A d \in Calls : Open(d) => Open(d)'
  BY <1>0, <1>1, <1>4 DEF ApplyEdit, Tombstone, DropEmptyKey, Goto
<1>5. ASSUME NEW c \in Calls, DeleteReads(c)
      PROVE  sentMode' = sentMode /\ \A d \in Calls : Open(d) => Open(d)'
  BY <1>0, <1>2, <1>5 DEF DeleteReads, Begin
<1>6. ASSUME NEW c \in Calls, Publish(c) \/ Die(c)
      PROVE  sentMode' = sentMode /\ \A d \in Calls : Open(d) => Open(d)'
  BY <1>0, <1>1, <1>6 DEF Publish, Die
<1>7. ASSUME NEW c \in Calls, NEW u \in Users, DeleteForMe(c, u) \/ React(c, u) \/ Pull(c, u)
      PROVE  sentMode' = sentMode /\ \A d \in Calls : Open(d) => Open(d)'
  BY <1>0, <1>2, <1>7 DEF DeleteForMe, React, Pull, Begin
<1>8. ASSUME NEW e \in published, HandleAndMark(e) \/ HandleOnly(e)
      PROVE  sentMode' = sentMode /\ \A d \in Calls : Open(d) => Open(d)'
  BY <1>8 DEF HandleAndMark, HandleOnly, Handle
<1>9. CASE UNCHANGED lifeVars  BY <1>9 DEF lifeVars
<1> QED  BY <1>3, <1>4, <1>5, <1>6, <1>7, <1>8, <1>9 DEF Next

LEMMA EventStep == TypeOK /\ EventInv /\ [Next]_lifeVars => EventInv'
<1> SUFFICES ASSUME TypeOK, EventInv, [Next]_lifeVars PROVE EventInv'  OBVIOUS
<1>1. CASE published' = published  BY <1>1, DoneForGood DEF EventInv, Open
<1>2. ASSUME NEW c \in Calls, Publish(c) PROVE EventInv'
  <2>1. call[c].mode \in Modes /\ call[c].op \in {"edit", "delete", "react", "unreact"}
    BY DEF TypeOK, CallStates
  <2>2. call'[c].mode = call[c].mode /\ call'[c].pc = "done"
    BY <1>2 DEF Publish, TypeOK, Done, Idle
  <2>3. EventOf(c).topic # "sent"  BY DEF EventOf, TopicOf
  <2>4. EventOf(c).text # Empty => EventOf(c).text = c /\ call[c].mode = "readable"
    BY <2>1 DEF EventOf, TextOf
  <2>5. ASSUME NEW e \in published
        PROVE  /\ e.topic = "sent" /\ e.tenant =>
                     \/ sentMode' = "readable" /\ e.text = Original
                     \/ sentMode' = "sealed" /\ e.text = Empty
               /\ e.topic = "edited" /\ e.text # Empty => Open(e.text)'
    BY DoneForGood DEF EventInv, Open
  <2>6. published' = published \cup {EventOf(c)}  BY <1>2 DEF Publish
  <2> QED  BY <2>2, <2>3, <2>4, <2>5, <2>6 DEF EventInv, Open
<1>3. published' = published \/ \E c \in Calls : Publish(c)
  BY DEF Next, EditReads, ApplyEdit, DeleteReads, Tombstone, DropEmptyKey, Die, DeleteForMe,
         React, Pull, HandleAndMark, HandleOnly, Handle, lifeVars
<1> QED  BY <1>1, <1>2, <1>3

LEMMA IndexStep == TypeOK /\ EventInv /\ IndexInv /\ [Next]_lifeVars => IndexInv'
<1> SUFFICES ASSUME TypeOK, EventInv, IndexInv, [Next]_lifeVars PROVE IndexInv'  OBVIOUS
<1> USE LifecycleAssumption
<1>1. CASE index' = index  BY <1>1, DoneForGood DEF IndexInv, Open
<1>2. ASSUME NEW e \in published, Handle(e) PROVE IndexInv'
  <2>1. CASE Indexes(e)
    <3>1. index' = e.text  BY <1>2, <2>1 DEF Handle
    <3>2. CASE e.topic = "sent"  BY <2>1, <3>1, <3>2, DoneForGood DEF EventInv, IndexInv, Indexes
    <3>3. CASE e.topic = "edited" /\ e.text # Empty
      <4>1. Open(e.text) /\ e.text \in Calls  BY <3>3 DEF EventInv, Open
      <4> QED  BY <3>1, <4>1, DoneForGood DEF IndexInv
    <3> QED  BY <2>1, <3>2, <3>3 DEF Indexes
  <2>2. CASE ~Indexes(e) /\ Purges(e)  BY <1>2, <2>2 DEF Handle, IndexInv
  <2>3. CASE ~Indexes(e) /\ ~Purges(e)  BY <1>1, <1>2, <2>3 DEF Handle
  <2> QED  BY <2>1, <2>2, <2>3
<1>3. index' = index \/ \E e \in published : Handle(e)
  BY DEF Next, EditReads, ApplyEdit, DeleteReads, Tombstone, DropEmptyKey, Publish, Die,
         DeleteForMe, React, Pull, HandleAndMark, HandleOnly, lifeVars, search
<1> QED  BY <1>1, <1>2, <1>3

\* Server-blind search: whatever events are repeated or reordered, no content of a personal
\* or an encrypted send or edit is ever in the index.
THEOREM IndexHoldsOnlyReadableText == Spec => []OnlyReadableTextIsIndexed
<1>1. Init => EventInv /\ IndexInv
  <2> SUFFICES ASSUME Init PROVE EventInv /\ IndexInv  OBVIOUS
  <2>1. published = {SentEvent(sentMode)} /\ sentMode \in Modes  BY DEF Init
  <2>2. EventInv
    <3>1. SentEvent(sentMode).topic = "sent"  BY DEF SentEvent
    <3>2. SentEvent(sentMode).tenant = (sentMode # "personal")  BY DEF SentEvent, Tenant
    <3>3. SentEvent(sentMode).text = IF sentMode = "readable" THEN Original ELSE Empty
      BY DEF SentEvent, TextOf
    <3> QED  BY <2>1, <3>1, <3>2, <3>3 DEF EventInv, Modes
  <2>3. index # Original /\ index # Empty /\ index \notin Calls  BY LifecycleAssumption DEF Init
  <2> QED  BY <2>2, <2>3 DEF IndexInv
<1>2. IndexInv => OnlyReadableTextIsIndexed  BY DEF IndexInv, OnlyReadableTextIsIndexed, Open
<1> QED  BY <1>1, <1>2, InitTypes, StepTypes, EventStep, IndexStep, PTL DEF Spec

----------------------------------------------------------------------------
(* What stands in the index.  The bus orders nothing between topics and replicas, so  *)
(* what can be kept is that the text in the index is that of an event none of those    *)
(* marked is newer than.  Two facts make the order of versions a fixed one: an edit    *)
(* is applied once, and its event is published after that.                             *)

OnceInv ==
    /\ \A i, j \in DOMAIN versions : versions[i] = versions[j] => i = j
    /\ \A i \in DOMAIN versions : versions[i] \in Calls => call[versions[i]].pc \in {"publish", "done"}

CarriedInv ==
    \A e \in published :
        /\ e.from \in Calls => call[e.from].pc = "done"
        /\ e.tenant => e.topic \in {"sent", "edited"}
        /\ Indexes(e) => e.text \in {e.from, Empty}

NewestInv ==
    ~disordered =>
        \/ index = None /\ \A f \in handled : ~Indexes(f)
        \/ \E e \in published : /\ Indexes(e) /\ index = e.text
                                /\ \A f \in handled : Indexes(f) => ~Older(e, f)

\* A call that has made its update never comes back before it.
LEMMA CallsAdvance ==
    ASSUME TypeOK, [Next]_lifeVars, NEW d \in Calls
    PROVE  /\ call[d].pc \in {"publish", "done"} => call'[d].pc \in {"publish", "done"}
           /\ call[d].pc = "done" => call'[d].pc = "done"
<1> DEFINE Advances == /\ call[d].pc \in {"publish", "done"} => call'[d].pc \in {"publish", "done"}
                       /\ call[d].pc = "done" => call'[d].pc = "done"
<1>0. call \in [Calls -> CallStates]  BY DEF TypeOK
<1>1. ASSUME NEW c \in Calls, NEW rec, Begin(c, rec) PROVE Advances  BY <1>0, <1>1 DEF Begin, Idle
<1>2. ASSUME NEW c \in Calls, ApplyEdit(c) \/ Tombstone(c) \/ DropEmptyKey(c) PROVE Advances
  BY <1>0, <1>2 DEF ApplyEdit, Tombstone, DropEmptyKey, Goto, CallStates
<1>3. ASSUME NEW c \in Calls, Publish(c) \/ Die(c) PROVE Advances
  BY <1>0, <1>3 DEF Publish, Die, Done, Idle
<1>4. CASE call' = call  BY <1>4
<1>5. ASSUME NEW c \in Calls, \/ \E mode \in Modes : EditReads(c, mode)
                              \/ DeleteReads(c)
                              \/ \E u \in Users : DeleteForMe(c, u) \/ React(c, u) \/ Pull(c, u)
      PROVE  Advances
  BY <1>1, <1>5 DEF EditReads, DeleteReads, DeleteForMe, React, Pull
<1>6. ASSUME NEW e \in published, HandleAndMark(e) \/ HandleOnly(e) PROVE call' = call
  BY <1>6 DEF HandleAndMark, HandleOnly, Handle
<1>7. UNCHANGED lifeVars => call' = call  BY DEF lifeVars
<1> QED  BY <1>2, <1>3, <1>4, <1>5, <1>6, <1>7 DEF Next

\* An edit enters the record of versions once.
LEMMA OnceStep == TypeOK /\ OnceInv /\ [Next]_lifeVars => OnceInv'
<1> SUFFICES ASSUME TypeOK, OnceInv, [Next]_lifeVars PROVE OnceInv'  OBVIOUS
<1>1. CASE versions' = versions  BY <1>1, CallsAdvance DEF OnceInv
<1>2. ASSUME NEW c \in Calls, ApplyEdit(c) PROVE OnceInv'
  <2>1. /\ call \in [Calls -> CallStates] /\ versions \in Seq(Contents) /\ c \in Contents
        /\ call[c].pc = "apply" /\ versions' = Append(versions, c)
    BY <1>2 DEF TypeOK, ApplyEdit, Contents
  <2>2. call'[c].pc = "publish"  BY <1>2, <2>1 DEF ApplyEdit, Goto, CallStates
  <2>3. \A i \in DOMAIN versions : versions[i] # c  BY <2>1 DEF OnceInv
  <2>4. \A i \in DOMAIN versions' :
           \/ i \in DOMAIN versions /\ versions'[i] = versions[i]
           \/ i = Len(versions) + 1 /\ versions'[i] = c
    BY <2>1
  <2>5. \A i, j \in DOMAIN versions' : versions'[i] = versions'[j] => i = j
    BY <2>3, <2>4 DEF OnceInv
  <2>6. \A i \in DOMAIN versions' : versions'[i] \in Calls => call'[versions'[i]].pc \in {"publish", "done"}
    BY <2>2, <2>4, CallsAdvance DEF OnceInv
  <2> QED  BY <2>5, <2>6 DEF OnceInv
<1>3. versions' = versions \/ \E c \in Calls : ApplyEdit(c)
  BY DEF Next, EditReads, DeleteReads, Tombstone, DropEmptyKey, Publish, Die, DeleteForMe,
         React, Pull, HandleAndMark, HandleOnly, Handle, lifeVars, past
<1> QED  BY <1>1, <1>2, <1>3

\* What an event carries does not change, and its call is over.
LEMMA CarriedStep == TypeOK /\ CarriedInv /\ [Next]_lifeVars => CarriedInv'
<1> SUFFICES ASSUME TypeOK, CarriedInv, [Next]_lifeVars PROVE CarriedInv'  OBVIOUS
<1>1. CASE published' = published  BY <1>1, CallsAdvance DEF CarriedInv, Indexes
<1>2. ASSUME NEW c \in Calls, Publish(c) PROVE CarriedInv'
  <2>1. call'[c].pc = "done"  BY <1>2 DEF Publish, TypeOK, Done, Idle
  <2>2. call[c].op \in {"edit", "delete", "react", "unreact"}  BY DEF TypeOK, CallStates
  <2>3. /\ EventOf(c).from = c
        /\ EventOf(c).tenant => EventOf(c).topic \in {"sent", "edited"}
        /\ EventOf(c).text \in {c, Empty}
    BY <2>2 DEF EventOf, TopicOf, Tenant, TextOf
  <2>4. published' = published \cup {EventOf(c)}  BY <1>2 DEF Publish
  <2> QED  BY <2>1, <2>3, <2>4, CallsAdvance DEF CarriedInv, Indexes
<1>3. published' = published \/ \E c \in Calls : Publish(c)
  BY DEF Next, EditReads, ApplyEdit, DeleteReads, Tombstone, DropEmptyKey, Die, DeleteForMe,
         React, Pull, HandleAndMark, HandleOnly, Handle, lifeVars
<1> QED  BY <1>1, <1>2, <1>3

\* The order of two versions that events were published of is settled.
LEMMA OlderSettled ==
    ASSUME TypeOK, CarriedInv, [Next]_lifeVars, NEW e \in published, NEW f \in published, Older(e, f)'
    PROVE  Older(e, f)
<1>1. CASE versions' = versions  BY <1>1 DEF Older
<1>2. ASSUME NEW c \in Calls, ApplyEdit(c) PROVE Older(e, f)
  <2>1. /\ versions \in Seq(Contents) /\ c \in Contents
        /\ call[c].pc = "apply" /\ versions' = Append(versions, c)
    BY <1>2 DEF TypeOK, ApplyEdit, Contents
  <2>2. e.from # c /\ f.from # c  BY <2>1 DEF CarriedInv
  <2>3. \A i \in DOMAIN versions' :
           \/ i \in DOMAIN versions /\ versions'[i] = versions[i]
           \/ versions'[i] = c
    BY <2>1
  <2>4. PICK i \in DOMAIN versions', j \in DOMAIN versions' :
            i < j /\ versions'[i] = e.from /\ versions'[j] = f.from
    BY DEF Older
  <2> QED  BY <2>2, <2>3, <2>4 DEF Older
<1>3. versions' = versions \/ \E c \in Calls : ApplyEdit(c)
  BY DEF Next, EditReads, DeleteReads, Tombstone, DropEmptyKey, Publish, Die, DeleteForMe,
         React, Pull, HandleAndMark, HandleOnly, Handle, lifeVars, past
<1> QED  BY <1>1, <1>2, <1>3

\* The entry trails the marked events only by disorder.
LEMMA NewestStep ==
    TypeOK /\ OnceInv /\ CarriedInv /\ NewestInv /\ [Next]_lifeVars => NewestInv'
<1> SUFFICES ASSUME TypeOK, OnceInv, CarriedInv, NewestInv, [Next]_lifeVars PROVE NewestInv'
  OBVIOUS
<1>0. handled \subseteq published  BY DEF TypeOK
<1>1. CASE UNCHANGED search /\ published \subseteq published'
  <2> SUFFICES ASSUME ~disordered' PROVE NewestInv'  BY DEF NewestInv
  <2>1. index' = index /\ handled' = handled /\ ~disordered  BY <1>1 DEF search
  <2>2. CASE index = None /\ \A f \in handled : ~Indexes(f)  BY <2>1, <2>2 DEF NewestInv, Indexes
  <2>3. ASSUME NEW e \in published, Indexes(e), index = e.text,
               \A f \in handled : Indexes(f) => ~Older(e, f)
        PROVE  NewestInv'
    <3>1. \A f \in handled : Indexes(f) => ~Older(e, f)'  BY <1>0, <2>3, OlderSettled
    <3> QED  BY <1>1, <2>1, <2>3, <3>1 DEF NewestInv, Indexes
  <2> QED  BY <2>1, <2>2, <2>3 DEF NewestInv
<1>2. ASSUME NEW e \in published, Handle(e), handled' = handled \/ handled' = handled \cup {e}
      PROVE  NewestInv'
  <2> SUFFICES ASSUME ~disordered' PROVE NewestInv'  BY DEF NewestInv
  <2>1. ~disordered /\ ~OverNewer(e) /\ published' = published /\ versions' = versions
    BY <1>2 DEF Handle, past
  <2>2. \A f \in handled' : f \in handled \/ f = e  BY <1>2
  <2>3. CASE Indexes(e)
    <3>1. index' = e.text  BY <1>2, <2>3 DEF Handle
    <3>2. ~Older(e, e)  BY DEF OnceInv, Older, TypeOK
    <3>3. \A f \in handled' : Indexes(f) => ~Older(e, f)  BY <2>1, <2>2, <2>3, <3>2 DEF OverNewer
    <3>4. \A f \in handled' : Indexes(f) => ~Older(e, f)'  BY <2>1, <3>3 DEF Older
    <3> QED  BY <2>1, <2>3, <3>1, <3>4 DEF NewestInv, Indexes
  <2>4. CASE ~Indexes(e)
    <3>1. ~Purges(e)  BY DEF CarriedInv, Purges
    <3>2. index' = index  BY <1>2, <2>4, <3>1 DEF Handle
    <3>3. \A f \in handled' : Indexes(f) => f \in handled  BY <2>2, <2>4
    <3>4. CASE index = None /\ \A f \in handled : ~Indexes(f)
      BY <3>2, <3>3, <3>4 DEF NewestInv, Indexes
    <3>5. ASSUME NEW g \in published, Indexes(g), index = g.text,
                 \A f \in handled : Indexes(f) => ~Older(g, f)
          PROVE  NewestInv'
      <4>1. \A f \in handled' : Indexes(f) => ~Older(g, f)'  BY <2>1, <3>3, <3>5 DEF Older
      <4> QED  BY <2>1, <3>2, <3>5, <4>1 DEF NewestInv, Indexes
    <3> QED  BY <2>1, <3>4, <3>5 DEF NewestInv
  <2> QED  BY <2>3, <2>4
<1>3. \/ UNCHANGED search /\ published \subseteq published'
      \/ \E e \in published : Handle(e) /\ (handled' = handled \/ handled' = handled \cup {e})
  BY DEF Next, EditReads, ApplyEdit, DeleteReads, Tombstone, DropEmptyKey, Publish, Die,
         DeleteForMe, React, Pull, HandleAndMark, HandleOnly, lifeVars, search
<1> QED  BY <1>1, <1>2, <1>3

\* Search keeps up: whatever the number of edits and replicas of the indexer, once all is handled the
\* index holds the newest text an event carried, unless an older one was written over a newer one.
THEOREM IndexTrailsNothingElse == Spec => []IndexTrailsOnlyDisorder
<1>1. Init => OnceInv /\ CarriedInv /\ NewestInv
  <2> SUFFICES ASSUME Init PROVE OnceInv /\ CarriedInv /\ NewestInv  OBVIOUS
  <2>1. versions = <<Original>> /\ published = {SentEvent(sentMode)} /\ index = None /\ handled = {}
    BY DEF Init
  <2>2. /\ SentEvent(sentMode).from = Original /\ SentEvent(sentMode).topic = "sent"
        /\ SentEvent(sentMode).text \in {Original, Empty}
    BY DEF SentEvent, TextOf
  <2>3. Original \notin Calls  BY LifecycleAssumption
  <2> QED  BY <2>1, <2>2, <2>3 DEF OnceInv, CarriedInv, NewestInv
<1>2. TypeOK /\ CarriedInv /\ NewestInv => IndexTrailsOnlyDisorder
  <2> SUFFICES ASSUME TypeOK, CarriedInv, NewestInv, AtRest, ~disordered
               PROVE  \/ index = None /\ \A e \in published : ~Indexes(e)
                      \/ \E e \in published : /\ Indexes(e) /\ index \in {e.from, Empty}
                                              /\ \A f \in published : Indexes(f) => ~Older(e, f)
    BY DEF IndexTrailsOnlyDisorder
  <2>1. \A f \in published : Indexes(f) => f \in handled  BY DEF AtRest, Indexes
  <2> QED  BY <2>1 DEF NewestInv, CarriedInv
<1> QED  BY <1>1, <1>2, InitTypes, StepTypes, OnceStep, CarriedStep, NewestStep, PTL DEF Spec

----------------------------------------------------------------------------
(* What members keep together                                              *)

\* Pins, lists and canvases in one behaviour, their calls in any order.
togetherVars == <<taskVars, collabVars>>
CollabStart  == TasksInit /\ CollabInit
CollabSpec   == CollabStart /\ [][ExtrasNext \/ ListsNext \/ CanvasNext]_togetherVars

CollabCall(r) ==
    \/ r = New \/ r = Failed
    \/ r \in [op : {"pin", "unpin"}, at : {"tell"}]
    \/ r \in [op : {"setState"}, field : Fields, at : {"state"}]
    \/ r \in [op : {"addItem"}, at : {"position"}]
    \/ r \in [op : {"addItem"}, pos : Positions, at : {"insert"}]
    \/ r \in [op : {"deleteList"}, at : {"items", "list"}]
    \/ r \in [op : {"edit"}, part : {"title", "content"}, at : {"exists"}, expected : Nat, content : SUBSET Tasks]
    \/ r \in [op : {"edit"}, part : {"title", "content"}, at : {"update"}, expected : Nat, content : SUBSET Tasks, current : Nat]
    \/ r \in [op : {"pin", "unpin", "setState", "addItem", "deleteList", "edit"}, at : {"over"}]

CollabTyped ==
    /\ {pinned, pinTold, emptied} \subseteq BOOLEAN
    /\ chat \in [Fields -> Tasks \cup {Nobody}]
    /\ list \in {"none", "there", "gone"}
    /\ items \in [Tasks -> Positions \cup {Out}]
    /\ canvas \in [version : Nat, content : SUBSET Tasks, title : Tasks \cup {Nobody}]
    /\ saved \subseteq {"star", "clip"}
    /\ accepted \subseteq Tasks \X {"title", "content"}
    /\ misread \subseteq Tasks /\ moved \subseteq Tasks /\ concurrent \subseteq Tasks
    /\ failures \in Nat
    /\ task = [t \in Tasks |-> task[t]] /\ \A t \in Tasks : CollabCall(task[t])

\* Alone, a call that pins or unpins is the last to have written, until it has told.
PinInv ==
    concurrent = {} /\ failures = 0 =>
       /\ \A t, u \in Tasks : At(t, "tell") /\ At(u, "tell") => t = u
       /\ \A t \in Tasks : At(t, "tell") => pinned = (task[t].op = "pin")
       /\ (\A t \in Tasks : ~At(t, "tell")) => pinTold = pinned

\* A patch that is not answered is what its field has, unless another of the field came with it.
PatchInv ==
    /\ \A t \in Tasks : At(t, "state") => t \in concurrent \/ chat[task[t].field] = t
    /\ misread \subseteq concurrent

Adds(t)    == At(t, "position") \/ At(t, "insert")
Deletes(t) == At(t, "items") \/ At(t, "list")

\* Whoever adds while the list goes has overlapped with its deletion, and two who add with one another.
TogetherInv ==
    /\ \A t, u \in Tasks : Adds(t) /\ (Deletes(u) \/ (Adds(u) /\ u # t)) => t \in concurrent
    /\ list = "gone" \/ (\E u \in Tasks : At(u, "list")) =>
          \A t \in Tasks : items[t] # Out \/ Adds(t) => t \in concurrent

\* The position an item is about to take is another's only if that one was added at the same time, or moved.
PlaceTakenInv ==
    /\ \A t, u \in Tasks : At(t, "insert") /\ items[u] # Out /\ u # t /\ items[u] = task[t].pos =>
          {t, u} \subseteq concurrent \/ u \in moved
    /\ PositionsDiffer

\* Until it is made, nothing deletes the list.
ListMadeInv ==
    /\ list = "none" => ~emptied /\ \A t \in Tasks : ~Deletes(t)
    /\ EmptiedListsGo

\* Who expects the version of the canvas has its content.
EditInv ==
    /\ \A t \in Tasks : At(t, "exists") \/ At(t, "update") =>
          /\ task[t].expected <= canvas.version
          /\ task[t].expected = canvas.version => task[t].content = canvas.content
    /\ \A e \in accepted : e[2] = "content" => e[1] \in canvas.content
    /\ \A e \in accepted : At(e[1], "over")
    /\ \A e, f \in accepted : e[1] = f[1] => e = f
    /\ IsFiniteSet(accepted) /\ canvas.version = 1 + Cardinality(accepted)

CollabInv == CollabTyped /\ PinInv /\ PatchInv /\ TogetherInv /\ PlaceTakenInv /\ ListMadeInv /\ EditInv

LEMMA PositionsAre == Cardinality(Tasks) \in Nat /\ Out \in Nat /\ Positions \subseteq Nat /\ Out \notin Positions
<1>1. Cardinality(Tasks) \in Nat  BY CollabAssumption, FS_CardinalityType
<1> QED BY <1>1 DEF Out, Positions

\* Where a step of t leaves it; no other call moves.
CollabMoves(t, r) == /\ task' = [u \in Tasks |-> task'[u]] /\ task'[t] = r
                     /\ \A u \in Tasks : u # t => task'[u] = task[u]

LEMMA CollabStep ==
    ASSUME CollabTyped, NEW t \in Tasks, NEW r, CollabCall(r), task' = [task EXCEPT ![t] = r]
    PROVE  CollabMoves(t, r) /\ task' = [u \in Tasks |-> task'[u]] /\ \A u \in Tasks : CollabCall(task'[u])
<1>1. task' = [u \in Tasks |-> IF u = t THEN r ELSE task[u]]  BY DEF CollabTyped
<1>2. CollabMoves(t, r)  BY <1>1 DEF CollabMoves
<1>3. \A u \in Tasks : CollabCall(task'[u])
  <2> SUFFICES ASSUME NEW u \in Tasks PROVE CollabCall(task'[u])  OBVIOUS
  <2>1. CASE u = t  BY <1>2, <2>1 DEF CollabMoves
  <2>2. CASE u # t  BY <1>2, <2>2 DEF CollabMoves, CollabTyped
  <2> QED BY <2>1, <2>2
<1> QED BY <1>2, <1>3 DEF CollabMoves

\* Where a call is tells what it does.
LEMMA CollabPlaces ==
    ASSUME CollabTyped, NEW t \in Tasks
    PROVE  /\ At(t, "tell") => task[t] \in [op : {"pin", "unpin"}, at : {"tell"}]
           /\ At(t, "state") => task[t] \in [op : {"setState"}, field : Fields, at : {"state"}]
           /\ At(t, "position") => task[t] \in [op : {"addItem"}, at : {"position"}]
           /\ At(t, "insert") => task[t] \in [op : {"addItem"}, pos : Positions, at : {"insert"}]
           /\ At(t, "items") \/ At(t, "list") => task[t] \in [op : {"deleteList"}, at : {"items", "list"}]
           /\ At(t, "exists") => task[t] \in [op : {"edit"}, part : {"title", "content"}, at : {"exists"},
                                              expected : Nat, content : SUBSET Tasks]
           /\ At(t, "update") => task[t] \in [op : {"edit"}, part : {"title", "content"}, at : {"update"},
                                              expected : Nat, content : SUBSET Tasks, current : Nat]
<1>1. CollabCall(task[t])  BY DEF CollabTyped
<1>2. CASE task[t] = New \/ task[t] = Failed  BY <1>2 DEF New, Failed, At
<1>3. CASE task[t] # New /\ task[t] # Failed  BY <1>1, <1>3 DEF CollabCall, At
<1> QED BY <1>2, <1>3

LEMMA CollabUnder ==
    ASSUME CollabTyped, NEW t \in Tasks
    PROVE  /\ Under(t, "pin") \/ Under(t, "unpin") <=> At(t, "tell")
           /\ Under(t, "setState") <=> At(t, "state")
           /\ Under(t, "addItem") <=> Adds(t)
           /\ Under(t, "deleteList") <=> Deletes(t)
<1>1. CollabCall(task[t])  BY DEF CollabTyped
<1>2. CASE task[t] = New \/ task[t] = Failed  BY <1>2 DEF New, Failed, At, Under, Adds, Deletes
<1>3. CASE task[t] # New /\ task[t] # Failed  BY <1>1, <1>3 DEF CollabCall, At, Under, Adds, Deletes
<1> QED BY <1>2, <1>3

LEMMA CollabEnds ==
    ASSUME CollabTyped, NEW t \in Tasks, Ends(t), task[t].at \in {"tell", "state", "insert", "list", "update"}
    PROVE  \E r : CollabMoves(t, r) /\ r.at = "over" /\ \A u \in Tasks : CollabCall(task'[u])
<1> DEFINE r == [op |-> task[t].op, at |-> "over"]
<1>1. CollabCall(r)  BY CollabPlaces DEF CollabCall, At
<1>2. task' = [task EXCEPT ![t] = r]  BY DEF Ends
<1> HIDE DEF r
<1>3. CollabMoves(t, r) /\ \A u \in Tasks : CollabCall(task'[u])  BY <1>1, <1>2, CollabStep
<1>4. r.at = "over"  BY DEF r
<1> QED BY <1>3, <1>4

LEMMA CollabFails ==
    ASSUME CollabTyped, NEW t \in Tasks, Fails(t)
    PROVE  /\ CollabMoves(t, Failed) /\ Failed.at = "failed" /\ \A u \in Tasks : CollabCall(task'[u])
           /\ ~At(t, "over") /\ failures' \in Nat /\ failures' # 0
<1>1. task' = [task EXCEPT ![t] = Failed] /\ failures' = failures + 1 /\ ~At(t, "over")
    BY DEF Fails, At
<1>2. CollabCall(Failed)  BY DEF CollabCall
<1>3. failures \in Nat  BY DEF CollabTyped
<1>4. CollabMoves(t, Failed) /\ \A u \in Tasks : CollabCall(task'[u])  BY <1>1, <1>2, CollabStep
<1>5. Failed.at = "failed"  BY DEF Failed
<1>6. failures' \in Nat /\ failures' # 0  BY <1>1, <1>3
<1> QED BY <1>1, <1>4, <1>5, <1>6

\* A call that begins, with what it has in hand.
LEMMA CollabBegins ==
    ASSUME CollabTyped, NEW t \in Tasks, NEW r, Begins(t, r), CollabCall(r)
    PROVE  /\ CollabMoves(t, r) /\ \A u \in Tasks : CollabCall(task'[u])
           /\ task[t].at = "new"
<1>1. task[t] = New /\ task' = [task EXCEPT ![t] = r]  BY DEF Begins
<1>2. CollabMoves(t, r) /\ \A u \in Tasks : CollabCall(task'[u])  BY <1>1, CollabStep
<1>3. task[t].at = "new"  BY <1>1 DEF New
<1> QED BY <1>2, <1>3

----------------------------------------------------------------------------
(* Collab: what a step elsewhere leaves alone                              *)

\* No call moves to one of the places, or away from it.
Apart(S) == \A u \in Tasks : task'[u] = task[u] \/ (task'[u].at \notin S /\ task[u].at \notin S)

LEMMA PinApart ==
    ASSUME PinInv, UNCHANGED <<pinned, pinTold>>, concurrent \subseteq concurrent', failures' = failures, Apart({"tell"})
    PROVE  PinInv'
<1> SUFFICES ASSUME concurrent' = {}, failures' = 0
             PROVE  /\ \A t, u \in Tasks : At(t, "tell")' /\ At(u, "tell")' => t = u
                    /\ \A t \in Tasks : At(t, "tell")' => pinned' = (task'[t].op = "pin")
                    /\ (\A t \in Tasks : ~At(t, "tell")') => pinTold' = pinned'
    BY DEF PinInv
<1>1. concurrent = {} /\ failures = 0  OBVIOUS
<1>2. \A u \in Tasks : At(u, "tell")' <=> At(u, "tell")  BY DEF Apart, At
<1>3. \A u \in Tasks : At(u, "tell") => task'[u] = task[u]  BY DEF Apart, At
<1> QED BY <1>1, <1>2, <1>3 DEF PinInv

LEMMA PatchApart ==
    ASSUME PatchInv, UNCHANGED <<chat, misread>>, concurrent \subseteq concurrent', NEW t \in Tasks, NEW r, CollabMoves(t, r), r.at # "state"
    PROVE  PatchInv'
<1>1. \A u \in Tasks : At(u, "state")' => At(u, "state") /\ task'[u] = task[u]
    BY DEF CollabMoves, At
<1> QED BY <1>1 DEF PatchInv

LEMMA TogetherApart ==
    ASSUME TogetherInv, UNCHANGED <<list, items>>, concurrent \subseteq concurrent', NEW t \in Tasks, NEW r, CollabMoves(t, r),
           r.at \notin {"position", "insert", "items", "list"}
    PROVE  TogetherInv'
<1>1. \A u \in Tasks : (Adds(u)' => Adds(u)) /\ (Deletes(u)' => Deletes(u)) /\ (At(u, "list")' => At(u, "list"))
    BY DEF CollabMoves, At, Adds, Deletes
<1> QED BY <1>1 DEF TogetherInv

LEMMA PlaceApart ==
    ASSUME PlaceTakenInv, UNCHANGED <<items, moved>>, concurrent \subseteq concurrent', NEW t \in Tasks, NEW r, CollabMoves(t, r),
           r.at # "insert"
    PROVE  PlaceTakenInv'
<1>1. \A u \in Tasks : At(u, "insert")' => At(u, "insert") /\ task'[u] = task[u]
    BY DEF CollabMoves, At
<1>2. PositionsDiffer'  BY DEF PlaceTakenInv, PositionsDiffer, ItemsThere
<1> QED BY <1>1, <1>2 DEF PlaceTakenInv

LEMMA MadeApart ==
    ASSUME ListMadeInv, UNCHANGED <<list, emptied, failures>>, Apart({"items", "list"})
    PROVE  ListMadeInv'
<1>1. \A u \in Tasks : (Deletes(u)' <=> Deletes(u)) /\ (At(u, "list")' <=> At(u, "list"))
    BY DEF Apart, At, Deletes
<1> QED BY <1>1 DEF ListMadeInv, EmptiedListsGo

LEMMA EditApart ==
    ASSUME EditInv, UNCHANGED <<canvas, accepted>>, NEW t \in Tasks, NEW r, CollabMoves(t, r),
           r.at \notin {"exists", "update"}, ~At(t, "over"), accepted \subseteq Tasks \X {"title", "content"}
    PROVE  EditInv'
<1>1. \A u \in Tasks : At(u, "exists")' \/ At(u, "update")' => (At(u, "exists") \/ At(u, "update")) /\ task'[u] = task[u]
    BY DEF CollabMoves, At
<1>2. \A e \in accepted : At(e[1], "over")'
  <2> SUFFICES ASSUME NEW e \in accepted PROVE At(e[1], "over")'  OBVIOUS
  <2>1. At(e[1], "over") /\ e[1] # t  BY DEF EditInv
  <2>2. e[1] \in Tasks  OBVIOUS
  <2> QED BY <2>1, <2>2 DEF CollabMoves, At
<1>3. \A u \in Tasks : At(u, "exists")' \/ At(u, "update")' =>
          /\ task'[u].expected <= canvas.version
          /\ task'[u].expected = canvas.version => task'[u].content = canvas.content
    BY <1>1 DEF EditInv
<1> QED BY <1>2, <1>3 DEF EditInv

\* A call that dies counts as a failure; nothing else follows from it.
LEMMA FailCollabKeeps ==
    ASSUME CollabInv, NEW t \in Tasks, FailCollab(t)
    PROVE  CollabInv'
<1> USE DEF CollabInv
<1>1. /\ CollabMoves(t, Failed) /\ Failed.at = "failed" /\ \A u \in Tasks : CollabCall(task'[u])
      /\ ~At(t, "over") /\ failures' \in Nat /\ failures' # 0
    BY CollabFails DEF FailCollab
<1>2. UNCHANGED collabVars  BY DEF FailCollab
<1>3. CollabTyped'
    BY <1>1, <1>2 DEF CollabTyped, CollabMoves, collabVars, pinVars, listVars, canvasVars
<1>4. PinInv'  BY <1>1 DEF PinInv
<1>5. PatchInv' /\ TogetherInv' /\ PlaceTakenInv' /\ EditInv'
    BY <1>1, <1>2, PatchApart, TogetherApart, PlaceApart, EditApart DEF CollabTyped, collabVars, pinVars, listVars, canvasVars
<1>6. ListMadeInv'
  <2>1. \A u \in Tasks : Deletes(u)' => Deletes(u)  BY <1>1 DEF CollabMoves, Deletes, At
  <2>2. failures' > 0  BY <1>1
  <2> QED BY <1>2, <2>1, <2>2 DEF ListMadeInv, EmptiedListsGo, collabVars, listVars
<1> QED BY <1>3, <1>4, <1>5, <1>6

----------------------------------------------------------------------------
(* Collab: pins and the state of a chat                                    *)

LEMMA PinningIs == CollabTyped => Pinning = {t \in Tasks : At(t, "tell")}
<1> SUFFICES ASSUME CollabTyped PROVE Pinning = {t \in Tasks : At(t, "tell")}  OBVIOUS
<1>1. \A t \in Tasks : Under(t, "pin") \/ Under(t, "unpin") <=> At(t, "tell")  BY CollabUnder
<1> QED BY <1>1 DEF Pinning

LEMMA OverlapsGrow ==
    ASSUME CollabTyped, NEW t \in Tasks, NEW S \in SUBSET Tasks, Overlaps(t, S)
    PROVE  /\ concurrent \subseteq concurrent' /\ concurrent' \subseteq Tasks
           /\ S # {} => t \in concurrent' /\ S \subseteq concurrent'
    BY DEF Overlaps, CollabTyped

LEMMA WritePinKeeps ==
    ASSUME CollabInv, NEW t \in Tasks, NEW op \in {"pin", "unpin"}, WritePin(t, op)
    PROVE  CollabInv'
<1> USE DEF CollabInv
<1> DEFINE r == [op |-> op, at |-> "tell"]
<1>1. CollabCall(r) /\ r.at = "tell" /\ r.op = op  BY DEF CollabCall
<1>2. Begins(t, r)  BY DEF WritePin
<1> HIDE DEF r
<1>3. CollabMoves(t, r) /\ (\A u \in Tasks : CollabCall(task'[u])) /\ task[t].at = "new"
    BY <1>1, <1>2, CollabBegins
<1>4. pinned' = (op = "pin") /\ UNCHANGED <<failures, pinTold, chat, misread, listVars, canvasVars, saved>>
    BY DEF WritePin
<1>5. /\ concurrent \subseteq concurrent' /\ concurrent' \subseteq Tasks
      /\ Pinning # {} => t \in concurrent'
  <2>1. Pinning \in SUBSET Tasks /\ Overlaps(t, Pinning)  BY DEF WritePin, Pinning
  <2> QED BY <2>1, OverlapsGrow
<1>6. CollabTyped'  BY <1>3, <1>4, <1>5 DEF CollabTyped, CollabMoves, listVars, canvasVars
<1>7. PinInv'
  <2> SUFFICES ASSUME concurrent' = {}
               PROVE  /\ \A u, w \in Tasks : At(u, "tell")' /\ At(w, "tell")' => u = w
                      /\ \A u \in Tasks : At(u, "tell")' => pinned' = (task'[u].op = "pin")
                      /\ ~ \A u \in Tasks : ~At(u, "tell")'
      BY DEF PinInv
  <2>1. \A u \in Tasks : ~At(u, "tell")  BY <1>5, PinningIs
  <2>2. \A u \in Tasks : At(u, "tell")' => u = t  BY <1>3, <2>1 DEF CollabMoves, At
  <2>3. At(t, "tell")' /\ pinned' = (task'[t].op = "pin")  BY <1>1, <1>3, <1>4 DEF CollabMoves, At
  <2> QED BY <2>2, <2>3
<1>8. Apart({"items", "list"})  BY <1>1, <1>3 DEF CollabMoves, Apart
<1>9. PatchInv' /\ TogetherInv' /\ PlaceTakenInv' /\ EditInv'
  <2>1. ~At(t, "over")  BY <1>3 DEF At
  <2> QED BY <1>1, <1>3, <1>4, <1>5, <2>1, PatchApart, TogetherApart, PlaceApart, EditApart DEF CollabTyped, listVars, canvasVars
<1>10. ListMadeInv'  BY <1>4, <1>8, MadeApart DEF listVars
<1> QED BY <1>6, <1>7, <1>9, <1>10

LEMMA TellPinKeeps ==
    ASSUME CollabInv, NEW t \in Tasks, TellPin(t)
    PROVE  CollabInv'
<1> USE DEF CollabInv
<1>1. At(t, "tell") /\ Ends(t) /\ pinTold' = (task[t].op = "pin")  BY DEF TellPin
<1>2. UNCHANGED <<failures, pinned, chat, misread, listVars, canvasVars, saved, concurrent>>
    BY DEF TellPin
<1>3. PICK r : CollabMoves(t, r) /\ r.at = "over" /\ \A u \in Tasks : CollabCall(task'[u])
    BY <1>1, CollabEnds DEF At
<1>4. CollabTyped'  BY <1>1, <1>2, <1>3 DEF CollabTyped, CollabMoves, listVars, canvasVars
<1>5. PinInv'
  <2> SUFFICES ASSUME concurrent = {}, failures = 0
               PROVE  (\A u \in Tasks : ~At(u, "tell")') /\ pinTold' = pinned'
      BY <1>2 DEF PinInv
  <2>1. \A u \in Tasks : At(u, "tell") => u = t  BY <1>1 DEF PinInv
  <2>2. \A u \in Tasks : ~At(u, "tell")'  BY <1>3, <2>1 DEF CollabMoves, At
  <2>3. pinned = (task[t].op = "pin")  BY <1>1 DEF PinInv
  <2> QED BY <1>1, <1>2, <2>2, <2>3
<1>6. Apart({"items", "list"})  BY <1>1, <1>3 DEF CollabMoves, Apart, At
<1>7. PatchInv' /\ TogetherInv' /\ PlaceTakenInv' /\ EditInv'
  <2>1. ~At(t, "over")  BY <1>1 DEF At
  <2> QED BY <1>2, <1>3, <2>1, PatchApart, TogetherApart, PlaceApart, EditApart DEF CollabTyped, listVars, canvasVars
<1>8. ListMadeInv'  BY <1>2, <1>6, MadeApart DEF listVars
<1> QED BY <1>4, <1>5, <1>7, <1>8

LEMMA SetStateKeeps ==
    ASSUME CollabInv, NEW t \in Tasks, NEW f \in Fields, SetState(t, f)
    PROVE  CollabInv'
<1> USE DEF CollabInv
<1> DEFINE r == [op |-> "setState", field |-> f, at |-> "state"]
           S == {u \in Tasks : Under(u, "setState") /\ task[u].field = f}
<1>1. CollabCall(r) /\ r.at = "state" /\ r.field = f  BY DEF CollabCall
<1>2. Begins(t, r)  BY DEF SetState
<1> HIDE DEF r
<1>3. CollabMoves(t, r) /\ (\A u \in Tasks : CollabCall(task'[u])) /\ task[t].at = "new"
    BY <1>1, <1>2, CollabBegins
<1>4. chat' = [chat EXCEPT ![f] = t] /\ UNCHANGED <<failures, pinned, pinTold, misread, listVars, canvasVars, saved>>
    BY DEF SetState, Patched
<1>5. /\ concurrent \subseteq concurrent' /\ concurrent' \subseteq Tasks
      /\ S \subseteq concurrent'
  <2>1. S \in SUBSET Tasks /\ Overlaps(t, S)  BY DEF SetState
  <2> HIDE DEF S
  <2> QED BY <2>1, OverlapsGrow
<1>6. CollabTyped'  BY <1>3, <1>4, <1>5 DEF CollabTyped, CollabMoves, listVars, canvasVars
<1>7. PatchInv'
  <2>1. ASSUME NEW u \in Tasks, At(u, "state")' PROVE u \in concurrent' \/ chat'[task'[u].field] = u
    <3>1. CASE u = t  BY <1>1, <1>3, <1>4, <3>1 DEF CollabMoves, CollabTyped
    <3>2. CASE u # t
      <4>1. At(u, "state") /\ task'[u] = task[u] /\ task[u].field \in Fields
        <5>1. At(u, "state") /\ task'[u] = task[u]  BY <1>3, <2>1, <3>2 DEF CollabMoves, At
        <5> QED BY <5>1, CollabPlaces
      <4>2. CASE task[u].field = f  BY <1>5, <4>1, <4>2, CollabUnder
      <4>3. CASE task[u].field # f  BY <1>4, <1>5, <4>1, <4>3 DEF CollabTyped, PatchInv
      <4> QED BY <4>2, <4>3
    <3> QED BY <3>1, <3>2
  <2> QED BY <1>4, <1>5, <2>1 DEF PatchInv
<1> HIDE DEF S
<1>8. Apart({"tell"}) /\ Apart({"items", "list"})  BY <1>1, <1>3 DEF CollabMoves, Apart
<1>9. TogetherInv' /\ PlaceTakenInv' /\ EditInv'
  <2>1. ~At(t, "over")  BY <1>3 DEF At
  <2> QED BY <1>1, <1>3, <1>4, <1>5, <2>1, TogetherApart, PlaceApart, EditApart DEF CollabTyped, listVars, canvasVars
<1>10. ListMadeInv' /\ PinInv'  BY <1>4, <1>5, <1>8, MadeApart, PinApart DEF listVars
<1> QED BY <1>6, <1>7, <1>9, <1>10

LEMMA AnswerStateKeeps ==
    ASSUME CollabInv, NEW t \in Tasks, AnswerState(t)
    PROVE  CollabInv'
<1> USE DEF CollabInv
<1>1. At(t, "state") /\ Ends(t) /\ misread' = IF chat[task[t].field] = t THEN misread ELSE misread \cup {t}
    BY DEF AnswerState
<1>2. UNCHANGED <<failures, pinned, pinTold, chat, listVars, canvasVars, saved, concurrent>>
    BY DEF AnswerState
<1>3. PICK r : CollabMoves(t, r) /\ r.at = "over" /\ \A u \in Tasks : CollabCall(task'[u])
    BY <1>1, CollabEnds DEF At
<1>4. CollabTyped'  BY <1>1, <1>2, <1>3 DEF CollabTyped, CollabMoves, listVars, canvasVars
<1>5. PatchInv'
  <2>1. misread' \subseteq concurrent  BY <1>1 DEF PatchInv
  <2>2. \A u \in Tasks : At(u, "state")' => At(u, "state") /\ task'[u] = task[u]
      BY <1>3 DEF CollabMoves, At
  <2> QED BY <1>2, <2>1, <2>2 DEF PatchInv
<1>6. Apart({"tell"}) /\ Apart({"items", "list"})  BY <1>1, <1>3 DEF CollabMoves, Apart, At
<1>7. TogetherInv' /\ PlaceTakenInv' /\ EditInv'
  <2>1. ~At(t, "over")  BY <1>1 DEF At
  <2> QED BY <1>2, <1>3, <2>1, TogetherApart, PlaceApart, EditApart DEF CollabTyped, listVars, canvasVars
<1>8. ListMadeInv' /\ PinInv'  BY <1>2, <1>6, MadeApart, PinApart DEF listVars
<1> QED BY <1>4, <1>5, <1>7, <1>8

\* A star and a clip touch nothing else.
LEMMA CollabStands ==
    ASSUME CollabInv, UNCHANGED <<taskVars, pinVars, listVars, canvasVars, concurrent>>, saved' \subseteq {"star", "clip"}
    PROVE  CollabInv'
<1> USE DEF CollabInv, taskVars, pinVars, listVars, canvasVars
<1>1. CollabTyped'  BY DEF CollabTyped
<1>2. PinInv' /\ PatchInv'  BY DEF PinInv, PatchInv, At
<1>3. TogetherInv' /\ ListMadeInv'
    BY DEF TogetherInv, ListMadeInv, EmptiedListsGo, Adds, Deletes, At
<1>4. PlaceTakenInv'  BY DEF PlaceTakenInv, PositionsDiffer, ItemsThere, At
<1>5. EditInv'  BY DEF EditInv, At
<1> QED BY <1>1, <1>2, <1>3, <1>4, <1>5

----------------------------------------------------------------------------
(* Collab: lists                                                           *)

LEMMA GreatestOf ==
    ASSUME NEW S \in SUBSET Nat, S # {}, NEW n \in Nat, \A e \in S : e <= n
    PROVE  \E e \in S : \A f \in S : f <= e
<1> DEFINE T == {e..n : e \in S}
           R == StrictSubsetOrdering(Nat)
<1>1. T \subseteq FiniteSubsetsOf(Nat) /\ T # {}
  <2>1. \A e \in S : e..n \in FiniteSubsetsOf(Nat)  BY FS_Interval DEF FiniteSubsetsOf
  <2> QED BY <2>1
<1>2. IsWellFoundedOn(R, FiniteSubsetsOf(Nat))  BY FS_StrictSubsetOrderingWellFounded
<1> HIDE DEF R
<1>3. PICK x \in T : \A y \in T : ~(<<y, x>> \in R)  BY <1>1, <1>2, WFMin
<1>4. PICK e \in S : x = e..n  OBVIOUS
<1>5. ASSUME NEW f \in S, f > e PROVE FALSE
  <2>1. f..n \in T /\ f..n \subseteq x /\ f..n # x  BY <1>4, <1>5
  <2>2. <<f..n, x>> \in R  BY <2>1, <1>4 DEF R, StrictSubsetOrdering
  <2> QED BY <1>3, <2>1, <2>2
<1> QED BY <1>5

\* The next position is after those that are taken.
LEMMA NextIsFree ==
    ASSUME CollabTyped, NEW u \in Tasks, items[u] # Out
    PROVE  items[u] < NextPosition /\ NextPosition \in Nat
<1> DEFINE S == {items[t] : t \in ItemsThere}
<1>1. S \in SUBSET Positions /\ items[u] \in S /\ u \in ItemsThere  BY DEF CollabTyped, ItemsThere
<1>2. S \in SUBSET Nat /\ \A e \in S : e <= Out  BY <1>1, PositionsAre DEF Positions, Out
<1>3. \E e \in S : \A f \in S : f <= e  BY <1>1, <1>2, GreatestOf, PositionsAre
<1>4. \E e \in S : \A t \in ItemsThere : items[t] <= e  BY <1>3
<1>5. PICK p \in S : /\ p = CHOOSE q \in S : \A t \in ItemsThere : items[t] <= q
                     /\ \A t \in ItemsThere : items[t] <= p
    BY <1>4
<1>6. NextPosition = 1 + p  BY <1>1, <1>5 DEF NextPosition
<1> HIDE DEF S
<1>7. p \in Nat /\ items[u] \in Nat /\ items[u] <= p  BY <1>1, <1>2, <1>5
<1> QED BY <1>6, <1>7

LEMMA ListsLeaveTheRest ==
    ASSUME CollabInv, NEW t \in Tasks, NEW r, CollabMoves(t, r), r.at \notin {"tell", "state", "exists", "update"},
           task[t].at \notin {"tell", "over"}, UNCHANGED <<failures, pinVars, canvasVars>>, concurrent \subseteq concurrent'
    PROVE  PinInv' /\ PatchInv' /\ EditInv'
<1>1. Apart({"tell"})  BY DEF CollabMoves, Apart
<1>2. ~At(t, "over")  BY DEF At
<1> QED BY <1>1, <1>2, PinApart, PatchApart, EditApart DEF CollabInv, CollabTyped, pinVars, canvasVars

LEMMA StandingListsLeaveTheRest ==
    ASSUME CollabInv, UNCHANGED <<taskVars, pinVars, canvasVars, concurrent>>
    PROVE  PinInv' /\ PatchInv' /\ EditInv'
<1> USE DEF CollabInv, taskVars, pinVars, canvasVars
<1>1. PinInv' /\ PatchInv'  BY DEF PinInv, PatchInv, At
<1>2. EditInv'  BY DEF EditInv, At
<1> QED BY <1>1, <1>2

LEMMA CreateListKeeps ==
    ASSUME CollabInv, CreateList
    PROVE  CollabInv'
<1> USE DEF CollabInv
<1>1. list = "none" /\ list' = "there" /\ UNCHANGED <<taskVars, pinVars, items, moved, emptied, canvasVars, saved, concurrent>>
    BY DEF CreateList
<1>2. CollabTyped'  BY <1>1 DEF CollabTyped, taskVars, pinVars, canvasVars
<1>3. TogetherInv'  BY <1>1 DEF TogetherInv, taskVars, Adds, Deletes, At
<1>4. PlaceTakenInv'  BY <1>1 DEF PlaceTakenInv, PositionsDiffer, ItemsThere, taskVars, At
<1>5. ListMadeInv'  BY <1>1 DEF ListMadeInv, EmptiedListsGo
<1> QED BY <1>1, <1>2, <1>3, <1>4, <1>5, StandingListsLeaveTheRest

LEMMA AddItemKeeps ==
    ASSUME CollabInv, NEW t \in Tasks, AddItem(t)
    PROVE  CollabInv'
<1> USE DEF CollabInv
<1> DEFINE r == [op |-> "addItem", at |-> "position"]
           S == {u \in Tasks : Under(u, "addItem") \/ Under(u, "deleteList")}
<1>1. CollabCall(r) /\ r.at = "position"  BY DEF CollabCall
<1>2. Begins(t, r)  BY DEF AddItem
<1> HIDE DEF r
<1>3. CollabMoves(t, r) /\ (\A u \in Tasks : CollabCall(task'[u])) /\ task[t].at = "new"
    BY <1>1, <1>2, CollabBegins
<1>4. list = "there" /\ UNCHANGED <<failures, pinVars, listVars, canvasVars, saved>>  BY DEF AddItem
<1>5. /\ concurrent \subseteq concurrent' /\ concurrent' \subseteq Tasks
      /\ S # {} => t \in concurrent' /\ S \subseteq concurrent'
  <2>1. S \in SUBSET Tasks /\ Overlaps(t, S)  BY DEF AddItem
  <2> HIDE DEF S
  <2> QED BY <2>1, OverlapsGrow
<1>6. \A u \in Tasks : u \in S <=> Adds(u) \/ Deletes(u)  BY CollabUnder
<1> HIDE DEF S
<1>7. CollabTyped'  BY <1>3, <1>4, <1>5 DEF CollabTyped, CollabMoves, pinVars, listVars, canvasVars
<1>8. \A u \in Tasks : u # t => (Adds(u)' <=> Adds(u)) /\ (Deletes(u)' <=> Deletes(u)) /\ (At(u, "list")' <=> At(u, "list"))
    BY <1>3 DEF CollabMoves, Adds, Deletes, At
<1>9. Adds(t)' /\ ~Deletes(t)' /\ ~At(t, "list")'  BY <1>1, <1>3 DEF CollabMoves, Adds, Deletes, At
<1>10. TogetherInv'
  <2>1. ASSUME NEW u \in Tasks, NEW w \in Tasks, Adds(u)', Deletes(w)' \/ (Adds(w)' /\ w # u) PROVE u \in concurrent'
    <3>1. CASE u = t  BY <1>5, <1>6, <1>8, <1>9, <2>1, <3>1
    <3>2. CASE u # t
      <4>1. CASE w = t  BY <1>5, <1>6, <1>8, <2>1, <3>2, <4>1
      <4>2. CASE w # t  BY <1>5, <1>8, <2>1, <3>2, <4>2 DEF TogetherInv
      <4> QED BY <4>1, <4>2
    <3> QED BY <3>1, <3>2
  <2>2. ASSUME NEW w \in Tasks, At(w, "list")', NEW u \in Tasks, items[u] # Out \/ Adds(u)' PROVE u \in concurrent'
    <3>1. At(w, "list") /\ w # t /\ w \in S  BY <1>6, <1>8, <1>9, <2>2 DEF Deletes
    <3>2. CASE u = t  BY <1>5, <3>1, <3>2
    <3>3. CASE u # t  BY <1>5, <1>8, <2>2, <3>1, <3>3 DEF TogetherInv
    <3> QED BY <3>2, <3>3
  <2> QED BY <1>4, <2>1, <2>2 DEF TogetherInv, listVars
<1>11. PlaceTakenInv'  BY <1>1, <1>3, <1>4, <1>5, PlaceApart DEF listVars
<1>12. ListMadeInv'
  <2>1. Apart({"items", "list"})  BY <1>1, <1>3 DEF CollabMoves, Apart
  <2> QED BY <1>4, <2>1, MadeApart DEF listVars
<1> QED BY <1>1, <1>3, <1>4, <1>5, <1>7, <1>10, <1>11, <1>12, ListsLeaveTheRest

LEMMA FindPositionKeeps ==
    ASSUME CollabInv, NEW t \in Tasks, FindPosition(t)
    PROVE  CollabInv'
<1> USE DEF CollabInv
<1> DEFINE r == [op |-> "addItem", pos |-> NextPosition, at |-> "insert"]
<1>1. At(t, "position") /\ NextPosition \in Positions /\ GoesWith(t, "pos", NextPosition, "insert")
      /\ UNCHANGED <<failures, pinVars, listVars, canvasVars, saved, concurrent>>
    BY DEF FindPosition
<1>2. task[t] = [op |-> "addItem", at |-> "position"]  BY <1>1, CollabPlaces
<1>3. With(task[t], "pos", NextPosition, "insert") = r  BY <1>2 DEF With
<1>4. CollabCall(r) /\ r.at = "insert" /\ r.pos = NextPosition  BY <1>1 DEF CollabCall
<1>5. task' = [task EXCEPT ![t] = r]  BY <1>1, <1>3 DEF GoesWith
<1> HIDE DEF r
<1>6. CollabMoves(t, r) /\ \A u \in Tasks : CollabCall(task'[u])  BY <1>4, <1>5, CollabStep
<1>7. CollabTyped'  BY <1>1, <1>6 DEF CollabTyped, CollabMoves, pinVars, listVars, canvasVars
<1>8. \A u \in Tasks : (Adds(u)' <=> Adds(u)) /\ (Deletes(u)' <=> Deletes(u)) /\ (At(u, "list")' <=> At(u, "list"))
    BY <1>1, <1>4, <1>6 DEF CollabMoves, Adds, Deletes, At
<1>9. TogetherInv'  BY <1>1, <1>8 DEF TogetherInv, listVars
<1>10. PlaceTakenInv'
  <2>1. ASSUME NEW u \in Tasks, NEW w \in Tasks, At(u, "insert")', items[w] # Out, w # u, items[w] = task'[u].pos
        PROVE  {u, w} \subseteq concurrent \/ w \in moved
    <3>1. CASE u = t
      <4>1. items[w] = NextPosition  BY <1>4, <1>6, <2>1, <3>1 DEF CollabMoves
      <4>2. items[w] < NextPosition /\ NextPosition \in Nat  BY <2>1, NextIsFree
      <4> QED BY <4>1, <4>2
    <3>2. CASE u # t
      <4>1. At(u, "insert") /\ task'[u] = task[u]  BY <1>6, <2>1, <3>2 DEF CollabMoves, At
      <4> QED BY <2>1, <4>1 DEF PlaceTakenInv
    <3> QED BY <3>1, <3>2
  <2>2. PositionsDiffer'  BY <1>1 DEF PlaceTakenInv, PositionsDiffer, ItemsThere, listVars
  <2> QED BY <1>1, <2>1, <2>2 DEF PlaceTakenInv, listVars
<1>11. ListMadeInv'
  <2>1. Apart({"items", "list"})  BY <1>1, <1>4, <1>6 DEF CollabMoves, Apart, At
  <2> QED BY <1>1, <2>1, MadeApart DEF listVars
<1>12. PinInv' /\ PatchInv' /\ EditInv'  BY <1>1, <1>4, <1>6, ListsLeaveTheRest DEF At
<1> QED BY <1>7, <1>9, <1>10, <1>11, <1>12

LEMMA InsertItemKeeps ==
    ASSUME CollabInv, NEW t \in Tasks, InsertItem(t)
    PROVE  CollabInv'
<1> USE DEF CollabInv
<1>1. /\ At(t, "insert") /\ Ends(t) /\ items' = [items EXCEPT ![t] = task[t].pos]
      /\ UNCHANGED <<failures, pinVars, list, moved, emptied, canvasVars, saved, concurrent>>
    BY DEF InsertItem
<1>2. task[t].pos \in Positions /\ task[t].pos # Out  BY <1>1, CollabPlaces, PositionsAre
<1>3. PICK r : CollabMoves(t, r) /\ r.at = "over" /\ \A u \in Tasks : CollabCall(task'[u])
    BY <1>1, CollabEnds DEF At
<1>4. CollabTyped'  BY <1>1, <1>2, <1>3 DEF CollabTyped, CollabMoves, pinVars, canvasVars
<1>5. items'[t] = task[t].pos /\ \A u \in Tasks : u # t => items'[u] = items[u]
    BY <1>1 DEF CollabTyped
<1>6. Adds(t) /\ ~Adds(t)'  BY <1>1, <1>3 DEF CollabMoves, Adds, At
<1>7. \A u \in Tasks : (Adds(u)' => Adds(u)) /\ (Deletes(u)' => Deletes(u)) /\ (At(u, "list")' => At(u, "list"))
    BY <1>3 DEF CollabMoves, Adds, Deletes, At
<1>8. TogetherInv'
  <2>1. ASSUME list = "gone" \/ \E u \in Tasks : At(u, "list"), NEW u \in Tasks, items'[u] # Out \/ Adds(u) PROVE u \in concurrent
      BY <1>5, <1>6, <2>1 DEF TogetherInv
  <2> QED BY <1>1, <1>7, <2>1 DEF TogetherInv
<1>9. \A u \in Tasks : At(u, "insert")' => At(u, "insert") /\ task'[u] = task[u] /\ u # t
    BY <1>3 DEF CollabMoves, At
<1>10. PlaceTakenInv'
  <2>1. ASSUME NEW u \in Tasks, NEW w \in Tasks, At(u, "insert")', items'[w] # Out, w # u, items'[w] = task'[u].pos
        PROVE  {u, w} \subseteq concurrent \/ w \in moved
    <3>1. CASE w = t
      <4>1. Adds(u) /\ Adds(w)  BY <1>6, <1>9, <2>1, <3>1 DEF Adds
      <4> QED BY <2>1, <4>1 DEF TogetherInv
    <3>2. CASE w # t  BY <1>5, <1>9, <2>1, <3>2 DEF PlaceTakenInv
    <3> QED BY <3>1, <3>2
  <2>2. ASSUME NEW u \in Tasks, NEW w \in Tasks, items'[u] # Out, items'[w] # Out, u # w, items'[u] = items'[w]
        PROVE  {u, w} \subseteq concurrent \/ {u, w} \cap moved # {}
    <3>1. CASE u = t  BY <1>1, <1>5, <2>2, <3>1 DEF PlaceTakenInv
    <3>2. CASE w = t
      <4>1. {w, u} \subseteq concurrent \/ u \in moved  BY <1>1, <1>5, <2>2, <3>2 DEF PlaceTakenInv
      <4> QED BY <4>1
    <3>3. CASE u # t /\ w # t
      <4>1. u \in ItemsThere /\ w \in ItemsThere /\ items[u] = items[w]
          BY <1>5, <2>2, <3>3 DEF ItemsThere
      <4> QED BY <2>2, <4>1 DEF PlaceTakenInv, PositionsDiffer
    <3> QED BY <3>1, <3>2, <3>3
  <2>3. PositionsDiffer'  BY <1>1, <2>2 DEF PositionsDiffer, ItemsThere
  <2> QED BY <1>1, <2>1, <2>3 DEF PlaceTakenInv
<1>11. ListMadeInv'
  <2>1. Apart({"items", "list"})  BY <1>1, <1>3 DEF CollabMoves, Apart, At
  <2> QED BY <1>1, <2>1, MadeApart
<1>12. PinInv' /\ PatchInv' /\ EditInv'  BY <1>1, <1>3, ListsLeaveTheRest DEF At
<1> QED BY <1>4, <1>8, <1>10, <1>11, <1>12

LEMMA MoveItemKeeps ==
    ASSUME CollabInv, NEW i \in Tasks, NEW p \in Positions, MoveItem(i, p)
    PROVE  CollabInv'
<1> USE DEF CollabInv
<1>1. /\ items[i] # Out /\ items' = [items EXCEPT ![i] = p] /\ moved' = moved \cup {i}
      /\ UNCHANGED <<taskVars, pinVars, list, emptied, canvasVars, saved, concurrent>>
    BY DEF MoveItem
<1>2. CollabTyped'  BY <1>1 DEF CollabTyped, taskVars, pinVars, canvasVars
<1>3. \A u \in Tasks : (u # i => items'[u] = items[u]) /\ (items'[u] # Out => items[u] # Out)
    BY <1>1 DEF CollabTyped
<1>4. TogetherInv'  BY <1>1, <1>3 DEF TogetherInv, taskVars, Adds, Deletes, At
<1>5. PlaceTakenInv'
  <2>1. ASSUME NEW u \in Tasks, NEW w \in Tasks, At(u, "insert"), items'[w] # Out, w # u, items'[w] = task[u].pos
        PROVE  {u, w} \subseteq concurrent \/ w \in moved'
      BY <1>1, <1>3, <2>1 DEF PlaceTakenInv
  <2>2. ASSUME NEW u \in Tasks, NEW w \in Tasks, items'[u] # Out, items'[w] # Out, u # w, items'[u] = items'[w]
        PROVE  {u, w} \subseteq concurrent \/ {u, w} \cap moved' # {}
    <3>1. CASE u = i \/ w = i  BY <1>1, <3>1
    <3>2. CASE u # i /\ w # i
      <4>1. u \in ItemsThere /\ w \in ItemsThere /\ items[u] = items[w]
          BY <1>3, <2>2, <3>2 DEF ItemsThere
      <4> QED BY <1>1, <2>2, <4>1 DEF PlaceTakenInv, PositionsDiffer
    <3> QED BY <3>1, <3>2
  <2>3. PositionsDiffer'  BY <1>1, <2>2 DEF PositionsDiffer, ItemsThere
  <2> QED BY <1>1, <2>1, <2>3 DEF PlaceTakenInv, taskVars, At
<1>6. ListMadeInv'  BY <1>1 DEF ListMadeInv, EmptiedListsGo, taskVars, Deletes, At
<1> QED BY <1>1, <1>2, <1>4, <1>5, <1>6, StandingListsLeaveTheRest

LEMMA DeleteItemKeeps ==
    ASSUME CollabInv, NEW i \in Tasks, DeleteItem(i)
    PROVE  CollabInv'
<1> USE DEF CollabInv
<1>1. /\ items' = [items EXCEPT ![i] = Out]
      /\ UNCHANGED <<taskVars, pinVars, list, moved, emptied, canvasVars, saved, concurrent>>
    BY DEF DeleteItem
<1>2. CollabTyped'  BY <1>1 DEF CollabTyped, taskVars, pinVars, canvasVars
<1>3. \A u \in Tasks : items'[u] # Out => items[u] # Out /\ items'[u] = items[u]
    BY <1>1 DEF CollabTyped
<1>4. TogetherInv'  BY <1>1, <1>3 DEF TogetherInv, taskVars, Adds, Deletes, At
<1>5. PlaceTakenInv'
  <2>1. \A u, w \in Tasks : At(u, "insert") /\ items'[w] # Out /\ w # u /\ items'[w] = task[u].pos =>
            {u, w} \subseteq concurrent \/ w \in moved
      BY <1>3 DEF PlaceTakenInv
  <2>2. PositionsDiffer'  BY <1>1, <1>3 DEF PlaceTakenInv, PositionsDiffer, ItemsThere
  <2> QED BY <1>1, <2>1, <2>2 DEF PlaceTakenInv, taskVars, At
<1>6. ListMadeInv'  BY <1>1 DEF ListMadeInv, EmptiedListsGo, taskVars, Deletes, At
<1> QED BY <1>1, <1>2, <1>4, <1>5, <1>6, StandingListsLeaveTheRest

LEMMA DeleteListKeeps ==
    ASSUME CollabInv, NEW t \in Tasks, DeleteList(t)
    PROVE  CollabInv'
<1> USE DEF CollabInv
<1> DEFINE r == [op |-> "deleteList", at |-> "items"]
           S == {u \in Tasks : Under(u, "addItem")}
<1>1. CollabCall(r) /\ r.at = "items"  BY DEF CollabCall
<1>2. Begins(t, r)  BY DEF DeleteList
<1> HIDE DEF r
<1>3. CollabMoves(t, r) /\ (\A u \in Tasks : CollabCall(task'[u])) /\ task[t].at = "new"
    BY <1>1, <1>2, CollabBegins
<1>4. list = "there" /\ UNCHANGED <<failures, pinVars, listVars, canvasVars, saved>>
    BY DEF DeleteList
<1>5. /\ concurrent \subseteq concurrent' /\ concurrent' \subseteq Tasks
      /\ S \subseteq concurrent'
  <2>1. S \in SUBSET Tasks /\ Overlaps(t, S)  BY DEF DeleteList
  <2> HIDE DEF S
  <2> QED BY <2>1, OverlapsGrow
<1>6. \A u \in Tasks : u \in S <=> Adds(u)  BY CollabUnder
<1> HIDE DEF S
<1>7. CollabTyped'  BY <1>3, <1>4, <1>5 DEF CollabTyped, CollabMoves, pinVars, listVars, canvasVars
<1>8. \A u \in Tasks : (Adds(u)' => Adds(u)) /\ (At(u, "list")' <=> At(u, "list")) /\ (u # t => (Deletes(u)' <=> Deletes(u)))
    BY <1>1, <1>3 DEF CollabMoves, Adds, Deletes, At
<1>9. TogetherInv'
  <2>1. ASSUME NEW u \in Tasks, NEW w \in Tasks, Adds(u)', Deletes(w)' \/ (Adds(w)' /\ w # u) PROVE u \in concurrent'
      BY <1>5, <1>6, <1>8, <2>1
  <2>2. ASSUME NEW w \in Tasks, At(w, "list")', NEW u \in Tasks, items[u] # Out \/ Adds(u)' PROVE u \in concurrent'
      BY <1>5, <1>8, <2>2 DEF TogetherInv
  <2> QED BY <1>4, <2>1, <2>2 DEF TogetherInv, listVars
<1>10. PlaceTakenInv'  BY <1>1, <1>3, <1>4, <1>5, PlaceApart DEF listVars
<1>11. ListMadeInv'  BY <1>4, <1>8 DEF ListMadeInv, EmptiedListsGo, listVars
<1> QED BY <1>1, <1>3, <1>4, <1>5, <1>7, <1>9, <1>10, <1>11, ListsLeaveTheRest

LEMMA DeleteItemsKeeps ==
    ASSUME CollabInv, NEW t \in Tasks, DeleteItems(t)
    PROVE  CollabInv'
<1> USE DEF CollabInv
<1> DEFINE r == [task[t] EXCEPT !.at = "list"]
<1>1. /\ At(t, "items") /\ items' = [i \in Tasks |-> Out] /\ emptied' = TRUE /\ Goes(t, "list")
      /\ UNCHANGED <<failures, pinVars, list, moved, canvasVars, saved, concurrent>>
    BY DEF DeleteItems
<1>2. CollabCall(r) /\ r.at = "list"
  <2>1. task[t] \in [op : {"deleteList"}, at : {"items", "list"}]  BY <1>1, CollabPlaces
  <2>2. r \in [op : {"deleteList"}, at : {"items", "list"}] /\ r.at = "list"  BY <2>1
  <2> QED BY <2>2 DEF CollabCall
<1>3. task' = [task EXCEPT ![t] = r]  BY <1>1 DEF Goes
<1> HIDE DEF r
<1>4. CollabMoves(t, r) /\ \A u \in Tasks : CollabCall(task'[u])  BY <1>2, <1>3, CollabStep
<1>5. CollabTyped'  BY <1>1, <1>4 DEF CollabTyped, CollabMoves, pinVars, canvasVars
<1>6. \A u \in Tasks : (Adds(u)' <=> Adds(u)) /\ (Deletes(u)' <=> Deletes(u))
    BY <1>1, <1>2, <1>4 DEF CollabMoves, Adds, Deletes, At
<1>7. Deletes(t)  BY <1>1 DEF Deletes
<1>8. TogetherInv'
  <2>1. \A u \in Tasks : items'[u] = Out  BY <1>1
  <2> QED BY <1>1, <1>6, <1>7, <2>1 DEF TogetherInv
<1>9. PlaceTakenInv'
  <2>1. \A u \in Tasks : items'[u] = Out  BY <1>1
  <2> QED BY <2>1 DEF PlaceTakenInv, PositionsDiffer, ItemsThere
<1>10. ListMadeInv'
  <2>1. At(t, "list")' /\ list # "none"  BY <1>2, <1>4, <1>7 DEF CollabMoves, At, ListMadeInv
  <2> QED BY <1>1, <2>1 DEF ListMadeInv, EmptiedListsGo
<1>11. PinInv' /\ PatchInv' /\ EditInv'  BY <1>1, <1>2, <1>4, ListsLeaveTheRest DEF At
<1> QED BY <1>5, <1>8, <1>9, <1>10, <1>11

LEMMA DeleteListRowKeeps ==
    ASSUME CollabInv, NEW t \in Tasks, DeleteListRow(t)
    PROVE  CollabInv'
<1> USE DEF CollabInv
<1>1. /\ At(t, "list") /\ Ends(t) /\ list' = "gone"
      /\ UNCHANGED <<failures, pinVars, items, moved, emptied, canvasVars, saved, concurrent>>
    BY DEF DeleteListRow
<1>2. PICK r : CollabMoves(t, r) /\ r.at = "over" /\ \A u \in Tasks : CollabCall(task'[u])
    BY <1>1, CollabEnds DEF At
<1>3. CollabTyped'  BY <1>1, <1>2 DEF CollabTyped, CollabMoves, pinVars, canvasVars
<1>4. \A u \in Tasks : (Adds(u)' => Adds(u)) /\ (Deletes(u)' => Deletes(u))
    BY <1>2 DEF CollabMoves, Adds, Deletes, At
<1>5. TogetherInv'
  <2>1. \A u \in Tasks : items[u] # Out \/ Adds(u) => u \in concurrent  BY <1>1 DEF TogetherInv
  <2> QED BY <1>1, <1>4, <2>1 DEF TogetherInv
<1>6. PlaceTakenInv'  BY <1>1, <1>2, PlaceApart
<1>7. ListMadeInv'  BY <1>1 DEF ListMadeInv, EmptiedListsGo
<1>8. PinInv' /\ PatchInv' /\ EditInv'  BY <1>1, <1>2, ListsLeaveTheRest DEF At
<1> QED BY <1>3, <1>5, <1>6, <1>7, <1>8

----------------------------------------------------------------------------
(* Collab: a canvas                                                        *)

LEMMA CanvasLeavesTheRest ==
    ASSUME CollabInv, NEW t \in Tasks, NEW r, CollabMoves(t, r), r.at \in {"exists", "update", "over"},
           task[t].at \in {"new", "exists", "update"}, UNCHANGED <<failures, pinVars, listVars, concurrent>>
    PROVE  PinInv' /\ PatchInv' /\ TogetherInv' /\ PlaceTakenInv' /\ ListMadeInv'
<1>1. Apart({"tell"}) /\ Apart({"items", "list"})  BY DEF CollabMoves, Apart
<1>2. PinInv' /\ PatchInv' /\ ListMadeInv'
    BY <1>1, PinApart, PatchApart, MadeApart DEF CollabInv, pinVars, listVars
<1>3. TogetherInv' /\ PlaceTakenInv'  BY TogetherApart, PlaceApart DEF CollabInv, listVars
<1> QED BY <1>2, <1>3

LEMMA OpenCanvasKeeps ==
    ASSUME CollabInv, NEW t \in Tasks, NEW part \in {"title", "content"}, OpenCanvas(t, part)
    PROVE  CollabInv'
<1> USE DEF CollabInv
<1> DEFINE r == [op |-> "edit", part |-> part, at |-> "exists", expected |-> canvas.version, content |-> canvas.content]
<1>1. CollabCall(r) /\ r.at = "exists" /\ r.expected = canvas.version /\ r.content = canvas.content
  <2>1. canvas.version \in Nat /\ canvas.content \in SUBSET Tasks  BY DEF CollabTyped
  <2> QED BY <2>1 DEF CollabCall
<1>2. Begins(t, r) /\ UNCHANGED <<failures, collabVars>>  BY DEF OpenCanvas
<1> HIDE DEF r
<1>3. CollabMoves(t, r) /\ (\A u \in Tasks : CollabCall(task'[u])) /\ task[t].at = "new"
    BY <1>1, <1>2, CollabBegins
<1>4. CollabTyped'
    BY <1>2, <1>3 DEF CollabTyped, CollabMoves, collabVars, pinVars, listVars, canvasVars
<1>5. EditInv'
  <2>1. ASSUME NEW u \in Tasks, At(u, "exists")' \/ At(u, "update")'
        PROVE  task'[u].expected <= canvas.version /\ (task'[u].expected = canvas.version => task'[u].content = canvas.content)
    <3>1. CASE u = t
      <4>1. canvas.version \in Nat  BY DEF CollabTyped
      <4> QED BY <1>1, <1>3, <3>1, <4>1 DEF CollabMoves
    <3>2. CASE u # t  BY <1>3, <2>1, <3>2 DEF CollabMoves, EditInv, At
    <3> QED BY <3>1, <3>2
  <2>2. \A e \in accepted : At(e[1], "over")'
    <3> SUFFICES ASSUME NEW e \in accepted PROVE At(e[1], "over")'  OBVIOUS
    <3>1. At(e[1], "over") /\ e[1] \in Tasks  BY DEF EditInv, CollabTyped
    <3> QED BY <1>3, <3>1 DEF CollabMoves, At
  <2>3. canvas' = canvas /\ accepted' = accepted  BY <1>2 DEF collabVars, canvasVars
  <2> QED BY <2>1, <2>2, <2>3 DEF EditInv
<1> QED BY <1>1, <1>2, <1>3, <1>4, <1>5, CanvasLeavesTheRest DEF collabVars

LEMMA GetCanvasKeeps ==
    ASSUME CollabInv, NEW t \in Tasks, GetCanvas(t)
    PROVE  CollabInv'
<1> USE DEF CollabInv
<1> DEFINE r == [op |-> "edit", part |-> task[t].part, at |-> "update", expected |-> task[t].expected,
                 content |-> task[t].content, current |-> canvas.version]
<1>1. At(t, "exists") /\ GoesWith(t, "current", canvas.version, "update") /\ UNCHANGED <<failures, collabVars>>
    BY DEF GetCanvas
<1>2. task[t] \in [op : {"edit"}, part : {"title", "content"}, at : {"exists"}, expected : Nat, content : SUBSET Tasks]
    BY <1>1, CollabPlaces
<1>3. With(task[t], "current", canvas.version, "update") = r  BY <1>2 DEF With
<1>4. CollabCall(r) /\ r.at = "update" /\ r.expected = task[t].expected /\ r.content = task[t].content
  <2>1. canvas.version \in Nat  BY DEF CollabTyped
  <2>2. r \in [op : {"edit"}, part : {"title", "content"}, at : {"update"}, expected : Nat, content : SUBSET Tasks, current : Nat]
      BY <1>2, <2>1
  <2> QED BY <2>2 DEF CollabCall
<1>5. task' = [task EXCEPT ![t] = r]  BY <1>1, <1>3 DEF GoesWith
<1> HIDE DEF r
<1>6. CollabMoves(t, r) /\ \A u \in Tasks : CollabCall(task'[u])  BY <1>4, <1>5, CollabStep
<1>7. CollabTyped'
    BY <1>1, <1>6 DEF CollabTyped, CollabMoves, collabVars, pinVars, listVars, canvasVars
<1>8. EditInv'
  <2>1. ASSUME NEW u \in Tasks, At(u, "exists")' \/ At(u, "update")'
        PROVE  task'[u].expected <= canvas.version /\ (task'[u].expected = canvas.version => task'[u].content = canvas.content)
    <3>1. CASE u = t
      <4>1. task[t].expected <= canvas.version /\ (task[t].expected = canvas.version => task[t].content = canvas.content)
          BY <1>1 DEF EditInv
      <4> QED BY <1>4, <1>6, <3>1, <4>1 DEF CollabMoves
    <3>2. CASE u # t  BY <1>6, <2>1, <3>2 DEF CollabMoves, EditInv, At
    <3> QED BY <3>1, <3>2
  <2>2. \A e \in accepted : At(e[1], "over")'
    <3> SUFFICES ASSUME NEW e \in accepted PROVE At(e[1], "over")'  OBVIOUS
    <3>1. At(e[1], "over") /\ e[1] \in Tasks  BY DEF EditInv, CollabTyped
    <3> QED BY <1>1, <1>6, <3>1 DEF CollabMoves, At
  <2>3. canvas' = canvas /\ accepted' = accepted  BY <1>1 DEF collabVars, canvasVars
  <2> QED BY <2>1, <2>2, <2>3 DEF EditInv
<1>9. PinInv' /\ PatchInv' /\ TogetherInv' /\ PlaceTakenInv' /\ ListMadeInv'
    BY <1>1, <1>4, <1>6, CanvasLeavesTheRest DEF collabVars, At
<1> QED BY <1>7, <1>8, <1>9

LEMMA UpdateCanvasKeeps ==
    ASSUME CollabInv, NEW t \in Tasks, UpdateCanvas(t)
    PROVE  CollabInv'
<1> USE DEF CollabInv
<1>1. At(t, "update") /\ Ends(t) /\ UNCHANGED <<failures, pinVars, listVars, saved, concurrent>>
    BY DEF UpdateCanvas
<1>2. task[t].part \in {"title", "content"} /\ task[t].expected \in Nat /\ task[t].content \in SUBSET Tasks
    BY <1>1, CollabPlaces
<1>3. PICK r : CollabMoves(t, r) /\ r.at = "over" /\ \A u \in Tasks : CollabCall(task'[u])
    BY <1>1, CollabEnds DEF At
<1>4. canvas.version \in Nat /\ canvas.content \in SUBSET Tasks /\ accepted \subseteq Tasks \X {"title", "content"}
      /\ canvas \in [version : Nat, content : SUBSET Tasks, title : Tasks \cup {Nobody}]
    BY DEF CollabTyped
<1>5. PinInv' /\ PatchInv' /\ TogetherInv' /\ PlaceTakenInv' /\ ListMadeInv'
    BY <1>1, <1>3, CanvasLeavesTheRest DEF At
<1>6. \A u \in Tasks : At(u, "exists")' \/ At(u, "update")' => (At(u, "exists") \/ At(u, "update")) /\ task'[u] = task[u] /\ u # t
    BY <1>3 DEF CollabMoves, At
<1>7. \A e \in accepted : e[1] # t /\ At(e[1], "over")'
  <2> SUFFICES ASSUME NEW e \in accepted PROVE e[1] # t /\ At(e[1], "over")'  OBVIOUS
  <2>1. At(e[1], "over") /\ e[1] \in Tasks  BY <1>4 DEF EditInv
  <2> QED BY <1>1, <1>3, <2>1 DEF CollabMoves, At
<1>8. CASE VersionIsExpected(t)
  <2>1. canvas.version = task[t].expected /\ task[t].content = canvas.content
      BY <1>1, <1>8 DEF VersionIsExpected, EditInv
  <2>2. /\ canvas' \in [version : Nat, content : SUBSET Tasks, title : Tasks \cup {Nobody}]
        /\ canvas'.version = canvas.version + 1 /\ canvas.content \subseteq canvas'.content
        /\ task[t].part = "content" => t \in canvas'.content
    <3>1. CASE task[t].part = "content"
      <4>1. canvas' = [canvas EXCEPT !.version = @ + 1, !.content = canvas.content \cup {t}]
          BY <1>8, <2>1, <3>1 DEF UpdateCanvas
      <4>2. /\ canvas'.version = canvas.version + 1 /\ canvas'.content = canvas.content \cup {t}
            /\ canvas' \in [version : Nat, content : SUBSET Tasks, title : Tasks \cup {Nobody}]
        <5>1. canvas.version + 1 \in Nat /\ canvas.content \cup {t} \in SUBSET Tasks  BY <1>4
        <5>2. canvas' = [version |-> canvas.version + 1, content |-> canvas.content \cup {t}, title |-> canvas.title]
            BY <1>4, <4>1
        <5> QED BY <1>4, <5>1, <5>2
      <4> QED BY <4>2
    <3>2. CASE task[t].part # "content"
      <4>1. canvas' = [canvas EXCEPT !.version = @ + 1, !.title = t]  BY <1>8, <3>2 DEF UpdateCanvas
      <4>2. /\ canvas'.version = canvas.version + 1 /\ canvas'.content = canvas.content
            /\ canvas' \in [version : Nat, content : SUBSET Tasks, title : Tasks \cup {Nobody}]
        <5>1. canvas.version + 1 \in Nat  BY <1>4
        <5>2. canvas' = [version |-> canvas.version + 1, content |-> canvas.content, title |-> t]
            BY <1>4, <4>1
        <5> QED BY <1>4, <5>1, <5>2
      <4> QED BY <3>2, <4>2
    <3> QED BY <3>1, <3>2
  <2>3. accepted' = accepted \cup {<<t, task[t].part>>}  BY <1>8 DEF UpdateCanvas
  <2>4. <<t, task[t].part>> \notin accepted  BY <1>7
  <2>5. IsFiniteSet(accepted') /\ Cardinality(accepted') = Cardinality(accepted) + 1
      BY <2>3, <2>4, FS_AddElement DEF EditInv
  <2>6. CollabTyped'
      BY <1>1, <1>2, <1>3, <1>4, <2>2, <2>3 DEF CollabTyped, CollabMoves, pinVars, listVars
  <2>7. EditInv'
    <3>1. ASSUME NEW u \in Tasks, At(u, "exists")' \/ At(u, "update")'
          PROVE  task'[u].expected <= canvas'.version /\ task'[u].expected # canvas'.version
      <4>1. task[u].expected \in Nat /\ task[u].expected <= canvas.version
          BY <1>6, <3>1, CollabPlaces DEF EditInv
      <4> QED BY <1>4, <1>6, <2>2, <3>1, <4>1
    <3>2. \A e \in accepted' : e[2] = "content" => e[1] \in canvas'.content
        BY <2>2, <2>3 DEF EditInv
    <3>3. \A e \in accepted' : At(e[1], "over")'  BY <1>3, <1>7, <2>3 DEF CollabMoves, At
    <3>4. \A e, f \in accepted' : e[1] = f[1] => e = f  BY <1>7, <2>3 DEF EditInv
    <3>5. canvas'.version = 1 + Cardinality(accepted')
      <4>1. canvas.version = 1 + Cardinality(accepted) /\ Cardinality(accepted) \in Nat
          BY FS_CardinalityType DEF EditInv
      <4> QED BY <2>2, <2>5, <4>1
    <3> QED BY <2>5, <3>1, <3>2, <3>3, <3>4, <3>5 DEF EditInv
  <2> QED BY <1>5, <2>6, <2>7
<1>9. CASE ~VersionIsExpected(t)
  <2>1. canvas' = canvas /\ accepted' = accepted  BY <1>9 DEF UpdateCanvas, canvasVars
  <2>2. CollabTyped'  BY <1>1, <1>3, <2>1 DEF CollabTyped, CollabMoves, pinVars, listVars
  <2>3. EditInv'
    <3>1. \A u \in Tasks : At(u, "exists")' \/ At(u, "update")' =>
              task'[u].expected <= canvas.version /\ (task'[u].expected = canvas.version => task'[u].content = canvas.content)
        BY <1>6 DEF EditInv
    <3> QED BY <1>7, <2>1, <3>1 DEF EditInv
  <2> QED BY <1>5, <2>2, <2>3
<1> QED BY <1>8, <1>9

----------------------------------------------------------------------------
(* Collab: the theorems                                                    *)

LEMMA CollabStarts == CollabStart => CollabInv
<1> SUFFICES ASSUME CollabStart PROVE CollabInv  OBVIOUS
<1>1. /\ task = [t \in Tasks |-> New] /\ failures = 0 /\ pinned = FALSE /\ pinTold = FALSE
      /\ chat = [f \in Fields |-> Nobody] /\ misread = {}
      /\ list = "none" /\ items = [t \in Tasks |-> Out] /\ moved = {} /\ emptied = FALSE
      /\ canvas = [version |-> 1, content |-> {}, title |-> Nobody] /\ accepted = {}
      /\ saved = {} /\ concurrent = {}
    BY DEF CollabStart, TasksInit, CollabInit
<1>2. \A t \in Tasks, p \in {"tell", "state", "position", "insert", "items", "list", "exists", "update"} : ~At(t, p)
    BY <1>1 DEF New, At
<1>3. CollabTyped
  <2>1. \A t \in Tasks : CollabCall(task[t])  BY <1>1 DEF CollabCall
  <2> QED BY <1>1, <2>1 DEF CollabTyped
<1>4. PinInv /\ PatchInv  BY <1>1, <1>2 DEF PinInv, PatchInv
<1>5. TogetherInv /\ PlaceTakenInv
    BY <1>1, <1>2 DEF TogetherInv, PlaceTakenInv, PositionsDiffer, ItemsThere, Adds, Deletes
<1>6. ListMadeInv  BY <1>1, <1>2 DEF ListMadeInv, EmptiedListsGo, Deletes
<1>7. EditInv  BY <1>1, <1>2, FS_EmptySet DEF EditInv
<1> QED BY <1>3, <1>4, <1>5, <1>6, <1>7 DEF CollabInv

LEMMA CollabNext == CollabInv /\ [ExtrasNext \/ ListsNext \/ CanvasNext]_togetherVars => CollabInv'
<1> SUFFICES ASSUME CollabInv, [ExtrasNext \/ ListsNext \/ CanvasNext]_togetherVars PROVE CollabInv'
    OBVIOUS
<1>1. CASE UNCHANGED togetherVars
  <2>1. saved' \subseteq {"star", "clip"}
      BY <1>1 DEF togetherVars, collabVars, CollabInv, CollabTyped
  <2> QED BY <1>1, <2>1, CollabStands DEF togetherVars, collabVars
<1>2. ASSUME NEW k \in {"star", "clip"}, Save(k) \/ Erase(k) PROVE CollabInv'
  <2>1. saved' \subseteq {"star", "clip"}  BY <1>2 DEF Save, Erase, CollabInv, CollabTyped
  <2> QED BY <1>2, <2>1, CollabStands DEF Save, Erase
<1>3. CASE ExtrasNext
  <2>1. CASE \E t \in Tasks : TellPin(t) \/ AnswerState(t) \/ FailCollab(t)
      BY <2>1, TellPinKeeps, AnswerStateKeeps, FailCollabKeeps
  <2>2. CASE ExtrasRequests  BY <1>2, <2>2, WritePinKeeps, SetStateKeeps DEF ExtrasRequests
  <2> QED BY <1>3, <2>1, <2>2 DEF ExtrasNext
<1>4. CASE ListsNext
  <2>1. CASE \E t \in Tasks : FindPosition(t) \/ InsertItem(t) \/ DeleteItems(t) \/ DeleteListRow(t) \/ FailCollab(t)
      BY <2>1, FindPositionKeeps, InsertItemKeeps, DeleteItemsKeeps, DeleteListRowKeeps, FailCollabKeeps
  <2>2. CASE ListsRequests
      BY <2>2, CreateListKeeps, AddItemKeeps, DeleteListKeeps, DeleteItemKeeps, MoveItemKeeps DEF ListsRequests
  <2> QED BY <1>4, <2>1, <2>2 DEF ListsNext
<1>5. CASE CanvasNext
  <2>1. CASE \E t \in Tasks : GetCanvas(t) \/ UpdateCanvas(t) \/ FailCollab(t)
      BY <2>1, GetCanvasKeeps, UpdateCanvasKeeps, FailCollabKeeps
  <2>2. CASE CanvasRequests  BY <1>2, <2>2, OpenCanvasKeeps DEF CanvasRequests
  <2> QED BY <1>5, <2>1, <2>2 DEF CanvasNext
<1> QED BY <1>1, <1>3, <1>4, <1>5

\* Pins, patches, items, canvases and the calls that share them keep their types, and no canvas has more
\* versions than calls edited it.  About ExtrasService, ListsService and CollabService.
THEOREM CollabTypeCorrect == CollabSpec => []CollabTypeOK
<1>1. CollabInv => CollabTypeOK
  <2> SUFFICES ASSUME CollabInv PROVE CollabTypeOK  OBVIOUS
  <2> DEFINE f == [e \in accepted |-> e[1]]
  <2>1. accepted \subseteq Tasks \X {"title", "content"} /\ \A d, e \in accepted : d[1] = e[1] => d = e
      BY DEF CollabInv, CollabTyped, EditInv
  <2>2. f \in Injection(accepted, Tasks)  BY <2>1 DEF Injection, IsInjective
  <2> HIDE DEF f
  <2>3. Cardinality(accepted) <= Cardinality(Tasks)  BY <2>2, CollabAssumption, FS_Injection
  <2>4. canvas.version \in 1..(Cardinality(Tasks) + 1)
    <3>1. canvas.version = 1 + Cardinality(accepted) /\ Cardinality(accepted) \in Nat
        BY FS_CardinalityType DEF CollabInv, EditInv
    <3> QED BY <2>3, <3>1, PositionsAre
  <2>5. canvas \in [version : 1..(Cardinality(Tasks) + 1), content : SUBSET Tasks, title : Tasks \cup {Nobody}]
      BY <2>4 DEF CollabInv, CollabTyped
  <2> QED BY <2>5 DEF CollabInv, CollabTyped, CollabTypeOK
<1> QED BY <1>1, CollabStarts, CollabNext, PTL DEF CollabSpec

\* For any number of calls in any order, some of which fail: a pin is told as it is, a patch is answered with
\* its own value, an item has a list and a position of its own, and no accepted edit of a canvas is lost, each
\* unless calls overlapped where the property says so.  About the several statements of extras.service.ts,
\* lists.service.ts and collab.service.ts.
THEOREM CollabKept == CollabSpec => []CollabHolds
<1>1. CollabInv => CollabHolds
  <2> SUFFICES ASSUME CollabInv PROVE CollabHolds  OBVIOUS
  <2>1. PinsAreToldInOrder  BY PinningIs DEF CollabInv, PinInv, PinsAreToldInOrder
  <2>2. ItemsHaveAList  BY DEF CollabInv, TogetherInv, ItemsHaveAList, ItemsThere
  <2>3. AnswersHaveThePatch /\ PositionsDiffer /\ EmptiedListsGo /\ NoEditIsLost
      BY DEF CollabInv, PatchInv, PlaceTakenInv, ListMadeInv, EditInv, AnswersHaveThePatch, NoEditIsLost
  <2> QED BY <2>1, <2>2, <2>3 DEF CollabHolds
<1> QED BY <1>1, CollabStarts, CollabNext, PTL DEF CollabSpec

----------------------------------------------------------------------------
(* A process, from its boot to its drain (Deployment)                       *)

DepSpec == TasksInit /\ DepInit /\ [][DepNext]_<<taskVars, depVars>>

LEMMA TheOrder ==
    /\ DOMAIN Order = 1..6
    /\ {Order[i] : i \in DOMAIN Order} = {"postgres", "mongo", "valkey", "eventBus", "indexes", "pipeline"}
    /\ Order[4] = "eventBus" /\ Order[6] = "pipeline"
<1>1. DOMAIN Order = 1..6  BY DEF Order
<1>2. \A i \in 1..6 : i = 1 \/ i = 2 \/ i = 3 \/ i = 4 \/ i = 5 \/ i = 6  OBVIOUS
<1> QED BY <1>1, <1>2 DEF Order

LEMMA TheGroups == AllGroups = {"chat-receipts", "notification", "search-indexer", FanOut}
<1>1. DOMAIN Registered = 1..4  BY DEF Registered
<1>2. \A i \in 1..4 : i = 1 \/ i = 2 \/ i = 3 \/ i = 4  OBVIOUS
<1> QED BY <1>1, <1>2 DEF AllGroups, Registered, FanOut

\* Whoever consumes or works needs the bus, so whatever mounts one has it.
LEMMA WorkNeedsTheBus ==
    ASSUME NEW g \in DOMAIN Need, NEW f \in DOMAIN FeaturesOf[g],
           f \in DOMAIN ConsumerOf \cup {"campaigns", "status", "automation", "flags"}
    PROVE  "eventBus" \in FeaturesOf[g][f]
<1>1. f \in {"chat", "notifications", "search", "campaigns", "status", "automation", "flags"}
    BY DEF ConsumerOf
<1>2. CASE g = "identity"  BY <1>1, <1>2 DEF FeaturesOf, IdentityFeatures, Rows
<1>3. CASE g = "messaging"  BY <1>1, <1>3 DEF FeaturesOf, MessagingFeatures, Rows, Docs_
<1>4. CASE g = "realtime"  BY <1>1, <1>4 DEF FeaturesOf, RealtimeFeatures
<1>5. CASE g = "content"  BY <1>1, <1>5 DEF FeaturesOf, ContentFeatures, Rows
<1>6. CASE g = "platform"  BY <1>1, <1>6 DEF FeaturesOf, PlatformFeatures, Rows, Docs_
<1> QED BY <1>2, <1>3, <1>4, <1>5, <1>6 DEF Need

\* The pipeline is managed with the bus, and without it there is nothing to start.
LEMMA WhatIsManaged ==
    ASSUME profile \in DOMAIN Need \cup {"mono"}
    PROVE
    /\ "pipeline" \in Managed <=> "eventBus" \in Managed
    /\ Managed \subseteq {"postgres", "mongo", "valkey", "eventBus", "indexes", "pipeline"}
    /\ Consumers \subseteq AllGroups \ {FanOut}
    /\ "pipeline" \notin Managed => Consumers = {} /\ Workers = {}
<1>1. Built \subseteq {"postgres", "valkey", "eventBus", "mongo", "search", "storage"}
    BY DEF Built, Need, GroupsOf
<1>2. "pipeline" \in Managed <=> "eventBus" \in Built  BY <1>1, TheOrder DEF Managed
<1>3. "eventBus" \in Managed <=> "eventBus" \in Built  BY TheOrder DEF Managed
<1>4. Managed \subseteq {"postgres", "mongo", "valkey", "eventBus", "indexes", "pipeline"}
    BY TheOrder DEF Managed
<1>5. Consumers \subseteq AllGroups \ {FanOut}  BY TheGroups DEF Consumers, ConsumerOf, FanOut
<1>6. ASSUME "eventBus" \notin Built PROVE Consumers = {} /\ Workers = {}
  <2>1. ASSUME NEW f \in Mounted, f \in DOMAIN ConsumerOf \cup {"campaigns", "status", "automation", "flags"}
        PROVE  FALSE
    <3>1. PICK g \in GroupsOf(profile) : f \in DOMAIN FeaturesOf[g] /\ FeaturesOf[g][f] \subseteq Built
        BY DEF Mounted
    <3>2. g \in DOMAIN Need  BY <3>1, <2>1 DEF GroupsOf, FeaturesOf, Need
    <3> QED BY <1>6, <2>1, <3>1, <3>2, WorkNeedsTheBus
  <2> QED BY <2>1 DEF Consumers, Workers, ConsumerOf
<1> QED BY <1>2, <1>3, <1>4, <1>5, <1>6

One(b) == IF b THEN 1 ELSE 0

BootTyped ==
    /\ profile \in DOMAIN Need \cup {"mono"} /\ given \in Configs
    /\ bus \in {"redis-streams", "kafka", "memory"}
    /\ failures \in Nat
    /\ phase \in {"booting", "listening", "serving", "closing", "exited"}
    /\ waited \subseteq Managed /\ slow \subseteq Managed /\ shut \subseteq Managed
    /\ subscribed \subseteq AllGroups /\ exists \subseteq AllGroups /\ slipped \subseteq AllGroups
    /\ readers \in [AllGroups -> Nat]
    /\ starting \in [Starters -> {"no", "opening", "over", "failed", "cut"}]
    /\ todo \in [Starters -> SUBSET AllGroups]
    /\ working \subseteq Workers

\* How a start stands, and what is left of it.
StartInv ==
    /\ starting["pipeline"] = "no" <=> "pipeline" \notin Managed
    /\ starting["pipeline"] \in {"no", "over"} => todo["pipeline"] = {}
    /\ starting["pipeline"] = "opening" => "pipeline" \in waited \cup slow /\ "pipeline" \notin shut
    /\ starting["pipeline"] = "cut" => phase \in {"closing", "exited"}
    /\ "pipeline" \in shut /\ working # {} => starting["pipeline"] = "cut" /\ todo["pipeline"] = {}
    /\ starting["main"] = "no" => todo["main"] = {}
    /\ starting["main"] # "no" => phase \notin {"booting", "listening"}
    /\ phase \in {"booting", "listening", "serving"} => shut = {}
    /\ Up => waited = {}

\* Each start opens a reader of a group once; main's leaves with Redis alone what has one, and the
\* pipeline's is over by then unless the bootstrap gave up on it.
ReaderInv ==
    /\ \A g \in AllGroups :
           /\ readers[g] + One(g \in todo["pipeline"]) + One(g \in todo["main"]) <= 2
           /\ starting["main"] = "no" => readers[g] + One(g \in todo["pipeline"]) <= 1
           /\ readers[g] > 0 => g \in exists
           /\ bus = "memory" => readers[g] = 0 /\ g \notin todo["pipeline"] /\ g \notin todo["main"]
    /\ bus = "redis-streams" /\ starting["main"] # "no" /\ "pipeline" \notin slow =>
           /\ starting["pipeline"] = "failed" \/ todo["pipeline"] = {}
           /\ \A g \in AllGroups : readers[g] + One(g \in todo["main"]) <= 1

\* Without a fault a process that has not been told to close starts all of it.
CleanInv ==
    failures = 0 =>
        /\ slow = {}
        /\ slipped \subseteq {FanOut}
        /\ phase \in {"booting", "listening", "serving"} =>
               /\ starting["pipeline"] # "failed"
               /\ starting["pipeline"] = "over" => working = Workers
               /\ Consumers \subseteq subscribed
               /\ \A g \in Consumers : bus = "memory" \/ g \in todo["pipeline"] \/ readers[g] > 0

BootInv == BootTyped /\ StartInv /\ ReaderInv /\ CleanInv

LEMMA ConfigurationStays ==
    ASSUME UNCHANGED <<profile, bus, given>>
    PROVE  Managed' = Managed /\ Workers' = Workers /\ Consumers' = Consumers /\ (HasSockets' <=> HasSockets)
<1>1. Built' = Built  BY DEF Built, Configured
<1>2. Mounted' = Mounted  BY <1>1 DEF Mounted
<1> QED BY <1>1, <1>2 DEF Managed, Indexed, Workers, Consumers, HasSockets

LEMMA BootStarts == TasksInit /\ DepInit => BootInv
<1> SUFFICES ASSUME TasksInit, DepInit PROVE BootInv  OBVIOUS
<1> USE DEF DepInit, TasksInit
<1>0. profile \in DOMAIN Need \cup {"mono"}  OBVIOUS
<1>1. /\ "main" \notin Managed /\ Consumers \subseteq AllGroups \ {FanOut}
      /\ "pipeline" \notin Managed => Consumers = {} /\ Workers = {}
    BY <1>0, WhatIsManaged
<1>2. Pending(Consumers) = IF bus = "memory" THEN {} ELSE Consumers  BY <1>1 DEF Pending
<1>3. /\ starting["main"] = "no" /\ todo["main"] = {}
      /\ starting["pipeline"] = IF "pipeline" \in Managed THEN "opening" ELSE "no"
      /\ todo["pipeline"] = IF bus = "memory" THEN {} ELSE Consumers
    BY <1>1, <1>2 DEF Starters, Pending
<1>4. BootTyped
  <2>1. todo \in [Starters -> SUBSET AllGroups]  BY <1>1, <1>2 DEF Starters
  <2>2. starting \in [Starters -> {"no", "opening", "over", "failed", "cut"}]  OBVIOUS
  <2>3. exists \subseteq AllGroups  OBVIOUS
  <2> QED BY <1>1, <2>1, <2>2, <2>3 DEF BootTyped
<1>8. /\ phase = "booting" /\ waited = Managed /\ slow = {} /\ shut = {} /\ failures = 0
      /\ \A g \in AllGroups : readers[g] = 0
      /\ subscribed = Consumers /\ working = {} /\ slipped = {}
    OBVIOUS
<1> HIDE DEF DepInit, TasksInit
<1>5. StartInv  BY <1>1, <1>3, <1>8 DEF StartInv, Up
<1>6. ReaderInv  BY <1>1, <1>3, <1>8 DEF ReaderInv, One
<1>7. CleanInv  BY <1>1, <1>3, <1>8 DEF CleanInv
<1> QED BY <1>4, <1>5, <1>6, <1>7 DEF BootInv

\* A step that settles a store, or gives up on one.
LEMMA SettlesKeeps ==
    ASSUME BootInv, NEW r \in Managed, Settles(r)
    PROVE  BootInv'
<1> USE DEF BootInv, Settles, depVars, taskVars
<1>1. Managed' = Managed /\ Workers' = Workers /\ Consumers' = Consumers  BY ConfigurationStays
<1>2. BootTyped'  BY <1>1 DEF BootTyped
<1>3. StartInv'  BY <1>1 DEF StartInv, Up
<1>4. ReaderInv'  BY <1>1 DEF ReaderInv
<1>5. CleanInv'  BY <1>1 DEF CleanInv
<1> QED BY <1>2, <1>3, <1>4, <1>5

LEMMA TimesOutKeeps ==
    ASSUME BootInv, NEW r \in Managed, TimesOut(r)
    PROVE  BootInv'
<1> USE DEF BootInv, TimesOut, Fault
<1>1. Managed' = Managed /\ Workers' = Workers /\ Consumers' = Consumers  BY ConfigurationStays
<1>2. BootTyped'  BY <1>1 DEF BootTyped
<1>3. StartInv'  BY <1>1 DEF StartInv, Up
<1>4. ReaderInv'  BY <1>1 DEF ReaderInv
<1>5. CleanInv'  BY <1>1 DEF CleanInv, BootTyped
<1> QED BY <1>2, <1>3, <1>4, <1>5

LEMMA OpenReaderKeeps ==
    ASSUME BootInv, NEW s \in Starters, NEW g \in AllGroups, OpenReader(s, g)
    PROVE  BootInv'
<1> USE DEF BootInv, OpenReader, taskVars
<1>1. Managed' = Managed /\ Workers' = Workers /\ Consumers' = Consumers  BY ConfigurationStays
<1>2. /\ s \in {"pipeline", "main"}
      /\ \A u \in Starters : todo'[u] = IF u = s THEN todo[u] \ {g} ELSE todo[u]
      /\ \A h \in AllGroups : readers'[h] = IF h = g THEN readers[h] + 1 ELSE readers[h]
    BY DEF Starters, BootTyped
<1>3. /\ readers \in [AllGroups -> Nat] /\ todo["pipeline"] \subseteq AllGroups /\ todo["main"] \subseteq AllGroups
      /\ "pipeline" \in Starters /\ "main" \in Starters
    BY DEF BootTyped, Starters
<1>4. BootTyped'  BY <1>1, <1>2 DEF BootTyped, Starters
<1>5. StartInv'  BY <1>1, <1>2, <1>3 DEF StartInv, Up
<1>6. ReaderInv'  BY <1>1, <1>2, <1>3 DEF ReaderInv, StartInv, One
<1>7. CleanInv'  BY <1>1, <1>2, <1>3 DEF CleanInv, WhatIsManaged, BootTyped
<1> QED BY <1>4, <1>5, <1>6, <1>7

LEMMA StartEndsKeeps ==
    ASSUME BootInv, NEW s \in Starters, StartEnds(s)
    PROVE  BootInv'
<1> USE DEF BootInv, StartEnds, taskVars
<1>1. Managed' = Managed /\ Workers' = Workers /\ Consumers' = Consumers  BY ConfigurationStays
<1>2. /\ s \in {"pipeline", "main"} /\ "pipeline" \in Starters /\ "main" \in Starters
      /\ \A u \in Starters : starting'[u] = IF u = s /\ starting[u] = "opening" THEN "over" ELSE starting[u]
    BY DEF Starters, BootTyped
<1>4. BootTyped'  BY <1>1, <1>2 DEF BootTyped, Starters
<1>5. StartInv'  BY <1>1, <1>2 DEF StartInv, Up
<1>6. ReaderInv'  BY <1>1, <1>2 DEF ReaderInv
<1>7. CleanInv'  BY <1>1, <1>2 DEF CleanInv
<1> QED BY <1>4, <1>5, <1>6, <1>7

LEMMA ExitsKeeps ==
    ASSUME BootInv, Exits, failures' \in Nat, failures' >= failures,
           UNCHANGED <<profile, bus, given, slow, subscribed, exists, todo, shut, slipped>>,
           starting' \in [Starters -> {"no", "opening", "over", "failed", "cut"}],
           starting'["pipeline"] = starting["pipeline"],
           starting'["main"] = starting["main"] \/ (starting'["main"] = "failed" /\ starting["main"] # "no"),
           waited' \subseteq waited, "pipeline" \in waited => "pipeline" \in waited'
    PROVE  BootInv'
<1> USE DEF BootInv, Exits
<1>1. Managed' = Managed /\ Workers' = Workers /\ Consumers' = Consumers  BY ConfigurationStays
<1>4. BootTyped'  BY <1>1 DEF BootTyped
<1>5. StartInv'  BY <1>1 DEF StartInv, Up
<1>6. ReaderInv'
  <2>1. \A h \in AllGroups : readers'[h] = 0  OBVIOUS
  <2>2. starting'["main"] = "no" <=> starting["main"] = "no"  OBVIOUS
  <2> QED BY <1>1, <2>1, <2>2 DEF ReaderInv, One
<1>7. CleanInv'  BY <1>1 DEF CleanInv, BootTyped
<1> QED BY <1>4, <1>5, <1>6, <1>7

LEMMA StartFailsKeeps ==
    ASSUME BootInv, NEW s \in Starters, StartFails(s)
    PROVE  BootInv'
<1> USE DEF StartFails, taskVars
<1>1. Managed' = Managed /\ Workers' = Workers /\ Consumers' = Consumers  BY ConfigurationStays
<1>2. /\ s \in {"pipeline", "main"} /\ "pipeline" \in Starters /\ "main" \in Starters
      /\ \A u \in Starters : starting'[u] = IF u = s THEN "failed" ELSE starting[u]
    BY DEF Starters, BootTyped, BootInv
<1>3. failures' \in Nat /\ failures' >= failures /\ (failures' = 0 => failures = 0 /\ shut # {})
    BY DEF Fault, BootTyped, BootInv
<1>4. CASE s = "main"
  <2>1. Exits /\ starting' \in [Starters -> {"no", "opening", "over", "failed", "cut"}]
      BY <1>4 DEF BootInv, BootTyped
  <2> QED BY <1>2, <1>3, <1>4, <2>1, ExitsKeeps
<1>5. CASE s = "pipeline"
  <2>1. UNCHANGED <<phase, readers, working>>  BY <1>5
  <2>2. BootTyped'  BY <1>1, <1>2, <1>3, <2>1 DEF BootInv, BootTyped
  <2>3. StartInv'  BY <1>1, <1>2, <1>5, <2>1 DEF BootInv, StartInv, Up
  <2>4. ReaderInv'  BY <1>1, <1>2, <1>5, <2>1 DEF BootInv, ReaderInv
  <2>5. CleanInv'  BY <1>1, <1>2, <1>3, <1>5, <2>1 DEF BootInv, CleanInv, StartInv
  <2> QED BY <2>2, <2>3, <2>4, <2>5 DEF BootInv
<1> QED BY <1>2, <1>4, <1>5

LEMMA ListenKeeps == ASSUME BootInv, Listen PROVE BootInv'
<1> USE DEF BootInv, Listen, taskVars
<1>1. Managed' = Managed /\ Workers' = Workers /\ Consumers' = Consumers  BY ConfigurationStays
<1>2. BootTyped' /\ ReaderInv'  BY <1>1 DEF BootTyped, ReaderInv
<1>3. StartInv'  BY <1>1 DEF StartInv, Up
<1>4. CleanInv'  BY <1>1 DEF CleanInv
<1> QED BY <1>2, <1>3, <1>4

\* The bootstrap has waited for the pipeline's start, unless it gave up on it: none is left of it that
\* main's could meet.
LEMMA RegisterFanOutKeeps == ASSUME BootInv, RegisterFanOut PROVE BootInv'
<1> USE DEF RegisterFanOut, taskVars
<1>1. Managed' = Managed /\ Workers' = Workers /\ Consumers' = Consumers  BY ConfigurationStays
<1>2. /\ "pipeline" \in Starters /\ "main" \in Starters /\ waited = {} /\ FanOut \in AllGroups
      /\ \A u \in Starters : u \in {"pipeline", "main"}
    BY TheGroups DEF Starters, BootInv, StartInv, Up
<1> DEFINE P == Pending(subscribed \cup {FanOut})
<1>3. P \subseteq AllGroups  BY <1>2 DEF Pending, BootInv, BootTyped
<1>4. /\ todo'["main"] = P /\ todo'["pipeline"] = todo["pipeline"]
      /\ starting'["main"] = "opening" /\ starting'["pipeline"] = starting["pipeline"]
    BY <1>2 DEF BootInv, BootTyped
<1>5. BootTyped'  BY <1>1, <1>2, <1>3 DEF BootInv, BootTyped
<1>6. StartInv'  BY <1>1, <1>4 DEF BootInv, StartInv, Up
<1>7. ReaderInv'
  <2>1. starting["main"] = "no" /\ phase = "listening"  BY DEF BootInv, StartInv
  <2>2. /\ bus = "redis-streams" => \A g \in AllGroups : g \in P => readers[g] = 0
        /\ bus = "memory" => P = {}
      BY DEF Pending
  <2>3. readers \in [AllGroups -> Nat]  BY DEF BootInv, BootTyped
  <2>4. "pipeline" \notin slow => starting["pipeline"] = "failed" \/ todo["pipeline"] = {}
      BY <1>2, <2>1 DEF BootInv, StartInv, BootTyped
  <2> HIDE DEF P
  <2>5. \A g \in AllGroups : readers[g] + One(g \in todo["pipeline"]) <= 1
      BY <2>1 DEF BootInv, ReaderInv
  <2>6. \A g \in AllGroups : readers'[g] = readers[g]  OBVIOUS
  <2>7. ASSUME NEW g \in AllGroups
        PROVE  readers[g] + One(g \in todo["pipeline"]) + One(g \in P) <= 2
      BY <2>3, <2>5 DEF One
  <2>8. ASSUME bus = "redis-streams", NEW g \in AllGroups
        PROVE  readers[g] + One(g \in P) <= 1
      BY <2>2, <2>3, <2>5, <2>8 DEF One
  <2> QED BY <1>4, <2>1, <2>2, <2>4, <2>7, <2>8 DEF BootInv, ReaderInv
<1>8. CleanInv'  BY <1>1, <1>4 DEF BootInv, CleanInv
<1> QED BY <1>5, <1>6, <1>7, <1>8 DEF BootInv

LEMMA FabricFailsKeeps == ASSUME BootInv, FabricFails PROVE BootInv'
<1>1. failures' \in Nat /\ failures' >= failures  BY DEF FabricFails, Fault, BootInv, BootTyped
<1>2. starting' \in [Starters -> {"no", "opening", "over", "failed", "cut"}]
    BY DEF FabricFails, BootInv, BootTyped
<1> QED BY <1>1, <1>2, ExitsKeeps DEF FabricFails

\* What is read is known to the broker, and what is subscribed to is heard in memory.
LEMMA ServeKeeps == ASSUME BootInv, Serve PROVE BootInv'
<1> USE DEF BootInv, Serve, taskVars
<1>1. Managed' = Managed /\ Workers' = Workers /\ Consumers' = Consumers  BY ConfigurationStays
<1>2. Consumers \subseteq AllGroups /\ FanOut \in AllGroups
    BY WhatIsManaged, TheGroups DEF BootTyped
<1>3. BootTyped'  BY <1>1, <1>2 DEF BootTyped
<1>4. StartInv' /\ ReaderInv'  BY <1>1 DEF StartInv, ReaderInv, Up
<1>5. CleanInv'
  <2>1. ASSUME failures = 0, NEW g \in Consumers PROVE ~Deaf(g)
    <3>1. waited = {} /\ slow = {} /\ phase \in {"listening", "serving"}
        BY <2>1 DEF StartInv, CleanInv, Up
    <3>2. starting["pipeline"] \in {"no", "over"}
        BY <2>1, <3>1 DEF StartInv, CleanInv, BootTyped, Starters
    <3>3. g \in subscribed /\ (bus = "memory" \/ readers[g] > 0)
        BY <2>1, <3>1, <3>2 DEF CleanInv, StartInv
    <3>4. bus # "memory" => g \in exists  BY <1>2, <3>3 DEF ReaderInv
    <3> QED BY <3>3, <3>4 DEF Deaf
  <2> QED BY <1>1, <2>1 DEF CleanInv
<1> QED BY <1>3, <1>4, <1>5

LEMMA TerminateKeeps == ASSUME BootInv, Terminate PROVE BootInv'
<1> USE DEF BootInv, Terminate, taskVars
<1>1. Managed' = Managed /\ Workers' = Workers /\ Consumers' = Consumers  BY ConfigurationStays
<1>2. BootTyped' /\ ReaderInv'  BY <1>1 DEF BootTyped, ReaderInv
<1>3. StartInv'  BY <1>1 DEF StartInv, Up
<1>4. CleanInv'  BY <1>1 DEF CleanInv
<1> QED BY <1>2, <1>3, <1>4

\* The drain stops the workers last; a start that is under way then is cut, and may start them after all.
LEMMA CloseNextKeeps == ASSUME BootInv, NEW r \in Managed, CloseNext(r) PROVE BootInv'
<1> USE DEF CloseNext, taskVars
<1>1. Managed' = Managed /\ Workers' = Workers /\ Consumers' = Consumers  BY ConfigurationStays
<1>2. "pipeline" \in Starters /\ "main" \in Starters /\ \A u \in Starters : u \in {"pipeline", "main"}
    BY DEF Starters
<1>3. /\ starting'["main"] = starting["main"]
      /\ starting'["pipeline"] = IF r = "pipeline" /\ starting["pipeline"] = "opening" THEN "cut" ELSE starting["pipeline"]
      /\ starting' \in [Starters -> {"no", "opening", "over", "failed", "cut"}]
    BY <1>2 DEF BootInv, BootTyped
<1>4. readers' \in [AllGroups -> Nat] /\ \A g \in AllGroups : readers'[g] \in {0, readers[g]}
    BY DEF BootInv, BootTyped
<1>5. BootTyped'  BY <1>1, <1>3, <1>4 DEF BootInv, BootTyped
<1>6. StartInv'  BY <1>1, <1>3 DEF BootInv, StartInv, Up
<1>7. ReaderInv'
  <2>1. readers \in [AllGroups -> Nat]  BY DEF BootInv, BootTyped
  <2>2. /\ starting'["main"] = "no" <=> starting["main"] = "no"
        /\ starting["pipeline"] = "failed" => starting'["pipeline"] = "failed"
      BY <1>3
  <2> QED BY <1>4, <2>1, <2>2 DEF BootInv, ReaderInv, One
<1>8. CleanInv'  BY <1>1 DEF BootInv, CleanInv
<1> QED BY <1>5, <1>6, <1>7, <1>8 DEF BootInv

LEMMA LeaveKeeps == ASSUME BootInv, Leave_ PROVE BootInv'
<1>1. failures' \in Nat /\ failures' >= failures /\ starting' \in [Starters -> {"no", "opening", "over", "failed", "cut"}]
    BY DEF Leave_, taskVars, BootInv, BootTyped
<1> QED BY <1>1, ExitsKeeps DEF Leave_

LEMMA BootNext == ASSUME BootInv, [DepNext]_<<taskVars, depVars>> PROVE BootInv'
<1>1. CASE UNCHANGED <<taskVars, depVars>>
  <2> USE <1>1 DEF taskVars, depVars
  <2>1. Managed' = Managed /\ Workers' = Workers /\ Consumers' = Consumers  BY ConfigurationStays
  <2> QED BY <2>1 DEF BootInv, BootTyped, StartInv, ReaderInv, CleanInv, Up
<1>2. ASSUME NEW r \in Managed, Settles(r) \/ TimesOut(r) \/ CloseNext(r) PROVE BootInv'
    BY <1>2, SettlesKeeps, TimesOutKeeps, CloseNextKeeps
<1>3. ASSUME NEW s \in Starters, StartEnds(s) \/ StartFails(s) \/ \E g \in AllGroups : OpenReader(s, g)
      PROVE  BootInv'
    BY <1>3, StartEndsKeeps, StartFailsKeeps, OpenReaderKeeps
<1>4. CASE Listen \/ RegisterFanOut \/ FabricFails \/ Serve \/ Terminate \/ Leave_
    BY <1>4, ListenKeeps, RegisterFanOutKeeps, FabricFailsKeeps, ServeKeeps, TerminateKeeps, LeaveKeeps
<1> QED BY <1>1, <1>2, <1>3, <1>4 DEF DepNext

\* The types of what a process has built, started and closed.  About ResourceManager, composeService and main.
THEOREM BootTypeCorrect == DepSpec => []DepTypeOK
<1>1. BootInv => DepTypeOK
  <2> SUFFICES ASSUME BootInv PROVE DepTypeOK  OBVIOUS
  <2>1. \A g \in AllGroups : readers[g] \in 0..2  BY DEF BootInv, BootTyped, ReaderInv, One
  <2> QED BY <2>1 DEF BootInv, BootTyped, DepTypeOK
<1> QED BY <1>1, BootStarts, BootNext, PTL DEF DepSpec

LEMMA BootIsInOrder == BootInv => BootHolds
<1> SUFFICES ASSUME BootInv PROVE BootHolds  OBVIOUS
<1>1. IdleOnlyByFault
  <2> SUFFICES ASSUME Up, failures = 0
               PROVE  /\ working = Workers /\ slipped \subseteq {FanOut}
                      /\ \A g \in Consumers : bus = "memory" \/ readers[g] > 0
      BY DEF IdleOnlyByFault
  <2>1. /\ waited = {} /\ slow = {} /\ slipped \subseteq {FanOut}
        /\ starting["pipeline"] \in {"no", "over"} /\ todo["pipeline"] = {}
      BY DEF BootInv, BootTyped, StartInv, CleanInv, Up, Starters
  <2>2. CASE starting["pipeline"] = "no"
    <3>1. "pipeline" \notin Managed /\ working \subseteq Workers /\ profile \in DOMAIN Need \cup {"mono"}
        BY <2>2 DEF BootInv, BootTyped, StartInv
    <3>2. Workers = {} /\ Consumers = {}  BY <3>1, WhatIsManaged
    <3> QED BY <2>1, <3>1, <3>2
  <2>3. CASE starting["pipeline"] = "over"  BY <2>1, <2>3 DEF BootInv, CleanInv, Up
  <2> QED BY <2>1, <2>2, <2>3
<1>2. TwoReadersOnlyByTwoStarts
  <2> SUFFICES ASSUME NEW g \in AllGroups, readers[g] > 1
               PROVE  starting["main"] # "no" /\ (bus = "kafka" \/ "pipeline" \in slow)
      BY DEF TwoReadersOnlyByTwoStarts
  <2>1. readers[g] \in Nat  BY DEF BootInv, BootTyped
  <2> QED BY <2>1 DEF BootInv, BootTyped, ReaderInv, One
<1>3. StoppedStayStopped  BY DEF BootInv, StartInv, StoppedStayStopped
<1> QED BY <1>1, <1>2, <1>3 DEF BootHolds

\* A feature asks for what its group declares.
LEMMA NeedsDeclared == NeedsAreDeclared
<1> SUFFICES ASSUME NEW g \in DOMAIN Need, NEW f \in DOMAIN FeaturesOf[g]
             PROVE  FeaturesOf[g][f] \subseteq Need[g]
    BY DEF NeedsAreDeclared
<1> USE DEF Need, FeaturesOf
<1>1. CASE g = "identity"  BY <1>1 DEF IdentityFeatures, Rows
<1>2. CASE g = "messaging"  BY <1>2 DEF MessagingFeatures, Rows, Docs_
<1>3. CASE g = "realtime"  BY <1>3 DEF RealtimeFeatures
<1>4. CASE g = "content"  BY <1>4 DEF ContentFeatures, Rows
<1>5. CASE g = "platform"  BY <1>5 DEF PlatformFeatures, Rows, Docs_
<1> QED BY <1>1, <1>2, <1>3, <1>4, <1>5

\* The segments of a path.
IsPath(path) == Len(path) \in Nat /\ Len(path) >= 1 /\ DOMAIN path = 1..Len(path)

\* What a rule of one, two or three segments matches.
LEMMA MatchesOne ==
    ASSUME NEW path, IsPath(path), NEW S, S # {}
    PROVE  Matches(path, Prefix(<<S>>)) <=> Len(path) >= 1 /\ path[1] \in S
<1>1. DOMAIN <<S>> = 1..1 /\ Len(<<S>>) = 1 /\ <<S>>[1] = S /\ DOMAIN path = 1..Len(path)
    BY DEF IsPath
<1> QED BY <1>1 DEF Matches, Prefix, AnyId

LEMMA MatchesTwo ==
    ASSUME NEW path, IsPath(path), NEW S, NEW T, S # {}
    PROVE  /\ Matches(path, Prefix(<<S, T>>)) <=>
                   Len(path) >= 2 /\ path[1] \in S /\ (T = AnyId \/ path[2] \in T)
           /\ Matches(path, Exact(<<S, T>>)) <=>
                   Len(path) = 2 /\ path[1] \in S /\ (T = AnyId \/ path[2] \in T)
<1> DEFINE at == <<S, T>>
<1>1. /\ DOMAIN at = 1..2 /\ Len(at) = 2 /\ at[1] = S /\ at[2] = T
      /\ DOMAIN path = 1..Len(path) /\ Len(path) \in Nat
    BY DEF IsPath
<1>2. \A i \in 1..2 : i = 1 \/ i = 2  OBVIOUS
<1>3. S # AnyId  BY DEF AnyId
<1> HIDE DEF at
<1> DEFINE Q(i) == i \in DOMAIN path /\ (at[i] = AnyId \/ path[i] \in at[i])
<1>4. (\A i \in 1..2 : Q(i)) <=> Q(1) /\ Q(2)  BY <1>2
<1>5. Q(1) /\ Q(2) <=> Len(path) >= 2 /\ path[1] \in S /\ (T = AnyId \/ path[2] \in T)
    BY <1>1, <1>3
<1>6. Matches(path, Prefix(at)) <=> Len(path) >= 2 /\ \A i \in 1..2 : Q(i)
    BY <1>1 DEF Matches, Prefix
<1>7. Matches(path, Exact(at)) <=> Len(path) = 2 /\ \A i \in 1..2 : Q(i)  BY <1>1 DEF Matches, Exact
<1> HIDE DEF Q
<1>8. /\ Matches(path, Prefix(at)) <=> Len(path) >= 2 /\ path[1] \in S /\ (T = AnyId \/ path[2] \in T)
      /\ Matches(path, Exact(at)) <=> Len(path) = 2 /\ path[1] \in S /\ (T = AnyId \/ path[2] \in T)
    BY <1>1, <1>4, <1>5, <1>6, <1>7
<1> QED BY <1>8 DEF at

LEMMA MatchesThree ==
    ASSUME NEW path, IsPath(path), NEW S, NEW U, S # {}, U # {}
    PROVE  /\ Matches(path, Prefix(<<S, AnyId, U>>)) <=> Len(path) >= 3 /\ path[1] \in S /\ path[3] \in U
           /\ Matches(path, Exact(<<S, AnyId, U>>)) <=> Len(path) = 3 /\ path[1] \in S /\ path[3] \in U
<1> DEFINE at == <<S, AnyId, U>>
<1>1. /\ DOMAIN at = 1..3 /\ Len(at) = 3 /\ at[1] = S /\ at[2] = AnyId /\ at[3] = U
      /\ DOMAIN path = 1..Len(path) /\ Len(path) \in Nat
    BY DEF IsPath
<1>2. \A i \in 1..3 : i = 1 \/ i = 2 \/ i = 3  OBVIOUS
<1>3. S # AnyId /\ U # AnyId  BY DEF AnyId
<1> HIDE DEF at
<1> DEFINE Q(i) == i \in DOMAIN path /\ (at[i] = AnyId \/ path[i] \in at[i])
<1>4. (\A i \in 1..3 : Q(i)) <=> Q(1) /\ Q(2) /\ Q(3)  BY <1>2
<1>5. Q(1) /\ Q(2) /\ Q(3) <=> Len(path) >= 3 /\ path[1] \in S /\ path[3] \in U  BY <1>1, <1>3
<1>6. Matches(path, Prefix(at)) <=> Len(path) >= 3 /\ \A i \in 1..3 : Q(i)
    BY <1>1 DEF Matches, Prefix
<1>7. Matches(path, Exact(at)) <=> Len(path) = 3 /\ \A i \in 1..3 : Q(i)  BY <1>1 DEF Matches, Exact
<1> HIDE DEF Q
<1>8. /\ Matches(path, Prefix(at)) <=> Len(path) >= 3 /\ path[1] \in S /\ path[3] \in U
      /\ Matches(path, Exact(at)) <=> Len(path) = 3 /\ path[1] \in S /\ path[3] \in U
    BY <1>1, <1>4, <1>5, <1>6, <1>7
<1> QED BY <1>8 DEF at

LEMMA TheRules == DOMAIN ROUTES = 1..17
BY DEF ROUTES

\* The paths each rule matches, and the process it sends them to.
LEMMA WhatTheRulesMatch ==
    ASSUME NEW path, IsPath(path)
    PROVE
    /\ 1 \in Hits(path) <=> path[1] \in {"auth", ".well-known"}
    /\ 2 \in Hits(path) <=> Len(path) = 3 /\ path[1] = "users" /\ path[3] = "conversations"
    /\ 3 \in Hits(path) <=> Len(path) >= 3 /\ path[1] = "users" /\ path[3] \in {"stars", "conversations"}
    /\ 4 \in Hits(path) <=> path[1] \in {"users", "orgs", "workspaces", "teams", "memberships", "authorize", "admin", "discovery"}
    /\ 5 \in Hits(path) <=> Len(path) >= 2 /\ path[1] = "conversations" /\ path[2] = "dm"
    /\ 6 \in Hits(path) <=> Len(path) >= 3 /\ path[1] = "conversations" /\ path[3] \in {"members", "notif"}
    /\ 7 \in Hits(path) <=> Len(path) = 2 /\ path[1] = "conversations"
    /\ 8 \in Hits(path) <=> path[1] \in {"conversations", "chat", "polls", "messages"}
    /\ 9 \in Hits(path) <=> path[1] \in {"groups", "channels", "communities", "broadcasts"}
    /\ 10 \in Hits(path) <=> path[1] = "presence"
    /\ 11 \in Hits(path) <=> path[1] = "status"
    /\ 12 \in Hits(path) <=> path[1] \in {"notifications", "mail"}
    /\ 13 \in Hits(path) <=> path[1] \in {"media", "backups"}
    /\ 14 \in Hits(path) <=> path[1] = "search"
    /\ 15 \in Hits(path) <=> path[1] \in {"calls", "meetings"}
    /\ 16 \in Hits(path) <=> path[1] \in {"automation", "lists", "clips", "canvas", "feature-flags"}
    /\ 17 \in Hits(path) <=> path[1] = "ai"
<1>1. 1 \in Hits(path) <=> path[1] \in {"auth", ".well-known"}
  <2> DEFINE S == {"auth", ".well-known"}
  <2>1. ROUTES[1].rule = Prefix(<<S>>) /\ S # {}  BY DEF ROUTES, Prefix, Exact
  <2> HIDE DEF S
  <2>2. Matches(path, Prefix(<<S>>)) <=> Len(path) >= 1 /\ path[1] \in S  BY <2>1, MatchesOne
  <2> QED BY <2>1, <2>2, TheRules DEF IsPath, Hits, S
<1>2. 2 \in Hits(path) <=> Len(path) = 3 /\ path[1] = "users" /\ path[3] = "conversations"
  <2> DEFINE S == {"users"}
             U == {"conversations"}
  <2>1. ROUTES[2].rule = Exact(<<S, AnyId, U>>) /\ S # {} /\ U # {}  BY DEF ROUTES, Prefix, Exact
  <2> HIDE DEF S, U
  <2>2. Matches(path, Exact(<<S, AnyId, U>>)) <=> Len(path) = 3 /\ path[1] \in S /\ path[3] \in U
      BY <2>1, MatchesThree
  <2> QED BY <2>1, <2>2, TheRules DEF IsPath, Hits, S, U
<1>3. 3 \in Hits(path) <=> Len(path) >= 3 /\ path[1] = "users" /\ path[3] \in {"stars", "conversations"}
  <2> DEFINE S == {"users"}
             U == {"stars", "conversations"}
  <2>1. ROUTES[3].rule = Prefix(<<S, AnyId, U>>) /\ S # {} /\ U # {}  BY DEF ROUTES, Prefix, Exact
  <2> HIDE DEF S, U
  <2>2. Matches(path, Prefix(<<S, AnyId, U>>)) <=> Len(path) >= 3 /\ path[1] \in S /\ path[3] \in U
      BY <2>1, MatchesThree
  <2> QED BY <2>1, <2>2, TheRules DEF IsPath, Hits, S, U
<1>4. 4 \in Hits(path) <=> path[1] \in {"users", "orgs", "workspaces", "teams", "memberships", "authorize", "admin", "discovery"}
  <2> DEFINE S == {"users", "orgs", "workspaces", "teams", "memberships", "authorize", "admin", "discovery"}
  <2>1. ROUTES[4].rule = Prefix(<<S>>) /\ S # {}  BY DEF ROUTES, Prefix, Exact
  <2> HIDE DEF S
  <2>2. Matches(path, Prefix(<<S>>)) <=> Len(path) >= 1 /\ path[1] \in S  BY <2>1, MatchesOne
  <2> QED BY <2>1, <2>2, TheRules DEF IsPath, Hits, S
<1>5. 5 \in Hits(path) <=> Len(path) >= 2 /\ path[1] = "conversations" /\ path[2] = "dm"
  <2> DEFINE S == {"conversations"}
             T == {"dm"}
  <2>1. ROUTES[5].rule = Prefix(<<S, T>>) /\ S # {}  BY DEF ROUTES, Prefix, Exact
  <2> HIDE DEF S, T
  <2>2. Matches(path, Prefix(<<S, T>>)) <=> Len(path) >= 2 /\ path[1] \in S /\ (T = AnyId \/ path[2] \in T)
      BY <2>1, MatchesTwo
  <2> QED BY <2>1, <2>2, TheRules DEF IsPath, Hits, S, T, AnyId
<1>6. 6 \in Hits(path) <=> Len(path) >= 3 /\ path[1] = "conversations" /\ path[3] \in {"members", "notif"}
  <2> DEFINE S == {"conversations"}
             U == {"members", "notif"}
  <2>1. ROUTES[6].rule = Prefix(<<S, AnyId, U>>) /\ S # {} /\ U # {}  BY DEF ROUTES, Prefix, Exact
  <2> HIDE DEF S, U
  <2>2. Matches(path, Prefix(<<S, AnyId, U>>)) <=> Len(path) >= 3 /\ path[1] \in S /\ path[3] \in U
      BY <2>1, MatchesThree
  <2> QED BY <2>1, <2>2, TheRules DEF IsPath, Hits, S, U
<1>7. 7 \in Hits(path) <=> Len(path) = 2 /\ path[1] = "conversations"
  <2> DEFINE S == {"conversations"}
             T == AnyId
  <2>1. ROUTES[7].rule = Exact(<<S, T>>) /\ S # {}  BY DEF ROUTES, Prefix, Exact
  <2> HIDE DEF S, T
  <2>2. Matches(path, Exact(<<S, T>>)) <=> Len(path) = 2 /\ path[1] \in S /\ (T = AnyId \/ path[2] \in T)
      BY <2>1, MatchesTwo
  <2> QED BY <2>1, <2>2, TheRules DEF IsPath, Hits, S, T, AnyId
<1>8. 8 \in Hits(path) <=> path[1] \in {"conversations", "chat", "polls", "messages"}
  <2> DEFINE S == {"conversations", "chat", "polls", "messages"}
  <2>1. ROUTES[8].rule = Prefix(<<S>>) /\ S # {}  BY DEF ROUTES, Prefix, Exact
  <2> HIDE DEF S
  <2>2. Matches(path, Prefix(<<S>>)) <=> Len(path) >= 1 /\ path[1] \in S  BY <2>1, MatchesOne
  <2> QED BY <2>1, <2>2, TheRules DEF IsPath, Hits, S
<1>9. 9 \in Hits(path) <=> path[1] \in {"groups", "channels", "communities", "broadcasts"}
  <2> DEFINE S == {"groups", "channels", "communities", "broadcasts"}
  <2>1. ROUTES[9].rule = Prefix(<<S>>) /\ S # {}  BY DEF ROUTES, Prefix, Exact
  <2> HIDE DEF S
  <2>2. Matches(path, Prefix(<<S>>)) <=> Len(path) >= 1 /\ path[1] \in S  BY <2>1, MatchesOne
  <2> QED BY <2>1, <2>2, TheRules DEF IsPath, Hits, S
<1>10. 10 \in Hits(path) <=> path[1] = "presence"
  <2> DEFINE S == {"presence"}
  <2>1. ROUTES[10].rule = Prefix(<<S>>) /\ S # {}  BY DEF ROUTES, Prefix, Exact
  <2> HIDE DEF S
  <2>2. Matches(path, Prefix(<<S>>)) <=> Len(path) >= 1 /\ path[1] \in S  BY <2>1, MatchesOne
  <2> QED BY <2>1, <2>2, TheRules DEF IsPath, Hits, S
<1>11. 11 \in Hits(path) <=> path[1] = "status"
  <2> DEFINE S == {"status"}
  <2>1. ROUTES[11].rule = Prefix(<<S>>) /\ S # {}  BY DEF ROUTES, Prefix, Exact
  <2> HIDE DEF S
  <2>2. Matches(path, Prefix(<<S>>)) <=> Len(path) >= 1 /\ path[1] \in S  BY <2>1, MatchesOne
  <2> QED BY <2>1, <2>2, TheRules DEF IsPath, Hits, S
<1>12. 12 \in Hits(path) <=> path[1] \in {"notifications", "mail"}
  <2> DEFINE S == {"notifications", "mail"}
  <2>1. ROUTES[12].rule = Prefix(<<S>>) /\ S # {}  BY DEF ROUTES, Prefix, Exact
  <2> HIDE DEF S
  <2>2. Matches(path, Prefix(<<S>>)) <=> Len(path) >= 1 /\ path[1] \in S  BY <2>1, MatchesOne
  <2> QED BY <2>1, <2>2, TheRules DEF IsPath, Hits, S
<1>13. 13 \in Hits(path) <=> path[1] \in {"media", "backups"}
  <2> DEFINE S == {"media", "backups"}
  <2>1. ROUTES[13].rule = Prefix(<<S>>) /\ S # {}  BY DEF ROUTES, Prefix, Exact
  <2> HIDE DEF S
  <2>2. Matches(path, Prefix(<<S>>)) <=> Len(path) >= 1 /\ path[1] \in S  BY <2>1, MatchesOne
  <2> QED BY <2>1, <2>2, TheRules DEF IsPath, Hits, S
<1>14. 14 \in Hits(path) <=> path[1] = "search"
  <2> DEFINE S == {"search"}
  <2>1. ROUTES[14].rule = Prefix(<<S>>) /\ S # {}  BY DEF ROUTES, Prefix, Exact
  <2> HIDE DEF S
  <2>2. Matches(path, Prefix(<<S>>)) <=> Len(path) >= 1 /\ path[1] \in S  BY <2>1, MatchesOne
  <2> QED BY <2>1, <2>2, TheRules DEF IsPath, Hits, S
<1>15. 15 \in Hits(path) <=> path[1] \in {"calls", "meetings"}
  <2> DEFINE S == {"calls", "meetings"}
  <2>1. ROUTES[15].rule = Prefix(<<S>>) /\ S # {}  BY DEF ROUTES, Prefix, Exact
  <2> HIDE DEF S
  <2>2. Matches(path, Prefix(<<S>>)) <=> Len(path) >= 1 /\ path[1] \in S  BY <2>1, MatchesOne
  <2> QED BY <2>1, <2>2, TheRules DEF IsPath, Hits, S
<1>16. 16 \in Hits(path) <=> path[1] \in {"automation", "lists", "clips", "canvas", "feature-flags"}
  <2> DEFINE S == {"automation", "lists", "clips", "canvas", "feature-flags"}
  <2>1. ROUTES[16].rule = Prefix(<<S>>) /\ S # {}  BY DEF ROUTES, Prefix, Exact
  <2> HIDE DEF S
  <2>2. Matches(path, Prefix(<<S>>)) <=> Len(path) >= 1 /\ path[1] \in S  BY <2>1, MatchesOne
  <2> QED BY <2>1, <2>2, TheRules DEF IsPath, Hits, S
<1>17. 17 \in Hits(path) <=> path[1] = "ai"
  <2> DEFINE S == {"ai"}
  <2>1. ROUTES[17].rule = Prefix(<<S>>) /\ S # {}  BY DEF ROUTES, Prefix, Exact
  <2> HIDE DEF S
  <2>2. Matches(path, Prefix(<<S>>)) <=> Len(path) >= 1 /\ path[1] \in S  BY <2>1, MatchesOne
  <2> QED BY <2>1, <2>2, TheRules DEF IsPath, Hits, S
<1> QED BY <1>1, <1>2, <1>3, <1>4, <1>5, <1>6, <1>7, <1>8, <1>9, <1>10, <1>11, <1>12, <1>13, <1>14, <1>15, <1>16, <1>17

\* The first rule that matches decides.
LEMMA TheFirstDecides ==
    ASSUME NEW path, NEW k \in Hits(path), \A j \in 1..17 : j < k => j \notin Hits(path)
    PROVE  Upstream(path) = AXIS6[ROUTES[k].service]
<1>1. Hits(path) \subseteq 1..17  BY TheRules DEF Hits
<1>2. \A j \in Hits(path) : k <= j  BY <1>1
<1>3. FirstHit(path) \in Hits(path) /\ \A j \in Hits(path) : FirstHit(path) <= j
    BY <1>2 DEF FirstHit
<1>4. FirstHit(path) = k  BY <1>1, <1>2, <1>3
<1> QED BY <1>4 DEF Upstream

\* The process of each rule's service.
LEMMA TheProcesses ==
    /\ \A k \in {1, 2, 4, 5, 6, 7, 9} : AXIS6[ROUTES[k].service] = "identity"
    /\ \A k \in {3, 8, 12, 14} : AXIS6[ROUTES[k].service] = "messaging"
    /\ \A k \in {10} : AXIS6[ROUTES[k].service] = "realtime"
    /\ \A k \in {11, 13} : AXIS6[ROUTES[k].service] = "content"
    /\ \A k \in {15, 16, 17} : AXIS6[ROUTES[k].service] = "platform"
BY DEF AXIS6, ROUTES

\* A rule matches the path, and sends it to the process p.
LeadsTo(path, p) == Hits(path) # {} /\ Upstream(path) = p

\* Where a path leads by its first segments, and two that lead nowhere.
LEMMA WhereAPathLeads ==
    ASSUME NEW path, IsPath(path)
    PROVE
    /\ path[1] \in {"auth", ".well-known", "orgs", "workspaces", "teams", "memberships", "authorize", "admin", "discovery"} => LeadsTo(path, "identity")
    /\ path[1] \in {"groups", "channels", "communities", "broadcasts"} => LeadsTo(path, "identity")
    /\ path[1] = "users" /\ Len(path) = 3 /\ path[3] = "conversations" => LeadsTo(path, "identity")
    /\ path[1] = "users" /\ Len(path) >= 3 /\ path[3] \notin {"stars", "conversations"} => LeadsTo(path, "identity")
    /\ path[1] = "users" /\ Len(path) >= 3 /\ path[3] = "stars" => LeadsTo(path, "messaging")
    /\ path[1] = "users" /\ Len(path) > 3 /\ path[3] = "conversations" => LeadsTo(path, "messaging")
    /\ path[1] = "conversations" /\ Len(path) = 2 => LeadsTo(path, "identity")
    /\ path[1] = "conversations" /\ Len(path) >= 3 /\ path[3] \in {"members", "notif"} => LeadsTo(path, "identity")
    /\ path[1] = "conversations" /\ Len(path) >= 3 /\ path[2] # "dm" /\ path[3] \notin {"members", "notif"} => LeadsTo(path, "messaging")
    /\ path[1] \in {"chat", "polls", "messages", "notifications", "mail", "search"} => LeadsTo(path, "messaging")
    /\ path[1] = "presence" => LeadsTo(path, "realtime")
    /\ path[1] \in {"status", "media", "backups"} => LeadsTo(path, "content")
    /\ path[1] \in {"calls", "meetings", "automation", "lists", "clips", "canvas", "feature-flags", "ai"} => LeadsTo(path, "platform")
    /\ path[1] \in {"directory", "contacts"} => Hits(path) = {}
<1> DEFINE n == Len(path)
           a == path[1]
           b == path[2]
           c == path[3]
           H == Hits(path)
           First(k) == k \in H /\ \A j \in 1..17 : j < k => j \notin H
<1>1. \A k : First(k) => LeadsTo(path, AXIS6[ROUTES[k].service])  BY TheFirstDecides DEF LeadsTo
<1>2. n \in Nat /\ n >= 1 /\ H \subseteq 1..17  BY TheRules DEF Hits, IsPath
<1>3. /\ 1 \in H <=> a \in {"auth", ".well-known"}
      /\ 2 \in H <=> n = 3 /\ a = "users" /\ c = "conversations"
      /\ 3 \in H <=> n >= 3 /\ a = "users" /\ c \in {"stars", "conversations"}
      /\ 4 \in H <=> a \in {"users", "orgs", "workspaces", "teams", "memberships", "authorize", "admin", "discovery"}
      /\ 5 \in H <=> n >= 2 /\ a = "conversations" /\ b = "dm"
      /\ 6 \in H <=> n >= 3 /\ a = "conversations" /\ c \in {"members", "notif"}
      /\ 7 \in H <=> n = 2 /\ a = "conversations"
      /\ 8 \in H <=> a \in {"conversations", "chat", "polls", "messages"}
      /\ 9 \in H <=> a \in {"groups", "channels", "communities", "broadcasts"}
      /\ 10 \in H <=> a = "presence"
      /\ 11 \in H <=> a = "status"
      /\ 12 \in H <=> a \in {"notifications", "mail"}
      /\ 13 \in H <=> a \in {"media", "backups"}
      /\ 14 \in H <=> a = "search"
      /\ 15 \in H <=> a \in {"calls", "meetings"}
      /\ 16 \in H <=> a \in {"automation", "lists", "clips", "canvas", "feature-flags"}
      /\ 17 \in H <=> a = "ai"
    BY WhatTheRulesMatch
<1> HIDE DEF n, a, b, c, H
<1>4. ASSUME a \in {"auth", ".well-known", "orgs", "workspaces", "teams", "memberships", "authorize", "admin", "discovery"}
      PROVE  LeadsTo(path, "identity")
  <2>1. CASE a \in {"auth", ".well-known"}
    <3>1. First(1)  BY <1>4, <1>2, <1>3, <2>1
    <3> QED BY <1>1, <3>1, TheProcesses
  <2>2. CASE a \notin {"auth", ".well-known"}
    <3>1. First(4)  BY <1>4, <1>2, <1>3, <2>2
    <3> QED BY <1>1, <3>1, TheProcesses
  <2> QED BY <1>4, <2>1, <2>2
<1>5. ASSUME a \in {"groups", "channels", "communities", "broadcasts"}
      PROVE  LeadsTo(path, "identity")
  <2>1. First(9)  BY <1>5, <1>2, <1>3
  <2> QED BY <1>1, <2>1, TheProcesses
<1>6. ASSUME a = "users" /\ n = 3 /\ c = "conversations"
      PROVE  LeadsTo(path, "identity")
  <2>1. First(2)  BY <1>6, <1>2, <1>3
  <2> QED BY <1>1, <2>1, TheProcesses
<1>7. ASSUME a = "users" /\ n >= 3 /\ c \notin {"stars", "conversations"}
      PROVE  LeadsTo(path, "identity")
  <2>1. First(4)  BY <1>7, <1>2, <1>3
  <2> QED BY <1>1, <2>1, TheProcesses
<1>8. ASSUME a = "users" /\ n >= 3 /\ c = "stars"
      PROVE  LeadsTo(path, "messaging")
  <2>1. First(3)  BY <1>8, <1>2, <1>3
  <2> QED BY <1>1, <2>1, TheProcesses
<1>9. ASSUME a = "users" /\ n > 3 /\ c = "conversations"
      PROVE  LeadsTo(path, "messaging")
  <2>1. First(3)  BY <1>9, <1>2, <1>3
  <2> QED BY <1>1, <2>1, TheProcesses
<1>10. ASSUME a = "conversations" /\ n = 2
      PROVE  LeadsTo(path, "identity")
  <2>1. CASE b = "dm"
    <3>1. First(5)  BY <1>10, <1>2, <1>3, <2>1
    <3> QED BY <1>1, <3>1, TheProcesses
  <2>2. CASE b # "dm"
    <3>1. First(7)  BY <1>10, <1>2, <1>3, <2>2
    <3> QED BY <1>1, <3>1, TheProcesses
  <2> QED BY <1>10, <2>1, <2>2
<1>11. ASSUME a = "conversations" /\ n >= 3 /\ c \in {"members", "notif"}
      PROVE  LeadsTo(path, "identity")
  <2>1. CASE b = "dm"
    <3>1. First(5)  BY <1>11, <1>2, <1>3, <2>1
    <3> QED BY <1>1, <3>1, TheProcesses
  <2>2. CASE b # "dm"
    <3>1. First(6)  BY <1>11, <1>2, <1>3, <2>2
    <3> QED BY <1>1, <3>1, TheProcesses
  <2> QED BY <1>11, <2>1, <2>2
<1>12. ASSUME a = "conversations" /\ n >= 3 /\ b # "dm" /\ c \notin {"members", "notif"}
      PROVE  LeadsTo(path, "messaging")
  <2>1. First(8)  BY <1>12, <1>2, <1>3
  <2> QED BY <1>1, <2>1, TheProcesses
<1>13. ASSUME a \in {"chat", "polls", "messages", "notifications", "mail", "search"}
      PROVE  LeadsTo(path, "messaging")
  <2>1. CASE a \in {"chat", "polls", "messages"}
    <3>1. First(8)  BY <1>13, <1>2, <1>3, <2>1
    <3> QED BY <1>1, <3>1, TheProcesses
  <2>2. CASE a \in {"notifications", "mail"}
    <3>1. First(12)  BY <1>13, <1>2, <1>3, <2>2
    <3> QED BY <1>1, <3>1, TheProcesses
  <2>3. CASE a = "search"
    <3>1. First(14)  BY <1>13, <1>2, <1>3, <2>3
    <3> QED BY <1>1, <3>1, TheProcesses
  <2> QED BY <1>13, <2>1, <2>2, <2>3
<1>14. ASSUME a = "presence"
      PROVE  LeadsTo(path, "realtime")
  <2>1. First(10)  BY <1>14, <1>2, <1>3
  <2> QED BY <1>1, <2>1, TheProcesses
<1>15. ASSUME a \in {"status", "media", "backups"}
      PROVE  LeadsTo(path, "content")
  <2>1. First(11) \/ First(13)  BY <1>15, <1>2, <1>3
  <2> QED BY <1>1, <2>1, TheProcesses
<1>16. ASSUME a \in {"calls", "meetings", "automation", "lists", "clips", "canvas", "feature-flags", "ai"}
      PROVE  LeadsTo(path, "platform")
  <2>1. First(15) \/ First(16) \/ First(17)  BY <1>16, <1>2, <1>3
  <2> QED BY <1>1, <2>1, TheProcesses
<1>17. a \in {"directory", "contacts"} => H = {}  BY <1>2, <1>3
<1> QED BY <1>4, <1>5, <1>6, <1>7, <1>8, <1>9, <1>10, <1>11, <1>12, <1>13, <1>14, <1>15, <1>16, <1>17 DEF n, a, b, c, H

LEMMA TuplesArePaths ==
    ASSUME NEW a, NEW b, NEW c, NEW d, NEW e
    PROVE  IsPath(<<a>>) /\ IsPath(<<a, b>>) /\ IsPath(<<a, b, c>>) /\ IsPath(<<a, b, c, d>>) /\ IsPath(<<a, b, c, d, e>>)
<1>1. IsPath(<<a>>)  BY DEF IsPath
<1>2. IsPath(<<a, b>>)  BY DEF IsPath
<1>3. IsPath(<<a, b, c>>)  BY DEF IsPath
<1>4. IsPath(<<a, b, c, d>>)  BY DEF IsPath
<1>5. IsPath(<<a, b, c, d, e>>)  BY DEF IsPath
<1> QED BY <1>1, <1>2, <1>3, <1>4, <1>5

\* The gateway sends the path of a controller to the process that mounts its feature, and the two paths of the
\* legacy discovery nowhere.
LEMMA PathsLeadToTheirFeature ==
    ASSUME NEW f \in DOMAIN Paths, NEW path \in Paths[f]
    PROVE  IF Hits(path) = {} THEN f = "directory" ELSE f \in DOMAIN FeaturesOf[Upstream(path)]
<1>1. ASSUME NEW p \in DOMAIN FeaturesOf, LeadsTo(path, p), f \in DOMAIN FeaturesOf[p]
      PROVE  IF Hits(path) = {} THEN f = "directory" ELSE f \in DOMAIN FeaturesOf[Upstream(path)]
    BY <1>1 DEF LeadsTo
<1>2. CASE f = "auth"
  <2>1. path \in {<<"auth", "register">>, <<".well-known", "jwks.json">>}  BY <1>2 DEF Paths
  <2>2. IsPath(path)  BY <2>1, TuplesArePaths
  <2>3. path[1] \in {"auth", ".well-known"}  BY <2>1
  <2>4. LeadsTo(path, "identity")  BY <2>2, <2>3, WhereAPathLeads
  <2>5. "identity" \in DOMAIN FeaturesOf /\ f \in DOMAIN FeaturesOf["identity"]
      BY <1>2 DEF FeaturesOf, IdentityFeatures
  <2> QED BY <1>1, <2>4, <2>5
<1>3. CASE f = "tenancy"
  <2>1. path \in {<<"orgs">>, <<"workspaces">>, <<"teams">>, <<"memberships">>, <<"authorize">>,
                     <<"orgs", "id", "members">>, <<"teams", "id", "members", "id">>}
      BY <1>3 DEF Paths
  <2>2. IsPath(path)  BY <2>1, TuplesArePaths
  <2>3. path[1] \in {"orgs", "workspaces", "teams", "memberships", "authorize"}  BY <2>1
  <2>4. LeadsTo(path, "identity")  BY <2>2, <2>3, WhereAPathLeads
  <2>5. "identity" \in DOMAIN FeaturesOf /\ f \in DOMAIN FeaturesOf["identity"]
      BY <1>3 DEF FeaturesOf, IdentityFeatures
  <2> QED BY <1>1, <2>4, <2>5
<1>4. CASE f = "admin"
  <2>1. path \in {<<"admin", "orgs", "id", "audit">>}  BY <1>4 DEF Paths
  <2>2. IsPath(path)  BY <2>1, TuplesArePaths
  <2>3. path[1] = "admin"  BY <2>1
  <2>4. LeadsTo(path, "identity")  BY <2>2, <2>3, WhereAPathLeads
  <2>5. "identity" \in DOMAIN FeaturesOf /\ f \in DOMAIN FeaturesOf["identity"]
      BY <1>4 DEF FeaturesOf, IdentityFeatures
  <2> QED BY <1>1, <2>4, <2>5
<1>5. CASE f = "oprf"
  <2>1. path \in {<<"discovery", "oprf", "key">>}  BY <1>5 DEF Paths
  <2>2. IsPath(path)  BY <2>1, TuplesArePaths
  <2>3. path[1] = "discovery"  BY <2>1
  <2>4. LeadsTo(path, "identity")  BY <2>2, <2>3, WhereAPathLeads
  <2>5. "identity" \in DOMAIN FeaturesOf /\ f \in DOMAIN FeaturesOf["identity"]
      BY <1>5 DEF FeaturesOf, IdentityFeatures
  <2> QED BY <1>1, <2>4, <2>5
<1>6. CASE f = "chat"
  <2>1. path \in {<<"chat", "messages">>, <<"chat", "conversations", "id", "messages">>}
      BY <1>6 DEF Paths
  <2>2. IsPath(path)  BY <2>1, TuplesArePaths
  <2>3. path[1] = "chat"  BY <2>1
  <2>4. LeadsTo(path, "messaging")  BY <2>2, <2>3, WhereAPathLeads
  <2>5. "messaging" \in DOMAIN FeaturesOf /\ f \in DOMAIN FeaturesOf["messaging"]
      BY <1>6 DEF FeaturesOf, MessagingFeatures
  <2> QED BY <1>1, <2>4, <2>5
<1>7. CASE f = "polls"
  <2>1. path \in {<<"polls", "id", "vote">>}  BY <1>7 DEF Paths
  <2>2. IsPath(path)  BY <2>1, TuplesArePaths
  <2>3. path[1] = "polls"  BY <2>1
  <2>4. LeadsTo(path, "messaging")  BY <2>2, <2>3, WhereAPathLeads
  <2>5. "messaging" \in DOMAIN FeaturesOf /\ f \in DOMAIN FeaturesOf["messaging"]
      BY <1>7 DEF FeaturesOf, MessagingFeatures
  <2> QED BY <1>1, <2>4, <2>5
<1>8. CASE f = "resend"
  <2>1. path \in {<<"messages", "id", "resend-request">>}  BY <1>8 DEF Paths
  <2>2. IsPath(path)  BY <2>1, TuplesArePaths
  <2>3. path[1] = "messages"  BY <2>1
  <2>4. LeadsTo(path, "messaging")  BY <2>2, <2>3, WhereAPathLeads
  <2>5. "messaging" \in DOMAIN FeaturesOf /\ f \in DOMAIN FeaturesOf["messaging"]
      BY <1>8 DEF FeaturesOf, MessagingFeatures
  <2> QED BY <1>1, <2>4, <2>5
<1>9. CASE f = "notifications"
  <2>1. path \in {<<"notifications", "prefs">>}  BY <1>9 DEF Paths
  <2>2. IsPath(path)  BY <2>1, TuplesArePaths
  <2>3. path[1] = "notifications"  BY <2>1
  <2>4. LeadsTo(path, "messaging")  BY <2>2, <2>3, WhereAPathLeads
  <2>5. "messaging" \in DOMAIN FeaturesOf /\ f \in DOMAIN FeaturesOf["messaging"]
      BY <1>9 DEF FeaturesOf, MessagingFeatures
  <2> QED BY <1>1, <2>4, <2>5
<1>10. CASE f = "campaigns"
  <2>1. path \in {<<"mail", "campaigns">>}  BY <1>10 DEF Paths
  <2>2. IsPath(path)  BY <2>1, TuplesArePaths
  <2>3. path[1] = "mail"  BY <2>1
  <2>4. LeadsTo(path, "messaging")  BY <2>2, <2>3, WhereAPathLeads
  <2>5. "messaging" \in DOMAIN FeaturesOf /\ f \in DOMAIN FeaturesOf["messaging"]
      BY <1>10 DEF FeaturesOf, MessagingFeatures
  <2> QED BY <1>1, <2>4, <2>5
<1>11. CASE f = "search"
  <2>1. path \in {<<"search">>}  BY <1>11 DEF Paths
  <2>2. IsPath(path)  BY <2>1, TuplesArePaths
  <2>3. path[1] = "search"  BY <2>1
  <2>4. LeadsTo(path, "messaging")  BY <2>2, <2>3, WhereAPathLeads
  <2>5. "messaging" \in DOMAIN FeaturesOf /\ f \in DOMAIN FeaturesOf["messaging"]
      BY <1>11 DEF FeaturesOf, MessagingFeatures
  <2> QED BY <1>1, <2>4, <2>5
<1>12. CASE f = "presence"
  <2>1. path \in {<<"presence", "online">>}  BY <1>12 DEF Paths
  <2>2. IsPath(path)  BY <2>1, TuplesArePaths
  <2>3. path[1] = "presence"  BY <2>1
  <2>4. LeadsTo(path, "realtime")  BY <2>2, <2>3, WhereAPathLeads
  <2>5. "realtime" \in DOMAIN FeaturesOf /\ f \in DOMAIN FeaturesOf["realtime"]
      BY <1>12 DEF FeaturesOf, RealtimeFeatures
  <2> QED BY <1>1, <2>4, <2>5
<1>13. CASE f = "media"
  <2>1. path \in {<<"media", "uploads">>}  BY <1>13 DEF Paths
  <2>2. IsPath(path)  BY <2>1, TuplesArePaths
  <2>3. path[1] = "media"  BY <2>1
  <2>4. LeadsTo(path, "content")  BY <2>2, <2>3, WhereAPathLeads
  <2>5. "content" \in DOMAIN FeaturesOf /\ f \in DOMAIN FeaturesOf["content"]
      BY <1>13 DEF FeaturesOf, ContentFeatures
  <2> QED BY <1>1, <2>4, <2>5
<1>14. CASE f = "backups"
  <2>1. path \in {<<"backups", "id">>}  BY <1>14 DEF Paths
  <2>2. IsPath(path)  BY <2>1, TuplesArePaths
  <2>3. path[1] = "backups"  BY <2>1
  <2>4. LeadsTo(path, "content")  BY <2>2, <2>3, WhereAPathLeads
  <2>5. "content" \in DOMAIN FeaturesOf /\ f \in DOMAIN FeaturesOf["content"]
      BY <1>14 DEF FeaturesOf, ContentFeatures
  <2> QED BY <1>1, <2>4, <2>5
<1>15. CASE f = "status"
  <2>1. path \in {<<"status">>}  BY <1>15 DEF Paths
  <2>2. IsPath(path)  BY <2>1, TuplesArePaths
  <2>3. path[1] = "status"  BY <2>1
  <2>4. LeadsTo(path, "content")  BY <2>2, <2>3, WhereAPathLeads
  <2>5. "content" \in DOMAIN FeaturesOf /\ f \in DOMAIN FeaturesOf["content"]
      BY <1>15 DEF FeaturesOf, ContentFeatures
  <2> QED BY <1>1, <2>4, <2>5
<1>16. CASE f = "calls"
  <2>1. path \in {<<"calls">>, <<"meetings">>}  BY <1>16 DEF Paths
  <2>2. IsPath(path)  BY <2>1, TuplesArePaths
  <2>3. path[1] \in {"calls", "meetings"}  BY <2>1
  <2>4. LeadsTo(path, "platform")  BY <2>2, <2>3, WhereAPathLeads
  <2>5. "platform" \in DOMAIN FeaturesOf /\ f \in DOMAIN FeaturesOf["platform"]
      BY <1>16 DEF FeaturesOf, PlatformFeatures
  <2> QED BY <1>1, <2>4, <2>5
<1>17. CASE f = "automation"
  <2>1. path \in {<<"automation", "bots">>}  BY <1>17 DEF Paths
  <2>2. IsPath(path)  BY <2>1, TuplesArePaths
  <2>3. path[1] = "automation"  BY <2>1
  <2>4. LeadsTo(path, "platform")  BY <2>2, <2>3, WhereAPathLeads
  <2>5. "platform" \in DOMAIN FeaturesOf /\ f \in DOMAIN FeaturesOf["platform"]
      BY <1>17 DEF FeaturesOf, PlatformFeatures
  <2> QED BY <1>1, <2>4, <2>5
<1>18. CASE f = "lists"
  <2>1. path \in {<<"lists">>}  BY <1>18 DEF Paths
  <2>2. IsPath(path)  BY <2>1, TuplesArePaths
  <2>3. path[1] = "lists"  BY <2>1
  <2>4. LeadsTo(path, "platform")  BY <2>2, <2>3, WhereAPathLeads
  <2>5. "platform" \in DOMAIN FeaturesOf /\ f \in DOMAIN FeaturesOf["platform"]
      BY <1>18 DEF FeaturesOf, PlatformFeatures
  <2> QED BY <1>1, <2>4, <2>5
<1>19. CASE f = "collab"
  <2>1. path \in {<<"clips">>, <<"canvas", "id">>}  BY <1>19 DEF Paths
  <2>2. IsPath(path)  BY <2>1, TuplesArePaths
  <2>3. path[1] \in {"clips", "canvas"}  BY <2>1
  <2>4. LeadsTo(path, "platform")  BY <2>2, <2>3, WhereAPathLeads
  <2>5. "platform" \in DOMAIN FeaturesOf /\ f \in DOMAIN FeaturesOf["platform"]
      BY <1>19 DEF FeaturesOf, PlatformFeatures
  <2> QED BY <1>1, <2>4, <2>5
<1>20. CASE f = "flags"
  <2>1. path \in {<<"feature-flags", "evaluate">>}  BY <1>20 DEF Paths
  <2>2. IsPath(path)  BY <2>1, TuplesArePaths
  <2>3. path[1] = "feature-flags"  BY <2>1
  <2>4. LeadsTo(path, "platform")  BY <2>2, <2>3, WhereAPathLeads
  <2>5. "platform" \in DOMAIN FeaturesOf /\ f \in DOMAIN FeaturesOf["platform"]
      BY <1>20 DEF FeaturesOf, PlatformFeatures
  <2> QED BY <1>1, <2>4, <2>5
<1>21. CASE f = "translate"
  <2>1. path \in {<<"ai", "translate">>}  BY <1>21 DEF Paths
  <2>2. IsPath(path)  BY <2>1, TuplesArePaths
  <2>3. path[1] = "ai"  BY <2>1
  <2>4. LeadsTo(path, "platform")  BY <2>2, <2>3, WhereAPathLeads
  <2>5. "platform" \in DOMAIN FeaturesOf /\ f \in DOMAIN FeaturesOf["platform"]
      BY <1>21 DEF FeaturesOf, PlatformFeatures
  <2> QED BY <1>1, <2>4, <2>5
<1>22. CASE f = "captions"
  <2>1. path \in {<<"ai", "call", "caption">>}  BY <1>22 DEF Paths
  <2>2. IsPath(path)  BY <2>1, TuplesArePaths
  <2>3. path[1] = "ai"  BY <2>1
  <2>4. LeadsTo(path, "platform")  BY <2>2, <2>3, WhereAPathLeads
  <2>5. "platform" \in DOMAIN FeaturesOf /\ f \in DOMAIN FeaturesOf["platform"]
      BY <1>22 DEF FeaturesOf, PlatformFeatures
  <2> QED BY <1>1, <2>4, <2>5
<1>23. CASE f = "channels"
  <2>1. path \in {<<"conversations", "dm">>, <<"users", "me", "conversations">>,
                     <<"users", "id", "conversations">>, <<"groups">>, <<"channels">>,
                     <<"channels", "id", "join">>, <<"communities", "id", "channels">>,
                     <<"conversations", "id">>, <<"conversations", "id", "notif">>,
                     <<"conversations", "id", "members">>, <<"conversations", "id", "members", "id", "role">>}
      BY <1>23 DEF Paths
  <2>2. IsPath(path)  BY <2>1, TuplesArePaths
  <2>3. \/ path[1] \in {"groups", "channels", "communities"}
        \/ path[1] = "conversations" /\ Len(path) = 2
        \/ path[1] = "conversations" /\ Len(path) >= 3 /\ path[3] \in {"members", "notif"}
        \/ path[1] = "users" /\ Len(path) = 3 /\ path[3] = "conversations"
      BY <2>1
  <2>4. LeadsTo(path, "identity")  BY <2>2, <2>3, WhereAPathLeads
  <2>5. "identity" \in DOMAIN FeaturesOf /\ f \in DOMAIN FeaturesOf["identity"]
      BY <1>23 DEF FeaturesOf, IdentityFeatures
  <2> QED BY <1>1, <2>4, <2>5
<1>24. CASE f = "extras"
  <2>1. path \in {<<"conversations", "id", "pins", "id">>, <<"users", "id", "stars">>,
                     <<"users", "id", "conversations", "id", "mute">>,
                     <<"users", "id", "conversations", "archived">>}
      BY <1>24 DEF Paths
  <2>2. IsPath(path)  BY <2>1, TuplesArePaths
  <2>3. \/ path[1] = "conversations" /\ Len(path) >= 3 /\ path[2] # "dm" /\ path[3] \notin {"members", "notif"}
        \/ path[1] = "users" /\ Len(path) >= 3 /\ path[3] = "stars"
        \/ path[1] = "users" /\ Len(path) > 3 /\ path[3] = "conversations"
      BY <2>1
  <2>4. LeadsTo(path, "messaging")  BY <2>2, <2>3, WhereAPathLeads
  <2>5. "messaging" \in DOMAIN FeaturesOf /\ f \in DOMAIN FeaturesOf["messaging"]
      BY <1>24 DEF FeaturesOf, MessagingFeatures
  <2> QED BY <1>1, <2>4, <2>5
<1>25. CASE f = "directory"
  <2>1. path \in {<<"users", "id", "profile">>, <<"users", "id", "contacts">>,
                     <<"users", "id", "contacts", "id", "block">>, <<"directory", "hash">>,
                     <<"contacts", "discover">>}
      BY <1>25 DEF Paths
  <2>2. IsPath(path)  BY <2>1, TuplesArePaths
  <2>3. \/ path[1] \in {"directory", "contacts"}
        \/ path[1] = "users" /\ Len(path) >= 3 /\ path[3] \notin {"stars", "conversations"}
      BY <2>1
  <2>4. Hits(path) = {} \/ LeadsTo(path, "identity")  BY <2>2, <2>3, WhereAPathLeads
  <2>5. "identity" \in DOMAIN FeaturesOf /\ f \in DOMAIN FeaturesOf["identity"]
      BY <1>25 DEF FeaturesOf, IdentityFeatures
  <2> QED BY <1>1, <1>25, <2>4, <2>5
<1> QED BY <1>2, <1>3, <1>4, <1>5, <1>6, <1>7, <1>8, <1>9, <1>10, <1>11, <1>12, <1>13, <1>14, <1>15, <1>16, <1>17, <1>18, <1>19, <1>20, <1>21, <1>22, <1>23, <1>24, <1>25 DEF Paths

\* For any sets of stores given, any order of connects, timeouts, starts and closings, and any faults: a process
\* that listens runs its workers and hears what it subscribed to unless a fault came in between, two readers of a
\* group need two overlapping or repeated starts, what the drain stopped stays stopped but for a start it cut, and
\* the gateway's rules lead to the process of each path.  About composeService, ResourceManager, the late
\* subscription and the route table.
THEOREM DeploymentKept == DepSpec => []DeploymentHolds
<1>1. RoutesLeadToTheirFeature
    BY NeedsDeclared, PathsLeadToTheirFeature DEF RoutesLeadToTheirFeature
<1>2. BootInv => DeploymentHolds  BY <1>1, BootIsInOrder DEF DeploymentHolds
<1> QED BY <1>2, BootStarts, BootNext, PTL DEF DepSpec
=============================================================================
