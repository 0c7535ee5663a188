----------------------------- MODULE Features_proofs -----------------------------
(***************************************************************************)
(* That an evaluation gives every flag its meaning, for any set of flags,   *)
(* any dependencies between them, cycles included, and any order; and what  *)
(* media, backups, statuses, the changes of flags, of the platform document *)
(* and of segments, and the services of one machine that boot and ask each  *)
(* other keep for any objects, calls and failures.                          *)
(***************************************************************************)
EXTENDS FlagEvaluation, Media, Flags, ServiceCalls, FiniteSetTheorems, SequenceTheorems, TLAPS

----------------------------------------------------------------------------
(* The meaning                                                             *)

\* The meaning is itself closed.
LEMMA MeaningIsClosed == Closed(Meaning)
<1> SUFFICES ASSUME NEW k \in Keys, own[k] = "on", deps[k] \subseteq Meaning
             PROVE  k \in Meaning
  BY DEF Closed
<1> SUFFICES ASSUME NEW S \in SUBSET Keys, Closed(S)
             PROVE  k \in S
  BY DEF Meaning
<1>1. Meaning \subseteq S  BY DEF Meaning
<1> QED  BY <1>1 DEF Closed

\* What is on is on by itself, and so is all it depends on.
LEMMA MeaningUnfolds ==
    ASSUME NEW k \in Meaning
    PROVE  own[k] = "on" /\ deps[k] \subseteq Meaning
<1> DEFINE S == {x \in Meaning : own[x] = "on" /\ deps[x] \subseteq Meaning}
<1>1. S \in SUBSET Keys  BY DEF Meaning
<1>2. Closed(S)  BY MeaningIsClosed DEF Closed
<1> QED  BY <1>1, <1>2 DEF Meaning

\* Nothing that always finds a dependency within the same set is on: a cycle is off.
LEMMA CyclesAreOff ==
    ASSUME NEW C \in SUBSET Keys, \A k \in C : \E d \in deps[k] : d \in C
    PROVE  C \cap Meaning = {}
<1> DEFINE S == Meaning \ C
<1>1. S \in SUBSET Keys  BY DEF Meaning
<1>2. Closed(S)
  <2> SUFFICES ASSUME NEW k \in Keys, own[k] = "on", deps[k] \subseteq S
               PROVE  k \in S
    BY DEF Closed
  <2>1. k \in Meaning  BY MeaningIsClosed DEF Closed
  <2>2. k \notin C  OBVIOUS
  <2> QED  BY <2>1, <2>2
<1> QED  BY <1>1, <1>2 DEF Meaning

----------------------------------------------------------------------------
(* The invariant                                                           *)

Frames == [key : Keys, left : SUBSET Keys]

\* A call under way is of a flag without a result; what it no longer has to ask is on.
FrameOK(f) ==
    /\ f.key \in Known /\ memo[f.key] = Unset
    /\ f.left \subseteq deps[f.key]
    /\ own[f.key] # "killed" => \A d \in deps[f.key] \ f.left : memo[d] = TRUE

FramesOK == \A i \in 1..Depth : FrameOK(stack[i])

\* The stack is a path through the dependencies, which meets no flag twice.
IsPath   == \A i \in 1..Depth : i < Depth => stack[i + 1].key \in deps[stack[i].key]
NoCycle  == \A i, j \in 1..Depth : stack[i].key = stack[j].key => i = j

EvalInv == EvalTypeOK /\ MemoIsMeaning /\ FramesOK /\ IsPath /\ NoCycle

\* The meaning depends on the flags only, which no step changes.
LEMMA SameMeaning ==
    ASSUME UNCHANGED <<own, deps>>
    PROVE  Meaning' = Meaning /\ Known' = Known
BY DEF Meaning, Closed, Known

LEMMA InitInv == EvalInit => EvalInv
<1> SUFFICES ASSUME EvalInit PROVE EvalInv  OBVIOUS
<1>1. EvalTypeOK  BY DEF EvalInit, EvalTypeOK
<1>2. Depth = 0  BY DEF EvalInit, Depth
<1> QED  BY <1>1, <1>2 DEF EvalInit, EvalInv, MemoIsMeaning, FramesOK, IsPath, NoCycle

LEMMA CallIsFrame == ASSUME EvalTypeOK, NEW k \in Keys PROVE Call(k) \in Frames
BY DEF EvalTypeOK, Call, Frames

\* A call that is added at the top leaves the rest of the stack as it is.
LEMMA CallInv ==
    ASSUME EvalInv, NEW k \in Known, memo[k] = Unset, ~OnStack(k),
           Evaluate(k), Depth > 0 => k \in deps[Top.key]
    PROVE  EvalInv'
<1>1. stack \in Seq(Frames) /\ Call(k) \in Frames /\ k \in Keys
  BY CallIsFrame DEF EvalInv, EvalTypeOK, Frames, Known
<1>2. /\ stack' \in Seq(Frames) /\ Depth \in Nat /\ Depth' = Depth + 1
      /\ \A i \in 1..Depth : stack'[i] = stack[i]
      /\ stack'[Depth + 1] = Call(k) /\ Call(k).key = k
      /\ UNCHANGED <<own, deps, memo>>
  <2>1. Call(k).key = k  BY DEF Call
  <2> QED  BY <1>1, <2>1, AppendProperties, LenProperties DEF Depth, Evaluate
<1>3. \A i \in 1..Depth' : i \in 1..Depth \/ i = Depth + 1  BY <1>2
<1>4. EvalTypeOK' /\ MemoIsMeaning'
  BY <1>2, SameMeaning DEF EvalInv, EvalTypeOK, Frames, MemoIsMeaning
<1>5. FramesOK'
  <2> SUFFICES ASSUME NEW i \in 1..Depth' PROVE FrameOK(stack[i])'  BY DEF FramesOK
  <2>1. FrameOK(Call(k))  BY DEF FrameOK, Call
  <2>2. FrameOK(stack'[i])  BY <1>2, <1>3, <2>1 DEF EvalInv, FramesOK
  <2> QED  BY <1>2, <2>2, SameMeaning DEF FrameOK
<1>6. IsPath'
  <2> SUFFICES ASSUME NEW i \in 1..Depth', i < Depth'
               PROVE  stack'[i + 1].key \in deps[stack'[i].key]
    BY <1>2 DEF IsPath
  <2>1. CASE i < Depth
    <3>1. i \in 1..Depth /\ i + 1 \in 1..Depth  BY <1>2, <2>1
    <3>2. stack[i + 1].key \in deps[stack[i].key]  BY <2>1, <3>1 DEF EvalInv, IsPath
    <3> QED  BY <1>2, <3>1, <3>2
  <2>2. CASE i = Depth
    <3>1. i \in 1..Depth /\ stack'[i] = Top /\ stack'[i + 1] = Call(k) /\ Depth > 0
      BY <1>2, <2>2 DEF Top
    <3> QED  BY <1>2, <2>2, <3>1
  <2> QED  BY <1>2, <2>1, <2>2
<1>7. NoCycle'
  <2>1. \A i \in 1..Depth : stack'[i].key # k  BY <1>2 DEF OnStack
  <2>2. stack'[Depth + 1].key = k  BY <1>2
  <2>3. \A i, j \in 1..Depth : stack'[i].key = stack'[j].key => i = j  BY <1>2 DEF EvalInv, NoCycle
  <2>4. \A i, j \in 1..Depth' : stack'[i].key = stack'[j].key => i = j  BY <1>3, <2>1, <2>2, <2>3
  <2> QED  BY <2>4 DEF NoCycle
<1> QED  BY <1>4, <1>5, <1>6, <1>7 DEF EvalInv

LEMMA BelowIsPrefix ==
    ASSUME stack \in Seq(Frames), Depth \in Nat \ {0}
    PROVE  /\ Below \in Seq(Frames) /\ Len(Below) = Depth - 1
           /\ \A i \in 1..(Depth - 1) : Below[i] = stack[i]
<1>1. \A i \in 1..(Depth - 1) : stack[i] \in Frames  BY ElementOfSeq DEF Depth
<1>2. /\ Below \in Seq(Frames)
      /\ Len(Below) = IF 1 <= Depth - 1 THEN (Depth - 1) - 1 + 1 ELSE 0
      /\ \A i \in 1..((Depth - 1) - 1 + 1) : Below[i] = stack[1 + i - 1]
  BY <1>1, SubSeqProperties DEF Below
<1> QED  BY <1>2

\* A dependency that is on need not be asked again.
LEMMA DepIsOnInv == ASSUME EvalInv, NEW k \in Keys, DepIsOn(k) PROVE EvalInv'
<1> DEFINE f == [Top EXCEPT !.left = @ \ {k}]
<1>1. stack \in Seq(Frames) /\ Depth \in Nat \ {0} /\ Depth \in 1..Depth
  <2>1. stack \in Seq(Frames)  BY DEF EvalInv, EvalTypeOK, Frames
  <2> QED  BY <2>1, LenProperties DEF DepIsOn, Depth
<1>2. Top \in Frames /\ FrameOK(Top)
  <2>1. Top \in Frames  BY <1>1, ElementOfSeq DEF Top, Depth
  <2> QED  BY <1>1, <2>1 DEF EvalInv, FramesOK, Top
<1>3. f \in Frames /\ f.key = Top.key /\ f.left = Top.left \ {k}  BY <1>2 DEF Frames
<1>4. stack' = Append(Below, f) /\ UNCHANGED <<own, deps, memo>> /\ memo[k] = TRUE
  BY DEF DepIsOn, IsOn
<1>5. /\ stack' \in Seq(Frames) /\ Depth' = Depth
      /\ \A i \in 1..(Depth - 1) : stack'[i] = stack[i]
      /\ stack'[Depth] = f
  <2>1. Below \in Seq(Frames) /\ Len(Below) = Depth - 1  BY <1>1, BelowIsPrefix
  <2>2. /\ stack' \in Seq(Frames) /\ Len(stack') = Len(Below) + 1
        /\ \A i \in 1..Len(Below) : stack'[i] = Below[i]
        /\ stack'[Len(Below) + 1] = f
    BY <1>3, <1>4, <2>1, AppendProperties
  <2>3. Len(Below) + 1 = Depth /\ Len(stack') = Depth  BY <1>1, <2>1, <2>2
  <2>4. stack'[Depth] = f  BY <2>2, <2>3
  <2>5. \A i \in 1..(Depth - 1) : stack'[i] = stack[i]  BY <1>1, <2>1, <2>2, BelowIsPrefix
  <2> QED  BY <2>2, <2>3, <2>4, <2>5 DEF Depth
<1>6. \A i \in 1..Depth : i \in 1..(Depth - 1) \/ i = Depth  BY <1>1
<1>7. \A i \in 1..Depth : stack'[i].key = stack[i].key  BY <1>3, <1>5, <1>6 DEF Top
<1>8. FramesOK'
  <2> SUFFICES ASSUME NEW i \in 1..Depth PROVE FrameOK(stack[i])'  BY <1>5 DEF FramesOK
  <2>1. FrameOK(f)  BY <1>2, <1>3, <1>4 DEF FrameOK
  <2>2. FrameOK(stack'[i])  BY <1>5, <1>6, <2>1 DEF EvalInv, FramesOK
  <2> QED  BY <1>4, <2>2, SameMeaning DEF FrameOK
<1>9. EvalTypeOK' /\ MemoIsMeaning'
  BY <1>4, <1>5, SameMeaning DEF EvalInv, EvalTypeOK, Frames, MemoIsMeaning
<1>10. IsPath'
  <2> SUFFICES ASSUME NEW i \in 1..Depth, i < Depth
               PROVE  stack'[i + 1].key \in deps[stack'[i].key]
    BY <1>4, <1>5 DEF IsPath
  <2>1. i + 1 \in 1..Depth  BY <1>1
  <2>2. stack[i + 1].key \in deps[stack[i].key]  BY DEF EvalInv, IsPath
  <2> QED  BY <1>7, <2>1, <2>2
<1>11. NoCycle'
  <2>1. \A i, j \in 1..Depth : stack'[i].key = stack'[j].key => i = j  BY <1>7 DEF EvalInv, NoCycle
  <2> QED  BY <1>5, <2>1 DEF NoCycle
<1> QED  BY <1>8, <1>9, <1>10, <1>11 DEF EvalInv

\* A call that returns what its flag means.
LEMMA ReturnInv ==
    ASSUME EvalInv, Depth > 0, NEW on \in BOOLEAN, on = (Top.key \in Meaning), Return(on)
    PROVE  EvalInv'
<1>1. stack \in Seq(Frames) /\ Depth \in Nat \ {0} /\ Depth \in 1..Depth
  <2>1. stack \in Seq(Frames)  BY DEF EvalInv, EvalTypeOK, Frames
  <2> QED  BY <2>1, LenProperties DEF Depth
<1>2. /\ stack' \in Seq(Frames) /\ Depth' = Depth - 1
      /\ \A i \in 1..(Depth - 1) : stack'[i] = stack[i]
      /\ UNCHANGED <<own, deps>>
      /\ memo' = [memo EXCEPT ![Top.key] = on]
  BY <1>1, BelowIsPrefix DEF Return, Depth
<1>3. \A i \in 1..(Depth - 1) : i \in 1..Depth /\ i # Depth  BY <1>1
<1>4. Top.key \in Keys /\ memo[Top.key] = Unset  BY <1>1 DEF EvalInv, FramesOK, FrameOK, Top, Known
<1>5. EvalTypeOK'  BY <1>2 DEF EvalInv, EvalTypeOK, Frames
<1>6. MemoIsMeaning'
  <2> SUFFICES ASSUME NEW k \in Keys, memo'[k] # Unset PROVE memo'[k] = (k \in Meaning)
    BY <1>2, SameMeaning DEF MemoIsMeaning
  <2>1. CASE k = Top.key  BY <1>2, <2>1 DEF EvalInv, EvalTypeOK
  <2>2. CASE k # Top.key  BY <1>2, <2>2 DEF EvalInv, EvalTypeOK, MemoIsMeaning
  <2> QED  BY <2>1, <2>2
<1>7. FramesOK'
  <2> SUFFICES ASSUME NEW i \in 1..(Depth - 1) PROVE FrameOK(stack[i])'  BY <1>2 DEF FramesOK
  <2>1. stack[i].key # Top.key  BY <1>1, <1>3 DEF EvalInv, NoCycle, Top
  <2>2. FrameOK(stack[i]) /\ stack'[i] = stack[i]  BY <1>2, <1>3 DEF EvalInv, FramesOK
  <2>3. stack[i].key \in Keys /\ deps[stack[i].key] \subseteq Keys
    BY <2>2 DEF FrameOK, Known, EvalInv, EvalTypeOK
  <2>4. memo'[stack[i].key] = memo[stack[i].key]  BY <1>2, <2>1, <2>3 DEF EvalInv, EvalTypeOK
  <2>5. \A d \in Keys : memo[d] = TRUE => memo'[d] = TRUE
    BY <1>2, <1>4, UnsetAssumption DEF EvalInv, EvalTypeOK
  <2> QED  BY <1>2, <2>2, <2>3, <2>4, <2>5, SameMeaning DEF FrameOK
<1>8. IsPath'
  <2> SUFFICES ASSUME NEW i \in 1..(Depth - 1), i < Depth - 1
               PROVE  stack'[i + 1].key \in deps[stack'[i].key]
    BY <1>2 DEF IsPath
  <2>1. i + 1 \in 1..(Depth - 1) /\ i < Depth  BY <1>1
  <2>2. stack[i + 1].key \in deps[stack[i].key]  BY <1>3, <2>1 DEF EvalInv, IsPath
  <2> QED  BY <1>2, <2>1, <2>2
<1>9. NoCycle'
  <2>1. \A i, j \in 1..(Depth - 1) : stack'[i].key = stack'[j].key => i = j
    BY <1>2, <1>3 DEF EvalInv, NoCycle
  <2> QED  BY <1>2, <2>1 DEF NoCycle
<1> QED  BY <1>5, <1>6, <1>7, <1>8, <1>9 DEF EvalInv

\* A flag with a dependency that is off, missing, or under way further down the stack is off.
LEMMA OffIsMeant ==
    ASSUME EvalInv, Depth > 0, NEW k \in Top.left, k \in Keys, IsOff(k)
    PROVE  Top.key \notin Meaning
<1>1. Depth \in Nat \ {0} /\ FrameOK(Top) /\ k \in deps[Top.key] /\ Top.key \in Keys
  <2>1. stack \in Seq(Frames)  BY DEF EvalInv, EvalTypeOK, Frames
  <2>2. Depth \in Nat \ {0}  BY <2>1, LenProperties DEF Depth
  <2>3. FrameOK(Top)  BY <2>2 DEF EvalInv, FramesOK, Top
  <2> QED  BY <2>2, <2>3 DEF FrameOK, Known
<1>2. CASE memo[k] = FALSE
  <2>1. k \notin Meaning  BY <1>2, UnsetAssumption DEF EvalInv, MemoIsMeaning
  <2> QED  BY <1>1, <2>1, MeaningUnfolds
<1>3. CASE k \notin Known
  <2>1. k \notin Meaning  BY <1>3, MeaningUnfolds DEF Known
  <2> QED  BY <1>1, <2>1, MeaningUnfolds
<1>4. CASE OnStack(k)
  <2>1. PICK j \in 1..Depth : stack[j].key = k  BY <1>4 DEF OnStack
  <2> DEFINE C == {stack[i].key : i \in j..Depth}
  <2>2. \A i \in 1..Depth : stack[i].key \in Keys  BY DEF EvalInv, FramesOK, FrameOK, Known
  <2>3. C \in SUBSET Keys  BY <1>1, <2>1, <2>2
  <2>4. ASSUME NEW x \in C PROVE \E d \in deps[x] : d \in C
    <3>1. PICK i \in j..Depth : x = stack[i].key  OBVIOUS
    <3>2. CASE i < Depth
      <4>1. i + 1 \in j..Depth /\ i \in 1..Depth  BY <1>1, <2>1, <3>2
      <4>2. stack[i + 1].key \in deps[x]  BY <3>1, <3>2, <4>1 DEF EvalInv, IsPath
      <4> QED  BY <4>1, <4>2
    <3>3. CASE i = Depth
      <4>1. x = Top.key /\ k \in deps[x]  BY <1>1, <3>1, <3>3 DEF Top
      <4>2. k \in C  BY <1>1, <2>1
      <4> QED  BY <4>1, <4>2
    <3> QED  BY <1>1, <2>1, <3>2, <3>3
  <2>5. Top.key \in C  BY <1>1, <2>1 DEF Top
  <2> QED  BY <2>3, <2>4, <2>5, CyclesAreOff
<1> QED  BY <1>2, <1>3, <1>4 DEF IsOff

\* A flag that has asked all its dependencies, or none because it is killed, decides by itself.
LEMMA DecidedIsMeant ==
    ASSUME EvalInv, Depth > 0, Top.left = {}
    PROVE  (own[Top.key] = "on") = (Top.key \in Meaning)
<1>1. Depth \in Nat \ {0}
  <2>1. stack \in Seq(Frames)  BY DEF EvalInv, EvalTypeOK, Frames
  <2> QED  BY <2>1, LenProperties DEF Depth
<1>2. FrameOK(Top) /\ Top.key \in Keys  BY <1>1 DEF EvalInv, FramesOK, Top, FrameOK, Known
<1>3. ASSUME own[Top.key] = "on" PROVE Top.key \in Meaning
  <2>1. \A d \in deps[Top.key] : memo[d] = TRUE /\ d \in Keys
    BY <1>2, <1>3 DEF FrameOK, EvalInv, EvalTypeOK
  <2>2. deps[Top.key] \subseteq Meaning  BY <2>1, UnsetAssumption DEF EvalInv, MemoIsMeaning
  <2> QED  BY <1>2, <1>3, <2>2, MeaningIsClosed DEF Closed
<1>4. ASSUME Top.key \in Meaning PROVE own[Top.key] = "on"  BY <1>4, MeaningUnfolds
<1> QED  BY <1>3, <1>4

LEMMA StepInv == EvalInv /\ [EvalNext]_evalVars => EvalInv'
<1> SUFFICES ASSUME EvalInv, [EvalNext]_evalVars PROVE EvalInv'  OBVIOUS
<1>1. ASSUME NEW k \in Keys, EvalFlag(k) PROVE EvalInv'
  <2>1. Depth = 0 /\ ~OnStack(k)  BY <1>1 DEF EvalFlag, Depth, OnStack
  <2> QED  BY <1>1, <2>1, CallInv DEF EvalFlag
<1>2. ASSUME NEW k \in Keys, AskDep(k) PROVE EvalInv'
  <2>1. stack \in Seq(Frames)  BY DEF EvalInv, EvalTypeOK, Frames
  <2>2. Depth \in 1..Depth  BY <1>2, <2>1, LenProperties DEF AskDep, Depth
  <2>3. k \in deps[Top.key]  BY <1>2, <2>2 DEF EvalInv, FramesOK, AskDep, FrameOK, Top
  <2> QED  BY <1>2, <2>3, CallInv DEF AskDep
<1>3. ASSUME NEW k \in Keys, DepIsOn(k) PROVE EvalInv'  BY <1>3, DepIsOnInv
<1>4. ASSUME NEW k \in Keys, DepIsOff(k) PROVE EvalInv'
  <2>1. Depth > 0 /\ Return(FALSE) /\ Top.key \notin Meaning  BY <1>4, OffIsMeant DEF DepIsOff
  <2>2. FALSE = (Top.key \in Meaning)  BY <2>1
  <2> QED  BY <2>1, <2>2, ReturnInv
<1>5. ASSUME Decide PROVE EvalInv'  BY <1>5, DecidedIsMeant, ReturnInv DEF Decide
<1>6. ASSUME UNCHANGED evalVars PROVE EvalInv'
  <2>1. UNCHANGED <<own, deps, memo, stack>>  BY <1>6 DEF evalVars
  <2>2. EvalTypeOK' /\ MemoIsMeaning' /\ Depth' = Depth /\ Known' = Known
    BY <2>1, SameMeaning DEF EvalInv, EvalTypeOK, MemoIsMeaning, Depth
  <2> QED  BY <2>1, <2>2 DEF EvalInv, FramesOK, FrameOK, IsPath, NoCycle
<1> QED  BY <1>1, <1>2, <1>3, <1>4, <1>5, <1>6 DEF EvalNext

\* The types of the evaluation.
THEOREM TypesHold == EvalSpec => []EvalTypeOK
<1>1. EvalInv => EvalTypeOK  BY DEF EvalInv
<1> QED  BY <1>1, InitInv, StepInv, PTL DEF EvalSpec

\* Whatever the flags, their dependencies and the order, each result is what the flag means: the
\* cycle guard and the memo of evaluateSet never leave a result that another order would not give.
THEOREM ResultsAreMeanings == EvalSpec => []MemoIsMeaning
<1>1. EvalInv => MemoIsMeaning  BY DEF EvalInv
<1> QED  BY <1>1, InitInv, StepInv, PTL DEF EvalSpec

----------------------------------------------------------------------------
(* Media: the calls                                                        *)

\* What a call may stand at.
MediaTasks ==
    {New, Failed}
    \cup [op : {"completeUpload"}, m : Media, key : {ByHash}, at : {"dedup", "exists", "put", "mark", "told"}]
    \cup [op : {"streamUpload"}, m : Media, key : Media, at : {"stream", "mark", "told"}]
    \cup [op : {"purge"}, m : Media, key : ObjectKeys \cup {NoKey}, at : {"claim", "row", "count", "blob", "told"}]
    \cup [op : {"transcode"}, m : Media, at : {"reread", "told"}]
    \cup [op : Uploads \cup {"purge", "transcode"}, at : {"over"}]

MediaTyped ==
    /\ MediaTypeOK
    /\ task \in [Tasks -> MediaTasks]
    /\ failures \in Nat
    /\ \A t \in Tasks : Under(t, "streamUpload") => task[t].key = task[t].m

MediaCall(t) == IsUpload(t) \/ Under(t, "purge") \/ Under(t, "transcode")

\* Its purge is past the row.
Purges(t) == Under(t, "purge") /\ task[t].at \in {"count", "blob", "told"}

----------------------------------------------------------------------------
(* Media: what every step keeps                                            *)

\* An upload that meets a purge of its row or its key, two uploads of one row, and two calls of one
\* row are all remembered.
MeetInv ==
    /\ \A u, t \in Tasks :
          IsUpload(u) /\ Under(t, "purge") /\ (task[u].m = task[t].m \/ task[u].key = task[t].key)
              => task[u].m \in purgedUnder
    /\ \A u, v \in Tasks : u # v /\ IsUpload(u) /\ IsUpload(v) /\ task[u].m = task[v].m => task[u].m \in restarted
    /\ \A u, v \in Tasks : u # v /\ MediaCall(u) /\ MediaCall(v) /\ task[u].m = task[v].m => task[u].m \in busy

KeysOfRows ==
    \A m \in Media : /\ objects[m].key \in {m, ByHash, NoKey}
                     /\ IsReady(m) => objects[m].key # NoKey
                     /\ objects[m].status \in {"absent", "pending"} => objects[m].key = NoKey

CallsHaveRows == \A t \in Tasks : MediaCall(t) => objects[task[t].m].status # "absent"

\* What a call knows of its row, but for the rows whose calls met.
UploadsHaveRows  == \A u \in Tasks : IsUpload(u) /\ task[u].m \notin purgedUnder => IsRow(task[u].m)
UploadsMakeReady == \A u \in Tasks : IsUpload(u) /\ ~At(u, "told") /\ task[u].m \notin restarted => ~IsReady(task[u].m)
PurgesKnowTheKey == \A t \in Tasks : (At(t, "claim") \/ At(t, "row")) /\ task[t].m \notin purgedUnder /\ IsRow(task[t].m)
                                         => objects[task[t].m].key = task[t].key
PurgesDelete     == \A t \in Tasks : /\ Purges(t) => objects[task[t].m].status = "deleted"
                                     /\ At(t, "count") \/ At(t, "blob") => task[t].key # NoKey

RowInv == KeysOfRows /\ CallsHaveRows /\ UploadsHaveRows /\ UploadsMakeReady /\ PurgesKnowTheKey /\ PurgesDelete

\* The bytes under a key are needed still.
Held(k) ==
    \/ \E m \in Media : IsReady(m) /\ objects[m].key = k
    \/ \E u \in Tasks : At(u, "mark") /\ task[u].key = k
    \/ \E t \in Tasks : (At(t, "count") \/ At(t, "blob")) /\ task[t].key = k

Excused == purgedUnder \cup restarted \cup trusting

\* An upload that is about to mark its row has its bytes stored, and so has a row that is ready; a row
\* that shares the key a purge is about to delete was uploaded to meanwhile.
MarksHaveBytes == \A u \in Tasks : At(u, "mark") /\ task[u].m \notin Excused => task[u].key \in blobs
SharedIsMet    == \A t \in Tasks, n \in Media :
                      At(t, "blob") /\ IsRow(n) /\ objects[n].key = task[t].key => n \in purgedUnder
ReadyHasBytes  == \A m \in Media \ Excused : IsReady(m) => objects[m].key \in blobs
BytesAreHeld   == failures = 0 /\ purgedUnder = {} /\ restarted = {} => \A k \in blobs : Held(k)

BytesInv == MarksHaveBytes /\ SharedIsMet /\ ReadyHasBytes /\ BytesAreHeld

\* A call that is alone on its row finds it as it left it, and the last event is that of the last call.
EventOf(m) ==
    /\ IsReady(m) /\ (\A u \in Tasks : IsUpload(u) /\ task[u].m = m => ~At(u, "told"))
           => fileEvent[m] \in {"uploaded", "transcoded"}
    /\ objects[m].status = "deleted" /\ (\A t \in Tasks : Purges(t) => task[t].m # m) => fileEvent[m] = "deleted"
    /\ \A t \in Tasks : MediaCall(t) /\ ~Purges(t) /\ task[t].m = m => IsRow(m)
    /\ \A u \in Tasks : IsUpload(u) /\ At(u, "told") /\ task[u].m = m => IsReady(m)

EventInv == failures = 0 => \A m \in Media \ busy : EventOf(m)

MediaInv == MediaTyped /\ MeetInv /\ RowInv /\ BytesInv /\ EventInv

----------------------------------------------------------------------------
(* Media: what a step leaves of the calls                                  *)

\* What is known of a call by where it stands.
LEMMA MediaPlaces ==
    ASSUME MediaTyped, NEW t \in Tasks
    PROVE  /\ task[t] = New => ~MediaCall(t)
           /\ At(t, "dedup") \/ At(t, "exists") \/ At(t, "put") => Under(t, "completeUpload")
           /\ At(t, "stream") => Under(t, "streamUpload")
           /\ At(t, "mark") => IsUpload(t)
           /\ At(t, "claim") \/ At(t, "row") \/ At(t, "count") \/ At(t, "blob") => Under(t, "purge")
           /\ At(t, "reread") => Under(t, "transcode")
           /\ At(t, "told") => MediaCall(t)
           /\ IsUpload(t) <=> Under(t, "completeUpload") \/ Under(t, "streamUpload")
           /\ IsUpload(t) => /\ task[t].at \in {"dedup", "exists", "put", "stream", "mark", "told"}
                             /\ task[t].m \in Media /\ task[t].key \in {task[t].m, ByHash}
           /\ Under(t, "completeUpload") => task[t].key = ByHash
           /\ Under(t, "purge") => /\ task[t].at \in {"claim", "row", "count", "blob", "told"}
                                   /\ task[t].m \in Media /\ task[t].key \in ObjectKeys \cup {NoKey}
           /\ Under(t, "transcode") => task[t].m \in Media /\ task[t].at \in {"reread", "told"}
<1>1. task[t] \in MediaTasks  BY DEF MediaTyped
<1>2. Under(t, "streamUpload") => task[t].key = task[t].m  BY DEF MediaTyped
<1>3. IsUpload(t) <=> Under(t, "completeUpload") \/ Under(t, "streamUpload")
    BY DEF IsUpload, Uploads
<1>4. CASE task[t] \in {New, Failed}  BY <1>3, <1>4 DEF New, Failed, At, Under, MediaCall
<1>5. CASE task[t] \in [op : {"completeUpload"}, m : Media, key : {ByHash}, at : {"dedup", "exists", "put", "mark", "told"}]
    BY <1>3, <1>5 DEF New, At, Under, MediaCall
<1>6. CASE task[t] \in [op : {"streamUpload"}, m : Media, key : Media, at : {"stream", "mark", "told"}]
    BY <1>2, <1>3, <1>6 DEF New, At, Under, MediaCall
<1>7. CASE task[t] \in [op : {"purge"}, m : Media, key : ObjectKeys \cup {NoKey}, at : {"claim", "row", "count", "blob", "told"}]
    BY <1>3, <1>7 DEF New, At, Under, MediaCall
<1>8. CASE task[t] \in [op : {"transcode"}, m : Media, at : {"reread", "told"}]
    BY <1>3, <1>8 DEF New, At, Under, MediaCall
<1>9. CASE task[t] \in [op : Uploads \cup {"purge", "transcode"}, at : {"over"}]
    BY <1>3, <1>9 DEF New, At, Under, MediaCall
<1> QED BY <1>1, <1>4, <1>5, <1>6, <1>7, <1>8, <1>9 DEF MediaTasks

\* What a step of t that stays under way leaves of the calls.
MediaMoves(t, p) ==
    /\ task'[t].at = p
    /\ \A u \in Tasks :
          /\ IsUpload(u)' <=> IsUpload(u)
          /\ Under(u, "purge")' <=> Under(u, "purge")
          /\ Under(u, "streamUpload")' <=> Under(u, "streamUpload")
          /\ MediaCall(u)' <=> MediaCall(u)
          /\ MediaCall(u) => task'[u].m = task[u].m /\ task'[u].op = task[u].op
          /\ IsUpload(u) \/ Under(u, "purge") => task'[u].key = task[u].key
          /\ u # t => task'[u] = task[u]

LEMMA MediaGoes ==
    ASSUME MediaTyped, NEW t \in Tasks, NEW p, Goes(t, p),
           \/ At(t, "dedup") /\ p \in {"exists", "mark"}
           \/ At(t, "exists") /\ p \in {"mark", "put"}
           \/ (At(t, "put") \/ At(t, "stream")) /\ p = "mark"
           \/ At(t, "mark") /\ p = "told"
           \/ At(t, "claim") /\ p = "row"
           \/ At(t, "row") /\ p \in {"told", "count"}
           \/ At(t, "count") /\ p \in {"blob", "told"}
           \/ At(t, "blob") /\ p = "told"
           \/ At(t, "reread") /\ p = "told"
    PROVE  MediaMoves(t, p) /\ task' \in [Tasks -> MediaTasks] /\ MediaCall(t)
<1>1. task \in [Tasks -> MediaTasks] /\ task[t] \in MediaTasks  BY DEF MediaTyped
<1>2. MediaCall(t) /\ p \in {"exists", "mark", "put", "told", "row", "count", "blob"}
    BY MediaPlaces DEF MediaCall, IsUpload, Uploads
<1>3. task' = [task EXCEPT ![t] = [task[t] EXCEPT !.at = p]]  BY DEF Goes
<1>4. task'[t] = [task[t] EXCEPT !.at = p] /\ \A u \in Tasks \ {t} : task'[u] = task[u]
    BY <1>1, <1>3
<1>5. task'[t] \in MediaTasks
  <2>1. CASE Under(t, "completeUpload")
    <3>1. task[t] \in [op : {"completeUpload"}, m : Media, key : {ByHash}, at : {"dedup", "exists", "put", "mark", "told"}]
        BY <1>1, <2>1 DEF MediaTasks, Under, New, Failed
    <3>2. p \in {"exists", "mark", "put", "told"}  BY <2>1, MediaPlaces DEF At, Under
    <3> QED BY <1>4, <3>1, <3>2 DEF MediaTasks
  <2>2. CASE Under(t, "streamUpload")
    <3>1. task[t] \in [op : {"streamUpload"}, m : Media, key : Media, at : {"stream", "mark", "told"}]
        BY <1>1, <2>2 DEF MediaTasks, Under, New, Failed
    <3>2. p \in {"mark", "told"}  BY <2>2, MediaPlaces DEF At, Under
    <3> QED BY <1>4, <3>1, <3>2 DEF MediaTasks
  <2>3. CASE Under(t, "purge")
    <3>1. task[t] \in [op : {"purge"}, m : Media, key : ObjectKeys \cup {NoKey}, at : {"claim", "row", "count", "blob", "told"}]
        BY <1>1, <2>3 DEF MediaTasks, Under, New, Failed, Uploads
    <3>2. p \in {"row", "count", "blob", "told"}  BY <2>3, MediaPlaces DEF At, Under
    <3> QED BY <1>4, <3>1, <3>2 DEF MediaTasks
  <2>4. CASE Under(t, "transcode")
    <3>1. task[t] \in [op : {"transcode"}, m : Media, at : {"reread", "told"}]
        BY <1>1, <2>4 DEF MediaTasks, Under, New, Failed, Uploads
    <3>2. p = "told"  BY <2>4, MediaPlaces DEF At, Under
    <3> QED BY <1>4, <3>1, <3>2 DEF MediaTasks
  <2> QED BY <1>2, <2>1, <2>2, <2>3, <2>4, MediaPlaces DEF MediaCall
<1>6. task' \in [Tasks -> MediaTasks]  BY <1>1, <1>3, <1>4, <1>5
<1>7. task'[t].at = p /\ task'[t].op = task[t].op
      /\ task'[t].m = task[t].m /\ (IsUpload(t) \/ Under(t, "purge") => task'[t].key = task[t].key)
    BY <1>1, <1>2, <1>4 DEF MediaTasks, MediaCall, IsUpload, Under, New, Failed, Uploads
<1>8. MediaMoves(t, p)
  <2> SUFFICES ASSUME NEW u \in Tasks
               PROVE  /\ IsUpload(u)' <=> IsUpload(u)
                      /\ Under(u, "purge")' <=> Under(u, "purge")
                      /\ Under(u, "streamUpload")' <=> Under(u, "streamUpload")
                      /\ MediaCall(u)' <=> MediaCall(u)
                      /\ MediaCall(u) => task'[u].m = task[u].m /\ task'[u].op = task[u].op
                      /\ IsUpload(u) \/ Under(u, "purge") => task'[u].key = task[u].key
                      /\ u # t => task'[u] = task[u]
      BY <1>7 DEF MediaMoves
  <2>1. CASE u = t  BY <1>2, <1>7, <2>1 DEF MediaCall, IsUpload, Under
  <2>2. CASE u # t  BY <1>4, <2>2 DEF MediaCall, IsUpload, Under
  <2> QED BY <2>1, <2>2
<1> QED BY <1>2, <1>6, <1>8

\* What a step leaves of the calls that ends t, or that it fails with.
MediaStops(t) ==
    /\ ~MediaCall(t)' /\ ~IsUpload(t)' /\ ~Under(t, "purge")' /\ ~Under(t, "streamUpload")' /\ task'[t].at \in {"over", "failed"}
    /\ \A u \in Tasks \ {t} : task'[u] = task[u]

LEMMA MediaEnds ==
    ASSUME MediaTyped, NEW t \in Tasks, MediaCall(t), Ends(t) \/ Fails(t)
    PROVE  MediaStops(t) /\ task' \in [Tasks -> MediaTasks]
<1>1. task \in [Tasks -> MediaTasks] /\ task[t] \in MediaTasks  BY DEF MediaTyped
<1>2. task[t].op \in Uploads \cup {"purge", "transcode"}  BY DEF MediaCall, IsUpload, Under
<1>3. CASE Ends(t)
  <2>1. task' = [task EXCEPT ![t] = [op |-> task[t].op, at |-> "over"]]  BY <1>3 DEF Ends
  <2>2. [op |-> task[t].op, at |-> "over"] \in MediaTasks  BY <1>2 DEF MediaTasks
  <2>3. task'[t].at = "over" /\ (\A u \in Tasks \ {t} : task'[u] = task[u]) /\ task' \in [Tasks -> MediaTasks]
      BY <1>1, <2>1, <2>2
  <2> QED BY <2>3 DEF MediaStops, MediaCall, IsUpload, Under
<1>4. CASE Fails(t)
  <2>1. task' = [task EXCEPT ![t] = Failed]  BY <1>4 DEF Fails
  <2>2. Failed \in MediaTasks  BY DEF MediaTasks
  <2>3. task'[t] = Failed /\ (\A u \in Tasks \ {t} : task'[u] = task[u]) /\ task' \in [Tasks -> MediaTasks]
      BY <1>1, <2>1, <2>2
  <2> QED BY <2>3 DEF MediaStops, MediaCall, IsUpload, Under, Failed
<1> QED BY <1>3, <1>4

\* Only a call under way can fail.
LEMMA MediaFails ==
    ASSUME MediaTyped, NEW t \in Tasks, Fails(t)
    PROVE  MediaCall(t) /\ failures' \in Nat /\ failures' # 0
<1>1. task[t] \in MediaTasks /\ failures \in Nat  BY DEF MediaTyped
<1>2. task[t].op \in Uploads \cup {"purge", "transcode"}
    BY <1>1 DEF Fails, MediaTasks, New, Failed, Uploads
<1> QED BY <1>1, <1>2 DEF Fails, MediaCall, IsUpload, Under

\* What a step leaves of the calls that begins t.
MediaStarts(t, rec) ==
    /\ task[t] = New /\ ~MediaCall(t) /\ task'[t] = rec
    /\ \A u \in Tasks \ {t} : task'[u] = task[u]

LEMMA MediaBegins ==
    ASSUME MediaTyped, NEW t \in Tasks, NEW rec \in MediaTasks, Begins(t, rec)
    PROVE  MediaStarts(t, rec) /\ task' \in [Tasks -> MediaTasks]
<1>1. task \in [Tasks -> MediaTasks]  BY DEF MediaTyped
<1>2. task[t] = New /\ task' = [task EXCEPT ![t] = rec]  BY DEF Begins
<1> QED BY <1>1, <1>2, MediaPlaces DEF MediaStarts

\* The rows that are under way, in the words of the calls.
LEMMA OnRowCalls ==
    ASSUME NEW m
    PROVE  /\ OnRow(m) <=> \E t \in Tasks : MediaCall(t) /\ task[t].m = m
           /\ Purging(m) <=> \E t \in Tasks : Under(t, "purge") /\ task[t].m = m
    BY DEF OnRow, MediaCall, IsUpload, Purging

----------------------------------------------------------------------------
(* Media: what goes on                                                     *)

\* A step of t after its first: no other call moves, and t is no more than it was.
MediaGoesOn(t) ==
    /\ \A u \in Tasks \ {t} : task'[u] = task[u]
    /\ IsUpload(t)' => IsUpload(t) /\ ~At(t, "told")
    /\ Under(t, "purge")' => Under(t, "purge")
    /\ MediaCall(t)' => MediaCall(t) /\ task'[t].m = task[t].m
    /\ IsUpload(t)' \/ Under(t, "purge")' => task'[t].key = task[t].key

LEMMA MediaGoingOn ==
    ASSUME MediaTyped, NEW t \in Tasks, MediaCall(t), ~At(t, "told"), (\E p : MediaMoves(t, p)) \/ MediaStops(t)
    PROVE  MediaGoesOn(t)
<1>1. CASE MediaStops(t)  BY <1>1 DEF MediaStops, MediaGoesOn
<1>2. CASE \E p : MediaMoves(t, p)  BY <1>2 DEF MediaMoves, MediaGoesOn
<1> QED BY <1>1, <1>2

LEMMA MediaEnding ==
    ASSUME MediaTyped, NEW t \in Tasks, MediaStops(t)
    PROVE  MediaGoesOn(t)
    BY DEF MediaStops, MediaGoesOn

\* The calls at a place, after such a step.
LEMMA OthersStand ==
    ASSUME NEW t, MediaGoesOn(t), NEW u \in Tasks \ {t}
    PROVE  /\ \A p : At(u, p)' <=> At(u, p)
           /\ IsUpload(u)' <=> IsUpload(u)
           /\ Under(u, "purge")' <=> Under(u, "purge")
           /\ MediaCall(u)' <=> MediaCall(u)
           /\ Purges(u)' <=> Purges(u)
           /\ task'[u].m = task[u].m /\ task'[u].key = task[u].key /\ task'[u].op = task[u].op
    BY DEF MediaGoesOn, At, Under, IsUpload, MediaCall, Purges

LEMMA MeetKept ==
    ASSUME MeetInv, NEW t \in Tasks, MediaGoesOn(t),
           purgedUnder \subseteq purgedUnder', restarted \subseteq restarted', busy \subseteq busy'
    PROVE  MeetInv'
<1>1. \A u, v \in Tasks : (IsUpload(u) /\ Under(v, "purge"))' /\ (task'[u].m = task'[v].m \/ task'[u].key = task'[v].key)
          => task'[u].m \in purgedUnder'
    BY OthersStand DEF MeetInv, MediaGoesOn, MediaCall
<1>2. \A u, v \in Tasks : u # v /\ IsUpload(u)' /\ IsUpload(v)' /\ task'[u].m = task'[v].m => task'[u].m \in restarted'
    BY OthersStand DEF MeetInv, MediaGoesOn, MediaCall
<1>3. \A u, v \in Tasks : u # v /\ MediaCall(u)' /\ MediaCall(v)' /\ task'[u].m = task'[v].m => task'[u].m \in busy'
    BY OthersStand DEF MeetInv, MediaGoesOn
<1> QED BY <1>1, <1>2, <1>3 DEF MeetInv

\* Rows whose status and key stay.
RowsStay ==
    \A m \in Media : objects'[m].status = objects[m].status /\ objects'[m].key = objects[m].key

LEMMA RowsStand ==
    ASSUME RowsStay, NEW m \in Media
    PROVE  (IsRow(m)' <=> IsRow(m)) /\ (IsReady(m)' <=> IsReady(m))
    BY DEF RowsStay, IsRow, IsReady

\* But for the step that deletes a row and the one that marks it.
LEMMA RowsKept ==
    ASSUME MediaTyped, RowInv, NEW t \in Tasks, MediaGoesOn(t), RowsStay,
           purgedUnder \subseteq purgedUnder', restarted \subseteq restarted',
           (At(t, "claim") \/ At(t, "row"))' => At(t, "claim") /\ task'[t].m = task[t].m /\ task'[t].key = task[t].key,
           Purges(t)' => Purges(t),
           (At(t, "count") \/ At(t, "blob"))' => (At(t, "count") \/ At(t, "blob")) /\ task'[t].key = task[t].key
    PROVE  RowInv'
<1>1. \A u \in Tasks : /\ IsUpload(u) \/ Under(u, "purge") \/ MediaCall(u) \/ Purges(u) \/ At(u, "claim") \/ At(u, "row")
                            => task[u].m \in Media
                       /\ IsUpload(u) \/ Purges(u) \/ At(u, "claim") \/ At(u, "row") => MediaCall(u)
    BY MediaPlaces DEF Purges, MediaCall
<1>2. KeysOfRows'  BY RowsStand DEF RowInv, RowsStay, KeysOfRows
<1>3. CallsHaveRows'  BY <1>1, OthersStand DEF RowInv, RowsStay, CallsHaveRows, MediaGoesOn
<1>4. UploadsHaveRows'
    BY <1>1, OthersStand, RowsStand DEF RowInv, UploadsHaveRows, MediaGoesOn, MediaCall
<1>5. UploadsMakeReady'
    BY <1>1, OthersStand, RowsStand DEF RowInv, UploadsMakeReady, MediaGoesOn, MediaCall
<1>6. PurgesKnowTheKey'  BY <1>1, OthersStand, RowsStand DEF RowInv, PurgesKnowTheKey, RowsStay
<1>7. PurgesDelete'
  <2> SUFFICES ASSUME NEW u \in Tasks
               PROVE  /\ Purges(u)' => objects'[task'[u].m].status = "deleted"
                      /\ At(u, "count")' \/ At(u, "blob")' => task'[u].key # NoKey
      BY DEF PurgesDelete
  <2>1. Purges(u) => objects[task[u].m].status = "deleted" /\ task[u].m \in Media
      BY <1>1 DEF RowInv, PurgesDelete
  <2>2. At(u, "count") \/ At(u, "blob") => task[u].key # NoKey /\ Purges(u)
      BY MediaPlaces DEF RowInv, PurgesDelete, Purges, At
  <2>3. CASE u = t
    <3>1. Purges(t)' => Purges(t) /\ task'[t].m = task[t].m  BY DEF MediaGoesOn, Purges, MediaCall
    <3> QED BY <2>1, <2>2, <2>3, <3>1 DEF RowsStay
  <2>4. CASE u # t  BY <2>1, <2>2, <2>4, OthersStand DEF RowsStay
  <2> QED BY <2>3, <2>4
<1> QED BY <1>2, <1>3, <1>4, <1>5, <1>6, <1>7 DEF RowInv

\* Nothing is told, and no status changes.
LEMMA EventsKept ==
    ASSUME MediaTyped, EventInv, NEW t \in Tasks, MediaGoesOn(t), RowsStay, MediaCall(t), ~At(t, "told"),
           UNCHANGED <<failures, fileEvent>>, busy \subseteq busy',
           At(t, "told")' => ~IsUpload(t)', Purges(t) => Purges(t)'
    PROVE  EventInv'
<1> SUFFICES ASSUME failures = 0, NEW m \in Media \ busy' PROVE EventOf(m)'  BY DEF EventInv
<1>1. EventOf(m)  BY DEF EventInv
<1>2. \A u \in Tasks : IsUpload(u) \/ Purges(u) => MediaCall(u)
    BY MediaPlaces DEF Purges, MediaCall
<1>3. \A u \in Tasks : Purges(u) => Purges(u)' /\ task'[u].m = task[u].m
    BY <1>2, OthersStand DEF MediaGoesOn, MediaCall, Purges
<1>4. IsReady(m)' /\ (\A u \in Tasks : IsUpload(u)' /\ task'[u].m = m => ~At(u, "told")') => fileEvent'[m] \in {"uploaded", "transcoded"}
    BY <1>1, OthersStand, RowsStand DEF EventOf
<1>5. objects'[m].status = "deleted" /\ (\A u \in Tasks : Purges(u)' => task'[u].m # m) => fileEvent'[m] = "deleted"
    BY <1>1, <1>3 DEF EventOf, RowsStay
<1>6. \A u \in Tasks : MediaCall(u)' /\ ~Purges(u)' /\ task'[u].m = m => IsRow(m)'
    BY <1>1, <1>3, OthersStand, RowsStand DEF EventOf, MediaGoesOn
<1>7. \A u \in Tasks : IsUpload(u)' /\ At(u, "told")' /\ task'[u].m = m => IsReady(m)'
    BY <1>1, OthersStand, RowsStand DEF EventOf
<1> QED BY <1>4, <1>5, <1>6, <1>7 DEF EventOf

----------------------------------------------------------------------------
(* Media: the steps of a call                                              *)

LEMMA FindByHashKeeps == ASSUME MediaInv, NEW t \in Tasks, FindByHash(t) PROVE MediaInv'
<1> USE DEF MediaInv
<1>1. (MediaMoves(t, "exists") \/ MediaMoves(t, "mark")) /\ task' \in [Tasks -> MediaTasks] /\ MediaCall(t)
  <2>1. CASE Goes(t, "exists")  BY <2>1, MediaGoes DEF FindByHash
  <2>2. CASE Goes(t, "mark")  BY <2>2, MediaGoes DEF FindByHash
  <2> QED BY <2>1, <2>2 DEF FindByHash
<1>2. MediaGoesOn(t) /\ ~At(t, "told")  BY <1>1, MediaGoingOn, MediaPlaces DEF FindByHash, At
<1>3. MediaTypeOK' /\ failures' \in Nat
    BY <1>1, MediaPlaces DEF FindByHash, mediaVars, MediaTyped, MediaTypeOK, MediaCall, ObjectKeys
<1>4. \A u \in Tasks : Under(u, "streamUpload")' => task'[u].key = task'[u].m
    BY <1>1 DEF MediaMoves, MediaTyped, Under, IsUpload, Uploads
<1>5. MediaTyped'  BY <1>1, <1>3, <1>4 DEF MediaTyped
<1>6. MeetInv'  BY <1>2, MeetKept DEF FindByHash, mediaVars
<1>7. RowInv' /\ RowsStay
  <2>1. RowsStay  BY DEF FindByHash, mediaVars, RowsStay
  <2>2. /\ (At(t, "claim") \/ At(t, "row"))' => At(t, "claim") /\ task'[t].m = task[t].m /\ task'[t].key = task[t].key
        /\ Purges(t)' => Purges(t)
        /\ (At(t, "count") \/ At(t, "blob"))' => (At(t, "count") \/ At(t, "blob")) /\ task'[t].key = task[t].key
      BY <1>1, MediaPlaces DEF FindByHash, MediaMoves, Purges, MediaCall, At
  <2>3. purgedUnder \subseteq purgedUnder' /\ restarted \subseteq restarted'
      BY DEF FindByHash, mediaVars
  <2> QED BY <1>2, <2>1, <2>2, <2>3, RowsKept
<1>8. BytesInv'
  <2>1. MarksHaveBytes'
    <3> SUFFICES ASSUME NEW u \in Tasks, At(u, "mark")', task'[u].m \notin Excused' PROVE task'[u].key \in blobs'
        BY DEF MarksHaveBytes
    <3>1. CASE u = t
      <4>1. task[t].key = ByHash /\ task'[t].key = task[t].key /\ task'[t].m = task[t].m
          BY <1>1, MediaPlaces DEF FindByHash, MediaMoves, MediaCall
      <4>2. Goes(t, "exists") => ~At(t, "mark")'  BY MediaGoes DEF FindByHash, MediaMoves, At
      <4>3. ByHash \notin blobs => trusting' = trusting \cup {task[t].m}
          BY <3>1, <4>2 DEF FindByHash
      <4> QED BY <3>1, <4>1, <4>3 DEF FindByHash, Excused
    <3>2. CASE u # t  BY <1>2, <3>2, OthersStand DEF BytesInv, MarksHaveBytes, Excused, FindByHash
    <3> QED BY <3>1, <3>2
  <2>2. SharedIsMet'
      BY <1>1, <1>2, <1>7, OthersStand, RowsStand, MediaPlaces DEF FindByHash, MediaMoves, BytesInv, SharedIsMet, Excused, MeetInv, RowInv, At, mediaVars
  <2>3. ReadyHasBytes'
      BY <1>1, <1>2, <1>7, OthersStand, RowsStand, MediaPlaces DEF FindByHash, MediaMoves, BytesInv, ReadyHasBytes, Excused, MeetInv, RowInv, At, mediaVars
  <2>4. BytesAreHeld'
      BY <1>1, <1>2, <1>7, OthersStand, RowsStand, MediaPlaces DEF FindByHash, MediaMoves, BytesInv, BytesAreHeld, Excused, MeetInv, RowInv, At, mediaVars, Held
  <2> QED BY <2>1, <2>2, <2>3, <2>4 DEF BytesInv
<1>9. EventInv'
  <2>1. /\ At(t, "told")' => ~IsUpload(t)'
        /\ Purges(t) => Purges(t)'
        /\ ~At(t, "told")
      BY <1>1, MediaPlaces DEF FindByHash, MediaMoves, Purges, At, Under, MediaCall
  <2> QED BY <1>1, <1>2, <1>7, <2>1, EventsKept DEF FindByHash, mediaVars
<1> QED BY <1>5, <1>6, <1>7, <1>8, <1>9

LEMMA ExistsKeeps == ASSUME MediaInv, NEW t \in Tasks, Exists(t) PROVE MediaInv'
<1> USE DEF MediaInv
<1>1. (MediaMoves(t, "mark") \/ MediaMoves(t, "put")) /\ task' \in [Tasks -> MediaTasks] /\ MediaCall(t)
  <2>1. CASE Goes(t, "mark")  BY <2>1, MediaGoes DEF Exists
  <2>2. CASE Goes(t, "put")  BY <2>2, MediaGoes DEF Exists
  <2> QED BY <2>1, <2>2 DEF Exists
<1>2. MediaGoesOn(t) /\ ~At(t, "told")  BY <1>1, MediaGoingOn, MediaPlaces DEF Exists, At
<1>3. MediaTypeOK' /\ failures' \in Nat  BY <1>1 DEF Exists, mediaVars, MediaTyped, MediaTypeOK
<1>4. \A u \in Tasks : Under(u, "streamUpload")' => task'[u].key = task'[u].m
    BY <1>1 DEF MediaMoves, MediaTyped, Under, IsUpload, Uploads
<1>5. MediaTyped'  BY <1>1, <1>3, <1>4 DEF MediaTyped
<1>6. MeetInv'  BY <1>2, MeetKept DEF Exists, mediaVars
<1>7. RowInv' /\ RowsStay
  <2>1. RowsStay  BY DEF Exists, mediaVars, RowsStay
  <2>2. /\ (At(t, "claim") \/ At(t, "row"))' => At(t, "claim") /\ task'[t].m = task[t].m /\ task'[t].key = task[t].key
        /\ Purges(t)' => Purges(t)
        /\ (At(t, "count") \/ At(t, "blob"))' => (At(t, "count") \/ At(t, "blob")) /\ task'[t].key = task[t].key
      BY <1>1, MediaPlaces DEF Exists, MediaMoves, Purges, MediaCall, At
  <2>3. purgedUnder \subseteq purgedUnder' /\ restarted \subseteq restarted'
      BY DEF Exists, mediaVars
  <2> QED BY <1>2, <2>1, <2>2, <2>3, RowsKept
<1>8. BytesInv'
  <2>1. MarksHaveBytes'
    <3> SUFFICES ASSUME NEW u \in Tasks, At(u, "mark")', task'[u].m \notin Excused' PROVE task'[u].key \in blobs'
        BY DEF MarksHaveBytes
    <3>1. CASE u = t
      <4>1. task[t].key = ByHash /\ task'[t].key = task[t].key
          BY <1>1, MediaPlaces DEF Exists, MediaMoves, MediaCall
      <4>2. Goes(t, "put") => ~At(t, "mark")'  BY MediaGoes DEF Exists, MediaMoves, At
      <4> QED BY <3>1, <4>1, <4>2 DEF Exists, mediaVars
    <3>2. CASE u # t
        BY <1>2, <3>2, OthersStand DEF BytesInv, MarksHaveBytes, Excused, Exists, mediaVars
    <3> QED BY <3>1, <3>2
  <2>2. SharedIsMet'
      BY <1>1, <1>2, <1>7, OthersStand, RowsStand, MediaPlaces DEF Exists, MediaMoves, BytesInv, SharedIsMet, Excused, MeetInv, RowInv, At, mediaVars
  <2>3. ReadyHasBytes'
      BY <1>1, <1>2, <1>7, OthersStand, RowsStand, MediaPlaces DEF Exists, MediaMoves, BytesInv, ReadyHasBytes, Excused, MeetInv, RowInv, At, mediaVars
  <2>4. BytesAreHeld'
      BY <1>1, <1>2, <1>7, OthersStand, RowsStand, MediaPlaces DEF Exists, MediaMoves, BytesInv, BytesAreHeld, Excused, MeetInv, RowInv, At, mediaVars, Held
  <2> QED BY <2>1, <2>2, <2>3, <2>4 DEF BytesInv
<1>9. EventInv'
  <2>1. /\ At(t, "told")' => ~IsUpload(t)'
        /\ Purges(t) => Purges(t)'
        /\ ~At(t, "told")
      BY <1>1, MediaPlaces DEF Exists, MediaMoves, Purges, At, Under, MediaCall
  <2> QED BY <1>1, <1>2, <1>7, <2>1, EventsKept DEF Exists, mediaVars
<1> QED BY <1>5, <1>6, <1>7, <1>8, <1>9

LEMMA PutObjectKeeps == ASSUME MediaInv, NEW t \in Tasks, PutObject(t) PROVE MediaInv'
<1> USE DEF MediaInv
<1>1. (MediaMoves(t, "mark")) /\ task' \in [Tasks -> MediaTasks] /\ MediaCall(t)
  <2>1. CASE Goes(t, "mark")  BY <2>1, MediaGoes DEF PutObject
  <2> QED BY <2>1 DEF PutObject
<1>2. MediaGoesOn(t) /\ ~At(t, "told")  BY <1>1, MediaGoingOn, MediaPlaces DEF PutObject, At
<1>3. MediaTypeOK' /\ failures' \in Nat
    BY <1>1, MediaPlaces DEF PutObject, mediaVars, MediaTyped, MediaTypeOK, MediaCall, ObjectKeys
<1>4. \A u \in Tasks : Under(u, "streamUpload")' => task'[u].key = task'[u].m
    BY <1>1 DEF MediaMoves, MediaTyped, Under, IsUpload, Uploads
<1>5. MediaTyped'  BY <1>1, <1>3, <1>4 DEF MediaTyped
<1>6. MeetInv'  BY <1>2, MeetKept DEF PutObject, mediaVars
<1>7. RowInv' /\ RowsStay
  <2>1. RowsStay  BY DEF PutObject, mediaVars, RowsStay
  <2>2. /\ (At(t, "claim") \/ At(t, "row"))' => At(t, "claim") /\ task'[t].m = task[t].m /\ task'[t].key = task[t].key
        /\ Purges(t)' => Purges(t)
        /\ (At(t, "count") \/ At(t, "blob"))' => (At(t, "count") \/ At(t, "blob")) /\ task'[t].key = task[t].key
      BY <1>1, MediaPlaces DEF PutObject, MediaMoves, Purges, MediaCall, At
  <2>3. purgedUnder \subseteq purgedUnder' /\ restarted \subseteq restarted'
      BY DEF PutObject, mediaVars
  <2> QED BY <1>2, <2>1, <2>2, <2>3, RowsKept
<1>8. BytesInv'
  <2>1. MarksHaveBytes'
      BY <1>1, <1>2, <1>7, OthersStand, RowsStand, MediaPlaces DEF PutObject, MediaMoves, BytesInv, MarksHaveBytes, Excused, MeetInv, RowInv, At, mediaVars
  <2>2. SharedIsMet'
      BY <1>1, <1>2, <1>7, OthersStand, RowsStand, MediaPlaces DEF PutObject, MediaMoves, BytesInv, SharedIsMet, Excused, MeetInv, RowInv, At, mediaVars
  <2>3. ReadyHasBytes'
      BY <1>1, <1>2, <1>7, OthersStand, RowsStand, MediaPlaces DEF PutObject, MediaMoves, BytesInv, ReadyHasBytes, Excused, MeetInv, RowInv, At, mediaVars
  <2>4. BytesAreHeld'
      BY <1>1, <1>2, <1>7, OthersStand, RowsStand, MediaPlaces DEF PutObject, MediaMoves, BytesInv, BytesAreHeld, Excused, MeetInv, RowInv, At, mediaVars, Held
  <2> QED BY <2>1, <2>2, <2>3, <2>4 DEF BytesInv
<1>9. EventInv'
  <2>1. /\ At(t, "told")' => ~IsUpload(t)'
        /\ Purges(t) => Purges(t)'
        /\ ~At(t, "told")
      BY <1>1, MediaPlaces DEF PutObject, MediaMoves, Purges, At, Under, MediaCall
  <2> QED BY <1>1, <1>2, <1>7, <2>1, EventsKept DEF PutObject, mediaVars
<1> QED BY <1>5, <1>6, <1>7, <1>8, <1>9

LEMMA StreamBreaksKeeps == ASSUME MediaInv, NEW t \in Tasks, StreamBreaks(t) PROVE MediaInv'
<1> USE DEF MediaInv
<1>1. MediaStops(t) /\ task' \in [Tasks -> MediaTasks] /\ MediaCall(t)
  <2>1. MediaCall(t) /\ Ends(t)  BY MediaPlaces DEF StreamBreaks, MediaCall
  <2> QED BY <2>1, MediaEnds DEF StreamBreaks
<1>2. MediaGoesOn(t)  BY <1>1, MediaEnding
<1>3. MediaTypeOK' /\ failures' \in Nat
    BY <1>1, MediaPlaces DEF StreamBreaks, mediaVars, MediaTyped, MediaTypeOK, MediaCall, ObjectKeys
<1>4. \A u \in Tasks : Under(u, "streamUpload")' => task'[u].key = task'[u].m
    BY <1>1 DEF MediaStops, MediaTyped, Under, IsUpload, Uploads
<1>5. MediaTyped'  BY <1>1, <1>3, <1>4 DEF MediaTyped
<1>6. MeetInv'  BY <1>2, MeetKept DEF StreamBreaks, mediaVars
<1>7. RowInv' /\ RowsStay
  <2>1. RowsStay  BY DEF StreamBreaks, mediaVars, RowsStay
  <2>2. /\ (At(t, "claim") \/ At(t, "row"))' => At(t, "claim") /\ task'[t].m = task[t].m /\ task'[t].key = task[t].key
        /\ Purges(t)' => Purges(t)
        /\ (At(t, "count") \/ At(t, "blob"))' => (At(t, "count") \/ At(t, "blob")) /\ task'[t].key = task[t].key
      BY <1>1, MediaPlaces DEF StreamBreaks, MediaStops, Purges, MediaCall, At
  <2>3. purgedUnder \subseteq purgedUnder' /\ restarted \subseteq restarted'
      BY DEF StreamBreaks, mediaVars
  <2> QED BY <1>2, <2>1, <2>2, <2>3, RowsKept
<1>8. BytesInv'
  <2>1. MarksHaveBytes'
    <3> SUFFICES ASSUME NEW u \in Tasks, At(u, "mark")', task'[u].m \notin Excused' PROVE task'[u].key \in blobs'
        BY DEF MarksHaveBytes
    <3>1. u # t  BY <1>1 DEF MediaStops, At
    <3>2. task[u].key \in blobs /\ task'[u] = task[u] /\ task[u].key \in {task[u].m, ByHash} /\ task[u].m # task[t].m
        BY <1>2, <3>1, OthersStand, MediaPlaces DEF BytesInv, MarksHaveBytes, Excused, StreamBreaks, MediaGoesOn
    <3>3. task[t].key = task[t].m /\ task[t].m \in Media
        BY MediaPlaces DEF StreamBreaks, MediaTyped
    <3> QED BY <3>2, <3>3, MediaAssumption DEF StreamBreaks
  <2>2. SharedIsMet'
      BY <1>1, <1>2, <1>7, OthersStand, RowsStand, MediaPlaces DEF StreamBreaks, MediaStops, BytesInv, SharedIsMet, Excused, MeetInv, RowInv, At, mediaVars
  <2>3. ReadyHasBytes'
    <3> SUFFICES ASSUME NEW n \in Media \ Excused', IsReady(n)' PROVE objects'[n].key \in blobs'
        BY DEF ReadyHasBytes
    <3>1. objects[n].key \in blobs /\ objects'[n].key = objects[n].key /\ objects[n].key \in {n, ByHash, NoKey} /\ n # task[t].m
        BY <1>7, RowsStand DEF BytesInv, ReadyHasBytes, Excused, StreamBreaks, RowsStay, RowInv, KeysOfRows
    <3>2. task[t].key = task[t].m /\ task[t].m \in Media
        BY MediaPlaces DEF StreamBreaks, MediaTyped
    <3> QED BY <3>1, <3>2, MediaAssumption DEF StreamBreaks, ObjectKeys
  <2>4. BytesAreHeld'
      BY <1>1, <1>2, <1>7, OthersStand, RowsStand, MediaPlaces DEF StreamBreaks, MediaStops, BytesInv, BytesAreHeld, Excused, MeetInv, RowInv, At, mediaVars, Held
  <2> QED BY <2>1, <2>2, <2>3, <2>4 DEF BytesInv
<1>9. EventInv'
  <2>1. /\ At(t, "told")' => ~IsUpload(t)'
        /\ Purges(t) => Purges(t)'
        /\ ~At(t, "told")
      BY <1>1, MediaPlaces DEF StreamBreaks, MediaStops, Purges, At, Under, MediaCall
  <2> QED BY <1>1, <1>2, <1>7, <2>1, EventsKept DEF StreamBreaks, mediaVars
<1> QED BY <1>5, <1>6, <1>7, <1>8, <1>9

LEMMA ClaimViewOnceKeeps == ASSUME MediaInv, NEW t \in Tasks, ClaimViewOnce(t) PROVE MediaInv'
<1> USE DEF MediaInv
<1>1. (MediaMoves(t, "row") \/ MediaStops(t)) /\ task' \in [Tasks -> MediaTasks] /\ MediaCall(t)
  <2>1. CASE Goes(t, "row")  BY <2>1, MediaGoes DEF ClaimViewOnce
  <2>2. CASE Ends(t)
    <3>1. MediaCall(t)  BY MediaPlaces DEF ClaimViewOnce, MediaCall
    <3> QED BY <2>2, <3>1, MediaEnds
  <2> QED BY <2>1, <2>2 DEF ClaimViewOnce
<1>2. MediaGoesOn(t) /\ ~At(t, "told")  BY <1>1, MediaGoingOn, MediaPlaces DEF ClaimViewOnce, At
<1>3. MediaTypeOK' /\ failures' \in Nat
  <2>1. objects' \in [Media -> [status : {"absent", "pending", "ready", "deleted"}, key : ObjectKeys \cup {NoKey},
                                 once : BOOLEAN, viewed : BOOLEAN]]
    <3>1. objects \in [Media -> [status : {"absent", "pending", "ready", "deleted"}, key : ObjectKeys \cup {NoKey},
                                once : BOOLEAN, viewed : BOOLEAN]] /\ task[t].m \in Media
        BY MediaPlaces DEF MediaTyped, MediaTypeOK, ClaimViewOnce
    <3> QED BY <3>1 DEF ClaimViewOnce
  <2> QED BY <2>1 DEF ClaimViewOnce, MediaTyped, MediaTypeOK
<1>4. \A u \in Tasks : Under(u, "streamUpload")' => task'[u].key = task'[u].m
    BY <1>1 DEF MediaMoves, MediaStops, MediaTyped, Under, IsUpload, Uploads
<1>5. MediaTyped'  BY <1>1, <1>3, <1>4 DEF MediaTyped
<1>6. MeetInv'  BY <1>2, MeetKept DEF ClaimViewOnce, mediaVars
<1>7. RowInv' /\ RowsStay
  <2>1. RowsStay  BY <1>1, MediaPlaces DEF ClaimViewOnce, RowsStay, MediaTyped, MediaTypeOK
  <2>2. /\ (At(t, "claim") \/ At(t, "row"))' => At(t, "claim") /\ task'[t].m = task[t].m /\ task'[t].key = task[t].key
        /\ Purges(t)' => Purges(t)
        /\ (At(t, "count") \/ At(t, "blob"))' => (At(t, "count") \/ At(t, "blob")) /\ task'[t].key = task[t].key
      BY <1>1, MediaPlaces DEF ClaimViewOnce, MediaMoves, MediaStops, Purges, MediaCall, At
  <2>3. purgedUnder \subseteq purgedUnder' /\ restarted \subseteq restarted'
      BY DEF ClaimViewOnce, mediaVars
  <2> QED BY <1>2, <2>1, <2>2, <2>3, RowsKept
<1>8. BytesInv'
  <2>1. MarksHaveBytes'
      BY <1>1, <1>2, <1>7, OthersStand, RowsStand, MediaPlaces DEF ClaimViewOnce, MediaMoves, MediaStops, BytesInv, MarksHaveBytes, Excused, MeetInv, RowInv, At, mediaVars
  <2>2. SharedIsMet'
    <3> SUFFICES ASSUME NEW u \in Tasks, NEW n \in Media, At(u, "blob")', IsRow(n)', objects'[n].key = task'[u].key
                 PROVE  n \in purgedUnder'
        BY DEF SharedIsMet
    <3>1. u # t  BY <1>1 DEF MediaMoves, MediaStops, At
    <3> QED BY <1>2, <1>7, <3>1, OthersStand, RowsStand DEF RowsStay, BytesInv, SharedIsMet, ClaimViewOnce
  <2>3. ReadyHasBytes'
      BY <1>7, RowsStand DEF RowsStay, BytesInv, ReadyHasBytes, Excused, ClaimViewOnce
  <2>4. BytesAreHeld'
    <3> SUFFICES ASSUME failures = 0, purgedUnder = {}, restarted = {}, NEW k \in blobs, Held(k) PROVE Held(k)'
        BY DEF BytesInv, BytesAreHeld, ClaimViewOnce
    <3>1. \A m \in Media : IsReady(m) /\ objects[m].key = k => Held(k)'
        BY <1>7, RowsStand DEF RowsStay, Held
    <3>2. \A u \in Tasks : At(u, "mark") \/ At(u, "count") \/ At(u, "blob") => u # t
        BY DEF ClaimViewOnce, At
    <3> QED BY <1>2, <3>1, <3>2, OthersStand DEF Held
  <2> QED BY <2>1, <2>2, <2>3, <2>4 DEF BytesInv
<1>9. EventInv'
  <2>1. /\ At(t, "told")' => ~IsUpload(t)'
        /\ Purges(t) => Purges(t)'
        /\ ~At(t, "told")
      BY <1>1, MediaPlaces DEF ClaimViewOnce, MediaMoves, MediaStops, Purges, At, Under, MediaCall
  <2> QED BY <1>1, <1>2, <1>7, <2>1, EventsKept DEF ClaimViewOnce, mediaVars
<1> QED BY <1>5, <1>6, <1>7, <1>8, <1>9

LEMMA CountOthersKeeps == ASSUME MediaInv, NEW t \in Tasks, CountOthers(t) PROVE MediaInv'
<1> USE DEF MediaInv
<1>1. (MediaMoves(t, "blob") \/ MediaMoves(t, "told")) /\ task' \in [Tasks -> MediaTasks] /\ MediaCall(t)
  <2>1. CASE Goes(t, "blob")  BY <2>1, MediaGoes DEF CountOthers
  <2>2. CASE Goes(t, "told")  BY <2>2, MediaGoes DEF CountOthers
  <2> QED BY <2>1, <2>2 DEF CountOthers
<1>2. MediaGoesOn(t) /\ ~At(t, "told")  BY <1>1, MediaGoingOn, MediaPlaces DEF CountOthers, At
<1>3. MediaTypeOK' /\ failures' \in Nat  BY <1>1 DEF CountOthers, mediaVars, MediaTyped, MediaTypeOK
<1>4. \A u \in Tasks : Under(u, "streamUpload")' => task'[u].key = task'[u].m
    BY <1>1 DEF MediaMoves, MediaTyped, Under, IsUpload, Uploads
<1>5. MediaTyped'  BY <1>1, <1>3, <1>4 DEF MediaTyped
<1>6. MeetInv'  BY <1>2, MeetKept DEF CountOthers, mediaVars
<1>7. RowInv' /\ RowsStay
  <2>1. RowsStay  BY DEF CountOthers, mediaVars, RowsStay
  <2>2. /\ (At(t, "claim") \/ At(t, "row"))' => At(t, "claim") /\ task'[t].m = task[t].m /\ task'[t].key = task[t].key
        /\ Purges(t)' => Purges(t)
        /\ (At(t, "count") \/ At(t, "blob"))' => (At(t, "count") \/ At(t, "blob")) /\ task'[t].key = task[t].key
      BY <1>1, MediaPlaces DEF CountOthers, MediaMoves, Purges, MediaCall, At
  <2>3. purgedUnder \subseteq purgedUnder' /\ restarted \subseteq restarted'
      BY DEF CountOthers, mediaVars
  <2> QED BY <1>2, <2>1, <2>2, <2>3, RowsKept
<1>8. BytesInv'
  <2>1. MarksHaveBytes'
      BY <1>1, <1>2, <1>7, OthersStand, RowsStand, MediaPlaces DEF CountOthers, MediaMoves, BytesInv, MarksHaveBytes, Excused, MeetInv, RowInv, At, mediaVars
  <2>2. SharedIsMet'
    <3> SUFFICES ASSUME NEW u \in Tasks, NEW n \in Media, At(u, "blob")', IsRow(n)', objects'[n].key = task'[u].key
                 PROVE  n \in purgedUnder'
        BY DEF SharedIsMet
    <3>1. CASE u = t
      <4>1. ~Goes(t, "told")  BY <3>1, MediaGoes DEF CountOthers, MediaMoves, At
      <4>2. OthersByStorageKey(task[t].m, task[t].key) = {}  BY <4>1 DEF CountOthers
      <4>3. task'[t].key = task[t].key /\ objects[task[t].m].status = "deleted"
          BY <1>1, MediaPlaces DEF CountOthers, MediaMoves, RowInv, PurgesDelete, Purges, At
      <4> QED BY <3>1, <4>2, <4>3 DEF OthersByStorageKey, CountOthers, mediaVars, IsRow
    <3>2. CASE u # t
        BY <1>2, <1>7, <3>2, OthersStand, RowsStand DEF RowsStay, BytesInv, SharedIsMet, CountOthers, mediaVars
    <3> QED BY <3>1, <3>2
  <2>3. ReadyHasBytes'
      BY <1>1, <1>2, <1>7, OthersStand, RowsStand, MediaPlaces DEF CountOthers, MediaMoves, BytesInv, ReadyHasBytes, Excused, MeetInv, RowInv, At, mediaVars
  <2>4. BytesAreHeld'
    <3> SUFFICES ASSUME failures = 0, purgedUnder = {}, restarted = {}, NEW k \in blobs, Held(k) PROVE Held(k)'
        BY DEF BytesInv, BytesAreHeld, CountOthers, mediaVars
    <3>1. \A m \in Media : IsReady(m) /\ objects[m].key = k => Held(k)'
        BY <1>7, RowsStand DEF RowsStay, Held
    <3>2. \A u \in Tasks \ {t} : (At(u, "mark") \/ At(u, "count") \/ At(u, "blob")) /\ task[u].key = k => Held(k)'
        BY <1>2, OthersStand DEF Held
    <3>3. CASE task[t].key = k /\ Goes(t, "blob")
      <4>1. MediaMoves(t, "blob")  BY <3>3, MediaGoes DEF CountOthers
      <4>2. At(t, "blob")' /\ task'[t].key = k
          BY <3>3, <4>1, MediaPlaces DEF MediaMoves, CountOthers, At
      <4> QED BY <4>2 DEF Held
    <3>4. CASE task[t].key = k /\ Goes(t, "told")
      <4>1. CASE OthersByStorageKey(task[t].m, k) = {}
        <5>1. Goes(t, "blob")  BY <3>4, <4>1 DEF CountOthers
        <5> QED BY <3>3, <3>4, <5>1
      <4>2. CASE OthersByStorageKey(task[t].m, k) # {}
        <5>1. PICK n \in Media : IsRow(n) /\ objects[n].key = k  BY <4>2 DEF OthersByStorageKey
        <5>2. k # NoKey  BY <3>4 DEF CountOthers, RowInv, PurgesDelete
        <5>3. IsReady(n)  BY <5>1, <5>2 DEF RowInv, KeysOfRows, IsRow, IsReady
        <5> QED BY <3>1, <5>1, <5>3
      <4> QED BY <4>1, <4>2
    <3>5. At(t, "count")  BY DEF CountOthers
    <3> QED BY <3>1, <3>2, <3>3, <3>4, <3>5 DEF Held, At, CountOthers
  <2> QED BY <2>1, <2>2, <2>3, <2>4 DEF BytesInv
<1>9. EventInv'
  <2>1. /\ At(t, "told")' => ~IsUpload(t)'
        /\ Purges(t) => Purges(t)'
        /\ ~At(t, "told")
      BY <1>1, MediaPlaces DEF CountOthers, MediaMoves, Purges, At, Under, MediaCall
  <2> QED BY <1>1, <1>2, <1>7, <2>1, EventsKept DEF CountOthers, mediaVars
<1> QED BY <1>5, <1>6, <1>7, <1>8, <1>9

LEMMA DeleteObjectKeeps == ASSUME MediaInv, NEW t \in Tasks, DeleteObject(t) PROVE MediaInv'
<1> USE DEF MediaInv
<1>1. (MediaMoves(t, "told")) /\ task' \in [Tasks -> MediaTasks] /\ MediaCall(t)
  <2>1. CASE Goes(t, "told")  BY <2>1, MediaGoes DEF DeleteObject
  <2> QED BY <2>1 DEF DeleteObject
<1>2. MediaGoesOn(t) /\ ~At(t, "told")  BY <1>1, MediaGoingOn, MediaPlaces DEF DeleteObject, At
<1>3. MediaTypeOK' /\ failures' \in Nat
    BY <1>1, MediaPlaces DEF DeleteObject, mediaVars, MediaTyped, MediaTypeOK, MediaCall, ObjectKeys
<1>4. \A u \in Tasks : Under(u, "streamUpload")' => task'[u].key = task'[u].m
    BY <1>1 DEF MediaMoves, MediaTyped, Under, IsUpload, Uploads
<1>5. MediaTyped'  BY <1>1, <1>3, <1>4 DEF MediaTyped
<1>6. MeetInv'  BY <1>2, MeetKept DEF DeleteObject, mediaVars
<1>7. RowInv' /\ RowsStay
  <2>1. RowsStay  BY DEF DeleteObject, mediaVars, RowsStay
  <2>2. /\ (At(t, "claim") \/ At(t, "row"))' => At(t, "claim") /\ task'[t].m = task[t].m /\ task'[t].key = task[t].key
        /\ Purges(t)' => Purges(t)
        /\ (At(t, "count") \/ At(t, "blob"))' => (At(t, "count") \/ At(t, "blob")) /\ task'[t].key = task[t].key
      BY <1>1, MediaPlaces DEF DeleteObject, MediaMoves, Purges, MediaCall, At
  <2>3. purgedUnder \subseteq purgedUnder' /\ restarted \subseteq restarted'
      BY DEF DeleteObject, mediaVars
  <2> QED BY <1>2, <2>1, <2>2, <2>3, RowsKept
<1>8. BytesInv'
  <2>1. MarksHaveBytes'
      BY <1>1, <1>2, <1>7, OthersStand, RowsStand, MediaPlaces DEF DeleteObject, MediaMoves, BytesInv, MarksHaveBytes, Excused, MeetInv, RowInv, At, mediaVars
  <2>2. SharedIsMet'
      BY <1>1, <1>2, <1>7, OthersStand, RowsStand, MediaPlaces DEF DeleteObject, MediaMoves, BytesInv, SharedIsMet, Excused, MeetInv, RowInv, At, mediaVars
  <2>3. ReadyHasBytes'
    <3> SUFFICES ASSUME NEW n \in Media \ Excused', IsReady(n)' PROVE objects'[n].key \in blobs'
        BY DEF ReadyHasBytes
    <3>1. objects[n].key \in blobs /\ IsRow(n) /\ n \notin purgedUnder
        BY <1>7, RowsStand DEF BytesInv, ReadyHasBytes, Excused, DeleteObject, IsRow, IsReady
    <3>2. objects[n].key # task[t].key  BY <3>1 DEF BytesInv, SharedIsMet, DeleteObject
    <3> QED BY <1>7, <3>1, <3>2 DEF DeleteObject, RowsStay
  <2>4. BytesAreHeld'
      BY <1>1, <1>2, <1>7, OthersStand, RowsStand, MediaPlaces DEF DeleteObject, MediaMoves, BytesInv, BytesAreHeld, Excused, MeetInv, RowInv, At, mediaVars, Held
  <2> QED BY <2>1, <2>2, <2>3, <2>4 DEF BytesInv
<1>9. EventInv'
  <2>1. /\ At(t, "told")' => ~IsUpload(t)'
        /\ Purges(t) => Purges(t)'
        /\ ~At(t, "told")
      BY <1>1, MediaPlaces DEF DeleteObject, MediaMoves, Purges, At, Under, MediaCall
  <2> QED BY <1>1, <1>2, <1>7, <2>1, EventsKept DEF DeleteObject, mediaVars
<1> QED BY <1>5, <1>6, <1>7, <1>8, <1>9

LEMMA ReadAgainKeeps == ASSUME MediaInv, NEW t \in Tasks, ReadAgain(t) PROVE MediaInv'
<1> USE DEF MediaInv
<1>1. (MediaMoves(t, "told") \/ MediaStops(t)) /\ task' \in [Tasks -> MediaTasks] /\ MediaCall(t)
  <2>1. CASE Goes(t, "told")  BY <2>1, MediaGoes DEF ReadAgain
  <2>2. CASE Ends(t)
    <3>1. MediaCall(t)  BY MediaPlaces DEF ReadAgain, MediaCall
    <3> QED BY <2>2, <3>1, MediaEnds
  <2> QED BY <2>1, <2>2 DEF ReadAgain
<1>2. MediaGoesOn(t) /\ ~At(t, "told")  BY <1>1, MediaGoingOn, MediaPlaces DEF ReadAgain, At
<1>3. MediaTypeOK' /\ failures' \in Nat  BY <1>1 DEF ReadAgain, mediaVars, MediaTyped, MediaTypeOK
<1>4. \A u \in Tasks : Under(u, "streamUpload")' => task'[u].key = task'[u].m
    BY <1>1 DEF MediaMoves, MediaStops, MediaTyped, Under, IsUpload, Uploads
<1>5. MediaTyped'  BY <1>1, <1>3, <1>4 DEF MediaTyped
<1>6. MeetInv'  BY <1>2, MeetKept DEF ReadAgain, mediaVars
<1>7. RowInv' /\ RowsStay
  <2>1. RowsStay  BY DEF ReadAgain, mediaVars, RowsStay
  <2>2. /\ (At(t, "claim") \/ At(t, "row"))' => At(t, "claim") /\ task'[t].m = task[t].m /\ task'[t].key = task[t].key
        /\ Purges(t)' => Purges(t)
        /\ (At(t, "count") \/ At(t, "blob"))' => (At(t, "count") \/ At(t, "blob")) /\ task'[t].key = task[t].key
      BY <1>1, MediaPlaces DEF ReadAgain, MediaMoves, MediaStops, Purges, MediaCall, At
  <2>3. purgedUnder \subseteq purgedUnder' /\ restarted \subseteq restarted'
      BY DEF ReadAgain, mediaVars
  <2> QED BY <1>2, <2>1, <2>2, <2>3, RowsKept
<1>8. BytesInv'
  <2>1. MarksHaveBytes'
      BY <1>1, <1>2, <1>7, OthersStand, RowsStand, MediaPlaces DEF ReadAgain, MediaMoves, MediaStops, BytesInv, MarksHaveBytes, Excused, MeetInv, RowInv, At, mediaVars
  <2>2. SharedIsMet'
      BY <1>1, <1>2, <1>7, OthersStand, RowsStand, MediaPlaces DEF ReadAgain, MediaMoves, MediaStops, BytesInv, SharedIsMet, Excused, MeetInv, RowInv, At, mediaVars
  <2>3. ReadyHasBytes'
      BY <1>1, <1>2, <1>7, OthersStand, RowsStand, MediaPlaces DEF ReadAgain, MediaMoves, MediaStops, BytesInv, ReadyHasBytes, Excused, MeetInv, RowInv, At, mediaVars
  <2>4. BytesAreHeld'
      BY <1>1, <1>2, <1>7, OthersStand, RowsStand, MediaPlaces DEF ReadAgain, MediaMoves, MediaStops, BytesInv, BytesAreHeld, Excused, MeetInv, RowInv, At, mediaVars, Held
  <2> QED BY <2>1, <2>2, <2>3, <2>4 DEF BytesInv
<1>9. EventInv'
  <2>1. /\ At(t, "told")' => ~IsUpload(t)'
        /\ Purges(t) => Purges(t)'
        /\ ~At(t, "told")
      BY <1>1, MediaPlaces DEF ReadAgain, MediaMoves, MediaStops, Purges, At, Under, MediaCall
  <2> QED BY <1>1, <1>2, <1>7, <2>1, EventsKept DEF ReadAgain, mediaVars
<1> QED BY <1>5, <1>6, <1>7, <1>8, <1>9

LEMMA FailMediaKeeps == ASSUME MediaInv, NEW t \in Tasks, FailMedia(t) PROVE MediaInv'
<1> USE DEF MediaInv
<1>1. MediaStops(t) /\ task' \in [Tasks -> MediaTasks] /\ MediaCall(t) /\ failures' \in Nat /\ failures' # 0
    BY MediaFails, MediaEnds DEF FailMedia
<1>2. MediaGoesOn(t)  BY <1>1, MediaEnding
<1>3. MediaTypeOK' /\ failures' \in Nat
    BY <1>1, MediaPlaces DEF FailMedia, mediaVars, MediaTyped, MediaTypeOK, MediaCall, ObjectKeys
<1>4. \A u \in Tasks : Under(u, "streamUpload")' => task'[u].key = task'[u].m
    BY <1>1 DEF MediaStops, MediaTyped, Under, IsUpload, Uploads
<1>5. MediaTyped'  BY <1>1, <1>3, <1>4 DEF MediaTyped
<1>6. MeetInv'  BY <1>2, MeetKept DEF FailMedia, mediaVars
<1>7. RowInv' /\ RowsStay
  <2>1. RowsStay  BY DEF FailMedia, mediaVars, RowsStay
  <2>2. /\ (At(t, "claim") \/ At(t, "row"))' => At(t, "claim") /\ task'[t].m = task[t].m /\ task'[t].key = task[t].key
        /\ Purges(t)' => Purges(t)
        /\ (At(t, "count") \/ At(t, "blob"))' => (At(t, "count") \/ At(t, "blob")) /\ task'[t].key = task[t].key
      BY <1>1, MediaPlaces DEF FailMedia, MediaStops, Purges, MediaCall, At
  <2>3. purgedUnder \subseteq purgedUnder' /\ restarted \subseteq restarted'
      BY DEF FailMedia, mediaVars
  <2> QED BY <1>2, <2>1, <2>2, <2>3, RowsKept
<1>8. BytesInv'
  <2>1. MarksHaveBytes'
      BY <1>1, <1>2, <1>7, OthersStand, RowsStand, MediaPlaces DEF FailMedia, MediaStops, BytesInv, MarksHaveBytes, Excused, MeetInv, RowInv, At, mediaVars
  <2>2. SharedIsMet'
      BY <1>1, <1>2, <1>7, OthersStand, RowsStand, MediaPlaces DEF FailMedia, MediaStops, BytesInv, SharedIsMet, Excused, MeetInv, RowInv, At, mediaVars
  <2>3. ReadyHasBytes'
      BY <1>1, <1>2, <1>7, OthersStand, RowsStand, MediaPlaces DEF FailMedia, MediaStops, BytesInv, ReadyHasBytes, Excused, MeetInv, RowInv, At, mediaVars
  <2>4. BytesAreHeld'
      BY <1>1, <1>2, <1>7, OthersStand, RowsStand, MediaPlaces DEF FailMedia, MediaStops, BytesInv, BytesAreHeld, Excused, MeetInv, RowInv, At, mediaVars, Held
  <2> QED BY <2>1, <2>2, <2>3, <2>4 DEF BytesInv
<1>9. EventInv'  BY <1>1 DEF EventInv
<1> QED BY <1>5, <1>6, <1>7, <1>8, <1>9

LEMMA MarkReadyKeeps == ASSUME MediaInv, NEW t \in Tasks, MarkReady(t) PROVE MediaInv'
<1> USE DEF MediaInv
<1>1. (MediaMoves(t, "told")) /\ task' \in [Tasks -> MediaTasks] /\ MediaCall(t)
  <2>1. CASE Goes(t, "told")  BY <2>1, MediaGoes DEF MarkReady
  <2> QED BY <2>1 DEF MarkReady
<1>2. MediaGoesOn(t) /\ ~At(t, "told")  BY <1>1, MediaGoingOn, MediaPlaces DEF MarkReady, At
<1>3. MediaTypeOK' /\ failures' \in Nat
    BY <1>1, MediaPlaces DEF MarkReady, mediaVars, MediaTyped, MediaTypeOK, MediaCall, ObjectKeys
<1>4. \A u \in Tasks : Under(u, "streamUpload")' => task'[u].key = task'[u].m
    BY <1>1 DEF MediaMoves, MediaTyped, Under, IsUpload, Uploads
<1>5. MediaTyped'  BY <1>1, <1>3, <1>4 DEF MediaTyped
<1>6. MeetInv'  BY <1>2, MeetKept DEF MarkReady, mediaVars
<1>7. RowInv'
  <2> DEFINE m == task[t].m
  <2>1. /\ IsUpload(t) /\ m \in Media /\ task[t].key \in {m, ByHash} /\ task[t].key # NoKey
        /\ task'[t].m = m /\ task'[t].key = task[t].key /\ task'[t].at = "told"
      BY <1>1, MediaPlaces, MediaAssumption DEF MarkReady, MediaMoves, MediaCall, ObjectKeys
  <2>2. /\ \A n \in Media \ {m} : objects'[n] = objects[n]
        /\ ~IsRow(m) => objects'[m] = objects[m]
        /\ IsRow(m) => objects'[m].status = "ready" /\ objects'[m].key = task[t].key
      BY <2>1 DEF MarkReady, MediaTyped, MediaTypeOK
  <2>3. \A u \in Tasks \ {t} : IsUpload(u) \/ Under(u, "purge") \/ MediaCall(u) \/ Purges(u) \/ At(u, "claim") \/ At(u, "row") => task[u].m \in Media
      BY MediaPlaces DEF Purges, MediaCall
  <2>4. KeysOfRows'  BY <2>1, <2>2 DEF RowInv, KeysOfRows, IsReady, IsRow
  <2>5. CallsHaveRows'
      BY <1>2, <2>1, <2>2, <2>3, OthersStand DEF RowInv, CallsHaveRows, IsRow, MediaGoesOn
  <2>6. UploadsHaveRows'
    <3> SUFFICES ASSUME NEW u \in Tasks, IsUpload(u)', task'[u].m \notin purgedUnder' PROVE IsRow(task[u].m)'
        BY <1>2, OthersStand DEF UploadsHaveRows, MediaGoesOn, MediaCall
    <3>1. IsUpload(u) /\ task'[u].m = task[u].m /\ task[u].m \in Media /\ purgedUnder' = purgedUnder
        BY <1>2, <2>1, <2>3, OthersStand DEF MarkReady
    <3>2. IsRow(task[u].m)  BY <3>1 DEF RowInv, UploadsHaveRows
    <3> QED BY <2>1, <2>2, <3>1, <3>2 DEF IsRow
  <2>7. UploadsMakeReady'
    <3> SUFFICES ASSUME NEW u \in Tasks, IsUpload(u)', ~At(u, "told")', task'[u].m \notin restarted' PROVE ~IsReady(task[u].m)'
        BY DEF UploadsMakeReady
    <3>1. u # t  BY <2>1 DEF At
    <3>2. IsUpload(u) /\ ~At(u, "told") /\ task'[u].m = task[u].m /\ restarted' = restarted
        BY <1>2, <3>1, OthersStand DEF MarkReady
    <3>3. task[u].m # m /\ ~IsReady(task[u].m)
        BY <2>1, <3>1, <3>2 DEF MeetInv, RowInv, UploadsMakeReady
    <3> QED BY <2>2, <2>3, <3>1, <3>2, <3>3 DEF IsReady
  <2>8. PurgesKnowTheKey'
    <3> SUFFICES ASSUME NEW u \in Tasks, (At(u, "claim") \/ At(u, "row"))', task'[u].m \notin purgedUnder', IsRow(task[u].m)'
                 PROVE  objects'[task'[u].m].key = task'[u].key
        BY DEF PurgesKnowTheKey
    <3>1. u # t  BY <2>1 DEF At
    <3>2. (At(u, "claim") \/ At(u, "row")) /\ task'[u] = task[u] /\ Under(u, "purge") /\ purgedUnder' = purgedUnder
        BY <1>2, <3>1, OthersStand, MediaPlaces DEF MarkReady, MediaGoesOn
    <3>3. task[u].m # m  BY <2>1, <3>2 DEF MeetInv
    <3> QED BY <2>2, <2>3, <3>1, <3>2, <3>3 DEF RowInv, PurgesKnowTheKey, IsRow
  <2>9. PurgesDelete'
    <3>1. ~Purges(t)' /\ ~At(t, "count")' /\ ~At(t, "blob")'
        BY <1>1, <2>1, MediaPlaces DEF MediaMoves, Purges, At, IsUpload, Under, Uploads
    <3> QED BY <1>2, <2>1, <2>2, <2>3, <3>1, OthersStand DEF RowInv, PurgesDelete, IsRow
  <2> QED BY <2>4, <2>5, <2>6, <2>7, <2>8, <2>9 DEF RowInv
<1>8. BytesInv'
  <2> DEFINE m == task[t].m
  <2>0. /\ IsUpload(t) /\ m \in Media /\ task[t].key \in {m, ByHash} /\ task[t].key # NoKey
        /\ task'[t].m = m /\ task'[t].key = task[t].key /\ task'[t].at = "told"
        /\ \A n \in Media \ {m} : objects'[n] = objects[n]
        /\ ~IsRow(m) => objects'[m] = objects[m]
        /\ IsRow(m) => objects'[m].status = "ready" /\ objects'[m].key = task[t].key
    <3>1. /\ IsUpload(t) /\ m \in Media /\ task[t].key \in {m, ByHash} /\ task[t].key # NoKey
          /\ task'[t].m = m /\ task'[t].key = task[t].key /\ task'[t].at = "told"
        BY <1>1, MediaPlaces, MediaAssumption DEF MarkReady, MediaMoves, MediaCall, ObjectKeys
    <3> QED BY <3>1 DEF MarkReady, MediaTyped, MediaTypeOK
  <2>1. MarksHaveBytes'
    <3>1. \A u \in Tasks : At(u, "mark")' => u # t  BY <2>0 DEF At
    <3> QED BY <1>2, <3>1, OthersStand DEF BytesInv, MarksHaveBytes, MarkReady, Excused
  <2>2. SharedIsMet'
    <3> SUFFICES ASSUME NEW u \in Tasks, NEW n \in Media, At(u, "blob")', IsRow(n)', objects'[n].key = task'[u].key
                 PROVE  n \in purgedUnder
        BY DEF SharedIsMet, MarkReady
    <3>1. u # t /\ At(u, "blob") /\ task'[u].key = task[u].key /\ Under(u, "purge")
        BY <1>2, <2>0, OthersStand, MediaPlaces DEF At
    <3>2. CASE n = m /\ IsRow(m)  BY <2>0, <3>1, <3>2 DEF MeetInv
    <3>3. CASE ~(n = m /\ IsRow(m))  BY <2>0, <3>1, <3>3 DEF BytesInv, SharedIsMet, IsRow
    <3> QED BY <3>2, <3>3
  <2>3. ReadyHasBytes'
    <3>1. m \notin Excused => task[t].key \in blobs  BY DEF BytesInv, MarksHaveBytes, MarkReady
    <3> SUFFICES ASSUME NEW n \in Media \ Excused, IsReady(n)' PROVE objects'[n].key \in blobs
        BY DEF ReadyHasBytes, MarkReady, Excused
    <3>2. CASE n = m /\ IsRow(m)  BY <2>0, <3>1, <3>2
    <3>3. CASE ~(n = m /\ IsRow(m))  BY <2>0, <3>3 DEF BytesInv, ReadyHasBytes, IsReady, IsRow
    <3> QED BY <3>2, <3>3
  <2>4. BytesAreHeld'
    <3> SUFFICES ASSUME failures = 0, purgedUnder = {}, restarted = {}, NEW k \in blobs, Held(k) PROVE Held(k)'
        BY DEF BytesInv, BytesAreHeld, MarkReady
    <3>1. IsRow(m) /\ ~IsReady(m)
        BY <2>0 DEF RowInv, UploadsHaveRows, UploadsMakeReady, MarkReady, At
    <3>2. \A n \in Media : IsReady(n) /\ objects[n].key = k => Held(k)'
        BY <2>0, <3>1 DEF IsReady, Held
    <3>3. \A u \in Tasks \ {t} : (At(u, "mark") \/ At(u, "count") \/ At(u, "blob")) /\ task[u].key = k => Held(k)'
        BY <1>2, OthersStand DEF Held
    <3>4. task[t].key = k => Held(k)'  BY <2>0, <3>1 DEF IsReady, Held
    <3> QED BY <3>2, <3>3, <3>4 DEF Held
  <2> QED BY <2>1, <2>2, <2>3, <2>4 DEF BytesInv
<1>9. EventInv'
  <2> DEFINE m == task[t].m
  <2>0. /\ IsUpload(t) /\ m \in Media /\ task[t].key \in {m, ByHash} /\ task[t].key # NoKey
        /\ task'[t].m = m /\ task'[t].key = task[t].key /\ task'[t].at = "told"
        /\ \A n \in Media \ {m} : objects'[n] = objects[n]
        /\ ~IsRow(m) => objects'[m] = objects[m]
        /\ IsRow(m) => objects'[m].status = "ready" /\ objects'[m].key = task[t].key
    <3>1. /\ IsUpload(t) /\ m \in Media /\ task[t].key \in {m, ByHash} /\ task[t].key # NoKey
          /\ task'[t].m = m /\ task'[t].key = task[t].key /\ task'[t].at = "told"
        BY <1>1, MediaPlaces, MediaAssumption DEF MarkReady, MediaMoves, MediaCall, ObjectKeys
    <3> QED BY <3>1 DEF MarkReady, MediaTyped, MediaTypeOK
  <2> SUFFICES ASSUME failures = 0, NEW n \in Media \ busy PROVE EventOf(n)'
      BY DEF EventInv, MarkReady
  <2>1. EventOf(n) /\ (m \notin busy => IsRow(m))
    <3>1. IsUpload(t) => MediaCall(t) /\ ~Purges(t)
        BY MediaPlaces DEF MediaCall, Purges, IsUpload, Under, Uploads
    <3> QED BY <2>0, <3>1 DEF EventInv, EventOf
  <2>2. ~Purges(t) /\ ~Purges(t)' /\ IsUpload(t)'
      BY <1>1, <2>0, MediaPlaces DEF Purges, MediaMoves, IsUpload, Under, Uploads
  <2>3. IsReady(n)' /\ (\A u \in Tasks : IsUpload(u)' /\ task'[u].m = n => ~At(u, "told")') => fileEvent'[n] \in {"uploaded", "transcoded"}
    <3>1. CASE n = m  BY <2>0, <2>2, <3>1 DEF At
    <3>2. CASE n # m  BY <1>2, <2>0, <2>1, <3>2, OthersStand DEF EventOf, MarkReady, IsReady
    <3> QED BY <3>1, <3>2
  <2>4. objects'[n].status = "deleted" /\ (\A u \in Tasks : Purges(u)' => task'[u].m # n) => fileEvent'[n] = "deleted"
    <3>1. CASE n = m  BY <2>0, <2>1, <3>1
    <3>2. CASE n # m  BY <1>2, <2>0, <2>1, <2>2, <3>2, OthersStand DEF EventOf, MarkReady
    <3> QED BY <3>1, <3>2
  <2>5. IsRow(n)' <=> IsRow(n)  BY <2>0, <2>1 DEF IsRow
  <2>6. \A u \in Tasks : MediaCall(u)' /\ ~Purges(u)' /\ task'[u].m = n => IsRow(n)'
      BY <1>2, <2>0, <2>1, <2>2, <2>5, OthersStand DEF EventOf, MediaGoesOn
  <2>7. \A u \in Tasks : IsUpload(u)' /\ At(u, "told")' /\ task'[u].m = n => IsReady(n)'
    <3>1. CASE n = m  BY <2>0, <2>1, <3>1 DEF IsReady
    <3>2. CASE n # m  BY <1>2, <2>0, <2>1, <3>2, OthersStand DEF EventOf, IsReady
    <3> QED BY <3>1, <3>2
  <2> QED BY <2>3, <2>4, <2>6, <2>7 DEF EventOf
<1> QED BY <1>5, <1>6, <1>7, <1>8, <1>9

LEMMA DeleteRowKeeps == ASSUME MediaInv, NEW t \in Tasks, DeleteRow(t) PROVE MediaInv'
<1> USE DEF MediaInv
<1>1. (MediaMoves(t, "told") \/ MediaMoves(t, "count")) /\ task' \in [Tasks -> MediaTasks] /\ MediaCall(t)
  <2>1. CASE Goes(t, "told")  BY <2>1, MediaGoes DEF DeleteRow
  <2>2. CASE Goes(t, "count")  BY <2>2, MediaGoes DEF DeleteRow
  <2> QED BY <2>1, <2>2 DEF DeleteRow
<1>2. MediaGoesOn(t) /\ ~At(t, "told")  BY <1>1, MediaGoingOn, MediaPlaces DEF DeleteRow, At
<1>3. MediaTypeOK' /\ failures' \in Nat
    BY <1>1, MediaPlaces DEF DeleteRow, mediaVars, MediaTyped, MediaTypeOK, MediaCall, ObjectKeys
<1>4. \A u \in Tasks : Under(u, "streamUpload")' => task'[u].key = task'[u].m
    BY <1>1 DEF MediaMoves, MediaTyped, Under, IsUpload, Uploads
<1>5. MediaTyped'  BY <1>1, <1>3, <1>4 DEF MediaTyped
<1>6. MeetInv'  BY <1>2, MeetKept DEF DeleteRow, mediaVars
<1>7. RowInv'
  <2> DEFINE m == task[t].m
  <2>0. /\ Under(t, "purge") /\ m \in Media
        /\ task'[t].m = m /\ task'[t].key = task[t].key /\ task'[t].at = IF task[t].key = NoKey THEN "told" ELSE "count"
        /\ \A n \in Media \ {m} : objects'[n] = objects[n]
        /\ objects'[m].status = "deleted" /\ objects'[m].key = objects[m].key
    <3>1. /\ Under(t, "purge") /\ m \in Media
          /\ task'[t].m = m /\ task'[t].key = task[t].key
        BY <1>1, MediaPlaces DEF DeleteRow, MediaMoves, MediaCall
    <3>2. task'[t].at = IF task[t].key = NoKey THEN "told" ELSE "count"
      <4>1. CASE Goes(t, "told") /\ task[t].key = NoKey
          BY <4>1, MediaGoes DEF DeleteRow, MediaMoves
      <4>2. CASE Goes(t, "count") /\ task[t].key # NoKey
          BY <4>2, MediaGoes DEF DeleteRow, MediaMoves
      <4> QED BY <4>1, <4>2 DEF DeleteRow
    <3> QED BY <3>1, <3>2 DEF DeleteRow, MediaTyped, MediaTypeOK
  <2>3. \A u \in Tasks \ {t} : IsUpload(u) \/ Under(u, "purge") \/ MediaCall(u) \/ Purges(u) \/ At(u, "claim") \/ At(u, "row") => task[u].m \in Media
      BY MediaPlaces DEF Purges, MediaCall
  <2>4. KeysOfRows'  BY <2>0 DEF RowInv, KeysOfRows, IsReady
  <2>5. CallsHaveRows'  BY <1>2, <2>0, <2>3, OthersStand DEF RowInv, CallsHaveRows, MediaGoesOn
  <2>6. UploadsHaveRows'
    <3> SUFFICES ASSUME NEW u \in Tasks, IsUpload(u)', task'[u].m \notin purgedUnder' PROVE IsRow(task[u].m)'
        BY DEF UploadsHaveRows
    <3>1. IsUpload(u) /\ u # t /\ task'[u].m = task[u].m /\ purgedUnder' = purgedUnder
        BY <1>2, <2>0, OthersStand DEF MediaGoesOn, IsUpload, Under, Uploads, DeleteRow
    <3>2. task[u].m # m  BY <2>0, <3>1 DEF MeetInv
    <3> QED BY <2>0, <2>3, <3>1, <3>2 DEF RowInv, UploadsHaveRows, IsRow
  <2>7. UploadsMakeReady'
    <3>1. ~IsUpload(t)'  BY <1>1, <2>0 DEF MediaMoves, IsUpload, Under, Uploads
    <3> QED BY <1>2, <2>0, <2>3, <3>1, OthersStand DEF RowInv, UploadsMakeReady, IsReady, DeleteRow
  <2>8. PurgesKnowTheKey'
    <3>1. ~At(t, "claim")' /\ ~At(t, "row")'  BY <2>0 DEF At
    <3> QED BY <1>2, <2>0, <2>3, <3>1, OthersStand DEF RowInv, PurgesKnowTheKey, IsRow, DeleteRow
  <2>9. PurgesDelete'  BY <1>2, <2>0, <2>3, OthersStand DEF RowInv, PurgesDelete, At
  <2> QED BY <2>4, <2>5, <2>6, <2>7, <2>8, <2>9 DEF RowInv
<1>8. BytesInv'
  <2> DEFINE m == task[t].m
  <2>0. /\ Under(t, "purge") /\ m \in Media
        /\ task'[t].m = m /\ task'[t].key = task[t].key /\ task'[t].at = IF task[t].key = NoKey THEN "told" ELSE "count"
        /\ \A n \in Media \ {m} : objects'[n] = objects[n]
        /\ objects'[m].status = "deleted" /\ objects'[m].key = objects[m].key
    <3>1. /\ Under(t, "purge") /\ m \in Media
          /\ task'[t].m = m /\ task'[t].key = task[t].key
        BY <1>1, MediaPlaces DEF DeleteRow, MediaMoves, MediaCall
    <3>2. task'[t].at = IF task[t].key = NoKey THEN "told" ELSE "count"
      <4>1. CASE Goes(t, "told") /\ task[t].key = NoKey
          BY <4>1, MediaGoes DEF DeleteRow, MediaMoves
      <4>2. CASE Goes(t, "count") /\ task[t].key # NoKey
          BY <4>2, MediaGoes DEF DeleteRow, MediaMoves
      <4> QED BY <4>1, <4>2 DEF DeleteRow
    <3> QED BY <3>1, <3>2 DEF DeleteRow, MediaTyped, MediaTypeOK
  <2>1. MarksHaveBytes'
      BY <1>2, <2>0, OthersStand DEF BytesInv, MarksHaveBytes, DeleteRow, Excused, At
  <2>2. SharedIsMet'  BY <1>2, <2>0, OthersStand DEF BytesInv, SharedIsMet, DeleteRow, At, IsRow
  <2>3. ReadyHasBytes'  BY <2>0 DEF BytesInv, ReadyHasBytes, DeleteRow, Excused, IsReady
  <2>4. BytesAreHeld'
    <3> SUFFICES ASSUME failures = 0, purgedUnder = {}, restarted = {}, NEW k \in blobs, Held(k) PROVE Held(k)'
        BY DEF BytesInv, BytesAreHeld, DeleteRow
    <3>1. CASE IsReady(m) /\ objects[m].key = k
      <4>1. task[t].key = k /\ k # NoKey
          BY <2>0, <3>1 DEF RowInv, PurgesKnowTheKey, KeysOfRows, DeleteRow, IsRow, IsReady
      <4> QED BY <2>0, <4>1 DEF Held, At
    <3>2. \A n \in Media \ {m} : IsReady(n) /\ objects[n].key = k => Held(k)'
        BY <2>0 DEF IsReady, Held
    <3>3. \A u \in Tasks : (At(u, "mark") \/ At(u, "count") \/ At(u, "blob")) /\ task[u].key = k => Held(k)'
      <4>1. ~At(t, "mark") /\ ~At(t, "count") /\ ~At(t, "blob")  BY DEF DeleteRow, At
      <4> QED BY <1>2, <4>1, OthersStand DEF Held
    <3> QED BY <3>1, <3>2, <3>3 DEF Held
  <2> QED BY <2>1, <2>2, <2>3, <2>4 DEF BytesInv
<1>9. EventInv'
  <2> DEFINE m == task[t].m
  <2>0. /\ Under(t, "purge") /\ m \in Media
        /\ task'[t].m = m /\ task'[t].key = task[t].key /\ task'[t].at = IF task[t].key = NoKey THEN "told" ELSE "count"
        /\ \A n \in Media \ {m} : objects'[n] = objects[n]
        /\ objects'[m].status = "deleted" /\ objects'[m].key = objects[m].key
    <3>1. /\ Under(t, "purge") /\ m \in Media
          /\ task'[t].m = m /\ task'[t].key = task[t].key
        BY <1>1, MediaPlaces DEF DeleteRow, MediaMoves, MediaCall
    <3>2. task'[t].at = IF task[t].key = NoKey THEN "told" ELSE "count"
      <4>1. CASE Goes(t, "told") /\ task[t].key = NoKey
          BY <4>1, MediaGoes DEF DeleteRow, MediaMoves
      <4>2. CASE Goes(t, "count") /\ task[t].key # NoKey
          BY <4>2, MediaGoes DEF DeleteRow, MediaMoves
      <4> QED BY <4>1, <4>2 DEF DeleteRow
    <3> QED BY <3>1, <3>2 DEF DeleteRow, MediaTyped, MediaTypeOK
  <2> SUFFICES ASSUME failures = 0, NEW n \in Media \ busy PROVE EventOf(n)'
      BY DEF EventInv, DeleteRow
  <2>1. EventOf(n)  BY DEF EventInv
  <2>2. Purges(t)' /\ ~IsUpload(t)' /\ MediaCall(t)
      BY <1>1, <2>0 DEF Purges, MediaMoves, IsUpload, Under, Uploads
  <2>3. CASE n = m
    <3>1. \A u \in Tasks \ {t} : MediaCall(u) => task[u].m # m  BY <2>2, <2>3 DEF MeetInv
    <3>2. \A u \in Tasks : MediaCall(u)' /\ task'[u].m = m => u = t  BY <1>2, <3>1, OthersStand
    <3>3. \A u \in Tasks : IsUpload(u)' => MediaCall(u)'  BY DEF MediaCall
    <3> QED BY <2>0, <2>2, <2>3, <3>2, <3>3 DEF EventOf, IsReady
  <2>4. CASE n # m
    <3>1. (IsReady(n)' <=> IsReady(n)) /\ (IsRow(n)' <=> IsRow(n))  BY <2>0, <2>4 DEF IsReady, IsRow
    <3> QED BY <1>2, <2>0, <2>1, <2>2, <2>4, <3>1, OthersStand DEF EventOf, DeleteRow
  <2> QED BY <2>3, <2>4
<1> QED BY <1>5, <1>6, <1>7, <1>8, <1>9

LEMMA TellFileKeeps == ASSUME MediaInv, NEW t \in Tasks, TellFile(t) PROVE MediaInv'
<1> USE DEF MediaInv
<1>1. MediaStops(t) /\ task' \in [Tasks -> MediaTasks] /\ MediaCall(t)
  <2>1. MediaCall(t) /\ Ends(t)  BY MediaPlaces DEF TellFile, MediaCall
  <2> QED BY <2>1, MediaEnds DEF TellFile
<1>2. MediaGoesOn(t)  BY <1>1, MediaEnding
<1>3. MediaTypeOK' /\ failures' \in Nat
  <2>1. FileEventOf(task[t].op) \in {"uploaded", "transcoded", "deleted"}
      BY <1>1 DEF FileEventOf, MediaCall, IsUpload, Under
  <2>2. fileEvent' \in [Media -> {"none", "uploaded", "transcoded", "deleted"}]
      BY <2>1 DEF TellFile, MediaTyped, MediaTypeOK
  <2> QED BY <2>2 DEF TellFile, MediaTyped, MediaTypeOK
<1>4. \A u \in Tasks : Under(u, "streamUpload")' => task'[u].key = task'[u].m
    BY <1>1 DEF MediaStops, MediaTyped, Under, IsUpload, Uploads
<1>5. MediaTyped'  BY <1>1, <1>3, <1>4 DEF MediaTyped
<1>6. MeetInv'  BY <1>2, MeetKept DEF TellFile, mediaVars
<1>7. RowInv' /\ RowsStay
  <2>1. RowsStay  BY DEF TellFile, mediaVars, RowsStay
  <2>2. /\ (At(t, "claim") \/ At(t, "row"))' => At(t, "claim") /\ task'[t].m = task[t].m /\ task'[t].key = task[t].key
        /\ Purges(t)' => Purges(t)
        /\ (At(t, "count") \/ At(t, "blob"))' => (At(t, "count") \/ At(t, "blob")) /\ task'[t].key = task[t].key
      BY <1>1, MediaPlaces DEF TellFile, MediaStops, Purges, MediaCall, At
  <2>3. purgedUnder \subseteq purgedUnder' /\ restarted \subseteq restarted'
      BY DEF TellFile, mediaVars
  <2> QED BY <1>2, <2>1, <2>2, <2>3, RowsKept
<1>8. BytesInv'
  <2>1. MarksHaveBytes'
      BY <1>1, <1>2, <1>7, OthersStand, RowsStand, MediaPlaces DEF TellFile, MediaStops, BytesInv, MarksHaveBytes, Excused, MeetInv, RowInv, At, mediaVars
  <2>2. SharedIsMet'
      BY <1>1, <1>2, <1>7, OthersStand, RowsStand, MediaPlaces DEF TellFile, MediaStops, BytesInv, SharedIsMet, Excused, MeetInv, RowInv, At, mediaVars
  <2>3. ReadyHasBytes'
      BY <1>1, <1>2, <1>7, OthersStand, RowsStand, MediaPlaces DEF TellFile, MediaStops, BytesInv, ReadyHasBytes, Excused, MeetInv, RowInv, At, mediaVars
  <2>4. BytesAreHeld'
      BY <1>1, <1>2, <1>7, OthersStand, RowsStand, MediaPlaces DEF TellFile, MediaStops, BytesInv, BytesAreHeld, Excused, MeetInv, RowInv, At, mediaVars, Held
  <2> QED BY <2>1, <2>2, <2>3, <2>4 DEF BytesInv
<1>9. EventInv'
  <2> DEFINE m == task[t].m
  <2>0. m \in Media /\ ~MediaCall(t)' /\ ~IsUpload(t)' /\ ~Purges(t)' /\ fileEvent'[m] = FileEventOf(task[t].op)
        /\ \A n \in Media \ {m} : fileEvent'[n] = fileEvent[n]
      BY <1>1, MediaPlaces DEF TellFile, MediaStops, MediaTyped, MediaTypeOK, MediaCall, Purges
  <2> SUFFICES ASSUME failures = 0, NEW n \in Media \ busy PROVE EventOf(n)'
      BY DEF EventInv, TellFile
  <2>1. EventOf(n)  BY DEF EventInv
  <2>2. (IsReady(n)' <=> IsReady(n)) /\ (IsRow(n)' <=> IsRow(n)) /\ objects' = objects
      BY <1>7, RowsStand DEF TellFile
  <2>3. IsReady(n)' /\ (\A u \in Tasks : IsUpload(u)' /\ task'[u].m = n => ~At(u, "told")') => fileEvent'[n] \in {"uploaded", "transcoded"}
    <3>1. CASE n = m
      <4>1. Under(t, "purge") => objects[m].status = "deleted"
          BY DEF RowInv, PurgesDelete, Purges, TellFile, At
      <4>2. ~Under(t, "purge") => FileEventOf(task[t].op) \in {"uploaded", "transcoded"}
          BY <1>1, MediaPlaces DEF FileEventOf, MediaCall, Under, Uploads
      <4> QED BY <2>0, <2>2, <3>1, <4>1, <4>2 DEF IsReady
    <3>2. CASE n # m  BY <1>2, <2>0, <2>1, <2>2, <3>2, OthersStand DEF EventOf
    <3> QED BY <3>1, <3>2
  <2>4. objects'[n].status = "deleted" /\ (\A u \in Tasks : Purges(u)' => task'[u].m # n) => fileEvent'[n] = "deleted"
    <3>1. CASE n = m
      <4>1. Purges(t) \/ IsRow(m)  BY <1>1, <2>1, <3>1 DEF EventOf
      <4>2. Purges(t) => FileEventOf(task[t].op) = "deleted"
          BY DEF Purges, Under, FileEventOf, Uploads
      <4> QED BY <2>0, <2>2, <3>1, <4>1, <4>2 DEF IsRow
    <3>2. CASE n # m
      <4>1. \A u \in Tasks : Purges(u) /\ task[u].m = n => Purges(u)' /\ task'[u].m = n
          BY <1>2, <3>2, OthersStand
      <4> QED BY <2>0, <2>1, <2>2, <3>2, <4>1 DEF EventOf
    <3> QED BY <3>1, <3>2
  <2>5. \A u \in Tasks : MediaCall(u)' /\ ~Purges(u)' /\ task'[u].m = n => IsRow(n)'
      BY <1>2, <2>0, <2>1, <2>2, OthersStand DEF EventOf
  <2>6. \A u \in Tasks : IsUpload(u)' /\ At(u, "told")' /\ task'[u].m = n => IsReady(n)'
      BY <1>2, <2>0, <2>1, <2>2, OthersStand DEF EventOf
  <2> QED BY <2>3, <2>4, <2>5, <2>6 DEF EventOf
<1> QED BY <1>5, <1>6, <1>7, <1>8, <1>9

----------------------------------------------------------------------------
(* Media: the requests                                                     *)

LEMMA NoCallMoves ==
    ASSUME MediaTyped, NEW t \in Tasks, NEW rec \in MediaTasks, MediaStarts(t, rec)
    PROVE  /\ ~IsUpload(t) /\ ~Under(t, "purge") /\ ~MediaCall(t) /\ ~Purges(t)
           /\ \A p \in {"claim", "row", "count", "blob", "mark", "told"} : ~At(t, p)
           /\ \A u \in Tasks \ {t} :
                 /\ \A p : At(u, p)' <=> At(u, p)
                 /\ IsUpload(u)' <=> IsUpload(u)
                 /\ Under(u, "purge")' <=> Under(u, "purge")
                 /\ MediaCall(u)' <=> MediaCall(u)
                 /\ Purges(u)' <=> Purges(u)
                 /\ task'[u].m = task[u].m /\ task'[u].key = task[u].key
    BY DEF MediaStarts, MediaCall, Purges, At, IsUpload, Under, New, Uploads

LEMMA InitUploadKeeps == ASSUME MediaInv, NEW m \in Media, NEW once \in BOOLEAN, InitUpload(m, once) PROVE MediaInv'
<1> USE DEF MediaInv
<1>1. task' = task /\ failures' = failures /\ blobs' = blobs /\ purgedUnder' = purgedUnder /\ trusting' = trusting
      /\ restarted' = restarted /\ fileEvent' = fileEvent /\ busy' = busy
    BY DEF InitUpload, taskVars
<1>2. /\ objects[m].status = "absent" /\ objects'[m].status = "pending" /\ objects'[m].key = NoKey
      /\ \A n \in Media \ {m} : objects'[n] = objects[n]
    BY DEF InitUpload, NoRow, MediaTyped, MediaTypeOK
<1>3. \A u \in Tasks : /\ \A p : At(u, p)' <=> At(u, p)
                       /\ IsUpload(u)' <=> IsUpload(u)
                       /\ Under(u, "purge")' <=> Under(u, "purge")
                       /\ MediaCall(u)' <=> MediaCall(u)
                       /\ Purges(u)' <=> Purges(u)
    BY <1>1 DEF At, IsUpload, Under, MediaCall, Purges
<1>4. \A u \in Tasks : IsUpload(u) \/ Under(u, "purge") \/ MediaCall(u) \/ Purges(u) \/ At(u, "claim") \/ At(u, "row")
                           => MediaCall(u) /\ task[u].m \in Media /\ task[u].m # m
  <2>1. \A u \in Tasks : IsUpload(u) \/ Under(u, "purge") \/ MediaCall(u) \/ Purges(u) \/ At(u, "claim") \/ At(u, "row")
                             => MediaCall(u) /\ task[u].m \in Media
      BY MediaPlaces DEF Purges, MediaCall
  <2> QED BY <1>2, <2>1 DEF RowInv, CallsHaveRows
<1>5. MediaTyped'
  <2>1. objects' \in [Media -> [status : {"absent", "pending", "ready", "deleted"}, key : ObjectKeys \cup {NoKey},
                                once : BOOLEAN, viewed : BOOLEAN]]
      BY DEF InitUpload, MediaTyped, MediaTypeOK, NoRow
  <2> QED BY <1>1, <2>1 DEF MediaTyped, MediaTypeOK, Under
<1>6. MeetInv'  BY <1>1, <1>3 DEF MeetInv
<1>7. RowInv'
  <2>1. KeysOfRows'  BY <1>2 DEF RowInv, KeysOfRows, IsReady
  <2>2. CallsHaveRows' /\ UploadsHaveRows' /\ UploadsMakeReady'
      BY <1>1, <1>2, <1>3, <1>4 DEF RowInv, CallsHaveRows, UploadsHaveRows, UploadsMakeReady, IsRow, IsReady
  <2>3. PurgesKnowTheKey'  BY <1>1, <1>2, <1>3, <1>4 DEF RowInv, PurgesKnowTheKey, IsRow
  <2>4. PurgesDelete'  BY <1>1, <1>2, <1>3, <1>4 DEF RowInv, PurgesDelete
  <2> QED BY <2>1, <2>2, <2>3, <2>4 DEF RowInv
<1>8. BytesInv'
  <2>1. MarksHaveBytes'  BY <1>1, <1>3 DEF BytesInv, MarksHaveBytes, Excused
  <2>2. SharedIsMet'
    <3>1. \A u \in Tasks : At(u, "blob") => task[u].key # NoKey  BY DEF RowInv, PurgesDelete
    <3> QED BY <1>1, <1>2, <1>3, <3>1 DEF BytesInv, SharedIsMet, IsRow
  <2>3. ReadyHasBytes'  BY <1>1, <1>2 DEF BytesInv, ReadyHasBytes, Excused, IsReady
  <2>4. BytesAreHeld'  BY <1>1, <1>2, <1>3 DEF BytesInv, BytesAreHeld, Held, IsReady
  <2> QED BY <2>1, <2>2, <2>3, <2>4 DEF BytesInv
<1>9. EventInv'
  <2> SUFFICES ASSUME failures = 0, NEW n \in Media \ busy PROVE EventOf(n)'  BY <1>1 DEF EventInv
  <2>1. EventOf(n)  BY DEF EventInv
  <2>2. CASE n = m
    <3>1. \A u \in Tasks : MediaCall(u)' => task'[u].m # m  BY <1>1, <1>3, <1>4
    <3>2. \A u \in Tasks : IsUpload(u)' => MediaCall(u)'  BY DEF MediaCall
    <3> QED BY <1>1, <1>2, <2>2, <3>1, <3>2 DEF EventOf, IsReady
  <2>3. CASE n # m  BY <1>1, <1>2, <1>3, <2>1, <2>3 DEF EventOf, IsReady, IsRow
  <2> QED BY <2>2, <2>3
<1> QED BY <1>5, <1>6, <1>7, <1>8, <1>9

LEMMA BeginUploadKeeps == ASSUME MediaInv, NEW t \in Tasks, NEW m \in Media, NEW op \in Uploads, BeginUpload(t, m, op) PROVE MediaInv'
<1> USE DEF MediaInv
<1> DEFINE rec == [op |-> op, m |-> m, key |-> KeyOf(op, m), at |-> IF op = "streamUpload" THEN "stream" ELSE "dedup"]
<1>0. rec \in MediaTasks
  <2>1. CASE op = "streamUpload"  BY <2>1 DEF MediaTasks, KeyOf
  <2>2. CASE op = "completeUpload"  BY <2>2 DEF MediaTasks, KeyOf
  <2> QED BY <2>1, <2>2 DEF Uploads
<1>1. MediaStarts(t, rec) /\ task' \in [Tasks -> MediaTasks]  BY <1>0, MediaBegins DEF BeginUpload
<1>2. IsRow(m) /\ task'[t] = rec /\ MediaCall(t)' /\ ~Purges(t)'
    BY <1>1 DEF BeginUpload, IsReady, IsRow, MediaStarts, MediaCall, IsUpload, Under, Purges, Uploads
<1>3. IsUpload(t)' /\ ~Under(t, "purge")' /\ KeyOf(op, m) \in {m, ByHash} /\ (Under(t, "streamUpload")' => KeyOf(op, m) = m)
    BY <1>2 DEF IsUpload, Under, Uploads, KeyOf
<1>4. objects' = objects /\ blobs' = blobs /\ failures' = failures /\ fileEvent' = fileEvent /\ trusting' = trusting
    BY DEF BeginUpload
<1>5. purgedUnder \subseteq purgedUnder' /\ restarted \subseteq restarted' /\ busy \subseteq busy'
    BY DEF BeginUpload, Meeting
<1>6. \A u \in Tasks : MediaCall(u) /\ task[u].m = m => m \in busy'
    BY OnRowCalls DEF BeginUpload, Meeting
<1>7. \A u \in Tasks : Under(u, "purge") /\ (task[u].m = m \/ task[u].key = KeyOf(op, m)) => m \in purgedUnder'
    BY DEF BeginUpload, Purged, Purging
<1>8. \A u \in Tasks : (IsUpload(u) /\ task[u].m = m) \/ IsReady(m) => m \in restarted'
    BY DEF BeginUpload
<1>9. MediaTyped'
  <2>1. MediaTypeOK'  BY <1>4 DEF BeginUpload, Meeting, MediaTyped, MediaTypeOK
  <2>2. \A u \in Tasks : Under(u, "streamUpload")' => task'[u].key = task'[u].m
      BY <1>1, <1>2, <1>3 DEF MediaStarts, MediaTyped, Under
  <2> QED BY <1>1, <1>4, <2>1, <2>2 DEF MediaTyped
<1>10. MeetInv'
  <2>1. \A u, v \in Tasks : (IsUpload(u) /\ Under(v, "purge"))' /\ (task'[u].m = task'[v].m \/ task'[u].key = task'[v].key)
            => task'[u].m \in purgedUnder'
      BY <1>0, <1>1, <1>2, <1>3, <1>5, <1>7, <1>8, NoCallMoves DEF MeetInv
  <2>2. \A u, v \in Tasks : u # v /\ IsUpload(u)' /\ IsUpload(v)' /\ task'[u].m = task'[v].m => task'[u].m \in restarted'
      BY <1>0, <1>1, <1>2, <1>3, <1>5, <1>7, <1>8, NoCallMoves DEF MeetInv
  <2>3. \A u, v \in Tasks : u # v /\ MediaCall(u)' /\ MediaCall(v)' /\ task'[u].m = task'[v].m => task'[u].m \in busy'
      BY <1>0, <1>1, <1>2, <1>5, <1>6, NoCallMoves DEF MeetInv
  <2> QED BY <2>1, <2>2, <2>3 DEF MeetInv
<1>11. RowInv'
  <2>1. \A p \in {"claim", "row", "count", "blob", "told", "mark"} : At(t, p)' => FALSE
      BY <1>2 DEF At
  <2>2. \A n \in Media : (IsRow(n)' <=> IsRow(n)) /\ (IsReady(n)' <=> IsReady(n))
      BY <1>4 DEF IsRow, IsReady
  <2>3. KeysOfRows'  BY <1>4, <2>2 DEF RowInv, KeysOfRows
  <2>4. CallsHaveRows'  BY <1>0, <1>1, <1>2, <1>4, NoCallMoves DEF RowInv, CallsHaveRows, IsRow
  <2>5. \A u \in Tasks : IsUpload(u) \/ At(u, "claim") \/ At(u, "row") => task[u].m \in Media
      BY MediaPlaces
  <2>6. UploadsHaveRows'
      BY <1>0, <1>1, <1>2, <1>3, <1>5, <2>2, <2>5, NoCallMoves DEF RowInv, UploadsHaveRows
  <2>7. UploadsMakeReady'
      BY <1>0, <1>1, <1>2, <1>3, <1>5, <1>8, <2>2, <2>5, NoCallMoves DEF RowInv, UploadsMakeReady
  <2>8. PurgesKnowTheKey'
      BY <1>0, <1>1, <1>4, <1>5, <2>1, <2>2, <2>5, NoCallMoves DEF RowInv, PurgesKnowTheKey
  <2>9. PurgesDelete'  BY <1>0, <1>1, <1>2, <1>4, <2>1, NoCallMoves DEF RowInv, PurgesDelete
  <2> QED BY <2>3, <2>4, <2>6, <2>7, <2>8, <2>9 DEF RowInv
<1>12. BytesInv'
  <2>1. \A p \in {"count", "blob", "mark"} : ~At(t, p)' /\ ~At(t, p)
      BY <1>0, <1>1, <1>2, NoCallMoves DEF At
  <2>2. MarksHaveBytes'
      BY <1>0, <1>1, <1>4, <1>5, <2>1, NoCallMoves DEF BytesInv, MarksHaveBytes, Excused
  <2>3. SharedIsMet'  BY <1>0, <1>1, <1>4, <1>5, <2>1, NoCallMoves DEF BytesInv, SharedIsMet, IsRow
  <2>4. ReadyHasBytes'  BY <1>4, <1>5 DEF BytesInv, ReadyHasBytes, Excused, IsReady
  <2>5. BytesAreHeld'
    <3> SUFFICES ASSUME failures = 0, purgedUnder = {}, restarted = {}, NEW k \in blobs, Held(k) PROVE Held(k)'
        BY <1>4, <1>5 DEF BytesInv, BytesAreHeld
    <3> QED BY <1>0, <1>1, <1>4, <2>1, NoCallMoves DEF Held, IsReady
  <2> QED BY <2>2, <2>3, <2>4, <2>5 DEF BytesInv
<1>13. EventInv'
  <2> SUFFICES ASSUME failures = 0, NEW n \in Media \ busy' PROVE EventOf(n)'  BY <1>4 DEF EventInv
  <2>1. EventOf(n)  BY <1>5 DEF EventInv
  <2>2. (IsReady(n)' <=> IsReady(n)) /\ (IsRow(n)' <=> IsRow(n))  BY <1>4 DEF IsRow, IsReady
  <2>3. ~At(t, "told")' /\ task'[t].m = m  BY <1>2 DEF At
  <2>4. IsReady(n)' /\ (\A u \in Tasks : IsUpload(u)' /\ task'[u].m = n => ~At(u, "told")') => fileEvent'[n] \in {"uploaded", "transcoded"}
      BY <1>0, <1>1, <1>4, <2>1, <2>2, NoCallMoves DEF EventOf
  <2>5. objects'[n].status = "deleted" /\ (\A u \in Tasks : Purges(u)' => task'[u].m # n) => fileEvent'[n] = "deleted"
      BY <1>0, <1>1, <1>4, <2>1, NoCallMoves DEF EventOf
  <2>6. \A u \in Tasks : MediaCall(u)' /\ ~Purges(u)' /\ task'[u].m = n => IsRow(n)'
      BY <1>0, <1>1, <1>2, <2>1, <2>2, <2>3, NoCallMoves DEF EventOf
  <2>7. \A u \in Tasks : IsUpload(u)' /\ At(u, "told")' /\ task'[u].m = n => IsReady(n)'
      BY <1>0, <1>1, <2>1, <2>2, <2>3, NoCallMoves DEF EventOf
  <2> QED BY <2>4, <2>5, <2>6, <2>7 DEF EventOf
<1> QED BY <1>9, <1>10, <1>11, <1>12, <1>13

LEMMA BeginDeleteKeeps == ASSUME MediaInv, NEW t \in Tasks, NEW m \in Media, BeginDelete(t, m) PROVE MediaInv'
<1> USE DEF MediaInv
<1> DEFINE rec == [op |-> "purge", m |-> m, key |-> objects[m].key, at |-> "row"]
<1>0. rec \in MediaTasks
  <2>1. objects[m].key \in ObjectKeys \cup {NoKey}  BY DEF MediaTyped, MediaTypeOK
  <2> QED BY <2>1 DEF MediaTasks
<1>1. MediaStarts(t, rec) /\ task' \in [Tasks -> MediaTasks]  BY <1>0, MediaBegins DEF BeginDelete
<1>2. IsRow(m) /\ task'[t] = rec /\ MediaCall(t)' /\ ~Purges(t)'
    BY <1>1 DEF BeginDelete, IsReady, IsRow, MediaStarts, MediaCall, IsUpload, Under, Purges, Uploads
<1>3. Under(t, "purge")' /\ ~IsUpload(t)'  BY <1>2 DEF IsUpload, Under, Uploads
<1>4. objects' = objects /\ blobs' = blobs /\ failures' = failures /\ fileEvent' = fileEvent /\ trusting' = trusting
    BY DEF BeginDelete
<1>5. purgedUnder \subseteq purgedUnder' /\ restarted \subseteq restarted' /\ busy \subseteq busy'
    BY DEF BeginDelete, Meeting
<1>6. \A u \in Tasks : MediaCall(u) /\ task[u].m = m => m \in busy'
    BY OnRowCalls DEF BeginDelete, Meeting
<1>7. \A u \in Tasks : IsUpload(u) /\ (task[u].m = m \/ task[u].key = objects[m].key) => task[u].m \in purgedUnder'
    BY DEF BeginDelete, Meets
<1>9. MediaTyped'
  <2>0. \A u \in Tasks : IsUpload(u) => task[u].m \in Media  BY MediaPlaces
  <2>1. MediaTypeOK'  BY <1>4, <2>0 DEF BeginDelete, Meeting, Meets, MediaTyped, MediaTypeOK
  <2>2. \A u \in Tasks : Under(u, "streamUpload")' => task'[u].key = task'[u].m
      BY <1>1, <1>2, <1>3 DEF MediaStarts, MediaTyped, Under
  <2> QED BY <1>1, <1>4, <2>1, <2>2 DEF MediaTyped
<1>10. MeetInv'
  <2>1. \A u, v \in Tasks : (IsUpload(u) /\ Under(v, "purge"))' /\ (task'[u].m = task'[v].m \/ task'[u].key = task'[v].key)
            => task'[u].m \in purgedUnder'
      BY <1>0, <1>1, <1>2, <1>3, <1>5, <1>7, NoCallMoves DEF MeetInv
  <2>2. \A u, v \in Tasks : u # v /\ IsUpload(u)' /\ IsUpload(v)' /\ task'[u].m = task'[v].m => task'[u].m \in restarted'
      BY <1>0, <1>1, <1>2, <1>3, <1>5, <1>7, NoCallMoves DEF MeetInv
  <2>3. \A u, v \in Tasks : u # v /\ MediaCall(u)' /\ MediaCall(v)' /\ task'[u].m = task'[v].m => task'[u].m \in busy'
      BY <1>0, <1>1, <1>2, <1>5, <1>6, NoCallMoves DEF MeetInv
  <2> QED BY <2>1, <2>2, <2>3 DEF MeetInv
<1>11. RowInv'
  <2>1. \A p \in {"claim", "row", "count", "blob", "told", "mark"} : At(t, p)' => p = "row" /\ task'[t].m = m /\ task'[t].key = objects[m].key
      BY <1>2 DEF At
  <2>2. \A n \in Media : (IsRow(n)' <=> IsRow(n)) /\ (IsReady(n)' <=> IsReady(n))
      BY <1>4 DEF IsRow, IsReady
  <2>3. KeysOfRows'  BY <1>4, <2>2 DEF RowInv, KeysOfRows
  <2>4. CallsHaveRows'  BY <1>0, <1>1, <1>2, <1>4, NoCallMoves DEF RowInv, CallsHaveRows, IsRow
  <2>5. \A u \in Tasks : IsUpload(u) \/ At(u, "claim") \/ At(u, "row") => task[u].m \in Media
      BY MediaPlaces
  <2>6. UploadsHaveRows'
      BY <1>0, <1>1, <1>2, <1>3, <1>5, <2>2, <2>5, NoCallMoves DEF RowInv, UploadsHaveRows
  <2>7. UploadsMakeReady'
      BY <1>0, <1>1, <1>2, <1>3, <1>5, <2>2, <2>5, NoCallMoves DEF RowInv, UploadsMakeReady
  <2>8. PurgesKnowTheKey'
      BY <1>0, <1>1, <1>4, <1>5, <2>1, <2>2, <2>5, NoCallMoves DEF RowInv, PurgesKnowTheKey
  <2>9. PurgesDelete'  BY <1>0, <1>1, <1>2, <1>4, <2>1, NoCallMoves DEF RowInv, PurgesDelete
  <2> QED BY <2>3, <2>4, <2>6, <2>7, <2>8, <2>9 DEF RowInv
<1>12. BytesInv'
  <2>1. \A p \in {"count", "blob", "mark"} : ~At(t, p)' /\ ~At(t, p)
      BY <1>0, <1>1, <1>2, NoCallMoves DEF At
  <2>2. MarksHaveBytes'
      BY <1>0, <1>1, <1>4, <1>5, <2>1, NoCallMoves DEF BytesInv, MarksHaveBytes, Excused
  <2>3. SharedIsMet'  BY <1>0, <1>1, <1>4, <1>5, <2>1, NoCallMoves DEF BytesInv, SharedIsMet, IsRow
  <2>4. ReadyHasBytes'  BY <1>4, <1>5 DEF BytesInv, ReadyHasBytes, Excused, IsReady
  <2>5. BytesAreHeld'
    <3> SUFFICES ASSUME failures = 0, purgedUnder = {}, restarted = {}, NEW k \in blobs, Held(k) PROVE Held(k)'
        BY <1>4, <1>5 DEF BytesInv, BytesAreHeld
    <3> QED BY <1>0, <1>1, <1>4, <2>1, NoCallMoves DEF Held, IsReady
  <2> QED BY <2>2, <2>3, <2>4, <2>5 DEF BytesInv
<1>13. EventInv'
  <2> SUFFICES ASSUME failures = 0, NEW n \in Media \ busy' PROVE EventOf(n)'  BY <1>4 DEF EventInv
  <2>1. EventOf(n)  BY <1>5 DEF EventInv
  <2>2. (IsReady(n)' <=> IsReady(n)) /\ (IsRow(n)' <=> IsRow(n))  BY <1>4 DEF IsRow, IsReady
  <2>3. ~At(t, "told")' /\ task'[t].m = m  BY <1>2 DEF At
  <2>4. IsReady(n)' /\ (\A u \in Tasks : IsUpload(u)' /\ task'[u].m = n => ~At(u, "told")') => fileEvent'[n] \in {"uploaded", "transcoded"}
      BY <1>0, <1>1, <1>4, <2>1, <2>2, NoCallMoves DEF EventOf
  <2>5. objects'[n].status = "deleted" /\ (\A u \in Tasks : Purges(u)' => task'[u].m # n) => fileEvent'[n] = "deleted"
      BY <1>0, <1>1, <1>4, <2>1, NoCallMoves DEF EventOf
  <2>6. \A u \in Tasks : MediaCall(u)' /\ ~Purges(u)' /\ task'[u].m = n => IsRow(n)'
      BY <1>0, <1>1, <1>2, <2>1, <2>2, <2>3, NoCallMoves DEF EventOf
  <2>7. \A u \in Tasks : IsUpload(u)' /\ At(u, "told")' /\ task'[u].m = n => IsReady(n)'
      BY <1>0, <1>1, <2>1, <2>2, <2>3, NoCallMoves DEF EventOf
  <2> QED BY <2>4, <2>5, <2>6, <2>7 DEF EventOf
<1> QED BY <1>9, <1>10, <1>11, <1>12, <1>13

LEMMA BeginConsumeKeeps == ASSUME MediaInv, NEW t \in Tasks, NEW m \in Media, BeginConsume(t, m) PROVE MediaInv'
<1> USE DEF MediaInv
<1> DEFINE rec == [op |-> "purge", m |-> m, key |-> objects[m].key, at |-> "claim"]
<1>0. rec \in MediaTasks
  <2>1. objects[m].key \in ObjectKeys \cup {NoKey}  BY DEF MediaTyped, MediaTypeOK
  <2> QED BY <2>1 DEF MediaTasks
<1>1. MediaStarts(t, rec) /\ task' \in [Tasks -> MediaTasks]  BY <1>0, MediaBegins DEF BeginConsume
<1>2. IsRow(m) /\ task'[t] = rec /\ MediaCall(t)' /\ ~Purges(t)'
    BY <1>1 DEF BeginConsume, IsReady, IsRow, MediaStarts, MediaCall, IsUpload, Under, Purges, Uploads
<1>3. Under(t, "purge")' /\ ~IsUpload(t)'  BY <1>2 DEF IsUpload, Under, Uploads
<1>4. objects' = objects /\ blobs' = blobs /\ failures' = failures /\ fileEvent' = fileEvent /\ trusting' = trusting
    BY DEF BeginConsume
<1>5. purgedUnder \subseteq purgedUnder' /\ restarted \subseteq restarted' /\ busy \subseteq busy'
    BY DEF BeginConsume, Meeting
<1>6. \A u \in Tasks : MediaCall(u) /\ task[u].m = m => m \in busy'
    BY OnRowCalls DEF BeginConsume, Meeting
<1>7. \A u \in Tasks : IsUpload(u) /\ (task[u].m = m \/ task[u].key = objects[m].key) => task[u].m \in purgedUnder'
    BY DEF BeginConsume, Meets
<1>9. MediaTyped'
  <2>0. \A u \in Tasks : IsUpload(u) => task[u].m \in Media  BY MediaPlaces
  <2>1. MediaTypeOK'  BY <1>4, <2>0 DEF BeginConsume, Meeting, Meets, MediaTyped, MediaTypeOK
  <2>2. \A u \in Tasks : Under(u, "streamUpload")' => task'[u].key = task'[u].m
      BY <1>1, <1>2, <1>3 DEF MediaStarts, MediaTyped, Under
  <2> QED BY <1>1, <1>4, <2>1, <2>2 DEF MediaTyped
<1>10. MeetInv'
  <2>1. \A u, v \in Tasks : (IsUpload(u) /\ Under(v, "purge"))' /\ (task'[u].m = task'[v].m \/ task'[u].key = task'[v].key)
            => task'[u].m \in purgedUnder'
      BY <1>0, <1>1, <1>2, <1>3, <1>5, <1>7, NoCallMoves DEF MeetInv
  <2>2. \A u, v \in Tasks : u # v /\ IsUpload(u)' /\ IsUpload(v)' /\ task'[u].m = task'[v].m => task'[u].m \in restarted'
      BY <1>0, <1>1, <1>2, <1>3, <1>5, <1>7, NoCallMoves DEF MeetInv
  <2>3. \A u, v \in Tasks : u # v /\ MediaCall(u)' /\ MediaCall(v)' /\ task'[u].m = task'[v].m => task'[u].m \in busy'
      BY <1>0, <1>1, <1>2, <1>5, <1>6, NoCallMoves DEF MeetInv
  <2> QED BY <2>1, <2>2, <2>3 DEF MeetInv
<1>11. RowInv'
  <2>1. \A p \in {"claim", "row", "count", "blob", "told", "mark"} : At(t, p)' => p = "claim" /\ task'[t].m = m /\ task'[t].key = objects[m].key
      BY <1>2 DEF At
  <2>2. \A n \in Media : (IsRow(n)' <=> IsRow(n)) /\ (IsReady(n)' <=> IsReady(n))
      BY <1>4 DEF IsRow, IsReady
  <2>3. KeysOfRows'  BY <1>4, <2>2 DEF RowInv, KeysOfRows
  <2>4. CallsHaveRows'  BY <1>0, <1>1, <1>2, <1>4, NoCallMoves DEF RowInv, CallsHaveRows, IsRow
  <2>5. \A u \in Tasks : IsUpload(u) \/ At(u, "claim") \/ At(u, "row") => task[u].m \in Media
      BY MediaPlaces
  <2>6. UploadsHaveRows'
      BY <1>0, <1>1, <1>2, <1>3, <1>5, <2>2, <2>5, NoCallMoves DEF RowInv, UploadsHaveRows
  <2>7. UploadsMakeReady'
      BY <1>0, <1>1, <1>2, <1>3, <1>5, <2>2, <2>5, NoCallMoves DEF RowInv, UploadsMakeReady
  <2>8. PurgesKnowTheKey'
      BY <1>0, <1>1, <1>4, <1>5, <2>1, <2>2, <2>5, NoCallMoves DEF RowInv, PurgesKnowTheKey
  <2>9. PurgesDelete'  BY <1>0, <1>1, <1>2, <1>4, <2>1, NoCallMoves DEF RowInv, PurgesDelete
  <2> QED BY <2>3, <2>4, <2>6, <2>7, <2>8, <2>9 DEF RowInv
<1>12. BytesInv'
  <2>1. \A p \in {"count", "blob", "mark"} : ~At(t, p)' /\ ~At(t, p)
      BY <1>0, <1>1, <1>2, NoCallMoves DEF At
  <2>2. MarksHaveBytes'
      BY <1>0, <1>1, <1>4, <1>5, <2>1, NoCallMoves DEF BytesInv, MarksHaveBytes, Excused
  <2>3. SharedIsMet'  BY <1>0, <1>1, <1>4, <1>5, <2>1, NoCallMoves DEF BytesInv, SharedIsMet, IsRow
  <2>4. ReadyHasBytes'  BY <1>4, <1>5 DEF BytesInv, ReadyHasBytes, Excused, IsReady
  <2>5. BytesAreHeld'
    <3> SUFFICES ASSUME failures = 0, purgedUnder = {}, restarted = {}, NEW k \in blobs, Held(k) PROVE Held(k)'
        BY <1>4, <1>5 DEF BytesInv, BytesAreHeld
    <3> QED BY <1>0, <1>1, <1>4, <2>1, NoCallMoves DEF Held, IsReady
  <2> QED BY <2>2, <2>3, <2>4, <2>5 DEF BytesInv
<1>13. EventInv'
  <2> SUFFICES ASSUME failures = 0, NEW n \in Media \ busy' PROVE EventOf(n)'  BY <1>4 DEF EventInv
  <2>1. EventOf(n)  BY <1>5 DEF EventInv
  <2>2. (IsReady(n)' <=> IsReady(n)) /\ (IsRow(n)' <=> IsRow(n))  BY <1>4 DEF IsRow, IsReady
  <2>3. ~At(t, "told")' /\ task'[t].m = m  BY <1>2 DEF At
  <2>4. IsReady(n)' /\ (\A u \in Tasks : IsUpload(u)' /\ task'[u].m = n => ~At(u, "told")') => fileEvent'[n] \in {"uploaded", "transcoded"}
      BY <1>0, <1>1, <1>4, <2>1, <2>2, NoCallMoves DEF EventOf
  <2>5. objects'[n].status = "deleted" /\ (\A u \in Tasks : Purges(u)' => task'[u].m # n) => fileEvent'[n] = "deleted"
      BY <1>0, <1>1, <1>4, <2>1, NoCallMoves DEF EventOf
  <2>6. \A u \in Tasks : MediaCall(u)' /\ ~Purges(u)' /\ task'[u].m = n => IsRow(n)'
      BY <1>0, <1>1, <1>2, <2>1, <2>2, <2>3, NoCallMoves DEF EventOf
  <2>7. \A u \in Tasks : IsUpload(u)' /\ At(u, "told")' /\ task'[u].m = n => IsReady(n)'
      BY <1>0, <1>1, <2>1, <2>2, <2>3, NoCallMoves DEF EventOf
  <2> QED BY <2>4, <2>5, <2>6, <2>7 DEF EventOf
<1> QED BY <1>9, <1>10, <1>11, <1>12, <1>13

LEMMA BeginTranscodeKeeps == ASSUME MediaInv, NEW t \in Tasks, NEW m \in Media, BeginTranscode(t, m) PROVE MediaInv'
<1> USE DEF MediaInv
<1> DEFINE rec == [op |-> "transcode", m |-> m, at |-> "reread"]
<1>0. rec \in MediaTasks  BY DEF MediaTasks
<1>1. MediaStarts(t, rec) /\ task' \in [Tasks -> MediaTasks]
    BY <1>0, MediaBegins DEF BeginTranscode
<1>2. IsRow(m) /\ task'[t] = rec /\ MediaCall(t)' /\ ~Purges(t)'
    BY <1>1 DEF BeginTranscode, IsReady, IsRow, MediaStarts, MediaCall, IsUpload, Under, Purges, Uploads
<1>3. ~Under(t, "purge")' /\ ~IsUpload(t)'  BY <1>2 DEF IsUpload, Under, Uploads
<1>4. objects' = objects /\ blobs' = blobs /\ failures' = failures /\ fileEvent' = fileEvent /\ trusting' = trusting
    BY DEF BeginTranscode
<1>5. purgedUnder \subseteq purgedUnder' /\ restarted \subseteq restarted' /\ busy \subseteq busy'
    BY DEF BeginTranscode, Meeting
<1>6. \A u \in Tasks : MediaCall(u) /\ task[u].m = m => m \in busy'
    BY OnRowCalls DEF BeginTranscode, Meeting
<1>9. MediaTyped'
  <2>1. MediaTypeOK'  BY <1>4 DEF BeginTranscode, Meeting, MediaTyped, MediaTypeOK
  <2>2. \A u \in Tasks : Under(u, "streamUpload")' => task'[u].key = task'[u].m
      BY <1>1, <1>2, <1>3 DEF MediaStarts, MediaTyped, Under
  <2> QED BY <1>1, <1>4, <2>1, <2>2 DEF MediaTyped
<1>10. MeetInv'
  <2>1. \A u, v \in Tasks : (IsUpload(u) /\ Under(v, "purge"))' /\ (task'[u].m = task'[v].m \/ task'[u].key = task'[v].key)
            => task'[u].m \in purgedUnder'
      BY <1>0, <1>1, <1>2, <1>3, <1>5, NoCallMoves DEF MeetInv
  <2>2. \A u, v \in Tasks : u # v /\ IsUpload(u)' /\ IsUpload(v)' /\ task'[u].m = task'[v].m => task'[u].m \in restarted'
      BY <1>0, <1>1, <1>2, <1>3, <1>5, NoCallMoves DEF MeetInv
  <2>3. \A u, v \in Tasks : u # v /\ MediaCall(u)' /\ MediaCall(v)' /\ task'[u].m = task'[v].m => task'[u].m \in busy'
      BY <1>0, <1>1, <1>2, <1>5, <1>6, NoCallMoves DEF MeetInv
  <2> QED BY <2>1, <2>2, <2>3 DEF MeetInv
<1>11. RowInv'
  <2>1. \A p \in {"claim", "row", "count", "blob", "told", "mark"} : At(t, p)' => FALSE
      BY <1>2 DEF At
  <2>2. \A n \in Media : (IsRow(n)' <=> IsRow(n)) /\ (IsReady(n)' <=> IsReady(n))
      BY <1>4 DEF IsRow, IsReady
  <2>3. KeysOfRows'  BY <1>4, <2>2 DEF RowInv, KeysOfRows
  <2>4. CallsHaveRows'  BY <1>0, <1>1, <1>2, <1>4, NoCallMoves DEF RowInv, CallsHaveRows, IsRow
  <2>5. \A u \in Tasks : IsUpload(u) \/ At(u, "claim") \/ At(u, "row") => task[u].m \in Media
      BY MediaPlaces
  <2>6. UploadsHaveRows'
      BY <1>0, <1>1, <1>2, <1>3, <1>5, <2>2, <2>5, NoCallMoves DEF RowInv, UploadsHaveRows
  <2>7. UploadsMakeReady'
      BY <1>0, <1>1, <1>2, <1>3, <1>5, <2>2, <2>5, NoCallMoves DEF RowInv, UploadsMakeReady
  <2>8. PurgesKnowTheKey'
      BY <1>0, <1>1, <1>4, <1>5, <2>1, <2>2, <2>5, NoCallMoves DEF RowInv, PurgesKnowTheKey
  <2>9. PurgesDelete'  BY <1>0, <1>1, <1>2, <1>4, <2>1, NoCallMoves DEF RowInv, PurgesDelete
  <2> QED BY <2>3, <2>4, <2>6, <2>7, <2>8, <2>9 DEF RowInv
<1>12. BytesInv'
  <2>1. \A p \in {"count", "blob", "mark"} : ~At(t, p)' /\ ~At(t, p)
      BY <1>0, <1>1, <1>2, NoCallMoves DEF At
  <2>2. MarksHaveBytes'
      BY <1>0, <1>1, <1>4, <1>5, <2>1, NoCallMoves DEF BytesInv, MarksHaveBytes, Excused
  <2>3. SharedIsMet'  BY <1>0, <1>1, <1>4, <1>5, <2>1, NoCallMoves DEF BytesInv, SharedIsMet, IsRow
  <2>4. ReadyHasBytes'  BY <1>4, <1>5 DEF BytesInv, ReadyHasBytes, Excused, IsReady
  <2>5. BytesAreHeld'
    <3> SUFFICES ASSUME failures = 0, purgedUnder = {}, restarted = {}, NEW k \in blobs, Held(k) PROVE Held(k)'
        BY <1>4, <1>5 DEF BytesInv, BytesAreHeld
    <3> QED BY <1>0, <1>1, <1>4, <2>1, NoCallMoves DEF Held, IsReady
  <2> QED BY <2>2, <2>3, <2>4, <2>5 DEF BytesInv
<1>13. EventInv'
  <2> SUFFICES ASSUME failures = 0, NEW n \in Media \ busy' PROVE EventOf(n)'  BY <1>4 DEF EventInv
  <2>1. EventOf(n)  BY <1>5 DEF EventInv
  <2>2. (IsReady(n)' <=> IsReady(n)) /\ (IsRow(n)' <=> IsRow(n))  BY <1>4 DEF IsRow, IsReady
  <2>3. ~At(t, "told")' /\ task'[t].m = m  BY <1>2 DEF At
  <2>4. IsReady(n)' /\ (\A u \in Tasks : IsUpload(u)' /\ task'[u].m = n => ~At(u, "told")') => fileEvent'[n] \in {"uploaded", "transcoded"}
      BY <1>0, <1>1, <1>4, <2>1, <2>2, NoCallMoves DEF EventOf
  <2>5. objects'[n].status = "deleted" /\ (\A u \in Tasks : Purges(u)' => task'[u].m # n) => fileEvent'[n] = "deleted"
      BY <1>0, <1>1, <1>4, <2>1, NoCallMoves DEF EventOf
  <2>6. \A u \in Tasks : MediaCall(u)' /\ ~Purges(u)' /\ task'[u].m = n => IsRow(n)'
      BY <1>0, <1>1, <1>2, <2>1, <2>2, <2>3, NoCallMoves DEF EventOf
  <2>7. \A u \in Tasks : IsUpload(u)' /\ At(u, "told")' /\ task'[u].m = n => IsReady(n)'
      BY <1>0, <1>1, <2>1, <2>2, <2>3, NoCallMoves DEF EventOf
  <2> QED BY <2>4, <2>5, <2>6, <2>7 DEF EventOf
<1> QED BY <1>9, <1>10, <1>11, <1>12, <1>13

LEMMA MediaInvInit == ASSUME TasksInit, MediaInit PROVE MediaInv
<1>1. \A t \in Tasks : /\ task[t] = New /\ ~IsUpload(t) /\ ~Under(t, "purge") /\ ~MediaCall(t) /\ ~Purges(t) /\ ~Under(t, "streamUpload")
                       /\ \A p \in {"claim", "row", "count", "blob", "mark", "told"} : ~At(t, p)
    BY DEF TasksInit, IsUpload, Under, MediaCall, Purges, At, New
<1>2. \A m \in Media : objects[m] = NoRow /\ ~IsRow(m) /\ ~IsReady(m) /\ objects[m].key = NoKey /\ objects[m].status = "absent"
    BY DEF MediaInit, NoRow, IsRow, IsReady
<1>3. MediaTyped
  <2>1. task \in [Tasks -> MediaTasks] /\ failures \in Nat  BY DEF TasksInit, MediaTasks
  <2>2. MediaTypeOK  BY DEF MediaInit, MediaTypeOK, NoRow
  <2> QED BY <1>1, <2>1, <2>2 DEF MediaTyped
<1>4. MeetInv  BY <1>1 DEF MeetInv
<1>5. RowInv
    BY <1>1, <1>2 DEF RowInv, KeysOfRows, CallsHaveRows, UploadsHaveRows, UploadsMakeReady, PurgesKnowTheKey, PurgesDelete
<1>6. BytesInv
    BY <1>1, <1>2 DEF BytesInv, MarksHaveBytes, SharedIsMet, ReadyHasBytes, BytesAreHeld, MediaInit
<1>7. EventInv  BY <1>1, <1>2 DEF EventInv, EventOf
<1> QED BY <1>3, <1>4, <1>5, <1>6, <1>7 DEF MediaInv

LEMMA MediaInvNext == ASSUME MediaInv, MediaNext PROVE MediaInv'
<1>1. CASE UploadRequests  BY <1>1, InitUploadKeeps, BeginUploadKeeps DEF UploadRequests
<1>2. CASE RemovalRequests  BY <1>2, BeginDeleteKeeps, BeginConsumeKeeps DEF RemovalRequests
<1>3. CASE RenditionRequests  BY <1>3, BeginTranscodeKeeps DEF RenditionRequests
<1>4. ASSUME NEW t \in Tasks,
             \/ FindByHash(t) \/ Exists(t) \/ PutObject(t) \/ StreamBreaks(t) \/ MarkReady(t)
             \/ ClaimViewOnce(t) \/ DeleteRow(t) \/ CountOthers(t) \/ DeleteObject(t)
             \/ ReadAgain(t) \/ TellFile(t) \/ FailMedia(t)
      PROVE  MediaInv'
    BY <1>4, FindByHashKeeps, ExistsKeeps, PutObjectKeeps, StreamBreaksKeeps, MarkReadyKeeps, ClaimViewOnceKeeps, DeleteRowKeeps,
       CountOthersKeeps, DeleteObjectKeeps, ReadAgainKeeps, TellFileKeeps, FailMediaKeeps
<1> QED BY <1>1, <1>2, <1>3, <1>4 DEF MediaNext

LEMMA MediaInvStays == ASSUME MediaInv, UNCHANGED <<taskVars, mediaVars>> PROVE MediaInv'
    BY DEF taskVars, mediaVars, MediaInv, MediaTyped, MediaTypeOK, Under, Uploads, IsUpload, MediaCall, Purges, At, IsRow, IsReady,
           MeetInv, RowInv, KeysOfRows, CallsHaveRows, UploadsHaveRows, UploadsMakeReady, PurgesKnowTheKey, PurgesDelete,
           BytesInv, MarksHaveBytes, SharedIsMet, ReadyHasBytes, BytesAreHeld, Held, Excused, EventInv, EventOf

LEMMA MediaInvHolds == ASSUME MediaInv PROVE BytesFollowRows
<1>1. ReadyHasItsBytes
    BY DEF MediaInv, BytesInv, ReadyHasBytes, Excused, ReadyHasItsBytes, Lost, IsReady
<1>2. UnreferencedIsRemoved
    BY DEF MediaInv, BytesInv, BytesAreHeld, Held, At, UnreferencedIsRemoved
<1>3. FileEventsFollow
  <2> SUFFICES ASSUME failures = 0, NEW m \in Media \ busy, ~OnRow(m)
               PROVE  /\ IsReady(m) => fileEvent[m] \in {"uploaded", "transcoded"}
                      /\ objects[m].status = "deleted" => fileEvent[m] = "deleted"
      BY DEF FileEventsFollow
  <2>1. \A t \in Tasks : (IsUpload(t) => MediaCall(t)) /\ (Purges(t) => MediaCall(t))
      BY DEF MediaCall, Purges
  <2> QED BY <2>1, OnRowCalls DEF MediaInv, EventInv, EventOf
<1> QED BY <1>1, <1>2, <1>3 DEF BytesFollowRows
----------------------------------------------------------------------------
(* Backups                                                                 *)

BackupTasks ==
    {New, Failed}
    \cup [op : {"upload"}, version : BackupVersions, at : {"object", "insert"}]
    \cup [op : {"upload"}, at : {"over"}]

BackupTyped == BackupTypeOK /\ task \in [Tasks -> BackupTasks] /\ failures \in Nat

\* Whoever inserted a version is over, and inserted no other.
InsertedOnce ==
    /\ \A v \in BackupVersions : IsVersion(v) => task[backups[v]].at \notin {"new", "object", "insert"}
    /\ \A v, w \in BackupVersions : IsVersion(v) /\ backups[v] = backups[w] => v = w

\* Two uploads under way are alongside, and so are one that has a version another inserted, and that other; and what is under
\* the key of an upload that has stored is its own, or that of one alongside.
AlongsideInv ==
    /\ \A t, u \in Uploading : t # u => t \in alongside
    /\ \A t \in Uploading : IsVersion(task[t].version) => {t, backups[task[t].version]} \subseteq alongside
    /\ \A t \in Tasks : At(t, "insert") /\ ciphers[task[t].version] # t => {t, ciphers[task[t].version]} \subseteq alongside

BackupInv == BackupTyped /\ InsertedOnce /\ AlongsideInv /\ SaltMismatchOnlyByOverlap

LEMMA LeastVersion ==
    ASSUME NEW S \in SUBSET Nat, S # {}
    PROVE  \E e \in S : \A f \in S : e <= f
<1> DEFINE T == {1..e : e \in S}
           R == StrictSubsetOrdering(Nat)
<1>1. T \subseteq FiniteSubsetsOf(Nat) /\ T # {}
  <2>1. \A e \in S : 1..e \in FiniteSubsetsOf(Nat)  BY FS_Interval DEF FiniteSubsetsOf
  <2> QED BY <2>1
<1>2. IsWellFoundedOn(R, FiniteSubsetsOf(Nat))  BY FS_StrictSubsetOrderingWellFounded
<1> HIDE DEF R
<1>3. PICK x \in T : \A y \in T : ~(<<y, x>> \in R)  BY <1>1, <1>2, WFMin
<1>4. PICK e \in S : x = 1..e  OBVIOUS
<1>5. ASSUME NEW f \in S, f < e PROVE FALSE
  <2>1. 1..f \in T /\ 1..f \subseteq x /\ 1..f # x  BY <1>4, <1>5
  <2>2. <<1..f, x>> \in R  BY <2>1, <1>4 DEF R, StrictSubsetOrdering
  <2> QED BY <1>3, <2>1, <2>2
<1> QED BY <1>5

\* An upload that starts finds a version that is not there: each that is was inserted by another call, and one has not run.
LEMMA VersionIsFree ==
    ASSUME BackupInv, NEW t \in Tasks, task[t] = New
    PROVE  VersionAfter \in BackupVersions /\ ~IsVersion(VersionAfter)
<1>1. Cardinality(Tasks) \in Nat /\ BackupVersions \subseteq Nat /\ BackupVersions = 1..Cardinality(Tasks)
    BY MediaAssumption, FS_CardinalityType DEF BackupVersions
<1>2. \E v \in BackupVersions : ~IsVersion(v)
  <2> SUFFICES ASSUME \A v \in BackupVersions : IsVersion(v) PROVE FALSE  OBVIOUS
  <2>1. IsFiniteSet(Tasks \ {t}) /\ Cardinality(Tasks \ {t}) = Cardinality(Tasks) - 1
      BY MediaAssumption, FS_RemoveElement
  <2>2. IsFiniteSet(BackupVersions) /\ Cardinality(BackupVersions) = Cardinality(Tasks)
      BY <1>1, FS_Interval
  <2>3. backups \in [BackupVersions -> Tasks \ {t}]
    <3>1. backups \in [BackupVersions -> Tasks \cup {NoUpload}]
        BY DEF BackupInv, BackupTyped, BackupTypeOK
    <3>2. \A v \in BackupVersions : backups[v] # NoUpload /\ backups[v] # t
        BY DEF BackupInv, InsertedOnce, IsVersion, New
    <3> QED BY <3>1, <3>2
  <2>4. \E v, w \in BackupVersions : v # w /\ backups[v] = backups[w]
      BY <1>1, <2>1, <2>2, <2>3, FS_PigeonHole
  <2> QED BY <2>4 DEF BackupInv, InsertedOnce
<1> DEFINE free == {v \in BackupVersions : ~IsVersion(v)}
<1>3. PICK v \in free : \A w \in free : v <= w  BY <1>1, <1>2, LeastVersion
<1>4. \A w \in 1..(v - 1) : w \in BackupVersions /\ IsVersion(w)  BY <1>1, <1>3
<1> QED BY <1>3, <1>4 DEF VersionAfter

LEMMA BackupPlaces ==
    ASSUME BackupTyped, NEW t \in Tasks
    PROVE  /\ t \in Uploading <=> Under(t, "upload")
           /\ At(t, "object") \/ At(t, "insert") <=> Under(t, "upload")
           /\ Under(t, "upload") => task[t] \in [op : {"upload"}, version : BackupVersions, at : {"object", "insert"}]
           /\ task[t].at \notin {"new", "over", "failed"} => Under(t, "upload")
<1>1. task[t] \in BackupTasks  BY DEF BackupTyped
<1> QED BY <1>1 DEF BackupTasks, New, Failed, Under, At, Uploading

LEMMA BeginBackupKeeps == ASSUME BackupInv, NEW t \in Tasks, BeginBackup(t) PROVE BackupInv'
<1> USE DEF BackupInv
<1>1. VersionAfter \in BackupVersions /\ ~IsVersion(VersionAfter)
    BY VersionIsFree DEF BeginBackup, Begins
<1> DEFINE v == VersionAfter
<1>2. /\ task[t] = New /\ task'[t] = [op |-> "upload", version |-> v, at |-> "object"]
      /\ \A u \in Tasks \ {t} : task'[u] = task[u]
      /\ task' \in [Tasks -> BackupTasks]
  <2>1. [op |-> "upload", version |-> v, at |-> "object"] \in BackupTasks  BY <1>1 DEF BackupTasks
  <2>2. task \in [Tasks -> BackupTasks] /\ task[t] = New /\ task' = [task EXCEPT ![t] = [op |-> "upload", version |-> v, at |-> "object"]]
      BY DEF BackupTyped, BeginBackup, Begins
  <2> HIDE DEF v
  <2> QED BY <2>1, <2>2
<1> HIDE DEF v
<1>3. backups' = backups /\ ciphers' = ciphers /\ failures' = failures  BY DEF BeginBackup
<1>4. BackupTyped'  BY <1>2, <1>3 DEF BackupTyped, BackupTypeOK, BeginBackup, Uploading
<1>5. InsertedOnce'  BY <1>2, <1>3 DEF InsertedOnce, IsVersion, BackupTyped, BackupTypeOK, New
<1>6. \A u \in Tasks : /\ u \in Uploading' <=> u = t \/ u \in Uploading
                       /\ u # t => (At(u, "insert")' <=> At(u, "insert")) /\ task'[u].version = task[u].version
    BY <1>2 DEF Uploading, Under, At
<1>7. alongside \subseteq alongside' /\ (\A u \in Uploading : {u, t} \subseteq alongside')
    BY DEF BeginBackup
<1>8. AlongsideInv'
  <2>1. \A r, u \in Uploading' : r # u => r \in alongside'
      BY <1>6, <1>7 DEF AlongsideInv, Uploading
  <2>2. \A u \in Uploading' : IsVersion(task[u].version)' => {u, backups'[task'[u].version]} \subseteq alongside'
    <3> SUFFICES ASSUME NEW u \in Uploading', IsVersion(task[u].version)' PROVE {u, backups'[task'[u].version]} \subseteq alongside'
        OBVIOUS
    <3>1. u # t  BY <1>1, <1>2, <1>3 DEF IsVersion, v
    <3> QED BY <1>3, <1>6, <1>7, <3>1 DEF AlongsideInv, IsVersion, Uploading
  <2>3. \A u \in Tasks : At(u, "insert")' /\ ciphers'[task'[u].version] # u => {u, ciphers'[task'[u].version]} \subseteq alongside'
    <3>1. ~At(t, "insert")'  BY <1>2 DEF At
    <3> QED BY <1>3, <1>6, <1>7, <3>1 DEF AlongsideInv
  <2> QED BY <2>1, <2>2, <2>3 DEF AlongsideInv
<1>9. SaltMismatchOnlyByOverlap'  BY <1>3, <1>7 DEF SaltMismatchOnlyByOverlap, IsVersion
<1> QED BY <1>4, <1>5, <1>8, <1>9

LEMMA PutBackupKeeps == ASSUME BackupInv, NEW t \in Tasks, PutBackup(t) PROVE BackupInv'
<1> USE DEF BackupInv
<1> DEFINE v == task[t].version
<1>1. t \in Uploading /\ v \in BackupVersions /\ task[t] \in [op : {"upload"}, version : BackupVersions, at : {"object", "insert"}]
    BY BackupPlaces DEF PutBackup
<1>2. /\ task'[t] = [task[t] EXCEPT !.at = "insert"] /\ task'[t] \in BackupTasks
      /\ task'[t].version = v /\ task'[t].at = "insert" /\ task'[t].op = "upload"
      /\ \A u \in Tasks \ {t} : task'[u] = task[u]
      /\ task' \in [Tasks -> BackupTasks]
  <2>1. task \in [Tasks -> BackupTasks] /\ task' = [task EXCEPT ![t] = [task[t] EXCEPT !.at = "insert"]]
      BY DEF BackupTyped, PutBackup, Goes
  <2>2. [task[t] EXCEPT !.at = "insert"] \in [op : {"upload"}, version : BackupVersions, at : {"object", "insert"}]
        /\ [task[t] EXCEPT !.at = "insert"].version = v /\ [task[t] EXCEPT !.at = "insert"].at = "insert" /\ [task[t] EXCEPT !.at = "insert"].op = "upload"
      BY <1>1
  <2>3. [task[t] EXCEPT !.at = "insert"] \in BackupTasks  BY <2>2 DEF BackupTasks
  <2> QED BY <2>1, <2>2, <2>3
<1>3. backups' = backups /\ alongside' = alongside /\ failures' = failures
      /\ ciphers' \in [BackupVersions -> Tasks \cup {NoUpload}] /\ ciphers'[v] = t
      /\ \A w \in BackupVersions \ {v} : ciphers'[w] = ciphers[w]
    BY <1>1 DEF PutBackup, BackupTyped, BackupTypeOK
<1>4. BackupTyped'  BY <1>2, <1>3 DEF BackupTyped, BackupTypeOK
<1>5. InsertedOnce'
    BY <1>1, <1>2, <1>3 DEF InsertedOnce, IsVersion, BackupTyped, BackupTypeOK, Uploading, Under, At, PutBackup
<1>6. \A u \in Tasks : /\ u \in Uploading' <=> u \in Uploading
                       /\ task'[u].version = task[u].version
                       /\ u # t => (At(u, "insert")' <=> At(u, "insert"))
    BY <1>1, <1>2 DEF Uploading, Under, At
<1>7. AlongsideInv'
  <2>1. \A r, u \in Uploading' : r # u => r \in alongside'
      BY <1>3, <1>6 DEF AlongsideInv, Uploading
  <2>2. \A u \in Uploading' : IsVersion(task[u].version)' => {u, backups'[task'[u].version]} \subseteq alongside'
      BY <1>3, <1>6 DEF AlongsideInv, IsVersion, Uploading
  <2>3. \A u \in Tasks : At(u, "insert")' /\ ciphers'[task'[u].version] # u => {u, ciphers'[task'[u].version]} \subseteq alongside'
    <3> SUFFICES ASSUME NEW u \in Tasks, At(u, "insert")', ciphers'[task'[u].version] # u
                 PROVE  {u, ciphers'[task'[u].version]} \subseteq alongside'
        OBVIOUS
    <3>1. u # t /\ At(u, "insert") /\ u \in Uploading /\ task[u].version \in BackupVersions /\ task'[u].version = task[u].version
        BY <1>2, <1>3, <1>6, BackupPlaces
    <3>2. CASE task[u].version = v  BY <1>1, <1>3, <3>1, <3>2 DEF AlongsideInv
    <3>3. CASE task[u].version # v  BY <1>3, <3>1, <3>3 DEF AlongsideInv
    <3> QED BY <3>2, <3>3
  <2> QED BY <2>1, <2>2, <2>3 DEF AlongsideInv
<1>8. SaltMismatchOnlyByOverlap'
    BY <1>1, <1>3 DEF SaltMismatchOnlyByOverlap, AlongsideInv, IsVersion
<1> QED BY <1>4, <1>5, <1>7, <1>8

\* An insert, or a failure at any place.
LEMMA BackupEnds ==
    ASSUME BackupInv, NEW t \in Uploading, task' \in [Tasks -> BackupTasks], task'[t].at \in {"over", "failed"},
           \A u \in Tasks \ {t} : task'[u] = task[u]
    PROVE  /\ \A u \in Uploading' : u \in Uploading /\ u # t
           /\ \A u \in Tasks \ {t} : (At(u, "insert")' <=> At(u, "insert")) /\ task'[u].version = task[u].version
           /\ ~At(t, "insert")'
    BY DEF Uploading, Under, At

LEMMA InsertBackupKeeps == ASSUME BackupInv, NEW t \in Tasks, InsertBackup(t) PROVE BackupInv'
<1> USE DEF BackupInv
<1> DEFINE v == task[t].version
<1>1. t \in Uploading /\ v \in BackupVersions /\ task[t].op = "upload"
    BY BackupPlaces DEF InsertBackup
<1>2. task' \in [Tasks -> BackupTasks] /\ task'[t].at = "over" /\ (\A u \in Tasks \ {t} : task'[u] = task[u])
  <2>1. task \in [Tasks -> BackupTasks] /\ task' = [task EXCEPT ![t] = [op |-> task[t].op, at |-> "over"]]
      BY DEF BackupTyped, InsertBackup, Ends
  <2>2. [op |-> task[t].op, at |-> "over"] \in BackupTasks  BY <1>1 DEF BackupTasks
  <2> QED BY <2>1, <2>2
<1>3. /\ \A u \in Uploading' : u \in Uploading /\ u # t
      /\ \A u \in Tasks \ {t} : (At(u, "insert")' <=> At(u, "insert")) /\ task'[u].version = task[u].version
      /\ ~At(t, "insert")'
    BY <1>1, <1>2, BackupEnds
<1>4. ciphers' = ciphers /\ alongside' = alongside /\ failures' = failures  BY DEF InsertBackup
<1>5. /\ backups' \in [BackupVersions -> Tasks \cup {NoUpload}]
      /\ \A w \in BackupVersions \ {v} : backups'[w] = backups[w]
      /\ IsVersion(v) => backups'[v] = backups[v]
      /\ ~IsVersion(v) => backups'[v] = t
    BY <1>1 DEF InsertBackup, BackupTyped, BackupTypeOK
<1>6. BackupTyped'  BY <1>2, <1>4, <1>5 DEF BackupTyped, BackupTypeOK
<1>7. \A w \in BackupVersions : IsVersion(w) => backups[w] # t /\ backups[w] \in Tasks
    BY <1>1, BackupPlaces DEF InsertedOnce, IsVersion, BackupTyped, BackupTypeOK
<1>8. InsertedOnce'  BY <1>1, <1>2, <1>5, <1>7, MediaAssumption DEF InsertedOnce, IsVersion
<1>9. AlongsideInv'
  <2>1. \A r, u \in Uploading' : r # u => r \in alongside'  BY <1>3, <1>4 DEF AlongsideInv
  <2>2. \A u \in Uploading' : IsVersion(task[u].version)' => {u, backups'[task'[u].version]} \subseteq alongside'
    <3> SUFFICES ASSUME NEW u \in Uploading', IsVersion(task[u].version)' PROVE {u, backups'[task'[u].version]} \subseteq alongside'
        OBVIOUS
    <3>1. u \in Uploading /\ u # t /\ task'[u].version = task[u].version /\ task[u].version \in BackupVersions
        BY <1>3, BackupPlaces DEF Uploading
    <3>2. {u, t} \subseteq alongside'  BY <1>1, <1>4, <3>1 DEF AlongsideInv
    <3> QED BY <1>4, <1>5, <3>1, <3>2 DEF AlongsideInv, IsVersion
  <2>3. \A u \in Tasks : At(u, "insert")' /\ ciphers'[task'[u].version] # u => {u, ciphers'[task'[u].version]} \subseteq alongside'
      BY <1>3, <1>4 DEF AlongsideInv
  <2> QED BY <2>1, <2>2, <2>3 DEF AlongsideInv
<1>10. SaltMismatchOnlyByOverlap'
    BY <1>1, <1>4, <1>5 DEF SaltMismatchOnlyByOverlap, AlongsideInv, IsVersion, InsertBackup
<1> QED BY <1>6, <1>8, <1>9, <1>10

LEMMA FailBackupKeeps == ASSUME BackupInv, NEW t \in Tasks, FailBackup(t) PROVE BackupInv'
<1> USE DEF BackupInv
<1>1. t \in Uploading  BY BackupPlaces DEF FailBackup, Fails
<1>2. task' \in [Tasks -> BackupTasks] /\ task'[t].at = "failed" /\ (\A u \in Tasks \ {t} : task'[u] = task[u])
  <2>1. task \in [Tasks -> BackupTasks] /\ task' = [task EXCEPT ![t] = Failed] /\ Failed \in BackupTasks
      BY DEF BackupTyped, FailBackup, Fails, BackupTasks
  <2> QED BY <2>1 DEF Failed
<1>3. /\ \A u \in Uploading' : u \in Uploading /\ u # t
      /\ \A u \in Tasks \ {t} : (At(u, "insert")' <=> At(u, "insert")) /\ task'[u].version = task[u].version
      /\ ~At(t, "insert")'
    BY <1>1, <1>2, BackupEnds
<1>4. ciphers' = ciphers /\ alongside' = alongside /\ backups' = backups /\ failures' \in Nat
    BY DEF FailBackup, backupVars, Fails, BackupTyped
<1>5. BackupTyped'  BY <1>2, <1>4 DEF BackupTyped, BackupTypeOK
<1>6. InsertedOnce'  BY <1>2, <1>4 DEF InsertedOnce, IsVersion, BackupTyped, BackupTypeOK
<1>7. AlongsideInv'  BY <1>3, <1>4 DEF AlongsideInv, IsVersion, Uploading
<1>8. SaltMismatchOnlyByOverlap'  BY <1>4 DEF SaltMismatchOnlyByOverlap, IsVersion
<1> QED BY <1>5, <1>6, <1>7, <1>8

LEMMA BackupInvInit == ASSUME TasksInit, BackupInit PROVE BackupInv
<1>1. task \in [Tasks -> BackupTasks] /\ failures \in Nat /\ \A t \in Tasks : task[t] = New
    BY DEF TasksInit, BackupTasks
<1>2. \A t \in Tasks : t \notin Uploading /\ ~At(t, "insert")  BY <1>1 DEF Uploading, Under, At, New
<1>3. \A v \in BackupVersions : ~IsVersion(v)  BY DEF BackupInit, IsVersion
<1>4. BackupTypeOK  BY DEF BackupInit, BackupTypeOK
<1>5. Uploading \subseteq Tasks  BY DEF Uploading
<1> QED BY <1>1, <1>2, <1>3, <1>4, <1>5 DEF BackupInv, BackupTyped, InsertedOnce, AlongsideInv, SaltMismatchOnlyByOverlap

LEMMA BackupInvNext == ASSUME BackupInv, BackupNext PROVE BackupInv'
    BY BeginBackupKeeps, PutBackupKeeps, InsertBackupKeeps, FailBackupKeeps DEF BackupNext

LEMMA BackupInvStays == ASSUME BackupInv, UNCHANGED <<taskVars, backupVars>> PROVE BackupInv'
    BY DEF taskVars, backupVars, BackupInv, BackupTyped, BackupTypeOK, InsertedOnce, AlongsideInv, SaltMismatchOnlyByOverlap,
           IsVersion, Uploading, Under, At
----------------------------------------------------------------------------
(* Status posts                                                            *)

StatusTasks ==
    {New, Failed}
    \cup [op : Marks, s : Posts, at : {"relationship", "mark"}]
    \cup [op : {"expire"}, left : SUBSET Posts, at : {"tell", "purge"}]
    \cup [op : Marks \cup {"expire"}, at : {"over"}]

StatusTyped == StatusTypeOK /\ task \in [Tasks -> StatusTasks] /\ failures \in Nat

\* A tick has marked whatever it has yet to tell, and no other tick tells it.
TicksInv ==
    /\ \A t \in Tasks : Under(t, "expire") => \A s \in task[t].left : posts[s] = "expired" /\ told[s] = 0
    /\ \A t, u \in Tasks : t # u /\ Under(t, "expire") /\ Under(u, "expire") => task[t].left \cap task[u].left = {}
    /\ \A t \in Tasks : At(t, "purge") => task[t].left = {}

StatusInv == StatusTyped /\ TicksInv /\ ExpiryToldOnce

LEMMA StatusPlaces ==
    ASSUME StatusTyped, NEW t \in Tasks
    PROVE  /\ At(t, "relationship") \/ At(t, "mark")
                  => task[t] \in [op : Marks, s : Posts, at : {"relationship", "mark"}] /\ ~Under(t, "expire")
           /\ Under(t, "expire") <=> At(t, "tell") \/ At(t, "purge")
           /\ Under(t, "expire") => task[t] \in [op : {"expire"}, left : SUBSET Posts, at : {"tell", "purge"}]
           /\ task[t] = New => ~Under(t, "expire") /\ ~At(t, "purge")
           /\ task[t].at \notin {"new", "over", "failed"} => task[t].op \in Marks \cup {"expire"}
<1>1. task[t] \in StatusTasks  BY DEF StatusTyped
<1> QED BY <1>1 DEF StatusTasks, New, Failed, Under, At, Marks

\* The ticks still to tell are those of before.
TicksStay ==
    /\ \A t \in Tasks : Under(t, "expire")' <=> Under(t, "expire")
    /\ \A t \in Tasks : Under(t, "expire") => task'[t].left = task[t].left
    /\ \A t \in Tasks : At(t, "purge")' => At(t, "purge") /\ task'[t].left = task[t].left

LEMMA TellingIs == \A s : s \in Telling <=> \E t \in Tasks : Under(t, "expire") /\ s \in task[t].left
    BY DEF Telling

LEMMA TicksKept ==
    ASSUME StatusInv, TicksStay, told' = told, untold \subseteq untold', failures' = failures,
           \A s \in Posts : posts'[s] = "expired" <=> posts[s] = "expired"
    PROVE  TicksInv' /\ ExpiryToldOnce'
<1>1. TicksInv'
  <2>1. \A t \in Tasks : Under(t, "expire") => task[t].left \subseteq Posts
      BY StatusPlaces DEF StatusInv
  <2> QED BY <2>1 DEF StatusInv, TicksInv, TicksStay
<1>2. \A s : s \in Telling => s \in Telling'  BY TellingIs DEF TicksStay, Telling
<1>3. ExpiryToldOnce'  BY <1>2 DEF StatusInv, ExpiryToldOnce
<1> QED BY <1>1, <1>3

LEMMA StatusTaskMoves ==
    ASSUME StatusTyped, NEW t \in Tasks, NEW r, task' = [task EXCEPT ![t] = r]
    PROVE  task'[t] = r /\ (\A u \in Tasks \ {t} : task'[u] = task[u]) /\ (r \in StatusTasks => task' \in [Tasks -> StatusTasks])
    BY DEF StatusTyped

LEMMA StatusCallKeeps ==
    ASSUME StatusInv, NEW t \in Tasks, NEW r \in StatusTasks, task' = [task EXCEPT ![t] = r],
           r.at \in {"relationship", "mark", "over"}, task[t] = New \/ At(t, "relationship") \/ At(t, "mark") \/ (At(t, "purge") /\ task[t].left = {})
                \/ (At(t, "tell") /\ task[t].left = {}),
           r.at # "over" => ~Under(t, "expire") /\ r.op # "expire",
           UNCHANGED <<posts, told, untold, failures>>
    PROVE  TicksInv' /\ ExpiryToldOnce'
<1>1. task'[t] = r /\ (\A u \in Tasks \ {t} : task'[u] = task[u])  BY StatusTaskMoves DEF StatusInv
<1>2. /\ ~Under(t, "expire")' /\ ~At(t, "purge")'
      /\ \A u \in Tasks \ {t} : /\ Under(u, "expire")' <=> Under(u, "expire")
                                /\ At(u, "purge")' <=> At(u, "purge")
    BY <1>1 DEF Under, At
<1>3. Under(t, "expire") => task[t].left = {}  BY StatusPlaces DEF StatusInv, At
<1>4. TicksInv'  BY <1>1, <1>2 DEF StatusInv, TicksInv
<1>5. \A s : s \in Telling => s \in Telling'
  <2>1. \A s : s \in Telling <=> \E u \in Tasks \ {t} : Under(u, "expire") /\ s \in task[u].left
      BY <1>3, TellingIs
  <2>2. \A s : (\E u \in Tasks \ {t} : Under(u, "expire")' /\ s \in task'[u].left) => s \in Telling'
      BY DEF Telling
  <2> QED BY <1>1, <1>2, <2>1, <2>2
<1>6. ExpiryToldOnce'  BY <1>5 DEF StatusInv, ExpiryToldOnce
<1> QED BY <1>4, <1>6

LEMMA StatusCallsKeep ==
    ASSUME StatusInv, NEW t \in Tasks,
           (\E s \in Posts, op \in Marks : BeginMark(t, s, op)) \/ Relationship(t) \/ RecordMark(t) \/ PurgeAfterGrace(t)
    PROVE  StatusInv'
<1> USE DEF StatusInv
<1>1. UNCHANGED <<posts, told, untold, failures, due>>
    BY DEF BeginMark, Relationship, RecordMark, PurgeAfterGrace, statusVars
<1>2. ASSUME NEW s \in Posts, NEW op \in Marks, BeginMark(t, s, op) PROVE TicksInv' /\ ExpiryToldOnce' /\ StatusTyped'
  <2> DEFINE r == [op |-> op, s |-> s, at |-> "relationship"]
  <2>1. task[t] = New /\ task' = [task EXCEPT ![t] = r] /\ r \in StatusTasks /\ r.at = "relationship" /\ r.op # "expire"
      BY <1>2 DEF BeginMark, Begins, StatusTasks, Marks
  <2>2. ~Under(t, "expire")  BY <2>1, StatusPlaces
  <2> HIDE DEF r
  <2>3. TicksInv' /\ ExpiryToldOnce'  BY <1>1, <2>1, <2>2, StatusCallKeeps
  <2> QED BY <1>2, <2>1, <2>3, StatusTaskMoves DEF StatusTyped, StatusTypeOK, BeginMark, statusVars
<1>3. ASSUME Relationship(t) \/ RecordMark(t) PROVE TicksInv' /\ ExpiryToldOnce' /\ StatusTyped'
  <2>1. (At(t, "relationship") \/ At(t, "mark")) /\ task[t] \in [op : Marks, s : Posts, at : {"relationship", "mark"}] /\ ~Under(t, "expire")
      BY <1>3, StatusPlaces DEF Relationship, RecordMark
  <2>2. PICK r \in StatusTasks : task' = [task EXCEPT ![t] = r] /\ r.at \in {"mark", "over"} /\ r.op # "expire"
    <3>1. CASE Goes(t, "mark")
      <4> DEFINE r == [task[t] EXCEPT !.at = "mark"]
      <4>1. r \in [op : Marks, s : Posts, at : {"relationship", "mark"}] /\ r.at = "mark" /\ r.op # "expire"
          BY <2>1 DEF Marks
      <4>2. task' = [task EXCEPT ![t] = r]  BY <3>1 DEF Goes
      <4> HIDE DEF r
      <4> QED BY <4>1, <4>2 DEF StatusTasks
    <3>2. CASE Ends(t)
      <4> DEFINE r == [op |-> task[t].op, at |-> "over"]
      <4>1. r \in StatusTasks /\ r.at = "over" /\ r.op # "expire"  BY <2>1 DEF StatusTasks, Marks
      <4>2. task' = [task EXCEPT ![t] = r]  BY <3>2 DEF Ends
      <4> HIDE DEF r
      <4> QED BY <4>1, <4>2
    <3> QED BY <1>3, <3>1, <3>2 DEF Relationship, RecordMark
  <2>3. TicksInv' /\ ExpiryToldOnce'  BY <1>1, <2>1, <2>2, StatusCallKeeps
  <2>4. views' \in SUBSET (Posts \X Marks) /\ purged' = purged
      BY <1>3, <2>1 DEF Relationship, RecordMark, statusVars, StatusTyped, StatusTypeOK
  <2> QED BY <1>1, <2>2, <2>3, <2>4, StatusTaskMoves DEF StatusTyped, StatusTypeOK
<1>4. ASSUME PurgeAfterGrace(t) PROVE TicksInv' /\ ExpiryToldOnce' /\ StatusTyped'
  <2>1. At(t, "purge") /\ task[t].left = {}  BY <1>4 DEF PurgeAfterGrace, TicksInv
  <2>2. task[t].op = "expire"  BY <2>1, StatusPlaces
  <2>3. PICK r \in StatusTasks : task' = [task EXCEPT ![t] = r] /\ r.at = "over"
    <3> DEFINE r == [op |-> task[t].op, at |-> "over"]
    <3>1. r \in StatusTasks /\ r.at = "over"  BY <2>2 DEF StatusTasks
    <3>2. task' = [task EXCEPT ![t] = r]  BY <1>4 DEF PurgeAfterGrace, Ends
    <3> HIDE DEF r
    <3> QED BY <3>1, <3>2
  <2>4. TicksInv' /\ ExpiryToldOnce'  BY <1>1, <2>1, <2>3, StatusCallKeeps
  <2>5. views' \in SUBSET (Posts \X Marks) /\ purged' \in SUBSET Posts
      BY <1>4 DEF PurgeAfterGrace, StatusTyped, StatusTypeOK
  <2> QED BY <1>1, <2>3, <2>4, <2>5, StatusTaskMoves DEF StatusTyped, StatusTypeOK
<1> QED BY <1>2, <1>3, <1>4

LEMMA StatusPostsKeep ==
    ASSUME StatusInv, NEW s \in Posts, Post(s) \/ Remove(s) \/ TimeIsUp(s)
    PROVE  StatusInv'
<1> USE DEF StatusInv
<1>1. task' = task /\ failures' = failures /\ told' = told /\ untold' = untold /\ views' = views /\ purged' = purged
    BY DEF Post, Remove, TimeIsUp, taskVars
<1>2. TicksStay  BY <1>1 DEF TicksStay, Under, At
<1>3. /\ posts' \in [Posts -> {"none", "active", "expired", "deleted"}] /\ due' \in SUBSET Posts
      /\ \A u \in Posts : posts'[u] = "expired" <=> posts[u] = "expired"
    BY DEF Post, Remove, TimeIsUp, StatusTyped, StatusTypeOK
<1>4. StatusTyped'  BY <1>1, <1>3 DEF StatusTyped, StatusTypeOK
<1> QED BY <1>1, <1>2, <1>3, <1>4, TicksKept

LEMMA MarkExpiredKeeps == ASSUME StatusInv, NEW t \in Tasks, MarkExpired(t) PROVE StatusInv'
<1> USE DEF StatusInv
<1>1. PICK D \in SUBSET ToExpire :
          /\ posts' = [s \in Posts |-> IF s \in D THEN "expired" ELSE posts[s]]
          /\ Begins(t, [op |-> "expire", left |-> D, at |-> IF D = {} THEN "purge" ELSE "tell"])
    BY DEF MarkExpired
<1>2. D \subseteq Posts /\ \A s \in D : posts[s] = "active"
    BY DEF ToExpire, StatusTyped, StatusTypeOK
<1> DEFINE r == [op |-> "expire", left |-> D, at |-> IF D = {} THEN "purge" ELSE "tell"]
<1>3. task[t] = New /\ task' = [task EXCEPT ![t] = r] /\ r \in StatusTasks /\ r.left = D /\ r.at \in {"purge", "tell"} /\ r.op = "expire"
      /\ (r.at = "purge" => D = {})
    BY <1>1, <1>2 DEF Begins, StatusTasks
<1> HIDE DEF r
<1>4. task'[t] = r /\ (\A u \in Tasks \ {t} : task'[u] = task[u]) /\ task' \in [Tasks -> StatusTasks]
    BY <1>3, StatusTaskMoves
<1>5. due' = due /\ purged' = purged /\ views' = views /\ told' = told /\ untold' = untold /\ failures' = failures
    BY DEF MarkExpired
<1>6. StatusTyped'  BY <1>1, <1>4, <1>5 DEF StatusTyped, StatusTypeOK
<1>7. ~Under(t, "expire") /\ Under(t, "expire")' /\ \A u \in Tasks \ {t} : (Under(u, "expire")' <=> Under(u, "expire")) /\ (At(u, "purge")' <=> At(u, "purge"))
    BY <1>3, <1>4, StatusPlaces DEF Under, At
<1>8. \A s \in Posts : told[s] \in {0, 1} /\ (told[s] = 1 => posts[s] = "expired")
    BY DEF StatusTyped, StatusTypeOK, ExpiryToldOnce
<1>9. \A u \in Tasks : Under(u, "expire") => task[u].left \subseteq Posts /\ \A s \in task[u].left : posts[s] = "expired" /\ told[s] = 0
    BY StatusPlaces DEF TicksInv
<1>10. TicksInv'
  <2>1. \A u \in Tasks : Under(u, "expire")' => \A s \in task'[u].left : posts'[s] = "expired" /\ told'[s] = 0
    <3>1. \A s \in D : posts'[s] = "expired" /\ told'[s] = 0  BY <1>1, <1>2, <1>5, <1>8
    <3> QED BY <1>1, <1>3, <1>4, <1>5, <1>7, <1>9, <3>1
  <2>2. \A u \in Tasks \ {t} : Under(u, "expire") => D \cap task[u].left = {}  BY <1>2, <1>9
  <2>3. \A u, v \in Tasks : u # v /\ Under(u, "expire")' /\ Under(v, "expire")' => task'[u].left \cap task'[v].left = {}
      BY <1>3, <1>4, <1>7, <2>2 DEF TicksInv
  <2>4. \A u \in Tasks : At(u, "purge")' => task'[u].left = {}  BY <1>3, <1>4, <1>7 DEF TicksInv, At
  <2> QED BY <2>1, <2>3, <2>4 DEF TicksInv
<1>11. \A s : s \in Telling \cup D => s \in Telling'
  <2>1. \A s \in D : s \in Telling'  BY <1>3, <1>4, <1>7 DEF Telling
  <2>2. \A s \in Telling : \E u \in Tasks \ {t} : Under(u, "expire")' /\ s \in task'[u].left
      BY <1>4, <1>7, TellingIs
  <2> QED BY <2>1, <2>2 DEF Telling
<1>12. ExpiryToldOnce'  BY <1>1, <1>5, <1>11 DEF ExpiryToldOnce
<1> QED BY <1>6, <1>10, <1>12

LEMMA StatusExpiredKeeps == ASSUME StatusInv, NEW t \in Tasks, StatusExpired(t) PROVE StatusInv'
<1> USE DEF StatusInv
<1>1. PICK s \in task[t].left :
          /\ GoesWith(t, "left", task[t].left \ {s}, IF task[t].left = {s} THEN "purge" ELSE "tell")
          /\ \/ told' = [told EXCEPT ![s] = @ + 1] /\ UNCHANGED untold
             \/ untold' = untold \cup {s} /\ UNCHANGED told
    BY DEF StatusExpired
<1>2. Under(t, "expire") /\ ~At(t, "purge") /\ task[t] \in [op : {"expire"}, left : SUBSET Posts, at : {"tell", "purge"}] /\ s \in Posts
    BY StatusPlaces DEF StatusExpired, At
<1> DEFINE L == task[t].left
           p == IF L = {s} THEN "purge" ELSE "tell"
           r == With(task[t], "left", L \ {s}, p)
<1>3. r = [op |-> "expire", left |-> L \ {s}, at |-> p]  BY <1>2 DEF With
<1>4. r.op = "expire" /\ r.left = L \ {s} /\ r.at \in {"purge", "tell"} /\ (r.at = "purge" => r.left = {}) /\ r \in StatusTasks
      /\ task' = [task EXCEPT ![t] = r]
  <2>1. task' = [task EXCEPT ![t] = r]  BY <1>1 DEF GoesWith
  <2> HIDE DEF r
  <2> QED BY <1>2, <1>3, <2>1 DEF StatusTasks
<1> HIDE DEF r, p
<1>5. task'[t] = r /\ (\A u \in Tasks \ {t} : task'[u] = task[u]) /\ task' \in [Tasks -> StatusTasks]
    BY <1>4, StatusTaskMoves
<1>6. posts' = posts /\ due' = due /\ purged' = purged /\ views' = views /\ failures' = failures
    BY DEF StatusExpired
<1>7. posts[s] = "expired" /\ told[s] = 0 /\ \A u \in Tasks \ {t} : Under(u, "expire") => s \notin task[u].left
    BY <1>1, <1>2 DEF TicksInv
<1>8. 1 \in 0..Cardinality(Tasks)
  <2>1. Cardinality(Tasks) \in Nat /\ Cardinality(Tasks) # 0
      BY MediaAssumption, FS_CardinalityType, FS_EmptySet
  <2> QED BY <2>1
<1>9. told' \in [Posts -> 0..Cardinality(Tasks)] /\ (\A x \in Posts \ {s} : told'[x] = told[x]) /\ told'[s] \in {0, 1}
      /\ (told'[s] = 1 \/ s \in untold') /\ untold \subseteq untold' /\ untold' \in SUBSET Posts
    BY <1>1, <1>2, <1>7, <1>8 DEF StatusTyped, StatusTypeOK
<1>10. StatusTyped'  BY <1>5, <1>6, <1>9 DEF StatusTyped, StatusTypeOK
<1>11. Under(t, "expire")' /\ \A u \in Tasks \ {t} : (Under(u, "expire")' <=> Under(u, "expire")) /\ (At(u, "purge")' <=> At(u, "purge"))
    BY <1>4, <1>5 DEF Under, At
<1>12. TicksInv'
  <2>1. \A u \in Tasks : Under(u, "expire")' => task'[u].left \subseteq task[u].left /\ s \notin task'[u].left /\ Under(u, "expire")
      BY <1>2, <1>4, <1>5, <1>7, <1>11
  <2>2. \A u \in Tasks : Under(u, "expire") => task[u].left \subseteq Posts  BY StatusPlaces
  <2>3. \A u \in Tasks : Under(u, "expire")' => \A x \in task'[u].left : posts'[x] = "expired" /\ told'[x] = 0
      BY <1>6, <1>9, <2>1, <2>2 DEF TicksInv
  <2>4. \A u, v \in Tasks : u # v /\ Under(u, "expire")' /\ Under(v, "expire")' => task'[u].left \cap task'[v].left = {}
    <3> SUFFICES ASSUME NEW u \in Tasks, NEW v \in Tasks, u # v, Under(u, "expire")', Under(v, "expire")'
                 PROVE  task'[u].left \cap task'[v].left = {}
        OBVIOUS
    <3>1. task[u].left \cap task[v].left = {}  BY <2>1 DEF TicksInv
    <3> QED BY <2>1, <3>1
  <2>5. \A u \in Tasks : At(u, "purge")' => task'[u].left = {}
      BY <1>4, <1>5, <1>11 DEF TicksInv, At
  <2> QED BY <2>3, <2>4, <2>5 DEF TicksInv
<1>13. \A x : x \in Telling /\ x # s => x \in Telling'
  <2> SUFFICES ASSUME NEW x \in Telling, x # s PROVE x \in Telling'  OBVIOUS
  <2>1. PICK u \in Tasks : Under(u, "expire") /\ x \in task[u].left  BY TellingIs
  <2>2. Under(u, "expire")' /\ x \in task'[u].left  BY <1>4, <1>5, <1>11, <2>1
  <2> QED BY <2>2 DEF Telling
<1>14. ExpiryToldOnce'  BY <1>6, <1>7, <1>9, <1>13 DEF ExpiryToldOnce
<1> QED BY <1>10, <1>12, <1>14

LEMMA FailStatusKeeps == ASSUME StatusInv, NEW t \in Tasks, FailStatus(t) PROVE StatusInv'
<1> USE DEF StatusInv
<1>1. task' = [task EXCEPT ![t] = Failed] /\ failures' = failures + 1 /\ UNCHANGED statusVars /\ Failed \in StatusTasks
    BY DEF FailStatus, Fails, StatusTasks
<1>2. task'[t] = Failed /\ (\A u \in Tasks \ {t} : task'[u] = task[u]) /\ task' \in [Tasks -> StatusTasks]
    BY <1>1, StatusTaskMoves
<1>3. ~Under(t, "expire")' /\ ~At(t, "purge")'
      /\ \A u \in Tasks \ {t} : (Under(u, "expire")' <=> Under(u, "expire")) /\ (At(u, "purge")' <=> At(u, "purge"))
    BY <1>2 DEF Under, At, Failed
<1>4. StatusTyped' /\ failures' > 0  BY <1>1, <1>2 DEF StatusTyped, StatusTypeOK, statusVars
<1>5. TicksInv'  BY <1>1, <1>2, <1>3 DEF TicksInv, statusVars
<1>6. ExpiryToldOnce'  BY <1>1, <1>4 DEF ExpiryToldOnce, statusVars
<1> QED BY <1>4, <1>5, <1>6

LEMMA StatusInvInit == ASSUME TasksInit, StatusInit PROVE StatusInv
<1>1. task \in [Tasks -> StatusTasks] /\ failures \in Nat /\ \A t \in Tasks : task[t] = New
    BY DEF TasksInit, StatusTasks
<1>2. \A t \in Tasks : ~Under(t, "expire") /\ ~At(t, "purge")  BY <1>1 DEF Under, At, New
<1>3. StatusTypeOK  BY MediaAssumption, FS_CardinalityType DEF StatusInit, StatusTypeOK
<1>4. ExpiryToldOnce  BY DEF StatusInit, ExpiryToldOnce
<1> QED BY <1>1, <1>2, <1>3, <1>4 DEF StatusInv, StatusTyped, TicksInv

LEMMA StatusInvNext == ASSUME StatusInv, StatusNext PROVE StatusInv'
    BY StatusCallsKeep, StatusPostsKeep, MarkExpiredKeeps, StatusExpiredKeeps, FailStatusKeeps DEF StatusNext, StatusRequests

LEMMA StatusInvStays == ASSUME StatusInv, UNCHANGED <<taskVars, statusVars>> PROVE StatusInv'
    BY DEF taskVars, statusVars, StatusInv, StatusTyped, StatusTypeOK, TicksInv, ExpiryToldOnce, Telling, Under, At

----------------------------------------------------------------------------
(* What is kept for a while                                                *)

contentVars == <<taskVars, mediaVars, backupVars, statusVars>>

\* A behaviour is of one part, as in the run: any calls about media, any uploads of backups, or any
\* calls and ticks about statuses.
MediaPart  == MediaNext /\ UNCHANGED <<backupVars, statusVars>>
BackupPart == BackupNext /\ UNCHANGED <<mediaVars, statusVars>>
StatusPart == StatusNext /\ UNCHANGED <<mediaVars, backupVars>>

ContentInit == TasksInit /\ MediaInit /\ BackupInit /\ StatusInit

ContentSpec ==
    ContentInit /\ ([][MediaPart]_contentVars \/ [][BackupPart]_contentVars \/ [][StatusPart]_contentVars)

ContentTypeOK == MediaTypeOK /\ BackupTypeOK /\ StatusTypeOK

\* A part that does not run has nothing to lose.
LEMMA MediaAtRest == ASSUME MediaInit PROVE BytesFollowRows /\ MediaTypeOK
<1>1. \A m \in Media : ~IsReady(m) /\ objects[m].status # "deleted" /\ ~Lost(m)
    BY DEF MediaInit, NoRow, IsReady, Lost
<1>2. MediaTypeOK  BY DEF MediaInit, MediaTypeOK, NoRow
<1>3. ReadyHasItsBytes /\ UnreferencedIsRemoved /\ FileEventsFollow
    BY <1>1 DEF ReadyHasItsBytes, UnreferencedIsRemoved, FileEventsFollow, MediaInit
<1> QED BY <1>2, <1>3 DEF BytesFollowRows

LEMMA BackupsAtRest == ASSUME BackupInit PROVE SaltMismatchOnlyByOverlap /\ BackupTypeOK
    BY DEF BackupInit, SaltMismatchOnlyByOverlap, BackupTypeOK, IsVersion

LEMMA StatusesAtRest == ASSUME StatusInit PROVE ExpiryToldOnce /\ StatusTypeOK
    BY MediaAssumption, FS_CardinalityType DEF StatusInit, ExpiryToldOnce, StatusTypeOK

LEMMA ContentInParts ==
    ContentSpec => [](/\ MediaInv \/ MediaInit
                      /\ BackupInv \/ BackupInit
                      /\ StatusInv \/ StatusInit)
<1> DEFINE MediaRuns  == MediaInv /\ BackupInit /\ StatusInit
           BackupRuns == BackupInv /\ MediaInit /\ StatusInit
           StatusRuns == StatusInv /\ MediaInit /\ BackupInit
<1>1. ContentInit => MediaRuns /\ BackupRuns /\ StatusRuns
    BY MediaInvInit, BackupInvInit, StatusInvInit DEF ContentInit
<1>2. MediaRuns /\ [MediaPart]_contentVars => MediaRuns'
  <2> SUFFICES ASSUME MediaRuns, [MediaPart]_contentVars PROVE MediaRuns'  OBVIOUS
  <2>1. UNCHANGED backupVars /\ UNCHANGED statusVars /\ (MediaNext \/ UNCHANGED <<taskVars, mediaVars>>)
      BY DEF MediaPart, contentVars
  <2>2. MediaInv'  BY <2>1, MediaInvNext, MediaInvStays
  <2> QED BY <2>1, <2>2 DEF BackupInit, StatusInit, backupVars, statusVars
<1>3. BackupRuns /\ [BackupPart]_contentVars => BackupRuns'
  <2> SUFFICES ASSUME BackupRuns, [BackupPart]_contentVars PROVE BackupRuns'  OBVIOUS
  <2>1. UNCHANGED mediaVars /\ UNCHANGED statusVars /\ (BackupNext \/ UNCHANGED <<taskVars, backupVars>>)
      BY DEF BackupPart, contentVars
  <2>2. BackupInv'  BY <2>1, BackupInvNext, BackupInvStays
  <2> QED BY <2>1, <2>2 DEF MediaInit, StatusInit, mediaVars, statusVars
<1>4. StatusRuns /\ [StatusPart]_contentVars => StatusRuns'
  <2> SUFFICES ASSUME StatusRuns, [StatusPart]_contentVars PROVE StatusRuns'  OBVIOUS
  <2>1. UNCHANGED mediaVars /\ UNCHANGED backupVars /\ (StatusNext \/ UNCHANGED <<taskVars, statusVars>>)
      BY DEF StatusPart, contentVars
  <2>2. StatusInv'  BY <2>1, StatusInvNext, StatusInvStays
  <2> QED BY <2>1, <2>2 DEF MediaInit, BackupInit, mediaVars, backupVars
<1>5. ContentInit /\ [][MediaPart]_contentVars => []MediaRuns  BY <1>1, <1>2, PTL
<1>6. ContentInit /\ [][BackupPart]_contentVars => []BackupRuns  BY <1>1, <1>3, PTL
<1>7. ContentInit /\ [][StatusPart]_contentVars => []StatusRuns  BY <1>1, <1>4, PTL
<1> QED BY <1>5, <1>6, <1>7, PTL DEF ContentSpec

\* Rows, objects, backups, statuses and calls keep their types whatever calls meet.  About MediaService,
\* BackupService and StatusService over their repositories.
THEOREM ContentTypeCorrect == ContentSpec => []ContentTypeOK
<1>1. (MediaInv \/ MediaInit) /\ (BackupInv \/ BackupInit) /\ (StatusInv \/ StatusInit) => ContentTypeOK
    BY MediaAtRest, BackupsAtRest, StatusesAtRest DEF MediaInv, MediaTyped, BackupInv, BackupTyped, StatusInv, StatusTyped, ContentTypeOK
<1> QED BY <1>1, ContentInParts, PTL

\* For any objects, calls and failures: a row that is ready has its bytes, bytes go with their last
\* row, events follow rows, a backup opens with its salt, and an expiry is told once, each but for the
\* overlaps that ContentHolds names.  About purge and completeUpload (media.service.ts), upload
\* (backup.service.ts) and the ticks of status.expiry.worker.ts.
THEOREM ContentIsKept == ContentSpec => []ContentHolds
<1>1. (MediaInv \/ MediaInit) /\ (BackupInv \/ BackupInit) /\ (StatusInv \/ StatusInit) => ContentHolds
    BY MediaInvHolds, MediaAtRest, BackupsAtRest, StatusesAtRest DEF BackupInv, StatusInv, ContentHolds
<1> QED BY <1>1, ContentInParts, PTL

----------------------------------------------------------------------------
(* The flag, the platform document and the schedule: what calls stand at   *)

DocsTo(n) == [version : 1..n, changes : SUBSET Tasks]

\* Each call that has begun makes one version at most, and applies the schedule once at most.
Started == {t \in Tasks : task[t] # New}
Past  == {t \in Started : ~At(t, "replace")}
Limit == 1 + Cardinality(Started)

FlagCall(r, n) ==
    \/ r \in {New, Failed}
    \/ r \in [op : {"update", "rollback", "schedule"}, next : DocsTo(n), at : {"replace", "snapshot", "invalidate", "tell"}]
    \/ r \in [op : {"schedule"}, next : DocsTo(n), at : {"mark"}]
    \/ r \in [op : {"load"}, what : {"flags"}, read : DocsTo(n), at : {"fill"}]
    \/ r \in [op : {"load", "platform"}, what : {"platform"}, read : SUBSET Tasks, at : {"fill"}]
    \/ r \in [op : {"platform"}, what : {"platform"}, read : SUBSET Tasks, at : {"put", "invalidate"}]
    \/ r \in [op : {"update", "rollback", "schedule", "load", "platform"}, at : {"over"}]

FlagTyped ==
    /\ flag \in DocsTo(Limit) /\ snapshots \subseteq DocsTo(Limit) /\ cached \in DocsTo(Limit) \cup {Nothing}
    /\ announcedVersion \in 0..Limit /\ applied \in 0..Cardinality(Past)
    /\ platform \in SUBSET Tasks /\ kept \in (SUBSET Tasks) \cup {Nothing}
    /\ schedule \in {"none", "pending", "cancelled", "done"}
    /\ raced \in SUBSET Documents /\ together \in [Documents -> SUBSET Tasks] /\ ticks \in BOOLEAN
    /\ failures \in Nat
    /\ task = [t \in Tasks |-> task[t]] /\ \A t \in Tasks : FlagCall(task[t], Limit)

\* A change of the flag at work, one that has written it and not yet dropped the cache, a tick of the schedule,
\* and a change of the platform document.
Changes(t) == task[t].at \in {"replace", "snapshot", "tell", "mark"} \/ (At(t, "invalidate") /\ task[t].op # "platform")
Dirty(t)   == At(t, "snapshot") \/ (At(t, "invalidate") /\ task[t].op # "platform")
TickOf(t)  == Changes(t) /\ task[t].op = "schedule"
Alters(t)  == task[t].at \in {"fill", "put", "invalidate"} /\ task[t].op = "platform"

Reads(t)   == At(t, "fill") /\ task[t].what = "flags"
Carries(t) == At(t, "put") \/ (At(t, "fill") /\ task[t].what = "platform")

\* Changes that do not overlap make the versions one after the other.
VersionInv ==
    together["flags"] = {} =>
       /\ \A t, u \in Tasks : Changes(t) /\ Changes(u) => t = u
       /\ \A t \in Tasks : At(t, "replace") => task[t].next.version = flag.version + 1
       /\ \A t \in Tasks : Changes(t) /\ ~At(t, "replace") => task[t].next = flag
       /\ failures = 0 => /\ \A a \in snapshots : a.version <= flag.version
                          /\ \A a, b \in snapshots \cup {flag} : a.version = b.version => a = b

\* Only between a write and its drop may the cache, or a load on its way to it, be behind the flag; what is
\* announced is not ahead of either.
CacheInv ==
    together["flags"] = {} /\ "flags" \notin raced =>
       /\ announcedVersion <= flag.version
       /\ cached # Nothing => cached.version >= announcedVersion
       /\ \A u \in Tasks : Reads(u) => task[u].read.version >= announcedVersion
       /\ (\A t \in Tasks : ~Dirty(t)) => /\ cached # Nothing => cached.version = flag.version
                                          /\ \A u \in Tasks : Reads(u) => task[u].read.version = flag.version

\* A change that finished alone is in the document and wherever it may be written from.
PlatformInv ==
    /\ \A t, u \in Tasks : Alters(t) /\ Alters(u) /\ t # u => t \in together["platform"]
    /\ \A t \in Tasks : Alters(t) /\ At(t, "invalidate") /\ t \notin together["platform"] => t \in platform
    /\ \A t \in Tasks : Over(t, "platform") /\ t \notin together["platform"] /\ "platform" \notin raced =>
           /\ t \in platform
           /\ kept # Nothing => t \in kept
           /\ \A u \in Tasks : Carries(u) => t \in task[u].read

\* Until it is marked, one tick alone has the schedule.
ScheduleInv ==
    ~ticks /\ failures = 0 =>
       /\ applied <= 1
       /\ \A t, u \in Tasks : TickOf(t) /\ TickOf(u) => t = u
       /\ \A t \in Tasks : TickOf(t) => schedule = "pending"
       /\ schedule \in {"none", "pending"} /\ (\A t \in Tasks : TickOf(t) => At(t, "replace")) => applied = 0

FlagInv == FlagTyped /\ VersionInv /\ CacheInv /\ PlatformInv /\ ScheduleInv

----------------------------------------------------------------------------
(* Steps                                                                   *)

LEMMA DocsToGrows == ASSUME NEW m \in Nat, NEW n \in Nat, m <= n PROVE DocsTo(m) \subseteq DocsTo(n)
    BY DEF DocsTo

LEMMA CallGrows == ASSUME NEW m \in Nat, NEW n \in Nat, m <= n, NEW r, FlagCall(r, m) PROVE FlagCall(r, n)
<1>1. DocsTo(m) \subseteq DocsTo(n)  BY DocsToGrows
<1> HIDE DEF DocsTo
<1>2. CASE r \in [op : {"update", "rollback", "schedule"}, next : DocsTo(m), at : {"replace", "snapshot", "invalidate", "tell"}]
    BY <1>1, <1>2 DEF FlagCall
<1>3. CASE r \in [op : {"schedule"}, next : DocsTo(m), at : {"mark"}]  BY <1>1, <1>3 DEF FlagCall
<1>4. CASE r \in [op : {"load"}, what : {"flags"}, read : DocsTo(m), at : {"fill"}]
    BY <1>1, <1>4 DEF FlagCall
<1> QED BY <1>2, <1>3, <1>4 DEF FlagCall

LEMMA StartedIsFinite == IsFiniteSet(Started) /\ IsFiniteSet(Past) /\ Cardinality(Started) \in Nat /\ Cardinality(Past) \in Nat
                       /\ Cardinality(Started) <= Cardinality(Tasks) /\ Cardinality(Past) <= Cardinality(Tasks)
                       /\ Cardinality(Tasks) \in Nat /\ Limit \in Nat \ {0}
<1>1. Started \subseteq Tasks /\ Past \subseteq Tasks  BY DEF Started, Past
<1> QED BY <1>1, FlagsAssumption, FS_Subset, FS_CardinalityType DEF Limit

\* Where a step of t leaves it; no other call moves.
FlagMoves(t, r) == task'[t] = r /\ \A u \in Tasks : u # t => task'[u] = task[u]

\* The types of the calls after a step.
CallsTyped == task = [t \in Tasks |-> task[t]] /\ \A t \in Tasks : FlagCall(task[t], Limit)

LEMMA FlagBegins ==
    ASSUME FlagTyped, NEW t \in Tasks, NEW r, Begins(t, r), r # New, FlagCall(r, Limit + 1)
    PROVE  /\ CallsTyped' /\ FlagMoves(t, r) /\ task[t] = New
           /\ Limit' = Limit + 1 /\ Cardinality(Past) <= Cardinality(Past') /\ Cardinality(Past') \in Nat
<1>1. task' = [u \in Tasks |-> IF u = t THEN r ELSE task[u]] /\ task[t] = New
    BY DEF Begins, FlagTyped
<1>2. FlagMoves(t, r) /\ task' = [u \in Tasks |-> task'[u]]  BY <1>1 DEF FlagMoves
<1>3. Started' = Started \cup {t} /\ t \notin Started  BY <1>1, <1>2 DEF Started, FlagMoves
<1>4. Limit' = Limit + 1
  <2>1. Cardinality(Started \cup {t}) = Cardinality(Started) + 1
      BY <1>3, StartedIsFinite, FS_AddElement
  <2> QED BY <1>3, <2>1, StartedIsFinite DEF Limit
<1>5. Past \subseteq Past'  BY <1>1, <1>2, <1>3 DEF Past, At, FlagMoves, Started
<1>6. IsFiniteSet(Past')  BY StartedIsFinite, FlagsAssumption, FS_Subset DEF Past, Started
<1>7. Cardinality(Past) <= Cardinality(Past') /\ Cardinality(Past') \in Nat
    BY <1>5, <1>6, FS_Subset, FS_CardinalityType
<1>8. \A u \in Tasks : FlagCall(task'[u], Limit')
  <2> TAKE u \in Tasks
  <2>1. CASE u = t  BY <2>1, <1>2, <1>4 DEF FlagMoves
  <2>2. CASE u # t
    <3>1. FlagCall(task[u], Limit) /\ task'[u] = task[u]  BY <2>2, <1>2 DEF FlagMoves, FlagTyped
    <3>2. Limit \in Nat /\ Limit + 1 \in Nat /\ Limit <= Limit + 1  BY StartedIsFinite
    <3>3. FlagCall(task[u], Limit + 1)  BY <3>1, <3>2, CallGrows
    <3> QED BY <3>1, <3>3, <1>4
  <2> QED BY <2>1, <2>2
<1> QED BY <1>1, <1>2, <1>4, <1>7, <1>8 DEF CallsTyped

LEMMA FlagGoes ==
    ASSUME FlagTyped, NEW t \in Tasks, NEW r, task' = [task EXCEPT ![t] = r], r # New, task[t] # New, FlagCall(r, Limit),
           r.at # "replace"
    PROVE  /\ CallsTyped' /\ FlagMoves(t, r)
           /\ Limit' = Limit /\ Cardinality(Past) <= Cardinality(Past') /\ Cardinality(Past') \in Nat
           /\ At(t, "replace") => Cardinality(Past') = Cardinality(Past) + 1
<1>1. task' = [u \in Tasks |-> IF u = t THEN r ELSE task[u]]  BY DEF FlagTyped
<1>2. FlagMoves(t, r) /\ task' = [u \in Tasks |-> task'[u]]  BY <1>1 DEF FlagMoves
<1>3. Started' = Started  BY <1>1, <1>2 DEF Started, FlagMoves
<1>4. Limit' = Limit  BY <1>3 DEF Limit
<1>5. Past' = Past \cup {t} /\ (At(t, "replace") => t \notin Past)
    BY <1>1, <1>2, <1>3 DEF Past, At, FlagMoves, Started
<1>6. Cardinality(Past) <= Cardinality(Past') /\ Cardinality(Past') \in Nat /\ (At(t, "replace") => Cardinality(Past') = Cardinality(Past) + 1)
  <2>1. CASE t \in Past
    <3>1. Past' = Past  BY <1>5, <2>1
    <3> QED BY <3>1, <1>5, <2>1, StartedIsFinite
  <2>2. CASE t \notin Past
    <3>1. Cardinality(Past') = Cardinality(Past) + 1  BY <1>5, <2>2, StartedIsFinite, FS_AddElement
    <3> QED BY <3>1, StartedIsFinite
  <2> QED BY <2>1, <2>2
<1>7. \A u \in Tasks : FlagCall(task'[u], Limit')  BY <1>2, <1>4 DEF FlagMoves, FlagTyped
<1> QED BY <1>1, <1>2, <1>4, <1>6, <1>7 DEF CallsTyped

LEMMA ChangersAre ==
    ASSUME FlagTyped
    PROVE  \A t \in Tasks : (t \in Changers("flags") <=> Changes(t)) /\ (t \in Changers("platform") <=> Alters(t))
                            /\ (t \in At_({"schedule"}) <=> TickOf(t))
<1> SUFFICES ASSUME NEW t \in Tasks
             PROVE  (t \in Changers("flags") <=> Changes(t)) /\ (t \in Changers("platform") <=> Alters(t))
                    /\ (t \in At_({"schedule"}) <=> TickOf(t))
    OBVIOUS
<1>1. FlagCall(task[t], Limit)  BY DEF FlagTyped
<1>2. /\ t \in Changers("flags") <=> Under(t, "update") \/ Under(t, "rollback") \/ Under(t, "schedule")
      /\ t \in Changers("platform") <=> Under(t, "platform")
      /\ t \in At_({"schedule"}) <=> Under(t, "schedule")
    BY DEF Changers, At_, Changing
<1>3. /\ Changes(t) <=> Under(t, "update") \/ Under(t, "rollback") \/ Under(t, "schedule")
      /\ TickOf(t) <=> Under(t, "schedule")
    BY <1>1 DEF FlagCall, Changes, TickOf, At, Under, New, Failed
<1>4. Alters(t) <=> Under(t, "platform")  BY <1>1 DEF FlagCall, Alters, Under, New, Failed
<1> QED BY <1>2, <1>3, <1>4

LEMMA OverlapOfFlags ==
    ASSUME FlagTyped, NEW t \in Tasks, Overlapping(t, "flags")
    PROVE  /\ together' \in [Documents -> SUBSET Tasks] /\ together'["platform"] = together["platform"]
           /\ together'["flags"] = {} => together["flags"] = {} /\ \A u \in Tasks : ~Changes(u)
<1>1. together \in [Documents -> SUBSET Tasks] /\ "flags" \in Documents /\ "platform" \in Documents /\ Changers("flags") \subseteq Tasks
    BY DEF FlagTyped, Documents, Changers, At_
<1>2. CASE Changers("flags") = {}
  <2>1. together' = together  BY <1>2 DEF Overlapping
  <2> QED BY <1>1, <1>2, <2>1, ChangersAre
<1>3. CASE Changers("flags") # {}
  <2>1. together' = [together EXCEPT !["flags"] = @ \cup {t} \cup Changers("flags")]
      BY <1>3 DEF Overlapping
  <2> QED BY <1>1, <1>3, <2>1
<1> QED BY <1>2, <1>3

LEMMA OverlapOfPlatform ==
    ASSUME FlagTyped, NEW t \in Tasks, Overlapping(t, "platform")
    PROVE  /\ together' \in [Documents -> SUBSET Tasks] /\ together'["flags"] = together["flags"]
           /\ together["platform"] \subseteq together'["platform"]
           /\ \A u \in Tasks : Alters(u) => u \in together'["platform"] /\ t \in together'["platform"]
<1>1. together \in [Documents -> SUBSET Tasks] /\ "flags" \in Documents /\ "platform" \in Documents /\ Changers("platform") \subseteq Tasks
    BY DEF FlagTyped, Documents, Changers, At_
<1>2. CASE Changers("platform") = {}
  <2>1. together' = together  BY <1>2 DEF Overlapping
  <2> QED BY <1>1, <1>2, <2>1, ChangersAre
<1>3. CASE Changers("platform") # {}
  <2>1. together' = [together EXCEPT !["platform"] = @ \cup {t} \cup Changers("platform")]
      BY <1>3 DEF Overlapping
  <2> QED BY <1>1, <1>3, <2>1, ChangersAre
<1> QED BY <1>2, <1>3

----------------------------------------------------------------------------
(* What a step leaves alone                                                *)

LEMMA VersionStays ==
    ASSUME VersionInv, flag' = flag, snapshots' = snapshots, failures' = 0 => failures = 0,
           together'["flags"] = {} => together["flags"] = {},
           \A u \in Tasks : Changes(u)' => /\ Changes(u) /\ task'[u].next = task[u].next
                                           /\ task'[u].at = "replace" <=> task[u].at = "replace"
    PROVE  VersionInv'
<1>1. \A u \in Tasks : At(u, "replace")' => Changes(u)' /\ task'[u].at = "replace"
    BY DEF At, Changes
<1> QED BY <1>1 DEF VersionInv, At

LEMMA CacheStays ==
    ASSUME CacheInv, flag' = flag, announcedVersion' = announcedVersion, cached' \in {Nothing, cached},
           together'["flags"] = {} => together["flags"] = {}, "flags" \notin raced' => "flags" \notin raced,
           \A u \in Tasks : "flags" \notin raced' /\ Dirty(u) => Dirty(u)',
           \A u \in Tasks : Reads(u)' => Reads(u) /\ task'[u].read = task[u].read
    PROVE  CacheInv'
    BY DEF CacheInv

LEMMA PlatformStays ==
    ASSUME PlatformInv, platform' = platform, kept' \in {Nothing, kept},
           together["platform"] \subseteq together'["platform"], raced \subseteq raced',
           \A u \in Tasks : Alters(u)' => Alters(u) /\ task'[u].at = task[u].at,
           \A u \in Tasks : Over(u, "platform")' => Over(u, "platform"),
           \A u \in Tasks : Carries(u)' => Carries(u) /\ task'[u].read = task[u].read
    PROVE  PlatformInv'
<1>1. \A t, u \in Tasks : Alters(t)' /\ Alters(u)' /\ t # u => t \in together'["platform"]
    BY DEF PlatformInv
<1>2. \A t \in Tasks : Alters(t)' /\ At(t, "invalidate")' /\ t \notin together'["platform"] => t \in platform'
    BY DEF PlatformInv, At
<1>3. \A t \in Tasks : Over(t, "platform")' /\ t \notin together'["platform"] /\ "platform" \notin raced' =>
           /\ t \in platform'
           /\ kept' # Nothing => t \in kept'
           /\ \A u \in Tasks : Carries(u)' => t \in task'[u].read
  <2> SUFFICES ASSUME NEW t \in Tasks, Over(t, "platform")', t \notin together'["platform"], "platform" \notin raced'
               PROVE  /\ t \in platform
                      /\ kept' # Nothing => t \in kept'
                      /\ \A u \in Tasks : Carries(u)' => t \in task'[u].read
      OBVIOUS
  <2>1. /\ t \in platform /\ (kept # Nothing => t \in kept)
        /\ \A u \in Tasks : Carries(u) => t \in task[u].read
      BY DEF PlatformInv
  <2> QED BY <2>1
<1> QED BY <1>1, <1>2, <1>3 DEF PlatformInv

LEMMA ScheduleStays ==
    ASSUME ScheduleInv, schedule' = schedule, applied' = applied, ~ticks' => ~ticks, failures' = 0 => failures = 0,
           \A u \in Tasks : failures' = 0 => /\ TickOf(u)' <=> TickOf(u)
                                             /\ TickOf(u) => (task'[u].at = "replace" <=> task[u].at = "replace")
    PROVE  ScheduleInv'
    BY DEF ScheduleInv, At

----------------------------------------------------------------------------
(* The steps                                                               *)

LEMMA DocsGrow ==
    ASSUME FlagTyped
    PROVE  /\ DocsTo(Limit) \subseteq DocsTo(Limit + 1)
           /\ flag.version \in Nat /\ flag.version <= Limit /\ flag.version + 1 \in 1..(Limit + 1)
           /\ \A d \in DocsTo(Limit) : d.version \in 1..Limit /\ d.changes \in SUBSET Tasks /\ d # Nothing
<1>1. Limit \in Nat \ {0} /\ Limit + 1 \in Nat /\ Limit <= Limit + 1 /\ Limit <= Cardinality(Tasks) + 1
    BY StartedIsFinite DEF Limit
<1>2. DocsTo(Limit) \subseteq DocsTo(Limit + 1)  BY <1>1, DocsToGrows
<1>3. DocsTo(Limit) \subseteq Docs  BY <1>1, StartedIsFinite DEF DocsTo, Docs
<1>4. flag \in DocsTo(Limit)  BY DEF FlagTyped
<1> QED BY <1>1, <1>2, <1>3, <1>4, FlagsAssumption DEF DocsTo

LEMMA NextIsDoc ==
    ASSUME FlagTyped, NEW changes \in SUBSET Tasks
    PROVE  NextVersion(flag, changes) \in DocsTo(Limit + 1) /\ NextVersion(flag, changes).version = flag.version + 1
<1>1. flag.version + 1 \in 1..(Limit + 1)  BY DocsGrow
<1> QED BY <1>1 DEF NextVersion, DocsTo

\* A change of the flag begins: update, rollback, or a tick that has read the schedule.
LEMMA ChangeBegins ==
    ASSUME FlagInv, NEW t \in Tasks, NEW op \in {"update", "rollback", "schedule"}, NEW changes \in SUBSET Tasks,
           Begins(t, [op |-> op, next |-> NextVersion(flag, changes), at |-> "replace"]),
           Overlapping(t, "flags"), UNCHANGED <<failures, flag, snapshots, cached, announcedVersion, platform, kept, schedule, applied, raced>>,
           IF op = "schedule" THEN schedule = "pending" /\ ticks' = (ticks \/ At_({"schedule"}) # {}) ELSE ticks' = ticks
    PROVE  FlagInv'
<1> DEFINE r == [op |-> op, next |-> NextVersion(flag, changes), at |-> "replace"]
<1> USE DEF FlagInv
<1>1. r.op = op /\ r.next.version = flag.version + 1 /\ r.at = "replace" /\ r # New
    BY NextIsDoc DEF New
<1>2. FlagCall(r, Limit + 1)  BY NextIsDoc DEF FlagCall
<1>3. Begins(t, r)  OBVIOUS
<1> HIDE DEF r
<1>4. CallsTyped' /\ FlagMoves(t, r) /\ task[t] = New /\ Limit' = Limit + 1 /\ Cardinality(Past) <= Cardinality(Past') /\ Cardinality(Past') \in Nat
    BY <1>1, <1>2, <1>3, FlagBegins
<1>5. /\ together' \in [Documents -> SUBSET Tasks] /\ together'["platform"] = together["platform"]
      /\ together'["flags"] = {} => together["flags"] = {} /\ \A u \in Tasks : ~Changes(u)
    BY OverlapOfFlags
<1>6. task[t].at = "new" /\ task'[t].at = "replace" /\ task'[t].op = op /\ task'[t].next.version = flag.version + 1
      /\ \A u \in Tasks : u # t => task'[u] = task[u]
    BY <1>1, <1>4 DEF FlagMoves, New
<1>7. ticks' \in BOOLEAN /\ (~ticks' => ~ticks)  BY DEF FlagTyped
<1>8. FlagTyped'
  <2>1. flag' \in DocsTo(Limit') /\ snapshots' \subseteq DocsTo(Limit') /\ cached' \in DocsTo(Limit') \cup {Nothing}
      BY <1>4, DocsGrow DEF FlagTyped
  <2>2. announcedVersion' \in 0..Limit' /\ applied' \in 0..Cardinality(Past')
      BY <1>4, StartedIsFinite DEF FlagTyped
  <2> QED BY <1>4, <1>5, <1>7, <2>1, <2>2 DEF FlagTyped, CallsTyped
<1>9. VersionInv'  BY <1>5, <1>6 DEF VersionInv, Changes, At
<1>10. CacheInv'  BY <1>5, <1>6, CacheStays DEF Dirty, Reads, At
<1>11. PlatformInv'  BY <1>5, <1>6, PlatformStays DEF Alters, Over, Carries, At
<1>12. ScheduleInv'
  <2>1. CASE op # "schedule"  BY <1>6, <2>1, ScheduleStays DEF TickOf, Changes, At
  <2>2. CASE op = "schedule"
    <3>1. ~ticks' => \A u \in Tasks : ~TickOf(u)  BY <2>2, ChangersAre
    <3> QED BY <1>6, <1>7, <2>2, <3>1 DEF ScheduleInv, TickOf, Changes, At
  <2> QED BY <2>1, <2>2
<1> QED BY <1>8, <1>9, <1>10, <1>11, <1>12

LEMMA UpdateKeeps == ASSUME FlagInv, NEW t \in Tasks, Update(t) PROVE FlagInv'
<1>1. flag.changes \cup {t} \in SUBSET Tasks  BY DocsGrow DEF FlagInv, FlagTyped
<1> QED BY <1>1, ChangeBegins DEF Update

LEMMA RollbackKeeps == ASSUME FlagInv, NEW t \in Tasks, Rollback(t) PROVE FlagInv'
<1>1. PICK s \in snapshots : Begins(t, [op |-> "rollback", next |-> NextVersion(flag, s.changes), at |-> "replace"])
    BY DEF Rollback
<1>2. s.changes \in SUBSET Tasks  BY DocsGrow DEF FlagInv, FlagTyped
<1> QED BY <1>1, <1>2, ChangeBegins DEF Rollback

LEMMA DueSchedulesKeeps == ASSUME FlagInv, NEW t \in Tasks, DueSchedules(t) PROVE FlagInv'
<1>1. flag.changes \cup {t} \in SUBSET Tasks  BY DocsGrow DEF FlagInv, FlagTyped
<1>2. schedule = "pending"  BY DEF DueSchedules, IsDue
<1> QED BY <1>1, <1>2, ChangeBegins DEF DueSchedules

LEMMA ReplaceKeeps == ASSUME FlagInv, NEW t \in Tasks, Replace(t) PROVE FlagInv'
<1> USE DEF FlagInv
<1> DEFINE r == [task[t] EXCEPT !.at = "snapshot"]
<1>1. task[t] \in [op : {"update", "rollback", "schedule"}, next : DocsTo(Limit), at : {"replace"}] /\ task[t] # New /\ task[t].at = "replace" /\ task[t].op \in {"update", "rollback", "schedule"} /\ task[t].next \in DocsTo(Limit)
  <2>1. FlagCall(task[t], Limit)  BY DEF FlagTyped
  <2> QED BY <2>1 DEF Replace, At, FlagCall, New, Failed
<1>2. task' = [task EXCEPT ![t] = r] /\ failures' = failures /\ snapshots' = snapshots /\ cached' = cached /\ announcedVersion' = announcedVersion /\ platform' = platform /\ kept' = kept /\ schedule' = schedule /\ raced' = raced /\ together' = together /\ ticks' = ticks /\ flag' = task[t].next /\ applied' = (IF task[t].op = "schedule" THEN applied + 1 ELSE applied)
    BY <1>1 DEF Replace, Goes, Ends, FlagTyped
<1>3. FlagCall(r, Limit) /\ r # New /\ r.at = "snapshot" /\ r.op = task[t].op /\ r.next = task[t].next
    BY <1>1 DEF FlagCall, New
<1> HIDE DEF r
<1>4. CallsTyped' /\ FlagMoves(t, r) /\ Limit' = Limit /\ Cardinality(Past) <= Cardinality(Past') /\ Cardinality(Past') \in Nat
      /\ (At(t, "replace") => Cardinality(Past') = Cardinality(Past) + 1)
    BY <1>1, <1>2, <1>3, FlagGoes
<1>5. task'[t].at = "snapshot" /\ task'[t].op = task[t].op /\ task'[t].next = task[t].next /\ \A u \in Tasks : u # t => task'[u] = task[u]
    BY <1>3, <1>4 DEF FlagMoves
<1>6. FlagTyped'
  <2>3. At(t, "replace")  BY <1>1 DEF At
  <2>1. flag' \in DocsTo(Limit') /\ snapshots' \subseteq DocsTo(Limit') /\ cached' \in DocsTo(Limit') \cup {Nothing}
      BY <1>1, <1>2, <1>4 DEF FlagTyped
  <2>2. announcedVersion' \in 0..Limit' /\ applied' \in 0..Cardinality(Past')
      BY <1>1, <1>2, <1>4, StartedIsFinite, <2>3 DEF FlagTyped
  <2> QED BY <1>1, <1>2, <1>4, <2>1, <2>2 DEF FlagTyped, CallsTyped
<1>7. VersionInv'
  <2> SUFFICES ASSUME together["flags"] = {} PROVE VersionInv'  BY <1>2 DEF VersionInv
  <2>1. task[t].next.version = flag.version + 1 /\ \A u \in Tasks : Changes(u) => u = t
      BY <1>1 DEF VersionInv, Changes, At
  <2>2. /\ \A u, v \in Tasks : Changes(u)' /\ Changes(v)' => u = v
        /\ \A u \in Tasks : At(u, "replace")' => task'[u].next.version = flag'.version + 1
        /\ \A u \in Tasks : Changes(u)' /\ ~At(u, "replace")' => task'[u].next = flag'
      BY <1>2, <1>5, <2>1 DEF Changes, At
  <2>3. ASSUME failures' = 0
        PROVE  /\ \A a \in snapshots' : a.version <= flag'.version
               /\ \A a, b \in snapshots' \cup {flag'} : a.version = b.version => a = b
    <3>1. \A a \in snapshots : a.version \in Nat /\ a.version <= flag.version
        BY <1>2, <2>3, DocsGrow DEF VersionInv, FlagTyped
    <3>2. \A a, b \in snapshots : a.version = b.version => a = b  BY <1>2, <2>3 DEF VersionInv
    <3>3. flag'.version = flag.version + 1 /\ flag.version \in Nat  BY <1>2, <2>1, DocsGrow
    <3> QED BY <1>2, <3>1, <3>2, <3>3
  <2> QED BY <2>2, <2>3 DEF VersionInv
<1>8. CacheInv'
  <2> SUFFICES ASSUME together["flags"] = {} PROVE CacheInv'  BY <1>2 DEF CacheInv
  <2>1. flag'.version = flag.version + 1 /\ flag.version \in Nat /\ announcedVersion \in Nat
      BY <1>1, <1>2, DocsGrow, StartedIsFinite DEF VersionInv, At, FlagTyped
  <2>2. Dirty(t)'  BY <1>5 DEF Dirty, At
  <2>3. \A u \in Tasks : Reads(u)' => Reads(u) /\ task'[u] = task[u]  BY <1>5 DEF Reads, At
  <2> QED BY <1>2, <2>1, <2>2, <2>3 DEF CacheInv
<1>9. PlatformInv'  BY <1>1, <1>2, <1>5, PlatformStays DEF Alters, Over, Carries, At
<1>10. ScheduleInv'
  <2>1. \A u \in Tasks : TickOf(u)' <=> TickOf(u)  BY <1>1, <1>5 DEF TickOf, Changes, At
  <2>2. CASE task[t].op # "schedule"
      BY <1>1, <1>2, <1>5, <2>1, <2>2, ScheduleStays DEF TickOf, Changes, At
  <2>3. CASE task[t].op = "schedule"
    <3> SUFFICES ASSUME ~ticks, failures = 0 PROVE ScheduleInv'  BY <1>2 DEF ScheduleInv
    <3>1. TickOf(t) /\ ~At(t, "replace")'  BY <1>1, <1>5, <2>3 DEF TickOf, Changes, At
    <3>2. applied = 0
      <4>1. \A u \in Tasks : TickOf(u) => At(u, "replace")  BY <1>1, <3>1 DEF ScheduleInv, At
      <4>2. schedule = "pending"  BY <3>1 DEF ScheduleInv
      <4> QED BY <4>1, <4>2 DEF ScheduleInv
    <3>3. applied' = 1  BY <1>2, <2>3, <3>2
    <3> QED BY <1>2, <2>1, <3>1, <3>3 DEF ScheduleInv
  <2> QED BY <2>2, <2>3
<1> QED BY <1>6, <1>7, <1>8, <1>9, <1>10

LEMMA InsertVersionKeeps == ASSUME FlagInv, NEW t \in Tasks, InsertVersion(t) PROVE FlagInv'
<1> USE DEF FlagInv
<1> DEFINE r == [task[t] EXCEPT !.at = "invalidate"]
<1>1. task[t] \in [op : {"update", "rollback", "schedule"}, next : DocsTo(Limit), at : {"snapshot"}] /\ task[t] # New /\ task[t].at = "snapshot" /\ task[t].op \in {"update", "rollback", "schedule"} /\ task[t].next \in DocsTo(Limit)
  <2>1. FlagCall(task[t], Limit)  BY DEF FlagTyped
  <2> QED BY <2>1 DEF InsertVersion, At, FlagCall, New, Failed
<1>2. task' = [task EXCEPT ![t] = r] /\ failures' = failures /\ flag' = flag /\ cached' = cached /\ announcedVersion' = announcedVersion /\ platform' = platform /\ kept' = kept /\ schedule' = schedule /\ applied' = applied /\ raced' = raced /\ together' = together /\ ticks' = ticks /\ snapshots' = snapshots \cup {task[t].next}
    BY <1>1 DEF InsertVersion, Goes, Ends, FlagTyped
<1>3. FlagCall(r, Limit) /\ r # New /\ r.at = "invalidate" /\ r.op = task[t].op /\ r.next = task[t].next
    BY <1>1 DEF FlagCall, New
<1> HIDE DEF r
<1>4. CallsTyped' /\ FlagMoves(t, r) /\ Limit' = Limit /\ Cardinality(Past) <= Cardinality(Past') /\ Cardinality(Past') \in Nat
      /\ (At(t, "replace") => Cardinality(Past') = Cardinality(Past) + 1)
    BY <1>1, <1>2, <1>3, FlagGoes
<1>5. task'[t].at = "invalidate" /\ task'[t].op = task[t].op /\ task'[t].next = task[t].next /\ \A u \in Tasks : u # t => task'[u] = task[u]
    BY <1>3, <1>4 DEF FlagMoves
<1>6. FlagTyped'
  <2>1. flag' \in DocsTo(Limit') /\ snapshots' \subseteq DocsTo(Limit') /\ cached' \in DocsTo(Limit') \cup {Nothing}
      BY <1>1, <1>2, <1>4 DEF FlagTyped
  <2>2. announcedVersion' \in 0..Limit' /\ applied' \in 0..Cardinality(Past')
      BY <1>1, <1>2, <1>4, StartedIsFinite DEF FlagTyped
  <2> QED BY <1>1, <1>2, <1>4, <2>1, <2>2 DEF FlagTyped, CallsTyped
<1>7. VersionInv'
  <2> SUFFICES ASSUME together["flags"] = {} PROVE VersionInv'  BY <1>2 DEF VersionInv
  <2>1. task[t].next = flag  BY <1>1 DEF VersionInv, Changes, At
  <2>2. snapshots' \cup {flag'} = snapshots \cup {flag} /\ \A a \in snapshots' : a \in snapshots \/ a = flag
      BY <1>2, <2>1
  <2>3. /\ \A u, v \in Tasks : Changes(u)' /\ Changes(v)' => u = v
        /\ \A u \in Tasks : At(u, "replace")' => task'[u].next.version = flag'.version + 1
        /\ \A u \in Tasks : Changes(u)' /\ ~At(u, "replace")' => task'[u].next = flag'
      BY <1>1, <1>2, <1>5 DEF VersionInv, Changes, At
  <2>4. flag.version <= flag.version  BY DocsGrow
  <2> QED BY <1>2, <2>2, <2>3, <2>4 DEF VersionInv
<1>8. CacheInv'  BY <1>1, <1>2, <1>5, CacheStays DEF Dirty, Reads, At
<1>9. PlatformInv'  BY <1>1, <1>2, <1>5, PlatformStays DEF Alters, Over, Carries, At
<1>10. ScheduleInv'  BY <1>1, <1>2, <1>5, ScheduleStays DEF TickOf, Changes, At
<1> QED BY <1>6, <1>7, <1>8, <1>9, <1>10

LEMMA TellKeeps == ASSUME FlagInv, NEW t \in Tasks, Tell(t) PROVE FlagInv'
<1> USE DEF FlagInv
<1> DEFINE r == IF task[t].op = "schedule" THEN [task[t] EXCEPT !.at = "mark"] ELSE [op |-> task[t].op, at |-> "over"]
<1>1. task[t] \in [op : {"update", "rollback", "schedule"}, next : DocsTo(Limit), at : {"tell"}] /\ task[t] # New /\ task[t].at = "tell" /\ task[t].op \in {"update", "rollback", "schedule"} /\ task[t].next \in DocsTo(Limit)
  <2>1. FlagCall(task[t], Limit)  BY DEF FlagTyped
  <2> QED BY <2>1 DEF Tell, At, FlagCall, New, Failed
<1>2. task' = [task EXCEPT ![t] = r] /\ failures' = failures /\ flag' = flag /\ snapshots' = snapshots /\ cached' = cached /\ platform' = platform /\ kept' = kept /\ schedule' = schedule /\ applied' = applied /\ raced' = raced /\ together' = together /\ ticks' = ticks /\ announcedVersion' = (IF task[t].next.version > announcedVersion THEN task[t].next.version ELSE announcedVersion)
    BY <1>1 DEF Tell, Goes, Ends, FlagTyped
<1>3. FlagCall(r, Limit) /\ r # New /\ r.at = (IF task[t].op = "schedule" THEN "mark" ELSE "over") /\ r.op = task[t].op /\ (task[t].op = "schedule" => r.next = task[t].next)
    BY <1>1 DEF FlagCall, New
<1> HIDE DEF r
<1>4. CallsTyped' /\ FlagMoves(t, r) /\ Limit' = Limit /\ Cardinality(Past) <= Cardinality(Past') /\ Cardinality(Past') \in Nat
      /\ (At(t, "replace") => Cardinality(Past') = Cardinality(Past) + 1)
    BY <1>1, <1>2, <1>3, FlagGoes
<1>5. task'[t].at = (IF task[t].op = "schedule" THEN "mark" ELSE "over") /\ task'[t].op = task[t].op /\ (task[t].op = "schedule" => task'[t].next = task[t].next) /\ \A u \in Tasks : u # t => task'[u] = task[u]
    BY <1>3, <1>4 DEF FlagMoves
<1>6. FlagTyped'
  <2>3. task[t].next.version \in 0..Limit  BY <1>1, DocsGrow, StartedIsFinite
  <2>1. flag' \in DocsTo(Limit') /\ snapshots' \subseteq DocsTo(Limit') /\ cached' \in DocsTo(Limit') \cup {Nothing}
      BY <1>1, <1>2, <1>4 DEF FlagTyped
  <2>2. announcedVersion' \in 0..Limit' /\ applied' \in 0..Cardinality(Past')
      BY <1>1, <1>2, <1>4, StartedIsFinite, <2>3 DEF FlagTyped
  <2> QED BY <1>1, <1>2, <1>4, <2>1, <2>2 DEF FlagTyped, CallsTyped
<1>7. VersionInv'  BY <1>1, <1>2, <1>5, VersionStays DEF Changes, At
<1>8. CacheInv'
  <2> SUFFICES ASSUME together["flags"] = {}, "flags" \notin raced PROVE CacheInv'
      BY <1>2 DEF CacheInv
  <2>1. task[t].next = flag /\ \A u \in Tasks : ~Dirty(u)
      BY <1>1 DEF VersionInv, Changes, Dirty, At
  <2>2. announcedVersion' = flag.version
      BY <1>2, <2>1, DocsGrow, StartedIsFinite DEF CacheInv, FlagTyped
  <2>3. \A u \in Tasks : Reads(u)' => Reads(u) /\ task'[u] = task[u]  BY <1>5 DEF Reads, At
  <2>4. flag.version \in Nat  BY DocsGrow
  <2> QED BY <1>2, <2>1, <2>2, <2>3, <2>4 DEF CacheInv
<1>9. PlatformInv'  BY <1>1, <1>2, <1>5, PlatformStays DEF Alters, Over, Carries, At
<1>10. ScheduleInv'  BY <1>1, <1>2, <1>5, ScheduleStays DEF TickOf, Changes, At
<1> QED BY <1>6, <1>7, <1>8, <1>9, <1>10

LEMMA MarkScheduleDoneKeeps == ASSUME FlagInv, NEW t \in Tasks, MarkScheduleDone(t) PROVE FlagInv'
<1> USE DEF FlagInv
<1> DEFINE r == [op |-> task[t].op, at |-> "over"]
<1>1. task[t] # New /\ task[t].at = "mark" /\ task[t].op = "schedule"
  <2>1. FlagCall(task[t], Limit)  BY DEF FlagTyped
  <2> QED BY <2>1 DEF MarkScheduleDone, At, FlagCall, New, Failed
<1>2. task' = [task EXCEPT ![t] = r] /\ failures' = failures /\ flag' = flag /\ snapshots' = snapshots /\ cached' = cached /\ announcedVersion' = announcedVersion /\ platform' = platform /\ kept' = kept /\ applied' = applied /\ raced' = raced /\ together' = together /\ ticks' = ticks /\ schedule' = "done"
    BY <1>1 DEF MarkScheduleDone, Goes, Ends, FlagTyped
<1>3. FlagCall(r, Limit) /\ r # New /\ r.at = "over" /\ r.op = task[t].op  BY <1>1 DEF FlagCall, New
<1> HIDE DEF r
<1>4. CallsTyped' /\ FlagMoves(t, r) /\ Limit' = Limit /\ Cardinality(Past) <= Cardinality(Past') /\ Cardinality(Past') \in Nat
      /\ (At(t, "replace") => Cardinality(Past') = Cardinality(Past) + 1)
    BY <1>1, <1>2, <1>3, FlagGoes
<1>5. task'[t].at = "over" /\ task'[t].op = task[t].op /\ \A u \in Tasks : u # t => task'[u] = task[u]
    BY <1>3, <1>4 DEF FlagMoves
<1>6. FlagTyped'
  <2>1. flag' \in DocsTo(Limit') /\ snapshots' \subseteq DocsTo(Limit') /\ cached' \in DocsTo(Limit') \cup {Nothing}
      BY <1>1, <1>2, <1>4 DEF FlagTyped
  <2>2. announcedVersion' \in 0..Limit' /\ applied' \in 0..Cardinality(Past')
      BY <1>1, <1>2, <1>4, StartedIsFinite DEF FlagTyped
  <2> QED BY <1>1, <1>2, <1>4, <2>1, <2>2 DEF FlagTyped, CallsTyped
<1>7. VersionInv'  BY <1>1, <1>2, <1>5, VersionStays DEF Changes, At
<1>8. CacheInv'  BY <1>1, <1>2, <1>5, CacheStays DEF Dirty, Reads, At
<1>9. PlatformInv'  BY <1>1, <1>2, <1>5, PlatformStays DEF Alters, Over, Carries, At
<1>10. ScheduleInv'
  <2> SUFFICES ASSUME ~ticks, failures = 0 PROVE ScheduleInv'  BY <1>2 DEF ScheduleInv
  <2>1. TickOf(t)  BY <1>1 DEF TickOf, Changes
  <2>2. \A u \in Tasks : ~TickOf(u)'  BY <1>5, <2>1 DEF ScheduleInv, TickOf, Changes, At
  <2> QED BY <1>2, <2>2 DEF ScheduleInv
<1> QED BY <1>6, <1>7, <1>8, <1>9, <1>10

LEMMA PutPlatformKeeps == ASSUME FlagInv, NEW t \in Tasks, PutPlatform(t) PROVE FlagInv'
<1> USE DEF FlagInv
<1> DEFINE r == [task[t] EXCEPT !.at = "invalidate"]
<1>1. task[t] \in [op : {"platform"}, what : {"platform"}, read : SUBSET Tasks, at : {"put"}] /\ task[t] # New /\ task[t].at = "put" /\ task[t].op = "platform" /\ task[t].what = "platform" /\ task[t].read \in SUBSET Tasks
  <2>1. FlagCall(task[t], Limit)  BY DEF FlagTyped
  <2> QED BY <2>1 DEF PutPlatform, At, FlagCall, New, Failed
<1>2. task' = [task EXCEPT ![t] = r] /\ failures' = failures /\ flag' = flag /\ snapshots' = snapshots /\ cached' = cached /\ announcedVersion' = announcedVersion /\ kept' = kept /\ schedule' = schedule /\ applied' = applied /\ raced' = raced /\ together' = together /\ ticks' = ticks /\ platform' = task[t].read \cup {t}
    BY <1>1 DEF PutPlatform, Goes, Ends, FlagTyped, WithChange
<1>3. FlagCall(r, Limit) /\ r # New /\ r.at = "invalidate" /\ r.op = "platform" /\ r.what = "platform" /\ r.read = task[t].read
    BY <1>1 DEF FlagCall, New
<1> HIDE DEF r
<1>4. CallsTyped' /\ FlagMoves(t, r) /\ Limit' = Limit /\ Cardinality(Past) <= Cardinality(Past') /\ Cardinality(Past') \in Nat
      /\ (At(t, "replace") => Cardinality(Past') = Cardinality(Past) + 1)
    BY <1>1, <1>2, <1>3, FlagGoes
<1>5. task'[t].at = "invalidate" /\ task'[t].op = "platform" /\ task'[t].what = "platform" /\ task'[t].read = task[t].read /\ \A u \in Tasks : u # t => task'[u] = task[u]
    BY <1>3, <1>4 DEF FlagMoves
<1>6. FlagTyped'
  <2>1. flag' \in DocsTo(Limit') /\ snapshots' \subseteq DocsTo(Limit') /\ cached' \in DocsTo(Limit') \cup {Nothing}
      BY <1>1, <1>2, <1>4 DEF FlagTyped
  <2>2. announcedVersion' \in 0..Limit' /\ applied' \in 0..Cardinality(Past')
      BY <1>1, <1>2, <1>4, StartedIsFinite DEF FlagTyped
  <2> QED BY <1>1, <1>2, <1>4, <2>1, <2>2 DEF FlagTyped, CallsTyped
<1>7. VersionInv'  BY <1>1, <1>2, <1>5, VersionStays DEF Changes, At
<1>8. CacheInv'  BY <1>1, <1>2, <1>5, CacheStays DEF Dirty, Reads, At
<1>9. PlatformInv'
  <2>1. \A u \in Tasks : /\ Alters(u)' <=> Alters(u)
                         /\ Over(u, "platform")' => Over(u, "platform")
                         /\ Carries(u)' => Carries(u) /\ task'[u] = task[u]
      BY <1>1, <1>5 DEF Alters, Over, Carries, At
  <2>2. \A u \in Tasks : Alters(u)' /\ At(u, "invalidate")' /\ u \notin together'["platform"] => u \in platform'
    <3> SUFFICES ASSUME NEW u \in Tasks, Alters(u)', u \notin together["platform"] PROVE u \in platform'
        BY <1>2
    <3>1. CASE u = t  BY <1>2, <3>1
    <3>2. CASE u # t
      <4>1. Alters(t) /\ Alters(u)  BY <1>1, <2>1 DEF Alters
      <4> QED BY <3>2, <4>1 DEF PlatformInv
    <3> QED BY <3>1, <3>2
  <2>3. Carries(t)  BY <1>1 DEF Carries, At
  <2>4. \A u, v \in Tasks : Alters(u)' /\ Alters(v)' /\ u # v => u \in together'["platform"]
      BY <1>2, <2>1 DEF PlatformInv
  <2>5. \A u \in Tasks : Over(u, "platform")' /\ u \notin together'["platform"] /\ "platform" \notin raced' =>
           /\ u \in platform'
           /\ kept' # Nothing => u \in kept'
           /\ \A v \in Tasks : Carries(v)' => u \in task'[v].read
    <3> SUFFICES ASSUME NEW u \in Tasks, Over(u, "platform")', u \notin together'["platform"], "platform" \notin raced'
                 PROVE  /\ u \in platform'
                        /\ kept' # Nothing => u \in kept'
                        /\ \A v \in Tasks : Carries(v)' => u \in task'[v].read
        OBVIOUS
    <3>1. /\ kept # Nothing => u \in kept
          /\ \A v \in Tasks : Carries(v) => u \in task[v].read
        BY <1>2, <2>1 DEF PlatformInv
    <3> QED BY <1>2, <2>1, <2>3, <3>1
  <2> QED BY <2>2, <2>4, <2>5 DEF PlatformInv
<1>10. ScheduleInv'  BY <1>1, <1>2, <1>5, ScheduleStays DEF TickOf, Changes, At
<1> QED BY <1>6, <1>7, <1>8, <1>9, <1>10

LEMMA InvalidateKeeps == ASSUME FlagInv, NEW t \in Tasks, Invalidate(t) PROVE FlagInv'
<1> USE DEF FlagInv
<1> DEFINE r == IF task[t].op = "platform" THEN [op |-> task[t].op, at |-> "over"] ELSE [task[t] EXCEPT !.at = "tell"]
<1>1. task[t] # New /\ task[t].at = "invalidate" /\ (task[t].op = "platform" \/ task[t] \in [op : {"update", "rollback", "schedule"}, next : DocsTo(Limit), at : {"invalidate"}])
  <2>1. FlagCall(task[t], Limit)  BY DEF FlagTyped
  <2> QED BY <2>1 DEF Invalidate, At, FlagCall, New, Failed
<1>2. task' = [task EXCEPT ![t] = r] /\ failures' = failures /\ flag' = flag /\ snapshots' = snapshots /\ announcedVersion' = announcedVersion /\ platform' = platform /\ schedule' = schedule /\ applied' = applied /\ together' = together /\ ticks' = ticks /\ cached' = Nothing /\ kept' = Nothing /\ raced' = raced \cup Overtaken
    BY <1>1 DEF Invalidate, Goes, Ends, FlagTyped, Dropped
<1>3. FlagCall(r, Limit) /\ r # New /\ r.at = (IF task[t].op = "platform" THEN "over" ELSE "tell") /\ r.op = task[t].op /\ (task[t].op # "platform" => r.next = task[t].next)
    BY <1>1 DEF FlagCall, New
<1> HIDE DEF r
<1>4. CallsTyped' /\ FlagMoves(t, r) /\ Limit' = Limit /\ Cardinality(Past) <= Cardinality(Past') /\ Cardinality(Past') \in Nat
      /\ (At(t, "replace") => Cardinality(Past') = Cardinality(Past) + 1)
    BY <1>1, <1>2, <1>3, FlagGoes
<1>5. task'[t].at = (IF task[t].op = "platform" THEN "over" ELSE "tell") /\ task'[t].op = task[t].op /\ (task[t].op # "platform" => task'[t].next = task[t].next) /\ \A u \in Tasks : u # t => task'[u] = task[u]
    BY <1>3, <1>4 DEF FlagMoves
<1>6. FlagTyped'
  <2>3. raced' \in SUBSET Documents  BY <1>2 DEF Overtaken, FlagTyped
  <2>1. flag' \in DocsTo(Limit') /\ snapshots' \subseteq DocsTo(Limit') /\ cached' \in DocsTo(Limit') \cup {Nothing}
      BY <1>1, <1>2, <1>4 DEF FlagTyped
  <2>2. announcedVersion' \in 0..Limit' /\ applied' \in 0..Cardinality(Past')
      BY <1>1, <1>2, <1>4, StartedIsFinite DEF FlagTyped
  <2> QED BY <1>1, <1>2, <1>4, <2>1, <2>2, <2>3 DEF FlagTyped, CallsTyped
<1>7. VersionInv'  BY <1>1, <1>2, <1>5, VersionStays DEF Changes, At
<1>8. CacheInv'
  <2> SUFFICES ASSUME together["flags"] = {}, "flags" \notin raced' PROVE CacheInv'
      BY <1>2 DEF CacheInv
  <2>1. "flags" \notin Overtaken /\ "flags" \notin raced /\ "flags" \in Documents
      BY <1>2 DEF Documents
  <2>2. \A u \in Tasks : Reads(u) => task[u].read = flag  BY <2>1 DEF Overtaken, Reads
  <2>3. \A u \in Tasks : Reads(u)' => Reads(u) /\ task'[u] = task[u]  BY <1>1, <1>5 DEF Reads, At
  <2>4. announcedVersion <= flag.version /\ flag.version >= announcedVersion
      BY <2>1, DocsGrow, StartedIsFinite DEF CacheInv, FlagTyped
  <2> QED BY <1>2, <2>2, <2>3, <2>4 DEF CacheInv
<1>9. PlatformInv'
  <2>1. \A u \in Tasks : /\ Alters(u)' => Alters(u) /\ u # t /\ task'[u] = task[u]
                         /\ Over(u, "platform")' => Over(u, "platform") \/ (u = t /\ task[t].op = "platform")
                         /\ Carries(u)' => Carries(u) /\ u # t /\ task'[u] = task[u]
      BY <1>1, <1>5 DEF Alters, Over, Carries, At
  <2>2. raced \subseteq raced'  BY <1>2
  <2>3. CASE task[t].op # "platform"  BY <1>2, <2>1, <2>2, <2>3, PlatformStays
  <2>4. CASE task[t].op = "platform"
    <3>1. Alters(t) /\ At(t, "invalidate")  BY <1>1, <2>4 DEF Alters, At
    <3>2. ASSUME t \notin together["platform"], "platform" \notin raced'
          PROVE  t \in platform /\ \A u \in Tasks : Carries(u)' => t \in task'[u].read
      <4>1. t \in platform  BY <3>1, <3>2 DEF PlatformInv
      <4>2. "platform" \notin Overtaken /\ "platform" \in Documents /\ "platform" # "flags"
          BY <1>2, <3>2 DEF Documents
      <4>3. \A u \in Tasks : At(u, "fill") /\ task[u].what = "platform" => task[u].read = platform
          BY <4>2 DEF Overtaken
      <4>4. \A u \in Tasks : At(u, "put") => Alters(u)
        <5> TAKE u \in Tasks
        <5>1. FlagCall(task[u], Limit)  BY DEF FlagTyped
        <5> QED BY <5>1 DEF FlagCall, Alters, At, New, Failed
      <4>5. \A u \in Tasks : u # t => ~Alters(u)  BY <3>1, <3>2 DEF PlatformInv
      <4> QED BY <2>1, <4>1, <4>3, <4>4, <4>5 DEF Carries
    <3>3. \A u, v \in Tasks : Alters(u)' /\ Alters(v)' /\ u # v => u \in together'["platform"]
        BY <1>2, <2>1 DEF PlatformInv
    <3>4. \A u \in Tasks : Alters(u)' /\ At(u, "invalidate")' /\ u \notin together'["platform"] => u \in platform'
        BY <1>2, <2>1 DEF PlatformInv, At
    <3>5. \A u \in Tasks : Over(u, "platform")' /\ u \notin together'["platform"] /\ "platform" \notin raced' =>
             /\ u \in platform'
             /\ kept' # Nothing => u \in kept'
             /\ \A v \in Tasks : Carries(v)' => u \in task'[v].read
      <4> SUFFICES ASSUME NEW u \in Tasks, Over(u, "platform")', u \notin together["platform"], "platform" \notin raced'
                   PROVE  u \in platform /\ \A v \in Tasks : Carries(v)' => u \in task'[v].read
          BY <1>2
      <4>1. CASE u = t  BY <3>2, <4>1
      <4>2. CASE u # t
        <5>1. Over(u, "platform") /\ "platform" \notin raced  BY <2>1, <2>2, <4>2
        <5>2. u \in platform /\ \A v \in Tasks : Carries(v) => u \in task[v].read
            BY <5>1 DEF PlatformInv
        <5> QED BY <2>1, <5>2
      <4> QED BY <4>1, <4>2
    <3> QED BY <3>3, <3>4, <3>5 DEF PlatformInv
  <2> QED BY <2>3, <2>4
<1>10. ScheduleInv'  BY <1>1, <1>2, <1>5, ScheduleStays DEF TickOf, Changes, At
<1> QED BY <1>6, <1>7, <1>8, <1>9, <1>10

LEMMA ReadFlagsKeeps == ASSUME FlagInv, NEW t \in Tasks, ReadFlags(t) PROVE FlagInv'
<1> USE DEF FlagInv
<1> DEFINE r == [op |-> "load", what |-> "flags", read |-> flag, at |-> "fill"]
<1>1. r.op = "load" /\ r.what = "flags" /\ r.read = flag /\ r.at = "fill" /\ r # New  BY DEF New
<1>2. FlagCall(r, Limit + 1)  BY DocsGrow DEF FlagCall, FlagTyped
<1>3. Begins(t, r) /\ cached = Nothing /\ failures' = failures /\ flag' = flag /\ snapshots' = snapshots /\ cached' = cached /\ announcedVersion' = announcedVersion /\ platform' = platform /\ kept' = kept /\ schedule' = schedule /\ applied' = applied /\ raced' = raced /\ together' = together /\ ticks' = ticks
    BY DEF ReadFlags, flagVars
<1> HIDE DEF r
<1>4. CallsTyped' /\ FlagMoves(t, r) /\ task[t] = New /\ Limit' = Limit + 1 /\ Cardinality(Past) <= Cardinality(Past') /\ Cardinality(Past') \in Nat
    BY <1>1, <1>2, <1>3, FlagBegins
<1>5. task[t].at = "new" /\ task'[t].at = "fill" /\ task'[t].op = "load" /\ task'[t].what = "flags" /\ task'[t].read = flag
      /\ \A u \in Tasks : u # t => task'[u] = task[u]
    BY <1>1, <1>4 DEF FlagMoves, New
<1>6. FlagTyped'
  <2>1. flag' \in DocsTo(Limit') /\ snapshots' \subseteq DocsTo(Limit') /\ cached' \in DocsTo(Limit') \cup {Nothing}
      BY <1>3, <1>4, DocsGrow DEF FlagTyped
  <2>2. announcedVersion' \in 0..Limit' /\ applied' \in 0..Cardinality(Past')
      BY <1>3, <1>4, StartedIsFinite DEF FlagTyped
  <2> QED BY <1>3, <1>4, <2>1, <2>2 DEF FlagTyped, CallsTyped
<1>7. VersionInv'  BY <1>3, <1>5, VersionStays DEF Changes, At
<1>8. CacheInv'
  <2> SUFFICES ASSUME together["flags"] = {}, "flags" \notin raced PROVE CacheInv'
      BY <1>3 DEF CacheInv
  <2>1. \A u \in Tasks : Reads(u)' => (Reads(u) /\ task'[u].read = task[u].read) \/ task'[u].read = flag
      BY <1>5 DEF Reads, At
  <2>2. \A u \in Tasks : Dirty(u)' <=> Dirty(u)  BY <1>5 DEF Dirty, At
  <2>3. announcedVersion <= flag.version /\ flag.version >= announcedVersion
      BY DocsGrow, StartedIsFinite DEF CacheInv, FlagTyped
  <2>4. (\A u \in Tasks : ~Dirty(u)) => \A u \in Tasks : Reads(u) => task[u].read.version = flag.version
      BY DEF CacheInv
  <2>5. \A u \in Tasks : Reads(u) => task[u].read.version >= announcedVersion  BY DEF CacheInv
  <2> QED BY <1>3, <2>1, <2>2, <2>3, <2>4, <2>5 DEF CacheInv
<1>9. PlatformInv'  BY <1>3, <1>5, PlatformStays DEF Alters, Over, Carries, At
<1>10. ScheduleInv'  BY <1>3, <1>5, ScheduleStays DEF TickOf, Changes, At
<1> QED BY <1>6, <1>7, <1>8, <1>9, <1>10

LEMMA ReadPlatformKeeps == ASSUME FlagInv, NEW t \in Tasks, ReadPlatform(t) PROVE FlagInv'
<1> USE DEF FlagInv
<1>1. PICK op \in {"load", "platform"} :
         /\ IF kept = Nothing
            THEN Begins(t, [op |-> op, what |-> "platform", read |-> platform, at |-> "fill"])
            ELSE op = "platform" /\ Begins(t, [op |-> op, what |-> "platform", read |-> kept, at |-> "put"])
         /\ IF op = "platform" THEN Overlapping(t, "platform") ELSE UNCHANGED together
    BY DEF ReadPlatform
<1> DEFINE r == IF kept = Nothing THEN [op |-> op, what |-> "platform", read |-> platform, at |-> "fill"]
                                  ELSE [op |-> op, what |-> "platform", read |-> kept, at |-> "put"]
<1>2. r.op = op /\ r.what = "platform" /\ r.read = (IF kept = Nothing THEN platform ELSE kept) /\ r.at = (IF kept = Nothing THEN "fill" ELSE "put") /\ r # New
    BY DEF New
<1>3. FlagCall(r, Limit + 1)
  <2>1. CASE kept = Nothing  BY <1>1, <2>1 DEF FlagCall, FlagTyped
  <2>2. CASE kept # Nothing  BY <1>1, <2>2 DEF FlagCall, FlagTyped
  <2> QED BY <2>1, <2>2
<1>4. Begins(t, r) /\ failures' = failures /\ flag' = flag /\ snapshots' = snapshots /\ cached' = cached /\ announcedVersion' = announcedVersion /\ platform' = platform /\ kept' = kept /\ schedule' = schedule /\ applied' = applied /\ raced' = raced /\ ticks' = ticks
    BY <1>1 DEF ReadPlatform
<1>5. /\ together' \in [Documents -> SUBSET Tasks] /\ together'["flags"] = together["flags"]
      /\ together["platform"] \subseteq together'["platform"]
      /\ op = "platform" => \A u \in Tasks : Alters(u) => u \in together'["platform"] /\ t \in together'["platform"]
  <2>1. CASE op = "platform"  BY <1>1, <2>1, OverlapOfPlatform
  <2>2. CASE op # "platform"  BY <1>1, <2>2 DEF FlagTyped
  <2> QED BY <2>1, <2>2
<1> HIDE DEF r
<1>6. CallsTyped' /\ FlagMoves(t, r) /\ task[t] = New /\ Limit' = Limit + 1 /\ Cardinality(Past) <= Cardinality(Past') /\ Cardinality(Past') \in Nat
    BY <1>2, <1>3, <1>4, FlagBegins
<1>7. task[t].at = "new" /\ task'[t].at = (IF kept = Nothing THEN "fill" ELSE "put") /\ task'[t].op = op /\ task'[t].what = "platform"
      /\ task'[t].read = (IF kept = Nothing THEN platform ELSE kept)
      /\ \A u \in Tasks : u # t => task'[u] = task[u]
    BY <1>2, <1>6 DEF FlagMoves, New
<1>8. FlagTyped'
  <2>1. flag' \in DocsTo(Limit') /\ snapshots' \subseteq DocsTo(Limit') /\ cached' \in DocsTo(Limit') \cup {Nothing}
      BY <1>4, <1>6, DocsGrow DEF FlagTyped
  <2>2. announcedVersion' \in 0..Limit' /\ applied' \in 0..Cardinality(Past')
      BY <1>4, <1>6, StartedIsFinite DEF FlagTyped
  <2> QED BY <1>4, <1>5, <1>6, <2>1, <2>2 DEF FlagTyped, CallsTyped
<1>9. VersionInv'  BY <1>4, <1>5, <1>7, VersionStays DEF Changes, At
<1>10. CacheInv'  BY <1>4, <1>5, <1>7, CacheStays DEF Dirty, Reads, At
<1>11. PlatformInv'
  <2>1. \A u \in Tasks : /\ Alters(u)' => Alters(u) \/ (u = t /\ op = "platform")
                         /\ Over(u, "platform")' => Over(u, "platform")
                         /\ Carries(u)' => (Carries(u) /\ task'[u] = task[u]) \/ u = t
                         /\ u # t => task'[u] = task[u]
      BY <1>7 DEF Alters, Over, Carries, At
  <2>2. \A u, v \in Tasks : Alters(u)' /\ Alters(v)' /\ u # v => u \in together'["platform"]
    <3> SUFFICES ASSUME NEW u \in Tasks, NEW v \in Tasks, Alters(u)', Alters(v)', u # v PROVE u \in together'["platform"]
        OBVIOUS
    <3>1. CASE Alters(u) /\ Alters(v)  BY <1>5, <3>1 DEF PlatformInv
    <3>2. CASE ~(Alters(u) /\ Alters(v))  BY <1>5, <2>1, <3>2
    <3> QED BY <3>1, <3>2
  <2>3. \A u \in Tasks : Alters(u)' /\ At(u, "invalidate")' /\ u \notin together'["platform"] => u \in platform'
    <3> SUFFICES ASSUME NEW u \in Tasks, Alters(u)', At(u, "invalidate")', u \notin together'["platform"] PROVE u \in platform
        BY <1>4
    <3>1. u # t  BY <1>7 DEF At
    <3>2. Alters(u) /\ At(u, "invalidate") /\ u \notin together["platform"]
        BY <1>5, <2>1, <3>1 DEF At
    <3> QED BY <3>2 DEF PlatformInv
  <2>4. \A u \in Tasks : Over(u, "platform")' /\ u \notin together'["platform"] /\ "platform" \notin raced' =>
           /\ u \in platform'
           /\ kept' # Nothing => u \in kept'
           /\ \A v \in Tasks : Carries(v)' => u \in task'[v].read
    <3> SUFFICES ASSUME NEW u \in Tasks, Over(u, "platform")', u \notin together'["platform"], "platform" \notin raced
                 PROVE  /\ u \in platform
                        /\ kept # Nothing => u \in kept
                        /\ \A v \in Tasks : Carries(v)' => u \in task'[v].read
        BY <1>4
    <3>1. /\ u \in platform /\ (kept # Nothing => u \in kept)
          /\ \A v \in Tasks : Carries(v) => u \in task[v].read
        BY <1>5, <2>1 DEF PlatformInv
    <3> QED BY <1>7, <2>1, <3>1
  <2> QED BY <2>2, <2>3, <2>4 DEF PlatformInv
<1>12. ScheduleInv'  BY <1>4, <1>7, ScheduleStays DEF TickOf, Changes, At
<1> QED BY <1>8, <1>9, <1>10, <1>11, <1>12

LEMMA FillFlagsKeeps == ASSUME FlagInv, NEW t \in Tasks, Fill(t), task[t].what = "flags" PROVE FlagInv'
<1> USE DEF FlagInv
<1> DEFINE r == [op |-> task[t].op, at |-> "over"]
<1>1. task[t] # New /\ task[t].at = "fill" /\ task[t].what = "flags" /\ task[t].op = "load" /\ task[t].read \in DocsTo(Limit)
  <2>1. FlagCall(task[t], Limit)  BY DEF FlagTyped
  <2> QED BY <2>1 DEF Fill, At, FlagCall, New, Failed
<1>2. task' = [task EXCEPT ![t] = r] /\ failures' = failures /\ flag' = flag /\ snapshots' = snapshots /\ announcedVersion' = announcedVersion /\ platform' = platform /\ kept' = kept /\ schedule' = schedule /\ applied' = applied /\ raced' = raced /\ together' = together /\ ticks' = ticks /\ cached' = task[t].read
    BY <1>1 DEF Fill, Goes, Ends, FlagTyped
<1>3. FlagCall(r, Limit) /\ r # New /\ r.at = "over" /\ r.op = "load"  BY <1>1 DEF FlagCall, New
<1> HIDE DEF r
<1>4. CallsTyped' /\ FlagMoves(t, r) /\ Limit' = Limit /\ Cardinality(Past) <= Cardinality(Past') /\ Cardinality(Past') \in Nat
      /\ (At(t, "replace") => Cardinality(Past') = Cardinality(Past) + 1)
    BY <1>1, <1>2, <1>3, FlagGoes
<1>5. task'[t].at = "over" /\ task'[t].op = "load" /\ \A u \in Tasks : u # t => task'[u] = task[u]
    BY <1>3, <1>4 DEF FlagMoves
<1>6. FlagTyped'
  <2>1. flag' \in DocsTo(Limit') /\ snapshots' \subseteq DocsTo(Limit') /\ cached' \in DocsTo(Limit') \cup {Nothing}
      BY <1>1, <1>2, <1>4 DEF FlagTyped
  <2>2. announcedVersion' \in 0..Limit' /\ applied' \in 0..Cardinality(Past')
      BY <1>1, <1>2, <1>4, StartedIsFinite DEF FlagTyped
  <2> QED BY <1>1, <1>2, <1>4, <2>1, <2>2 DEF FlagTyped, CallsTyped
<1>7. VersionInv'  BY <1>1, <1>2, <1>5, VersionStays DEF Changes, At
<1>8. CacheInv'
  <2> SUFFICES ASSUME together["flags"] = {}, "flags" \notin raced PROVE CacheInv'
      BY <1>2 DEF CacheInv
  <2>1. Reads(t)  BY <1>1 DEF Reads, At
  <2>2. task[t].read.version >= announcedVersion  BY <2>1 DEF CacheInv
  <2>3. \A u \in Tasks : (Reads(u)' => Reads(u) /\ task'[u] = task[u]) /\ (Dirty(u)' <=> Dirty(u))
      BY <1>1, <1>5 DEF Reads, Dirty, At
  <2>4. (\A u \in Tasks : ~Dirty(u)) => task[t].read.version = flag.version  BY <2>1 DEF CacheInv
  <2> QED BY <1>2, <2>2, <2>3, <2>4 DEF CacheInv
<1>9. PlatformInv'  BY <1>1, <1>2, <1>5, PlatformStays DEF Alters, Over, Carries, At
<1>10. ScheduleInv'  BY <1>1, <1>2, <1>5, ScheduleStays DEF TickOf, Changes, At
<1> QED BY <1>6, <1>7, <1>8, <1>9, <1>10

LEMMA FillPlatformKeeps == ASSUME FlagInv, NEW t \in Tasks, Fill(t), task[t].what # "flags" PROVE FlagInv'
<1> USE DEF FlagInv
<1> DEFINE r == IF task[t].op = "platform" THEN [task[t] EXCEPT !.at = "put"] ELSE [op |-> task[t].op, at |-> "over"]
<1>1. task[t] # New /\ task[t].at = "fill" /\ task[t].what = "platform" /\ task[t].op \in {"load", "platform"} /\ task[t].read \in SUBSET Tasks
      /\ task[t] \in [op : {"load", "platform"}, what : {"platform"}, read : SUBSET Tasks, at : {"fill"}]
  <2>1. FlagCall(task[t], Limit)  BY DEF FlagTyped
  <2> QED BY <2>1 DEF Fill, At, FlagCall, New, Failed
<1>2. task' = [task EXCEPT ![t] = r] /\ failures' = failures /\ flag' = flag /\ snapshots' = snapshots /\ cached' = cached /\ announcedVersion' = announcedVersion /\ platform' = platform /\ schedule' = schedule /\ applied' = applied /\ raced' = raced /\ together' = together /\ ticks' = ticks /\ kept' = task[t].read
    BY <1>1 DEF Fill, Goes, Ends, FlagTyped
<1>3. FlagCall(r, Limit) /\ r # New /\ r.at = (IF task[t].op = "platform" THEN "put" ELSE "over") /\ r.op = task[t].op
      /\ (task[t].op = "platform" => r.read = task[t].read)
    BY <1>1 DEF FlagCall, New
<1> HIDE DEF r
<1>4. CallsTyped' /\ FlagMoves(t, r) /\ Limit' = Limit /\ Cardinality(Past) <= Cardinality(Past') /\ Cardinality(Past') \in Nat
      /\ (At(t, "replace") => Cardinality(Past') = Cardinality(Past) + 1)
    BY <1>1, <1>2, <1>3, FlagGoes
<1>5. task'[t].at = (IF task[t].op = "platform" THEN "put" ELSE "over") /\ task'[t].op = task[t].op
      /\ (task[t].op = "platform" => task'[t].read = task[t].read) /\ \A u \in Tasks : u # t => task'[u] = task[u]
    BY <1>3, <1>4 DEF FlagMoves
<1>6. FlagTyped'
  <2>1. flag' \in DocsTo(Limit') /\ snapshots' \subseteq DocsTo(Limit') /\ cached' \in DocsTo(Limit') \cup {Nothing}
      BY <1>1, <1>2, <1>4 DEF FlagTyped
  <2>2. announcedVersion' \in 0..Limit' /\ applied' \in 0..Cardinality(Past')
      BY <1>1, <1>2, <1>4, StartedIsFinite DEF FlagTyped
  <2> QED BY <1>1, <1>2, <1>4, <2>1, <2>2 DEF FlagTyped, CallsTyped
<1>7. VersionInv'  BY <1>1, <1>2, <1>5, VersionStays DEF Changes, At
<1>8. CacheInv'  BY <1>1, <1>2, <1>5, CacheStays DEF Dirty, Reads, At
<1>9. PlatformInv'
  <2>1. Carries(t)  BY <1>1 DEF Carries, At
  <2>2. \A u \in Tasks : /\ Alters(u)' => Alters(u)
                         /\ At(u, "invalidate")' => At(u, "invalidate")
                         /\ Over(u, "platform")' => Over(u, "platform")
                         /\ Carries(u)' => Carries(u) /\ task'[u].read = task[u].read
      BY <1>1, <1>5 DEF Alters, Over, Carries, At
  <2>3. \A u, v \in Tasks : Alters(u)' /\ Alters(v)' /\ u # v => u \in together'["platform"]
      BY <1>2, <2>2 DEF PlatformInv
  <2>4. \A u \in Tasks : Alters(u)' /\ At(u, "invalidate")' /\ u \notin together'["platform"] => u \in platform'
      BY <1>2, <2>2 DEF PlatformInv
  <2>5. \A u \in Tasks : Over(u, "platform")' /\ u \notin together'["platform"] /\ "platform" \notin raced' =>
           /\ u \in platform'
           /\ kept' # Nothing => u \in kept'
           /\ \A v \in Tasks : Carries(v)' => u \in task'[v].read
    <3> SUFFICES ASSUME NEW u \in Tasks, Over(u, "platform")', u \notin together["platform"], "platform" \notin raced
                 PROVE  /\ u \in platform /\ u \in task[t].read
                        /\ \A v \in Tasks : Carries(v)' => u \in task'[v].read
        BY <1>2
    <3>1. u \in platform /\ \A v \in Tasks : Carries(v) => u \in task[v].read
        BY <2>2 DEF PlatformInv
    <3> QED BY <2>1, <2>2, <3>1
  <2> QED BY <2>3, <2>4, <2>5 DEF PlatformInv
<1>10. ScheduleInv'  BY <1>1, <1>2, <1>5, ScheduleStays DEF TickOf, Changes, At
<1> QED BY <1>6, <1>7, <1>8, <1>9, <1>10

LEMMA ScheduleFlagKeeps == ASSUME FlagInv, ScheduleFlag PROVE FlagInv'
<1> USE DEF FlagInv
<1>1. task' = task /\ failures' = failures /\ flag' = flag /\ snapshots' = snapshots /\ cached' = cached /\ announcedVersion' = announcedVersion /\ platform' = platform /\ kept' = kept /\ applied' = applied /\ raced' = raced /\ together' = together /\ ticks' = ticks /\ schedule = "none" /\ schedule' = "pending"
    BY DEF ScheduleFlag, taskVars, flagVars
<1>2. Limit' = Limit /\ Past' = Past  BY <1>1 DEF Limit, Past, Started, At
<1>3. FlagTyped'  BY <1>1, <1>2 DEF FlagTyped
<1>4. VersionInv'  BY <1>1, VersionStays DEF Changes, At
<1>5. CacheInv'  BY <1>1, CacheStays DEF Dirty, Reads, At
<1>6. PlatformInv'  BY <1>1, PlatformStays DEF Alters, Over, Carries, At
<1>7. ScheduleInv'  BY <1>1 DEF ScheduleInv, TickOf, Changes, At
<1> QED BY <1>3, <1>4, <1>5, <1>6, <1>7

LEMMA CancelScheduleKeeps == ASSUME FlagInv, CancelSchedule PROVE FlagInv'
<1> USE DEF FlagInv
<1>1. task' = task /\ failures' = failures /\ flag' = flag /\ snapshots' = snapshots /\ cached' = cached /\ announcedVersion' = announcedVersion /\ platform' = platform /\ kept' = kept /\ applied' = applied /\ raced' = raced /\ together' = together /\ schedule' = "cancelled" /\ ticks' = (ticks \/ At_({"schedule"}) # {})
    BY DEF CancelSchedule, taskVars, flagVars
<1>2. Limit' = Limit /\ Past' = Past  BY <1>1 DEF Limit, Past, Started, At
<1>3. FlagTyped'  BY <1>1, <1>2 DEF FlagTyped
<1>4. VersionInv'  BY <1>1, VersionStays DEF Changes, At
<1>5. CacheInv'  BY <1>1, CacheStays DEF Dirty, Reads, At
<1>6. PlatformInv'  BY <1>1, PlatformStays DEF Alters, Over, Carries, At
<1>7. ScheduleInv'
  <2>1. ~ticks' => ~ticks /\ \A u \in Tasks : ~TickOf(u)  BY <1>1, ChangersAre DEF FlagTyped
  <2> QED BY <1>1, <2>1 DEF ScheduleInv, TickOf, Changes, At
<1> QED BY <1>3, <1>4, <1>5, <1>6, <1>7

LEMMA CacheExpiresKeeps == ASSUME FlagInv, CacheExpires PROVE FlagInv'
<1> USE DEF FlagInv
<1>1. task' = task /\ failures' = failures /\ flag' = flag /\ snapshots' = snapshots /\ announcedVersion' = announcedVersion /\ platform' = platform /\ schedule' = schedule /\ applied' = applied /\ raced' = raced /\ together' = together /\ ticks' = ticks /\ cached' \in {Nothing, cached} /\ kept' \in {Nothing, kept}
    BY DEF CacheExpires, taskVars, flagVars
<1>2. Limit' = Limit /\ Past' = Past  BY <1>1 DEF Limit, Past, Started, At
<1>3. FlagTyped'  BY <1>1, <1>2 DEF FlagTyped
<1>4. VersionInv'  BY <1>1, VersionStays DEF Changes, At
<1>5. CacheInv'  BY <1>1, CacheStays DEF Dirty, Reads, At
<1>6. PlatformInv'  BY <1>1, PlatformStays DEF Alters, Over, Carries, At
<1>7. ScheduleInv'  BY <1>1, ScheduleStays DEF TickOf, Changes, At
<1> QED BY <1>3, <1>4, <1>5, <1>6, <1>7

LEMMA FailFlagKeeps == ASSUME FlagInv, NEW t \in Tasks, FailFlag(t) PROVE FlagInv'
<1> USE DEF FlagInv
<1>1. task' = [task EXCEPT ![t] = Failed] /\ task[t].at \notin {"new", "over", "failed"} /\ failures' = failures + 1 /\ failures \in Nat
      /\ raced' = (IF At(t, "snapshot") \/ At(t, "invalidate") THEN Documents ELSE raced) /\ flag' = flag /\ snapshots' = snapshots /\ cached' = cached /\ announcedVersion' = announcedVersion /\ platform' = platform /\ kept' = kept /\ schedule' = schedule /\ applied' = applied /\ together' = together /\ ticks' = ticks
    BY DEF FailFlag, Fails, FlagTyped
<1>2. Failed.at = "failed" /\ Failed # New /\ FlagCall(Failed, Limit) /\ task[t] # New
    BY <1>1 DEF FlagCall, Failed, New
<1>3. CallsTyped' /\ FlagMoves(t, Failed) /\ Limit' = Limit /\ Cardinality(Past) <= Cardinality(Past') /\ Cardinality(Past') \in Nat
    BY <1>1, <1>2, FlagGoes
<1>4. task'[t].at = "failed" /\ \A u \in Tasks : u # t => task'[u] = task[u]
    BY <1>2, <1>3 DEF FlagMoves
<1>5. failures' # 0 /\ failures' \in Nat /\ raced \subseteq raced' /\ raced' \in SUBSET Documents /\ "flags" \in Documents
    BY <1>1 DEF FlagTyped, Documents
<1>6. FlagTyped'
  <2>1. flag' \in DocsTo(Limit') /\ snapshots' \subseteq DocsTo(Limit') /\ cached' \in DocsTo(Limit') \cup {Nothing}
      BY <1>1, <1>3 DEF FlagTyped
  <2>2. announcedVersion' \in 0..Limit' /\ applied' \in 0..Cardinality(Past')
      BY <1>1, <1>3, StartedIsFinite DEF FlagTyped
  <2> QED BY <1>1, <1>3, <1>5, <2>1, <2>2 DEF FlagTyped, CallsTyped
<1>7. VersionInv'  BY <1>1, <1>4, <1>5, VersionStays DEF Changes, At
<1>8. CacheInv'
  <2>1. CASE Dirty(t)  BY <1>1, <1>5, <2>1 DEF CacheInv, Dirty
  <2>2. CASE ~Dirty(t)
    <3>1. \A u \in Tasks : (Dirty(u) => Dirty(u)') /\ (Reads(u)' => Reads(u) /\ task'[u].read = task[u].read)
        BY <1>4, <2>2 DEF Dirty, Reads, At
    <3> QED BY <1>1, <1>5, <3>1, CacheStays
  <2> QED BY <2>1, <2>2
<1>9. PlatformInv'  BY <1>1, <1>4, <1>5, PlatformStays DEF Alters, Over, Carries, At
<1>10. ScheduleInv'  BY <1>5 DEF ScheduleInv
<1> QED BY <1>6, <1>7, <1>8, <1>9, <1>10

LEMMA FlagInvInit == ASSUME TasksInit, FlagInit PROVE FlagInv
<1>1. \A t \in Tasks : task[t] = New /\ task[t].at = "new"  BY DEF TasksInit, New
<1>2. Started = {} /\ Past = {}  BY <1>1 DEF Started, Past
<1>3. Cardinality(Started) = 0 /\ Cardinality(Past) = 0  BY <1>2, FS_EmptySet
<1>4. Limit = 1  BY <1>3 DEF Limit
<1>5. flag \in DocsTo(Limit) /\ snapshots = {flag} /\ flag.version = 1  BY <1>4 DEF FlagInit, DocsTo
<1>6. \A t \in Tasks : FlagCall(task[t], Limit)  BY <1>1 DEF FlagCall
<1>7. FlagTyped
  <2>1. flag \in DocsTo(Limit) /\ snapshots \subseteq DocsTo(Limit) /\ cached \in DocsTo(Limit) \cup {Nothing}
      BY <1>5 DEF FlagInit
  <2>2. announcedVersion \in 0..Limit /\ applied \in 0..Cardinality(Past)
      BY <1>3, <1>4 DEF FlagInit
  <2>3. platform \in SUBSET Tasks /\ kept \in (SUBSET Tasks) \cup {Nothing} /\ schedule \in {"none", "pending", "cancelled", "done"}
        /\ raced \in SUBSET Documents /\ together \in [Documents -> SUBSET Tasks] /\ ticks \in BOOLEAN
      BY DEF FlagInit
  <2>4. failures \in Nat /\ task = [t \in Tasks |-> task[t]]  BY DEF TasksInit
  <2> QED BY <1>6, <2>1, <2>2, <2>3, <2>4 DEF FlagTyped
<1>8. VersionInv  BY <1>1, <1>5 DEF VersionInv, Changes, At
<1>9. CacheInv  BY <1>1, <1>5 DEF CacheInv, Reads, At, FlagInit
<1>10. PlatformInv  BY <1>1 DEF PlatformInv, Alters, Over, At
<1>11. ScheduleInv  BY <1>1 DEF ScheduleInv, TickOf, Changes, At, FlagInit
<1> QED BY <1>7, <1>8, <1>9, <1>10, <1>11 DEF FlagInv

LEMMA FlagInvNext == ASSUME FlagInv, FlagNext PROVE FlagInv'
<1>1. CASE ScheduleFlag \/ CancelSchedule \/ CacheExpires
    BY <1>1, ScheduleFlagKeeps, CancelScheduleKeeps, CacheExpiresKeeps
<1>2. ASSUME NEW t \in Tasks, Update(t) \/ Rollback(t) \/ ReadFlags(t) \/ ReadPlatform(t) PROVE FlagInv'
    BY <1>2, UpdateKeeps, RollbackKeeps, ReadFlagsKeeps, ReadPlatformKeeps
<1>3. ASSUME NEW t \in Tasks, Replace(t) \/ InsertVersion(t) \/ Invalidate(t) \/ Tell(t) PROVE FlagInv'
    BY <1>3, ReplaceKeeps, InsertVersionKeeps, InvalidateKeeps, TellKeeps
<1>4. ASSUME NEW t \in Tasks, Fill(t) \/ PutPlatform(t) PROVE FlagInv'
    BY <1>4, FillFlagsKeeps, FillPlatformKeeps, PutPlatformKeeps
<1>5. ASSUME NEW t \in Tasks, DueSchedules(t) \/ MarkScheduleDone(t) \/ FailFlag(t) PROVE FlagInv'
    BY <1>5, DueSchedulesKeeps, MarkScheduleDoneKeeps, FailFlagKeeps
<1> QED BY <1>1, <1>2, <1>3, <1>4, <1>5 DEF FlagNext, FlagRequests, BundleRequests

LEMMA FlagInvStays == ASSUME FlagInv, UNCHANGED <<taskVars, flagVars>> PROVE FlagInv'
<1> USE DEF FlagInv
<1>1. task' = task /\ failures' = failures /\ flag' = flag /\ snapshots' = snapshots /\ cached' = cached /\ announcedVersion' = announcedVersion /\ platform' = platform /\ kept' = kept /\ schedule' = schedule /\ applied' = applied /\ raced' = raced /\ together' = together /\ ticks' = ticks
    BY DEF taskVars, flagVars
<1>2. Limit' = Limit /\ Past' = Past  BY <1>1 DEF Limit, Past, Started, At
<1>3. FlagTyped'  BY <1>1, <1>2 DEF FlagTyped
<1>4. VersionInv'  BY <1>1, VersionStays DEF Changes, At
<1>5. CacheInv'  BY <1>1, CacheStays DEF Dirty, Reads, At
<1>6. PlatformInv'  BY <1>1, PlatformStays DEF Alters, Over, Carries, At
<1>7. ScheduleInv'  BY <1>1, ScheduleStays DEF TickOf, Changes, At
<1> QED BY <1>3, <1>4, <1>5, <1>6, <1>7

LEMMA FlagInvHolds ==
    ASSUME FlagInv
    PROVE  /\ FlagTypeOK /\ VersionsNameContents /\ CacheFollowsEvents
           /\ PlatformChangesStay /\ ScheduleAppliedOnce
<1> USE DEF FlagInv
<1>1. DocsTo(Limit) \subseteq Docs /\ 0..Limit \subseteq 0..(Cardinality(Tasks) + 1) /\ 0..Cardinality(Past) \subseteq 0..Cardinality(Tasks)
    BY StartedIsFinite DEF DocsTo, Docs, Limit
<1>2. FlagTypeOK  BY <1>1 DEF FlagTyped, FlagTypeOK
<1>3. VersionsNameContents
  <2>1. failures > 0 \/ failures = 0  BY DEF FlagTyped
  <2> QED BY <2>1 DEF VersionInv, VersionsNameContents
<1>4. CacheFollowsEvents
  <2>1. cached # Nothing => cached.version \in Nat /\ announcedVersion \in Nat
      BY DocsGrow, StartedIsFinite DEF FlagTyped
  <2> QED BY <2>1 DEF CacheInv, CacheFollowsEvents
<1>5. PlatformChangesStay  BY DEF PlatformInv, PlatformChangesStay
<1>6. ScheduleAppliedOnce
  <2>1. (failures > 0 \/ failures = 0) /\ applied \in Nat  BY StartedIsFinite DEF FlagTyped
  <2> QED BY <2>1 DEF ScheduleInv, ScheduleAppliedOnce
<1> QED BY <1>2, <1>3, <1>4, <1>5, <1>6

----------------------------------------------------------------------------
(* The segment                                                             *)

SegmentCall(r) ==
    \/ r \in {New, Failed}
    \/ r \in [op : {"create"}, read : {Nothing}, at : {"write", "drop"}]
    \/ r \in [op : {"update", "delete"}, read : Segments, at : {"write", "drop"}]
    \/ r \in [op : {"list"}, read : Segments \cup {Nothing}, at : {"keep"}]
    \/ r \in [op : {"create", "update", "delete", "list"}, at : {"over"}]

SegmentTyped ==
    /\ SegmentTypeOK /\ failures \in Nat
    /\ task = [t \in Tasks |-> task[t]] /\ \A t \in Tasks : SegmentCall(task[t])

Writing(t) == task[t].at \in {"write", "drop"}

\* Only between a write and its drop are the cache and the loads behind the segment.
ListInv ==
    ~overtaken /\ (\A t \in Tasks : ~At(t, "drop")) =>
       /\ segments \in {{}, {segment}}
       /\ \A t \in Tasks : At(t, "keep") => task[t].read = segment

\* An update that is alone writes over what it read, and is in all that is written after it.
HeldInv ==
    /\ \A t, u \in Tasks : Writing(t) /\ Writing(u) /\ t # u => t \in clashing
    /\ \A t \in Tasks : At(t, "write") /\ task[t].op = "update" /\ t \notin clashing => task[t].read = segment
    /\ \A t \in Tasks : At(t, "drop") /\ task[t].op = "update" /\ t \notin clashing => segment # Nothing /\ t \in segment.changes
    /\ \A t \in Tasks : Over(t, "update") /\ t \notin clashing /\ failures = 0 /\ (\A u \in Tasks : ~HasDeleted(u)) =>
           /\ segment # Nothing /\ t \in segment.changes
           /\ \A u \in Tasks : At(u, "write") /\ task[u].op = "update" => t \in task[u].read.changes

SegmentInv == SegmentTyped /\ ListInv /\ HeldInv

LEMMA SegmentStep ==
    ASSUME SegmentTyped, NEW t \in Tasks, NEW r, task' = [task EXCEPT ![t] = r], SegmentCall(r)
    PROVE  /\ task' = [u \in Tasks |-> task'[u]] /\ \A u \in Tasks : SegmentCall(task'[u])
           /\ task'[t] = r /\ \A u \in Tasks : u # t => task'[u] = task[u]
<1>1. task' = [u \in Tasks |-> IF u = t THEN r ELSE task[u]]  BY DEF SegmentTyped
<1>2. \A u \in Tasks : SegmentCall(task'[u])  BY <1>1 DEF SegmentTyped
<1> QED BY <1>1, <1>2

LEMMA SegmentFacts ==
    ASSUME SegmentTyped
    PROVE  /\ \A t \in Tasks : (t \in At_(Writes) <=> Writing(t)) /\ (t \in Reading <=> At(t, "keep"))
           /\ \A s \in Segments : s # Nothing /\ s.changes \in SUBSET Tasks
           /\ Nothing \notin Segments
<1>1. \A s \in Segments : s # Nothing /\ s.changes \in SUBSET Tasks
  <2>1. \A s \in Segments : s # Nothing  BY FlagsAssumption
  <2> QED BY <2>1 DEF Segments
<1>2. ASSUME NEW t \in Tasks PROVE (t \in At_(Writes) <=> Writing(t)) /\ (t \in Reading <=> At(t, "keep"))
  <2>1. SegmentCall(task[t])  BY DEF SegmentTyped
  <2>2. t \in At_(Writes) <=> Under(t, "create") \/ Under(t, "update") \/ Under(t, "delete")
      BY DEF At_, Writes
  <2>3. t \in Reading <=> Under(t, "list")  BY DEF Reading
  <2> QED BY <2>1, <2>2, <2>3 DEF SegmentCall, Writing, Under, At, New, Failed
<1> QED BY <1>1, <1>2

LEMMA GetSegmentKeeps ==
    ASSUME SegmentInv, NEW t \in Tasks, NEW op \in Writes, GetSegment(t, op)
    PROVE  SegmentInv'
<1> USE DEF SegmentInv
<1> DEFINE r == [op |-> op, read |-> segment, at |-> "write"]
<1>1. task[t] = New /\ task[t].at = "new" /\ task' = [task EXCEPT ![t] = r]
      /\ segment' = segment /\ segments' = segments /\ overtaken' = overtaken /\ failures' = failures
      /\ (op = "create") = (segment = Nothing)
    BY DEF GetSegment, Begins, New
<1>2. clashing' \subseteq Tasks /\ clashing \subseteq clashing' /\ \A u \in Tasks : Writing(u) => u \in clashing' /\ t \in clashing'
  <2>1. At_(Writes) \subseteq Tasks  BY DEF At_
  <2> QED BY <2>1, SegmentFacts DEF GetSegment, SegmentTyped, SegmentTypeOK
<1>3. SegmentCall(r)  BY <1>1, SegmentFacts DEF SegmentCall, SegmentTyped, SegmentTypeOK, Writes
<1>4. r.op = op /\ r.read = segment /\ r.at = "write"  OBVIOUS
<1> HIDE DEF r
<1>5. /\ task' = [u \in Tasks |-> task'[u]] /\ \A u \in Tasks : SegmentCall(task'[u])
      /\ task'[t] = r /\ \A u \in Tasks : u # t => task'[u] = task[u]
    BY <1>1, <1>3, SegmentStep
<1>6. task'[t].op = op /\ task'[t].read = segment /\ task'[t].at = "write"  BY <1>4, <1>5
<1>7. SegmentTyped'  BY <1>1, <1>2, <1>5 DEF SegmentTyped, SegmentTypeOK
<1>8. ListInv'  BY <1>1, <1>5, <1>6 DEF ListInv, At
<1>9. HeldInv'
  <2>1. \A u, v \in Tasks : Writing(u)' /\ Writing(v)' /\ u # v => u \in clashing'
    <3> SUFFICES ASSUME NEW u \in Tasks, NEW v \in Tasks, Writing(u)', Writing(v)', u # v PROVE u \in clashing'
        OBVIOUS
    <3>1. CASE u = t  BY <1>2, <1>5, <3>1 DEF Writing
    <3>2. CASE u # t  BY <1>2, <1>5, <3>2 DEF Writing
    <3> QED BY <3>1, <3>2
  <2>2. \A u \in Tasks : At(u, "write")' /\ task'[u].op = "update" /\ u \notin clashing' => task'[u].read = segment'
      BY <1>1, <1>2, <1>5, <1>6 DEF HeldInv, At
  <2>3. \A u \in Tasks : At(u, "drop")' /\ task'[u].op = "update" /\ u \notin clashing' => segment' # Nothing /\ u \in segment'.changes
      BY <1>1, <1>2, <1>5, <1>6 DEF HeldInv, At
  <2>4. ASSUME NEW v \in Tasks, Over(v, "update")', v \notin clashing', failures' = 0, \A u \in Tasks : ~HasDeleted(u)'
        PROVE  /\ segment' # Nothing /\ v \in segment'.changes
               /\ \A u \in Tasks : At(u, "write")' /\ task'[u].op = "update" => v \in task'[u].read.changes
    <3>1. Over(v, "update") /\ v \notin clashing /\ failures = 0
        BY <1>1, <1>2, <1>5, <1>6, <2>4 DEF Over
    <3>2. \A u \in Tasks : ~HasDeleted(u)  BY <1>1, <1>5, <2>4 DEF HasDeleted, Over, Under, At
    <3>3. /\ segment # Nothing /\ v \in segment.changes
          /\ \A u \in Tasks : At(u, "write") /\ task[u].op = "update" => v \in task[u].read.changes
        BY <3>1, <3>2 DEF HeldInv
    <3> QED BY <1>1, <1>5, <1>6, <3>3 DEF At
  <2> QED BY <2>1, <2>2, <2>3, <2>4 DEF HeldInv
<1> QED BY <1>7, <1>8, <1>9

LEMMA WriteSegmentKeeps == ASSUME SegmentInv, NEW t \in Tasks, WriteSegment(t) PROVE SegmentInv'
<1> USE DEF SegmentInv
<1> DEFINE r == IF task[t].op = "create" /\ segment # Nothing THEN [op |-> task[t].op, at |-> "over"] ELSE [task[t] EXCEPT !.at = "drop"]
<1>1. /\ task[t].at = "write"
      /\ \/ task[t] \in [op : {"create"}, read : {Nothing}, at : {"write"}]
         \/ task[t] \in [op : {"update", "delete"}, read : Segments, at : {"write"}]
  <2>1. SegmentCall(task[t])  BY DEF SegmentTyped
  <2> QED BY <2>1 DEF WriteSegment, At, SegmentCall, New, Failed
<1>2. task' = [task EXCEPT ![t] = r] /\ segment' = SegmentAfter(t)
      /\ segments' = segments /\ overtaken' = overtaken /\ clashing' = clashing /\ failures' = failures
    BY <1>1 DEF WriteSegment, Goes, Ends
<1>3. SegmentCall(r) /\ r.op = task[t].op /\ r.at = (IF task[t].op = "create" /\ segment # Nothing THEN "over" ELSE "drop")
      /\ task[t].op \in {"create", "update", "delete"}
    BY <1>1 DEF SegmentCall
<1> HIDE DEF r
<1>4. /\ task' = [u \in Tasks |-> task'[u]] /\ \A u \in Tasks : SegmentCall(task'[u])
      /\ task'[t] = r /\ \A u \in Tasks : u # t => task'[u] = task[u]
    BY <1>2, <1>3, SegmentStep
<1>5. task'[t].op = task[t].op /\ task'[t].at = (IF task[t].op = "create" /\ segment # Nothing THEN "over" ELSE "drop")
    BY <1>3, <1>4
<1>6. /\ task[t].op = "create" => segment' = IF segment = Nothing THEN [id |-> t, changes |-> {t}] ELSE segment
      /\ task[t].op = "update" => /\ task[t].read \in Segments
                                  /\ segment' = IF segment = Nothing \/ segment.id # task[t].read.id THEN segment
                                                ELSE [task[t].read EXCEPT !.changes = @ \cup {t}]
      /\ task[t].op = "delete" => segment' \in {segment, Nothing}
    BY <1>1, <1>2 DEF SegmentAfter
<1>7. /\ task[t].op = "update" => /\ [task[t].read EXCEPT !.changes = @ \cup {t}] \in Segments
                                  /\ [task[t].read EXCEPT !.changes = @ \cup {t}].changes = task[t].read.changes \cup {t}
    BY <1>6 DEF Segments
<1>8. segment' \in Segments \cup {Nothing}
  <2>1. segment \in Segments \cup {Nothing} /\ [id |-> t, changes |-> {t}] \in Segments
      BY DEF SegmentTyped, SegmentTypeOK, Segments
  <2> QED BY <1>3, <1>6, <1>7, <2>1
<1>9. SegmentTyped'  BY <1>2, <1>4, <1>8 DEF SegmentTyped, SegmentTypeOK
<1>10. ListInv'
  <2>1. CASE task'[t].at = "drop"  BY <2>1 DEF ListInv, At
  <2>2. CASE task'[t].at # "drop"
    <3>1. segment' = segment /\ task'[t].at = "over"  BY <1>5, <1>6, <2>2
    <3>2. \A u \in Tasks : At(u, "drop") => At(u, "drop")'  BY <1>1, <1>4 DEF At
    <3> QED BY <1>2, <1>4, <3>1, <3>2 DEF ListInv, At
  <2> QED BY <2>1, <2>2
<1>11. HeldInv'
  <2>1. Writing(t) /\ \A u \in Tasks : Writing(u)' => Writing(u)  BY <1>1, <1>4 DEF Writing
  <2>2. \A u, v \in Tasks : Writing(u)' /\ Writing(v)' /\ u # v => u \in clashing'
      BY <1>2, <2>1 DEF HeldInv
  <2>3. \A u \in Tasks : Writing(u) /\ u # t => u \in clashing'  BY <1>2, <2>1 DEF HeldInv
  <2>4. \A u \in Tasks : At(u, "write")' /\ task'[u].op = "update" /\ u \notin clashing' => task'[u].read = segment'
      BY <1>4, <1>5, <2>3 DEF At, Writing
  <2>5. \A u \in Tasks : At(u, "drop")' /\ task'[u].op = "update" /\ u \notin clashing' => segment' # Nothing /\ u \in segment'.changes
    <3> SUFFICES ASSUME NEW u \in Tasks, At(u, "drop")', task'[u].op = "update", u \notin clashing' PROVE segment' # Nothing /\ u \in segment'.changes
        OBVIOUS
    <3>1. u = t  BY <1>4, <2>3 DEF At, Writing
    <3>2. task[t].op = "update" /\ t \notin clashing /\ task[t].read = segment
        BY <1>1, <1>2, <1>5, <3>1 DEF HeldInv, At
    <3>3. segment # Nothing /\ segment' = [task[t].read EXCEPT !.changes = @ \cup {t}]
        BY <1>6, <3>2, SegmentFacts
    <3> QED BY <1>7, <3>1, <3>2, <3>3, SegmentFacts
  <2>6. ASSUME NEW v \in Tasks, Over(v, "update")', v \notin clashing', failures' = 0, \A u \in Tasks : ~HasDeleted(u)'
        PROVE  /\ segment' # Nothing /\ v \in segment'.changes
               /\ \A u \in Tasks : At(u, "write")' /\ task'[u].op = "update" => v \in task'[u].read.changes
    <3>1. Over(v, "update") /\ v \notin clashing /\ failures = 0 /\ v # t
        BY <1>2, <1>4, <1>5, <2>6 DEF Over
    <3>2. \A u \in Tasks : ~HasDeleted(u)
      <4>1. ~HasDeleted(t)  BY <1>1 DEF HasDeleted, Over, Under, At
      <4> QED BY <1>4, <2>6, <4>1 DEF HasDeleted, Over, Under, At
    <3>3. /\ segment # Nothing /\ v \in segment.changes
          /\ \A u \in Tasks : At(u, "write") /\ task[u].op = "update" => v \in task[u].read.changes
        BY <3>1, <3>2 DEF HeldInv
    <3>4. task[t].op # "delete"  BY <1>5, <2>6 DEF HasDeleted, Under, At
    <3>5. segment' # Nothing /\ v \in segment'.changes
      <4>1. CASE segment' = segment  BY <3>3, <4>1
      <4>2. CASE segment' # segment
        <5>1. task[t].op = "update" /\ segment' = [task[t].read EXCEPT !.changes = @ \cup {t}]
            BY <1>3, <1>6, <3>3, <3>4, <4>2
        <5>2. v \in task[t].read.changes  BY <1>1, <3>3, <5>1 DEF At
        <5> QED BY <1>7, <5>1, <5>2, SegmentFacts
      <4> QED BY <4>1, <4>2
    <3> QED BY <1>4, <1>5, <3>3, <3>5 DEF At
  <2> QED BY <2>2, <2>4, <2>5, <2>6 DEF HeldInv
<1> QED BY <1>9, <1>10, <1>11

LEMMA DropSegmentsKeeps == ASSUME SegmentInv, NEW t \in Tasks, DropSegments(t) PROVE SegmentInv'
<1> USE DEF SegmentInv
<1> DEFINE r == [op |-> task[t].op, at |-> "over"]
<1>1. task[t].at = "drop" /\ task[t].op \in {"create", "update", "delete"}
  <2>1. SegmentCall(task[t])  BY DEF SegmentTyped
  <2> QED BY <2>1 DEF DropSegments, At, SegmentCall, New, Failed
<1>2. task' = [task EXCEPT ![t] = r] /\ segment' = segment /\ segments' = {} /\ clashing' = clashing /\ failures' = failures
      /\ overtaken' = (overtaken \/ \E u \in Reading : task[u].read # segment)
    BY DEF DropSegments, Ends
<1>3. SegmentCall(r) /\ r.op = task[t].op /\ r.at = "over"  BY <1>1 DEF SegmentCall
<1> HIDE DEF r
<1>4. /\ task' = [u \in Tasks |-> task'[u]] /\ \A u \in Tasks : SegmentCall(task'[u])
      /\ task'[t] = r /\ \A u \in Tasks : u # t => task'[u] = task[u]
    BY <1>2, <1>3, SegmentStep
<1>5. task'[t].op = task[t].op /\ task'[t].at = "over"  BY <1>3, <1>4
<1>6. SegmentTyped'  BY <1>2, <1>4 DEF SegmentTyped, SegmentTypeOK
<1>7. ListInv'  BY <1>2, <1>4, <1>5, SegmentFacts DEF ListInv, At
<1>8. HeldInv'
  <2>1. Writing(t) /\ \A u \in Tasks : Writing(u)' => Writing(u)  BY <1>1, <1>4, <1>5 DEF Writing
  <2>2. \A u, v \in Tasks : Writing(u)' /\ Writing(v)' /\ u # v => u \in clashing'
      BY <1>2, <2>1 DEF HeldInv
  <2>3. \A u \in Tasks : At(u, "write")' /\ task'[u].op = "update" /\ u \notin clashing' => task'[u].read = segment'
      BY <1>2, <1>4, <1>5 DEF HeldInv, At
  <2>4. \A u \in Tasks : At(u, "drop")' /\ task'[u].op = "update" /\ u \notin clashing' => segment' # Nothing /\ u \in segment'.changes
      BY <1>2, <1>4, <1>5 DEF HeldInv, At
  <2>5. ASSUME NEW v \in Tasks, Over(v, "update")', v \notin clashing', failures' = 0, \A u \in Tasks : ~HasDeleted(u)'
        PROVE  /\ segment' # Nothing /\ v \in segment'.changes
               /\ \A u \in Tasks : At(u, "write")' /\ task'[u].op = "update" => v \in task'[u].read.changes
    <3>1. CASE v = t
      <4>1. segment # Nothing /\ t \in segment.changes
          BY <1>1, <1>2, <1>5, <2>5, <3>1 DEF HeldInv, At, Over
      <4>2. \A u \in Tasks : u # t => ~At(u, "write")
          BY <1>2, <2>1, <2>5, <3>1 DEF HeldInv, Writing, At
      <4> QED BY <1>2, <1>4, <1>5, <3>1, <4>1, <4>2 DEF At
    <3>2. CASE v # t
      <4>1. Over(v, "update") /\ v \notin clashing /\ failures = 0
          BY <1>2, <1>4, <2>5, <3>2 DEF Over
      <4>2. \A u \in Tasks : ~HasDeleted(u)
        <5>1. ~HasDeleted(t)  BY <1>1, <1>5, <2>5 DEF HasDeleted, Over, Under, At
        <5> QED BY <1>4, <2>5, <5>1 DEF HasDeleted, Over, Under, At
      <4>3. /\ segment # Nothing /\ v \in segment.changes
            /\ \A u \in Tasks : At(u, "write") /\ task[u].op = "update" => v \in task[u].read.changes
          BY <4>1, <4>2 DEF HeldInv
      <4> QED BY <1>2, <1>4, <1>5, <4>3 DEF At
    <3> QED BY <3>1, <3>2
  <2> QED BY <2>2, <2>3, <2>4, <2>5 DEF HeldInv
<1> QED BY <1>6, <1>7, <1>8

\* A step that leaves the segment and the calls that write it alone.
LEMMA HeldStays ==
    ASSUME HeldInv, segment' = segment, clashing' = clashing, failures' = 0 => failures = 0,
           \A u \in Tasks : Writing(u)' => task'[u] = task[u],
           \A u \in Tasks : Over(u, "update")' => Over(u, "update"),
           \A u \in Tasks : failures' = 0 /\ HasDeleted(u) => HasDeleted(u)'
    PROVE  HeldInv'
<1>1. \A u \in Tasks : Writing(u)' => Writing(u) /\ task'[u] = task[u]  BY DEF Writing
<1>2. \A u \in Tasks : (At(u, "write")' => task'[u] = task[u] /\ At(u, "write")) /\ (At(u, "drop")' => task'[u] = task[u] /\ At(u, "drop"))
    BY DEF Writing, At
<1> QED BY <1>1, <1>2 DEF HeldInv

LEMMA LoadSegmentsKeeps == ASSUME SegmentInv, NEW t \in Tasks, LoadSegments(t) PROVE SegmentInv'
<1> USE DEF SegmentInv
<1> DEFINE r == [op |-> "list", read |-> segment, at |-> "keep"]
<1>1. task[t].at = "new" /\ task' = [task EXCEPT ![t] = r] /\ segments = {}
      /\ segment' = segment /\ segments' = segments /\ overtaken' = overtaken /\ clashing' = clashing /\ failures' = failures
    BY DEF LoadSegments, Begins, New, segmentVars
<1>2. SegmentCall(r) /\ r.op = "list" /\ r.read = segment /\ r.at = "keep"
    BY DEF SegmentCall, SegmentTyped, SegmentTypeOK
<1> HIDE DEF r
<1>3. /\ task' = [u \in Tasks |-> task'[u]] /\ \A u \in Tasks : SegmentCall(task'[u])
      /\ task'[t] = r /\ \A u \in Tasks : u # t => task'[u] = task[u]
    BY <1>1, <1>2, SegmentStep
<1>4. task'[t].op = "list" /\ task'[t].read = segment /\ task'[t].at = "keep"  BY <1>2, <1>3
<1>5. SegmentTyped'  BY <1>1, <1>3 DEF SegmentTyped, SegmentTypeOK
<1>6. ListInv'  BY <1>1, <1>3, <1>4 DEF ListInv, At
<1>7. HeldInv'  BY <1>1, <1>3, <1>4, HeldStays DEF Writing, Over, HasDeleted, Under, At
<1> QED BY <1>5, <1>6, <1>7

LEMMA SetSegmentsKeeps == ASSUME SegmentInv, NEW t \in Tasks, SetSegments(t) PROVE SegmentInv'
<1> USE DEF SegmentInv
<1> DEFINE r == [op |-> task[t].op, at |-> "over"]
<1>1. task[t].at = "keep" /\ task[t].op = "list" /\ task[t].read \in Segments \cup {Nothing}
  <2>1. SegmentCall(task[t])  BY DEF SegmentTyped
  <2> QED BY <2>1 DEF SetSegments, At, SegmentCall, New, Failed
<1>2. task' = [task EXCEPT ![t] = r] /\ segments' = {task[t].read}
      /\ segment' = segment /\ overtaken' = overtaken /\ clashing' = clashing /\ failures' = failures
    BY DEF SetSegments, Ends
<1>3. SegmentCall(r) /\ r.op = "list" /\ r.at = "over"  BY <1>1 DEF SegmentCall
<1> HIDE DEF r
<1>4. /\ task' = [u \in Tasks |-> task'[u]] /\ \A u \in Tasks : SegmentCall(task'[u])
      /\ task'[t] = r /\ \A u \in Tasks : u # t => task'[u] = task[u]
    BY <1>2, <1>3, SegmentStep
<1>5. task'[t].op = "list" /\ task'[t].at = "over"  BY <1>3, <1>4
<1>6. SegmentTyped'  BY <1>1, <1>2, <1>4 DEF SegmentTyped, SegmentTypeOK
<1>7. ListInv'  BY <1>1, <1>2, <1>4, <1>5 DEF ListInv, At
<1>8. HeldInv'  BY <1>1, <1>2, <1>4, <1>5, HeldStays DEF Writing, Over, HasDeleted, Under, At
<1> QED BY <1>6, <1>7, <1>8

LEMMA SegmentsExpireKeeps == ASSUME SegmentInv, SegmentsExpire PROVE SegmentInv'
<1> USE DEF SegmentInv
<1>1. task' = task /\ segments' = {} /\ segment' = segment /\ overtaken' = overtaken /\ clashing' = clashing /\ failures' = failures
    BY DEF SegmentsExpire, taskVars
<1>2. SegmentTyped'  BY <1>1 DEF SegmentTyped, SegmentTypeOK
<1>3. ListInv'  BY <1>1 DEF ListInv, At
<1>4. HeldInv'  BY <1>1, HeldStays DEF Over, HasDeleted, Under, At
<1> QED BY <1>2, <1>3, <1>4

LEMMA FailSegmentKeeps == ASSUME SegmentInv, NEW t \in Tasks, FailSegment(t) PROVE SegmentInv'
<1> USE DEF SegmentInv
<1>1. task' = [task EXCEPT ![t] = Failed] /\ failures' = failures + 1 /\ failures \in Nat
      /\ segment' = segment /\ segments' = segments /\ clashing' = clashing /\ overtaken' = (overtaken \/ At(t, "drop"))
    BY DEF FailSegment, Fails, SegmentTyped
<1>2. SegmentCall(Failed) /\ Failed.at = "failed"  BY DEF SegmentCall, Failed
<1>3. /\ task' = [u \in Tasks |-> task'[u]] /\ \A u \in Tasks : SegmentCall(task'[u])
      /\ task'[t] = Failed /\ \A u \in Tasks : u # t => task'[u] = task[u]
    BY <1>1, <1>2, SegmentStep
<1>4. task'[t].at = "failed" /\ failures' # 0 /\ failures' \in Nat /\ overtaken' \in BOOLEAN
    BY <1>1, <1>2, <1>3 DEF SegmentTyped, SegmentTypeOK
<1>5. SegmentTyped'  BY <1>1, <1>3, <1>4 DEF SegmentTyped, SegmentTypeOK
<1>6. ListInv'  BY <1>1, <1>3, <1>4 DEF ListInv, At
<1>7. HeldInv'  BY <1>1, <1>3, <1>4, HeldStays DEF Writing, Over
<1> QED BY <1>5, <1>6, <1>7

LEMMA SegmentInvInit == ASSUME TasksInit, SegmentInit PROVE SegmentInv
<1>1. \A t \in Tasks : task[t] = New /\ task[t].at = "new"  BY DEF TasksInit, New
<1>2. SegmentTyped  BY <1>1 DEF TasksInit, SegmentInit, SegmentTyped, SegmentTypeOK, SegmentCall
<1>3. ListInv  BY <1>1 DEF SegmentInit, ListInv, At
<1>4. HeldInv  BY <1>1 DEF HeldInv, Writing, Over, At
<1> QED BY <1>2, <1>3, <1>4 DEF SegmentInv

LEMMA SegmentInvNext == ASSUME SegmentInv, SegmentNext PROVE SegmentInv'
<1>1. CASE SegmentsExpire  BY <1>1, SegmentsExpireKeeps
<1>2. ASSUME NEW t \in Tasks, SegmentRequests(t) \/ WriteSegment(t) \/ DropSegments(t) PROVE SegmentInv'
    BY <1>2, GetSegmentKeeps, WriteSegmentKeeps, DropSegmentsKeeps DEF SegmentRequests
<1>3. ASSUME NEW t \in Tasks, LoadSegments(t) \/ SetSegments(t) \/ FailSegment(t) PROVE SegmentInv'
    BY <1>3, LoadSegmentsKeeps, SetSegmentsKeeps, FailSegmentKeeps
<1> QED BY <1>1, <1>2, <1>3 DEF SegmentNext

LEMMA SegmentInvStays == ASSUME SegmentInv, UNCHANGED <<taskVars, segmentVars>> PROVE SegmentInv'
<1> USE DEF SegmentInv
<1>1. task' = task /\ segments' = segments /\ segment' = segment /\ overtaken' = overtaken /\ clashing' = clashing /\ failures' = failures
    BY DEF taskVars, segmentVars
<1>2. SegmentTyped'  BY <1>1 DEF SegmentTyped, SegmentTypeOK
<1>3. ListInv'  BY <1>1 DEF ListInv, At
<1>4. HeldInv'  BY <1>1, HeldStays DEF Over, HasDeleted, Under, At
<1> QED BY <1>2, <1>3, <1>4

LEMMA SegmentInvHolds == ASSUME SegmentInv PROVE SegmentTypeOK /\ SegmentsFollow
<1> USE DEF SegmentInv
<1>1. At_(Writes) = {} => \A t \in Tasks : ~At(t, "drop")  BY SegmentFacts DEF Writing, At
<1>2. failures = 0 \/ failures > 0  BY DEF SegmentTyped
<1> QED BY <1>1, <1>2 DEF SegmentTyped, ListInv, HeldInv, SegmentsFollow

----------------------------------------------------------------------------
(* One part at a time                                                      *)

changeVars == <<taskVars, flagVars, segmentVars>>

FlagPart    == FlagNext /\ UNCHANGED segmentVars
SegmentPart == SegmentNext /\ UNCHANGED flagVars

ChangesInit == TasksInit /\ FlagInit /\ SegmentInit
ChangesSpec == ChangesInit /\ ([][FlagPart]_changeVars \/ [][SegmentPart]_changeVars)

ChangesTypeOK == FlagTypeOK /\ SegmentTypeOK

LEMMA FlagAtRest ==
    ASSUME FlagInit
    PROVE  /\ FlagTypeOK /\ VersionsNameContents /\ CacheFollowsEvents /\ ScheduleAppliedOnce
           /\ flag \in Docs /\ snapshots = {flag} /\ cached = Nothing /\ applied = 0
<1>1. Cardinality(Tasks) \in Nat  BY FlagsAssumption, FS_CardinalityType
<1>2. flag \in Docs /\ snapshots = {flag} /\ cached = Nothing /\ applied = 0
    BY <1>1 DEF FlagInit, Docs
<1>3. platform \in SUBSET Tasks /\ kept = Nothing /\ schedule = "none" /\ announcedVersion = 1
      /\ raced \in SUBSET Documents /\ together \in [Documents -> SUBSET Tasks] /\ ticks \in BOOLEAN
    BY DEF FlagInit
<1>4. FlagTypeOK  BY <1>1, <1>2, <1>3 DEF FlagTypeOK
<1> QED BY <1>2, <1>4 DEF VersionsNameContents, CacheFollowsEvents, ScheduleAppliedOnce

LEMMA SegmentAtRest == ASSUME SegmentInit PROVE SegmentTypeOK /\ segment = Nothing /\ segments = {}
    BY DEF SegmentInit, SegmentTypeOK

\* The part that does not run stays as it began.
LEMMA ChangesInParts ==
    ChangesSpec => [](\/ FlagInv /\ SegmentInit
                      \/ SegmentInv /\ FlagInit)
<1> DEFINE FlagRuns    == FlagInv /\ SegmentInit
           SegmentRuns == SegmentInv /\ FlagInit
<1>1. ChangesInit => FlagRuns /\ SegmentRuns  BY FlagInvInit, SegmentInvInit DEF ChangesInit
<1>2. FlagRuns /\ [FlagPart]_changeVars => FlagRuns'
  <2> SUFFICES ASSUME FlagRuns, [FlagPart]_changeVars PROVE FlagRuns'  OBVIOUS
  <2>1. UNCHANGED segmentVars /\ (FlagNext \/ UNCHANGED <<taskVars, flagVars>>)
      BY DEF FlagPart, changeVars
  <2>2. FlagInv'  BY <2>1, FlagInvNext, FlagInvStays
  <2> QED BY <2>1, <2>2 DEF SegmentInit, segmentVars
<1>3. SegmentRuns /\ [SegmentPart]_changeVars => SegmentRuns'
  <2> SUFFICES ASSUME SegmentRuns, [SegmentPart]_changeVars PROVE SegmentRuns'  OBVIOUS
  <2>1. UNCHANGED flagVars /\ (SegmentNext \/ UNCHANGED <<taskVars, segmentVars>>)
      BY DEF SegmentPart, changeVars
  <2>2. SegmentInv'  BY <2>1, SegmentInvNext, SegmentInvStays
  <2> QED BY <2>1, <2>2 DEF FlagInit, flagVars
<1>4. ChangesInit /\ [][FlagPart]_changeVars => []FlagRuns  BY <1>1, <1>2, PTL
<1>5. ChangesInit /\ [][SegmentPart]_changeVars => []SegmentRuns  BY <1>1, <1>3, PTL
<1> QED BY <1>4, <1>5, PTL DEF ChangesSpec

\* The flag with its snapshots, the caches, the platform document, the schedule and the segment keep their types,
\* and versions do not outnumber the calls.  About FeatureFlagsService over its repository and cache.
THEOREM ChangesTypeCorrect == ChangesSpec => []ChangesTypeOK
<1>1. (FlagInv /\ SegmentInit) \/ (SegmentInv /\ FlagInit) => ChangesTypeOK
    BY FlagInvHolds, SegmentInvHolds, FlagAtRest, SegmentAtRest DEF ChangesTypeOK
<1> QED BY <1>1, ChangesInParts, PTL

\* For any number of changes, loads, ticks and failures: a version names one content, the cache follows what is
\* announced, a change of the platform document stays, a schedule is applied once, and the cache and the segment
\* hold the updates, each but for the overlaps and failures that ChangesAreKept names.  About commit, setMaintenance,
\* the tick of FlagScheduleWorker and the calls of segments.
THEOREM ChangesStayKept == ChangesSpec => []ChangesAreKept
<1>1. FlagInv /\ SegmentInit => ChangesAreKept
  <2> SUFFICES ASSUME FlagInv, SegmentInit PROVE ChangesAreKept  OBVIOUS
  <2>1. SegmentsFollow  BY SegmentAtRest DEF SegmentsFollow
  <2> QED BY <2>1, FlagInvHolds DEF ChangesAreKept
<1>2. SegmentInv /\ FlagInit => ChangesAreKept
  <2> SUFFICES ASSUME SegmentInv, FlagInit PROVE ChangesAreKept  OBVIOUS
  <2>1. PlatformChangesStay
    <3> SUFFICES ASSUME NEW t \in Tasks, Over(t, "platform") PROVE FALSE  BY DEF PlatformChangesStay
    <3>1. SegmentCall(task[t])  BY DEF SegmentInv, SegmentTyped
    <3> QED BY <3>1 DEF SegmentCall, Over, New, Failed
  <2> QED BY <2>1, FlagAtRest, SegmentInvHolds DEF ChangesAreKept
<1> QED BY <1>1, <1>2, ChangesInParts, PTL

----------------------------------------------------------------------------
(* The files of the key directory                                          *)

\* What a boot may stand at.
BootTask(t) ==
    \/ task[t] \in {New, Failed}
    \/ task[t] \in [op : {"createPair"}, at : {"createKey", "writeKey", "createPub", "writePub", "readExisting", "over"}]
    \/ task[t] \in [op : {"loadPair"}, at : {"readPrivate", "readPublic", "over"}]
    \/ task[t] \in [op : {"secret"}, at : {"createSecret", "writeSecret", "readSecret", "over"}]

BootTyped ==
    /\ file \in [Files -> {NoFile} \cup [by : Tasks, whole : BOOLEAN]]
    /\ got \in [Tasks -> [Files -> Tasks \cup {Unknown, Empty}]]
    /\ task = [t \in Tasks |-> task[t]] /\ \A t \in Tasks : BootTask(t)

\* The private file is one process's from its creation on, and the public one is that process's too.
PairInv ==
    /\ \A t \in Tasks : At(t, "writeKey") => file["jwt.key"].by = t /\ ~file["jwt.key"].whole /\ file["jwt.pub"] = NoFile
    /\ \A t \in Tasks : At(t, "createPub") => file["jwt.key"].by = t /\ file["jwt.key"].whole /\ file["jwt.pub"] = NoFile
    /\ \A t \in Tasks : At(t, "writePub") => file["jwt.key"].by = t /\ file["jwt.key"].whole /\ file["jwt.pub"].by = t
    /\ \A t \in Tasks : At(t, "readPrivate") \/ At(t, "readPublic") => file["jwt.pub"] # NoFile
    /\ file["jwt.pub"] # NoFile => file["jwt.key"].whole /\ file["jwt.pub"].by = file["jwt.key"].by

\* What a process took is what the file says; the private half is never taken before it is written.
GotInv ==
    /\ \A t \in Tasks : got[t]["jwt.key"] = Unknown \/ (file["jwt.key"].whole /\ got[t]["jwt.key"] = file["jwt.key"].by)
    /\ \A t \in Tasks : got[t]["jwt.pub"] \in {Unknown, Empty} \/ (file["jwt.pub"] # NoFile /\ got[t]["jwt.pub"] = file["jwt.pub"].by)
    /\ \A t \in Tasks : got[t]["jwt.pub"] = Empty => Over(t, "loadPair")
    /\ \A t \in Tasks : got[t]["jwt.pub"] # Unknown \/ At(t, "readPublic") => got[t]["jwt.key"] # Unknown

SecretInv ==
    /\ \A t \in Tasks : At(t, "writeSecret") => file["internal.secret"].by = t
    /\ \A t \in Tasks : At(t, "readSecret") => file["internal.secret"] # NoFile
    /\ \A t \in Tasks : \/ got[t]["internal.secret"] \in {Unknown, Empty}
                        \/ file["internal.secret"] # NoFile /\ got[t]["internal.secret"] = file["internal.secret"].by

BootInv == BootTyped /\ PairInv /\ GotInv /\ SecretInv

LEMMA FileFacts ==
    ASSUME BootTyped, NEW f \in Files
    PROVE  /\ file[f] = NoFile => file[f].by = "none" /\ ~file[f].whole
           /\ file[f] # NoFile => file[f] \in [by : Tasks, whole : BOOLEAN] /\ file[f].by \in Tasks
           /\ file[f].whole \in BOOLEAN
           /\ \A t \in Tasks : t # "none" /\ t # Unknown /\ t # Empty
<1>1. file[f] \in {NoFile} \cup [by : Tasks, whole : BOOLEAN]  BY DEF BootTyped
<1>2. NoFile.by = "none" /\ NoFile.whole = FALSE  BY DEF NoFile
<1>3. \A t \in Tasks : t # "none" /\ t # Unknown /\ t # Empty  BY ServiceAssumption
<1> QED BY <1>1, <1>2, <1>3

LEMMA FilesAre == Files = {"jwt.key", "jwt.pub", "internal.secret"}
    BY DEF Files

\* Where a step of t leaves it; no other call moves.
BootMoves(t, r) == task'[t] = r /\ \A u \in Tasks \ {t} : task'[u] = task[u]

LEMMA BootStep ==
    ASSUME BootTyped, NEW t \in Tasks, NEW r, task' = [task EXCEPT ![t] = r],
           \/ r \in {New, Failed}
           \/ r \in [op : {"createPair"}, at : {"createKey", "writeKey", "createPub", "writePub", "readExisting", "over"}]
           \/ r \in [op : {"loadPair"}, at : {"readPrivate", "readPublic", "over"}]
           \/ r \in [op : {"secret"}, at : {"createSecret", "writeSecret", "readSecret", "over"}]
    PROVE  /\ task' = [u \in Tasks |-> task'[u]] /\ \A u \in Tasks : BootTask(u)'
           /\ BootMoves(t, r)
<1>1. task' = [u \in Tasks |-> task'[u]] /\ task'[t] = r /\ \A u \in Tasks \ {t} : task'[u] = task[u]
  <2>1. task' = [u \in Tasks |-> IF u = t THEN r ELSE task[u]]  BY DEF BootTyped
  <2> QED BY <2>1
<1>2. BootTask(t)'  BY <1>1 DEF BootTask
<1>3. \A u \in Tasks \ {t} : BootTask(u)'  BY <1>1 DEF BootTyped, BootTask
<1> QED BY <1>1, <1>2, <1>3 DEF BootMoves

LEMMA BootPlaces ==
    ASSUME BootTyped, NEW t \in Tasks
    PROVE  /\ At(t, "createKey") \/ At(t, "writeKey") \/ At(t, "createPub") \/ At(t, "writePub") \/ At(t, "readExisting") => task[t].op = "createPair"
           /\ At(t, "readPrivate") \/ At(t, "readPublic") => task[t].op = "loadPair"
           /\ At(t, "createSecret") \/ At(t, "writeSecret") \/ At(t, "readSecret") => task[t].op = "secret"
<1>1. BootTask(t)  BY DEF BootTyped
<1> QED BY <1>1 DEF BootTask, New, Failed, At

\* A call that goes on keeps its operation.
LEMMA BootGoes ==
    ASSUME BootTyped, NEW t \in Tasks, NEW p, Goes(t, p) \/ (Ends(t) /\ p = "over"),
           \/ task[t].op = "createPair" /\ p \in {"createKey", "writeKey", "createPub", "writePub", "readExisting", "over"}
           \/ task[t].op = "loadPair" /\ p \in {"readPrivate", "readPublic", "over"}
           \/ task[t].op = "secret" /\ p \in {"createSecret", "writeSecret", "readSecret", "over"},
           task[t] \notin {New, Failed}
    PROVE  /\ task' = [u \in Tasks |-> task'[u]] /\ \A u \in Tasks : BootTask(u)'
           /\ BootMoves(t, [op |-> task[t].op, at |-> p])
<1> DEFINE r == [op |-> task[t].op, at |-> p]
<1>1. BootTask(t)  BY DEF BootTyped
<1>2. [task[t] EXCEPT !.at = p] = r  BY <1>1 DEF BootTask
<1>3. task' = [task EXCEPT ![t] = r]  BY <1>2 DEF Goes, Ends
<1>4. \/ r \in [op : {"createPair"}, at : {"createKey", "writeKey", "createPub", "writePub", "readExisting", "over"}]
      \/ r \in [op : {"loadPair"}, at : {"readPrivate", "readPublic", "over"}]
      \/ r \in [op : {"secret"}, at : {"createSecret", "writeSecret", "readSecret", "over"}]
    OBVIOUS
<1> HIDE DEF r
<1>5. /\ task' = [u \in Tasks |-> task'[u]] /\ \A u \in Tasks : BootTask(u)'
      /\ BootMoves(t, r)
    BY <1>3, <1>4, BootStep
<1> QED BY <1>5 DEF r

LEMMA AtFresh == ASSUME NEW t \in Tasks, NEW p, At(t, p), p \notin {"new", "failed"} PROVE task[t] \notin {New, Failed}
    BY DEF At, New, Failed

LEMMA LoadPairKeeps == ASSUME BootInv, NEW t \in Tasks, LoadPair(t) PROVE BootInv'
<1> USE DEF BootInv
<1>1. PICK r : /\ Begins(t, r)
               /\ \/ r = [op |-> "createPair", at |-> "createKey"]
                  \/ r = [op |-> "loadPair", at |-> "readPrivate"] /\ NoFile \notin {file["jwt.key"], file["jwt.pub"]}
    BY DEF LoadPair
<1>2. UNCHANGED <<file, got>>  BY DEF LoadPair, serviceVars, keyVars
<1>3. /\ task' = [u \in Tasks |-> task'[u]] /\ \A u \in Tasks : BootTask(u)'
      /\ BootMoves(t, r)
  <2>1. task' = [task EXCEPT ![t] = r]  BY <1>1 DEF Begins
  <2>2. \/ r \in [op : {"createPair"}, at : {"createKey", "writeKey", "createPub", "writePub", "readExisting", "over"}]
        \/ r \in [op : {"loadPair"}, at : {"readPrivate", "readPublic", "over"}]
      BY <1>1
  <2> QED BY <2>1, <2>2, BootStep
<1>4. task[t] = New /\ r.at \in {"createKey", "readPrivate"}  BY <1>1 DEF Begins
<1>a. BootTyped'  BY <1>2, <1>3 DEF BootTyped
<1>b. task'[t].at = r.at /\ \A u \in Tasks : u # t => task'[u] = task[u]  BY <1>3 DEF BootMoves
<1>c. r.at = "readPrivate" => file["jwt.pub"] # NoFile  BY <1>1
<1>d. PairInv'  BY <1>2, <1>4, <1>b, <1>c DEF PairInv, At
<1>5. BootTyped' /\ PairInv'  BY <1>a, <1>d
<1>6. GotInv' /\ SecretInv'  BY <1>2, <1>3, <1>4 DEF GotInv, SecretInv, BootMoves, At, Over, New
<1> QED BY <1>5, <1>6

LEMMA LoadSecretKeeps == ASSUME BootInv, NEW t \in Tasks, LoadSecret(t) PROVE BootInv'
<1> USE DEF BootInv
<1>1. PICK r : /\ Begins(t, r)
               /\ \/ r = [op |-> "secret", at |-> "createSecret"]
                  \/ r = [op |-> "secret", at |-> "readSecret"] /\ file["internal.secret"] # NoFile
    BY DEF LoadSecret
<1>2. UNCHANGED <<file, got>>  BY DEF LoadSecret, serviceVars, keyVars
<1>3. /\ task' = [u \in Tasks |-> task'[u]] /\ \A u \in Tasks : BootTask(u)'
      /\ BootMoves(t, r)
  <2>1. task' = [task EXCEPT ![t] = r]  BY <1>1 DEF Begins
  <2>2. r \in [op : {"secret"}, at : {"createSecret", "writeSecret", "readSecret", "over"}]  BY <1>1
  <2> QED BY <2>1, <2>2, BootStep
<1>4. task[t] = New /\ r.at \in {"createSecret", "readSecret"}  BY <1>1 DEF Begins
<1>5. BootTyped' /\ PairInv'  BY <1>2, <1>3, <1>4 DEF BootTyped, PairInv, BootMoves, At
<1>6. GotInv'  BY <1>2, <1>3, <1>4 DEF GotInv, BootMoves, At, Over, New
<1>7. SecretInv'  BY <1>1, <1>2, <1>3, <1>4 DEF SecretInv, BootMoves, At
<1> QED BY <1>5, <1>6, <1>7

LEMMA FailBootKeeps == ASSUME BootInv, NEW t \in Tasks, FailBoot(t) PROVE BootInv'
<1> USE DEF BootInv
<1>1. task' = [task EXCEPT ![t] = Failed] /\ UNCHANGED <<file, got>> /\ task[t].at # "over"
    BY DEF FailBoot, Fails, serviceVars, keyVars
<1>2. /\ task' = [u \in Tasks |-> task'[u]] /\ \A u \in Tasks : BootTask(u)'
      /\ BootMoves(t, Failed)
    BY <1>1, BootStep
<1>3. BootTyped' /\ PairInv'  BY <1>1, <1>2 DEF BootTyped, PairInv, BootMoves, At, Failed
<1>4. GotInv' /\ SecretInv'  BY <1>1, <1>2 DEF GotInv, SecretInv, BootMoves, At, Over, Failed
<1> QED BY <1>3, <1>4

LEMMA ReadPrivateKeeps == ASSUME BootInv, NEW t \in Tasks, ReadPrivate(t) PROVE BootInv'
<1>0. BootTyped /\ PairInv /\ GotInv /\ SecretInv  BY DEF BootInv
<1>1. At(t, "readPrivate") /\ task[t] \notin {New, Failed}  BY AtFresh DEF ReadPrivate
<1>2. Goes(t, "readPublic")  BY DEF ReadPrivate
<1>3. /\ task' = [u \in Tasks |-> task'[u]] /\ \A u \in Tasks : BootTask(u)'
      /\ BootMoves(t, [op |-> task[t].op, at |-> "readPublic"])
    BY <1>0, <1>1, <1>2, BootPlaces, BootGoes
<1>4. task'[t].at = "readPublic" /\ task'[t].op = task[t].op /\ \A u \in Tasks : u # t => task'[u] = task[u]
    BY <1>3 DEF BootMoves
<1>5. file' \in [Files -> {NoFile} \cup [by : Tasks, whole : BOOLEAN]] /\ file' = file
    BY <1>0 DEF ReadPrivate, BootTyped
<1>6. /\ got' \in [Tasks -> [Files -> Tasks \cup {Unknown, Empty}]] /\ \A u \in Tasks : u # t => got'[u] = got[u]
      /\ got'[t]["jwt.pub"] = got[t]["jwt.pub"] /\ got'[t]["internal.secret"] = got[t]["internal.secret"]
      /\ got'[t]["jwt.key"] = IF file["jwt.key"].whole THEN file["jwt.key"].by ELSE Empty
  <2> DEFINE c == IF file["jwt.key"].whole THEN file["jwt.key"].by ELSE Empty
  <2>1. c \in Tasks \cup {Unknown, Empty}  BY <1>0, FileFacts, FilesAre
  <2>2. got' = [got EXCEPT ![t]["jwt.key"] = c]  BY DEF ReadPrivate, Took, Content
  <2> HIDE DEF c
  <2>3. /\ got' \in [Tasks -> [Files -> Tasks \cup {Unknown, Empty}]] /\ \A u \in Tasks : u # t => got'[u] = got[u]
        /\ got'[t]["jwt.pub"] = got[t]["jwt.pub"] /\ got'[t]["internal.secret"] = got[t]["internal.secret"]
        /\ got'[t]["jwt.key"] = c
      BY <1>0, <2>1, <2>2, FilesAre DEF BootTyped
  <2> QED BY <2>3 DEF c
<1>7. BootTyped'  BY <1>3, <1>5, <1>6 DEF BootTyped
<1>8. file' = file  BY <1>5
<1>9. /\ \A u \in Tasks : u # t => got'[u] = got[u]
      /\ got'[t]["jwt.pub"] = got[t]["jwt.pub"] /\ got'[t]["internal.secret"] = got[t]["internal.secret"]
      /\ got'[t]["jwt.key"] = IF file["jwt.key"].whole THEN file["jwt.key"].by ELSE Empty
    BY <1>6
<1>10. /\ file["jwt.key"].whole \/ file["jwt.key"].by = t => file["jwt.key"] # NoFile
       /\ file["jwt.pub"].by = t => file["jwt.pub"] # NoFile
       /\ t # Unknown /\ t # Empty /\ t # "none" /\ Unknown # Empty
       /\ file["jwt.key"].whole => file["jwt.key"].by # Unknown
       /\ file["jwt.pub"].whole => file["jwt.pub"] # NoFile /\ file["jwt.pub"].by \notin {Empty, Unknown}
       /\ file["jwt.key"] = NoFile => file["jwt.key"].by = "none" /\ ~file["jwt.key"].whole
       /\ file["internal.secret"] = NoFile => file["internal.secret"].by = "none"
       /\ \A u \in Tasks : u # "none"
    BY <1>0, FileFacts, FilesAre DEF Unknown, Empty
<1>11. PairInv'  BY <1>0, <1>1, <1>2, <1>4, <1>8, <1>10 DEF PairInv, At
<1>12. task[t].op = "loadPair" <=> At(t, "readPrivate") \/ At(t, "readPublic")
    BY <1>0, <1>1, BootPlaces DEF At
<1>13. GotInv'
  <2>1. \A u \in Tasks : got'[u]["jwt.key"] = Unknown \/ (file'["jwt.key"].whole /\ got'[u]["jwt.key"] = file'["jwt.key"].by)
      BY <1>0, <1>1, <1>8, <1>9, <1>10 DEF GotInv, PairInv, At
  <2>2. \A u \in Tasks : got'[u]["jwt.pub"] \in {Unknown, Empty} \/ (file'["jwt.pub"] # NoFile /\ got'[u]["jwt.pub"] = file'["jwt.pub"].by)
      BY <1>0, <1>1, <1>8, <1>9, <1>10 DEF GotInv, PairInv, At
  <2>3. \A u \in Tasks : got'[u]["jwt.pub"] = Empty => Over(u, "loadPair")'
      BY <1>0, <1>1, <1>2, <1>4, <1>9, <1>10, <1>12 DEF GotInv, PairInv, At, Over
  <2>4. \A u \in Tasks : got'[u]["jwt.pub"] # Unknown \/ At(u, "readPublic")' => got'[u]["jwt.key"] # Unknown
      BY <1>0, <1>1, <1>2, <1>4, <1>9, <1>10 DEF GotInv, PairInv, At
  <2> QED BY <2>1, <2>2, <2>3, <2>4 DEF GotInv
<1>14. SecretInv'  BY <1>0, <1>1, <1>2, <1>4, <1>8, <1>9, <1>10 DEF SecretInv, At
<1> QED BY <1>7, <1>11, <1>13, <1>14 DEF BootInv

LEMMA ReadPublicKeeps == ASSUME BootInv, NEW t \in Tasks, ReadPublic(t) PROVE BootInv'
<1>0. BootTyped /\ PairInv /\ GotInv /\ SecretInv  BY DEF BootInv
<1>1. At(t, "readPublic") /\ task[t] \notin {New, Failed}  BY AtFresh DEF ReadPublic
<1>2. Ends(t)  BY DEF ReadPublic
<1>3. /\ task' = [u \in Tasks |-> task'[u]] /\ \A u \in Tasks : BootTask(u)'
      /\ BootMoves(t, [op |-> task[t].op, at |-> "over"])
    BY <1>0, <1>1, <1>2, BootPlaces, BootGoes
<1>4. task'[t].at = "over" /\ task'[t].op = task[t].op /\ \A u \in Tasks : u # t => task'[u] = task[u]
    BY <1>3 DEF BootMoves
<1>5. file' \in [Files -> {NoFile} \cup [by : Tasks, whole : BOOLEAN]] /\ file' = file
    BY <1>0 DEF ReadPublic, BootTyped
<1>6. /\ got' \in [Tasks -> [Files -> Tasks \cup {Unknown, Empty}]] /\ \A u \in Tasks : u # t => got'[u] = got[u]
      /\ got'[t]["jwt.key"] = got[t]["jwt.key"] /\ got'[t]["internal.secret"] = got[t]["internal.secret"]
      /\ got'[t]["jwt.pub"] = IF file["jwt.pub"].whole THEN file["jwt.pub"].by ELSE Empty
  <2> DEFINE c == IF file["jwt.pub"].whole THEN file["jwt.pub"].by ELSE Empty
  <2>1. c \in Tasks \cup {Unknown, Empty}  BY <1>0, FileFacts, FilesAre
  <2>2. got' = [got EXCEPT ![t]["jwt.pub"] = c]  BY DEF ReadPublic, Took, Content
  <2> HIDE DEF c
  <2>3. /\ got' \in [Tasks -> [Files -> Tasks \cup {Unknown, Empty}]] /\ \A u \in Tasks : u # t => got'[u] = got[u]
        /\ got'[t]["jwt.key"] = got[t]["jwt.key"] /\ got'[t]["internal.secret"] = got[t]["internal.secret"]
        /\ got'[t]["jwt.pub"] = c
      BY <1>0, <2>1, <2>2, FilesAre DEF BootTyped
  <2> QED BY <2>3 DEF c
<1>7. BootTyped'  BY <1>3, <1>5, <1>6 DEF BootTyped
<1>8. file' = file  BY <1>5
<1>9. /\ \A u \in Tasks : u # t => got'[u] = got[u]
      /\ got'[t]["jwt.key"] = got[t]["jwt.key"] /\ got'[t]["internal.secret"] = got[t]["internal.secret"]
      /\ got'[t]["jwt.pub"] = IF file["jwt.pub"].whole THEN file["jwt.pub"].by ELSE Empty
    BY <1>6
<1>10. /\ file["jwt.key"].whole \/ file["jwt.key"].by = t => file["jwt.key"] # NoFile
       /\ file["jwt.pub"].by = t => file["jwt.pub"] # NoFile
       /\ t # Unknown /\ t # Empty /\ t # "none" /\ Unknown # Empty
       /\ file["jwt.key"].whole => file["jwt.key"].by # Unknown
       /\ file["jwt.pub"].whole => file["jwt.pub"] # NoFile /\ file["jwt.pub"].by \notin {Empty, Unknown}
       /\ file["jwt.key"] = NoFile => file["jwt.key"].by = "none" /\ ~file["jwt.key"].whole
       /\ file["internal.secret"] = NoFile => file["internal.secret"].by = "none"
       /\ \A u \in Tasks : u # "none"
    BY <1>0, FileFacts, FilesAre DEF Unknown, Empty
<1>11. PairInv'  BY <1>0, <1>1, <1>2, <1>4, <1>8, <1>10 DEF PairInv, At
<1>12. task[t].op = "loadPair" <=> At(t, "readPrivate") \/ At(t, "readPublic")
    BY <1>0, <1>1, BootPlaces DEF At
<1>13. GotInv'
  <2>1. \A u \in Tasks : got'[u]["jwt.key"] = Unknown \/ (file'["jwt.key"].whole /\ got'[u]["jwt.key"] = file'["jwt.key"].by)
      BY <1>0, <1>1, <1>8, <1>9, <1>10 DEF GotInv, PairInv, At
  <2>2. \A u \in Tasks : got'[u]["jwt.pub"] \in {Unknown, Empty} \/ (file'["jwt.pub"] # NoFile /\ got'[u]["jwt.pub"] = file'["jwt.pub"].by)
      BY <1>0, <1>1, <1>8, <1>9, <1>10 DEF GotInv, PairInv, At
  <2>3. \A u \in Tasks : got'[u]["jwt.pub"] = Empty => Over(u, "loadPair")'
      BY <1>0, <1>1, <1>2, <1>4, <1>9, <1>10, <1>12 DEF GotInv, PairInv, At, Over
  <2>4. \A u \in Tasks : got'[u]["jwt.pub"] # Unknown \/ At(u, "readPublic")' => got'[u]["jwt.key"] # Unknown
      BY <1>0, <1>1, <1>2, <1>4, <1>9, <1>10 DEF GotInv, PairInv, At
  <2> QED BY <2>1, <2>2, <2>3, <2>4 DEF GotInv
<1>14. SecretInv'  BY <1>0, <1>1, <1>2, <1>4, <1>8, <1>9, <1>10 DEF SecretInv, At
<1> QED BY <1>7, <1>11, <1>13, <1>14 DEF BootInv

LEMMA CreateKeyKeeps == ASSUME BootInv, NEW t \in Tasks, CreateKey(t) PROVE BootInv'
<1>0. BootTyped /\ PairInv /\ GotInv /\ SecretInv  BY DEF BootInv
<1>1. At(t, "createKey") /\ task[t] \notin {New, Failed}  BY AtFresh DEF CreateKey
<1>2. PICK p \in {"writeKey", "readExisting"} : Goes(t, p) /\ (p = "writeKey" <=> Exclusive("jwt.key"))
    BY DEF CreateKey
<1>3. /\ task' = [u \in Tasks |-> task'[u]] /\ \A u \in Tasks : BootTask(u)'
      /\ BootMoves(t, [op |-> task[t].op, at |-> p])
    BY <1>0, <1>1, <1>2, BootPlaces, BootGoes
<1>4. task'[t].at = p /\ task'[t].op = task[t].op /\ \A u \in Tasks : u # t => task'[u] = task[u]
    BY <1>3 DEF BootMoves
<1>5. /\ file' \in [Files -> {NoFile} \cup [by : Tasks, whole : BOOLEAN]]
      /\ file'["jwt.pub"] = file["jwt.pub"] /\ file'["internal.secret"] = file["internal.secret"]
      /\ p = "writeKey" => file["jwt.key"] = NoFile /\ file'["jwt.key"] # NoFile /\ file'["jwt.key"].by = t /\ ~file'["jwt.key"].whole
      /\ p # "writeKey" => file["jwt.key"] # NoFile /\ file' = file
  <2>1. CASE Exclusive("jwt.key")
    <3>1. file' = [file EXCEPT !["jwt.key"] = [by |-> t, whole |-> FALSE]]
        BY <2>1 DEF CreateKey, Created
    <3>2. [by |-> t, whole |-> FALSE] \in [by : Tasks, whole : BOOLEAN] /\ [by |-> t, whole |-> FALSE] # NoFile
        BY ServiceAssumption DEF NoFile
    <3> QED BY <1>0, <1>2, <2>1, <3>1, <3>2, FilesAre DEF BootTyped, Exclusive
  <2>2. CASE ~Exclusive("jwt.key")  BY <1>0, <1>2, <2>2 DEF CreateKey, Exclusive, BootTyped
  <2> QED BY <2>1, <2>2
<1>6. got' \in [Tasks -> [Files -> Tasks \cup {Unknown, Empty}]] /\ got' = got
    BY <1>0 DEF CreateKey, BootTyped
<1>7. BootTyped'  BY <1>3, <1>5, <1>6 DEF BootTyped
<1>8. /\ file'["jwt.pub"] = file["jwt.pub"] /\ file'["internal.secret"] = file["internal.secret"]
      /\ p = "writeKey" => file["jwt.key"] = NoFile /\ file'["jwt.key"] # NoFile /\ file'["jwt.key"].by = t /\ ~file'["jwt.key"].whole
      /\ p # "writeKey" => file["jwt.key"] # NoFile /\ file' = file
    BY <1>5
<1>9. got' = got  BY <1>6
<1>10. /\ file["jwt.key"].whole \/ file["jwt.key"].by = t => file["jwt.key"] # NoFile
       /\ file["jwt.pub"].by = t => file["jwt.pub"] # NoFile
       /\ t # Unknown /\ t # Empty /\ t # "none" /\ Unknown # Empty
       /\ file["jwt.key"].whole => file["jwt.key"].by # Unknown
       /\ file["jwt.pub"].whole => file["jwt.pub"] # NoFile /\ file["jwt.pub"].by \notin {Empty, Unknown}
       /\ file["jwt.key"] = NoFile => file["jwt.key"].by = "none" /\ ~file["jwt.key"].whole
       /\ file["internal.secret"] = NoFile => file["internal.secret"].by = "none"
       /\ \A u \in Tasks : u # "none"
    BY <1>0, FileFacts, FilesAre DEF Unknown, Empty
<1>11. PairInv'  BY <1>0, <1>1, <1>2, <1>4, <1>8, <1>10 DEF PairInv, At
<1>12. task[t].op = "loadPair" <=> At(t, "readPrivate") \/ At(t, "readPublic")
    BY <1>0, <1>1, BootPlaces DEF At
<1>13. GotInv'
  <2>1. \A u \in Tasks : got'[u]["jwt.key"] = Unknown \/ (file'["jwt.key"].whole /\ got'[u]["jwt.key"] = file'["jwt.key"].by)
      BY <1>0, <1>1, <1>8, <1>9, <1>10 DEF GotInv, PairInv, At
  <2>2. \A u \in Tasks : got'[u]["jwt.pub"] \in {Unknown, Empty} \/ (file'["jwt.pub"] # NoFile /\ got'[u]["jwt.pub"] = file'["jwt.pub"].by)
      BY <1>0, <1>1, <1>8, <1>9, <1>10 DEF GotInv, PairInv, At
  <2>3. \A u \in Tasks : got'[u]["jwt.pub"] = Empty => Over(u, "loadPair")'
      BY <1>0, <1>1, <1>2, <1>4, <1>9, <1>10, <1>12 DEF GotInv, PairInv, At, Over
  <2>4. \A u \in Tasks : got'[u]["jwt.pub"] # Unknown \/ At(u, "readPublic")' => got'[u]["jwt.key"] # Unknown
      BY <1>0, <1>1, <1>2, <1>4, <1>9, <1>10 DEF GotInv, PairInv, At
  <2> QED BY <2>1, <2>2, <2>3, <2>4 DEF GotInv
<1>14. SecretInv'  BY <1>0, <1>1, <1>2, <1>4, <1>8, <1>9, <1>10 DEF SecretInv, At
<1> QED BY <1>7, <1>11, <1>13, <1>14 DEF BootInv

LEMMA WriteKeyKeeps == ASSUME BootInv, NEW t \in Tasks, WriteKey(t) PROVE BootInv'
<1>0. BootTyped /\ PairInv /\ GotInv /\ SecretInv  BY DEF BootInv
<1>1. At(t, "writeKey") /\ task[t] \notin {New, Failed}  BY AtFresh DEF WriteKey
<1>2. Goes(t, "createPub")  BY DEF WriteKey
<1>3. /\ task' = [u \in Tasks |-> task'[u]] /\ \A u \in Tasks : BootTask(u)'
      /\ BootMoves(t, [op |-> task[t].op, at |-> "createPub"])
    BY <1>0, <1>1, <1>2, BootPlaces, BootGoes
<1>4. task'[t].at = "createPub" /\ task'[t].op = task[t].op /\ \A u \in Tasks : u # t => task'[u] = task[u]
    BY <1>3 DEF BootMoves
<1>5. /\ file' \in [Files -> {NoFile} \cup [by : Tasks, whole : BOOLEAN]]
      /\ file'["jwt.pub"] = file["jwt.pub"] /\ file'["internal.secret"] = file["internal.secret"]
      /\ file["jwt.key"].by = t /\ file["jwt.key"] # NoFile
      /\ file'["jwt.key"] # NoFile /\ file'["jwt.key"].by = t /\ file'["jwt.key"].whole
  <2>1. file["jwt.key"].by = t /\ file["jwt.key"] \in [by : Tasks, whole : BOOLEAN] /\ file["jwt.key"] # NoFile
    <3>1. file["jwt.key"].by = t  BY <1>0, <1>1 DEF PairInv
    <3> QED BY <1>0, <3>1, FileFacts, FilesAre
  <2> DEFINE r == [file["jwt.key"] EXCEPT !.whole = TRUE]
  <2>2. r \in [by : Tasks, whole : BOOLEAN] /\ r.by = t /\ r.whole = TRUE  BY <2>1
  <2>3. file' = [file EXCEPT !["jwt.key"] = r]  BY DEF WriteKey, Written
  <2>4. r # NoFile  BY <2>2 DEF NoFile
  <2> HIDE DEF r
  <2> QED BY <1>0, <2>1, <2>2, <2>3, <2>4, FilesAre DEF BootTyped
<1>6. got' \in [Tasks -> [Files -> Tasks \cup {Unknown, Empty}]] /\ got' = got
    BY <1>0 DEF WriteKey, BootTyped
<1>7. BootTyped'  BY <1>3, <1>5, <1>6 DEF BootTyped
<1>8. /\ file'["jwt.pub"] = file["jwt.pub"] /\ file'["internal.secret"] = file["internal.secret"]
      /\ file["jwt.key"].by = t /\ file["jwt.key"] # NoFile
      /\ file'["jwt.key"] # NoFile /\ file'["jwt.key"].by = t /\ file'["jwt.key"].whole
    BY <1>5
<1>9. got' = got  BY <1>6
<1>10. /\ file["jwt.key"].whole \/ file["jwt.key"].by = t => file["jwt.key"] # NoFile
       /\ file["jwt.pub"].by = t => file["jwt.pub"] # NoFile
       /\ t # Unknown /\ t # Empty /\ t # "none" /\ Unknown # Empty
       /\ file["jwt.key"].whole => file["jwt.key"].by # Unknown
       /\ file["jwt.pub"].whole => file["jwt.pub"] # NoFile /\ file["jwt.pub"].by \notin {Empty, Unknown}
       /\ file["jwt.key"] = NoFile => file["jwt.key"].by = "none" /\ ~file["jwt.key"].whole
       /\ file["internal.secret"] = NoFile => file["internal.secret"].by = "none"
       /\ \A u \in Tasks : u # "none"
    BY <1>0, FileFacts, FilesAre DEF Unknown, Empty
<1>11. PairInv'  BY <1>0, <1>1, <1>2, <1>4, <1>8, <1>10 DEF PairInv, At
<1>12. task[t].op = "loadPair" <=> At(t, "readPrivate") \/ At(t, "readPublic")
    BY <1>0, <1>1, BootPlaces DEF At
<1>13. GotInv'
  <2>1. \A u \in Tasks : got'[u]["jwt.key"] = Unknown \/ (file'["jwt.key"].whole /\ got'[u]["jwt.key"] = file'["jwt.key"].by)
      BY <1>0, <1>1, <1>8, <1>9, <1>10 DEF GotInv, PairInv, At
  <2>2. \A u \in Tasks : got'[u]["jwt.pub"] \in {Unknown, Empty} \/ (file'["jwt.pub"] # NoFile /\ got'[u]["jwt.pub"] = file'["jwt.pub"].by)
      BY <1>0, <1>1, <1>8, <1>9, <1>10 DEF GotInv, PairInv, At
  <2>3. \A u \in Tasks : got'[u]["jwt.pub"] = Empty => Over(u, "loadPair")'
      BY <1>0, <1>1, <1>2, <1>4, <1>9, <1>10, <1>12 DEF GotInv, PairInv, At, Over
  <2>4. \A u \in Tasks : got'[u]["jwt.pub"] # Unknown \/ At(u, "readPublic")' => got'[u]["jwt.key"] # Unknown
      BY <1>0, <1>1, <1>2, <1>4, <1>9, <1>10 DEF GotInv, PairInv, At
  <2> QED BY <2>1, <2>2, <2>3, <2>4 DEF GotInv
<1>14. SecretInv'  BY <1>0, <1>1, <1>2, <1>4, <1>8, <1>9, <1>10 DEF SecretInv, At
<1> QED BY <1>7, <1>11, <1>13, <1>14 DEF BootInv

LEMMA CreatePubKeeps == ASSUME BootInv, NEW t \in Tasks, CreatePub(t) PROVE BootInv'
<1>0. BootTyped /\ PairInv /\ GotInv /\ SecretInv  BY DEF BootInv
<1>1. At(t, "createPub") /\ task[t] \notin {New, Failed}  BY AtFresh DEF CreatePub
<1>2. Goes(t, "writePub")  BY DEF CreatePub
<1>3. /\ task' = [u \in Tasks |-> task'[u]] /\ \A u \in Tasks : BootTask(u)'
      /\ BootMoves(t, [op |-> task[t].op, at |-> "writePub"])
    BY <1>0, <1>1, <1>2, BootPlaces, BootGoes
<1>4. task'[t].at = "writePub" /\ task'[t].op = task[t].op /\ \A u \in Tasks : u # t => task'[u] = task[u]
    BY <1>3 DEF BootMoves
<1>5. /\ file' \in [Files -> {NoFile} \cup [by : Tasks, whole : BOOLEAN]]
      /\ file'["jwt.key"] = file["jwt.key"] /\ file'["internal.secret"] = file["internal.secret"]
      /\ file'["jwt.pub"] # NoFile /\ file'["jwt.pub"].by = t /\ ~file'["jwt.pub"].whole
  <2>1. file' = [file EXCEPT !["jwt.pub"] = [by |-> t, whole |-> FALSE]]  BY DEF CreatePub, Created
  <2>2. [by |-> t, whole |-> FALSE] \in [by : Tasks, whole : BOOLEAN] /\ [by |-> t, whole |-> FALSE] # NoFile
      BY ServiceAssumption DEF NoFile
  <2> QED BY <1>0, <2>1, <2>2, FilesAre DEF BootTyped
<1>6. got' \in [Tasks -> [Files -> Tasks \cup {Unknown, Empty}]] /\ got' = got
    BY <1>0 DEF CreatePub, BootTyped
<1>7. BootTyped'  BY <1>3, <1>5, <1>6 DEF BootTyped
<1>8. /\ file'["jwt.key"] = file["jwt.key"] /\ file'["internal.secret"] = file["internal.secret"]
      /\ file'["jwt.pub"] # NoFile /\ file'["jwt.pub"].by = t /\ ~file'["jwt.pub"].whole
    BY <1>5
<1>9. got' = got  BY <1>6
<1>10. /\ file["jwt.key"].whole \/ file["jwt.key"].by = t => file["jwt.key"] # NoFile
       /\ file["jwt.pub"].by = t => file["jwt.pub"] # NoFile
       /\ t # Unknown /\ t # Empty /\ t # "none" /\ Unknown # Empty
       /\ file["jwt.key"].whole => file["jwt.key"].by # Unknown
       /\ file["jwt.pub"].whole => file["jwt.pub"] # NoFile /\ file["jwt.pub"].by \notin {Empty, Unknown}
       /\ file["jwt.key"] = NoFile => file["jwt.key"].by = "none" /\ ~file["jwt.key"].whole
       /\ file["internal.secret"] = NoFile => file["internal.secret"].by = "none"
       /\ \A u \in Tasks : u # "none"
    BY <1>0, FileFacts, FilesAre DEF Unknown, Empty
<1>11. PairInv'  BY <1>0, <1>1, <1>2, <1>4, <1>8, <1>10 DEF PairInv, At
<1>12. task[t].op = "loadPair" <=> At(t, "readPrivate") \/ At(t, "readPublic")
    BY <1>0, <1>1, BootPlaces DEF At
<1>13. GotInv'
  <2>1. \A u \in Tasks : got'[u]["jwt.key"] = Unknown \/ (file'["jwt.key"].whole /\ got'[u]["jwt.key"] = file'["jwt.key"].by)
      BY <1>0, <1>1, <1>8, <1>9, <1>10 DEF GotInv, PairInv, At
  <2>2. \A u \in Tasks : got'[u]["jwt.pub"] \in {Unknown, Empty} \/ (file'["jwt.pub"] # NoFile /\ got'[u]["jwt.pub"] = file'["jwt.pub"].by)
      BY <1>0, <1>1, <1>8, <1>9, <1>10 DEF GotInv, PairInv, At
  <2>3. \A u \in Tasks : got'[u]["jwt.pub"] = Empty => Over(u, "loadPair")'
      BY <1>0, <1>1, <1>2, <1>4, <1>9, <1>10, <1>12 DEF GotInv, PairInv, At, Over
  <2>4. \A u \in Tasks : got'[u]["jwt.pub"] # Unknown \/ At(u, "readPublic")' => got'[u]["jwt.key"] # Unknown
      BY <1>0, <1>1, <1>2, <1>4, <1>9, <1>10 DEF GotInv, PairInv, At
  <2> QED BY <2>1, <2>2, <2>3, <2>4 DEF GotInv
<1>14. SecretInv'  BY <1>0, <1>1, <1>2, <1>4, <1>8, <1>9, <1>10 DEF SecretInv, At
<1> QED BY <1>7, <1>11, <1>13, <1>14 DEF BootInv

LEMMA WritePubKeeps == ASSUME BootInv, NEW t \in Tasks, WritePub(t) PROVE BootInv'
<1>0. BootTyped /\ PairInv /\ GotInv /\ SecretInv  BY DEF BootInv
<1>1. At(t, "writePub") /\ task[t] \notin {New, Failed}  BY AtFresh DEF WritePub
<1>2. Ends(t)  BY DEF WritePub
<1>3. /\ task' = [u \in Tasks |-> task'[u]] /\ \A u \in Tasks : BootTask(u)'
      /\ BootMoves(t, [op |-> task[t].op, at |-> "over"])
    BY <1>0, <1>1, <1>2, BootPlaces, BootGoes
<1>4. task'[t].at = "over" /\ task'[t].op = task[t].op /\ \A u \in Tasks : u # t => task'[u] = task[u]
    BY <1>3 DEF BootMoves
<1>5. /\ file' \in [Files -> {NoFile} \cup [by : Tasks, whole : BOOLEAN]]
      /\ file'["jwt.key"] = file["jwt.key"] /\ file'["internal.secret"] = file["internal.secret"]
      /\ file["jwt.pub"].by = t /\ file["jwt.pub"] # NoFile
      /\ file'["jwt.pub"] # NoFile /\ file'["jwt.pub"].by = t /\ file'["jwt.pub"].whole
  <2>1. file["jwt.pub"].by = t /\ file["jwt.pub"] \in [by : Tasks, whole : BOOLEAN] /\ file["jwt.pub"] # NoFile
    <3>1. file["jwt.pub"].by = t  BY <1>0, <1>1 DEF PairInv
    <3> QED BY <1>0, <3>1, FileFacts, FilesAre
  <2> DEFINE r == [file["jwt.pub"] EXCEPT !.whole = TRUE]
  <2>2. r \in [by : Tasks, whole : BOOLEAN] /\ r.by = t /\ r.whole = TRUE  BY <2>1
  <2>3. file' = [file EXCEPT !["jwt.pub"] = r]  BY DEF WritePub, Written
  <2>4. r # NoFile  BY <2>2 DEF NoFile
  <2> HIDE DEF r
  <2> QED BY <1>0, <2>1, <2>2, <2>3, <2>4, FilesAre DEF BootTyped
<1>6. /\ got' \in [Tasks -> [Files -> Tasks \cup {Unknown, Empty}]] /\ \A u \in Tasks : u # t => got'[u] = got[u]
      /\ got'[t]["jwt.key"] = t /\ got'[t]["jwt.pub"] = t /\ got'[t]["internal.secret"] = got[t]["internal.secret"]
  <2> DEFINE g == [f \in Files |-> IF f \in {"jwt.key", "jwt.pub"} THEN t ELSE got[t][f]]
  <2>1. g \in [Files -> Tasks \cup {Unknown, Empty}] /\ g["jwt.key"] = t /\ g["jwt.pub"] = t /\ g["internal.secret"] = got[t]["internal.secret"]
      BY <1>0, FilesAre DEF BootTyped
  <2>2. got' = [got EXCEPT ![t] = g]  BY DEF WritePub, Kept
  <2> HIDE DEF g
  <2> QED BY <1>0, <2>1, <2>2 DEF BootTyped
<1>7. BootTyped'  BY <1>3, <1>5, <1>6 DEF BootTyped
<1>8. /\ file'["jwt.key"] = file["jwt.key"] /\ file'["internal.secret"] = file["internal.secret"]
      /\ file["jwt.pub"].by = t /\ file["jwt.pub"] # NoFile
      /\ file'["jwt.pub"] # NoFile /\ file'["jwt.pub"].by = t /\ file'["jwt.pub"].whole
    BY <1>5
<1>9. /\ \A u \in Tasks : u # t => got'[u] = got[u]
      /\ got'[t]["jwt.key"] = t /\ got'[t]["jwt.pub"] = t /\ got'[t]["internal.secret"] = got[t]["internal.secret"]
    BY <1>6
<1>10. /\ file["jwt.key"].whole \/ file["jwt.key"].by = t => file["jwt.key"] # NoFile
       /\ file["jwt.pub"].by = t => file["jwt.pub"] # NoFile
       /\ t # Unknown /\ t # Empty /\ t # "none" /\ Unknown # Empty
       /\ file["jwt.key"].whole => file["jwt.key"].by # Unknown
       /\ file["jwt.pub"].whole => file["jwt.pub"] # NoFile /\ file["jwt.pub"].by \notin {Empty, Unknown}
       /\ file["jwt.key"] = NoFile => file["jwt.key"].by = "none" /\ ~file["jwt.key"].whole
       /\ file["internal.secret"] = NoFile => file["internal.secret"].by = "none"
       /\ \A u \in Tasks : u # "none"
    BY <1>0, FileFacts, FilesAre DEF Unknown, Empty
<1>11. PairInv'  BY <1>0, <1>1, <1>2, <1>4, <1>8, <1>10 DEF PairInv, At
<1>12. task[t].op = "loadPair" <=> At(t, "readPrivate") \/ At(t, "readPublic")
    BY <1>0, <1>1, BootPlaces DEF At
<1>13. GotInv'
  <2>1. \A u \in Tasks : got'[u]["jwt.key"] = Unknown \/ (file'["jwt.key"].whole /\ got'[u]["jwt.key"] = file'["jwt.key"].by)
      BY <1>0, <1>1, <1>8, <1>9, <1>10 DEF GotInv, PairInv, At
  <2>2. \A u \in Tasks : got'[u]["jwt.pub"] \in {Unknown, Empty} \/ (file'["jwt.pub"] # NoFile /\ got'[u]["jwt.pub"] = file'["jwt.pub"].by)
      BY <1>0, <1>1, <1>8, <1>9, <1>10 DEF GotInv, PairInv, At
  <2>3. \A u \in Tasks : got'[u]["jwt.pub"] = Empty => Over(u, "loadPair")'
      BY <1>0, <1>1, <1>2, <1>4, <1>9, <1>10, <1>12 DEF GotInv, PairInv, At, Over
  <2>4. \A u \in Tasks : got'[u]["jwt.pub"] # Unknown \/ At(u, "readPublic")' => got'[u]["jwt.key"] # Unknown
      BY <1>0, <1>1, <1>2, <1>4, <1>9, <1>10 DEF GotInv, PairInv, At
  <2> QED BY <2>1, <2>2, <2>3, <2>4 DEF GotInv
<1>14. SecretInv'  BY <1>0, <1>1, <1>2, <1>4, <1>8, <1>9, <1>10 DEF SecretInv, At
<1> QED BY <1>7, <1>11, <1>13, <1>14 DEF BootInv

LEMMA CreateSecretKeeps == ASSUME BootInv, NEW t \in Tasks, CreateSecret(t) PROVE BootInv'
<1>0. BootTyped /\ PairInv /\ GotInv /\ SecretInv  BY DEF BootInv
<1>1. At(t, "createSecret") /\ task[t] \notin {New, Failed}  BY AtFresh DEF CreateSecret
<1>2. PICK p \in {"writeSecret", "readSecret"} : Goes(t, p) /\ (p = "writeSecret" <=> Exclusive("internal.secret"))
    BY DEF CreateSecret
<1>3. /\ task' = [u \in Tasks |-> task'[u]] /\ \A u \in Tasks : BootTask(u)'
      /\ BootMoves(t, [op |-> task[t].op, at |-> p])
    BY <1>0, <1>1, <1>2, BootPlaces, BootGoes
<1>4. task'[t].at = p /\ task'[t].op = task[t].op /\ \A u \in Tasks : u # t => task'[u] = task[u]
    BY <1>3 DEF BootMoves
<1>5. /\ file' \in [Files -> {NoFile} \cup [by : Tasks, whole : BOOLEAN]]
      /\ file'["jwt.key"] = file["jwt.key"] /\ file'["jwt.pub"] = file["jwt.pub"]
      /\ p = "writeSecret" => file["internal.secret"] = NoFile /\ file'["internal.secret"] # NoFile /\ file'["internal.secret"].by = t /\ ~file'["internal.secret"].whole
      /\ p # "writeSecret" => file["internal.secret"] # NoFile /\ file' = file
  <2>1. CASE Exclusive("internal.secret")
    <3>1. file' = [file EXCEPT !["internal.secret"] = [by |-> t, whole |-> FALSE]]
        BY <2>1 DEF CreateSecret, Created
    <3>2. [by |-> t, whole |-> FALSE] \in [by : Tasks, whole : BOOLEAN] /\ [by |-> t, whole |-> FALSE] # NoFile
        BY ServiceAssumption DEF NoFile
    <3> QED BY <1>0, <1>2, <2>1, <3>1, <3>2, FilesAre DEF BootTyped, Exclusive
  <2>2. CASE ~Exclusive("internal.secret")
      BY <1>0, <1>2, <2>2 DEF CreateSecret, Exclusive, BootTyped
  <2> QED BY <2>1, <2>2
<1>6. got' \in [Tasks -> [Files -> Tasks \cup {Unknown, Empty}]] /\ got' = got
    BY <1>0 DEF CreateSecret, BootTyped
<1>7. BootTyped'  BY <1>3, <1>5, <1>6 DEF BootTyped
<1>8. /\ file'["jwt.key"] = file["jwt.key"] /\ file'["jwt.pub"] = file["jwt.pub"]
      /\ p = "writeSecret" => file["internal.secret"] = NoFile /\ file'["internal.secret"] # NoFile /\ file'["internal.secret"].by = t /\ ~file'["internal.secret"].whole
      /\ p # "writeSecret" => file["internal.secret"] # NoFile /\ file' = file
    BY <1>5
<1>9. got' = got  BY <1>6
<1>10. /\ file["jwt.key"].whole \/ file["jwt.key"].by = t => file["jwt.key"] # NoFile
       /\ file["jwt.pub"].by = t => file["jwt.pub"] # NoFile
       /\ t # Unknown /\ t # Empty /\ t # "none" /\ Unknown # Empty
       /\ file["jwt.key"].whole => file["jwt.key"].by # Unknown
       /\ file["jwt.pub"].whole => file["jwt.pub"] # NoFile /\ file["jwt.pub"].by \notin {Empty, Unknown}
       /\ file["jwt.key"] = NoFile => file["jwt.key"].by = "none" /\ ~file["jwt.key"].whole
       /\ file["internal.secret"] = NoFile => file["internal.secret"].by = "none"
       /\ \A u \in Tasks : u # "none"
    BY <1>0, FileFacts, FilesAre DEF Unknown, Empty
<1>11. PairInv'  BY <1>0, <1>1, <1>2, <1>4, <1>8, <1>10 DEF PairInv, At
<1>12. task[t].op = "loadPair" <=> At(t, "readPrivate") \/ At(t, "readPublic")
    BY <1>0, <1>1, BootPlaces DEF At
<1>13. GotInv'
  <2>1. \A u \in Tasks : got'[u]["jwt.key"] = Unknown \/ (file'["jwt.key"].whole /\ got'[u]["jwt.key"] = file'["jwt.key"].by)
      BY <1>0, <1>1, <1>8, <1>9, <1>10 DEF GotInv, PairInv, At
  <2>2. \A u \in Tasks : got'[u]["jwt.pub"] \in {Unknown, Empty} \/ (file'["jwt.pub"] # NoFile /\ got'[u]["jwt.pub"] = file'["jwt.pub"].by)
      BY <1>0, <1>1, <1>8, <1>9, <1>10 DEF GotInv, PairInv, At
  <2>3. \A u \in Tasks : got'[u]["jwt.pub"] = Empty => Over(u, "loadPair")'
      BY <1>0, <1>1, <1>2, <1>4, <1>9, <1>10, <1>12 DEF GotInv, PairInv, At, Over
  <2>4. \A u \in Tasks : got'[u]["jwt.pub"] # Unknown \/ At(u, "readPublic")' => got'[u]["jwt.key"] # Unknown
      BY <1>0, <1>1, <1>2, <1>4, <1>9, <1>10 DEF GotInv, PairInv, At
  <2> QED BY <2>1, <2>2, <2>3, <2>4 DEF GotInv
<1>14. SecretInv'  BY <1>0, <1>1, <1>2, <1>4, <1>8, <1>9, <1>10 DEF SecretInv, At
<1> QED BY <1>7, <1>11, <1>13, <1>14 DEF BootInv

LEMMA WriteSecretKeeps == ASSUME BootInv, NEW t \in Tasks, WriteSecret(t) PROVE BootInv'
<1>0. BootTyped /\ PairInv /\ GotInv /\ SecretInv  BY DEF BootInv
<1>1. At(t, "writeSecret") /\ task[t] \notin {New, Failed}  BY AtFresh DEF WriteSecret
<1>2. Ends(t)  BY DEF WriteSecret
<1>3. /\ task' = [u \in Tasks |-> task'[u]] /\ \A u \in Tasks : BootTask(u)'
      /\ BootMoves(t, [op |-> task[t].op, at |-> "over"])
    BY <1>0, <1>1, <1>2, BootPlaces, BootGoes
<1>4. task'[t].at = "over" /\ task'[t].op = task[t].op /\ \A u \in Tasks : u # t => task'[u] = task[u]
    BY <1>3 DEF BootMoves
<1>5. /\ file' \in [Files -> {NoFile} \cup [by : Tasks, whole : BOOLEAN]]
      /\ file'["jwt.key"] = file["jwt.key"] /\ file'["jwt.pub"] = file["jwt.pub"]
      /\ file["internal.secret"].by = t /\ file["internal.secret"] # NoFile
      /\ file'["internal.secret"] # NoFile /\ file'["internal.secret"].by = t /\ file'["internal.secret"].whole
  <2>1. file["internal.secret"].by = t /\ file["internal.secret"] \in [by : Tasks, whole : BOOLEAN] /\ file["internal.secret"] # NoFile
    <3>1. file["internal.secret"].by = t  BY <1>0, <1>1 DEF SecretInv
    <3> QED BY <1>0, <3>1, FileFacts, FilesAre
  <2> DEFINE r == [file["internal.secret"] EXCEPT !.whole = TRUE]
  <2>2. r \in [by : Tasks, whole : BOOLEAN] /\ r.by = t /\ r.whole = TRUE  BY <2>1
  <2>3. file' = [file EXCEPT !["internal.secret"] = r]  BY DEF WriteSecret, Written
  <2>4. r # NoFile  BY <2>2 DEF NoFile
  <2> HIDE DEF r
  <2> QED BY <1>0, <2>1, <2>2, <2>3, <2>4, FilesAre DEF BootTyped
<1>6. /\ got' \in [Tasks -> [Files -> Tasks \cup {Unknown, Empty}]] /\ \A u \in Tasks : u # t => got'[u] = got[u]
      /\ got'[t]["jwt.key"] = got[t]["jwt.key"] /\ got'[t]["jwt.pub"] = got[t]["jwt.pub"] /\ got'[t]["internal.secret"] = t
  <2> DEFINE g == [f \in Files |-> IF f \in {"internal.secret"} THEN t ELSE got[t][f]]
  <2>1. g \in [Files -> Tasks \cup {Unknown, Empty}] /\ g["jwt.key"] = got[t]["jwt.key"] /\ g["jwt.pub"] = got[t]["jwt.pub"] /\ g["internal.secret"] = t
      BY <1>0, FilesAre DEF BootTyped
  <2>2. got' = [got EXCEPT ![t] = g]  BY DEF WriteSecret, Kept
  <2> HIDE DEF g
  <2> QED BY <1>0, <2>1, <2>2 DEF BootTyped
<1>7. BootTyped'  BY <1>3, <1>5, <1>6 DEF BootTyped
<1>8. /\ file'["jwt.key"] = file["jwt.key"] /\ file'["jwt.pub"] = file["jwt.pub"]
      /\ file["internal.secret"].by = t /\ file["internal.secret"] # NoFile
      /\ file'["internal.secret"] # NoFile /\ file'["internal.secret"].by = t /\ file'["internal.secret"].whole
    BY <1>5
<1>9. /\ \A u \in Tasks : u # t => got'[u] = got[u]
      /\ got'[t]["jwt.key"] = got[t]["jwt.key"] /\ got'[t]["jwt.pub"] = got[t]["jwt.pub"] /\ got'[t]["internal.secret"] = t
    BY <1>6
<1>10. /\ file["jwt.key"].whole \/ file["jwt.key"].by = t => file["jwt.key"] # NoFile
       /\ file["jwt.pub"].by = t => file["jwt.pub"] # NoFile
       /\ t # Unknown /\ t # Empty /\ t # "none" /\ Unknown # Empty
       /\ file["jwt.key"].whole => file["jwt.key"].by # Unknown
       /\ file["jwt.pub"].whole => file["jwt.pub"] # NoFile /\ file["jwt.pub"].by \notin {Empty, Unknown}
       /\ file["jwt.key"] = NoFile => file["jwt.key"].by = "none" /\ ~file["jwt.key"].whole
       /\ file["internal.secret"] = NoFile => file["internal.secret"].by = "none"
       /\ \A u \in Tasks : u # "none"
    BY <1>0, FileFacts, FilesAre DEF Unknown, Empty
<1>11. PairInv'  BY <1>0, <1>1, <1>2, <1>4, <1>8, <1>10 DEF PairInv, At
<1>12. task[t].op = "loadPair" <=> At(t, "readPrivate") \/ At(t, "readPublic")
    BY <1>0, <1>1, BootPlaces DEF At
<1>13. GotInv'
  <2>1. \A u \in Tasks : got'[u]["jwt.key"] = Unknown \/ (file'["jwt.key"].whole /\ got'[u]["jwt.key"] = file'["jwt.key"].by)
      BY <1>0, <1>1, <1>8, <1>9, <1>10 DEF GotInv, PairInv, At
  <2>2. \A u \in Tasks : got'[u]["jwt.pub"] \in {Unknown, Empty} \/ (file'["jwt.pub"] # NoFile /\ got'[u]["jwt.pub"] = file'["jwt.pub"].by)
      BY <1>0, <1>1, <1>8, <1>9, <1>10 DEF GotInv, PairInv, At
  <2>3. \A u \in Tasks : got'[u]["jwt.pub"] = Empty => Over(u, "loadPair")'
      BY <1>0, <1>1, <1>2, <1>4, <1>9, <1>10, <1>12 DEF GotInv, PairInv, At, Over
  <2>4. \A u \in Tasks : got'[u]["jwt.pub"] # Unknown \/ At(u, "readPublic")' => got'[u]["jwt.key"] # Unknown
      BY <1>0, <1>1, <1>2, <1>4, <1>9, <1>10 DEF GotInv, PairInv, At
  <2> QED BY <2>1, <2>2, <2>3, <2>4 DEF GotInv
<1>14. SecretInv'  BY <1>0, <1>1, <1>2, <1>4, <1>8, <1>9, <1>10 DEF SecretInv, At
<1> QED BY <1>7, <1>11, <1>13, <1>14 DEF BootInv

LEMMA ReadSecretKeeps == ASSUME BootInv, NEW t \in Tasks, ReadSecret(t) PROVE BootInv'
<1>0. BootTyped /\ PairInv /\ GotInv /\ SecretInv  BY DEF BootInv
<1>1. At(t, "readSecret") /\ task[t] \notin {New, Failed}  BY AtFresh DEF ReadSecret
<1>2. Ends(t)  BY DEF ReadSecret
<1>3. /\ task' = [u \in Tasks |-> task'[u]] /\ \A u \in Tasks : BootTask(u)'
      /\ BootMoves(t, [op |-> task[t].op, at |-> "over"])
    BY <1>0, <1>1, <1>2, BootPlaces, BootGoes
<1>4. task'[t].at = "over" /\ task'[t].op = task[t].op /\ \A u \in Tasks : u # t => task'[u] = task[u]
    BY <1>3 DEF BootMoves
<1>5. file' \in [Files -> {NoFile} \cup [by : Tasks, whole : BOOLEAN]] /\ file' = file
    BY <1>0 DEF ReadSecret, BootTyped
<1>6. /\ got' \in [Tasks -> [Files -> Tasks \cup {Unknown, Empty}]] /\ \A u \in Tasks : u # t => got'[u] = got[u]
      /\ got'[t]["jwt.key"] = got[t]["jwt.key"] /\ got'[t]["jwt.pub"] = got[t]["jwt.pub"]
      /\ got'[t]["internal.secret"] = IF file["internal.secret"].whole THEN file["internal.secret"].by ELSE Empty
  <2> DEFINE c == IF file["internal.secret"].whole THEN file["internal.secret"].by ELSE Empty
  <2>1. c \in Tasks \cup {Unknown, Empty}  BY <1>0, FileFacts, FilesAre
  <2>2. got' = [got EXCEPT ![t]["internal.secret"] = c]  BY DEF ReadSecret, Took, Content
  <2> HIDE DEF c
  <2>3. /\ got' \in [Tasks -> [Files -> Tasks \cup {Unknown, Empty}]] /\ \A u \in Tasks : u # t => got'[u] = got[u]
        /\ got'[t]["jwt.key"] = got[t]["jwt.key"] /\ got'[t]["jwt.pub"] = got[t]["jwt.pub"]
        /\ got'[t]["internal.secret"] = c
      BY <1>0, <2>1, <2>2, FilesAre DEF BootTyped
  <2> QED BY <2>3 DEF c
<1>7. BootTyped'  BY <1>3, <1>5, <1>6 DEF BootTyped
<1>8. file' = file  BY <1>5
<1>9. /\ \A u \in Tasks : u # t => got'[u] = got[u]
      /\ got'[t]["jwt.key"] = got[t]["jwt.key"] /\ got'[t]["jwt.pub"] = got[t]["jwt.pub"]
      /\ got'[t]["internal.secret"] = IF file["internal.secret"].whole THEN file["internal.secret"].by ELSE Empty
    BY <1>6
<1>10. /\ file["jwt.key"].whole \/ file["jwt.key"].by = t => file["jwt.key"] # NoFile
       /\ file["jwt.pub"].by = t => file["jwt.pub"] # NoFile
       /\ t # Unknown /\ t # Empty /\ t # "none" /\ Unknown # Empty
       /\ file["jwt.key"].whole => file["jwt.key"].by # Unknown
       /\ file["jwt.pub"].whole => file["jwt.pub"] # NoFile /\ file["jwt.pub"].by \notin {Empty, Unknown}
       /\ file["jwt.key"] = NoFile => file["jwt.key"].by = "none" /\ ~file["jwt.key"].whole
       /\ file["internal.secret"] = NoFile => file["internal.secret"].by = "none"
       /\ \A u \in Tasks : u # "none"
    BY <1>0, FileFacts, FilesAre DEF Unknown, Empty
<1>11. PairInv'  BY <1>0, <1>1, <1>2, <1>4, <1>8, <1>10 DEF PairInv, At
<1>12. task[t].op = "loadPair" <=> At(t, "readPrivate") \/ At(t, "readPublic")
    BY <1>0, <1>1, BootPlaces DEF At
<1>13. GotInv'
  <2>1. \A u \in Tasks : got'[u]["jwt.key"] = Unknown \/ (file'["jwt.key"].whole /\ got'[u]["jwt.key"] = file'["jwt.key"].by)
      BY <1>0, <1>1, <1>8, <1>9, <1>10 DEF GotInv, PairInv, At
  <2>2. \A u \in Tasks : got'[u]["jwt.pub"] \in {Unknown, Empty} \/ (file'["jwt.pub"] # NoFile /\ got'[u]["jwt.pub"] = file'["jwt.pub"].by)
      BY <1>0, <1>1, <1>8, <1>9, <1>10 DEF GotInv, PairInv, At
  <2>3. \A u \in Tasks : got'[u]["jwt.pub"] = Empty => Over(u, "loadPair")'
      BY <1>0, <1>1, <1>2, <1>4, <1>9, <1>10, <1>12 DEF GotInv, PairInv, At, Over
  <2>4. \A u \in Tasks : got'[u]["jwt.pub"] # Unknown \/ At(u, "readPublic")' => got'[u]["jwt.key"] # Unknown
      BY <1>0, <1>1, <1>2, <1>4, <1>9, <1>10 DEF GotInv, PairInv, At
  <2> QED BY <2>1, <2>2, <2>3, <2>4 DEF GotInv
<1>14. SecretInv'  BY <1>0, <1>1, <1>2, <1>4, <1>8, <1>9, <1>10 DEF SecretInv, At
<1> QED BY <1>7, <1>11, <1>13, <1>14 DEF BootInv

LEMMA ReadExistingKeeps == ASSUME BootInv, NEW t \in Tasks, ReadExisting(t) PROVE BootInv'
<1>0. BootTyped /\ PairInv /\ GotInv /\ SecretInv  BY DEF BootInv
<1>1. At(t, "readExisting") /\ task[t] \notin {New, Failed}  BY AtFresh DEF ReadExisting
<1>2. Ends(t)  BY DEF ReadExisting
<1>3. /\ task' = [u \in Tasks |-> task'[u]] /\ \A u \in Tasks : BootTask(u)'
      /\ BootMoves(t, [op |-> task[t].op, at |-> "over"])
    BY <1>0, <1>1, <1>2, BootPlaces, BootGoes
<1>4. task'[t].at = "over" /\ task'[t].op = task[t].op /\ \A u \in Tasks : u # t => task'[u] = task[u]
    BY <1>3 DEF BootMoves
<1>5. file' \in [Files -> {NoFile} \cup [by : Tasks, whole : BOOLEAN]] /\ file' = file
    BY <1>0 DEF ReadExisting, BootTyped
<1>6. /\ got' \in [Tasks -> [Files -> Tasks \cup {Unknown, Empty}]] /\ \A u \in Tasks : u # t => got'[u] = got[u]
      /\ \/ got' = got
         \/ /\ file["jwt.key"].whole /\ file["jwt.pub"].whole
            /\ got'[t]["internal.secret"] = got[t]["internal.secret"]
            /\ got'[t]["jwt.key"] = file["jwt.key"].by /\ got'[t]["jwt.pub"] = file["jwt.pub"].by
  <2>1. CASE got' = got  BY <1>0, <2>1 DEF BootTyped
  <2>2. CASE /\ file["jwt.key"].whole /\ file["jwt.pub"].whole
             /\ got' = [got EXCEPT ![t] = [f \in Files |-> IF f = "internal.secret" THEN @[f] ELSE Content(f)]]
    <3> DEFINE g == [f \in Files |-> IF f = "internal.secret" THEN got[t][f] ELSE Content(f)]
    <3>1. \A f \in {"jwt.key", "jwt.pub"} : Content(f) = file[f].by /\ file[f].by \in Tasks
        BY <1>0, <2>2, FileFacts, FilesAre DEF Content
    <3>2. g \in [Files -> Tasks \cup {Unknown, Empty}]  BY <1>0, <3>1, FilesAre DEF BootTyped
    <3>3. g["internal.secret"] = got[t]["internal.secret"] /\ g["jwt.key"] = file["jwt.key"].by /\ g["jwt.pub"] = file["jwt.pub"].by
        BY <3>1, FilesAre
    <3>4. got' = [got EXCEPT ![t] = g]  BY <2>2
    <3> HIDE DEF g
    <3> QED BY <1>0, <2>2, <3>2, <3>3, <3>4 DEF BootTyped
  <2> QED BY <2>1, <2>2 DEF ReadExisting
<1>7. BootTyped'  BY <1>3, <1>5, <1>6 DEF BootTyped
<1>8. file' = file  BY <1>5
<1>9. /\ \A u \in Tasks : u # t => got'[u] = got[u]
      /\ \/ got' = got
         \/ /\ file["jwt.key"].whole /\ file["jwt.pub"].whole
            /\ got'[t]["internal.secret"] = got[t]["internal.secret"]
            /\ got'[t]["jwt.key"] = file["jwt.key"].by /\ got'[t]["jwt.pub"] = file["jwt.pub"].by
    BY <1>6
<1>10. /\ file["jwt.key"].whole \/ file["jwt.key"].by = t => file["jwt.key"] # NoFile
       /\ file["jwt.pub"].by = t => file["jwt.pub"] # NoFile
       /\ t # Unknown /\ t # Empty /\ t # "none" /\ Unknown # Empty
       /\ file["jwt.key"].whole => file["jwt.key"].by # Unknown
       /\ file["jwt.pub"].whole => file["jwt.pub"] # NoFile /\ file["jwt.pub"].by \notin {Empty, Unknown}
       /\ file["jwt.key"] = NoFile => file["jwt.key"].by = "none" /\ ~file["jwt.key"].whole
       /\ file["internal.secret"] = NoFile => file["internal.secret"].by = "none"
       /\ \A u \in Tasks : u # "none"
    BY <1>0, FileFacts, FilesAre DEF Unknown, Empty
<1>11. PairInv'  BY <1>0, <1>1, <1>2, <1>4, <1>8, <1>10 DEF PairInv, At
<1>12. task[t].op = "loadPair" <=> At(t, "readPrivate") \/ At(t, "readPublic")
    BY <1>0, <1>1, BootPlaces DEF At
<1>13. GotInv'
  <2>1. \A u \in Tasks : got'[u]["jwt.key"] = Unknown \/ (file'["jwt.key"].whole /\ got'[u]["jwt.key"] = file'["jwt.key"].by)
      BY <1>0, <1>1, <1>8, <1>9, <1>10 DEF GotInv, PairInv, At
  <2>2. \A u \in Tasks : got'[u]["jwt.pub"] \in {Unknown, Empty} \/ (file'["jwt.pub"] # NoFile /\ got'[u]["jwt.pub"] = file'["jwt.pub"].by)
      BY <1>0, <1>1, <1>8, <1>9, <1>10 DEF GotInv, PairInv, At
  <2>3. \A u \in Tasks : got'[u]["jwt.pub"] = Empty => Over(u, "loadPair")'
      BY <1>0, <1>1, <1>2, <1>4, <1>9, <1>10, <1>12 DEF GotInv, PairInv, At, Over
  <2>4. \A u \in Tasks : got'[u]["jwt.pub"] # Unknown \/ At(u, "readPublic")' => got'[u]["jwt.key"] # Unknown
      BY <1>0, <1>1, <1>2, <1>4, <1>9, <1>10 DEF GotInv, PairInv, At
  <2> QED BY <2>1, <2>2, <2>3, <2>4 DEF GotInv
<1>14. SecretInv'  BY <1>0, <1>1, <1>2, <1>4, <1>8, <1>9, <1>10 DEF SecretInv, At
<1> QED BY <1>7, <1>11, <1>13, <1>14 DEF BootInv

LEMMA BootInvInit == ASSUME TasksInit, ServiceInit PROVE BootInv
<1>1. /\ file = [f \in Files |-> NoFile] /\ got = [t \in Tasks |-> [f \in Files |-> Unknown]]
      /\ task = [t \in Tasks |-> New]
    BY DEF TasksInit, ServiceInit
<1>2. BootTyped  BY <1>1 DEF BootTyped, BootTask
<1>3. (\A t \in Tasks : task[t].at = "new") /\ (\A f \in Files : file[f] = NoFile) /\ (\A t \in Tasks, f \in Files : got[t][f] = Unknown)
    BY <1>1 DEF New
<1>4. PairInv /\ GotInv /\ SecretInv
    BY <1>3 DEF PairInv, GotInv, SecretInv, At, Over, Files, Unknown, Empty
<1> QED BY <1>2, <1>4 DEF BootInv

LEMMA BootInvNext == ASSUME BootInv, KeysNext PROVE BootInv'
    BY LoadPairKeeps, ReadPrivateKeeps, ReadPublicKeeps, CreateKeyKeeps, WriteKeyKeeps, CreatePubKeeps, WritePubKeeps, ReadExistingKeeps,
       LoadSecretKeeps, CreateSecretKeeps, WriteSecretKeeps, ReadSecretKeeps, FailBootKeeps DEF KeysNext

LEMMA BootInvStays == ASSUME BootInv, UNCHANGED <<taskVars, keyVars>> PROVE BootInv'
    BY DEF taskVars, keyVars, BootInv, BootTyped, BootTask, PairInv, GotInv, SecretInv, At, Over

LEMMA BootInvHolds == ASSUME BootInv PROVE ProcessesAgree /\ HalvesMatch
<1>1. ASSUME NEW f \in Files PROVE Cardinality({got[t][f] : t \in Tasks} \ {Unknown, Empty}) <= 1
  <2> DEFINE G == {got[t][f] : t \in Tasks} \ {Unknown, Empty}
  <2>1. G \subseteq {file[f].by}  BY DEF BootInv, GotInv, SecretInv, Files
  <2>2. IsFiniteSet({file[f].by}) /\ Cardinality({file[f].by}) = 1  BY FS_Singleton
  <2> QED BY <2>1, <2>2, FS_Subset
<1>2. ProcessesAgree  BY <1>1 DEF ProcessesAgree
<1>3. ASSUME NEW t \in Tasks
      PROVE  /\ got[t]["jwt.key"] # Empty
             /\ got[t]["jwt.pub"] \in {got[t]["jwt.key"], Unknown, Empty}
             /\ got[t]["jwt.pub"] = Empty => Over(t, "loadPair")
  <2>1. file["jwt.key"].whole => file["jwt.key"].by \in Tasks
      BY DEF BootInv, BootTyped, Files, NoFile
  <2>2. got[t]["jwt.key"] # Empty  BY <2>1, ServiceAssumption DEF BootInv, GotInv, Unknown, Empty
  <2>3. got[t]["jwt.pub"] \in {got[t]["jwt.key"], Unknown, Empty} /\ (got[t]["jwt.pub"] = Empty => Over(t, "loadPair"))
      BY DEF BootInv, GotInv, PairInv
  <2> QED BY <2>2, <2>3
<1> QED BY <1>2, <1>3 DEF HalvesMatch
----------------------------------------------------------------------------
(* The questions                                                           *)

Heard == Says \cup {Sent, Unknown}

AskRecords == [op : {"relationship", "isMember"}, at : {"asked"}, list : Heard, blocked : Heard]

\* What a question may stand at.
AskTask(t) ==
    \/ task[t] = New
    \/ task[t] \in AskRecords
    \/ task[t] \in [op : {"relationship", "isMember"}, at : {"over"}]

AskTyped ==
    /\ row \in [Rows -> Says] /\ inflight \in [Shared -> Says \cup {Idle, Sent, Unknown}]
    /\ joined \subseteq Tasks /\ granted \subseteq Tasks /\ barred \in [Rows -> SUBSET Tasks]
    /\ task = [t \in Tasks |-> task[t]] /\ \A t \in Tasks : AskTask(t)

Waits(t, r) == At(t, "asked") /\ LookupOf(task[t].op) = r /\ task[t].list = Sent

\* A lookup in flight is somebody's; so the first of those that share it began it.
FlightInv == \A r \in Shared : inflight[r] # Idle => \E t \in Tasks : Waits(t, r)

\* A row that bars a question still says no; what the question heard since, alone, is no yes.
BarInv ==
    /\ \A t \in Tasks, s \in Rows : task[t] = New => t \notin barred[s]
    /\ \A t \in Tasks, s \in Rows : At(t, "asked") /\ t \in barred[s] => ~Favours(s, row[s])
    /\ \A t \in Tasks, r \in Shared : At(t, "asked") /\ LookupOf(task[t].op) = r /\ t \in barred[r] \ joined =>
           task[t].list # "there" /\ (Waits(t, r) => inflight[r] # "there")
    /\ \A t \in Tasks : At(t, "asked") /\ task[t].op = "relationship" /\ t \in barred["blocked"] =>
           task[t].blocked \in {Sent, Unknown, "blocked"}

\* Behind the guard nothing of the directory is heard.
GuardInv ==
    Verifies => /\ inflight["contacts"] \in {Idle, Sent, Unknown}
                /\ \A t \in Tasks : At(t, "asked") /\ task[t].op = "relationship" => task[t].list \in {Sent, Unknown}

GrantInv == (\A t \in granted : task[t].at = "over") /\ GrantsAreDue /\ GuardedDirectoryDenies

QuestionInv == AskTyped /\ FlightInv /\ BarInv /\ GuardInv /\ GrantInv

LEMMA Words ==
    /\ Idle # Sent /\ Idle # Unknown /\ Sent # Unknown /\ {Idle, Sent, Unknown} \cap Says = {}
    /\ Says = {"none", "there", "blocked"} /\ "there" \notin {Idle, Sent, Unknown} /\ "blocked" \notin {Idle, Sent, Unknown}
    /\ Shared = {"contacts", "members"} /\ Rows = {"contacts", "members", "blocked"}
    BY DEF Idle, Sent, Unknown, Says, Shared, Rows

LEMMA AskingAre == ASSUME AskTyped PROVE \A t \in Tasks : t \in Asking <=> At(t, "asked")
<1>1. \A t \in Tasks : AskTask(t)  BY DEF AskTyped
<1> QED BY <1>1 DEF Asking, Under, At, AskTask, AskRecords, New

LEMMA AskPlaces == ASSUME AskTyped, NEW t \in Tasks, At(t, "asked") PROVE task[t] \in AskRecords
<1>1. AskTask(t)  BY DEF AskTyped
<1> QED BY <1>1 DEF AskTask, AskRecords, New, At

LEMMA LookupsAre == \A op : LookupOf(op) \in Shared
    BY DEF LookupOf, Shared

LEMMA SameGuard == ASSUME config' = config PROVE Verifies' = Verifies
    BY DEF Verifies, AuthMode

\* What was granted stays due when its question, its bars and what it shares stay.
LEMMA GrantStays ==
    ASSUME GrantInv, granted \subseteq Tasks, granted' = granted, config' = config,
           \A t \in granted : task'[t] = task[t] /\ (t \in joined => t \in joined') /\ \A s \in Rows : t \in barred'[s] => t \in barred[s]
    PROVE  GrantInv'
<1>1. Verifies' = Verifies  BY SameGuard
<1>2. \A t \in granted : task'[t].at = "over"  BY DEF GrantInv
<1>3. GrantsAreDue'
  <2> SUFFICES ASSUME NEW t \in granted
               PROVE  /\ t \in barred'[LookupOf(task'[t].op)] => t \in joined'
                      /\ task'[t].op = "relationship" => t \notin barred'["blocked"]
      BY DEF GrantsAreDue
  <2>1. /\ t \in barred[LookupOf(task[t].op)] => t \in joined
        /\ task[t].op = "relationship" => t \notin barred["blocked"]
      BY DEF GrantInv, GrantsAreDue
  <2>2. LookupOf(task[t].op) \in Rows /\ "blocked" \in Rows  BY LookupsAre, Words
  <2> QED BY <2>1, <2>2
<1>4. GuardedDirectoryDenies'  BY <1>1 DEF GrantInv, GuardedDirectoryDenies
<1> QED BY <1>2, <1>3, <1>4 DEF GrantInv

LEMMA SetKeeps ==
    ASSUME QuestionInv, NEW r \in Rows, NEW says \in Says, Set(r, says)
    PROVE  QuestionInv'
<1> USE DEF QuestionInv
<1>1. task' = task /\ config' = config /\ inflight' = inflight /\ joined' = joined /\ granted' = granted
      /\ row' = [row EXCEPT ![r] = says]
    BY DEF Set, taskVars
<1>2. barred' \in [Rows -> SUBSET Tasks] /\ \A s \in Rows : barred'[s] \subseteq barred[s]
    BY DEF Set, AskTyped
<1>3. \A t \in Tasks : At(t, "asked") /\ t \in barred'[r] => ~Favours(r, says)
  <2>1. CASE Favours(r, says)
    <3>1. barred'[r] = barred[r] \ Asking  BY <2>1 DEF Set, AskTyped
    <3> QED BY <3>1, AskingAre
  <2> QED BY <2>1
<1>4. AskTyped'  BY <1>1, <1>2 DEF AskTyped, AskTask
<1>5. FlightInv'  BY <1>1 DEF FlightInv, Waits, At
<1>6. BarInv'
  <2>1. \A t \in Tasks, s \in Rows : At(t, "asked")' /\ t \in barred'[s] => ~Favours(s, row'[s])
    <3> SUFFICES ASSUME NEW t \in Tasks, NEW s \in Rows, At(t, "asked"), t \in barred'[s] PROVE ~Favours(s, row'[s])
        BY <1>1 DEF At
    <3>1. CASE s = r  BY <1>1, <1>3, <3>1 DEF AskTyped
    <3>2. CASE s # r
      <4>1. row'[s] = row[s] /\ t \in barred[s]  BY <1>1, <1>2, <3>2 DEF AskTyped
      <4> QED BY <4>1 DEF BarInv
    <3> QED BY <3>1, <3>2
  <2>2. \A s \in Shared : s \in Rows  BY Words
  <2>3. "blocked" \in Rows  BY Words
  <2> QED BY <1>1, <1>2, <2>1, <2>2, <2>3 DEF BarInv, Waits, At
<1>7. GuardInv'  BY <1>1, SameGuard DEF GuardInv, At
<1>8. GrantInv'  BY <1>1, <1>2, GrantStays DEF AskTyped
<1> QED BY <1>4, <1>5, <1>6, <1>7, <1>8

\* Where a step of t leaves it; no other call moves.
AskMoves(t, r) == task'[t] = r /\ \A u \in Tasks : u # t => task'[u] = task[u]

LEMMA AskStep ==
    ASSUME AskTyped, NEW t \in Tasks, NEW r, task' = [task EXCEPT ![t] = r],
           r \in AskRecords \/ r \in [op : {"relationship", "isMember"}, at : {"over"}]
    PROVE  task' = [u \in Tasks |-> task'[u]] /\ (\A u \in Tasks : AskTask(u)') /\ AskMoves(t, r)
<1>1. task' = [u \in Tasks |-> task'[u]] /\ AskMoves(t, r)
  <2>1. task' = [u \in Tasks |-> IF u = t THEN r ELSE task[u]]  BY DEF AskTyped
  <2> QED BY <2>1 DEF AskMoves
<1>2. AskTask(t)'  BY <1>1 DEF AskMoves, AskTask, AskRecords, Heard
<1>3. \A u \in Tasks : u # t => AskTask(u)'
    BY <1>1 DEF AskTyped, AskMoves, AskTask, AskRecords, Heard
<1> QED BY <1>1, <1>2, <1>3

LEMMA AskKeeps ==
    ASSUME QuestionInv, NEW t \in Tasks, NEW op \in {"relationship", "isMember"}, Ask(t, op)
    PROVE  QuestionInv'
<1> USE DEF QuestionInv
<1> DEFINE r == LookupOf(op)
           q == [op |-> op, at |-> "asked", list |-> Sent, blocked |-> IF op = "isMember" THEN "none" ELSE Sent]
<1>1. task[t] = New /\ task' = [task EXCEPT ![t] = q]  BY DEF Ask, Begins
<1>2. q \in AskRecords /\ q.at = "asked" /\ q.op = op /\ q.list = Sent /\ (op = "relationship" => q.blocked = Sent)
    BY DEF AskRecords, Heard, Says
<1>3. r \in Shared /\ (op = "relationship" => r = "contacts") /\ (op = "isMember" => r = "members")
    BY DEF LookupOf, Shared
<1>4. /\ config' = config /\ row' = row /\ granted' = granted
      /\ joined' = IF Waiting(r) = {} THEN joined ELSE joined \cup {t}
      /\ inflight' = [inflight EXCEPT ![r] = IF @ = Idle THEN Sent ELSE @]
      /\ barred' = [s \in Rows |-> IF Favours(s, row[s]) THEN barred[s] ELSE barred[s] \cup {t}]
    BY DEF Ask
<1>5. ~At(t, "asked") /\ t \notin granted
  <2>1. ~At(t, "asked") /\ task[t].at # "over"  BY <1>1 DEF At, New
  <2> QED BY <2>1 DEF GrantInv
<1> HIDE DEF q
<1>6. task' = [u \in Tasks |-> task'[u]] /\ (\A u \in Tasks : AskTask(u)') /\ AskMoves(t, q)
    BY <1>1, <1>2, AskStep
<1> HIDE DEF r
<1>7. AskTyped'
  <2>1. inflight' \in [Shared -> Says \cup {Idle, Sent, Unknown}]  BY <1>4 DEF AskTyped
  <2>2. joined' \subseteq Tasks /\ granted' \subseteq Tasks /\ barred' \in [Rows -> SUBSET Tasks] /\ row' \in [Rows -> Says]
      BY <1>4 DEF AskTyped
  <2> QED BY <1>6, <2>1, <2>2 DEF AskTyped
<1>8. /\ \A s \in Shared : s # r => inflight'[s] = inflight[s]
      /\ inflight'[r] = IF inflight[r] = Idle THEN Sent ELSE inflight[r]
      /\ inflight[r] \in Says \cup {Idle, Sent, Unknown}
    BY <1>3, <1>4 DEF AskTyped
<1>9. FlightInv'
  <2> SUFFICES ASSUME NEW s \in Shared, inflight'[s] # Idle PROVE \E u \in Tasks : Waits(u, s)'
      BY DEF FlightInv
  <2>1. CASE s = r
    <3>1. At(t, "asked")' /\ task'[t].op = op /\ task'[t].list = Sent
        BY <1>2, <1>6 DEF AskMoves, At
    <3> QED BY <2>1, <3>1 DEF Waits, r
  <2>2. CASE s # r
    <3>1. PICK u \in Tasks : Waits(u, s)  BY <1>8, <2>2 DEF FlightInv
    <3>2. u # t  BY <1>5, <3>1 DEF Waits
    <3> QED BY <1>6, <3>1, <3>2 DEF Waits, AskMoves, At
  <2> QED BY <2>1, <2>2
<1>10. ASSUME NEW u \in Tasks, NEW s \in Rows
       PROVE  /\ task'[u] = New => u # t /\ task[u] = New
              /\ u # t => (u \in barred'[s] <=> u \in barred[s])
              /\ u \in barred'[s] /\ u = t => ~Favours(s, row[s])
  <2>1. task'[u] = New => u # t /\ task[u] = New
    <3>1. q # New  BY <1>2 DEF New
    <3> QED BY <1>6, <3>1 DEF AskMoves
  <2>2. barred'[s] = IF Favours(s, row[s]) THEN barred[s] ELSE barred[s] \cup {t}  BY <1>4
  <2>3. t \notin barred[s]  BY <1>1 DEF BarInv
  <2> QED BY <2>1, <2>2, <2>3
<1>11. BarInv'
  <2>1. \A u \in Tasks, s \in Rows : task'[u] = New => u \notin barred'[s]  BY <1>10 DEF BarInv
  <2>2. \A u \in Tasks, s \in Rows : At(u, "asked")' /\ u \in barred'[s] => ~Favours(s, row'[s])
    <3> SUFFICES ASSUME NEW u \in Tasks, NEW s \in Rows, At(u, "asked")', u \in barred'[s] PROVE ~Favours(s, row[s])
        BY <1>4
    <3>1. CASE u # t
      <4>1. At(u, "asked") /\ u \in barred[s]  BY <1>6, <1>10, <3>1 DEF AskMoves, At
      <4> QED BY <4>1 DEF BarInv
    <3>2. CASE u = t  BY <1>10, <3>2
    <3> QED BY <3>1, <3>2
  <2>3. ASSUME NEW u \in Tasks, NEW s \in Shared, At(u, "asked")', LookupOf(task'[u].op) = s, u \in barred'[s] \ joined'
        PROVE  task'[u].list # "there" /\ (Waits(u, s)' => inflight'[s] # "there")
    <3>1. CASE u # t
      <4>1. At(u, "asked") /\ task'[u] = task[u] /\ u \in barred[s] \ joined
          BY <1>4, <1>6, <1>10, <2>3, <3>1, Words DEF AskMoves, At
      <4>2. task[u].list # "there" /\ (Waits(u, s) => inflight[s] # "there")
          BY <2>3, <4>1 DEF BarInv
      <4>3. Waits(u, s)' => Waits(u, s)  BY <4>1 DEF Waits, At
      <4> QED BY <1>8, <4>1, <4>2, <4>3, Words
    <3>2. CASE u = t
      <4>1. task'[u] = q /\ s = r /\ Waiting(r) = {}
          BY <1>2, <1>4, <1>6, <2>3, <3>2 DEF AskMoves, r
      <4>2. \A v \in Tasks : ~Waits(v, r)  BY <4>1, AskingAre DEF Waiting, Waits
      <4>3. inflight'[s] = Sent  BY <1>3, <1>8, <4>1, <4>2 DEF FlightInv
      <4> QED BY <1>2, <4>1, <4>3, Words
    <3> QED BY <3>1, <3>2
  <2>4. ASSUME NEW u \in Tasks, At(u, "asked")', task'[u].op = "relationship", u \in barred'["blocked"]
        PROVE  task'[u].blocked \in {Sent, Unknown, "blocked"}
    <3>1. CASE u # t
      <4>1. At(u, "asked") /\ task'[u] = task[u] /\ u \in barred["blocked"]
          BY <1>6, <1>10, <2>4, <3>1, Words DEF AskMoves, At
      <4> QED BY <2>4, <4>1 DEF BarInv
    <3>2. CASE u = t  BY <1>2, <1>6, <2>4, <3>2 DEF AskMoves
    <3> QED BY <3>1, <3>2
  <2> QED BY <2>1, <2>2, <2>3, <2>4 DEF BarInv
<1>12. GuardInv'
  <2> SUFFICES ASSUME Verifies
               PROVE  /\ inflight'["contacts"] \in {Idle, Sent, Unknown}
                      /\ \A u \in Tasks : At(u, "asked")' /\ task'[u].op = "relationship" => task'[u].list \in {Sent, Unknown}
      BY <1>4, SameGuard DEF GuardInv
  <2>1. inflight'["contacts"] \in {Idle, Sent, Unknown}  BY <1>8, Words DEF GuardInv
  <2>2. ASSUME NEW u \in Tasks, At(u, "asked")', task'[u].op = "relationship" PROVE task'[u].list \in {Sent, Unknown}
      BY <1>2, <1>6, <2>2 DEF AskMoves, GuardInv, At
  <2> QED BY <2>1, <2>2
<1>13. GrantInv'
  <2>1. \A u \in granted : u # t /\ task'[u] = task[u] /\ (u \in joined => u \in joined') /\ \A s \in Rows : u \in barred'[s] => u \in barred[s]
      BY <1>4, <1>5, <1>6, <1>10 DEF AskMoves, AskTyped
  <2> QED BY <1>4, <2>1, GrantStays DEF AskTyped
<1> QED BY <1>7, <1>9, <1>11, <1>12, <1>13

LEMMA HasBlockedKeeps ==
    ASSUME QuestionInv, NEW t \in Tasks, HasBlocked(t)
    PROVE  QuestionInv'
<1> USE DEF QuestionInv
<1>1. PICK says \in Answers("blocked") : task' = [task EXCEPT ![t].blocked = says]
    BY DEF HasBlocked
<1>2. At(t, "asked") /\ task[t] \in AskRecords  BY AskPlaces DEF HasBlocked
<1>3. says = Unknown \/ says = row["blocked"]  BY DEF Answers
<1> DEFINE r == [task[t] EXCEPT !.blocked = says]
<1>4. task' = [task EXCEPT ![t] = r]  BY <1>1
<1>5. r \in AskRecords /\ r.at = "asked" /\ r.op = task[t].op /\ r.list = task[t].list /\ r.blocked = says
    BY <1>2, <1>3, Words DEF AskTyped, AskRecords, Heard
<1> HIDE DEF r
<1>6. task' = [u \in Tasks |-> task'[u]] /\ (\A u \in Tasks : AskTask(u)') /\ AskMoves(t, r)
    BY <1>4, <1>5, AskStep
<1>7. config' = config /\ UNCHANGED <<row, inflight, joined, barred, granted>>
    BY DEF HasBlocked, serviceVars, askVars
<1>8. AskTyped'  BY <1>6, <1>7 DEF AskTyped
<1>9. \A u \in Tasks : /\ task'[u].op = task[u].op /\ task'[u].list = task[u].list /\ task'[u].at = task[u].at
                       /\ (task'[u] = New <=> task[u] = New)
    BY <1>2, <1>5, <1>6 DEF AskMoves, New, At
<1>10. FlightInv' /\ GuardInv'  BY <1>7, <1>9, SameGuard DEF FlightInv, GuardInv, Waits, At
<1>11. BarInv'
  <2>1. t \in barred["blocked"] => says \in {Unknown, "blocked"}
    <3>1. t \in barred["blocked"] => ~Favours("blocked", row["blocked"])  BY <1>2, Words DEF BarInv
    <3> QED BY <1>3, <3>1 DEF Favours
  <2>2. \A u \in Tasks : At(u, "asked")' /\ task'[u].op = "relationship" /\ u \in barred'["blocked"] =>
           task'[u].blocked \in {Sent, Unknown, "blocked"}
      BY <1>5, <1>6, <1>7, <1>9, <2>1 DEF BarInv, AskMoves, At
  <2> QED BY <1>7, <1>9, <2>2 DEF BarInv, Waits, At
<1>12. GrantInv'
  <2>1. t \notin granted  BY <1>2 DEF GrantInv, At
  <2> QED BY <1>6, <1>7, <2>1, GrantStays DEF AskTyped, AskMoves
<1> QED BY <1>8, <1>10, <1>11, <1>12

LEMMA FetchListKeeps ==
    ASSUME QuestionInv, NEW r \in Shared, FetchList(r)
    PROVE  QuestionInv'
<1> USE DEF QuestionInv
<1>1. PICK says \in Answers(r) : inflight' = [inflight EXCEPT ![r] = says]  BY DEF FetchList
<1>2. inflight[r] = Sent /\ task' = task /\ config' = config /\ UNCHANGED <<row, joined, barred, granted>>
    BY DEF FetchList, taskVars
<1>3. (says = Unknown \/ says = row[r]) /\ (says # Unknown => CanActivate(r))  BY DEF Answers
<1>4. r \in Rows /\ r # "blocked" /\ says \in Says \cup {Idle, Sent, Unknown}
    BY <1>3, Words DEF AskTyped
<1>5. inflight'[r] = says /\ \A s \in Shared : s # r => inflight'[s] = inflight[s]
    BY <1>1 DEF AskTyped
<1>6. AskTyped'  BY <1>1, <1>2, <1>4 DEF AskTyped, AskTask
<1>7. FlightInv'
  <2>1. \E t \in Tasks : Waits(t, r)  BY <1>2, Words DEF FlightInv
  <2> QED BY <1>2, <1>5, <2>1 DEF FlightInv, Waits, At
<1>8. BarInv'
  <2>1. ASSUME NEW t \in Tasks, At(t, "asked"), t \in barred[r] PROVE says # "there"
    <3>1. ~Favours(r, row[r])  BY <1>4, <2>1 DEF BarInv
    <3> QED BY <1>3, <1>4, <3>1, Words DEF Favours
  <2>2. ASSUME NEW t \in Tasks, NEW s \in Shared, At(t, "asked"), LookupOf(task[t].op) = s, t \in barred[s] \ joined
        PROVE  task[t].list # "there" /\ (Waits(t, s) => inflight'[s] # "there")
      BY <1>5, <2>1, <2>2 DEF BarInv
  <2> QED BY <1>2, <2>2 DEF BarInv, Waits, At
<1>9. GuardInv'
  <2>1. Verifies /\ r = "contacts" => says = Unknown  BY <1>3 DEF CanActivate, AllowInternal
  <2> QED BY <1>2, <1>5, <2>1, SameGuard, Words DEF GuardInv, At
<1>10. GrantInv'  BY <1>2, GrantStays DEF AskTyped
<1> QED BY <1>6, <1>7, <1>8, <1>9, <1>10

LEMMA ListArrivesKeeps ==
    ASSUME QuestionInv, NEW r \in Shared, ListArrives(r)
    PROVE  QuestionInv'
<1> USE DEF QuestionInv
<1> DEFINE says == inflight[r]
<1>1. /\ says \notin {Idle, Sent} /\ inflight' = [inflight EXCEPT ![r] = Idle]
      /\ config' = config /\ UNCHANGED <<row, joined, barred, granted>>
    BY DEF ListArrives, After
<1>2. \A t \in Tasks : t \in Waiting(r) <=> Waits(t, r)  BY AskingAre DEF Waiting, Waits
<1>3. says \in Heard  BY <1>1 DEF AskTyped, Heard
<1>4. task' = [t \in Tasks |-> IF Waits(t, r) THEN [task[t] EXCEPT !.list = says] ELSE task[t]]
    BY <1>2 DEF ListArrives
<1>5. ASSUME NEW t \in Tasks, Waits(t, r)
      PROVE  task'[t] \in AskRecords /\ task'[t].op = task[t].op /\ task'[t].list = says /\ task'[t].blocked = task[t].blocked
             /\ task'[t].at = "asked" /\ task[t] \in AskRecords
  <2>1. task[t] \in AskRecords  BY <1>5, AskPlaces DEF Waits
  <2>2. task'[t] = [task[t] EXCEPT !.list = says]  BY <1>4, <1>5
  <2> HIDE DEF says
  <2> QED BY <1>3, <1>5, <2>1, <2>2 DEF AskRecords, Waits, At
<1>6. \A t \in Tasks : ~Waits(t, r) => task'[t] = task[t]  BY <1>4
<1>7. AskTyped'
  <2>1. \A t \in Tasks : AskTask(t)'  BY <1>5, <1>6 DEF AskTyped, AskTask, AskRecords, Heard
  <2>2. task' = [t \in Tasks |-> task'[t]]  BY <1>4
  <2> QED BY <1>1, <2>1, <2>2 DEF AskTyped
<1>8. /\ inflight'[r] = Idle /\ \A s \in Shared : s # r => inflight'[s] = inflight[s]
      /\ \A t \in Tasks, s \in Shared : Waits(t, s)' <=> Waits(t, s) /\ s # r
  <2>1. inflight'[r] = Idle /\ \A s \in Shared : s # r => inflight'[s] = inflight[s]
      BY <1>1 DEF AskTyped
  <2>2. ASSUME NEW t \in Tasks, NEW s \in Shared PROVE Waits(t, s)' <=> Waits(t, s) /\ s # r
    <3>1. CASE Waits(t, r)  BY <1>1, <1>5, <3>1 DEF Waits, At
    <3>2. CASE ~Waits(t, r)  BY <1>6, <3>2 DEF Waits, At
    <3> QED BY <3>1, <3>2
  <2> QED BY <2>1, <2>2
<1>9. FlightInv'
  <2> SUFFICES ASSUME NEW s \in Shared, inflight'[s] # Idle PROVE \E u \in Tasks : Waits(u, s)'
      BY DEF FlightInv
  <2>1. s # r  BY <1>8
  <2>2. PICK u \in Tasks : Waits(u, s)  BY <1>8, <2>1 DEF FlightInv
  <2>3. Waits(u, s)'  BY <1>8, <2>1, <2>2
  <2> QED BY <2>3
<1>10. \A t \in Tasks : /\ task'[t].op = task[t].op /\ task'[t].at = task[t].at
                        /\ (task'[t] = New <=> task[t] = New)
                        /\ At(t, "asked") => task'[t].blocked = task[t].blocked
  <2> SUFFICES ASSUME NEW t \in Tasks
               PROVE  /\ task'[t].op = task[t].op /\ task'[t].at = task[t].at
                      /\ (task'[t] = New <=> task[t] = New)
                      /\ At(t, "asked") => task'[t].blocked = task[t].blocked
      OBVIOUS
  <2>1. CASE Waits(t, r)  BY <1>5, <2>1 DEF Waits, At, New
  <2>2. CASE ~Waits(t, r)  BY <1>6, <2>2
  <2> QED BY <2>1, <2>2
<1>11. BarInv'
  <2>1. ASSUME NEW t \in Tasks, NEW s \in Shared, At(t, "asked"), LookupOf(task[t].op) = s, t \in barred[s] \ joined
        PROVE  task'[t].list # "there" /\ (Waits(t, s)' => inflight'[s] # "there")
    <3>1. task[t].list # "there" /\ (Waits(t, s) => inflight[s] # "there")  BY <2>1 DEF BarInv
    <3>2. CASE Waits(t, r)  BY <1>5, <1>8, <2>1, <3>1, <3>2 DEF Waits
    <3>3. CASE ~Waits(t, r)  BY <1>6, <1>8, <2>1, <3>1, <3>3
    <3> QED BY <3>2, <3>3
  <2> QED BY <1>1, <1>10, <2>1 DEF BarInv, At
<1>12. GuardInv'
  <2> SUFFICES ASSUME Verifies
               PROVE  /\ inflight'["contacts"] \in {Idle, Sent, Unknown}
                      /\ \A u \in Tasks : At(u, "asked")' /\ task'[u].op = "relationship" => task'[u].list \in {Sent, Unknown}
      BY <1>1, SameGuard DEF GuardInv
  <2>1. inflight'["contacts"] \in {Idle, Sent, Unknown}  BY <1>8, Words DEF GuardInv
  <2>2. ASSUME NEW u \in Tasks, At(u, "asked")', task'[u].op = "relationship" PROVE task'[u].list \in {Sent, Unknown}
    <3>1. At(u, "asked") /\ task[u].op = "relationship"  BY <1>10, <2>2 DEF At
    <3>2. CASE Waits(u, r)
      <4>1. r = "contacts"  BY <3>1, <3>2 DEF Waits, LookupOf
      <4> QED BY <1>1, <1>5, <3>2, <4>1 DEF GuardInv
    <3>3. CASE ~Waits(u, r)  BY <1>6, <3>1, <3>3 DEF GuardInv
    <3> QED BY <3>2, <3>3
  <2> QED BY <2>1, <2>2
<1>13. GrantInv'
  <2>1. \A t \in granted : task'[t] = task[t]  BY <1>6 DEF GrantInv, Waits, At, AskTyped
  <2> QED BY <1>1, <2>1, GrantStays DEF AskTyped
<1> QED BY <1>7, <1>9, <1>11, <1>12, <1>13

LEMMA AnswerQuestionKeeps ==
    ASSUME QuestionInv, NEW t \in Tasks, AnswerQuestion(t)
    PROVE  QuestionInv'
<1> USE DEF QuestionInv
<1>1. At(t, "asked") /\ task[t] \in AskRecords /\ Sent \notin {task[t].list, task[t].blocked}
    BY AskPlaces DEF AnswerQuestion
<1> DEFINE r == [op |-> task[t].op, at |-> "over"]
<1>2. task' = [task EXCEPT ![t] = r]  BY DEF AnswerQuestion, Ends
<1>3. r \in [op : {"relationship", "isMember"}, at : {"over"}] /\ r.at = "over" /\ r.op = task[t].op
    BY <1>1 DEF AskRecords
<1> HIDE DEF r
<1>4. task' = [u \in Tasks |-> task'[u]] /\ (\A u \in Tasks : AskTask(u)') /\ AskMoves(t, r)
    BY <1>2, <1>3, AskStep
<1>5. /\ config' = config /\ UNCHANGED <<row, inflight>>
      /\ joined' \subseteq joined /\ joined \subseteq joined' \cup {t}
      /\ barred' \in [Rows -> SUBSET Tasks] /\ \A s \in Rows : barred'[s] \subseteq barred[s] /\ barred[s] \subseteq barred'[s] \cup {t}
      /\ granted' \subseteq granted \cup {t}
    BY DEF AnswerQuestion, AskTyped
<1>6. AskTyped'  BY <1>4, <1>5 DEF AskTyped
<1>7. /\ ~At(t, "asked")' /\ \A u \in Tasks : At(u, "asked")' => u # t /\ At(u, "asked") /\ task'[u] = task[u]
      /\ \A u \in Tasks : task'[u] = New => task[u] = New
      /\ \A u \in Tasks : At(u, "asked") /\ u # t => At(u, "asked")' /\ task'[u] = task[u]
  <2>1. r # New  BY <1>3 DEF New
  <2> QED BY <1>3, <1>4, <2>1 DEF AskMoves, At
<1>8. FlightInv'  BY <1>1, <1>5, <1>7 DEF FlightInv, Waits, At
<1>9. BarInv'
  <2>1. \A s \in Shared : s \in Rows  BY Words
  <2>2. ASSUME NEW u \in Tasks, NEW s \in Shared, At(u, "asked")', LookupOf(task'[u].op) = s, u \in barred'[s] \ joined'
        PROVE  task'[u].list # "there" /\ (Waits(u, s)' => inflight'[s] # "there")
    <3>1. At(u, "asked") /\ task'[u] = task[u] /\ u \in barred[s] \ joined
        BY <1>5, <1>7, <2>1, <2>2
    <3>2. task[u].list # "there" /\ (Waits(u, s) => inflight[s] # "there")  BY <2>2, <3>1 DEF BarInv
    <3> QED BY <1>5, <3>1, <3>2 DEF Waits, At
  <2>3. "blocked" \in Rows  BY Words
  <2>4. \A u \in Tasks, s \in Rows : task'[u] = New => u \notin barred'[s]  BY <1>5, <1>7 DEF BarInv
  <2>5. \A u \in Tasks, s \in Rows : At(u, "asked")' /\ u \in barred'[s] => ~Favours(s, row'[s])
      BY <1>5, <1>7 DEF BarInv
  <2>6. \A u \in Tasks : At(u, "asked")' /\ task'[u].op = "relationship" /\ u \in barred'["blocked"] =>
           task'[u].blocked \in {Sent, Unknown, "blocked"}
      BY <1>5, <1>7, <2>3 DEF BarInv
  <2> QED BY <2>2, <2>4, <2>5, <2>6 DEF BarInv
<1>10. GuardInv'  BY <1>5, <1>7, SameGuard DEF GuardInv
<1>11. GrantInv'
  <2>1. \A u \in granted : task'[u] = task[u] /\ u # t
      BY <1>1, <1>4 DEF GrantInv, AskMoves, At, AskTyped
  <2>2. CASE ~CanView(t)
    <3>1. granted' = granted  BY <2>2 DEF AnswerQuestion
    <3> QED BY <1>5, <2>1, <3>1, GrantStays DEF AskTyped
  <2>3. CASE CanView(t)
    <3>1. granted' = granted \cup {t} /\ UNCHANGED <<joined, barred>>  BY <2>3 DEF AnswerQuestion
    <3>2. task[t].list = "there" /\ task[t].blocked \notin {Sent, Unknown, "blocked"}
        BY <1>1, <2>3 DEF CanView
    <3>3. LookupOf(task[t].op) \in Shared  BY LookupsAre
    <3>4. t \in barred[LookupOf(task[t].op)] => t \in joined  BY <1>1, <3>2, <3>3 DEF BarInv
    <3>5. task[t].op = "relationship" => t \notin barred["blocked"] /\ ~Verifies
        BY <1>1, <3>2, Words DEF BarInv, GuardInv
    <3>6. task'[t].op = task[t].op /\ task'[t].at = "over"  BY <1>3, <1>4 DEF AskMoves
    <3>7. \A u \in granted' : task'[u].at = "over" /\ task'[u].op = task[u].op
        BY <2>1, <3>1, <3>6 DEF GrantInv
    <3>8. ASSUME NEW u \in granted'
          PROVE  /\ u \in barred[LookupOf(task[u].op)] => u \in joined
                 /\ task[u].op = "relationship" => u \notin barred["blocked"] /\ ~Verifies
        BY <3>1, <3>4, <3>5 DEF GrantInv, GrantsAreDue, GuardedDirectoryDenies
    <3>9. GrantsAreDue'  BY <3>1, <3>7, <3>8 DEF GrantsAreDue
    <3>10. GuardedDirectoryDenies'  BY <1>5, <3>7, <3>8, SameGuard DEF GuardedDirectoryDenies
    <3> QED BY <3>7, <3>9, <3>10 DEF GrantInv
  <2> QED BY <2>2, <2>3
<1> QED BY <1>6, <1>8, <1>9, <1>10, <1>11

LEMMA QuestionInvInit == ASSUME TasksInit, ServiceInit PROVE QuestionInv
<1>1. task = [t \in Tasks |-> New] /\ (\A t \in Tasks : task[t] = New /\ task[t].at = "new") /\ granted = {} /\ joined = {}
    BY DEF TasksInit, ServiceInit, New
<1>2. AskTyped  BY <1>1, Words DEF AskTyped, AskTask, ServiceInit
<1>3. inflight = [r \in Shared |-> Idle] /\ barred = [r \in Rows |-> {}]  BY DEF ServiceInit
<1>4. FlightInv /\ GuardInv /\ GrantInv
    BY <1>1, <1>3, Words DEF FlightInv, GuardInv, GrantInv, GrantsAreDue, GuardedDirectoryDenies, At
<1>5. BarInv  BY <1>1, <1>3, Words DEF BarInv, At
<1> QED BY <1>2, <1>4, <1>5 DEF QuestionInv

LEMMA QuestionInvNext == ASSUME QuestionInv, QuestionsNext PROVE QuestionInv'
<1>1. ASSUME AddContact \/ ChangeMembers \/ \E r \in {"contacts", "blocked"} : Block(r) \/ Unblock(r) PROVE QuestionInv'
    BY <1>1, SetKeeps, Words DEF AddContact, ChangeMembers, Block, Unblock
<1>2. ASSUME NEW t \in Tasks, Ask(t, "relationship") \/ Ask(t, "isMember") \/ HasBlocked(t) \/ AnswerQuestion(t) PROVE QuestionInv'
    BY <1>2, AskKeeps, HasBlockedKeeps, AnswerQuestionKeeps
<1>3. ASSUME NEW r \in Shared, FetchList(r) \/ ListArrives(r) PROVE QuestionInv'
    BY <1>3, FetchListKeeps, ListArrivesKeeps
<1> QED BY <1>1, <1>2, <1>3 DEF QuestionsNext

LEMMA QuestionInvStays == ASSUME QuestionInv, UNCHANGED <<taskVars, config, askVars>> PROVE QuestionInv'
<1>1. UNCHANGED <<task, config, row, inflight, joined, barred, granted>>  BY DEF taskVars, askVars
<1>2. GrantInv'  BY <1>1, GrantStays DEF QuestionInv, AskTyped
<1> QED BY <1>1, <1>2, SameGuard DEF QuestionInv, AskTyped, AskTask, FlightInv, BarInv, GuardInv, Waits, At

----------------------------------------------------------------------------
(* One part at a time                                                      *)

serveVars == <<taskVars, serviceVars>>

ServiceCallsInit == TasksInit /\ ServiceInit
ServiceSpec == ServiceCallsInit /\ ([][KeysNext]_serveVars \/ [][QuestionsNext]_serveVars)

LEMMA KeysLeaveQuestions == ASSUME KeysNext PROVE UNCHANGED <<config, askVars>>
<1>1. PICK t \in Tasks :
          \/ LoadPair(t) \/ ReadPrivate(t) \/ ReadPublic(t)
          \/ CreateKey(t) \/ WriteKey(t) \/ CreatePub(t) \/ WritePub(t) \/ ReadExisting(t)
          \/ LoadSecret(t) \/ CreateSecret(t) \/ WriteSecret(t) \/ ReadSecret(t)
          \/ FailBoot(t)
    BY DEF KeysNext
<1>2. CASE LoadPair(t) \/ LoadSecret(t) \/ FailBoot(t)
    BY <1>2 DEF LoadPair, LoadSecret, FailBoot, serviceVars
<1>3. CASE ReadPrivate(t) \/ ReadPublic(t) \/ ReadExisting(t) \/ ReadSecret(t)
    BY <1>3 DEF ReadPrivate, ReadPublic, ReadExisting, ReadSecret
<1>4. CASE CreateKey(t) \/ WriteKey(t) \/ CreatePub(t) \/ WritePub(t)
    BY <1>4 DEF CreateKey, WriteKey, CreatePub, WritePub
<1>5. CASE CreateSecret(t) \/ WriteSecret(t)  BY <1>5 DEF CreateSecret, WriteSecret
<1> QED BY <1>1, <1>2, <1>3, <1>4, <1>5

LEMMA QuestionsLeaveKeys == ASSUME QuestionsNext PROVE UNCHANGED <<config, keyVars>>
<1>1. CASE AddContact \/ ChangeMembers \/ \E r \in {"contacts", "blocked"} : Block(r) \/ Unblock(r)
    BY <1>1 DEF AddContact, ChangeMembers, Block, Unblock, Set
<1>2. CASE \E t \in Tasks : Ask(t, "relationship") \/ Ask(t, "isMember") \/ HasBlocked(t) \/ AnswerQuestion(t)
    BY <1>2 DEF Ask, HasBlocked, AnswerQuestion, serviceVars
<1>3. CASE \E r \in Shared : FetchList(r) \/ ListArrives(r)  BY <1>3 DEF FetchList, ListArrives
<1> QED BY <1>1, <1>2, <1>3 DEF QuestionsNext

AskAtRest  == row \in [Rows -> Says] /\ inflight \in [Shared -> Says \cup {Idle, Sent, Unknown}]
              /\ joined = {} /\ granted = {} /\ barred \in [Rows -> SUBSET Tasks]
BootAtRest == file \in [Files -> {NoFile} \cup [by : Tasks, whole : BOOLEAN]] /\ got = [t \in Tasks |-> [f \in Files |-> Unknown]]

LEMMA AskAtRestInit == ASSUME ServiceInit PROVE AskAtRest /\ BootAtRest /\ config \subseteq Settings
    BY DEF ServiceInit, AskAtRest, BootAtRest, Says

LEMMA AskAtRestHolds == ASSUME AskAtRest PROVE GrantsAreDue /\ GuardedDirectoryDenies
    BY DEF AskAtRest, GrantsAreDue, GuardedDirectoryDenies

LEMMA BootAtRestHolds ==
    ASSUME BootAtRest
    PROVE  /\ \A t \in Tasks : got[t] \in [Files -> Tasks \cup {Unknown, Empty}]
           /\ ProcessesAgree /\ HalvesMatch
<1>1. \A t \in Tasks, f \in Files : got[t][f] = Unknown  BY DEF BootAtRest
<1>2. \A t \in Tasks : got[t] \in [Files -> Tasks \cup {Unknown, Empty}]  BY DEF BootAtRest
<1>3. ProcessesAgree
  <2> SUFFICES ASSUME NEW f \in Files
               PROVE  Cardinality({got[t][f] : t \in Tasks} \ {Unknown, Empty}) <= 1
      BY DEF ProcessesAgree
  <2>1. {got[t][f] : t \in Tasks} \ {Unknown, Empty} = {}  BY <1>1
  <2> QED BY <2>1, FS_EmptySet
<1>4. HalvesMatch  BY <1>1 DEF HalvesMatch, Files, Unknown, Empty
<1> QED BY <1>2, <1>3, <1>4

LEMMA ServicesInParts ==
    ServiceSpec => [](/\ config \subseteq Settings
                      /\ \/ BootInv /\ AskAtRest
                         \/ QuestionInv /\ BootAtRest)
<1> DEFINE BootRuns == BootInv /\ AskAtRest /\ config \subseteq Settings
           AskRuns  == QuestionInv /\ BootAtRest /\ config \subseteq Settings
<1>1. ServiceCallsInit => BootRuns /\ AskRuns
    BY BootInvInit, QuestionInvInit, AskAtRestInit DEF ServiceCallsInit
<1>2. BootRuns /\ [KeysNext]_serveVars => BootRuns'
  <2> SUFFICES ASSUME BootRuns, [KeysNext]_serveVars PROVE BootRuns'  OBVIOUS
  <2>1. UNCHANGED <<config, askVars>>  BY KeysLeaveQuestions DEF serveVars, serviceVars
  <2>2. KeysNext \/ UNCHANGED <<taskVars, keyVars>>  BY DEF serveVars, serviceVars
  <2>3. BootInv'  BY <2>2, BootInvNext, BootInvStays
  <2> QED BY <2>1, <2>3 DEF AskAtRest, askVars
<1>3. AskRuns /\ [QuestionsNext]_serveVars => AskRuns'
  <2> SUFFICES ASSUME AskRuns, [QuestionsNext]_serveVars PROVE AskRuns'  OBVIOUS
  <2>1. UNCHANGED <<config, keyVars>>  BY QuestionsLeaveKeys DEF serveVars, serviceVars
  <2>2. QuestionsNext \/ UNCHANGED <<taskVars, config, askVars>>  BY DEF serveVars, serviceVars
  <2>3. QuestionInv'  BY <2>2, QuestionInvNext, QuestionInvStays
  <2> QED BY <2>1, <2>3 DEF BootAtRest, keyVars
<1>4. ServiceCallsInit /\ [][KeysNext]_serveVars => []BootRuns  BY <1>1, <1>2, PTL
<1>5. ServiceCallsInit /\ [][QuestionsNext]_serveVars => []AskRuns  BY <1>1, <1>3, PTL
<1>6. BootRuns \/ AskRuns => config \subseteq Settings /\ ((BootInv /\ AskAtRest) \/ (QuestionInv /\ BootAtRest))
    OBVIOUS
<1> QED BY <1>4, <1>5, <1>6, PTL DEF ServiceSpec

\* Files, what was taken from them, rows, lookups and grants keep their types whatever processes boot or
\* ask.  About loadOrCreateDevKeyPair, loadOrCreateDevInternalSecret and HttpSocialGraphResolver.
THEOREM ServicesTypeCorrect == ServiceSpec => []ServiceTypeOK
<1>1. config \subseteq Settings /\ ((BootInv /\ AskAtRest) \/ (QuestionInv /\ BootAtRest)) => ServiceTypeOK
  <2>1. BootInv => /\ file \in [Files -> {NoFile} \cup [by : Tasks, whole : BOOLEAN]]
                   /\ \A t \in Tasks : got[t] \in [Files -> Tasks \cup {Unknown, Empty}]
      BY DEF BootInv, BootTyped
  <2>2. QuestionInv => /\ row \in [Rows -> Says] /\ inflight \in [Shared -> Says \cup {Idle, Sent, Unknown}]
                  /\ joined \subseteq Tasks /\ granted \subseteq Tasks /\ barred \in [Rows -> SUBSET Tasks]
      BY DEF QuestionInv, AskTyped
  <2>3. BootAtRest => /\ file \in [Files -> {NoFile} \cup [by : Tasks, whole : BOOLEAN]]
                      /\ \A t \in Tasks : got[t] \in [Files -> Tasks \cup {Unknown, Empty}]
      BY BootAtRestHolds DEF BootAtRest
  <2>4. AskAtRest => /\ row \in [Rows -> Says] /\ inflight \in [Shared -> Says \cup {Idle, Sent, Unknown}]
                     /\ joined \subseteq Tasks /\ granted \subseteq Tasks /\ barred \in [Rows -> SUBSET Tasks]
      BY DEF AskAtRest
  <2> QED BY <2>1, <2>2, <2>3, <2>4 DEF ServiceTypeOK
<1> QED BY <1>1, ServicesInParts, PTL

\* For any processes and questions, in every setting of the environment: processes that boot at once never
\* hold different keys, secrets or halves, and a question is answered with yes only when it was due.  About
\* dev-keys.ts and auth-mode.ts, and the lookups of HttpSocialGraphResolver and HttpMembershipResolver.
THEOREM ServicesAgree == ServiceSpec => []ServicesHold
<1>1. config \subseteq Settings /\ ((BootInv /\ AskAtRest) \/ (QuestionInv /\ BootAtRest)) => ServicesHold
  <2>1. QuestionInv => GrantsAreDue /\ GuardedDirectoryDenies  BY DEF QuestionInv, GrantInv
  <2> QED BY <2>1, BootInvHolds, AskAtRestHolds, BootAtRestHolds DEF ServicesHold
<1> QED BY <1>1, ServicesInParts, PTL

============================================================================
