------------------------------ MODULE FlagEvaluation ------------------------------
(***************************************************************************)
(* The evaluation of a set of flags for one user (evaluateSet of            *)
(* feature-flags.service.ts with evaluate of evaluation.engine.ts): the     *)
(* recursion of evalKey over the dependencies, unrolled into the stack of   *)
(* the calls it has under way, with its memo and its cycle guard.  What a   *)
(* flag decides without its dependencies is one of four words.              *)
(***************************************************************************)
EXTENDS Naturals, Sequences

CONSTANTS Keys, Unset

ASSUME UnsetAssumption == Unset \notin BOOLEAN

VARIABLES
    own,    \* "missing"; "killed" before its dependencies are asked; "held" or "on" after
    deps,   \* flag.dependencies; the order in which they are asked is any
    memo,   \* results, or Unset
    stack   \* the calls of evalKey under way, the outermost first: key and dependencies left to ask

evalVars == <<own, deps, memo, stack>>

Known == {k \in Keys : own[k] # "missing"}

EvalTypeOK ==
    /\ own \in [Keys -> {"missing", "killed", "held", "on"}]
    /\ deps \in [Keys -> SUBSET Keys]
    /\ memo \in [Keys -> BOOLEAN \cup {Unset}]
    /\ stack \in Seq([key : Keys, left : SUBSET Keys])

EvalInit ==
    /\ own \in [Keys -> {"missing", "killed", "held", "on"}]
    /\ deps \in [Keys -> SUBSET Keys]
    /\ memo = [k \in Keys |-> Unset]
    /\ stack = <<>>

Depth == Len(stack)
Top   == stack[Depth]
Below == SubSeq(stack, 1, Depth - 1)
OnStack(k) == \E i \in 1..Depth : stack[i].key = k

\* maintenance and the kill switch are decided first, then the dependencies, then the rest.
Call(k) == [key |-> k, left |-> IF own[k] = "killed" THEN {} ELSE deps[k]]

Evaluate(k) == stack' = Append(stack, Call(k)) /\ UNCHANGED <<own, deps, memo>>

\* The loop over the flags of the bundle.
EvalFlag(k) ==
    /\ stack = <<>> /\ k \in Known /\ memo[k] = Unset
    /\ Evaluate(k)

\* A dependency that is not known yet is evaluated first.
AskDep(k) ==
    /\ Depth > 0 /\ k \in Top.left
    /\ memo[k] = Unset /\ k \in Known /\ ~OnStack(k)
    /\ Evaluate(k)

\* Mutant: a flag under way counts as on.
UnderWayIsOn(k) == memo[k] = TRUE \/ OnStack(k)

IsOn(k) == memo[k] = TRUE

DepIsOn(k) ==
    /\ Depth > 0 /\ k \in Top.left
    /\ IsOn(k)
    /\ stack' = Append(Below, [Top EXCEPT !.left = @ \ {k}])
    /\ UNCHANGED <<own, deps, memo>>

\* Known to be off, not a flag, or under way: a cycle is treated as off.
IsOff(k) == memo[k] = FALSE \/ (memo[k] = Unset /\ (k \notin Known \/ OnStack(k)))

Return(on) ==
    /\ memo' = [memo EXCEPT ![Top.key] = on]
    /\ stack' = Below
    /\ UNCHANGED <<own, deps>>

DepIsOff(k) ==
    /\ Depth > 0 /\ k \in Top.left
    /\ IsOff(k)
    /\ Return(FALSE)

Decide ==
    /\ Depth > 0 /\ Top.left = {}
    /\ Return(own[Top.key] = "on")

EvalNext ==
    \/ Decide
    \/ \E k \in Keys : EvalFlag(k) \/ AskDep(k) \/ DepIsOn(k) \/ DepIsOff(k)

EvalSpec == EvalInit /\ [][EvalNext]_evalVars

----------------------------------------------------------------------------
(* What the flags mean, whatever the order of evaluation                   *)

\* S holds every flag that is on by itself and whose dependencies S holds.
Closed(S) == \A k \in Keys : own[k] = "on" /\ deps[k] \subseteq S => k \in S

\* The least such set: a flag is on when that follows from its own rules and its dependencies
\* without going round a cycle.
Meaning == {k \in Keys : \A S \in SUBSET Keys : Closed(S) => k \in S}

\* Every result is what the flags mean, so it depends neither on the order in which the flags and
\* their dependencies are evaluated nor on what was memoized while a cycle was being cut.  About
\* the memo and the cycle guard of evaluateSet.
MemoIsMeaning ==
    \A k \in Keys : memo[k] # Unset => (memo[k] = (k \in Meaning))
=============================================================================
