--------------------------------- MODULE Tasks ---------------------------------
(***************************************************************************)
(* Handler calls and worker runs that meet in shared stores.  A task does   *)
(* one command of a store per step and keeps its locals in task[t]; between *)
(* two steps anything else may happen.  A task that fails, because a        *)
(* command rejects or its process dies, leaves behind what it has done.     *)
(*                                                                         *)
(* The modules that extend this one share task and failures, and name their *)
(* own state and definitions apart, so that one run can check several of    *)
(* them.                                                                    *)
(***************************************************************************)
EXTENDS Naturals, FiniteSets, TLC

CONSTANTS Tasks,        \* each runs at most once
          MaxFailures   \* bound on the tasks that fail in one behaviour

VARIABLES
    task,       \* the operation, the next command (at) and the locals of each
    failures

taskVars == <<task, failures>>

New    == [at |-> "new"]
Failed == [at |-> "failed"]

TasksInit ==
    /\ task = [t \in Tasks |-> New]
    /\ failures = 0

At(t, p)      == task[t].at = p
Under(t, op)  == task[t].at \notin {"new", "over", "failed"} /\ task[t].op = op
Over(t, op)   == task[t].at = "over" /\ task[t].op = op

\* rec holds the operation, its inputs, what its first read returned, and the next command.
Begins(t, rec) ==
    /\ task[t] = New
    /\ task' = [task EXCEPT ![t] = rec]

Goes(t, next) == task' = [task EXCEPT ![t].at = next]

\* It keeps v under the name f.
With(r, f, v, next) == [x \in DOMAIN r \cup {f} |-> IF x = f THEN v ELSE IF x = "at" THEN next ELSE r[x]]

GoesWith(t, f, v, next) == task' = [task EXCEPT ![t] = With(task[t], f, v, next)]

\* The answer; the locals are gone.
Ends(t) == task' = [task EXCEPT ![t] = [op |-> @.op, at |-> "over"]]

\* A command rejects, or the process dies.
Fails(t) ==
    /\ task[t].at \notin {"new", "over", "failed"}
    /\ failures < MaxFailures
    /\ failures' = failures + 1
    /\ task' = [task EXCEPT ![t] = Failed]
=============================================================================
