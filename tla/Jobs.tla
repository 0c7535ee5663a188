---------------------------------- MODULE Jobs ----------------------------------
(***************************************************************************)
(* Durable jobs (JobWorker over AutomationRepository, nextRetry): reminders *)
(* and webhooks, which are one effect, and one workflow, each step of which *)
(* chains the next as a new job.  Ticks of several replicas overlap; those  *)
(* of one do not, which the tasks need not say.                             *)
(***************************************************************************)
EXTENDS Tasks, Sequences

CONSTANTS
    Steps,              \* of the workflow
    MaxJobAttempts,
    Batch,
    MaxJobs             \* bound on the jobs ever enqueued

ASSUME JobsAssumption == Steps \in Nat \ {0} /\ MaxJobAttempts \in Nat /\ Batch \in Nat \ {0} /\ MaxJobs \in Nat

VARIABLES
    enabled,    \* of the workflow
    jobs,       \* automation_jobs, in the order of their ids
    effects     \* effects[<<r, s>>]: how often step s of run r took effect

jobVars == <<enabled, jobs, effects>>

Ids     == DOMAIN jobs
Runs    == {jobs[i].run : i \in Ids}
Ticks   == {t \in Tasks : Under(t, "jobs")}
Held(t) == task[t].left
Stuck   == {i \in Ids : jobs[i].status = "running"} \ UNION {Held(t) : t \in Ticks}

JobTypeOK ==
    /\ enabled \in BOOLEAN
    /\ \A i \in Ids : jobs[i] \in [run : 1..MaxJobs, kind : {"single", "step"}, step : 1..Steps,
                                   status : {"pending", "running", "done", "dead"},
                                   attempts : 0..(MaxJobAttempts + 1)]
    /\ effects \in [(1..MaxJobs) \X (1..Steps) -> 0..MaxJobs]

JobInit ==
    /\ enabled \in BOOLEAN /\ jobs = <<>>
    /\ effects = [x \in (1..MaxJobs) \X (1..Steps) |-> 0]

\* run_at has passed: a job may be claimed as soon as it is there.
Enqueued(run, kind, step) ==
    Append(jobs, [run |-> run, kind |-> kind, step |-> step, status |-> "pending", attempts |-> 0])
EnqueueJob(run, kind, step) == Len(jobs) < MaxJobs /\ jobs' = Enqueued(run, kind, step)

\* The rejection of a command or of an effect that the tick sees.
Rejected == failures < MaxFailures /\ failures' = failures + 1

----------------------------------------------------------------------------
(* createReminder, triggerWorkflow, setEnabled                             *)

CreateReminder ==
    /\ EnqueueJob(Len(jobs) + 1, "single", 1)
    /\ UNCHANGED <<taskVars, enabled, effects>>

ReadWorkflow(t) ==
    /\ enabled
    /\ Begins(t, [op |-> "trigger", at |-> "enqueue"])
    /\ UNCHANGED <<failures, jobVars>>

EnqueueFirst(t) ==
    /\ At(t, "enqueue")
    /\ EnqueueJob(Len(jobs) + 1, "step", 1)
    /\ Ends(t)
    /\ UNCHANGED <<failures, enabled, effects>>

SetEnabled ==
    /\ enabled' = ~enabled
    /\ UNCHANGED <<taskVars, jobs, effects>>

----------------------------------------------------------------------------
(* tick: the claimed jobs one after the other, in any order                *)

DueJobs == {i \in Ids : jobs[i].status = "pending"}

\* Mutant: the rows stay pending.
SelectOnly(J) == jobs

MarkRunning(J) == [i \in Ids |-> IF i \in J THEN [jobs[i] EXCEPT !.status = "running"] ELSE jobs[i]]

\* All that are due, up to the batch; SKIP LOCKED makes it one step.
ClaimDueJobs(t) ==
    /\ \E J \in (SUBSET DueJobs) \ {{}} :
          /\ Cardinality(J) = Batch \/ (Cardinality(J) < Batch /\ J = DueJobs)
          /\ jobs' = MarkRunning(J)
          /\ Begins(t, [op |-> "jobs", left |-> J, at |-> "run"])
    /\ UNCHANGED <<failures, enabled, effects>>

Chains(i) == jobs[i].kind = "step" /\ jobs[i].step < Steps

Effect(i) == effects' = [effects EXCEPT ![<<jobs[i].run, jobs[i].step>>] = @ + 1]

\* The bus or the URL takes it; a delay has no effect, which counts as one here.
Execute(t) ==
    /\ At(t, "run")
    /\ \E i \in Held(t) :
          /\ Effect(i)
          /\ GoesWith(t, "job", i, IF Chains(i) THEN "chain" ELSE "done")
    /\ UNCHANGED <<failures, enabled, jobs>>

\* A URL or the bus refuses, which may happen to every attempt; one that only seems to fail has
\* had the call.
ExecuteFails(t) ==
    /\ At(t, "run")
    /\ \E i \in Held(t) :
          /\ \/ UNCHANGED <<failures, effects>>
             \/ Rejected /\ Effect(i)
          /\ GoesWith(t, "job", i, "retry")
    /\ UNCHANGED <<enabled, jobs>>

ScheduleNext(t) ==
    /\ At(t, "chain")
    /\ LET j == jobs[task[t].job] IN EnqueueJob(j.run, "step", j.step + 1)
    /\ Goes(t, "done")
    /\ UNCHANGED <<failures, enabled, effects>>

\* The job's last command, and the next of the batch.
WritesBack(t, row) ==
    LET i == task[t].job  left == task[t].left \ {i} IN
    /\ jobs' = [jobs EXCEPT ![i] = row]
    /\ IF left = {} THEN Ends(t) ELSE task' = [task EXCEPT ![t] = [op |-> "jobs", left |-> left, at |-> "run"]]
    /\ UNCHANGED <<failures, enabled, effects>>

MarkJobDone(t) ==
    At(t, "done") /\ WritesBack(t, [jobs[task[t].job] EXCEPT !.status = "done"])

\* scheduleNext or markJobDone rejects: the effect has been.
CommandFails(t) ==
    /\ At(t, "chain") \/ At(t, "done")
    /\ Rejected
    /\ Goes(t, "retry")
    /\ UNCHANGED <<enabled, jobs, effects>>

\* nextRetry
IsDead(job) == job.attempts >= MaxJobAttempts

MarkJobRetryOrDead(t) ==
    /\ At(t, "retry")
    /\ LET j == jobs[task[t].job] IN
       WritesBack(t, [j EXCEPT !.status = IF IsDead(j) THEN "dead" ELSE "pending", !.attempts = @ + 1])

\* markJobRetryOrDead rejects, which ends the tick, or the process dies: what it holds stays running.
FailJob(t) ==
    /\ Fails(t)
    /\ UNCHANGED <<enabled, jobs, effects>>

\* The routes of AutomationController that jobs and workflows depend on.
JobRequests == CreateReminder \/ SetEnabled \/ \E t \in Tasks : ReadWorkflow(t)

JobNext ==
    \/ JobRequests
    \/ \E t \in Tasks :
          \/ EnqueueFirst(t)
          \/ ClaimDueJobs(t) \/ Execute(t) \/ ExecuteFails(t) \/ ScheduleNext(t) \/ MarkJobDone(t)
          \/ CommandFails(t) \/ MarkJobRetryOrDead(t) \/ FailJob(t)

----------------------------------------------------------------------------
(* Properties                                                              *)

\* Each fault repeats a step of a run at most once more, also when it lets a step chain the next
\* twice: without faults every step takes effect at most once, whatever ticks overlap.  About the
\* claim ("so replicas don't double-run", automation.repository.ts:126), scheduleNext and
\* markJobDone.
RepeatsAreFaults ==
    \A x \in DOMAIN effects : effects[x] <= 1 + failures

\* A run is never dropped between two steps: unless a job of it is dead, or its tick died and left
\* it running, then with no job of it pending or held every one of its steps took effect.  About
\* run, which chains the next step before it marks the job done.
NoStepDropped ==
    \A r \in Runs :
       (\A i \in Ids : jobs[i].run = r => jobs[i].status = "done")
          => \A s \in 1..(IF \E i \in Ids : jobs[i].run = r /\ jobs[i].kind = "step" THEN Steps ELSE 1) :
                effects[<<r, s>>] > 0

\* A job stays running with nobody at it only after a fault, and one fault strands at most one batch.
\* About claimDueJobs and the rows nothing returns to pending.
StrandedOnlyByFaults == Cardinality(Stuck) <= Batch * failures

\* Every step of a run, once, whatever replicas and faults there are.
RunsAreWhole ==
    /\ RepeatsAreFaults
    /\ NoStepDropped
    /\ StrandedOnlyByFaults
=============================================================================
