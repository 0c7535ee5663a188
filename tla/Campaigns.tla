-------------------------------- MODULE Campaigns --------------------------------
(***************************************************************************)
(* Mail campaigns (CampaignService and CampaignWorker over                  *)
(* CampaignRepository): the calls that control a campaign, one statement    *)
(* each, against the ticks that claim it, mail its recipients one by one    *)
(* and write it back.  The log of the sends, which nothing reads, is left   *)
(* out.                                                                     *)
(***************************************************************************)
EXTENDS Tasks

CONSTANTS Campaigns, Recipients

VARIABLES
    campaigns,  \* mail_campaigns: mode, status, next (next_run_at is set), occurrences
    rounds,     \* how often a run of it was recorded
    stopped,    \* canceled, and not resumed or paused since
    asked,      \* to be sent now, and not claimed, paused or canceled since
    crossed,    \* controlled, or claimed again, while a run of it was at work
    revived     \* resumed with no next run

campVars == <<campaigns, rounds, stopped, asked, crossed, revived>>

AtWork  == UNION {task[t].left : t \in {u \in Tasks : Under(u, "runDue")}}
IsAt(t) == task[t].c

CampTypeOK ==
    /\ campaigns \in [Campaigns -> [mode : {"once", "recurring"}, status : {"active", "paused", "canceled", "completed"},
                                    next : BOOLEAN, occurrences : 0..Cardinality(Tasks)]]
    /\ rounds \in [Campaigns -> 0..Cardinality(Tasks)]
    /\ \A S \in {stopped, asked, crossed, revived} : S \in SUBSET Campaigns

\* createCampaign: the first run is due at once or later.
CampInit ==
    /\ \E m \in [Campaigns -> {"once", "recurring"}] :
          campaigns = [c \in Campaigns |-> [mode |-> m[c], status |-> "active", next |-> TRUE, occurrences |-> 0]]
    /\ rounds = [c \in Campaigns |-> 0]
    /\ stopped = {} /\ asked = {} /\ crossed = {} /\ revived = {}

----------------------------------------------------------------------------
(* pause, resume, cancel, sendNow                                          *)

Crossing(c) == crossed' = IF c \in AtWork THEN crossed \cup {c} ELSE crossed

SetStatus(c, status) == campaigns' = [campaigns EXCEPT ![c].status = status]

Pause(c) ==
    /\ SetStatus(c, "paused") /\ Crossing(c)
    /\ stopped' = stopped \ {c} /\ asked' = asked \ {c}
    /\ UNCHANGED <<taskVars, rounds, revived>>

Resume(c) ==
    /\ SetStatus(c, "active") /\ Crossing(c)
    /\ stopped' = stopped \ {c}
    /\ revived' = IF campaigns[c].next THEN revived ELSE revived \cup {c}
    /\ UNCHANGED <<taskVars, rounds, asked>>

Cancel(c) ==
    /\ SetStatus(c, "canceled") /\ Crossing(c)
    /\ stopped' = stopped \cup {c} /\ asked' = asked \ {c}
    /\ UNCHANGED <<taskVars, rounds, revived>>

Triggers(c) == campaigns[c].status # "canceled"

Triggered(row) == [row EXCEPT !.status = "active", !.next = TRUE]

SendNow(c) ==
    /\ Triggers(c)
    /\ campaigns' = [campaigns EXCEPT ![c] = Triggered(@)]
    /\ Crossing(c)
    /\ asked' = asked \cup {c}
    /\ revived' = revived \ {c}
    /\ UNCHANGED <<taskVars, rounds, stopped>>

----------------------------------------------------------------------------
(* runDue: the claimed campaigns, one after the other                      *)

Due == {c \in Campaigns : campaigns[c].status = "active" /\ campaigns[c].next}

\* The row as it was claimed is what the run goes by.
ClaimDue(t) ==
    /\ \E D \in (SUBSET Due) \ {{}}, c \in Campaigns :
          /\ c \in D
          /\ Begins(t, [op |-> "runDue", left |-> D, c |-> c, to |-> Recipients, at |-> "mail",
                        row |-> [d \in D |-> campaigns[d]]])
          /\ campaigns' = [d \in Campaigns |-> IF d \in D THEN [campaigns[d] EXCEPT !.next = FALSE] ELSE campaigns[d]]
          /\ asked' = asked \ D
          /\ crossed' = crossed \cup (D \cap AtWork)
    /\ UNCHANGED <<failures, rounds, stopped, revived>>

\* A mail that is refused is logged and the loop goes on.
Mail(t) ==
    /\ At(t, "mail")
    /\ \E r \in task[t].to :
          task' = [task EXCEPT ![t].to = @ \ {r}, ![t].at = IF task[t].to = {r} THEN "record" ELSE "mail"]
    /\ UNCHANGED <<failures, campVars>>

Counted(row) == row.occurrences + 1

\* The claimed row has its columns' names, so the limit and the end date that isCampaignComplete
\* is given are undefined, and a rule always has a next date: only a single run completes.
Completes(row) == row.mode = "once"

StatusAfter(done) == IF done THEN "completed" ELSE "active"

\* Written over whatever the row has become meanwhile.
RecordRun(t) ==
    /\ At(t, "record")
    /\ LET c == IsAt(t)  row == task[t].row[c]  left == task[t].left \ {c} IN
       /\ campaigns' = [campaigns EXCEPT ![c].occurrences = Counted(row), ![c].next = ~Completes(row),
                                         ![c].status = StatusAfter(Completes(row))]
       /\ rounds' = [rounds EXCEPT ![c] = @ + 1]
       /\ revived' = revived \ {c}
       /\ IF left = {}
          THEN Ends(t)
          ELSE \E d \in left : task' = [task EXCEPT ![t].left = left, ![t].c = d, ![t].to = Recipients, ![t].at = "mail"]
    /\ UNCHANGED <<failures, stopped, asked, crossed>>

\* A write to the log or the row rejects, which ends the tick, or the process dies.
FailRun(t) == Fails(t) /\ UNCHANGED campVars

\* The routes of CampaignController for a campaign that is there.
CampRequests == \E c \in Campaigns : Pause(c) \/ Resume(c) \/ Cancel(c) \/ SendNow(c)

CampNext ==
    \/ CampRequests
    \/ \E t \in Tasks : ClaimDue(t) \/ Mail(t) \/ RecordRun(t) \/ FailRun(t)

----------------------------------------------------------------------------
(* Properties                                                              *)

\* A canceled campaign is active again, without a resume or a pause, only if a run of it was at
\* work when it was canceled or another claimed it.  About cancel, triggerNow, which refuses a
\* canceled row, and recordRun, which writes the status whatever it has become.
CanceledStaysCanceled ==
    \A c \in stopped : campaigns[c].status = "canceled" \/ c \in crossed

\* "Campaign queued to send now" holds until a tick takes it: only a run that was at work meanwhile
\* may take the request back by what it records.  About triggerNow and recordRun.
AskedIsQueued ==
    \A c \in asked : c \in Due \/ c \in crossed

\* An active campaign that no tick holds has a next run, unless it was resumed without one or a
\* tick failed.  About recordRun, the only command that gives a claimed campaign its next run.
ActiveIsScheduled ==
    \A c \in Campaigns \ (AtWork \cup revived) :
       campaigns[c].status = "active" /\ ~campaigns[c].next => failures > 0

\* occurrences counts the recorded runs unless two of them
\* overlapped.  About runOne, which adds one to the count it claimed.
OccurrencesAreRuns ==
    \A c \in Campaigns \ crossed : campaigns[c].occurrences = rounds[c]

\* A campaign runs when it was told to, and only then.
CampaignsObey ==
    /\ CanceledStaysCanceled
    /\ AskedIsQueued
    /\ ActiveIsScheduled
    /\ OccurrencesAreRuns
=============================================================================
