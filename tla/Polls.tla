---------------------------------- MODULE Polls ----------------------------------
(***************************************************************************)
(* One poll: votes, tally, cache and close (PollsService over               *)
(* PollsRepository, PollsCache and isPollClosed).  createPoll inserts a     *)
(* poll that nobody knows of before, so the poll is there from the start.   *)
(***************************************************************************)
EXTENDS Tasks

CONSTANTS Voters, Options, NoTally

ASSUME PollsAssumption == IsFiniteSet(Options)

VARIABLES
    multi,      \* several options may be chosen
    closed,     \* closes_at has passed
    votes,      \* poll_votes: <<voter, option>>
    cache,      \* the tally, or NoTally
    shown,      \* the tally of the last poll.updated, or NoTally
    late,       \* tasks that had read the poll as open when it closed
    atOnce,   \* voters with two votes under way at once
    disorder    \* a tally was taken while a vote was at work, or kept after one died

pollVars == <<multi, closed, votes, cache, shown, late, atOnce, disorder>>

Ballots == Voters \X Options
Of(u)   == {b \in votes : b[1] = u}

PollTypeOK ==
    /\ {multi, closed, disorder} \subseteq BOOLEAN
    /\ votes \in SUBSET Ballots
    /\ {cache, shown} \subseteq (SUBSET Ballots) \cup {NoTally}
    /\ late \in SUBSET Tasks /\ atOnce \in SUBSET Voters

PollInit ==
    /\ multi \in BOOLEAN /\ closed = FALSE
    /\ votes = {} /\ cache = NoTally /\ shown = NoTally
    /\ late = {} /\ atOnce = {} /\ disorder = FALSE

Voting == {t \in Tasks : Under(t, "vote")}
Others(t) == {u \in Voting \ {t} : ~At(u, "publish")}

----------------------------------------------------------------------------
(* vote                                                                    *)

\* getPoll, and the checks on the choice.
ReadPoll(t) ==
    /\ ~closed
    /\ \E u \in Voters, C \in (SUBSET Options) \ {{}} :
          /\ multi \/ Cardinality(C) = 1
          /\ Begins(t, [op |-> "vote", by |-> u, left |-> C, at |-> IF multi THEN "add" ELSE "clear"])
          /\ atOnce' = IF \E w \in Voting : task[w].by = u THEN atOnce \cup {u} ELSE atOnce
    /\ UNCHANGED <<failures, multi, closed, votes, cache, shown, late, disorder>>

Cleared(u) == Of(u)

ClearUserVotes(t) ==
    /\ At(t, "clear")
    /\ votes' = votes \ Cleared(task[t].by)
    /\ Goes(t, "add")
    /\ UNCHANGED <<failures, multi, closed, cache, shown, late, atOnce, disorder>>

AddVote(t) ==
    /\ At(t, "add")
    /\ \E o \in task[t].left :
          /\ votes' = votes \cup {<<task[t].by, o>>}
          /\ task' = [task EXCEPT ![t].left = @ \ {o}, ![t].at = IF task[t].left = {o} THEN "tally" ELSE "add"]
    /\ UNCHANGED <<failures, multi, closed, cache, shown, late, atOnce, disorder>>

Tally(t) ==
    /\ At(t, "tally")
    /\ GoesWith(t, "tally", votes, "cache")
    /\ disorder' = (disorder \/ Others(t) # {})
    /\ UNCHANGED <<failures, multi, closed, votes, cache, shown, late, atOnce>>

Overwrite(tally) == tally

SetCache(t) ==
    /\ At(t, "cache") /\ task[t].op = "vote"
    /\ cache' = Overwrite(task[t].tally)
    /\ disorder' = (disorder \/ Others(t) # {})
    /\ Goes(t, "publish")
    /\ UNCHANGED <<failures, multi, closed, votes, shown, late, atOnce>>

Publish(t) ==
    /\ At(t, "publish")
    /\ shown' = task[t].tally
    /\ disorder' = (disorder \/ Voting # {t})
    /\ Ends(t)
    /\ UNCHANGED <<failures, multi, closed, votes, cache, late, atOnce>>

----------------------------------------------------------------------------
(* getResults and close                                                    *)

GetResults(t) ==
    /\ Begins(t, [op |-> "results", at |-> IF cache = NoTally THEN "count" ELSE "over"])
    /\ UNCHANGED <<failures, pollVars>>

CountResults(t) ==
    /\ At(t, "count")
    /\ GoesWith(t, "tally", votes, "cache")
    /\ UNCHANGED <<failures, pollVars>>

\* It may write an older tally over a newer one.
CacheResults(t) ==
    /\ At(t, "cache") /\ task[t].op = "results"
    /\ cache' = task[t].tally
    /\ disorder' = (disorder \/ task[t].tally # votes \/ Voting # {})
    /\ Ends(t)
    /\ UNCHANGED <<failures, multi, closed, votes, shown, late, atOnce>>

\* close() by hand or the time set by createPoll; the results are then read as above.
Close ==
    /\ ~closed /\ closed' = TRUE
    /\ late' = Voting
    /\ UNCHANGED <<taskVars, multi, votes, cache, shown, atOnce, disorder>>

CacheLapses ==
    /\ cache # NoTally /\ cache' = NoTally
    /\ UNCHANGED <<taskVars, multi, closed, votes, shown, late, atOnce, disorder>>

FailPoll(t) ==
    /\ Fails(t)
    /\ disorder' = (disorder \/ t \in Voting)
    /\ UNCHANGED <<multi, closed, votes, cache, shown, late, atOnce>>

\* The routes of PollsController for a poll that is there.
PollRequests(t) == ReadPoll(t) \/ GetResults(t)

PollNext ==
    \/ Close \/ CacheLapses
    \/ \E t \in Tasks :
          \/ PollRequests(t)
          \/ ClearUserVotes(t) \/ AddVote(t) \/ Tally(t) \/ SetCache(t) \/ Publish(t)
          \/ CountResults(t) \/ CacheResults(t) \/ FailPoll(t)

----------------------------------------------------------------------------
(* Properties                                                              *)

\* In a single-choice poll a voter has two votes only if two calls of that voter were under way
\* at once.  About vote, which clears the voter's votes and adds the new one in two calls.
OneChoiceEach ==
    \A u \in Voters : ~multi /\ Cardinality(Of(u)) > 1 => u \in atOnce

\* When no vote is at work, the cached tally and the last one announced are the tally of the
\* votes, unless tallies of overlapping calls were written out of order or a vote died on its
\* way.  About the cache, which is "overwritten on each vote" (polls.cache.ts:8).
TallyIsCurrent ==
    Voting = {} /\ ~disorder => cache \in {votes, NoTally} /\ (votes = {} \/ shown = votes)

\* The votes, and every tally of them that is shown.
PollCounts ==
    /\ OneChoiceEach
    /\ TallyIsCurrent
=============================================================================
