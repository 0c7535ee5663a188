------------------------------- MODULE MCServices -------------------------------
(***************************************************************************)
(* The services beside messaging, which share no row and no key: each       *)
(* behaviour runs one of them with two or three calls or worker runs,        *)
(* one of which may fail.                                                   *)
(***************************************************************************)
EXTENDS Services, FlagEvaluation, Collab, Deployment, Buses

CONSTANTS t1, t2, t3, u1, u2, o1, o2, c1, c2, f1, f2, g1, g2

VARIABLE part

Parts == {"polls", "receipts", "resend", "acks", "jobs", "campaigns", "evaluation",
          "calls", "presence",
          "extras", "lists", "canvases", "deployment", "buses"}

MCTasks     == {t1, t2, t3}
MCUsers     == {u1, u2}
MCOptions   == {o1, o2}
MCCampaigns == {c1, c2}
MCKeys      == {f1, f2}
MCGroups    == <<g1, g2>>

\* Every store is given, or the mono has no Mongo.
MCConfigs == {Stores, Stores \ {"mongo"}}

\* No definition tells two calls apart.
Symmetry == Permutations(MCTasks)

\* A part that does not run has one initial state.
MCInit ==
    /\ part \in Parts
    /\ TasksInit
    /\ PollInit /\ ReceiptInit /\ ResendInit /\ AckInit /\ JobInit /\ CampInit
    /\ CallInit /\ PresenceInit /\ CollabInit /\ DepInit /\ BusInit
    /\ IF part = "evaluation"
       THEN EvalInit
       ELSE /\ own = [k \in Keys |-> "on"] /\ deps = [k \in Keys |-> {}]
            /\ memo = [k \in Keys |-> Unset] /\ stack = <<>>
    /\ IF part = "deployment"
       THEN given = Stores \/ profile = "mono"
       ELSE profile = "identity" /\ bus = "kafka" /\ given = Stores /\ exists = {}
    /\ part = "buses" \/ way = "kafka"
    /\ part = "calls" \/ keys
    /\ part = "polls" \/ ~multi
    /\ part = "jobs" \/ ~enabled
    /\ part = "campaigns" \/ \A c \in Campaigns : campaigns[c].mode = "once"

Rest(p) ==
    /\ part = p /\ UNCHANGED part
    /\ IF p = "polls" THEN TRUE ELSE UNCHANGED pollVars
    /\ IF p = "receipts" THEN TRUE ELSE UNCHANGED receiptVars
    /\ IF p = "resend" THEN TRUE ELSE UNCHANGED resendVars
    /\ IF p = "acks" THEN TRUE ELSE UNCHANGED ackVars
    /\ IF p = "jobs" THEN TRUE ELSE UNCHANGED jobVars
    /\ IF p = "campaigns" THEN TRUE ELSE UNCHANGED campVars
    /\ IF p = "evaluation" THEN TRUE ELSE UNCHANGED evalVars
    /\ IF p = "calls" THEN TRUE ELSE UNCHANGED callVars
    /\ IF p = "presence" THEN TRUE ELSE UNCHANGED presenceVars
    /\ IF p \in {"extras", "lists", "canvases"} THEN TRUE ELSE UNCHANGED collabVars
    /\ IF p = "deployment" THEN TRUE ELSE UNCHANGED depVars
    /\ IF p = "buses" THEN TRUE ELSE UNCHANGED busVars

\* Bounds on the calls, where three of any kind make more states than they show.
Calling(S) == Cardinality({t \in Tasks : task'[t] # New /\ (task'[t] = Failed \/ task'[t].op \in S)})
TwoTicks   == Calling({"runDue"}) <= 2
OnlyFirst  == task' = task => campaigns'[c2] = campaigns[c2]    \* the calls control one campaign
TwoVotes   == Calling({"vote", "results"}) <= 2
TwoAnswers == Calling({"answer"}) <= 2 /\ Cardinality(pushed') <= 2 /\ Cardinality(sending') <= 1
OneExcuse  == ~(silent' /\ interleaved')             \* either excuses what is fanned out from then on

\* The stores settle in one order: nothing tells two orders apart.
InOrder == \A i, j \in DOMAIN Order :
              i < j /\ "pipeline" \notin {Order[i], Order[j]} /\ Order[j] \in waited \ waited' => Order[i] \notin waited'

RunPolls         == part = "polls" /\ PollNext /\ Rest("polls") /\ TwoVotes
RunReceipts      == part = "receipts" /\ ReceiptNext /\ Rest("receipts")
RunResend        == part = "resend" /\ ResendNext /\ Rest("resend")
RunAcks          == part = "acks" /\ AckNext /\ Rest("acks") /\ TwoAnswers
RunJobs          == part = "jobs" /\ JobNext /\ Rest("jobs")
RunCampaigns     == part = "campaigns" /\ CampNext /\ Rest("campaigns") /\ TwoTicks /\ OnlyFirst
RunEvaluation    == part = "evaluation" /\ EvalNext /\ Rest("evaluation") /\ UNCHANGED taskVars
RunCalls         == part = "calls" /\ CallNext /\ Rest("calls")
RunPresence      == part = "presence" /\ PresenceNext /\ Rest("presence") /\ OneExcuse
RunExtras        == part = "extras" /\ ExtrasNext /\ Rest("extras")
RunLists         == part = "lists" /\ ListsNext /\ Rest("lists")
RunCanvases      == part = "canvases" /\ CanvasNext /\ Rest("canvases")
RunDeployment    == part = "deployment" /\ DepNext /\ Rest("deployment") /\ InOrder
RunBuses         == part = "buses" /\ BusNext /\ Rest("buses")

MCNext ==
    \/ RunPolls \/ RunReceipts \/ RunResend \/ RunAcks \/ RunJobs \/ RunCampaigns
    \/ RunEvaluation \/ RunCalls \/ RunPresence
    \/ RunExtras \/ RunLists \/ RunCanvases \/ RunDeployment \/ RunBuses

MCSpec ==
    MCInit /\ [][MCNext]_<<part, taskVars, pollVars, receiptVars, resendVars, ackVars, jobVars, campVars,
                           evalVars, callVars, presenceVars, collabVars, depVars, busVars>>

\* Every part's variables keep their types.
Typed ==
    /\ PollTypeOK /\ ReceiptTypeOK /\ ResendTypeOK /\ AckTypeOK /\ JobTypeOK /\ CampTypeOK
    /\ EvalTypeOK /\ CallTypeOK /\ PresenceTypeOK
    /\ CollabTypeOK /\ DepTypeOK /\ BusTypeOK
=============================================================================
