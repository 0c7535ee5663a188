-------------------------------- MODULE Services --------------------------------
(***************************************************************************)
(* What the services beside messaging promise, and their behaviours.  They  *)
(* share no row and no key, so a behaviour is one of one service, in any    *)
(* mix of its calls, worker runs and failures, while the others rest.       *)
(***************************************************************************)
EXTENDS Polls, Receipts, Jobs, Campaigns, Calls, Presence

\* What a client is told of a message: the poll's count, the highest receipt, and a resend within its
\* limit, and whose receipt a device's is (polls.service.ts:44, receipts.repository.ts:69,
\* resend.service.ts:26, notification.service.ts:47).
DeliveryHolds == PollCounts /\ WatermarkIsTheHighest /\ ResendHolds /\ AnswersAreTheRecipients

deliveryVars == <<taskVars, pollVars, receiptVars, resendVars, ackVars>>

DeliverySpec ==
    /\ TasksInit /\ PollInit /\ ReceiptInit /\ ResendInit /\ AckInit
    /\ \/ [][PollNext /\ UNCHANGED <<receiptVars, resendVars, ackVars>>]_deliveryVars
       \/ [][ReceiptNext /\ UNCHANGED <<pollVars, resendVars, ackVars>>]_deliveryVars
       \/ [][ResendNext /\ UNCHANGED <<pollVars, receiptVars, ackVars>>]_deliveryVars
       \/ [][AckNext /\ UNCHANGED <<pollVars, receiptVars, resendVars>>]_deliveryVars

\* What runs by the clock: jobs and workflows, and campaigns (job.worker.ts:45, campaign.service.ts:123).
SchedulesHold == RunsAreWhole /\ CampaignsObey

scheduleVars == <<taskVars, jobVars, campVars>>

ScheduleSpec ==
    /\ TasksInit /\ JobInit /\ CampInit
    /\ \/ [][JobNext /\ UNCHANGED campVars]_scheduleVars
       \/ [][CampNext /\ UNCHANGED jobVars]_scheduleVars

\* Who is there: in a call, in control of its screen, and online (calls.service.ts:108,
\* screen-control.service.ts:17, presence.service.ts:122).
LiveHolds == CallsHold /\ FannedIsCurrent /\ LastSeenIsTheEnd

liveVars == <<taskVars, callVars, presenceVars>>

LiveSpec ==
    /\ TasksInit /\ CallInit /\ PresenceInit
    /\ \/ [][CallNext /\ UNCHANGED presenceVars]_liveVars
       \/ [][PresenceNext /\ UNCHANGED callVars]_liveVars
=============================================================================
