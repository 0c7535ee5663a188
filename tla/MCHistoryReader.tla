--------------------------- MODULE MCHistoryReader ---------------------------
(* Three sends and the device that reads the history; r1 and r2 are two tries *)
(* of one client message.                                                    *)
EXTENDS HistoryReader, TLC

CONSTANTS r1, r2, r3, hello, world

MCMsgOf == r1 :> hello @@ r2 :> hello @@ r3 :> world

DeviceWaits == cursor = 0 /\ pushed = OldDocs

\* Either the three sends run with one fault and the device waits, or r1 and r3 run with two
\* faults and the device reads beside them.
Bounded == pc[r2] = "start" \/ (DeviceWaits /\ TotalFaults <= 1)
=============================================================================
