------------------------------ MODULE MCSkdmRelay ------------------------------
(***************************************************************************)
(* The realtime pods.  One behaviour runs the relay of two keys, with two   *)
(* sockets of the device and two pods, where the device was away when the   *)
(* first key was distributed; or the live delivery of two messages with two *)
(* sockets one after the other; or two frames of a socket.  Sockets and     *)
(* pods of the relay are alike, so the first to be used are given the names *)
(* they have here.                                                         *)
(***************************************************************************)
EXTENDS SkdmRelay, Fabric

CONSTANTS k1, k2, s1, s2, pod1, pod2, t1, t2

VARIABLE part

MCKeys  == {k1, k2}
MCConns == {s1, s2}
MCPods  == {pod1, pod2}
MCTasks == {t1, t2}

MCInit ==
    /\ part \in {"relay", "delivery", "frames"}
    /\ InitWith(IF part = "relay" THEN <<k1>> ELSE <<>>)
    /\ TasksInit /\ FabricInit

RunRelay    == part = "relay" /\ Next /\ UNCHANGED <<part, taskVars, fabricVars>>
RunDelivery == part = "delivery" /\ DeliveryNext /\ UNCHANGED <<part, vars>>
RunFrames   == part = "frames" /\ FramesNext(s1) /\ UNCHANGED <<part, vars>>

MCSpec == MCInit /\ [][RunRelay \/ RunDelivery \/ RunFrames]_<<part, vars, taskVars, fabricVars>>

NamedInOrder ==
    /\ conn[s2] # "none" => conn[s1] # "none"
    /\ podOf[s1] # pod2
    /\ sock[s2] # "none" => sock[s1] # "none"

=============================================================================
