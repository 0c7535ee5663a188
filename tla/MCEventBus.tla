------------------------------ MODULE MCEventBus ------------------------------
(* Small instances of EventBus.                                             *)
EXTENDS EventBus, TLC

CONSTANTS p1, p2, fanout, notify

\* One process reads for its group, in two threads.
OneReader == p1 :> fanout
\* Two services read the topic, each in a group of its own.
Services == p1 :> fanout @@ p2 :> notify
=============================================================================
