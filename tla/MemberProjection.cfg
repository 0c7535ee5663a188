CONSTANTS
    u1 = u1
    u2 = u2
    u3 = u3
    c1 = c1
    c2 = c2
    fanout = fanout
    notification = notification
    indexer = indexer
    Users <- MCUsers
    Peers <- MCPeers
    Calls <- MCCalls
    Groups <- MCGroups
    Keepers <- MCKeepers
    MaxMembers = 2
    MaxFaults = 1
    MaxEvictions = 1
    MaxFills = 1
SPECIFICATION Spec
SYMMETRY Symmetry
CONSTRAINT Bounded
INVARIANTS
    OwnerlessOnlyByRace
    OverfullOnlyByRace
    RemovedLoseTheKey
    EventsReachTheSet
\* Every call ends and every event is handled; the system then stands still.
CHECK_DEADLOCK FALSE
