SPECIFICATION MCSpec
CONSTANTS
    k1 = k1
    k2 = k2
    s1 = s1
    s2 = s2
    pod1 = pod1
    pod2 = pod2
    NoPod = NoPod
    Keys <- MCKeys
    Conns <- MCConns
    Pods <- MCPods
    MaxPerDevice = 2
    MaxFaults = 1
    t1 = t1
    t2 = t2
    Tasks <- MCTasks
    Sockets <- MCConns
    Fanout = Fanout
    MaxSaid = 2
    MaxFailures = 1
    Limit = 2
CONSTRAINT NamedInOrder
INVARIANTS
  OpenSocketGetsTheKey
  QueuedUntilReplayed
  RelayLeavesNoTrace
  LiveDeliveryHolds
  FramesHold
\* Both sockets may be gone and both keys handled, or all messages delivered.
CHECK_DEADLOCK FALSE
