CONSTANTS
  t1 = t1
  t2 = t2
  t3 = t3
  u1 = u1
  u2 = u2
  o1 = o1
  o2 = o2
  c1 = c1
  c2 = c2
  f1 = f1
  f2 = f2
  Tasks <- MCTasks
  MaxFailures = 1
  Voters <- MCUsers
  Options <- MCOptions
  NoTally = noTally
  MaxSeq = 2
  MaxResendAttempts = 1
  Steps = 2
  MaxJobAttempts = 1
  Batch = 2
  MaxJobs = 3
  Campaigns <- MCCampaigns
  Recipients = {r1}
  Nothing = nothing
  Keys <- MCKeys
  Unset = unset
  Callers <- MCUsers
  MaxRequests = 2
  UserDevices = {d1, d2}
  Configs <- MCConfigs
  g1 = g1
  g2 = g2
  BusGroups <- MCGroups
  MaxPublished = 2
SPECIFICATION MCSpec
SYMMETRY Symmetry
INVARIANTS
  Typed
  DeliveryHolds
  SchedulesHold
  MemoIsMeaning
  LiveHolds
  CollabHolds
  DeploymentHolds
  BusesHold
\* Every call ends; the system then stands still.
CHECK_DEADLOCK FALSE
