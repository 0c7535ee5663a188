CONSTANTS
  p1 = p1
  p2 = p2
  fanout = fanout
  notify = notify
  Groups = {fanout}
  Processes = {p1}
  GroupOf <- OneReader
  Malformed = {2}
  BatchSize = 2
  MaxAttempts = 2
  MaxEvents = 3
  MaxFaults = 1
SPECIFICATION FairSpec
INVARIANTS
  GroupHandledWhatIsGone
  HandledOnceInOrder
PROPERTIES
  EventuallySettled
\* A bounded stream that is fully settled has nothing left to do.
CHECK_DEADLOCK FALSE
