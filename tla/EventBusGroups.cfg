CONSTANTS
  p1 = p1
  p2 = p2
  fanout = fanout
  notify = notify
  Groups = {fanout, notify}
  Processes = {p1, p2}
  GroupOf <- Services
  Malformed = {}
  BatchSize = 1
  MaxAttempts = 2
  MaxEvents = 1
  MaxFaults = 0
SPECIFICATION Spec
INVARIANT GroupHandledWhatIsGone
CHECK_DEADLOCK FALSE
