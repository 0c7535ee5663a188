CONSTANTS
  r1 = r1
  r2 = r2
  r3 = r3
  hello = hello
  world = world
  Requests = {r1, r2, r3}
  MsgOf <- MCMsgOf
  MaxAttempts = 2
  History = 2
  MaxFaults = 2
  PageLimit = 2
SPECIFICATION ReaderSpec
CONSTRAINT Bounded
INVARIANTS
  NoCollisionWhileIntact
  UnemittedOnlyAfterFault
  OnlyOvertakenAreMissed
PROPERTY LogRefined
\* The calls of an instance are finite: when all are answered nothing is left.
CHECK_DEADLOCK FALSE
