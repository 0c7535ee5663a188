CONSTANTS
  r1 = r1
  r2 = r2
  r3 = r3
  hello = hello
  world = world
  Requests = {r1, r2, r3}
  MsgOf <- MCMsgOf
  MaxAttempts = 2
  History = 2
  MaxFaults = 1
  PageLimit = 2
SPECIFICATION ReaderSpec
CONSTRAINT Bounded
INVARIANT NoReset
CHECK_DEADLOCK FALSE
