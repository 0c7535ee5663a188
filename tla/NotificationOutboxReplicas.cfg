CONSTANTS
  Rows = {k1}
  Devices = {d1, d2}
  Workers = {w1, w2}
  BatchSize = 2
  MaxAttempts = 2
  MaxTokens = 2
  MaxFaults = 0
SPECIFICATION Spec
INVARIANT NoDoubleSend
CHECK_DEADLOCK FALSE
