CONSTANTS
  Rows = {k1, k2}
  Devices = {d1, d2}
  Workers = {w1}
  BatchSize = 2
  MaxAttempts = 2
  MaxTokens = 2
  MaxFaults = 1
SPECIFICATION FairSpec
INVARIANTS
  RowsTellTheTruth
PROPERTIES
  SettledAndWorkingKept
  EventuallySettled
\* Once every row is settled nothing is left to do.
CHECK_DEADLOCK FALSE
