CONSTANTS
    c1 = c1
    c2 = c2
    c3 = c3
    sender = sender
    reader = reader
    Calls <- MCCalls
    Users <- MCUsers
    Sender = sender
    Original = original
    Empty = empty
    None = none
    MaxFaults = 1
SPECIFICATION Spec
SYMMETRY MCSymmetry
INVARIANTS
  VersionsAreKept
  OnlyReadableTextIsIndexed
  IndexTrailsOnlyDisorder
CHECK_DEADLOCK FALSE
