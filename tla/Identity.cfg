CONSTANTS
  t1 = t1
  t2 = t2
  t3 = t3
  p1 = p1
  p2 = p2
  d1 = d1
  d2 = d2
  Tasks <- MCTasks
  MaxFailures = 1
  First = first
  NoNonce = noNonce
  Phones <- MCPhones
  Emails = {e}
  Elder = elder
  Nobody = nobody
  NoCode = noCode
  MaxVerifyAttempts = 1
  MaxSends = 1
  Factors <- MCFactors
  NoRequest = noRequest
  Earlier = earlier
  NoChallenge = noChallenge
  DeviceIds <- MCDeviceIds
  NoHolder = noHolder
  u1 = u1
  u2 = u2
  Owners <- MCUsers
  Registrants = {a1, a2}
  Unlisted = unlisted
  MaxVersion = 2
  Users <- MCUsers
  Policies = {days30, days90}
  NoRole = noRole
  Nothing = nothing
  Media = {m1, m2}
  ByHash = byHash
  NoKey = noKey
  NoUpload = noUpload
  Posts = {s1, s2}
  NoPolicy = noPolicy
SPECIFICATION MCSpec
SYMMETRY Symmetry
INVARIANTS
  Typed
  SessionsEnd
  ProofsHold
  OtpLimits
  RecoveryHolds
  DeviceListIsTheLog
  DirectoryHolds
  ServicesHold
  ChangesAreKept
  ContentHolds
\* Every call ends; the system then stands still.
CHECK_DEADLOCK FALSE
