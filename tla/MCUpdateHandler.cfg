CONSTANTS
  k1 = k1  k2 = k2  r1 = r1  r2 = r2
  name = name
  Key <- MCKey
  Rec <- MCRec
  Name <- MCName
  KeyName <- SameName
  Covers <- SameCovers
  Requests <- MCRequests
  NoKey = NoKey  NoTimer = NoTimer  Spent = Spent
  Slot = {s1, s2}
  LeaseTime = 1
  KeyLeaseTime = 2
  AllowOnline = TRUE
  Provisioned = {k1}
  MaxTime = 3
  MaxEvents = 3
SPECIFICATION FairSpec
INVARIANTS HandlerInv StoreMatchesDNS
PROPERTIES StoreFollowsUpstream KeyKeepsParent Progress
CHECK_DEADLOCK FALSE
