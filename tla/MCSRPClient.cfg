CONSTANTS
  Client = {c1, c2}
  Taken = {1}
  RequestedLease = 17
  Grants = {14, 17}
  KeyLease = 18
  MaxRenames = 1
  MinBackoff = 1
  MaxBackoff = 3
  InitialDelay = 0
  Timeout = 1
  NoOption = NoOption
  Nobody = Nobody
  MaxSuffix = 3
  MaxEvents = 2
SPECIFICATION FairSpec
INVARIANTS ClientInv
PROPERTIES KeptAlive Recovers
