SPECIFICATION MCSpec
CONSTANTS
  Proc = {p1, p2}
  Id = {n1, n2}
  Server = {s1}
  Limits = {0, 1}
  n1 = n1
  None = None
  MaxCalls = 2
  MaxRefusals = 1
  MaxTimeouts = 2
INVARIANTS IInv CallInv LastConfirmedStands
PROPERTIES ImplementsLockTable WaitsEnd CallsReturn
