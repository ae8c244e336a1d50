CONSTANTS
  Run = {r1, r2}
  Type = {t1, t2}
  Browse = {b}
  Registering = {r}
  Advertise = TRUE
  MaxEvents = 4
  k1 = k1  k2 = k2  k3 = k3
  n1 = n1  n2 = n2
  Key = {k1, k2, k3}
  Rec = {d1, d2}
  Name = {n1, n2}
  KeyName <- MCKeyName
  NoKey = NoKey
  Duration = {1}
  MaxClock = 1
  Parts = {"store", "enumeration"}
SPECIFICATION EnumerationSpec
INVARIANTS IInv SnapshotFaithful WalksAgree
PROPERTIES NoOrphans OthersKeepTheirs SelfHeals
