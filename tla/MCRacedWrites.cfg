CONSTANTS
  Run = {r1, r2}
  Type = {t1}
  Browse = {b}
  Registering = {r}
  Advertise = FALSE
  MaxEvents = 3
  k1 = k1  k2 = k2  k3 = k3
  n1 = n1  n2 = n2
  Key = {k1, k2, k3}
  Rec = {d1, d2}
  Name = {n1, n2}
  KeyName <- MCKeyName
  NoKey = NoKey
  Duration = {1}
  MaxClock = 1
  Parts = {"enumeration"}
SPECIFICATION EnumerationSpec
PROPERTY RacedWritesHeal
