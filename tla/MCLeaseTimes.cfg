CONSTANTS
  Duration = {0, 1, 2, 3}
  Absent = Absent
  Refused = Refused
  Owner = {n1}
  Slot = {s1, s2}
  Runs = {r1, r2}
  Pass = pass
  None = None
  Spent = Spent
  MaxRetry = 3
  Horizon = 3
  MaxFailures = 3
  MaxTime = 5
  MaxRequests = 3
  MaxFaults = 3
  MaxRestarts = 1
SPECIFICATION LeaseTimesSpec
INVARIANTS PolicyInv TimerInv
PROPERTIES RefreshKeepsGrant EventsEnd
CHECK_DEADLOCK FALSE
