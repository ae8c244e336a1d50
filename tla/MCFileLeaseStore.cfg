SPECIFICATION Spec
CONSTANTS
  Item = {i1, i2}
  None = None
  Torn = Torn
  tick = tick
  stop = stop
  Ticker = tick
  Stopper = stop
  Saver <- MCSaver
  MaxTime = 2
  MaxCrashes = 1
  MaxErrors = 1
SYMMETRY ItemSymmetry
INVARIANTS NeverTorn CleanShutdownKeepsLeases
PROPERTIES LossBounded
CHECK_DEADLOCK FALSE
