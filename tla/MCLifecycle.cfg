SPECIFICATION Spec
CONSTANTS
  Daemons = {d1, d2}
  Stops = {s1}
  None = None
  MaxKills = 1
INVARIANTS TypeOK ReleasedBeforeUnlock StopSignalsHolder
PROPERTIES RestartTakesOver StopIsHeeded
CHECK_DEADLOCK FALSE
