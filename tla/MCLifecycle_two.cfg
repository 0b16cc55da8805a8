SPECIFICATION Spec
CONSTANTS
  Daemons = {d1, d2, d3}
  Stops = {}
  None = None
  MaxKills = 0
INVARIANT OneDaemon
CHECK_DEADLOCK FALSE
