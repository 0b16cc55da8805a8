SPECIFICATION BSpec
CONSTANTS
  Addrs = {a, b}
  Timers = {t}
  Others = {}
  Nobody = Nobody
  ToolOps = {}
  IdlePoll = 2
  SockTimeout = 1
  ClientTimeout = 1
  ReqMax = 3
  Window = 1
  Ttl = 1
  MaxTimers = 1
  MaxFaults = 0
INVARIANT TrueMeansQueued
