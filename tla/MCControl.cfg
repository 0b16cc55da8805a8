SPECIFICATION Spec
CONSTANTS
  Addrs = {a}
  Timers = {t}
  Others = {x}
  Nobody = Nobody
  ToolOps = {"drop", "disarm", "long"}
  IdlePoll = 2
  SockTimeout = 1
  ClientTimeout = 1
  ReqMax = 3
  Window = 2
  Ttl = 1
  MaxTimers = 1
  MaxFaults = 1
INVARIANTS TypeOK TickIsOnTime WholeCommandRuns
PROPERTIES AnswerIsTruthful EveryRequestEnds OffenderIsBanned
