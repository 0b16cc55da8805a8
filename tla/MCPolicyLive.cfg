CONSTANTS
  V4 <- MCV4
  V6 <- MCV6
  Hosts <- MCHosts
  NetOf <- MCNetOf
  Configs <- MCConfigs
  DropMapSize = 2
  U32 = 8
  Ttls = {1}
  Horizon = 5
  LastEvent = 1
  Faults = {"update", "delete", "flush", "commit", "metrics"}
  MaxFaults = 2
SPECIFICATION LSpec
INVARIANTS
  TypeOK
  DropsAreEnforced
  ArmedIffActive
  PoolIsAccountedFor
  PoolOutlastsMaps
PROPERTIES
  OnlyDisarmOrphans
  CalmClears
