CONSTANTS
  V4 <- OneHostV4
  V6 = {}
  Hosts <- OneHost
  NetOf <- OneHostNetOf
  Configs <- TimeConfigs
  DropMapSize = 2
  U32 = 8
  Ttls = {1, 3}
  Horizon = 5
  Faults = {"update", "commit", "metrics"}
  MaxFaults = 1
SPECIFICATION TSpec
INVARIANTS
  NoProtectedDrop
  KernelMirrorsList
PROPERTIES
  KeepsContract
  OnlyCalmDisarms
