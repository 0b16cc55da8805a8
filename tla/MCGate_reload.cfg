SPECIFICATION Spec
CONSTANTS
  r1 = r1
  p = p
  l1 = l1
  l2 = l2
  Addrs <- MCAddrs
  Drops <- MCDrops
  Configs <- MCConfigs
  Packets <- MCPackets
INVARIANT ServicePortPasses
