CONSTANTS
  Files <- MCFiles
  Nics <- MCNics
  Overrides = {0, 3}
  U64Max = 15
  U32Max = 7
  IntMax = 3
  PortMax = 3
  MaxPorts = 2
  MaxCidrs = 2
  Defaults <- MCDefaults
  MaxVlans = 1
  MaxExt = 2
  DhcpServer = 2
  DhcpClient = 3
  NdiscRs = 2
  NdiscLast = 3
  ByteBits = 2
  MaxBits = 4
  LenDigits = 2
  FrameSet <- MCFrames
  DigitSet <- MCDigits
  Bytes <- MCBytes
  MaxTtl = 31
  U32 = 512

SPECIFICATION MCSpec

INVARIANTS
  TypeOK
  ConfigMeansFile
  StartupFieldsStay
  DropListHolds
  ExemptPass
  PrefixMeansSet
  NumbersAreExact
