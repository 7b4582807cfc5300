SPECIFICATION ShadowSpec
CONSTANTS
  Size = 4
  MaxRecords = 7
  Values <- MCValues
  NoValue = 0
  DropMod = 8
  FileRecords = 4
  ChunkRecords = 2
INVARIANT RingInv
INVARIANT NoSlotRace
INVARIANT ShadowInv
INVARIANT FlushAligned
INVARIANT StoppedIsSettled
INVARIANT OneStraggler
PROPERTY ImplementsChannel
PROPERTY AuditReachesFile
PROPERTY StopEnds
