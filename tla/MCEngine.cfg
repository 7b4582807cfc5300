SPECIFICATION EngineSpec
CONSTANTS
  Frames <- MCFrames
  VolWord = 8
  VolLimits <- MCVolLimits
  MaxSymbols = 2
  NoSlot = NoSlot
  AuditSlots = 1
  SignalSlots = 1
  MaxTokens = 1
  MaxFrames = 4
  Word = 4000000
  MaxPos = 10
  MaxQty = 2
  BandBps = 500
INVARIANT EngineInv
INVARIANT PairsMatch
INVARIANT SlotHoldsSymbol
