SPECIFICATION IndexSpec
CONSTANTS
  Sources <- MCSources
  Externals <- MCExternals
  ExtSpan = 2
  NoId = NoId
  NoThread = NoThread
  Threads = {t1, t2}
  MaxSymbols = 3
INVARIANT IndexInv
INVARIANT NoMapRace
PROPERTY IdsNeverChange
PROPERTY SomeCallReturns
PROPERTY ImplementsTable
