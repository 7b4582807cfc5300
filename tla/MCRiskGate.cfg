SPECIFICATION GateSpec
CONSTANTS
  Word = 4000000
  MaxPos = 2
  MaxQty = 2
  BandBps = 500
  Traders = {t1, t2}
  MaxTokens = 1
  Period = 1
  Prices <- MCPrices
  FeedPrices <- MCFeedPrices
  Qtys <- MCQtys
  MaxClock = 4
INVARIANT GateInv
INVARIANT PositionOvershoot
INVARIANT TokensOvershoot
INVARIANT RateOvershoot
SYMMETRY TraderSymmetry
