SPECIFICATION ArenaSpec
CONSTANTS
  MaxLives = 3
  MaxTogether = 2
  Clients = {c1}
  Tickers = 2
INVARIANT SharedInv
INVARIANT NoGhosts
CHECK_DEADLOCK FALSE
