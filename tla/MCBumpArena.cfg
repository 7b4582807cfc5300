SPECIFICATION BumpSpec
CONSTANTS
  Threads = {t1, t2, t3}
  Capacity = 192
  Word = 512
  SizeOf = 8
  Counts = {5, 16, 60, 65}
  MaxClaims = 3
  MaxEpoch = 1
SYMMETRY MCSymmetry
INVARIANT BlocksSound
