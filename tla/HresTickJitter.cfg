SPECIFICATION HresSpec
CONSTANTS
  Ticker = {c1, c2}
  Reader = {r1}
  Word = 14
  Byte = 4
  NANOSEC = 3
  max_hres_adj = 1
  MinInterval = 1
  Deltas = {}
  MaxClock = 3
INVARIANTS
  JitterAtWorst
