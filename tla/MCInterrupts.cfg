SPECIFICATION MCSpec
CONSTANTS
  HwLevels = {5, 10, 14}
  SoftLevels = {1, 4, 9}
  SplLevels = {0, 4, 6, 10, 13}
  LOCK_LEVEL = 10
  DISP_LEVEL = 11
  Ticker = {c1, c2}
  Reader = {r1}
  Word = 14
  Byte = 4
  NANOSEC = 3
  max_hres_adj = 1
  MinInterval = 1
  Deltas <- Adjustments
  MaxClock = 3
SYMMETRY Tickers
INVARIANTS
  LevelIsRight
  SoftintsServed
  ClocksTrack
  NoTornRead
PROPERTY
  ClampedAdjustment
