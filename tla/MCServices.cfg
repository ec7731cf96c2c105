SPECIFICATION Spec
CONSTANTS
  CopyCounts = {0, 3, 16, 32}
  XCOPY_MIN_SIZE = 32
  CounterMod = 16
  curthread = 4096
  MaxFrame = 3
  OtProt = {"access"}
  StubThread = {s1, s2, s3}
  Unloadable = {u}
  Permanent = {p}
  PanicCPU = {c1, c2, c3}
  MaxPanics = 2
  WordValues = 3
  MaxTsc = 10
  LsThread = {t1, t2}
  PatchPoints <- MCPatchPoints
  BufferLen = 2
  Daemon = {d1, d2}
  MaxSuspends = 2
  Putter = {q1, q2}
  Excl = {x1, x2}
  sq_nciputctrl = 1
  SQ_FASTPUT = 4
  NoOwner = NoOwner
  IreThread = {t1, t2}
  Ire = {e1, e2}
  RefThread = {t1, t2, t3}
  MaxRefs = 2
  LockThread = {t1, t2, t3}
  Ill = {1, 2, 5}
  Mates = {3, 4}
  Plain = {7, 8}
  HighBit = 8
  CoreTokens <- MCCoreTokens
  EndBufs = {4, 60}
  MaxPattern = 5
  RichPattern = 3
  MaxClass = 2
  MaxString = 3
  Ranges <- MCRanges
  NBRA = 2
  WordBits = 4
  BlockWords = 2
  HalfValues = {0, 3}
  Partials = {0, 1, 15}
  MaxHalves = 9
  WordBytes = 3
  MemSize = 8
INVARIANTS
  ProtectionKept
  FaultsAreCaught
  ResultIsTrue
  TrapStackIsLive
  NoCallIntoUnloaded
  OnePanicStack
  ChargedAtMostRan
  ProbesFollowConsumers
  StoppedWhileSuspended
  PerimeterIsExclusive
  NoSkippedWakeup
  BucketIsSound
  FreedOnceUnused
  NoCircularWait
  
  ComputesReference
PROPERTY
  StoppedDaemonRuns
