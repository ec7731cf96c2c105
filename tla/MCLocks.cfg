SPECIFICATION MCSpec
CONSTANTS
  Thread = {t1, t2, t3}
  NoThread = NoThread
  NCPU = 2
  ResumeDrains = TRUE
  c1 = c1
  c2 = c2
  CPU <- Processors
  new_pil = 11
  IntrLevels = {6, 11}
  OtherLevel = 13
INVARIANTS
  MutualExclusion
  NoMissedWakeup
  OneHolder
  NoSelfDeadlock
PROPERTIES
  ImplementsSleepLock
  SleeperWakes
  LevelRestored
  LockIsReleased
