SPECIFICATION Spec
CONSTANTS
  Thread = {t1, t2, t3}
  NoThread = NoThread
  NCPU = 2
  ResumeDrains = FALSE
INVARIANTS
  NoMissedWakeup
