SPECIFICATION FairSpec
CONSTANTS
  Thread = {t1, t2, t3}
  NoThread = NoThread
INVARIANTS
  WriterExcludes
  WaitersAreFlagged
PROPERTIES
  NoOvertaking
  WaiterGets
