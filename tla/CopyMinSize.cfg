SPECIFICATION CopySpec
CONSTANTS
  CopyCounts = {0, 3, 16, 32}
  XCOPY_MIN_SIZE = 32
  CounterMod = 16
  curthread = 4096
INVARIANT
  XcopyMinSize
