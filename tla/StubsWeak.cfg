SPECIFICATION StubSpec
CONSTANTS
  StubThread = {s1, s2}
  Unloadable = {u}
  Permanent = {p}
PROPERTY
  OnlyWeakSkipsLoading
