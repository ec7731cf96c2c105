SPECIFICATION Spec
CONSTANTS
  c1 = c1  c2 = c2  u1 = u1  u2 = u2  i1 = i1
  idle1 = idle1  idle2 = idle2  p0 = p0  p1 = p1  p2 = p2
  CPU = {c1, c2}
  User = {u1, u2}
  Intr = {i1}
  NoThread = NoThread
  idle <- MCidle
  procp <- MCprocp
SYMMETRY MCSymmetry
INVARIANTS
  OneCpuPerThread
  ResumedContextIsCurrent
  FpuStateIsSafe
  MmuContextMatches
  ReapedStackUnused
