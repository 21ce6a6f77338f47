SPECIFICATION Spec
CONSTANTS
  p1 = p1
  p2 = p2
  a = a
  b = b
  c = c
  DefaultSlot = DefaultSlot
  None = None
  Processes <- TwoProcesses
  Keys <- ThreeKeys
  RemoveTargets <- NoSlots
  DefaultTargets <- ThreeKeys
  FlushMayFail = FALSE
SYMMETRY Symmetry
INVARIANTS PutsAreKept
CHECK_DEADLOCK FALSE
