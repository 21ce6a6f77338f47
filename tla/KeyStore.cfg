SPECIFICATION Spec
CONSTANTS
  p1 = p1
  p2 = p2
  a = a
  b = b
  c = c
  DefaultSlot = DefaultSlot
  None = None
  Processes <- TwoProcesses
  Keys <- ThreeKeys
  RemoveTargets <- AllSlots
  DefaultTargets <- ThreeKeys
  FlushMayFail = TRUE
SYMMETRY Symmetry
INVARIANTS TypeOK DefaultKeyIsStored DefaultIsSaved
PROPERTIES KeyMapWhileOrderly
CHECK_DEADLOCK FALSE
