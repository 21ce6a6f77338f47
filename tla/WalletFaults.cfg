SPECIFICATION Spec
CONSTANTS
  Keys = {a, b, c}
  None = None
  Kinds = {"persistent", "encrypted"}
  Networks = {"f", "t"}
SYMMETRY Symmetry
INVARIANTS TypeOK DefaultIsListed
PROPERTY KeyMapUntilFault
CHECK_DEADLOCK FALSE
