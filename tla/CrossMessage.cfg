SPECIFICATION Spec
CONSTANTS
  Roots = {1, 2}
  Actors = {"f01", "f02"}
  MaxDepth = 3
INVARIANTS AppliedAsTravelled CommonParentIsLowest
PROPERTY UpAndDownAreHops
CHECK_DEADLOCK FALSE
