\* The smallest parent chain on which a hash can be newer than the logs.
CONSTANTS
  MaxChanges = 1
  MaxHeight = 1
  MaxForks = 0
SPECIFICATION Spec
INVARIANT PayloadIsOfItsBlock
