\* One relayer; a quorum may come after the next checkpoint is cut.
CONSTANTS
  Relayers = {r1}
  Period = 2
  FinalizationBlocks = 0
  FinalityDepth = 0
  QuorumDelay = 3
  InOrder = TRUE
  MaxHeight = 7
  MaxForks = 0
  MaxFaults = 0
SPECIFICATION FairSpec
PROPERTY EveryQuorumIsCommitted
