\* Two relayers; every checkpoint gets its quorum before the next one is cut.
CONSTANTS
  Relayers = {r1, r2}
  Period = 2
  FinalizationBlocks = 1
  FinalityDepth = 1
  QuorumDelay = 2
  InOrder = TRUE
  MaxHeight = 6
  MaxForks = 0
  MaxFaults = 1
SPECIFICATION FairSpec
PROPERTIES RefusedOnlyWhenOvertaken EveryQuorumIsCommitted EveryRelayerIsCredited
