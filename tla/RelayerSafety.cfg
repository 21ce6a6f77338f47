\* Two relayers, quorums reached at any time and in any order, one reorg.
CONSTANTS
  Relayers = {r1, r2}
  Period = 2
  FinalizationBlocks = 1
  FinalityDepth = 1
  QuorumDelay = 6
  InOrder = FALSE
  MaxHeight = 6
  MaxForks = 1
  MaxFaults = 1
SPECIFICATION Spec
SYMMETRY Symmetry
INVARIANTS TypeOK InFlightIsFinal
PROPERTY ImplementsLog
