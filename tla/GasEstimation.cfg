\* Every fee history of up to five blocks, base fees in every tier.
CONSTANTS
  Rewards = {0, 1, 2, 3, 9}
  Bases = {1, 5, 16, 17}
  Window = 5
  Threshold = 200
  Low = 4
  Mid = 8
  High = 16
  MaxBlocks = 2
SPECIFICATION Spec
INVARIANTS TypeOK CapCoversNextBlock TipCoversMostBlocks EstimateIsMedian
CHECK_DEADLOCK FALSE
