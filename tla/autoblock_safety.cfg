\* Blocks that run out or are ended by the owner; every fault.
SPECIFICATION Spec
CONSTANTS
  d1 = d1
  d2 = d2
  d3 = d3
  a1 = a1
  u1 = u1
  Denials = {d1, d2, d3}
  Arrivals = {a1}
  Unblocks = {u1}
  Threshold = 2
  Window = 1
  BlockDuration = 1
  StoreFails = TRUE
  MaxTime = 2
SYMMETRY Symmetry
INVARIANTS
  ThresholdBlocks
  FreshDenialsCountAfterUnblock
  BlockHoldsItsTerm
