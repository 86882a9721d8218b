CONSTANTS
  Gas = {10, 20}
  Tip = {1, 2, 3}
  Percentile = {10, 50, 100}
  MaxTxs = 3
  MaxPercentiles = 2
SPECIFICATION Spec
INVARIANT RewardsAtPercentiles
CHECK_DEADLOCK FALSE
