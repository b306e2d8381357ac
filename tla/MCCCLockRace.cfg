CONSTANTS
  Actor = {"cswap1", "cswap2", "claude"}
  Free = Free
  TouchEvery <- MCTouchEvery
  Stale = 4
  Timeout = 3
  MaxFaults = 1
SPECIFICATION FairSpec
INVARIANT
  TakeoverIsExclusive
