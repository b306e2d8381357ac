CONSTANTS
  Actor = {"cswap1", "claude"}
  Free = Free
  TouchEvery <- MCTouchEvery
  Stale = 4
  Timeout = 3
  MaxFaults = 2
SPECIFICATION FairSpec
INVARIANTS
  TypeOK
  MutualExclusion
  LiveLockStaysFresh
PROPERTIES
  AcquireReturns
  OrphanIsReclaimed
