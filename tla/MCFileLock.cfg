CONSTANTS
  Goroutine = {"fetch1", "fetch2", "import", "cli"}
  Lock = {"store", "importLock", "otherStore"}
  Process = {"first", "other"}
  NoOne = NoOne
  LockOf <- MCLockOf
  ProcOf <- MCProcOf
  MaxPolls = 1
SPECIFICATION FairSpec
INVARIANTS
  TypeOK
  MutualExclusion
  ReleasesOwnDescriptor
  HoldIsAccountedFor
PROPERTIES
  AcquireReturns
  ImplementsMutex
