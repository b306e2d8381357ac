SPECIFICATION Spec
CONSTANTS
  ann = ann
  bob = bob
  \* AutoSwitch
  Slot = {1, 2, 3}
  Engine = {p, q}
  Nobody = Nobody
  Readings <- MCReadings
  FirstUsage <- MCFirstUsage
  Threshold = 50
  HysteresisPct = 10
  UnhealthyTicks = 2
  Cooldown = 2
  Interval = 1
  IdleHoldMax = 1
  NoResetFallback = 2
  MaxSleep = 3
  MaxTime = 2
  MaxToken = 6
  MaxFaults = 1
  \* Polling
  Acct = {1, 2}
  Responses <- MCResponses
  Limit = 90
  Start = 12
  Horizon = 13
  FetchTime = 1
  Passes = 1
  Faults = 1
  \* Dashboard
  Place = {1, 2}
  Person = {ann, bob}
  NoOne = NoOne
  Levels = {1, 2}
  MaxEngines = 3
  MaxChanges = 2
  MaxKeys = 4
  \* Vault
  Num = {1, 2}
  Proc = {p, q}
  Free = Free
  MaxCred = 23
  MaxOps = 1
  MaxTrouble = 1
  \* Transfer
  Owner <- MCOwner
  NoOwner = NoOwner
  Alias = {"x"}
  NoAlias = NoAlias
  Current = ann
  User = {p, q}
  Unheld = Unheld
  Dirs <- MCDirs
  Envelopes <- MCEnvelopes
  MaxSlot = 3
  MaxJobs = 2
  MaxMishaps = 1
  \* Sharing
  Script = {t1, t2}
  Server = {d1, d2}
  Shell = {p, q}
  MaxLaunches = 2
  MaxSlips = 1
  \* Settings
  Setter = {p, q}
  Numeral <- MCNumeral
  Words = {"yes", "best", ""}
  Found <- MCFound
  MaxEdits = 2
SYMMETRY Processes
CHECK_DEADLOCK FALSE
INVARIANTS TypeOK OneEngine ThresholdSeen BackupReadIsCurrent
PROPERTIES CooldownHolds SnapshotsInOrder ActiveIsPolled MigrationLosesNothing RosterStaysWhole 
