CONSTANTS
  Process = {p1, p2}
  Slot = {1, 2}
  Account = {"ann", "bob", "ann2"}
  OwnerOf <- MCOwnerOf
  EmailOf <- MCEmailOf
  OrgOf <- MCOrgOf
  None = None
  MaxFam = 2
  MaxGen = 1
  MaxRev = 1
  MaxFaults = 1
  MaxCalls = 2
SYMMETRY ProcessSymmetry
SPECIFICATION MCSpec
INVARIANTS
  TypeOK
  NoSilentContamination
  RolledBackIsOriginal
  SwitchedIsTarget
PROPERTIES
  NothingLost
  ConfigUpdatesKept
CHECK_DEADLOCK FALSE
