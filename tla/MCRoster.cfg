SPECIFICATION MCSpec
CONSTANTS
  Process = {p1, p2}
  Reader = {}
  Slot <- MCSlot
  Account <- MCAccount
  TokenAccount <- MCToken
  EmailOf <- MCEmailOf
  OrgOf <- MCOrgOf
  Alias = {x}
  None = None
  Unset = Unset
  Ops = {"add", "token", "remove", "move", "alias"}
  Initial <- MCInitial
  MaxCalls = 2
  MaxFaults = 2
  MaxLogins = 0
  MaxLaunches = 1
SYMMETRY ProcessSymmetry
CHECK_DEADLOCK FALSE
INVARIANTS TypeOK RosterIsCurrent UniqueNames StoredIsOwnOrStaged FailedMoveIsUndone
PROPERTIES NoCredentialLost DeletesOnlyConfirmed 
