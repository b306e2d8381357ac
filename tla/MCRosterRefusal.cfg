SPECIFICATION Spec
CONSTANTS
  Process = {p1, p2}
  Reader = {}
  Slot <- MCSlot
  Account <- MCAccount
  TokenAccount <- MCToken
  EmailOf <- MCEmailOf
  OrgOf <- MCOrgOf
  Alias = {x}
  None = None
  Unset = Unset
  Ops = {"move"}
  Initial <- MCInitial
  MaxCalls = 2
  MaxFaults = 1
  MaxLogins = 0
  MaxLaunches = 0
SYMMETRY ProcessSymmetry
CHECK_DEADLOCK FALSE
INVARIANTS RefusalChangesNothing
