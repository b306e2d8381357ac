SPECIFICATION MCLegacySpec
CONSTANTS
  Process = {p1, p2}
  Reader = {r1}
  Slot <- MCSlot
  Account <- MCAccount
  TokenAccount = {}
  EmailOf <- MCEmailOf
  OrgOf <- MCOrgOf
  Alias = {x}
  None = None
  Unset = Unset
  Ops = {"add", "alias", "disable", "remove"}
  Initial <- MCInitial
  MaxCalls = 2
  MaxFaults = 0
  MaxLogins = 1
  MaxLaunches = 0
SYMMETRY ProcessSymmetry
CHECK_DEADLOCK FALSE
PROPERTIES BackfillNotReverted
