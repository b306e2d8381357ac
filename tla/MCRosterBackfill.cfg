SPECIFICATION MCLegacySpec
CONSTANTS
  Process = {p1, p2}
  Reader = {r1}
  Slot <- MCSlot
  Account <- MCAccount
  TokenAccount <- MCToken
  EmailOf <- MCEmailOf
  OrgOf <- MCOrgOf
  Alias = {x}
  None = None
  Unset = Unset
  Ops = {"alias"}
  Initial <- MCInitial
  MaxCalls = 2
  MaxFaults = 0
  MaxLogins = 0
  MaxLaunches = 0
SYMMETRY ProcessSymmetry
CHECK_DEADLOCK FALSE
INVARIANTS RosterIsCurrent
