SPECIFICATION Spec
CONSTANTS
  Account = {a1, a2}
  Collector = {c1, c2}
  Launcher = {l1, l2}
  None = None
  MaxMint = 3
  MaxEvents = 4
SYMMETRY ActorSymmetry
CHECK_DEADLOCK FALSE
INVARIANTS TypeOK OwnersKeepTheirToken SlotsHoldOwnTokens
 
