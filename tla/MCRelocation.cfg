SPECIFICATION Spec
CONSTANTS
  Files = {sequence, credential}
  Proc = {p, q}
  MaxDeaths = 1
CHECK_DEADLOCK FALSE
INVARIANT DataSurvives
