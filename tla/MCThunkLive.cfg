\* Disciplined callers and no structured exceptions, under fairness.
SPECIFICATION FairListSpec
CONSTANTS
  Thunks = {k1, k2, k3}
  Calls = {c1, c2}
  NoThunk = NoThunk
  LateCalls = FALSE
  SehEscapes = FALSE
  MaxCleared = 1
PROPERTIES
  ClearCompletes
  ClearThunkReturns
