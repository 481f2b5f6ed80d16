\* Disciplined callers: no stub is entered once clear() has begun.
SPECIFICATION ListSpec
CONSTANTS
  Thunks = {k1, k2}
  Calls = {c1, c2}
  NoThunk = NoThunk
  LateCalls = FALSE
  SehEscapes = FALSE
  MaxCleared = 1
INVARIANT ReadyToDelete
