\* Three activations, four thunks cleared: the lists fill, trim and move.
SPECIFICATION ListSpec
CONSTANTS
  Thunks = {k1, k2, k3, k4}
  Calls = {c1, c2, c3}
  NoThunk = NoThunk
  LateCalls = TRUE
  SehEscapes = TRUE
  MaxCleared = 1
SYMMETRY Symmetry
INVARIANTS
  ListTypeOK
  CounterInv
  QuietWhenCleared
  DiesOnlyOfLateCall
  OnePlace
  ClearedListIsCleared
  ClearedListBound
  KeepsRecent
PROPERTIES
  ImplementsLifecycle
