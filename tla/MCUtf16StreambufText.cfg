\* The shortest text with a gap in its string.
SPECIFICATION Spec
CONSTANTS
  Chars = {a, b}
  Nul = Nul
  Capacities = {3}
  Width = 4
  IntWidth = 4
  Shifts = 3
  MaxSize = 11
  MaxText = 10
  MaxWrite = 4
\* A stream is abandoned when it has failed or its text is complete.
CHECK_DEADLOCK FALSE
INVARIANT StringIsText
