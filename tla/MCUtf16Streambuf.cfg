\* A buffer of one to three, a size_t of four bits: 2, 4, 8, then no larger one; and
\* an int of three bits, too narrow for 4 and 8.
SPECIFICATION Spec
CONSTANTS
  Chars = {a, b}
  Nul = Nul
  Capacities = {1, 2, 3}
  Width = 4
  IntWidth = 3
  Shifts = 3
  MaxSize = 11
  MaxText = 10
  MaxWrite = 3
\* A stream is abandoned when it has failed or its text is complete.
CHECK_DEADLOCK FALSE
INVARIANTS
  TypeOK
  TextKept
  GapOnlyOfSplitWrite
PROPERTIES
  GrowsLeast
