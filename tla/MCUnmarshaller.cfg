\* All layouts of up to five units and three pointers, two of them variable
\* indirect, with everything that the pointers and instructions can be.
SPECIFICATION FairSpec
CONSTANTS
  MaxTotal = 5
  MaxPairs = 3
  MaxVi = 2
\* A walk ends.
CHECK_DEADLOCK FALSE
INVARIANTS
  TypeOK
  PrefixRight
  ThrowsRight
PROPERTIES
  WalkEnds
