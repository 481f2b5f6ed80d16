CONSTANTS
  MaxArgs = 17
  RetLimit = 14
SPECIFICATION Spec
INVARIANT TypeOK
INVARIANT FrameIntact
INVARIANT StackBalanced
PROPERTY ImplementsInvocation
