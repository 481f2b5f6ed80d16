\* One callback level: native code crashes after its callback threw.
SPECIFICATION Spec
CONSTANTS
  Slots = 2
  MaxFrames = 5
INVARIANT PendingFlagAccurate
