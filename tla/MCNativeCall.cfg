\* Java, method, code, callback, Java, method, code, callback, Java.
SPECIFICATION Spec
CONSTANTS
  Slots = 2
  MaxFrames = 9
INVARIANTS
  TypeOK
  JniDiscipline
  PendingAssertion
  MissedIsReported
  NothingLeaked
  PinnedWhileUsed
