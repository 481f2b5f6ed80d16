\* An argument released while it is converted.
SPECIFICATION Spec
CONSTANTS
  o1 = o1
  o2 = o2
  i1 = i1
  i2 = i2
  Threads = {t1, t2}
  Objects = {o1, o2, o3}
  Ifaces = {i1, i2, i3}
  NoObject = NoObject
  NoIface = NoIface
  Plain = Plain
  Text = Text
  Bstr = Bstr
  Existing <- MCExisting
  CallArgs = 2
  MaxOps = 2
SYMMETRY Symmetry
\* The deadlock that com.cpp:334-344 documents.
CHECK_DEADLOCK FALSE
INVARIANT ArgumentNotFreed
