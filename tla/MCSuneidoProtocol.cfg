\* The thread that loads the library and a native one, two objects, three calls of Start().
SPECIFICATION FairLibrarySpec
CONSTANTS
  Threads = {java, native}
  JavaThreads = {java}
  NoThread = NoThread
  Loader = java
  Protocols = {p1, p2}
  MaxLen = 2
  MaxRead = 3
  MaxRefs = 2
  MaxStarts = 3
\* A browser may stop using its objects, and undefined behaviour ends the model.
CHECK_DEADLOCK FALSE
INVARIANTS
  LibraryTypeOK
  ReadsExact
  MisuseExplained
  ServedOnlyWhenReady
PROPERTIES
  ReaderFinishes
