-------------------------------- MODULE Library --------------------------------
(***************************************************************************)
(* The start of the library, as Java's one call of JSDI.init() makes it,   *)
(* with the protocol handler that it opens to the browser: the JavaVM, the *)
(* global references that all other code uses unchecked (global_refs.cpp), *)
(* COM, and the registration of the handler (suneido_protocol.cpp).  Each  *)
(* step may fail; then the steps before it stay done, and Java gets an     *)
(* exception.  Other threads may use the browser all the time.             *)
(*                                                                         *)
(* Of the classes, methods and fields in the table of global references    *)
(* there are two classes with a member each, the class and the method of   *)
(* Start(), and one of each object that is made of them.                   *)
(***************************************************************************)
EXTENDS SuneidoProtocol

CONSTANT Loader  \* the thread that loads the library

ASSUME LoaderAssumption == Loader \in JavaThreads

VARIABLES
  at,      \* where JSDI.init() is
  loaded,  \* how many of the global references it has
  com      \* what COM has given it: nothing, an apartment, a session

library == <<at, loaded, com>>
allVars == <<vars, library>>

\* In the order of global_refs::init(): the reference, how it is had, and the
\* references it is looked up with.
Table == <<[ref |-> "Boolean",          had |-> "FindClass",   by |-> {}],
           [ref |-> "Boolean.TRUE",     had |-> "GetID",       by |-> {"Boolean"}],
           [ref |-> "Integer",          had |-> "FindClass",   by |-> {}],
           [ref |-> "Integer.<init>",   had |-> "GetID",       by |-> {"Integer"}],
           [ref |-> "InternetProtocol", had |-> "FindClass",   by |-> {}],
           [ref |-> "start",            had |-> "GetID",       by |-> {"InternetProtocol"}],
           [ref |-> "TRUE_object",      had |-> "StaticField", by |-> {"Boolean", "Boolean.TRUE"}],
           [ref |-> "ZERO_object",      had |-> "New",         by |-> {"Integer", "Integer.<init>"}],
           [ref |-> "EMPTY_STRING",     had |-> "New",         by |-> {}]>>

Loaded == {Table[i].ref : i \in 1 .. loaded}

LibraryInit == Init /\ at = "init" /\ loaded = 0 /\ com = "none"

-------------------------------------------------------------------------------
\* No step of the start-up uses the protocol objects.
Untouched == UNCHANGED <<object, content, stack, failed, phase, reader, starts>>

\* throw, to the handler at the end of JSDI.init(): the exception of the JNI
\* function that failed, or one that FindClass() and ThrowNew() make.
InitThrows ==
  /\ at' = "failed"
  /\ pending' = [pending EXCEPT ![Loader] = TRUE]

\* GetJavaVM().
GetJavaVM ==
  /\ at = "init" /\ ~misuse
  /\ \/ at' = "refs" /\ UNCHANGED pending
     \/ InitThrows
  /\ UNCHANGED <<registered, misuse, unchecked, loaded, com>> /\ Untouched

\* The next entry of the table, and its NewGlobalRef() if it is no ID.  A null,
\* or a class that is not there, may not be given to a JNI function.
LoadRef ==
  /\ at = "refs" /\ ~misuse
  /\ loaded < Len(Table)
  /\ misuse' = (pending[Loader] \/ ~(Table[loaded + 1].by \subseteq Loaded))
  /\ \/ loaded' = loaded + 1 /\ UNCHANGED <<at, pending>>
     \/ InitThrows /\ UNCHANGED loaded
  /\ UNCHANGED <<registered, unchecked, com>> /\ Untouched

\* NewObject() or NewString() fails, and NewGlobalRef() is called all the same.
LoadUnchecked ==
  /\ at = "refs" /\ ~misuse
  /\ loaded < Len(Table) /\ Table[loaded + 1].had = "New"
  /\ unchecked' = TRUE /\ misuse' = TRUE
  /\ InitThrows
  /\ UNCHANGED <<registered, loaded, com>> /\ Untouched

\* Bug: a table that is only begun is taken for loaded.
InitializeComEarly ==
  /\ at = "refs" /\ ~misuse
  /\ \/ at' = "session" /\ com' = "apartment" /\ UNCHANGED pending
     \/ InitThrows /\ UNCHANGED com
  /\ UNCHANGED <<registered, misuse, unchecked, loaded>> /\ Untouched

\* register_handler(): CoInitializeEx().
InitializeCom ==
  /\ at = "refs" /\ ~misuse
  /\ loaded = Len(Table)
  /\ \/ at' = "session" /\ com' = "apartment" /\ UNCHANGED pending
     \/ InitThrows /\ UNCHANGED com
  /\ UNCHANGED <<registered, misuse, unchecked, loaded>> /\ Untouched

\* CoInternetGetSession(); the apartment is kept if it fails.
GetSession ==
  /\ at = "session"
  /\ \/ at' = "register" /\ com' = "session" /\ UNCHANGED pending
     \/ InitThrows /\ UNCHANGED com
  /\ UNCHANGED <<registered, misuse, unchecked, loaded>> /\ Untouched

\* RegisterNameSpace(); session and apartment are kept if it fails.
Register ==
  /\ at = "register"
  /\ \/ RegisterNameSpace /\ at' = "jvm"
     \/ /\ InitThrows /\ UNCHANGED <<registered, misuse, unchecked>> /\ Untouched
  /\ UNCHANGED <<loaded, com>>

\* The session is released and the factory gets its JavaVM.
Finish ==
  /\ at = "jvm"
  /\ SetJvm
  /\ at' = "done" /\ com' = "apartment"
  /\ UNCHANGED loaded

\* A thread browses; the loader only when it is out of JSDI.init().
BrowseInLibrary(t) ==
  /\ t = Loader => at \in {"done", "failed"}
  /\ Browse(t)
  /\ UNCHANGED library

LibraryNext ==
  \/ GetJavaVM \/ LoadRef \/ LoadUnchecked
  \/ InitializeCom \/ GetSession \/ Register \/ Finish
  \/ \E t \in Threads : BrowseInLibrary(t)

LibrarySpec == LibraryInit /\ [][LibraryNext]_allVars

FairLibrarySpec ==
  /\ LibrarySpec
  /\ \A t \in Threads, p \in Protocols : WF_allVars(ReadOn(t, p) /\ UNCHANGED library)

-------------------------------------------------------------------------------
\* Well-typed, the start-up with the protocol objects.
LibraryTypeOK ==
  /\ TypeOK
  /\ at \in {"init", "refs", "session", "register", "jvm", "done", "failed"}
  /\ loaded \in 0 .. Len(Table)
  /\ com \in {"none", "apartment", "session"}

\* Start() uses the global references without a look: whoever holds a protocol
\* object, created at any time and by any thread, finds all of them there; and
\* a start-up that fails, at whatever step, leaves no way to an object
\* (_jni_interface.cpp:145-153, suneido_protocol.cpp:209-211).
ServedOnlyWhenReady ==
  (registered # "no" \/ \E p \in Protocols : owner[p] # NoThread)
     => loaded = Len(Table) /\ at \in {"jvm", "done"} /\ com # "none"

===============================================================================
