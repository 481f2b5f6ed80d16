---------------------------- MODULE SuneidoProtocol ----------------------------
(***************************************************************************)
(* The handler of suneido:// URLs (suneido_protocol.cpp): a class factory  *)
(* that is registered when the library is loaded, and protocol objects     *)
(* that ask Java for the content of a URL in Start() and hand it out in    *)
(* Read().  Start() calls out twice: into Java, which may show a browser   *)
(* and so start other objects on the same thread, and into the sink, which *)
(* may read at once.                                                       *)
(*                                                                         *)
(* Browser and Java are external.  An object is used by the thread that    *)
(* created it, is read between the report of its data and its next Start() *)
(* and is kept by a reference while a call on it runs, as COM demands.     *)
(***************************************************************************)
EXTENDS Integers, FiniteSets, SequencesExt

CONSTANTS Threads, Protocols,
          JavaThreads,  \* threads that came from Java and return to it
          NoThread,
          MaxLen,       \* bound: bytes of a content
          MaxRead,      \* bound: bytes asked for at once
          MaxRefs,      \* bound: references to one object
          MaxStarts     \* bound: calls of Start()

ASSUME ProtocolAssumption == /\ JavaThreads \subseteq Threads
                             /\ NoThread \notin Threads
                             /\ {MaxLen, MaxRead, MaxStarts} \subseteq Nat
                             /\ MaxRefs \in Nat \ {0}

VARIABLES
  registered,   \* how far register_handler() is
  d_ref_count,  \* of each object; 0: not created yet, or deleted
  d_jni_jvm,    \* has the object a JavaVM?
  d_data,       \* the content it holds, a sequence of bytes
  d_pos,        \* how much of it was read
  owner,        \* the thread that created the object
  stack,        \* per thread: the Start() calls that have called out
  pending,      \* per thread: JNIEnv::ExceptionCheck()
  misuse,       \* a JNI function was called with an exception pending
  phase,        \* the reader: not started, starting, open, failed, crashed
  answer, got, last,  \* the reader: Java's content, bytes read, last result
  starts,       \* calls of Start(), for the bound
  unchecked,    \* the result of a JNI function that failed was used, a history
  failed        \* per thread: a Start() failed since it was in Java, a history

object == <<d_ref_count, d_jni_jvm, owner>>
content == <<d_data, d_pos>>
reader == <<answer, got, last>>
thread == <<stack, pending, failed>>
vars == <<registered, object, content, thread, misuse, phase, reader, starts, unchecked>>

Init == /\ registered = "no"
        /\ d_ref_count = [p \in Protocols |-> 0]
        /\ d_jni_jvm = [p \in Protocols |-> FALSE]
        /\ d_data = [p \in Protocols |-> <<>>]
        /\ d_pos = [p \in Protocols |-> 0]
        /\ owner = [p \in Protocols |-> NoThread]
        /\ stack = [t \in Threads |-> <<>>]
        /\ pending = [t \in Threads |-> FALSE]
        /\ misuse = FALSE
        /\ phase = [p \in Protocols |-> "new"]
        /\ answer = [p \in Protocols |-> <<>>]
        /\ got = [p \in Protocols |-> <<>>]
        /\ last = [p \in Protocols |-> "none"]
        /\ starts = 0
        /\ unchecked = FALSE
        /\ failed = [t \in Threads |-> FALSE]

-------------------------------------------------------------------------------
\* p exists and is used by its thread.
Uses(t, p) == ~misuse /\ owner[p] = t /\ d_ref_count[p] > 0

\* A Start() of p has called out and not come back.
Starting(t, p) == \E i \in DOMAIN stack[t] : stack[t][i].p = p

Top(t) == Last(stack[t])
TopIs(t, pc) == ~misuse /\ stack[t] # <<>> /\ Top(t).pc = pc
Pop(t) == stack' = [stack EXCEPT ![t] = Front(@)]

\* The bytes of the n-th Start().
Bytes(n, len) == [i \in 1 .. len |-> <<n, i>>]

-------------------------------------------------------------------------------
(* Registration and the factory.                                           *)

\* register_handler(): RegisterNameSpace(), from which the browser can call.
RegisterNameSpace ==
  /\ registered = "no"
  /\ registered' = "namespace"
  /\ UNCHANGED <<object, content, thread, misuse, phase, reader, starts, unchecked>>

\* register_handler(): the factory gets its JavaVM.
SetJvm ==
  /\ registered = "namespace"
  /\ registered' = "done"
  /\ UNCHANGED <<object, content, thread, misuse, phase, reader, starts, unchecked>>

\* CreateInstance(): new, QueryInterface(), Release(); the object is gone again
\* if it has not the interface.
CreateInstance(t, p) ==
  /\ registered # "no" /\ ~misuse
  /\ owner[p] = NoThread
  /\ owner' = [owner EXCEPT ![p] = t]
  /\ d_jni_jvm' = [d_jni_jvm EXCEPT ![p] = registered = "done"]
  /\ \E known \in BOOLEAN :
       d_ref_count' = [d_ref_count EXCEPT ![p] = (1 + IF known THEN 1 ELSE 0) - 1]
  /\ UNCHANGED <<registered, content, thread, misuse, phase, reader, starts, unchecked>>

\* AddRef(), or QueryInterface() of an interface it has.
AddRef(t, p) ==
  /\ Uses(t, p) /\ d_ref_count[p] < MaxRefs
  /\ d_ref_count' = [d_ref_count EXCEPT ![p] = @ + 1]
  /\ UNCHANGED <<registered, d_jni_jvm, owner, content, thread, misuse, phase,
                 reader, starts, unchecked>>

\* Release(): the last one deletes the object.
Release(t, p) ==
  /\ Uses(t, p)
  /\ Starting(t, p) => d_ref_count[p] > 1
  /\ d_ref_count' = [d_ref_count EXCEPT ![p] = @ - 1]
  /\ UNCHANGED <<registered, d_jni_jvm, owner, content, thread, misuse, phase,
                 reader, starts, unchecked>>

-------------------------------------------------------------------------------
(* The protocol object.                                                    *)

\* Start() decodes the URL, attaches the thread, and makes a string of the URL
\* without a look at what NewString() returns; then it calls Java.
CallsJava(t, p) ==
  /\ d_jni_jvm[p]
  /\ \/ misuse' = pending[t] /\ UNCHANGED unchecked
     \/ misuse' = TRUE /\ unchecked' = TRUE
  /\ stack' = [stack EXCEPT ![t] = Append(@, [p |-> p, n |-> starts', pc |-> "java"])]
  /\ phase' = [phase EXCEPT ![p] = "starting"]

\* Without a JavaVM the thread is attached by way of a null pointer.
NullJvm(p) ==
  /\ ~d_jni_jvm[p]
  /\ misuse' = TRUE
  /\ phase' = [phase EXCEPT ![p] = "crashed"]
  /\ UNCHANGED <<stack, unchecked>>

\* The URL cannot be decoded, or the thread not be attached.
Refused(p) ==
  /\ phase' = [phase EXCEPT ![p] = "failed"]
  /\ UNCHANGED <<stack, misuse, unchecked>>

Start(t, p) ==
  /\ Uses(t, p) /\ ~Starting(t, p)
  /\ starts < MaxStarts /\ starts' = starts + 1
  /\ got' = [got EXCEPT ![p] = <<>>]
  /\ last' = [last EXCEPT ![p] = "none"]
  /\ answer' = [answer EXCEPT ![p] = <<>>]
  /\ CallsJava(t, p) \/ NullJvm(p) \/ Refused(p)
  /\ UNCHANGED <<registered, object, content, pending, failed>>

\* Bug: neither the exception nor the null is looked for before GetArrayLength().
JavaThrowsUnchecked(t) ==
  /\ TopIs(t, "java")
  /\ pending' = [pending EXCEPT ![t] = TRUE]
  /\ misuse' = TRUE
  /\ UNCHANGED <<registered, object, content, stack, failed, phase, reader, starts, unchecked>>

\* start() throws, or lets an exception of a nested Start() through.  It is left
\* pending for the caller's Java code.
JavaThrows(t) ==
  /\ TopIs(t, "java")
  /\ pending' = [pending EXCEPT ![t] = TRUE]
  /\ failed' = [failed EXCEPT ![t] = TRUE]
  /\ phase' = [phase EXCEPT ![Top(t).p] = "failed"]
  /\ Pop(t)
  /\ UNCHANGED <<registered, object, content, misuse, reader, starts, unchecked>>

\* start() returns null.  An exception of a nested Start() was caught.
JavaReturnsNull(t) ==
  /\ TopIs(t, "java")
  /\ pending' = [pending EXCEPT ![t] = FALSE]
  /\ failed' = [failed EXCEPT ![t] = FALSE]
  /\ phase' = [phase EXCEPT ![Top(t).p] = "failed"]
  /\ Pop(t)
  /\ UNCHANGED <<registered, object, content, misuse, reader, starts, unchecked>>

\* Bug: the position of the content before is kept.
JavaReturnsDataNoRewind(t) ==
  LET p == Top(t).p IN
  /\ TopIs(t, "java")
  /\ pending' = [pending EXCEPT ![t] = FALSE]
  /\ failed' = [failed EXCEPT ![t] = FALSE]
  /\ \E len \in 0 .. MaxLen :
       /\ d_data' = [d_data EXCEPT ![p] = Bytes(Top(t).n, len)]
       /\ answer' = [answer EXCEPT ![p] = Bytes(Top(t).n, len)]
  /\ phase' = [phase EXCEPT ![p] = "open"]
  /\ stack' = [stack EXCEPT ![t] = Append(Front(@), [Top(t) EXCEPT !.pc = "report"])]
  /\ UNCHANGED <<registered, object, d_pos, misuse, got, last, starts, unchecked>>

\* start() returns the content: it is copied, and reported to the sink.
JavaReturnsData(t) ==
  LET p == Top(t).p IN
  /\ TopIs(t, "java")
  /\ pending' = [pending EXCEPT ![t] = FALSE]
  /\ failed' = [failed EXCEPT ![t] = FALSE]
  /\ d_pos' = [d_pos EXCEPT ![p] = 0]
  /\ \E len \in 0 .. MaxLen :
       /\ d_data' = [d_data EXCEPT ![p] = Bytes(Top(t).n, len)]
       /\ answer' = [answer EXCEPT ![p] = Bytes(Top(t).n, len)]
  /\ phase' = [phase EXCEPT ![p] = "open"]
  /\ stack' = [stack EXCEPT ![t] = Append(Front(@), [Top(t) EXCEPT !.pc = "report"])]
  /\ UNCHANGED <<registered, object, misuse, got, last, starts, unchecked>>

\* ReportData() comes back and Start() returns S_OK.
SinkReturns(t) ==
  /\ TopIs(t, "report")
  /\ Pop(t)
  /\ UNCHANGED <<registered, object, content, pending, failed, misuse, phase, reader,
                 starts, unchecked>>

Minimum(a, b) == IF a < b THEN a ELSE b

\* Bug: the end is reported by the read after the one that reaches it.
ReadLateEnd(t, p, cb) ==
  LET len == Minimum(cb, Len(d_data[p]) - d_pos[p]) IN
  /\ Uses(t, p) /\ phase[p] = "open"
  /\ got' = [got EXCEPT ![p] = @ \o SubSeq(d_data[p], d_pos[p] + 1, d_pos[p] + len)]
  /\ d_pos' = [d_pos EXCEPT ![p] = @ + len]
  /\ last' = [last EXCEPT ![p] =
                IF d_pos[p] < Len(d_data[p]) THEN "S_OK" ELSE "S_FALSE"]
  /\ UNCHANGED <<registered, object, d_data, thread, misuse, phase, answer, starts, unchecked>>

\* Bug: the position is not moved.
ReadNoAdvance(t, p, cb) ==
  LET len == Minimum(cb, Len(d_data[p]) - d_pos[p]) IN
  /\ Uses(t, p) /\ phase[p] = "open"
  /\ got' = [got EXCEPT ![p] = SubSeq(d_data[p], d_pos[p] + 1, d_pos[p] + len)]
  /\ last' = [last EXCEPT ![p] = IF d_pos[p] < Len(d_data[p]) THEN "S_OK" ELSE "S_FALSE"]
  /\ UNCHANGED <<registered, object, content, thread, misuse, phase, answer, starts, unchecked>>

\* Read(): up to cb bytes, and whether there are more.
Read(t, p, cb) ==
  LET len == Minimum(cb, Len(d_data[p]) - d_pos[p]) IN
  /\ Uses(t, p) /\ phase[p] = "open"
  /\ got' = [got EXCEPT ![p] = @ \o SubSeq(d_data[p], d_pos[p] + 1, d_pos[p] + len)]
  /\ d_pos' = [d_pos EXCEPT ![p] = @ + len]
  /\ last' = [last EXCEPT ![p] =
                IF d_pos'[p] < Len(d_data[p]) THEN "S_OK" ELSE "S_FALSE"]
  /\ UNCHANGED <<registered, object, d_data, thread, misuse, phase, answer, starts, unchecked>>

\* A thread with no Start() left goes back to Java, and throws what is pending.
ReturnToJava(t) ==
  /\ t \in JavaThreads /\ stack[t] = <<>> /\ ~misuse
  /\ pending[t]
  /\ pending' = [pending EXCEPT ![t] = FALSE]
  /\ failed' = [failed EXCEPT ![t] = FALSE]
  /\ UNCHANGED <<registered, object, content, stack, misuse, phase, reader, starts, unchecked>>

\* What a thread of the browser, and Java under it, may do.
Browse(t) ==
  \/ JavaThrows(t) \/ JavaReturnsNull(t) \/ JavaReturnsData(t)
  \/ SinkReturns(t) \/ ReturnToJava(t)
  \/ \E p \in Protocols : \/ CreateInstance(t, p) \/ AddRef(t, p) \/ Release(t, p)
                           \/ Start(t, p)
                           \/ \E cb \in 0 .. MaxRead : Read(t, p, cb)

Next == \/ RegisterNameSpace \/ SetJvm
        \/ \E t \in Threads : Browse(t)

Spec == Init /\ [][Next]_vars

\* A browser that was told of data goes on reading, some bytes each time.
ReadOn(t, p) == last[p] # "S_FALSE" /\ \E cb \in 1 .. MaxRead : Read(t, p, cb)

FairSpec == Spec /\ \A t \in Threads, p \in Protocols : WF_vars(ReadOn(t, p))

-------------------------------------------------------------------------------
\* Well-typed, and a position never passes the end of its content.
TypeOK ==
  /\ registered \in {"no", "namespace", "done"}
  /\ d_ref_count \in [Protocols -> 0 .. MaxRefs] /\ d_jni_jvm \in [Protocols -> BOOLEAN]
  /\ \A p \in Protocols : d_pos[p] \in 0 .. Len(d_data[p])
  /\ owner \in [Protocols -> Threads \cup {NoThread}]
  /\ \A t \in Threads : stack[t] \in 
       Seq([p : Protocols, n : 1 .. MaxStarts, pc : {"java", "report"}])
  /\ pending \in [Threads -> BOOLEAN] /\ misuse \in BOOLEAN
  /\ phase \in [Protocols -> {"new", "starting", "open", "failed", "crashed"}]
  /\ last \in [Protocols -> {"none", "S_OK", "S_FALSE"}]
  /\ starts \in 0 .. MaxStarts /\ unchecked \in BOOLEAN /\ failed \in [Threads -> BOOLEAN]

\* A reader gets the bytes of the last Start() of its object, in order and once,
\* also when the object is started again and when other objects are started in
\* between; and it is told S_FALSE exactly when it has all of them, never with
\* bytes left nor once too late (suneido_protocol.cpp:228-240, 262-271).
ReadsExact ==
  \A p \in Protocols : phase[p] = "open" =>
     /\ IsPrefix(got[p], answer[p])
     /\ last[p] = "S_FALSE" => got[p] = answer[p]
     /\ last[p] = "S_OK" => got[p] # answer[p]

\* JNI is misused only after a creating JNI function failed that nobody checks,
\* by the start of an object that was created before the factory had its JavaVM,
\* or after a Start() failed on the thread and before it was in Java again: never
\* because a nested or an earlier Start() that returned S_OK left an exception
\* behind (suneido_protocol.cpp:205-219, 405-407; global_refs.cpp:208-215).
MisuseExplained == misuse => \/ unchecked
                             \/ \E p \in Protocols : phase[p] = "crashed"
                             \/ \E t \in Threads : failed[t]

\* A browser that goes on reading is told of the end.
ReaderFinishes ==
  \A p \in Protocols :
     phase[p] = "open" ~> last[p] = "S_FALSE" \/ phase[p] # "open"
                          \/ d_ref_count[p] = 0 \/ misuse

===============================================================================
