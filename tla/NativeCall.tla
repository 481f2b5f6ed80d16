------------------------------ MODULE NativeCall ------------------------------
(***************************************************************************)
(* One thread on its way from Java through a native method of NativeCall64 *)
(* into native code, from there through a thunk's callback back into Java, *)
(* and so on (_jni_interface64.cpp, marshalling.cpp, jsdi_callback.cpp);   *)
(* or one thread of native code, which comes into Java through callbacks   *)
(* only.  Java also makes the thunks (ThunkManager64, newThunk64()), copies *)
(* out structures that native code holds, and calls the small methods of   *)
(* _jni_interface.cpp.  The 32 bit library (_jni_interface_x86.cpp) has    *)
(* the same frames, with some steps in another order.                      *)
(* Java exceptions are pending flags, C++ exceptions unwind to the frame's *)
(* JNI_EXCEPTION_SAFE_CPP_END, structured exceptions become C++ exceptions *)
(* (seh.h), and what a frame pins or globalizes has to be given back on    *)
(* each of these ways out.                                                 *)
(*                                                                         *)
(* The JVM and the native libraries are external.  JNI functions other     *)
(* than releases, deletions and ExceptionCheck() must not be called while  *)
(* an exception is pending or an array is held critically: what happens    *)
(* then is undefined, and the model stops.                                 *)
(***************************************************************************)
EXTENDS Naturals, SequencesExt

CONSTANTS Slots,     \* bound: length of a variable indirect array
          MaxFrames  \* bound: frames on the thread

ASSUME NativeCallAssumption == Slots \in Nat /\ MaxFrames \in Nat \ {0}

VARIABLES
  stack,    \* the frames of the thread, the running one last
  pending,  \* JNIEnv::ExceptionCheck()
  misuse,   \* the JNI function that was called when it must not be
  leaked,   \* what frames that are gone did not give back
  refused,  \* what was not globalized, or constructed half-way, a history
  attached, \* does the JVM know the thread?
  crashed,  \* native code crashed with an exception pending, a history
  abi       \* which library it is; it stays the same

vars == <<stack, pending, misuse, leaked, refused, attached, crashed, abi>>
flags == <<misuse, leaked, refused, attached, crashed, abi>>

\* Native methods by what they marshal; fast and direct calls pin nothing.
Invoking == {"direct", "indirect", "vi"}
Callbacks == {"cb_fast", "cb_direct", "cb_indirect", "cb_vi"}

\* Native methods that call no native code, by their steps that can fail.
\* region: GetIntArrayRegion() and the like, checked; string: GetStringRegion()
\* or GetStringUTFRegion(); call: a Java method, checked; element, NewString:
\* checked; range: an ordinal that is no enumerator; pin: jni_array, critical:
\* jni_critical_array; memcpy: from a pointer that may be wild, unmarshall: the
\* same, making strings.
Steps == [copyOutDirect   |-> <<"critical", "memcpy">>,
          copyOutIndirect |-> <<"region", "critical", "memcpy">>,
          copyOutVi       |-> <<"pin", "region", "region", "unmarshall">>,
          loadLibrary     |-> <<"string">>,
          getProcAddress  |-> <<"string">>,
          logThreshold    |-> <<"call", "range", "call", "element">>,
          when            |-> <<"NewString">>]

Methods == Invoking \cup DOMAIN Steps \cup {"newThunk"}
Cpp == Methods \cup Callbacks
Pcs == {"run", "enter", "steps", "array", "pin", "copy", "init", "invoke", "returned", "finish",
        "unmarshall", "unpin", "call", "construct", "out", "thunk", "unwind", "handler"}

\* struct marshalling_vi_container::tuple, each pointer being NULL or not.
Tuple == [d_elems : BOOLEAN, d_pp_arr : BOOLEAN, d_global : BOOLEAN]

\* exc is the C++ exception in flight: none, a jni_exception that says an
\* exception is pending, or any other.  args is the array that is held.
\* refs are the global references of the callback that is being made, owner is
\* who destroys it: nobody yet, its shared_ptr, the thunk.
\* missed: a callback under this method did not complete (a history).
Frame == [kind : Cpp \cup {"java", "code"}, pc : Pcs,
          exc : {"none", "pending", "cpp"}, args : {"none", "pinned", "critical"},
          d_arrays : Seq(Tuple), next : Nat, missed : BOOLEAN,
          refs : 0 .. 2, owner : {"nobody", "callback_ptr", "thunk"}]

NewFrame(k) == [kind |-> k, pc |-> IF k \in DOMAIN Steps THEN "steps"
                                   ELSE IF k \in Cpp THEN "enter" ELSE "run",
                exc |-> "none", args |-> "none", d_arrays |-> <<>>, next |-> 0,
                missed |-> FALSE, refs |-> 0, owner |-> "nobody"]

Init == /\ \E base \in {"java", "code"} : /\ stack = <<NewFrame(base)>>
                                         /\ attached = (base = "java")
        /\ pending = FALSE
        /\ misuse = {}
        /\ leaked = {}
        /\ refused = {}
        /\ crashed = FALSE
        /\ abi \in {"amd64", "x86"}

-------------------------------------------------------------------------------
Top == Last(stack)

Runs(kinds, p) == misuse = {} /\ Top.kind \in kinds /\ Top.pc = p

Becomes(f) == stack' = Append(Front(stack), f)
Goto(p) == Becomes([Top EXCEPT !.pc = p])
Call(k, p) == stack' = Front(stack) \o <<[Top EXCEPT !.pc = p], NewFrame(k)>>

\* throw: destructors run, then the handler at the end of the frame.
Throw(e) == Becomes([Top EXCEPT !.pc = "unwind", !.exc = e])

\* An ordinary JNI function is called.
Jni(f) == misuse' = IF pending \/ \E i \in DOMAIN stack : stack[i].args = "critical"
                    THEN {f} ELSE misuse

\* Bug: a null result without an exception is taken for a pending one.
JniFailsUnlooked == \/ pending' = TRUE /\ Throw("pending")
                    \/ UNCHANGED pending /\ Throw("pending")

\* A JNI function that failed: with an exception that JNI_EXCEPTION_CHECK finds,
\* or with a null that becomes a jni_bad_alloc.
JniFails == \/ pending' = TRUE /\ Throw("pending")
            \/ UNCHANGED pending /\ Throw("cpp")

\* A jni_array_region that fails: without memory, or in its constructor, whose
\* buffer no destructor frees.
RegionFails ==
  \/ Throw("cpp") /\ UNCHANGED <<pending, leaked, refused>>
  \/ /\ pending' = TRUE /\ Throw("pending")
     /\ leaked' = leaked \cup {"buffer"} /\ refused' = refused \cup {"buffer"}

\* JNI_EXCEPTION_CHECK follows the copy into the buffer.
CopyRegion(next) ==
  /\ Jni("GetIntArrayRegion")
  /\ (next /\ UNCHANGED <<pending, leaked, refused>>) \/ RegionFails
  /\ UNCHANGED <<attached, crashed, abi>>

-------------------------------------------------------------------------------
(* Java code and native code.                                              *)

CallNative(m) ==
  /\ Runs({"java"}, "run") /\ ~pending
  /\ Len(stack) + 2 <= MaxFrames
  /\ Call(m, "run")
  /\ UNCHANGED <<pending, flags>>

\* What a native method left pending is thrown in its Java caller.
JavaCatches ==
  /\ Runs({"java"}, "run") /\ pending
  /\ pending' = FALSE
  /\ UNCHANGED <<stack, flags>>

\* A Java method that was called back returns, throws or passes an exception on.
JavaLeaves ==
  /\ Runs({"java"}, "run") /\ Len(stack) > 1
  /\ stack' = Front(stack)
  /\ pending' \in {TRUE, pending}
  /\ UNCHANGED flags

\* Native code calls the stub of a thunk, and knows nothing of exceptions.
CallStub(c) ==
  /\ Runs({"code"}, "run")
  /\ abi = "x86" => c # "cb_fast"
  /\ Len(stack) + 2 <= MaxFrames
  /\ Call(c, "run")
  /\ UNCHANGED <<pending, flags>>

CodeReturns ==
  /\ Runs({"code"}, "run") /\ Len(stack) > 1
  /\ stack' = Front(stack)
  /\ UNCHANGED <<pending, flags>>

\* A structured exception in native code: seh::filter() takes it and the method
\* that invoked the code throws a seh_exception.  Where no method has invoked
\* it, the process ends.
CodeCrashes ==
  /\ Runs({"code"}, "run") /\ Len(stack) > 1
  /\ stack' = Append(Front(Front(stack)),
                     [Last(Front(stack)) EXCEPT !.pc = "unwind", !.exc = "cpp"])
  /\ crashed' = (crashed \/ pending)
  /\ UNCHANGED <<pending, misuse, leaked, refused, attached, abi>>

-------------------------------------------------------------------------------
(* The native methods.                                                     *)

\* call_fast(), call_direct_*(): the arguments are copied, by a jni_array_region.
CopyArgs ==
  /\ Runs({"direct"}, "enter")
  /\ CopyRegion(Goto("invoke"))

\* jni_array<jlong> args_(env, args): a null becomes a jni_bad_alloc.
PinArgs ==
  /\ Runs({"indirect", "vi"}, "enter")
  /\ Jni("GetLongArrayElements")
  /\ \/ Becomes([Top EXCEPT !.pc = "copy", !.args = "pinned"])
     \/ Throw("cpp")
  /\ UNCHANGED <<pending, leaked, refused, attached, crashed, abi>>

\* jni_array_region<jint> ptr_array(env, ptrArray).
CopyPtrs ==
  /\ Runs({"indirect", "vi"}, "copy")
  /\ CopyRegion(Goto("init"))

\* The tuple of the next position of the variable indirect array.
Put(t) == Becomes([Top EXCEPT !.d_arrays = Append(@, t)])

\* Bug: one position too many is filled.
InitializingTooFar == Runs({"vi"}, "init") /\ Len(Top.d_arrays) <= Slots

Initializing == Runs({"vi"}, "init") /\ Len(Top.d_arrays) < Slots

\* No pointer to this position (or UNKNOWN_LOCATION), or put_null().
PutNull ==
  /\ Initializing
  /\ \E pp \in BOOLEAN :
       Put([d_elems |-> FALSE, d_pp_arr |-> pp, d_global |-> FALSE])
  /\ Jni("GetObjectArrayElement")
  /\ UNCHANGED <<pending, leaked, refused, attached, crashed, abi>>

\* put_not_null(), both JNI functions succeeding or the first one failing.
PutNotNull ==
  /\ Initializing
  /\ Jni("GetByteArrayElements")
  /\ \/ /\ Put([d_elems |-> TRUE, d_pp_arr |-> TRUE, d_global |-> TRUE])
        /\ UNCHANGED pending
     \/ JniFails
  /\ UNCHANGED <<leaked, refused, attached, crashed, abi>>

\* put_not_null(), NewGlobalRef() failing: only an exception is looked for.
PutNotNullRefused ==
  /\ Initializing
  /\ Jni("NewGlobalRef")
  /\ refused' = refused \cup {"elems"}
  /\ \/ /\ Put([d_elems |-> TRUE, d_pp_arr |-> TRUE, d_global |-> FALSE])
        /\ UNCHANGED pending
     \/ /\ Becomes([Top EXCEPT !.pc = "unwind", !.exc = "pending", !.d_arrays =
                      Append(@, [d_elems |-> TRUE, d_pp_arr |-> FALSE,
                                 d_global |-> FALSE])])
        /\ pending' = TRUE
  /\ UNCHANGED <<leaked, attached, crashed, abi>>

\* ptrs_init() and ptrs_init_vi() are done.
Initialized ==
  /\ Runs({"indirect", "vi"}, "init")
  /\ Top.kind = "vi" => Len(Top.d_arrays) = Slots
  /\ Goto("invoke")
  /\ UNCHANGED <<pending, flags>>

Invoke ==
  /\ Runs(Invoking, "invoke")
  /\ Call("code", "returned")
  /\ UNCHANGED <<pending, flags>>

\* The code has returned; invoke_stdcall_basic() looks for an exception.
Returned ==
  /\ Runs({"direct", "indirect"}, "returned")
  /\ IF abi = "x86" /\ pending THEN Throw("pending") ELSE Goto("unwind")
  /\ UNCHANGED <<pending, flags>>

\* call_vi_fp(): JNI_EXCEPTION_CHECK, put_return_value(), the instructions are
\* copied.
ReturnedVi ==
  /\ Runs({"vi"}, "returned")
  /\ \/ pending /\ Throw("pending") /\ UNCHANGED <<pending, flags>>
     \/ ~pending /\ CopyRegion(Goto("finish"))

\* ptrs_finish_vi(), one position, by its instruction.
Finishing == Runs({"vi"}, "finish") /\ Top.next < Slots
Finished1 == Becomes([Top EXCEPT !.next = @ + 1])

FinishNoAction ==
  /\ Finishing
  /\ Finished1
  /\ UNCHANGED <<pending, flags>>

\* ordinal_enum_to_cpp(): the number is no instruction.
FinishOutOfRange ==
  /\ Finishing
  /\ Throw("cpp")
  /\ UNCHANGED <<pending, flags>>

\* A string or a resource: made under seh::convert_to_cpp(), as the pointer may
\* be wild, and put in place of the byte array.  Where no pointer led to the
\* position, d_pp_arr is null and is followed all the same, outside of any seh:
\* the process ends, so that there is no step.
FinishReplace ==
  /\ Finishing
  /\ Top.d_arrays[Top.next + 1].d_pp_arr
  /\ Jni("SetObjectArrayElement")
  /\ (Finished1 /\ UNCHANGED pending) \/ JniFails
  /\ UNCHANGED <<leaked, refused, attached, crashed, abi>>

FinishDone ==
  /\ Runs({"vi"}, "finish") /\ Top.next = Slots
  /\ Goto("unwind")
  /\ UNCHANGED <<pending, flags>>

-------------------------------------------------------------------------------
(* The methods that call no native code.                                   *)

\* Step i of a method is done.
Step == Top.next + 1
Done == Becomes([Top EXCEPT !.next = Step])
AtStep(kinds) == /\ Runs(DOMAIN Steps, "steps")
                 /\ Step \in DOMAIN Steps[Top.kind]
                 /\ Steps[Top.kind][Step] \in kinds

\* logThreshold(null) only asks for the level.
SkipConversion ==
  /\ Runs({"logThreshold"}, "steps") /\ Top.next = 0
  /\ Becomes([Top EXCEPT !.next = 2])
  /\ UNCHANGED <<pending, flags>>

ReadRegion == AtStep({"region"}) /\ CopyRegion(Done)

\* A JNI function and JNI_EXCEPTION_CHECK; or a string, for which there may be
\* no memory: its region is all of it, so that the JVM has nothing to object to.
CallJni ==
  /\ AtStep({"string", "call", "element", "NewString"})
  /\ Jni(Steps[Top.kind][Step])
  /\ \/ Done /\ UNCHANGED pending
     \/ IF Steps[Top.kind][Step] = "string" THEN Throw("cpp") /\ UNCHANGED pending
                                             ELSE JniFails
  /\ UNCHANGED <<leaked, refused, attached, crashed, abi>>

\* throw_out_of_range().
CheckRange ==
  /\ AtStep({"range"})
  /\ Done \/ Throw("cpp")
  /\ UNCHANGED <<pending, flags>>

\* jni_array or jni_critical_array data_(env, data).
PinData ==
  /\ AtStep({"pin", "critical"})
  /\ Jni("GetLongArrayElements")
  /\ \/ Becomes([Top EXCEPT !.next = Step, !.args =
                   IF Steps[Top.kind][Step] = "critical" THEN "critical" ELSE "pinned"])
     \/ Throw("cpp")
  /\ UNCHANGED <<pending, leaked, refused, attached, crashed, abi>>

\* memcpy(), unmarshall_indirect() and unmarshall_vi(), under seh.
CopyOut ==
  /\ AtStep({"memcpy", "unmarshall"})
  /\ IF Steps[Top.kind][Step] = "unmarshall" THEN Jni("SetObjectArrayElement")
                                             ELSE UNCHANGED misuse
  /\ \/ (Done \/ Throw("cpp")) /\ UNCHANGED pending
     \/ Steps[Top.kind][Step] = "unmarshall" /\ JniFails
  /\ UNCHANGED <<leaked, refused, attached, crashed, abi>>

StepsDone ==
  /\ Runs(DOMAIN Steps, "steps") /\ Top.next = Len(Steps[Top.kind])
  /\ Goto("unwind")
  /\ UNCHANGED <<pending, flags>>

-------------------------------------------------------------------------------
(* newThunk64() and newThunkX86().                                         *)

\* In the 32 bit library the array for the addresses is pinned first.
AfterPtrs == IF abi = "x86" THEN "out" ELSE "construct"
AfterCallback == IF abi = "x86" THEN "thunk" ELSE "out"
AfterOut == IF abi = "x86" THEN "construct" ELSE "thunk"

\* A fast callback needs no pointers; for any other they are copied first.
ChooseCallback ==
  /\ Runs({"newThunk"}, "enter")
  /\ \/ abi = "amd64" /\ Goto(AfterPtrs) /\ UNCHANGED <<pending, flags>>
     \/ CopyRegion(Goto(AfterPtrs))

\* A constructor that fails has no destructor: what it has taken is left.
ConstructorFails ==
  /\ JniFails
  /\ refused' = refused \cup {x \in {"callback"} : Top.refs > 0}

\* jsdi_callback_base(): globalize() the callback, then the bound value.
Globalize ==
  /\ Runs({"newThunk"}, "construct") /\ Top.refs < 2
  /\ Jni("NewGlobalRef")
  /\ \/ /\ Becomes([Top EXCEPT !.refs = @ + 1])
        /\ UNCHANGED <<pending, refused>>
     \/ ConstructorFails
  /\ UNCHANGED <<leaked, attached, crashed, abi>>

\* jsdi_callback_base(): GetJavaVM().  The callback is complete, and owned.
FetchJvm ==
  /\ Runs({"newThunk"}, "construct") /\ Top.refs = 2
  /\ Jni("GetJavaVM")
  /\ \/ /\ Becomes([Top EXCEPT !.pc = AfterCallback, !.owner = "callback_ptr"])
        /\ UNCHANGED <<pending, refused>>
     \/ ConstructorFails
  /\ UNCHANGED <<leaked, attached, crashed, abi>>

\* jni_array<jlong> out_thunk_addrs(env, outThunkAddrs).
PinOut ==
  /\ Runs({"newThunk"}, "out")
  /\ Jni("GetLongArrayElements")
  /\ \/ Becomes([Top EXCEPT !.pc = AfterOut, !.args = "pinned"])
     \/ Throw("cpp")
  /\ UNCHANGED <<pending, leaked, refused, attached, crashed, abi>>

\* The stub's memory, its code or its exception data cannot be had.
StubFails == Throw("cpp")

\* The thunk shares the callback, and Java gets its addresses.
ThunkMade == Becomes([Top EXCEPT !.pc = "unwind", !.owner = "thunk"])

\* new thunk64.
NewThunk ==
  /\ Runs({"newThunk"}, "thunk")
  /\ StubFails \/ ThunkMade
  /\ UNCHANGED <<pending, flags>>

-------------------------------------------------------------------------------
(* The callbacks, as wrapper() calls them.                                 *)

\* Bug: a callback starts although an exception is pending.
EnterUnchecked ==
  /\ Runs(Callbacks, "enter")
  /\ Goto(IF Top.kind = "cb_fast" THEN "call" ELSE "array")
  /\ attached' = TRUE
  /\ UNCHANGED <<pending, misuse, leaked, refused, crashed, abi>>

\* fetch_env() attaches the thread, JNI_EXCEPTION_CHECK.
EnterCallback ==
  /\ Runs(Callbacks, "enter")
  /\ IF pending THEN Throw("pending")
                ELSE Goto(IF Top.kind = "cb_fast" THEN "call" ELSE "array")
  /\ attached' = TRUE
  /\ UNCHANGED <<pending, misuse, leaked, refused, crashed, abi>>

\* fetch_env() fails: the callback returns 0, outside of any handler.
NotAttached ==
  /\ Runs(Callbacks, "enter") /\ ~attached
  /\ stack' = Front(stack)
  /\ UNCHANGED <<pending, flags>>

\* NewLongArray(), and NewObjectArray() of a variable indirect callback.
NewArrays ==
  /\ Runs(Callbacks, "array")
  /\ Jni("NewLongArray")
  /\ (Goto("pin") /\ UNCHANGED pending) \/ JniFails
  /\ UNCHANGED <<leaked, refused, attached, crashed, abi>>

\* jni_critical_array, or jni_array where JNI functions are called meanwhile.
PinArray ==
  /\ Runs(Callbacks, "pin")
  /\ Jni("GetPrimitiveArrayCritical")
  /\ \/ Becomes([Top EXCEPT !.pc = "unmarshall", !.args =
                   IF Top.kind = "cb_vi" THEN "pinned" ELSE "critical"])
     \/ Throw("cpp")
  /\ UNCHANGED <<pending, leaked, refused, attached, crashed, abi>>

\* Bug: the array is still held when the Java method is called.
UnmarshallHeld ==
  /\ Runs(Callbacks, "unmarshall")
  /\ Goto("call")
  /\ UNCHANGED <<pending, flags>>

\* memcpy(), unmarshall_indirect() and unmarshall_vi(): following a wild pointer
\* is a seh_exception; the strings of the last one are JNI objects.
Unmarshall ==
  /\ Runs(Callbacks, "unmarshall")
  /\ IF Top.kind = "cb_vi" THEN Jni("SetObjectArrayElement") ELSE UNCHANGED misuse
  /\ \/ Goto("unpin") /\ UNCHANGED pending
     \/ Top.kind # "cb_direct" /\ Throw("cpp") /\ UNCHANGED pending
     \/ Top.kind = "cb_vi" /\ JniFails
  /\ UNCHANGED <<leaked, refused, attached, crashed, abi>>

\* The end of the scope of the array.
Unpin ==
  /\ Runs(Callbacks, "unpin")
  /\ Becomes([Top EXCEPT !.pc = "call", !.args = "none"])
  /\ UNCHANGED <<pending, flags>>

\* CallStaticLongMethod(), CallNonvirtualLongMethodA().
CallJava ==
  /\ Runs(Callbacks, "call")
  /\ Jni("CallNonvirtualLongMethodA")
  /\ Call("java", "unwind")
  /\ UNCHANGED <<pending, leaked, refused, attached, crashed, abi>>

-------------------------------------------------------------------------------
(* The end of every C++ frame.                                             *)

\* Bug: the container forgets the global references when it unwinds.
DestroyNoDelete ==
  LET T == Top.d_arrays IN
  /\ Runs(Cpp, "unwind")
  /\ Becomes([Top EXCEPT !.pc = "handler", !.args = "none", !.d_arrays = <<>>, !.refs = 0])
  /\ leaked' = leaked
       \cup {x \in {"elems"} : \E k \in DOMAIN T : T[k].d_elems /\ ~T[k].d_global}
       \cup {x \in {"global"} : Top.exc # "none" /\ \E k \in DOMAIN T : T[k].d_global}
       \cup {x \in {"callback"} : Top.refs > 0 /\ Top.owner = "nobody"}
  /\ UNCHANGED <<pending, misuse, refused, attached, crashed, abi>>

\* Destructors, exception or not: ~marshalling_vi_container() releases what it has
\* a global reference for, then ~jni_array() or ~jni_critical_array(); and
\* ~jsdi_callback_base(), unless the callback went to a thunk or is incomplete.
Destroy ==
  LET T == Top.d_arrays IN
  /\ Runs(Cpp, "unwind")
  /\ Becomes([Top EXCEPT !.pc = "handler", !.args = "none", !.d_arrays = <<>>, !.refs = 0])
  /\ leaked' = leaked
       \cup {x \in {"elems"} : \E k \in DOMAIN T : T[k].d_elems /\ ~T[k].d_global}
       \cup {x \in {"global"} : \E k \in DOMAIN T : T[k].d_global /\ ~T[k].d_elems}
       \cup {x \in {"callback"} : Top.refs > 0 /\ Top.owner = "nobody"}
  /\ UNCHANGED <<pending, misuse, refused, attached, crashed, abi>>

\* The frame is popped.  If it was a callback that did not complete, the method
\* under which it ran is marked, or the native code that the thread began in.
Pop == stack' = IF Top.kind \in Callbacks /\ (Top.exc # "none" \/ pending')
                THEN [Front(stack) EXCEPT
                        ![IF Len(stack) = 2 THEN 1 ELSE Len(stack) - 2].missed = TRUE]
                ELSE Front(stack)

\* Bug: a C++ exception is logged and forgotten.
HandlerSwallows ==
  /\ Runs(Cpp, "handler")
  /\ UNCHANGED <<pending, flags>>
  /\ Pop

\* JNI_EXCEPTION_SAFE_CPP_END: throw_jni() leaves a pending exception alone if
\* the jni_exception knows of it, and calls FindClass() and ThrowNew() if not.
Handler ==
  /\ Runs(Cpp, "handler")
  /\ \/ Top.exc # "cpp" /\ UNCHANGED <<pending, misuse>>
     \/ Top.exc = "cpp" /\ Jni("ThrowNew") /\ pending' = TRUE
  /\ Pop
  /\ UNCHANGED <<leaked, refused, attached, crashed, abi>>

\* Undefined behaviour: nothing more is said.
Undefined == misuse # {} /\ UNCHANGED vars

Next == \/ \E m \in Methods : CallNative(m)
        \/ \E c \in Callbacks : CallStub(c)
        \/ JavaCatches \/ JavaLeaves \/ CodeReturns \/ CodeCrashes
        \/ CopyArgs \/ PinArgs \/ CopyPtrs \/ PutNull \/ PutNotNull \/ PutNotNullRefused
        \/ Initialized \/ Invoke \/ Returned \/ ReturnedVi
        \/ FinishNoAction \/ FinishOutOfRange \/ FinishReplace \/ FinishDone
        \/ SkipConversion \/ ReadRegion \/ CallJni \/ CheckRange \/ PinData \/ CopyOut \/ StepsDone
        \/ ChooseCallback \/ Globalize \/ FetchJvm \/ PinOut \/ NewThunk
        \/ EnterCallback \/ NotAttached \/ NewArrays \/ PinArray \/ Unmarshall \/ Unpin \/ CallJava
        \/ Destroy \/ Handler
        \/ Undefined

Spec == Init /\ [][Next]_vars

-------------------------------------------------------------------------------
\* Well-typed; Java or native code is at the bottom of the stack, and no position
\* outside the variable indirect array is ever filled.
TypeOK == /\ stack \in Seq(Frame) /\ Len(stack) \in 1 .. MaxFrames
          /\ stack[1].kind \in {"java", "code"}
          /\ \A i \in DOMAIN stack : Len(stack[i].d_arrays) <= Slots
          /\ abi \in {"amd64", "x86"}
          /\ pending \in BOOLEAN /\ attached \in BOOLEAN /\ crashed \in BOOLEAN
          /\ leaked \subseteq {"elems", "global", "callback", "buffer"}
          /\ refused \subseteq {"elems", "callback", "buffer"}

\* JNI functions are called with an exception pending only by the handler of a
\* method whose native code crashed while a callback had left one pending; on
\* no other path of any call or callback, however deeply nested (the reason
\* for every JNI_EXCEPTION_CHECK, jni_exception.h:94-110).
JniDiscipline == misuse # {} => misuse = {"ThrowNew"} /\ crashed

\* The assertion of throw_jni() (jni_exception.cpp): a jni_exception that says an
\* exception is pending is right about it when it is caught.
PendingAssertion ==
  \A i \in DOMAIN stack : stack[i].exc = "pending" => pending

\* The native code cannot see that a callback failed or was skipped and gets 0
\* from it; but the Java caller does: the exception is still pending when the
\* method returns, after any number of further callbacks and frames.  A thread
\* that began in native code keeps it for good, and its callbacks are skipped.
MissedIsReported == \A i \in DOMAIN stack : stack[i].missed => pending

\* Every array and global reference is given back on every way out of a method
\* or callback, except for elements that no global reference could be made for
\* (marshalling.cpp:24-68), for what a callback's constructor had taken before it
\* failed (jsdi_callback.cpp:42-63), and for the buffer of an array region that
\* could not be copied (jni_util.h:315-338); a complete callback goes to its thunk
\* or is destroyed.
NothingLeaked == leaked \subseteq refused

\* The arguments stay pinned while native code may use them, and a callback's
\* array never stays held under its Java method (jsdi_callback.cpp:281-291).
PinnedWhileUsed ==
  \A i \in 1 .. Len(stack) - 1 :
     stack[i].args = (IF stack[i].kind \in {"indirect", "vi"} THEN "pinned" ELSE "none")

-------------------------------------------------------------------------------
(* What the documentation says and the code does not do.                   *)

\* jni_exception.h:171-175: the pending flag given to a jni_exception accurately
\* says whether a JNI exception is pending; the handler of any other C++
\* exception gives it FALSE.
PendingFlagAccurate ==
  Runs(Cpp, "handler") /\ Top.exc = "cpp" => ~pending

===============================================================================
