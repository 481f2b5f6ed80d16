------------------------------- MODULE ComObject -------------------------------
(***************************************************************************)
(* Reference counts, strings and monitors around                           *)
(* suneido.jsdi.com.COMobject: the conversions and calls of com.cpp and    *)
(* the native methods of _jni_interface.cpp, run by several Java threads.  *)
(*                                                                         *)
(* A COMobject owns one reference to the COM interface in its field ptr    *)
(* until it is released.  Its Java side is not in the repository: com.cpp  *)
(* relies on every get, put and call locking the object for its whole      *)
(* duration, and on release() being ordered against them (com.cpp:329-344).*)
(* The COM servers are external as well: Invoke() consumes the references  *)
(* packed into its arguments, or refuses the call before it looks at them. *)
(***************************************************************************)
EXTENDS Integers, FiniteSets, SequencesExt

CONSTANTS Threads, Objects, Ifaces, NoObject, NoIface,
          Bstr,      \* any BSTR: counted like the references to an interface
          Existing,  \* the COMobjects there are at the start, and their ptr
          Plain,     \* an argument that is converted without a reference, or refused
          Text,      \* an argument that is converted to a BSTR
          CallArgs,  \* bound: every method call has so many arguments
          MaxOps     \* bound: operations of all threads together

ASSUME ComAssumption == /\ IsFiniteSet(Threads) /\ IsFiniteSet(Objects)
                        /\ NoIface \notin Ifaces \cup {Bstr} /\ Bstr \notin Ifaces
                        /\ NoObject \notin Objects
                        /\ Existing \in [Objects -> Ifaces \cup {NoIface}]
                        /\ CallArgs \in Nat /\ MaxOps \in Nat

VARIABLES
  refs,      \* COM reference count of each interface, 0: not created yet, or freed;
             \* and the number of BSTRs allocated
  freed,     \* interfaces whose count came back to 0
  lost,      \* references and BSTRs that nothing can release any more
  ptr,       \* COMobject.ptr; NoIface: the object is not constructed yet
  unknown,   \* COMobjects whose ptr is an IUnknown, not an IDispatch
  released,  \* COMobject.release() was called
  monitor,   \* how often each thread has entered the monitor of each object
  pc, op, recv, args,  \* per thread: position, operation, receiver, arguments left
  var_args,  \* per thread: the variants converted so far, last argument first
  result,    \* per thread: the interface or BSTR in the result
  dispatch,  \* per thread: the interface in the result is an IDispatch
  ops,       \* operations begun, for the bound
  damaged    \* an interface was used after it was freed

heap == <<refs, freed, lost>>
java == <<ptr, unknown, released>>
call == <<op, recv, args>>
out == <<result, dispatch>>
vars == <<heap, java, monitor, pc, call, var_args, out, ops, damaged>>

Counted == Ifaces \cup {Bstr}
Values == Objects \cup {Plain, Text}
Methods == {"get", "put", "call"}
Ops == Methods \cup {"query", "release"}
Pcs == {"idle", "enter", "native", "ids", "dispid", "convert", "monitor", "verify",
        "addref", "unwind", "excepinfo", "result", "progid", "construct", "clear",
        "query", "query_progid", "create", "create_instance", "wrap", "release", "leave"}

Init == /\ ptr = Existing
        /\ unknown = {}
        /\ released = [o \in Objects |-> FALSE]
        /\ refs = [i \in Counted |-> Cardinality({o \in Objects : Existing[o] = i})]
        /\ freed = {}
        /\ lost = [i \in Counted |-> 0]
        /\ monitor = [o \in Objects |-> [t \in Threads |-> 0]]
        /\ pc = [t \in Threads |-> "idle"]
        /\ op = [t \in Threads |-> "get"]
        /\ recv = [t \in Threads |-> NoObject]
        /\ args = [t \in Threads |-> <<>>]
        /\ var_args = [t \in Threads |-> <<>>]
        /\ result = [t \in Threads |-> NoIface]
        /\ dispatch = [t \in Threads |-> FALSE]
        /\ ops = 0
        /\ damaged = FALSE

-------------------------------------------------------------------------------
At(t, p) == ~damaged /\ pc[t] = p
Go(t, p) == pc' = [pc EXCEPT ![t] = p]

\* How often i occurs in a sequence of variants.
Count(s, i) == Cardinality({j \in DOMAIN s : s[j] = i})

\* AddRef() once for each interface of one sequence, Release() for the other; a
\* BSTR is allocated and freed.
AddAndRelease(add, drop) ==
  LET new == [i \in Counted |-> refs[i] + Count(add, i) - Count(drop, i)] IN
  /\ refs' = new
  /\ freed' = freed \cup {i \in Ifaces : new[i] = 0 /\ Count(drop, i) > 0}

AddRef(i) == AddAndRelease(<<i>>, <<>>)
Release(s) == AddAndRelease(<<>>, s)

\* Nothing will release one sequence of variants.
Lose(s) == lost' = [i \in Counted |-> lost[i] + Count(s, i)]

Enter(t, o) == /\ \A u \in Threads \ {t} : monitor[o][u] = 0
               /\ monitor' = [monitor EXCEPT ![o][t] = @ + 1]
Exit(t, o) == monitor' = [monitor EXCEPT ![o][t] = @ - 1]

-------------------------------------------------------------------------------
(* The Java side.                                                          *)

ArgLists(k) == CASE k = "call" -> TupleOf(Values, CallArgs)
                 [] k = "put"  -> {<<v>> : v \in Values}
                 [] OTHER      -> {<<>>}

Constructed(v) == v \in Objects => ptr[v] # NoIface

\* A pointer that is no IDispatch can be asked for one, and nothing else.
Begin(t, o, k, vals) ==
  /\ At(t, "idle") /\ ops < MaxOps /\ ops' = ops + 1
  /\ ptr[o] # NoIface
  /\ k \in Methods => o \notin unknown
  /\ k = "query" => o \in unknown
  /\ vals \in ArgLists(k) /\ \A j \in DOMAIN vals : Constructed(vals[j])
  /\ Go(t, "enter")
  /\ op' = [op EXCEPT ![t] = k]
  /\ recv' = [recv EXCEPT ![t] = o]
  /\ args' = [args EXCEPT ![t] = vals]
  /\ UNCHANGED <<heap, java, monitor, var_args, out, damaged>>

\* synchronized (this), then verifyNotReleased() or the flag of release().  Java
\* gives a member by its name, or by the dispatch id it got for the name before.
EnterReceiver(t) ==
  /\ At(t, "enter")
  /\ Enter(t, recv[t])
  /\ released' = [released EXCEPT ![recv[t]] = @ \/ op[t] = "release"]
  /\ IF released[recv[t]] THEN Go(t, "leave")
     ELSE IF op[t] \in Methods THEN Go(t, "native") \/ Go(t, "convert")
     ELSE Go(t, op[t])
  /\ UNCHANGED <<heap, ptr, unknown, call, var_args, out, ops, damaged>>

Leave(t) ==
  /\ At(t, "leave")
  /\ Exit(t, recv[t])
  /\ recv' = [recv EXCEPT ![t] = NoObject]
  /\ op' = [op EXCEPT ![t] = "get"]
  /\ args' = [args EXCEPT ![t] = <<>>]
  /\ Go(t, "idle")
  /\ UNCHANGED <<heap, java, var_args, out, ops, damaged>>

\* Java asks for a new COMobject.
Create(t) ==
  /\ At(t, "idle") /\ ops < MaxOps /\ ops' = ops + 1
  /\ Go(t, "create")
  /\ UNCHANGED <<heap, java, monitor, call, var_args, out, damaged>>

\* What a native method without a receiver, or with one, goes back to.
Back(t) == Go(t, IF recv[t] = NoObject THEN "idle" ELSE "leave")

\* A pointer that a native method returned: Java puts it into a new COMobject,
\* or gives it back by release().
Wrap(t) ==
  /\ At(t, "wrap")
  /\ \/ \E o \in Objects :
          /\ ptr[o] = NoIface
          /\ ptr' = [ptr EXCEPT ![o] = result[t]]
          /\ unknown' = IF dispatch[t] THEN unknown ELSE unknown \cup {o}
          /\ UNCHANGED <<refs, freed>>
     \/ Release(<<result[t]>>) /\ UNCHANGED <<ptr, unknown>>
  /\ result' = [result EXCEPT ![t] = NoIface]
  /\ dispatch' = [dispatch EXCEPT ![t] = FALSE]
  /\ Back(t)
  /\ UNCHANGED <<lost, released, monitor, call, var_args, ops, damaged>>

-------------------------------------------------------------------------------
(* The native methods.                                                     *)

\* release(): the one reference of the COMobject.
NativeRelease(t) ==
  /\ At(t, "release")
  /\ Release(<<ptr[recv[t]]>>)
  /\ Go(t, "leave")
  /\ UNCHANGED <<lost, java, monitor, call, var_args, out, ops, damaged>>

\* coCreateFromProgId(): check_array_atleast() throws before anything exists;
\* then create_from_progid() copies the program id into a BSTR.
CreateFromProgid(t) ==
  /\ At(t, "create")
  /\ \/ Go(t, "idle") /\ UNCHANGED <<refs, freed>>
     \/ Go(t, "create_instance") /\ AddRef(Bstr)
  /\ UNCHANGED <<lost, java, monitor, call, var_args, out, ops, damaged>>

\* create_from_progid(): CoCreateInstance() hands over the only reference to a
\* new interface, IDispatch before IUnknown, or none; the BSTR is freed.
CoCreateInstance(t) ==
  /\ At(t, "create_instance")
  /\ \/ /\ Release(<<Bstr>>)
        /\ Go(t, "idle")
        /\ UNCHANGED out
     \/ \E i \in Ifaces, d \in BOOLEAN :
          /\ refs[i] = 0 /\ i \notin freed
          /\ AddAndRelease(<<i>>, <<Bstr>>)
          /\ result' = [result EXCEPT ![t] = i]
          /\ dispatch' = [dispatch EXCEPT ![t] = d]
          /\ Go(t, "wrap")
  /\ UNCHANGED <<lost, java, monitor, call, var_args, ops, damaged>>

\* queryIDispatchAndProgId(): check_array_atleast_1() throws, or the interface
\* has no IDispatch, or QueryInterface() adds a reference.
QueryForDispatch(t) ==
  /\ At(t, "query")
  /\ \/ Go(t, "leave") /\ UNCHANGED <<refs, freed, out>>
     \/ /\ AddRef(ptr[recv[t]])
        /\ result' = [result EXCEPT ![t] = ptr[recv[t]]]
        /\ dispatch' = [dispatch EXCEPT ![t] = TRUE]
        /\ Go(t, "query_progid")
  /\ UNCHANGED <<lost, java, monitor, call, var_args, ops, damaged>>

\* queryIDispatchAndProgId(): get_progid() may throw; the pointer is returned
\* all the same, but Java sees the exception and never gets it.
QueryProgid(t) ==
  /\ At(t, "query_progid")
  /\ \/ Go(t, "wrap") /\ UNCHANGED <<lost, out>>
     \/ /\ Lose(<<result[t]>>)
        /\ result' = [result EXCEPT ![t] = NoIface]
        /\ dispatch' = [dispatch EXCEPT ![t] = FALSE]
        /\ Go(t, "leave")
  /\ UNCHANGED <<refs, freed, java, monitor, call, var_args, ops, damaged>>

\* get_dispid_of_name(): the name is copied into a BSTR.
NameToBstr(t) ==
  /\ At(t, "native")
  /\ AddRef(Bstr)
  /\ Go(t, "ids")
  /\ UNCHANGED <<lost, java, monitor, call, var_args, out, ops, damaged>>

\* get_dispid_of_name(): GetIDsOfNames() finds the member or an exception is
\* thrown; the BSTR is freed in both cases.
GetDispid(t) ==
  /\ At(t, "ids")
  /\ Release(<<Bstr>>)
  /\ Go(t, IF op[t] = "put" THEN "convert" ELSE "dispid") \/ Go(t, "leave")
  /\ UNCHANGED <<lost, java, monitor, call, var_args, out, ops, damaged>>

\* check_array_atleast_1() of the array that gets the id throws before the call.
CheckDispid(t) ==
  /\ At(t, "dispid")
  /\ Go(t, "convert") \/ Go(t, "leave")
  /\ UNCHANGED <<heap, java, monitor, call, var_args, out, ops, damaged>>

Converting(t, v) == At(t, "convert") /\ args[t] # <<>> /\ Head(args[t]) = v

\* jsuneido_to_com() has filled the next variant; the arguments of a call are
\* stored back to front.
Converted(t, i) == /\ var_args' = [var_args EXCEPT ![t] = <<i>> \o @]
                   /\ args' = [args EXCEPT ![t] = Tail(@)]

\* jsuneido_to_com(): a number, Boolean or date.
ConvertPlain(t) ==
  /\ Converting(t, Plain)
  /\ Converted(t, NoIface)
  /\ UNCHANGED <<heap, java, monitor, pc, op, recv, out, ops, damaged>>

\* jsuneido_to_com(): a string; the callee, or VariantClear(), frees the BSTR.
\* com_managed_bstr frees it if GetStringRegion() throws.
ConvertText(t) ==
  /\ Converting(t, Text)
  /\ \/ AddRef(Bstr) /\ Converted(t, Bstr) /\ UNCHANGED pc
     \/ Go(t, "unwind") /\ UNCHANGED <<refs, freed, args, var_args>>
  /\ UNCHANGED <<lost, java, monitor, op, recv, out, ops, damaged>>

\* jsuneido_to_com(): an object of any other class throws, and so does a date that
\* COM has no value for.
ConvertBad(t) ==
  /\ Converting(t, Plain)
  /\ Go(t, "unwind")
  /\ UNCHANGED <<heap, java, monitor, call, var_args, out, ops, damaged>>

\* jsuneido_to_com(), a COMobject: jni_auto_monitor(env, in) enters its monitor.
EnterArgument(t) ==
  /\ \E o \in Objects : Converting(t, o) /\ Enter(t, o)
  /\ Go(t, "monitor")
  /\ UNCHANGED <<heap, java, call, var_args, out, ops, damaged>>

\* jni_auto_monitor(env, in): MonitorEnter() fails, which nothing ever has to.
MonitorRefused(t) ==
  /\ \E o \in Objects : Converting(t, o)
  /\ Go(t, "unwind")
  /\ UNCHANGED <<heap, java, monitor, call, var_args, out, ops, damaged>>

\* Bug: the monitor of an argument stays entered.
ExitArgumentNever(t) ==
  /\ At(t, "monitor")
  /\ Go(t, "verify")
  /\ UNCHANGED <<heap, java, monitor, call, var_args, out, ops, damaged>>

\* The jni_auto_monitor is a temporary: it is destroyed, and the monitor exited,
\* at the end of the statement that creates it.
ExitArgument(t) ==
  /\ At(t, "monitor")
  /\ Exit(t, Head(args[t]))
  /\ Go(t, "verify")
  /\ UNCHANGED <<heap, java, call, var_args, out, ops, damaged>>

\* verifyNotReleased() of the argument throws if it was released.
VerifyArgument(t) ==
  /\ At(t, "verify")
  /\ Go(t, IF released[Head(args[t])] THEN "unwind" ELSE "addref")
  /\ UNCHANGED <<heap, java, monitor, call, var_args, out, ops, damaged>>

\* Read ptr, ask isDispatch(), AddRef(): undefined behaviour if it was freed.  An
\* exception of isDispatch() is looked for after AddRef() only; then the variant
\* is full, and nothing clears it.
AddRefArgument(t) ==
  LET i == ptr[Head(args[t])] IN
  /\ At(t, "addref")
  /\ \/ /\ i \in freed
        /\ damaged' = TRUE
        /\ UNCHANGED <<heap, pc, args, var_args>>
     \/ /\ i \notin freed
        /\ AddRef(i)
        /\ Converted(t, i)
        /\ Go(t, "convert")
        /\ UNCHANGED <<lost, damaged>>
     \/ /\ i \notin freed
        /\ AddRef(i)
        /\ Lose(<<i>>)
        /\ Go(t, "unwind")
        /\ UNCHANGED <<args, var_args, damaged>>
  /\ UNCHANGED <<java, monitor, op, recv, out, ops>>

\* Bug: an exception leaves the converted arguments as they are.
UnwindNothing(t) ==
  /\ At(t, "unwind")
  /\ var_args' = [var_args EXCEPT ![t] = <<>>]
  /\ Go(t, "leave")
  /\ UNCHANGED <<heap, java, monitor, call, out, ops, damaged>>

\* The catch block of call_method(): VariantClear() of the variants before the
\* one that failed.  property_put() has only the one, and no catch block.
Unwind(t) ==
  /\ At(t, "unwind")
  /\ Release(var_args[t])
  /\ var_args' = [var_args EXCEPT ![t] = <<>>]
  /\ Go(t, "leave")
  /\ UNCHANGED <<lost, java, monitor, call, out, ops, damaged>>

\* What a server can return: nothing that counts, a BSTR, itself, or something new.
Results(t) == {NoIface} \cup (IF op[t] = "put" THEN {} ELSE
                 {Bstr, ptr[recv[t]]} \cup {i \in Ifaces : refs[i] = 0 /\ i \notin freed})

\* IDispatch::Invoke() once every argument is converted.
Invoke(t) ==
  /\ At(t, "convert") /\ args[t] = <<>>
  /\ \/ \E r \in Results(t), d \in BOOLEAN :  \* the server consumes the arguments and succeeds
          /\ d => r \in Ifaces
          /\ AddAndRelease(<<r>>, var_args[t])
          /\ result' = [result EXCEPT ![t] = r]
          /\ dispatch' = [dispatch EXCEPT ![t] = d]
          /\ Go(t, "result")
          /\ UNCHANGED lost
     \/ /\ Release(var_args[t])  \* it consumes them and fails
        /\ Go(t, "leave")
        /\ UNCHANGED <<lost, out>>
     \/ /\ AddAndRelease(<<Bstr>>, var_args[t])  \* it fails and describes why
        /\ Go(t, "excepinfo")
        /\ UNCHANGED <<lost, out>>
     \/ /\ Lose(var_args[t])  \* it refuses
        /\ Go(t, "leave")
        /\ UNCHANGED <<refs, freed, out>>
  /\ var_args' = [var_args EXCEPT ![t] = <<>>]
  /\ UNCHANGED <<java, monitor, call, ops, damaged>>

\* append_excepinfo() under throw_invoke_fail(): the strings of the EXCEPINFO,
\* counted as one, are freed as the message is made of them, unless the deferred
\* fill-in fails or the stream throws first.
AppendExcepinfo(t) ==
  /\ At(t, "excepinfo")
  /\ \/ Release(<<Bstr>>) /\ UNCHANGED lost
     \/ Lose(<<Bstr>>) /\ UNCHANGED <<refs, freed>>
  /\ Go(t, "leave")
  /\ UNCHANGED <<java, monitor, call, var_args, out, ops, damaged>>

\* com_to_jsuneido() of a result that is no interface: it is copied into a Java
\* object, which may throw; com_managed_variant clears it either way.  A VT_BYREF
\* of nothing is copied first, by VariantCopyInd() into a buffer that is cleared as
\* well: neither has anything that counts.
ConvertResult(t) ==
  /\ At(t, "result") /\ result[t] \notin Ifaces
  /\ Go(t, "clear")
  /\ UNCHANGED <<heap, java, monitor, call, var_args, out, ops, damaged>>

\* Bug: the COMobject takes over the reference that VariantClear() will release.
AddRefResultNot(t) ==
  /\ At(t, "result") /\ result[t] \in Ifaces
  /\ Go(t, IF dispatch[t] THEN "progid" ELSE "construct")
  /\ UNCHANGED <<heap, java, monitor, call, var_args, out, ops, damaged>>

\* com_to_jsuneido() of an interface, jni_make_comobject(): the COMobject to come
\* gets a reference of its own.
AddRefResult(t) ==
  /\ At(t, "result") /\ result[t] \in Ifaces
  /\ AddRef(result[t])
  /\ Go(t, IF dispatch[t] THEN "progid" ELSE "construct")
  /\ UNCHANGED <<lost, java, monitor, call, var_args, out, ops, damaged>>

\* jni_make_comobject() of an IDispatch: get_progid() asks the server for its
\* name and frees it; if it throws, com_managed_interface gives the reference back.
GetProgid(t) ==
  /\ At(t, "progid")
  /\ \/ Go(t, "construct") /\ UNCHANGED <<refs, freed>>
     \/ Go(t, "clear") /\ Release(<<result[t]>>)
  /\ UNCHANGED <<lost, java, monitor, call, var_args, out, ops, damaged>>

\* jni_make_comobject(): NewObject(), which may throw; then com_managed_interface
\* gives the reference back.
Construct(t) ==
  /\ At(t, "construct")
  /\ \/ \E o \in Objects :
          /\ ptr[o] = NoIface
          /\ ptr' = [ptr EXCEPT ![o] = result[t]]
          /\ unknown' = IF dispatch[t] THEN unknown ELSE unknown \cup {o}
          /\ UNCHANGED <<refs, freed>>
     \/ Release(<<result[t]>>) /\ UNCHANGED <<ptr, unknown>>
  /\ Go(t, "clear")
  /\ UNCHANGED <<lost, released, monitor, call, var_args, out, ops, damaged>>

\* Bug: the result variant is cleared by com_to_jsuneido() and by its owner.
ClearResultTwice(t) ==
  /\ At(t, "clear")
  /\ Release(<<result[t], result[t]>>)
  /\ result' = [result EXCEPT ![t] = NoIface]
  /\ dispatch' = [dispatch EXCEPT ![t] = FALSE]
  /\ Go(t, "leave")
  /\ UNCHANGED <<lost, java, monitor, call, var_args, ops, damaged>>

\* com_managed_variant: VariantClear() of the result, exception or not.
ClearResult(t) ==
  /\ At(t, "clear")
  /\ Release(<<result[t]>>)
  /\ result' = [result EXCEPT ![t] = NoIface]
  /\ dispatch' = [dispatch EXCEPT ![t] = FALSE]
  /\ Go(t, "leave")
  /\ UNCHANGED <<lost, java, monitor, call, var_args, ops, damaged>>

-------------------------------------------------------------------------------
Creating(t) == \/ CreateFromProgid(t) \/ CoCreateInstance(t) \/ Wrap(t)
               \/ QueryForDispatch(t) \/ QueryProgid(t)

LookingUp(t) == NameToBstr(t) \/ GetDispid(t) \/ CheckDispid(t)

InCall(t) == \/ EnterReceiver(t) \/ Leave(t) \/ NativeRelease(t)
             \/ Creating(t) \/ LookingUp(t)
             \/ ConvertPlain(t) \/ ConvertText(t) \/ ConvertBad(t)
             \/ EnterArgument(t) \/ ExitArgument(t) \/ VerifyArgument(t)
             \/ AddRefArgument(t) \/ Unwind(t)
             \/ Invoke(t) \/ AppendExcepinfo(t)
             \/ ConvertResult(t) \/ AddRefResult(t) \/ GetProgid(t)
             \/ Construct(t) \/ ClearResult(t)

Next == \E t \in Threads :
          \/ InCall(t)
          \/ Create(t)
          \/ MonitorRefused(t)
          \/ \E o \in Objects, k \in Ops : \E vals \in ArgLists(k) : Begin(t, o, k, vals)

Spec == Init /\ [][Next]_vars

\* Threads inside a call are scheduled, servers answer, and a monitor that is
\* free is granted; the calls are bounded, so weak fairness is enough for it.
\* MonitorRefused() is no part of it: that a wait fails is not to be relied on.
FairSpec == Spec /\ \A t \in Threads : WF_vars(InCall(t))

-------------------------------------------------------------------------------
\* Well-typed; in particular no count falls below zero.
TypeOK ==
  /\ refs \in [Counted -> Nat] /\ freed \subseteq Ifaces /\ lost \in [Counted -> Nat]
  /\ ptr \in [Objects -> Ifaces \cup {NoIface}] /\ unknown \subseteq Objects
  /\ released \in [Objects -> BOOLEAN]
  /\ monitor \in [Objects -> [Threads -> Nat]]
  /\ pc \in [Threads -> Pcs] /\ op \in [Threads -> Ops]
  /\ recv \in [Threads -> Objects \cup {NoObject}] /\ args \in [Threads -> Seq(Values)]
  /\ var_args \in [Threads -> Seq(Counted \cup {NoIface})]
  /\ result \in [Threads -> Counted \cup {NoIface}] /\ dispatch \in [Threads -> BOOLEAN]
  /\ ops \in 0 .. MaxOps /\ damaged \in BOOLEAN

\* Who holds references to i, or BSTRs: COMobjects that are not released, threads
\* that release one, or have i in a result, or have a reference for the COMobject
\* they are making, or a BSTR for a program id, a name or an EXCEPINFO; and variants.
Owners(i) == {o \in Objects : ptr[o] = i /\ ~released[o]}
Releasing(i) == {t \in Threads : pc[t] = "release" /\ ptr[recv[t]] = i}
Resulting(i) == {t \in Threads : result[t] = i}
Making(i) == {t \in Threads : pc[t] \in {"progid", "construct"} /\ result[t] = i}
Naming(i) == {t \in Threads : pc[t] \in {"create_instance", "ids", "excepinfo"} /\ i = Bstr}
Variants(i) == {tj \in Threads \X (1 .. CallArgs + 1) :
                  tj[2] \in DOMAIN var_args[tj[1]] /\ var_args[tj[1]][tj[2]] = i}

\* The references to i that something still owes a Release() for, and what is lost.
Holders(i) ==
  Cardinality(Owners(i)) + Cardinality(Releasing(i)) + Cardinality(Resulting(i))
  + Cardinality(Making(i)) + Cardinality(Naming(i)) + Cardinality(Variants(i)) + lost[i]

\* No reference and no string is leaked and none is released twice, on any path,
\* exceptions included, but in the four places that lose one: an argument whose
\* isDispatch() throws, arguments of a call the server refuses, an EXCEPINFO that
\* cannot be written down, and the IDispatch whose program id cannot be read.  The
\* count of every interface, and of the BSTRs, is the number of its holders
\* (com.cpp:49-70, 214-254, 327-378, 483-510, 579-728; _jni_interface.cpp:348-398).
RefsAccounted == ~damaged => \A i \in Counted : refs[i] = Holders(i)

\* The interface of the receiver is not freed while a native method uses it,
\* whatever other threads release: the caller's monitor and the reference of
\* the COMobject protect it.
ReceiverAlive ==
  \A t \in Threads : recv[t] # NoObject /\ pc[t] \notin {"enter", "leave"}
                       => ptr[recv[t]] \notin freed

\* Use after free happens only to an argument that was released between
\* verifyNotReleased() and AddRef() (com.cpp:345-369), never otherwise.
DamageOnlyByRelease ==
  damaged => \E t \in Threads : pc[t] = "addref" /\ released[Head(args[t])]

\* A thread is inside the monitor of its receiver from entry to exit, inside an
\* argument's only within the one statement, and inside no other.
MonitorsMatch ==
  \A t \in Threads, o \in Objects :
     monitor[o][t] = (IF pc[t] \notin {"idle", "enter"} /\ recv[t] = o THEN 1 ELSE 0)
                     + (IF pc[t] = "monitor" /\ Head(args[t]) = o THEN 1 ELSE 0)

\* t wants to enter a monitor that u is in.
WaitsFor(t, u) ==
  \E o \in Objects : /\ monitor[o][u] > 0 /\ t # u
                     /\ \/ pc[t] = "enter" /\ recv[t] = o
                        \/ Converting(t, o)

\* The documented deadlock (com.cpp:334-344): objects passed to each other.
CircularWait ==
  \E S \in SUBSET Threads \ {{}} : \A t \in S : \E u \in S : WaitsFor(t, u)

\* Every operation on a COMobject returns or throws, unless threads wait for
\* each other in a circle, the one deadlock the comment concedes.
CallsReturn ==
  \A t \in Threads : pc[t] # "idle" ~> pc[t] = "idle" \/ CircularWait \/ damaged

\* com.cpp:329-333: the reference to an argument is taken "in a thread-safe
\* manner", so that it is never taken from a released pointer.
ArgumentNotFreed == ~damaged

===============================================================================
