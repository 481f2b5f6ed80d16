# TLA+ models of JSDI

JSDI is the native half of jSuneido's DLL interface: Java calls native functions
through it, native code calls back into Java through generated stubs ("thunks"),
and Java drives COM objects. The C++ is in `src/src`; paths below are relative to
it. This directory holds models of its concurrent and failure-prone parts, the
TLC configurations that check them, and proofs that TLAPS checks.

## 1. Inventory

| Component | State it keeps | Operations | Talks to | What is hard |
|---|---|---|---|---|
| **Thunk** (`thunk.h`, `thunk.cpp`) | atomic counter `d_state`, atomic flag `d_clearing` | `setup_call`, `teardown_call`, `clear`, `state`, destructor | the wrapper calls it; the clearing list clears and deletes it | any number of threads inside while another clears; no lock |
| **Stub and wrapper** (`abi_amd64/thunk64.*`, `abi_x86/stdcall_thunk.*`) | machine code in an executable heap | the stub jumps to `wrapper()`, which sets up, runs the callback, tears down | native callers, the callback | memory freed under a returning call; structured exceptions that skip teardown |
| **Clearing list** (`thunk.cpp:154-205`) | cleared list, clearing list, mutex | `clear_thunk` | `deleteThunk64()` | thunks change state while they are queued; bounds checked before the move |
| **Native methods** (`abi_amd64/_jni_interface64.cpp`) | per call: arrays, container | `callFast`, `callDirect*`, `callIndirect*`, `callVI*`, `newThunk64`, `deleteThunk64` | Java; `invoke64`; marshalling | a failure at any JNI call; exceptions left by nested callbacks |
| **Marshalling** (`marshalling.*`) | container of elements and global references | `put_null`, `put_not_null`, `ptrs_init*`, `ptrs_finish_vi`, destructor, unmarshaller | native methods, callbacks | giving back exactly what was taken, on every way out |
| **Callbacks** (`jsdi_callback.*`, `callback.*`) | global references, JVM pointer | `fetch_env`, `call` in four kinds, construction | wrapper; Java methods | critical arrays; exceptions that native code cannot see |
| **JNI exceptions** (`jni_exception.*`) | the pending flag of a C++ exception | check macro, handler, `throw_jni` | every frame | flag and JVM have to agree |
| **Structured exceptions** (`seh.*`) | none | translation to C++ exceptions | invocation, unmarshaller, stubs | which code it covers and what it unwinds |
| **JNI wrappers** (`jni_util.*`) | arrays, monitors, strings, UTF-16 stream | RAII acquire and release, `expand`, `overflow` | everything | lifetime of temporaries; buffer positions |
| **COM** (`com.*`, `com_util.*`, `_jni_interface.cpp:300-500`) | references, BSTRs, variants | `coCreateFromProgId`, `queryIDispatchAndProgId`, `property_get`, `property_put`, `call_method` by name or dispatch id, `release` | `COMobject` in Java, COM servers | reference and string counts on each error path; monitors of arguments |
| **Protocol handler** (`suneido_protocol.*`) | content and position, factory registration | `Start`, `Read`, `Terminate` | urlmon, Java | order of the calls |
| **Start-up** (`_jni_interface.cpp:130-160`, `global_refs.*`, `suneido_protocol.cpp:340-420`) | JavaVM, global references, COM apartment | `JSDI.init()` | all other code uses the references unchecked | a failure half-way; browsers that are there already |
| **Invocation** (`abi_amd64/invoke64*`, `register64.*`, `abi_x86/stdcall_invoke.*`) | the frame of the call | register placement, copy loops, the call | native methods; native code or a stub | one count for loop bounds, alignment, registers and stack slots |
| **Support** (`java_enum`, `heap`, `log`, `util`, `utf16_util`, `version`, `main_*`, `gen/`) | tables, the log's file | conversions, output | everything | an exception of the log; little else |

The threads are Java threads inside a native method, the same threads inside a
callback, and native threads that call a stub. Nothing is persisted and no
messages travel: what is hard is shared memory, reentrance and unwinding.
`PROJECT.json` lists every hazard at its line, with the properties that cover it.

What makes each part correct:

- *Thunk*: the counter is exactly READY plus the calls inside, less one after
  `clear()`; exactly one party owes the store of CLEARED; nothing is inside a
  thunk that reads CLEARED.
- *Clearing list*: every queued thunk is in one place once; only CLEARED thunks
  are deleted; the lists are bounded; `deleteThunk()` returns.
- *COM*: the count of every interface, and the number of BSTRs, is the number of
  their holders on every path; the receiver is alive; monitors nest; calls end.
- *Invocation*: every argument arrives where the function looks for it, the frame
  survives, and the caller's stack comes out as it was.
- *Start-up*: nobody can start a protocol object before everything it uses is there.
- *Native methods and callbacks*: no JNI function runs when it must not; an
  exception that a callback left reaches Java; whatever is pinned or globalized
  is given back.
- *Unmarshalling*: Java gets each reachable block and string, zeros for the
  rest, and an exception exactly when a pointer cannot be followed.
- *UTF-16 stream*: the string is the text that was written.
- *Protocol handler*: a reader gets the content of the last start and its end.

## 2. Modules

| Module | Models | Composes |
|---|---|---|
| `ThunkLifecycle` | what a thunk promises: ready, clearing, cleared, deleted; which calls are admitted | |
| `Thunk` | the counter protocol and the wrapper, one action per atomic operation | refines `ThunkLifecycle` |
| `ThunkClearingList` | `clear_thunk()` under its mutex, in steps | extends `Thunk` |
| `ThunkProofs` | theorems about both | extends `ThunkClearingList` and TLAPS |
| `ComObject` | references, strings, variants and monitors of COM calls, any threads | |
| `ComObjectProofs` | theorems about it | extends it and TLAPS |
| `NativeCall` | the stack of Java, native methods, native code and callbacks of one thread, both ABIs | |
| `NativeCallProofs` | theorems about it | extends it and TLAPS |
| `CallLimits`, `Invocation` | the sizes of a call; what an invoker promises | |
| `Invoke64` | the assembler of a call on amd64 and the stub it may reach | refines `Invocation` |
| `InvokeX86` | the same on x86 | refines `Invocation` |
| `Invoke64Proofs` | theorems about `Invoke64` | extends it and TLAPS |
| `InvocationProofs` | theorems about `InvokeX86`, and about both ABIs together | extends `MCInvocation` and TLAPS, instantiates `Invoke64Proofs` |
| `Unmarshaller` | the walk that copies a native structure to Java | |
| `UnmarshallerProofs` | theorems about it | extends it and TLAPS |
| `Utf16Streambuf` | the growing buffer behind strings for Java | |
| `Utf16StreambufProofs` | theorems about it and about `smallest_pow2()` | extends it and TLAPS |
| `SuneidoProtocol` | the `suneido://` class factory and protocol objects | |
| `Library` | `JSDI.init()`: JavaVM, global references, COM, registration | extends `SuneidoProtocol` |
| `LibraryProofs` | theorems about `SuneidoProtocol` and `Library` | extends `Library` and TLAPS |
| `MC...` | instances for TLC | extend the module they are named after; `MCSuneidoProtocol` extends `Library`, `MCInvocation` puts both invokers behind one `Invocation` |

`ThunkClearingList` and `Library` compose: the list takes the part of the owner of
each thunk, the start-up that of whoever registers the factory. The other modules
do not interact through state: an unmarshaller, a stream and an invocation are
each used by one thread and live in one call. `NativeCall` has an unmarshaller as
one JNI step that may fail, and the invocation as a call; what the first copies
and how the second passes its arguments are `Unmarshaller`'s and `Invoke64`'s
questions.

**Thunk.** `dState` and `dClearing` are the two atomics. An element of `Calls` is
one activation of a stub: it goes through `EnterStub`, `SetupCall` (fetch_add),
the callback, `TeardownCall` (fetch_sub), if it is the last one `StoreCleared`,
and `ReturnToCaller`. `ClearFlag`, `ClearSub`, `ClearStore` are the three atomic
operations of `clear()`, `Delete` the destructor. A failed state check leads to
`Abort`; a call that is still in the stub or the wrapper of a freed thunk may
also do `RunFreedCode`. `EscapeCallback` is a structured exception that no
handler in the wrapper catches. In `Thunk` alone the owner may clear and delete
whenever it reads CLEARED; `ThunkClearingList` replaces that owner by the code's.
The assertions of `clear()` and of the destructor set `aborted`. `LateCalls` and
`SehEscapes` turn the two kinds of misbehaviour of callers on and off.

**ThunkClearingList.** `listPc` is the position of the `clear_thunk()` of each
thunk, `mutex` its holder. `Trim` checks the length and deletes the oldest,
`Move` moves one head that became CLEARED and unlocks. `HeadIsCleared` asks for
more than one thunk on the clearing list, as `thunk.cpp:188` does. The assertion
at `thunk.cpp:182` is a guard of `Trim`: were it to fail, `ClearThunkReturns`
would. `pushed` is a history variable.

**ComObject.** Each thread runs `get`, `put`, `call`, `query` or `release` on a
COMobject, or creates one. A method enters the monitor of its receiver
(`EnterReceiver`), finds the member by its name (`NameToBstr`, `GetDispid`,
`CheckDispid`) or is given the dispatch id, converts the arguments, calls
`Invoke`, converts the result and leaves. `EnterArgument` and `ExitArgument` are
the construction and the destruction of the temporary `jni_auto_monitor` of
`com.cpp:345`; then come `verifyNotReleased()` and `AddRef()` without it, and the
exception check at the end of the conversion (`com.cpp:378`), which finds what
`isDispatch()` threw only after the reference was taken (the last disjunct of
`AddRefArgument`). `MonitorRefused` is the constructor of a `jni_auto_monitor` that
throws. Taking a
reference to a freed interface is undefined, so the model stops with `damaged`.
`Bstr` is counted like an interface: it stands for all strings of a program id, a
member's name, an argument, a result or an EXCEPINFO. `dispatch` and `unknown` tell
an IDispatch from an IUnknown, which decides whether a program id is asked for.
`lost` counts what nothing can release any more. The Java class and the servers
are not in the repository: they are modelled from how the code relies on them (the
lock for the duration of a call, `com.cpp:334-344`; what `Invoke` does with its
arguments; that a pointer which was returned is wrapped or released). A result by
reference (`VT_BYREF`, `com.cpp:398-407`) is copied to a variant that clears itself and
then converted like any other, with the references that it has. An argument
that is a string is `Text`; a number, a Boolean or a date is `Plain`, converted
without a reference or refused.

**NativeCall.** `stack` holds the frames; the last one runs. `pending` is the
JVM's flag; `exc` of a frame is the C++ exception in flight. Every JNI call goes
through `Jni(f)`, which records `misuse` if an exception is pending or a critical
array is held, and a call that can fail also has the branch `JniFails`. `Destroy`
runs the destructors, `Handler` is the end of every frame. `d_arrays` is the
vector of `marshalling_vi_container`, with each pointer NULL or not. A thread
begins in Java, or in native code that the JVM does not know: then its first
callback attaches it (`EnterCallback`) or gives up (`NotAttached`), and there is
no Java caller that an exception could reach. `newThunk64()` is a native method
of its own: `refs` and `owner` follow the global references of the callback from
its constructor to its `shared_ptr` and to the thunk. `Steps` lists the native
methods that call no native code (`copyOut...`, `loadLibrary`, `getProcAddress`,
`logThreshold`, `when`) by the steps of each that can fail; one that makes a string
can run out of memory too. An instruction that is no member of its Java enum throws
(`FinishOutOfRange`); one for a position that no pointer of the call leads to follows
a null pointer outside of any handler, which ends the process. `abi` chooses the
library: the 32-bit one looks for an exception after every call
(`invoke_stdcall_basic`), has no fast callback, and pins the array for the
addresses of a thunk before it makes the thunk's callback. The exception codes
that `seh::filter` leaves fatal end the process and are left out.

**Unmarshaller.** `layout` is what Java gives: sizes and the list of pairs, each
<<where a pointer is, where what it points to goes>>. `Layouts` enumerates all of
them up to the bounds that are laid out as the tests of `marshalling.cpp` do it:
blocks in the order of their pointers, a pointer after the block that holds it.
Padding counts to the block before it, and offsets count units of the size of a
pointer. `native` says of each pointer whether it is null, good, a string, a
resource number or cannot be followed. `Call` copies the direct block, `Outer`
and `Inner` are the two loops, and `frames` are the active calls of
`normal_ptr()`. A copy that hits an access violation has copied some of its
words. `unmarshaller_indirect` and `unmarshaller_vi` differ in `vi_known`; the latter
is given an instruction for each variable indirect pair, one of which
(`OUT_OF_RANGE`) stands for every number that is none, and throws. `MaxVi` bounds how
many such pairs a layout has. What
the result is compared with (`Expected`, `ExpectedVi`, `Violates`) does not walk:
it asks whether all pointers on the way to a block are there.

**Utf16Streambuf.** `d_buf` and `pptr` are the code's, `text` is what was written,
a history. `Sputc`, `Overflow` and `Xsputn` are the three ways a character comes
in; `Expand` computes the new capacity with `SmallestPow2`, bit by bit: `Smeared` is
what `or_and_shift_remainder()` and the lines around it do to a number of `Width`
bits by `Shifts` shifts, and `Or` is the operator `|`, by recursion over the bits.
A write outside of the vector ends the model (`overrun`). A buffer that cannot grow
(`length_error`), or for which `resize()` gets no memory (`bad_alloc`, at any growth
and with the vector as it was), ends the stream: the ostream sets `badbit`, so that a
user without `exceptions()` goes on with a stream that takes no more and gets what was
written until then. `AsInt` is the cast of the old size to an `int` of `IntWidth` bits
in the call of `pbump()` (`jni_util.cpp:50`): where a `size_t` is wider the put pointer
comes out too low or before the buffer, and `cut` says that this has happened. The cast
of `jni_util.cpp:75` cuts nothing, as the strings are Java's and their length is a
`jsize`; that of the length in `jstr()` matters for a string which Java cannot hold.

**SuneidoProtocol.** `registered` is how far `register_handler()` is: between its
two steps the browser already can create objects, which then have no JavaVM.
`d_data` and `d_pos` are the content and the position, `d_ref_count` the count.
`stack` holds, per thread, the `Start()` calls that are inside Java or inside the
sink, so other objects are started and read in between. `pending` is the JVM's
flag; `Start()` leaves an exception of Java pending, and a thread that never
returns to Java keeps it. Browser and Java are external.

**Library.** `at` is where `JSDI.init()` is, `loaded` how many entries of the table
of global references are there (`Table` has one of each way to obtain one, in the
order of `global_refs::init()`), `com` what COM has given. Each step may fail and
leaves the ones before it done. `Register` and `Finish` are the two steps of
`SuneidoProtocol`'s registration; `BrowseInLibrary` are the steps of the browser,
which other threads may take all along.

**Invoke64, InvokeX86.** The state is the machine's: the stack as an array of
words, the stack pointer, the argument registers, the cursor and the shifted word
of register types. Each action is a block of instructions between two labels of
`invoke64_ll.asm` (`BasicFew`, `BasicMod`, `BasicStore`, `BasicLoad`; `FpLoop`,
`FpLoad`), of the inline assembler of `stdcall_invoke.cpp`, or of a generated stub
(`Stub`, `Wrapper`; `CallStub`). An argument is its number, so that a word shows
where it came from; words that are read from outside the array, saved registers and
return addresses are told apart. A native function may use its home space as it
likes, and may crash. On x86 `RetLimit` is the range of the 16-bit operand of RET,
counted in words. `Invocation` is what both promise: the function is called at most
once, sees the arguments as passed, and control comes back with the stack as it was.

## 3. Runs

| Run | Asks | Bounds |
|---|---|---|
| `thunk_safety` | is the counter exact, is every thunk in one place, are the lists bounded, is the lifecycle implemented? | 4 thunks, 3 activations, `MaxCleared` 1; late calls and escapes allowed |
| `thunk_live` | does every `clear()` complete and every `deleteThunk()` return? | 3 thunks, 2 activations, well-behaved callers |
| `thunk_ready_to_delete` | is a CLEARED thunk ready to delete? *(violated)* | 2 thunks, 2 activations |
| `com` | do counts, strings and monitors balance, and does every call end? | 2 threads, 3 objects, 3 interfaces, 2 arguments, 2 operations |
| `com_argument_freed` | is an argument's reference taken safely? *(violated)* | same |
| `native_call` | are exceptions reported, JNI used properly, and arrays given back? | both ABIs, 9 frames (two callback levels below a third Java frame), 2 positions |
| `native_call_crash` | is the handler told the truth about a pending exception? *(violated)* | 5 frames |
| `unmarshaller` | does the walk bring what it should, throw where it must, and end? | every layout of up to 5 units and 3 pairs, 2 of them variable indirect, with every kind of pointer and instruction |
| `utf16` | is a character lost, what makes a gap, does the buffer grow as little as it can? | capacity 1, 2 or 3, 4-bit `size_t` (so 3 shifts), 3-bit `int`, largest vector 11, text up to 10, strings up to 3 |
| `utf16_text` | is the string the text that was written? *(violated)* | capacity 3, 4-bit `int`, strings up to 4, else the same |
| `protocol` | is everything there before anybody is served, does a reader get its content, and when is JNI called with an exception pending? | the start-up, a Java and a native thread, 2 objects, 3 starts, contents up to 2, reads up to 3 |
| `invocation` | do arguments arrive, does the frame survive, does the stack come out even? | calls of 0 to 17 words, all register types, both ABIs; RET pops up to 14 words |

Why the bounds are enough. *Thunk*: three activations give one that is inside
when `clear()` comes, one that leaves last and one that is late. Four thunks with
`MaxCleared` 1 fill, trim, move and overfill the lists: `ClearedListBound` needs a
move onto a full list, and `KeepsRecent` a deletion. *ComObject*: three objects
are a receiver, an argument and one built from a result or created; two arguments
are enough for the second to fail after the first was packed; two operations let
one thread release an object, or pass its own receiver to the other, between any
two steps of the other (328 000 states; the theorems of section 5 have no bound).
*NativeCall*: nine frames are Java, method, code, callback twice and Java again, so
an exception of the inner level passes through an outer callback (on a thread that
began in native code, two callback levels above its own code); two positions let the
second fail after the first was acquired (2.8 million states). *Invocation*: calls
of up to 17 words go through every entry of both jump tables and the copy loops
several times, with remainders of 0 to 3; 14 lets RET refuse the last three.

*Unmarshaller*: three pairs give a chain, siblings, and a sibling behind a nested
block, with up to two variable indirect pairs before, between and after the others: two
are enough for one that is right before one that is not, and for the second to be
found inside what the first pair brought; five units
leave room for a block of two. *Utf16Streambuf*: an initial capacity of 1 or 3 is, as
127 is, one below a power of two, so that the first growth is by one and the second
doubles, and 2 is a power; 11 is less than the next power, so growth fails too; strings
of up to three fit, just fit and do not fit. An `int` of three bits holds no size above
3, so that the buffer is outgrown both with sizes that fit and with 4 and 8, which the
cast makes negative. A cast that gives a smaller positive number, or 0, needs a
`size_t` that is wider than TLC can explore: there the theorems stand alone.
*SuneidoProtocol*: three starts nest two
objects and start one again; reads are shorter than, equal to and longer than
contents. The start-up fails at each of its steps, and the table has a class that is
looked up late by the protocol object.

`Calls` and `Thunks` are symmetric in `thunk_safety`, `Threads` in
`com_argument_freed`; runs with liveness use no symmetry. The runs of `ComObject`
do not check deadlock, for two reasons: operations are bounded, so that the system
stops when all are done, and the circular wait is a known one. Those of `Unmarshaller`, `Utf16Streambuf`
and `Library` do not because what they model ends: a walk, a stream that failed or is
complete, a browser that stops using its objects.

### What is violated

1. `ReadyToDelete`: `thunk.h:46-47` calls a CLEARED thunk "ready to delete". The
   store of CLEARED (`thunk.cpp:93`) is made by an activation that still has to
   return through the wrapper and the stub, and the stub is freed with the thunk
   (`thunk64.cpp:365-366`). The list keeps recent thunks, which makes the window
   unlikely but does not close it: `thunk_safety` includes what follows from it.
2. `ArgumentNotFreed`: `com.cpp:329-333` wants a synchronized block around the
   check and `AddRef()`; the unnamed `jni_auto_monitor` of line 345 ends with its
   own statement. `DamageOnlyByRelease` shows that this is the only way to reach
   a freed interface.
3. `PendingFlagAccurate`: `jni_exception.h:171-175` calls an accurate flag
   imperative; the handler of `std::exception` (`jni_exception.h:78`) gives
   `false`, and a crash after a callback that threw gets there with an exception
   pending. `JniDiscipline` shows that this is the only misuse of JNI.
4. `StringIsText`: `jni_util.h:1862-1863` promises the contents of the stream.
   `expand()` moves the put pointer to the old capacity (`jni_util.cpp:50`), which
   is right for `overflow()` only. A string that does not fit into a buffer with
   room left (`jni_util.cpp:72-75`) leaves null characters before it, or is copied
   past the end. `GapOnlyOfSplitWrite` shows that nothing else goes wrong.

Further exceptions are part of properties that hold. `NothingLeaked` excepts a
position whose `NewGlobalRef` failed, which `put_not_null` does not check although
`marshalling.h:250` wants a global reference with every elements pointer; and the
global references of a callback whose constructor throws after the first one,
as its destructor then does not run (`jsdi_callback.cpp:42-63`); and likewise the
buffer of an array region whose constructor throws (`jni_util.h:315-338`).
`RefsAccounted` excepts four places that lose a reference or a string: an argument
whose `isDispatch()` throws, which is found after its `AddRef()` and left out by the
loop of the catch clause, or met by none in a put (`com.cpp:378`, `711`, `674`); the
arguments of a call that the server refuses (`com.cpp:674`); an EXCEPINFO that
cannot be written down (`com.cpp:485`); and an IDispatch whose program id cannot be
read (`_jni_interface.cpp:356`).
`TextKept` and `GapOnlyOfSplitWrite` except a stream that has outgrown a buffer whose
size does not fit an `int`.
`MisuseExplained` excepts the unchecked `NewString` of `Start()`, the unchecked
`NewObject` of the global references, an object that was created before the factory
had its JavaVM, and the exception that a failed `Start()` leaves to a thread that is
not in Java.

## 4. Fairness

`ListFairness` is weak fairness of each thread that is inside `wrapper()` or
`clear_thunk()`, and it includes that callbacks return. Nothing obliges native
code to call a stub or Java to delete a thunk. Weak fairness is enough for the
mutex although `std::mutex` promises no fairness, as each thunk locks it once
and so is overtaken finitely often. The liveness run excludes late calls (they
abort the process) and escapes (the counter then never comes down, so the clear
never completes: `CounterInv` counts such activations as inside for good).

`FairSpec` of `ComObject` is weak fairness of a thread inside a call: it is
scheduled, servers answer, and a free monitor is granted, whatever operation it
runs, creation included. That a monitor is refused is not owed to anybody
(`MonitorRefused` is outside of the fairness). The number of operations is bounded, so
that a monitor cannot be taken by others for ever.
`CallsReturn` excepts the circular wait that `com.cpp:334-344` concedes.

`FairSpec` of `Unmarshaller` is weak fairness of the walk, which runs on one
thread without waiting for anything. `FairLibrarySpec` obliges only a browser that
was told of data: it goes on reading, at least a byte each time, until it is told of
the end, as urlmon does with a sink that accepted the data. The start-up is not
obliged to go on: nothing that is checked waits for it.

`NativeCall`, `Utf16Streambuf` and the `invocation` run use no fairness: their
questions are about safety, and a call that stops half-way is found as a deadlock.

## 5. Proofs

TLAPS proves the theorems below for every value of the constants that satisfies the
assumptions, so without the bounds of section 3:

- `ThunkAssumption` (`Calls` is finite, `NoThunk` is not a thunk, the switches are
  Booleans) and `ClearingListAssumption` (`MaxCleared` above zero), whether late
  calls and escapes are allowed or not;
- `ComAssumption` (threads and objects are finitely many; the special values are
  told apart; what exists at the start has an interface each);
- `NativeCallAssumption` (`Slots` is a natural number, `MaxFrames` is one above zero:
  the theorems hold for a stack of any depth);
- `CallLimitsAssumption` (`MaxArgs` and `RetLimit` are natural numbers);
- `ProtocolAssumption` (Java's threads are threads, `NoThread` is none; the bounds on
  lengths and starts are natural numbers, an object can have a reference) and
  `LoaderAssumption` (`JSDI.init()` runs on a thread of Java);
- `UnmarshallerAssumption` (`MaxTotal`, `MaxPairs` and `MaxVi` are natural numbers);
- `Utf16Assumption` (the null character is no other; an initial capacity is above
  zero and within `max_size()`; the length of a string that is written is a positive
  `int`; what is used and what is written add up to less than
  a `size_t` can hold, as both count 16-bit characters or have a sign; `smallest_pow2()`
  shifts often enough for the width: `Width <= 2^Shifts`, which is 64 and 6, or 32
  and 5, in the code).

| Theorem | Says |
|---|---|
| `ThunkTyped` | `Spec => []TypeInv`: `TypeOK`, and an activation that is not idle has a thunk |
| `ThunkCounter` | `Spec => []CounterInv /\ []DiesOnlyOfLateCall` |
| `ThunkQuiet` | `Spec => []QuietWhenCleared` |
| `ThunkRefinement` | `Spec => ImplementsLifecycle` |
| `ListOwnsThunks` | `ListSpec => Spec`: the list is an owner as `Thunk` allows |
| `ListTyped`, `ListCleared` | `ListSpec => []ListTypeOK`, `[]ClearedListIsCleared` |
| `ListKeepsThunks` | the invariants of `Thunk` hold under `ListSpec` |
| `ListRefinement` | `ListSpec => ImplementsLifecycle` |
| `ListOnePlace`, `ListLengthBound`, `ListKeepsRecent` | `ListSpec => []OnePlace`, `[]ClearedListBound`, `[]KeepsRecent` |
| `ComInvariant` | `Spec => []CountInv`, the inductive invariant of `ComObject` |
| `ComTyped`, `ComMonitors`, `ComAccounted`, `ComReceiverAlive`, `ComDamage` | `Spec => []TypeOK`, `[]MonitorsMatch`, `[]RefsAccounted`, `[]ReceiverAlive`, `[]DamageOnlyByRelease` |
| `NativeInvariant` | `Spec => []IInv`, the inductive invariant of `NativeCall` |
| `NativeTyped`, `NativeDiscipline`, `NativeAssertion` | `Spec => []TypeOK`, `[]JniDiscipline`, `[]PendingAssertion` |
| `NativeReports`, `NativeGivesBack`, `NativePins` | `Spec => []MissedIsReported`, `[]NothingLeaked`, `[]PinnedWhileUsed` |
| `Amd64Types`, `Amd64ArgsArrive`, `Amd64FrameIntact` | the invariants of `Invoke64` |
| `Amd64ImplementsInvocation` | `Invoke64` implements `Invocation` |
| `X86ArgsArrive`, `X86StackBalanced` | the invariants of `InvokeX86` |
| `X86ImplementsInvocation` | `InvokeX86` implements `Invocation` |
| `InvocationTypeCorrect`, `InvocationFrameIntact`, `InvocationStackBalanced` | `Spec => []TypeOK`, `[]FrameIntact`, `[]StackBalanced` of `MCInvocation`, which is either ABI |
| `InvocationImplemented` | `Spec => ImplementsInvocation` of `MCInvocation` |
| `HandlerReadsExact` | `Spec => []ReadsExact` of `SuneidoProtocol`, whatever the start-up |
| `LibraryTypeCorrect`, `LibraryReadsExact`, `LibraryMisuseExplained`, `LibraryServedOnlyWhenReady` | `LibrarySpec => []LibraryTypeOK`, `[]ReadsExact`, `[]MisuseExplained`, `[]ServedOnlyWhenReady` |
| `UnmarshallerTypeCorrect`, `UnmarshallerPrefixRight`, `UnmarshallerThrowsRight` | `Spec => []TypeOK`, `[]PrefixRight`, `[]ThrowsRight` |
| `UnmarshallerWhole` | a walk that returns has brought every word and every object |
| `SmallestPow2Least` | `smallest_pow2()` of any width: the least power of two that is enough, or 0 |
| `StreamTypeCorrect`, `StreamTextKept`, `StreamGapOnlyOfSplitWrite` | `Spec => []TypeOK`, `[]TextKept`, `[]GapOnlyOfSplitWrite` |
| `StreamGrowsLeast` | `Spec => GrowsLeast`: to the least power of two that is enough; too long only where there is none, out of memory only for a write without room |

*The counter.* The inductive invariant is `TypeInv /\ CounterInv /\
DiesOnlyOfLateCall`. `CounterInv` says for each thunk in which of three ranges
the counter is, what it then equals in terms of the *set* of activations inside,
and who owes the store. `QuietWhenCleared` alone is not inductive: a step from
CLEARING to CLEARED preserves it only because there is exactly one storer and no
user left, and that needs the exact count. The lemmas `Counter...` treat one
operation each; the cardinality of `Users(k)` changes by one through
`FS_AddElement` and `FS_RemoveElement`, which is what finiteness is for.
`CounterInv` is conditional on `Healthy` (no activation has failed its check),
because the code's counter is not exact between a late call's increment and the
abort that follows.

*The lifecycle.* `lifeOf` maps counter and clear position to ready, clearing,
cleared, deleted. `LifeStep` shows for each action which abstract step or stutter
it is: `SetupCall` is `Begin`, `TeardownCall` is `End`, `ClearSub` is
`StartClear`, both stores are `FinishClear`, and a failed check is `Doom`.

*The list.* The inductive invariant `ListIInv` is `ListTypeOK` (the mutex is held
exactly in the critical section), `ListInv` (the lists are disjoint, have no thunk
twice, and hold only thunks that were queued and not deleted) and `ClearedInv`
(what is on the cleared list, or about to be, is CLEARED). The step from `ListSpec`
to `Spec` needs it in one place: `Trim` may only delete a thunk that reads CLEARED
and was not freed before. Once `ListSpec => Spec` is proved the theorems about
`Thunk` carry over.

*Where thunks are.* The last part of `ThunkProofs` adds `PlaceInv` (a thunk was queued exactly
if it is on a list or deleted, and exactly if its `clear_thunk()` is past the push),
`ResultInv` (only what was CLEARING goes to the clearing list) and `LengthInv`. The
length is off by one between the push and the trim, which is why `LengthInv` has the
case `Trimming`; `Move` makes the list longer and `Moved` larger in the same step,
and the two agree because the head is the only place of its thunk.

*COM calls.* The inductive invariant `CountInv` is built in this order. `TypeInv` is
`TypeOK` without the sign of the counts, which nothing local shows. `ShapeInv` says
what a thread has at each position: receiver, arguments, variants, result.
`MonitorsMatch` follows from the shapes, and with it mutual exclusion: two threads
cannot both be past `EnterReceiver` of one object. That gives `ReleasedInv`: an
object is released only by the one thread that is in it. Now `Accounted` can be
shown. `Own(t, i)` is what thread `t` owes a `Release()` of `i` for, and `BalanceStep`
shows for each action of `t` that the change of `refs[i]` is the change of the
objects that own `i`, of `Own(t, i)` and of `lost[i]` together; `RestMove` and
`OwnersMove` carry this over to the sets of `Holders(i)`, where only one thread and
at most one object have changed. An interface that was freed has count 0, so nobody
has it (`NobodyHasFreed`): from this `FreedInv`, `ReceiverAlive`, and that only
`AddRefArgument`, which takes a pointer it does not hold a reference for, can do
damage. Where `AddRefArgument` throws, the reference it took moves to `lost`, and the
packed variants before it go to the catch clause.

*The stack.* All frames but the running one wait, and `FramesInv` says where: a
method that invoked native code is at `returned` with its arguments pinned, a
callback that called Java is past the scope of its array (`Waits`); and which frame
can be above which (`CanCall`). `Fits` says what a frame holds at each point: for
`NothingLeaked` that elements without a global reference, and references without an
owner once the constructor is left, were refused. `Knows` ties the running frame to
the flags: where JNI functions or native code are still before it, nothing is
pending; an exception in flight that says it is pending is; any other meets a
pending one only after a crash. `MissedInv` is what makes `MissedIsReported`
inductive: from a method whose callback did not complete to the top of the stack
there is no Java, so `JavaCatches` cannot clear the flag before that method is gone.
The steps need three facts about sequences only, for a frame that changes
(`Rewritten`), one that calls (`CallStep`) and one that is popped (`PopStep`).

*Invocation.* Both proofs say where argument `i` will be: `End` is the word that the
stack pointer will point to at the call, and argument `i` belongs in word
`End - (i - 1)` from the moment it is stored, though the stack still grows. With it
the loops are inductive for any number of arguments; alignment is `End % 4 = 0`. On
x86 the words are pushed from the last one, and the invariant is the value of `esp`
at each label. The refinement maps `seen`, the parameters as the function reads
them, to those of `Invocation`. `MCInvocation` chooses the ABI once and its variables
then follow either module; `InvocationInv` is the invariant of the one that was
chosen, so that the theorems of `Invoke64Proofs` are used as they are.

*The library.* `ReadInv` is what makes `ReadsExact` inductive: what was read is the
part of the content before `d_pos`, and while a `Start()` is inside Java nothing was
read. A second `Start()` of the same object while the first is inside Java would
break it, so `FramesInv` says that an object has one frame, on the thread that
created it. `HandlerReadsExact` uses no more than that. `StartUpInv` ties the
registration to the place where `JSDI.init()` is, which is all that
`ServedOnlyWhenReady` needs; that `Table` finds each reference it is looked up with
(`TableProperties`) keeps the start-up itself from misusing JNI. `PendingInv` then
says where a pending exception can come from.

*The walk.* `PrefixRight` and `ThrowsRight` are nearly inductive as they stand: the
invariant `WalkInv` adds the shape of the input and of the walk. The work is in what
a layout is. The pairs form a tree, by the block that holds the pointer of a pair,
and `Holder(L, k) < k`, so that the recursive function `Reached` is well defined. One
pair's copy ends where the block of the next pair of the list begins (`CopyEnd`), so
it fills its own block and no other; and the pointer that is followed was brought by
its holder before, so it is null or real as the definition says. What `frames` are
does not matter for what is copied: that is why the loops of `normal_ptr()` may break
and resume as they do, and why `WalkInv` says no more of them than their type.

*The stream.* First `smallest_pow2()`. `Or` is proved to be at least each of its
arguments, to stay below a power of two that both are below, and to fill: if the
upper bits of `x` and of `y` from two overlapping ranges are set, those of both are
(`OrFills`). Hence after `n` shifts the `2^n` bits below the highest are set
(`SmearFills`), and with `Width <= 2^Shifts` all are. Then the buffer. `NulBeyond`,
that nothing but null characters follows the put pointer, is what `StreamInv` adds to
the invariants of the run: `expand()` moves the put pointer over such characters and
so adds only gaps. `TextPut` counts the characters that are no gap and shows that
those of the new string are numbered after the old ones. Both need that the old size came
through the cast unchanged (`AsIntExact`), which is what `~cut` says. `Written` covers
all writes that succeed, and `GrowsLeast` follows for the same steps from
`SmallestPow2Least`, without a word of `cut`: the new size is computed as a `size_t`.

*Induction.* The library's induction theorems have a parameter that is an operator,
which the installed provers cannot instantiate. Where a proof needs induction (the
tree of pairs, and `Pow2`, `Or` and `Smeared`, which are recursive functions) it is
made over the *set* of the numbers that have the property, from the fact that a
nonempty set of natural numbers has a least element (`LeastNat`); that is also how
these recursive functions are shown to exist and to satisfy their equations. No
module uses RECURSIVE.

Checked by TLC only: liveness (`ClearCompletes`, `ClearThunkReturns`, `CallsReturn`,
`WalkEnds`, `ReaderFinishes`), which needs fairness and ENABLED and is out of the
prover's reach; and the four properties that are violated. Every invariant and every
other action or refinement property that a passing run checks is a theorem.

## 6. Not modelled

- *Encoding.* How stubs are written as bytes and how jump tables are addressed; the
  unwind information of a stub.
- *Conversions.* Dates, numbers, text and the wording of messages: stateless, and
  tested for values. The offsets that `ptrs_init` writes, as opposed to what
  is done with them.
- *The log.* It has a lock of its own, and a failure of it would be a branch of
  every step of every frame. That it can throw out of the handler that ends a frame
  is listed as a hazard without a property.
- *The executable heap*, beyond that a freed stub is gone; *`java_enum`'s* table of
  names.
- *Fatal structured exceptions*, which end the process; and what a compiler's
  exception model unwinds after another (the hazard at `_jni_interface64.cpp:510`).
- *Tests, generated headers and entry points.*

Every hazard without a property in `PROJECT.json` says what is missing for it.

## 7. Possible extensions

What the project could do next, in this order: `ptrs_init` of the containers as the
inverse of `Unmarshaller`'s walk, with the offsets it writes; `ReadyToDelete` with the
return through the stub as a part of the activation, as a specification of what a
repaired clearing list would promise; and the log with its lock, for frames that do
not fail otherwise.
