--------------------------- MODULE InvocationProofs ---------------------------
(***************************************************************************)
(* What is proved about a call, on either ABI, for every number of         *)
(* arguments and every RetLimit.                                           *)
(*                                                                         *)
(* First x86.  The invariant says where esp is at each place: the          *)
(* arguments are pushed from the last one, so that argument i is word      *)
(* nargs - (i - 1).  Then both ABIs together: what Invoke64Proofs shows of *)
(* Invoke64 is carried over to the behaviours of MCInvocation, and both    *)
(* implement Invocation.                                                   *)
(***************************************************************************)
EXTENDS MCInvocation, TLAPS

Pushed(a) == \A i \in Int : a <= i /\ i <= nargs => mem[nargs - (i - 1)] = i

X86Where ==
  /\ pc \in {"make", "ready", "returned", "thrown"} => sp = 0
  /\ pc \in {"ready", "push", "call", "wrapper", "function"} => pops = nargs
  /\ pc = "push" => left >= 1 /\ left <= nargs /\ sp = nargs - left /\ Pushed(left + 1)
  /\ pc = "call" => sp = nargs /\ Pushed(1)
  /\ pc = "wrapper" => sp = nargs + 4 /\ mem[nargs + 1] = X86!ReturnTo /\ Pushed(1)
  /\ pc = "function" => sp = nargs + 1 /\ mem[nargs + 1] = X86!ReturnTo
  /\ pc # "lost"

X86Inv == X86!TypeOK /\ X86!ArgsArrive /\ X86Where

-------------------------------------------------------------------------------
\* The positions and values that the steps need are there.
LEMMA X86Constants ==
  ASSUME X86!TypeOK
  PROVE  /\ MaxArgs \in Nat /\ RetLimit \in Nat /\ nargs \in Nat /\ nargs <= MaxArgs
         /\ {nargs + 1, nargs + 2, nargs + 3, nargs + 4} \subseteq X86!Depth
         /\ {X86!ReturnTo, X86!Impl, X86!ArgsPtr, X86!Outside} \subseteq X86!Values
         /\ \A i \in 1 .. nargs : i \in X86!Values /\ X86!Arg(i) = i
BY CallLimitsAssumption DEF X86!TypeOK, X86!Depth, X86!Values, X86!ReturnTo,
   X86!Impl, X86!ArgsPtr, X86!Outside, X86!Arg

\* A size that the operand of RET can hold is not cut off.
LEMMA X86RetPops ==
  ASSUME NEW n \in Nat, n <= RetLimit, RetLimit \in Nat
  PROVE  X86!RetPopSize(n) = n
BY DEF X86!RetPopSize

\* The invariant holds before a call.
LEMMA X86InitInv == X86!Init => X86Inv
<1> SUFFICES ASSUME X86!Init PROVE X86Inv
  OBVIOUS
<1>1. X86!TypeOK
  BY CallLimitsAssumption DEF X86!Init, X86!TypeOK, X86!Depth, X86!Values, X86!Junk
<1>2. QED
  BY <1>1 DEF X86!Init, X86Inv, X86!ArgsArrive, X86Where

\* A thunk that is made pops what it is given.
LEMMA X86MakeInv == X86Inv /\ X86!Make => X86Inv'
<1> SUFFICES ASSUME X86Inv, X86!Make PROVE X86Inv'
  OBVIOUS
<1>1. pc' = "ready" => pops' = nargs
  BY X86Constants, X86RetPops DEF X86Inv, X86!Make
<1>2. pops' \in 0 .. MaxArgs
  BY <1>1, X86Constants DEF X86Inv, X86!TypeOK, X86!Make
<1>3. X86!TypeOK'
  BY <1>2 DEF X86Inv, X86!TypeOK, X86!Make, X86!call
<1>4. X86Where'
  BY <1>1 DEF X86Inv, X86Where, X86!Make, X86!call
<1>5. QED
  BY <1>3, <1>4 DEF X86Inv, X86!ArgsArrive, X86!Make

\* The call begins with no word pushed.
LEMMA X86BeginInv == X86Inv /\ X86!Begin => X86Inv'
<1> SUFFICES ASSUME X86Inv, X86!Begin PROVE X86Inv'
  OBVIOUS
<1>1. nargs \in Nat /\ nargs <= MaxArgs /\ sp = 0 /\ pops = nargs
  BY X86Constants DEF X86Inv, X86Where, X86!Begin
<1>2. X86!TypeOK'
  BY <1>1, X86Constants DEF X86Inv, X86!TypeOK, X86!Begin, X86!call
<1>3. X86Where'
  BY <1>1 DEF X86Inv, X86Where, X86!Begin, X86!call, Pushed
<1>4. QED
  BY <1>2, <1>3 DEF X86Inv, X86!ArgsArrive, X86!Begin

\* Each push puts one argument into its word.
LEMMA X86PushInv == X86Inv /\ X86!Push => X86Inv'
<1> SUFFICES ASSUME X86Inv, X86!Push PROVE X86Inv'
  OBVIOUS
<1>1. /\ nargs \in Nat /\ nargs <= MaxArgs /\ MaxArgs \in Nat /\ left \in 1 .. nargs
      /\ sp = nargs - left /\ Pushed(left + 1) /\ pops = nargs
      /\ X86!Arg(left) = left /\ left \in X86!Values
  BY X86Constants DEF X86Inv, X86!TypeOK, X86Where, X86!Push
<1>2. /\ sp + 1 = nargs - (left - 1) /\ sp + 1 \in X86!Depth
      /\ mem' = [mem EXCEPT ![nargs - (left - 1)] = left]
  BY <1>1 DEF X86!Push, X86!Depth
<1>3. X86!TypeOK'
  BY <1>1, <1>2 DEF X86Inv, X86!TypeOK, X86!Push, X86!call
<1>4. \A i \in Int : left <= i /\ i <= nargs => mem'[nargs - (i - 1)] = i
  <2> SUFFICES ASSUME NEW i \in Int, left <= i, i <= nargs PROVE mem'[nargs - (i - 1)] = i
    OBVIOUS
  <2>1. nargs - (i - 1) \in X86!Depth
    BY <1>1 DEF X86!Depth
  <2>2. i # left => nargs - (i - 1) # nargs - (left - 1) /\ mem[nargs - (i - 1)] = i
    BY <1>1 DEF Pushed
  <2>3. QED
    BY <1>2, <2>1, <2>2 DEF X86Inv, X86!TypeOK
<1>5. X86Where'
  <2>1. sp' = nargs - left' /\ left' + 1 = left /\ nargs' = nargs /\ pops' = pops
    BY <1>1 DEF X86!Push, X86!call
  <2>2. Pushed(left + 1)' /\ (left = 1 => Pushed(1)')
    BY <1>4, <2>1 DEF Pushed
  <2>3. QED
    BY <1>1, <2>1, <2>2 DEF X86Where, X86!Push
<1>6. QED
  BY <1>3, <1>5 DEF X86Inv, X86!ArgsArrive, X86!Push

\* The return addresses go above the arguments.
LEMMA X86CallInv == X86Inv /\ (X86!CallNative \/ X86!CallStub) => X86Inv'
<1> SUFFICES ASSUME X86Inv, X86!CallNative \/ X86!CallStub PROVE X86Inv'
  OBVIOUS
<1>1. nargs \in Nat /\ sp = nargs /\ Pushed(1) /\ pops = nargs
  BY X86Constants DEF X86Inv, X86Where, X86!CallNative, X86!CallStub
<1>2. X86!TypeOK'
  BY <1>1, X86Constants DEF X86Inv, X86!TypeOK, X86!CallNative, X86!CallStub, X86!call
<1>3. mem'[nargs + 1] = X86!ReturnTo
  BY <1>1, X86Constants DEF X86Inv, X86!TypeOK, X86!CallNative, X86!CallStub
<1>4. \A i \in Int : 1 <= i /\ i <= nargs => mem'[nargs - (i - 1)] = i
  <2> SUFFICES ASSUME NEW i \in Int, 1 <= i, i <= nargs PROVE mem'[nargs - (i - 1)] = i
    OBVIOUS
  <2>1. /\ nargs - (i - 1) \notin {nargs + 1, nargs + 2, nargs + 3, nargs + 4}
        /\ mem[nargs - (i - 1)] = i /\ nargs - (i - 1) \in X86!Depth
    BY <1>1, X86Constants DEF Pushed, X86!Depth, X86Inv
  <2>2. mem'[nargs - (i - 1)] = mem[nargs - (i - 1)]
    BY <1>1, <2>1 DEF X86Inv, X86!TypeOK, X86!CallNative, X86!CallStub
  <2>3. QED
    BY <2>1, <2>2
<1>5. nargs' = nargs /\ pops' = nargs
  BY <1>1 DEF X86!CallNative, X86!CallStub, X86!call
<1>6. X86Where'
  BY <1>1, <1>3, <1>4, <1>5 DEF X86Where, Pushed, X86!CallNative, X86!CallStub
<1>7. X86!ArgsArrive'
  BY <1>1, <1>5 DEF X86!ArgsArrive, X86!CallNative, X86!CallStub, Pushed
<1>8. QED
  BY <1>2, <1>6, <1>7 DEF X86Inv

\* wrapper() finds the arguments through the stub's pointer.
LEMMA X86WrapperInv == X86Inv /\ X86!Wrapper => X86Inv'
<1> SUFFICES ASSUME X86Inv, X86!Wrapper PROVE X86Inv'
  OBVIOUS
<1>1. /\ nargs \in Nat /\ sp = nargs + 4 /\ Pushed(1) /\ pops = nargs
      /\ mem[nargs + 1] = X86!ReturnTo
  BY X86Constants DEF X86Inv, X86Where, X86!Wrapper
<1>2. X86!TypeOK'
  BY <1>1, X86Constants DEF X86Inv, X86!TypeOK, X86!Wrapper, X86!call
<1>3. X86Where'
  BY <1>1 DEF X86Where, X86!Wrapper, X86!call
<1>4. X86!ArgsArrive'
  <2>1. \A i \in 1 .. nargs : seen'[i] = mem[nargs - (i - 1)]
    BY <1>1 DEF X86!Wrapper
  <2>2. QED
    BY <1>1, <2>1 DEF X86!ArgsArrive, X86!Wrapper, Pushed, X86!call
<1>5. QED
  BY <1>2, <1>3, <1>4 DEF X86Inv

\* RET pops what was pushed, and a crash leaves the model.
LEMMA X86EndInv == X86Inv /\ (X86!Return \/ X86!Crash) => X86Inv'
<1> SUFFICES ASSUME X86Inv, X86!Return \/ X86!Crash PROVE X86Inv'
  OBVIOUS
<1>1. /\ nargs \in Nat /\ sp = nargs + 1 /\ pops = nargs /\ pc = "function"
      /\ mem[sp] = X86!ReturnTo
  BY X86Constants DEF X86Inv, X86Where, X86!Return, X86!Crash
<1>2. sp' = 0 /\ pc' \in {"returned", "thrown"} /\ 0 \in X86!Depth
  BY <1>1, X86Constants DEF X86Inv, X86!Return, X86!Crash, X86!Depth
<1>3. X86!TypeOK'
  BY <1>2 DEF X86Inv, X86!TypeOK, X86!Return, X86!Crash, X86!call
<1>4. X86Where'
  BY <1>2 DEF X86Where
<1>5. X86!ArgsArrive'
  BY <1>1 DEF X86Inv, X86!ArgsArrive, X86!Return, X86!Crash, X86!call
<1>6. QED
  BY <1>3, <1>4, <1>5 DEF X86Inv

\* Each step keeps the invariant.
LEMMA X86NextInv == X86Inv /\ [X86!Next]_(X86!vars) => X86Inv'
<1>1. X86Inv /\ UNCHANGED X86!vars => X86Inv'
  BY DEF X86Inv, X86!TypeOK, X86!ArgsArrive, X86Where, Pushed, X86!vars
<1>2. QED
  BY <1>1, X86MakeInv, X86BeginInv, X86PushInv, X86CallInv, X86WrapperInv, X86EndInv
  DEF X86!Next

\* The invariant holds throughout.
LEMMA X86Inductive == X86!Spec => []X86Inv
<1>1. X86!Init => X86Inv
  BY X86InitInv
<1>2. X86Inv /\ [X86!Next]_(X86!vars) => X86Inv'
  BY X86NextInv
<1>3. QED
  BY <1>1, <1>2, PTL DEF X86!Spec

-------------------------------------------------------------------------------
(* The results.                                                            *)

\* The arguments arrive as they were passed, for any number of them, in native
\* code and in wrapper() behind a stub.
THEOREM X86ArgsArrive == X86!Spec => []X86!ArgsArrive
<1>1. X86Inv => X86!ArgsArrive
  BY DEF X86Inv
<1>2. QED
  BY <1>1, X86Inductive, PTL

\* A function that has returned has popped exactly what was pushed for it, for any
\* number of arguments and any size that RET can pop: no thunk is made that would
\* pop less because the size is cut off.
THEOREM X86StackBalanced == X86!Spec => []X86!StackBalanced
<1>1. X86Inv => X86!StackBalanced
  BY DEF X86Inv, X86Where, X86!StackBalanced
<1>2. QED
  BY <1>1, X86Inductive, PTL

-------------------------------------------------------------------------------
(* A call on x86 is what stdcall_invoke.h promises.                        *)

X86I == INSTANCE Invocation WITH
  args <- X86!args, phase <- X86!phase, balanced <- X86!balanced

\* What the function sees is what was passed.
LEMMA X86Delivered ==
  ASSUME X86Inv, X86!CallNative \/ X86!Wrapper
  PROVE  seen' = X86!args
<1>1. nargs \in Nat /\ Pushed(1)
  BY X86Constants DEF X86Inv, X86Where, X86!CallNative, X86!Wrapper
<1>2. CASE X86!CallNative
  <2>1. sp = nargs
    BY <1>2 DEF X86!CallNative, X86Inv, X86Where
  <2>2. QED
    BY <1>1, <1>2, <2>1 DEF X86!CallNative, X86!args, Pushed
<1>3. CASE X86!Wrapper
  <2>1. sp = nargs + 4
    BY <1>3 DEF X86!Wrapper, X86Inv, X86Where
  <2>2. \A i \in 1 .. nargs : mem[sp - 4 - (i - 1)] = i
    BY <1>1, <2>1 DEF Pushed
  <2>3. QED
    BY <1>3, <2>2 DEF X86!Wrapper, X86!args
<1>4. QED
  BY <1>2, <1>3

\* Each step is one of Invocation or a stutter.
LEMMA X86StepImplements == X86Inv /\ [X86!Next]_(X86!vars) => [X86I!Next]_(X86I!vars)
<1> SUFFICES ASSUME X86Inv, [X86!Next]_(X86!vars) PROVE [X86I!Next]_(X86I!vars)
  OBVIOUS
<1>1. X86!args' = X86!args
  BY DEF X86!args, X86!Next, X86!Make, X86!Begin, X86!Push, X86!CallNative,
         X86!CallStub, X86!Wrapper, X86!Return, X86!Crash, X86!call, X86!vars
<1>2. CASE X86!Begin \/ X86!Push \/ X86!CallStub \/ (X86!Make /\ pc' = "ready")
  <2>1. /\ X86!phase = "ready" /\ X86!phase' = "ready" /\ seen' = seen
        /\ X86!balanced' \in BOOLEAN
    BY <1>2 DEF X86!phase, X86!balanced, X86!Make, X86!Begin, X86!Push, X86!CallStub
  <2>2. QED
    BY <1>1, <2>1 DEF X86I!Next, X86I!Prepare
<1>3. CASE X86!CallNative \/ X86!Wrapper
  <2>1. X86!phase = "ready" /\ X86!phase' = "inside" /\ X86!balanced' \in BOOLEAN
    BY <1>3 DEF X86!phase, X86!balanced, X86!CallNative, X86!Wrapper
  <2>2. QED
    BY <1>1, <1>3, <2>1, X86Delivered DEF X86I!Next, X86I!Deliver
<1>4. CASE X86!Make /\ pc' = "thrown"
  <2>1. /\ X86!phase = "ready" /\ X86!phase' = "thrown" /\ seen' = seen
        /\ X86!balanced' = TRUE
    BY <1>4 DEF X86!phase, X86!balanced, X86!Make, X86Inv, X86Where
  <2>2. QED
    BY <1>1, <2>1 DEF X86I!Next, X86I!Refuse
<1>5. CASE X86!Return \/ X86!Crash
  <2>1. X86Inv'
    BY <1>5, X86EndInv
  <2>2. X86!phase = "inside" /\ seen' = seen /\ X86!balanced' = TRUE
    BY <1>5, <2>1 DEF X86!phase, X86!balanced, X86!Return, X86!Crash, X86Inv, X86Where
  <2>3. \/ X86!Return /\ X86!phase' = "returned"
        \/ X86!Crash /\ X86!phase' = "thrown"
    BY <1>5, <2>1 DEF X86!phase, X86!Return, X86!Crash, X86Inv, X86Where
  <2>4. QED
    BY <1>1, <2>2, <2>3 DEF X86I!Next, X86I!Return, X86I!Crash
<1>6. CASE UNCHANGED X86!vars
  BY <1>1, <1>6 DEF X86!phase, X86!balanced, X86!vars, X86I!vars
<1>7. QED
  BY <1>2, <1>3, <1>4, <1>5, <1>6 DEF X86!Next, X86!Make

\* A __stdcall call implements Invocation, for any number of arguments: the
\* function is called once, with what was passed, and the stack is balanced.
THEOREM X86ImplementsInvocation == X86!Spec => X86I!Spec
<1>1. X86!Init => X86I!Init
  BY DEF X86!Init, X86I!Init, X86!phase, X86!balanced
<1>2. X86Inv /\ [X86!Next]_(X86!vars) => [X86I!Next]_(X86I!vars)
  BY X86StepImplements
<1>3. QED
  BY <1>1, <1>2, X86Inductive, PTL DEF X86!Spec, X86I!Spec

-------------------------------------------------------------------------------
(* Both ABIs: a behaviour of MCInvocation is one of Invoke64 or one of     *)
(* InvokeX86, with the other's variables at rest.                          *)

P64 == INSTANCE Invoke64Proofs

Inv64 == P64!IInv

InvocationInv ==
  /\ abi \in {"amd64", "x86"}
  /\ abi = "amd64" => Inv64
  /\ abi = "x86" => X86Inv

\* Invoke64 is the same module here and in its proofs.
LEMMA Same64 ==
  /\ Amd64!Init => P64!Init
  /\ Amd64!Next => P64!Next
  /\ Amd64!TypeOK <=> P64!TypeOK
  /\ Amd64!FrameIntact <=> P64!FrameIntact
  /\ Amd64!args = P64!args /\ Amd64!phase = P64!phase /\ Amd64!balanced = P64!balanced
<1> USE DEF Amd64!Registers, P64!Registers, Amd64!Bytes, P64!Bytes, Amd64!Entries,
            P64!Entries, Amd64!Depth, P64!Depth, Amd64!Values, P64!Values, Amd64!Junk,
            P64!Junk, Amd64!UINT64, P64!UINT64, Amd64!DOUBLE, P64!DOUBLE, Amd64!FLOAT,
            P64!FLOAT, Amd64!Outside, P64!Outside, Amd64!Saved, P64!Saved,
            Amd64!ReturnTo, P64!ReturnTo, Amd64!Impl, P64!Impl, Amd64!call, P64!call,
            Amd64!LowHalf, P64!LowHalf, Amd64!Arg, P64!Arg
<1>1. Amd64!Init => P64!Init
  BY DEF Amd64!Init, P64!Init, Amd64!Chosen, P64!Chosen
<1>2. Amd64!TypeOK <=> P64!TypeOK
  BY DEF Amd64!TypeOK, P64!TypeOK
<1>3. Amd64!FrameIntact <=> P64!FrameIntact
  BY DEF Amd64!FrameIntact, P64!FrameIntact
<1>4. Amd64!args = P64!args /\ Amd64!phase = P64!phase /\ Amd64!balanced = P64!balanced
  BY DEF Amd64!args, P64!args, Amd64!phase, P64!phase, Amd64!balanced, P64!balanced,
         Amd64!Passed, P64!Passed
<1>5. /\ Amd64!Refuse => P64!Refuse
      /\ Amd64!Basic => P64!Basic
      /\ Amd64!BasicFew => P64!BasicFew
      /\ Amd64!BasicMod => P64!BasicMod
      /\ Amd64!BasicStore => P64!BasicStore
      /\ Amd64!BasicLoad => P64!BasicLoad
  BY DEF Amd64!Refuse, P64!Refuse, Amd64!Basic, P64!Basic, Amd64!BasicFew, P64!BasicFew,
         Amd64!BasicMod, P64!BasicMod, Amd64!BasicStore, P64!BasicStore, Amd64!BasicLoad,
         P64!BasicLoad, Amd64!Valid, P64!Valid, Amd64!Prologue, P64!Prologue,
         Amd64!BasicIndex, P64!BasicIndex
<1>6. /\ Amd64!Fp => P64!Fp
      /\ Amd64!FpLoop => P64!FpLoop
      /\ Amd64!FpLoad => P64!FpLoad
  BY DEF Amd64!Fp, P64!Fp, Amd64!FpLoop, P64!FpLoop, Amd64!FpLoad, P64!FpLoad,
         Amd64!Valid, P64!Valid, Amd64!Prologue, P64!Prologue, Amd64!FpIndex, P64!FpIndex
<1>7. /\ Amd64!CallNative => P64!CallNative
      /\ Amd64!CallStub => P64!CallStub
      /\ Amd64!Stub => P64!Stub
      /\ Amd64!Wrapper => P64!Wrapper
      /\ Amd64!Return => P64!Return
      /\ Amd64!Crash => P64!Crash
  BY DEF Amd64!CallNative, P64!CallNative, Amd64!CallStub, P64!CallStub, Amd64!Stub,
         P64!Stub, Amd64!Wrapper, P64!Wrapper, Amd64!Return, P64!Return, Amd64!Crash,
         P64!Crash, Amd64!Parameter, P64!Parameter, Amd64!Spilled, P64!Spilled
<1>8. Amd64!Next => P64!Next
  BY <1>5, <1>6, <1>7 DEF Amd64!Next, P64!Next
<1>9. QED
  BY <1>1, <1>2, <1>3, <1>4, <1>8

\* The invariant of the chosen ABI holds initially.
LEMMA InvocationInitInv == Init => InvocationInv
<1>1. Amd64!Init => Inv64
  BY Same64, P64!InitInv, CallLimitsAssumption DEF Inv64
<1>2. QED
  BY <1>1, X86InitInv DEF Init, InvocationInv

\* A step of either ABI keeps it.
LEMMA InvocationNextInv == InvocationInv /\ [Next]_vars => InvocationInv'
<1>1. ASSUME InvocationInv, Calls PROVE InvocationInv'
  <2>1. CASE abi = "amd64"
    <3>1. Amd64!Next /\ abi' = "amd64"
      BY <1>1, <2>1 DEF Calls
    <3>2. P64!IInv'
      BY <1>1, <2>1, <3>1, Same64, P64!NextInv, CallLimitsAssumption
      DEF InvocationInv, Inv64
    <3>3. QED
      BY <3>1, <3>2 DEF InvocationInv, Inv64
  <2>2. CASE abi = "x86"
    <3>1. X86!Next /\ abi' = "x86"
      BY <1>1, <2>2 DEF Calls
    <3>2. X86Inv'
      BY <1>1, <2>2, <3>1, X86NextInv DEF InvocationInv
    <3>3. QED
      BY <3>1, <3>2 DEF InvocationInv
  <2>3. QED
    BY <1>1, <2>1, <2>2 DEF InvocationInv
<1>2. ASSUME InvocationInv, UNCHANGED vars PROVE InvocationInv'
  <2>1. Inv64 => Inv64'
    <3>1. UNCHANGED P64!vars
      BY <1>2 DEF vars, P64!vars
    <3>2. QED
      BY <3>1, P64!NextInv, CallLimitsAssumption DEF Inv64
  <2>2. X86Inv => X86Inv'
    <3>1. UNCHANGED X86!vars
      BY <1>2 DEF vars, X86!vars
    <3>2. QED
      BY <3>1, X86NextInv
  <2>3. abi' = abi
    BY <1>2 DEF vars
  <2>4. QED
    BY <1>2, <2>1, <2>2, <2>3 DEF InvocationInv
<1>3. QED
  BY <1>1, <1>2 DEF Next, Ended

\* It holds throughout.
LEMMA InvocationInductive == Spec => []InvocationInv
<1>1. Init => InvocationInv
  BY InvocationInitInv
<1>2. InvocationInv /\ [Next]_vars => InvocationInv'
  BY InvocationNextInv
<1>3. QED
  BY <1>1, <1>2, PTL DEF Spec

-------------------------------------------------------------------------------
(* The results for both ABIs.                                              *)

\* On both ABIs words, registers, indices and stack pointer keep their types, for
\* any number of arguments.
THEOREM InvocationTypeCorrect == Spec => []TypeOK
<1>1. InvocationInv => TypeOK
  BY Same64 DEF InvocationInv, Inv64, P64!IInv, X86Inv, TypeOK
<1>2. QED
  BY <1>1, InvocationInductive, PTL

\* On amd64 nothing is read from outside the arguments, the saved frame pointer is
\* never written over and the stack is aligned at each call, for any number of
\* arguments of any types (invoke64_ll.asm, thunk64.cpp:53-116).
THEOREM InvocationFrameIntact == Spec => []FrameIntact
<1>1. InvocationInv => FrameIntact
  BY Same64 DEF InvocationInv, Inv64, P64!IInv, FrameIntact
<1>2. QED
  BY <1>1, InvocationInductive, PTL

\* On x86 a function that has returned has popped what was pushed for it, for any
\* number of arguments and any size that RET can pop (stdcall_thunk.cpp:57, 125-135).
THEOREM InvocationStackBalanced == Spec => []StackBalanced
<1>1. InvocationInv => StackBalanced
  BY DEF InvocationInv, X86Inv, X86Where, X86!StackBalanced, StackBalanced
<1>2. QED
  BY <1>1, InvocationInductive, PTL

\* The initial states are those of Invocation.
LEMMA AbstractInit == Init => Abstract!Init
<1>1. Amd64!Init => Amd64!phase = "ready" /\ seen = <<>> /\ Amd64!balanced = TRUE
  BY DEF Amd64!Init, Amd64!phase, Amd64!balanced
<1>2. X86!Init => X86!phase = "ready" /\ seen = <<>> /\ X86!balanced = TRUE
  BY DEF X86!Init, X86!phase, X86!balanced
<1>3. QED
  BY <1>1, <1>2 DEF Init, Abstract!Init

\* A step of either ABI is one of Invocation or a stutter.
LEMMA AbstractStep == InvocationInv /\ [Next]_vars => [Abstract!Next]_(Abstract!vars)
<1> USE DEF Abstract!Next, Abstract!Prepare, Abstract!Deliver, Abstract!Return,
            Abstract!Refuse, Abstract!Crash, Abstract!vars
<1>1. ASSUME InvocationInv, Calls, abi = "amd64" PROVE [Abstract!Next]_(Abstract!vars)
  <2>1. P64!Next /\ P64!IInv /\ abi' = "amd64"
    BY <1>1, Same64 DEF Calls, InvocationInv, Inv64
  <2>2. [P64!I!Next]_(P64!I!vars)
    BY <2>1, P64!StepImplements, CallLimitsAssumption
  <2>3. /\ Amd64!args = P64!args /\ Amd64!phase = P64!phase
        /\ Amd64!balanced = P64!balanced
        /\ Amd64!args' = P64!args' /\ Amd64!phase' = P64!phase'
        /\ Amd64!balanced' = P64!balanced'
    BY DEF Amd64!args, P64!args, Amd64!phase, P64!phase, Amd64!balanced, P64!balanced,
           Amd64!Passed, P64!Passed, Amd64!FLOAT, P64!FLOAT, Amd64!LowHalf, P64!LowHalf
  <2>4. QED
    BY <1>1, <2>1, <2>2, <2>3
    DEF P64!I!Next, P64!I!Prepare, P64!I!Deliver, P64!I!Return, P64!I!Refuse,
        P64!I!Crash, P64!I!vars
<1>2. ASSUME InvocationInv, Calls, abi = "x86" PROVE [Abstract!Next]_(Abstract!vars)
  <2>1. X86!Next /\ X86Inv /\ abi' = "x86"
    BY <1>2 DEF Calls, InvocationInv
  <2>2. [X86I!Next]_(X86I!vars)
    BY <2>1, X86StepImplements
  <2>3. QED
    BY <1>2, <2>1, <2>2
    DEF X86I!Next, X86I!Prepare, X86I!Deliver, X86I!Return, X86I!Refuse, X86I!Crash,
        X86I!vars
<1>3. ASSUME UNCHANGED vars PROVE UNCHANGED Abstract!vars
  <2>1. UNCHANGED <<Amd64!args, Amd64!phase, Amd64!balanced>>
    BY <1>3 DEF vars, Amd64!args, Amd64!Passed, Amd64!phase, Amd64!balanced
  <2>2. UNCHANGED <<X86!args, X86!phase, X86!balanced>>
    BY <1>3 DEF vars, X86!args, X86!phase, X86!balanced
  <2>3. QED
    BY <1>3, <2>1, <2>2 DEF vars
<1>4. QED
  BY <1>1, <1>2, <1>3 DEF Next, Ended, InvocationInv

\* On both ABIs a call implements Invocation, for any number of arguments: the
\* function is called once, with what was passed, and control comes back with the
\* caller's stack as it was (invoke64.h:38-83, stdcall_invoke.h:38-70).
THEOREM InvocationImplemented == Spec => ImplementsInvocation
<1>1. Init => Abstract!Init
  BY AbstractInit
<1>2. InvocationInv /\ [Next]_vars => [Abstract!Next]_(Abstract!vars)
  BY AbstractStep
<1>3. QED
  BY <1>1, <1>2, InvocationInductive, PTL DEF Spec, ImplementsInvocation, Abstract!Spec
===============================================================================
