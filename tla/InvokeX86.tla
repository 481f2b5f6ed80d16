------------------------------- MODULE InvokeX86 -------------------------------
(***************************************************************************)
(* A __stdcall call on x86: stdcall_invoke.cpp pushes an array of words    *)
(* from its end; the function they are for is native code, or the stub     *)
(* that stdcall_thunk.cpp generates, which pushes the address of the       *)
(* arguments and of the thunk for wrapper().  Whoever is called pops its   *)
(* own arguments, so that the stack comes out even only if caller and      *)
(* callee agree on their size, and a RET instruction can pop a limited     *)
(* number of bytes.                                                        *)
(*                                                                         *)
(* The stack is an array of words that grows with the index: sp words have *)
(* been pushed, the last one is word sp.                                   *)
(***************************************************************************)
EXTENDS CallLimits

VARIABLES
  pc,     \* where the call is
  entry,  \* "basic" or "return_double"
  callee, \* "native" code or the stub of a "thunk"
  nargs,  \* words of arguments, args_size_bytes / 4
  left,   \* words of arguments before the cursor, eax
  sp,     \* esp
  mem,    \* the stack
  pops,   \* words that the function's RET pops, after the return address
  seen    \* the parameters as the function, or wrapper(), reads them

vars == <<pc, entry, callee, nargs, left, sp, mem, pops, seen>>
call == <<entry, callee, nargs>>

\* A word holds an argument, its number, or one of four other things.
Junk     == 0
Outside  == MaxArgs + 2 \* read from outside the array
ReturnTo == MaxArgs + 3 \* a return address
Impl     == MaxArgs + 4 \* the address of the thunk
ArgsPtr  == MaxArgs + 5 \* an address on the stack
Values == 0 .. MaxArgs + 5
Depth == 0 .. MaxArgs + 4

Arg(i) == IF i \in 1 .. nargs THEN i ELSE Outside

Init == /\ pc = "make"
        /\ entry \in {"basic", "return_double"}
        /\ callee \in {"native", "thunk"}
        /\ callee = "thunk" => entry = "basic"
        /\ nargs \in 0 .. MaxArgs
        /\ left = 0 /\ sp = 0 /\ pops = 0
        /\ mem = [w \in Depth |-> Junk]
        /\ seen = <<>>

-------------------------------------------------------------------------------
\* The operand of RET is a uint16_t.
RetPopSize(n) == n % (RetLimit + 1)

\* Mutant: the limit is not checked.
MakeUnlimited ==
  /\ pc = "make" /\ pc' = "ready"
  /\ pops' = IF callee = "thunk" THEN RetPopSize(nargs) ELSE nargs
  /\ UNCHANGED <<call, left, sp, mem, seen>>

\* stub_code::stub_code(): no thunk is made whose RET cannot pop the arguments.
\* A function that is no thunk pops what it declares.
Make ==
  /\ pc = "make"
  /\ IF callee = "thunk" /\ nargs > RetLimit
       THEN pc' = "thrown" /\ UNCHANGED pops
       ELSE /\ pc' = "ready"
            /\ pops' = IF callee = "thunk" THEN RetPopSize(nargs) ELSE nargs
  /\ UNCHANGED <<call, left, sp, mem, seen>>

\* stdcall_invoke::basic(), return_double(): without arguments, nothing is pushed.
Begin ==
  /\ pc = "ready"
  /\ left' = nargs
  /\ pc' = IF nargs = 0 THEN "call" ELSE "push"
  /\ UNCHANGED <<call, sp, mem, pops, seen>>

\* ms_asm_basic_loop, ms_asm_double_loop.
Push ==
  /\ pc = "push"
  /\ left' = left - 1
  /\ mem' = [mem EXCEPT ![sp + 1] = Arg(left)]
  /\ sp' = sp + 1
  /\ pc' = IF left - 1 > 0 THEN "push" ELSE "call"
  /\ UNCHANGED <<call, pops, seen>>

\* The function finds parameter i above the return address.
CallNative ==
  /\ pc = "call" /\ callee = "native"
  /\ mem' = [mem EXCEPT ![sp + 1] = ReturnTo]
  /\ sp' = sp + 1
  /\ seen' = [i \in 1 .. nargs |-> mem[sp - (i - 1)]]
  /\ pc' = "function"
  /\ UNCHANGED <<call, left, pops>>

\* The code of the stub: eax is the address of the word below the return address;
\* it is pushed, then the address of the thunk; wrapper() is called.
CallStub ==
  /\ pc = "call" /\ callee = "thunk"
  /\ mem' = [mem EXCEPT ![sp + 1] = ReturnTo, ![sp + 2] = ArgsPtr,
                        ![sp + 3] = Impl, ![sp + 4] = ReturnTo]
  /\ sp' = sp + 4
  /\ pc' = "wrapper"
  /\ UNCHANGED <<call, left, pops, seen>>

\* wrapper() reads the words from args; it is a __stdcall function itself and pops
\* its two parameters.
Wrapper ==
  /\ pc = "wrapper"
  /\ seen' = [i \in 1 .. nargs |-> mem[sp - 4 - (i - 1)]]
  /\ sp' = sp - 1 - 2
  /\ pc' = "function"
  /\ UNCHANGED <<call, left, mem, pops>>

\* RET pops the return address, and the arguments.
Return ==
  /\ pc = "function"
  /\ sp' = sp - 1 - pops
  /\ pc' = IF mem[sp] = ReturnTo THEN "returned" ELSE "lost"
  /\ UNCHANGED <<call, left, mem, pops, seen>>

\* Native code crashes: seh.h unwinds to the frame of stdcall_invoke.
Crash ==
  /\ pc = "function" /\ callee = "native"
  /\ sp' = 0
  /\ pc' = "thrown"
  /\ UNCHANGED <<call, left, mem, pops, seen>>

Next == Make \/ Begin \/ Push \/ CallNative \/ CallStub \/ Wrapper \/ Return \/ Crash

Spec == Init /\ [][Next]_vars /\ WF_vars(Next)

-------------------------------------------------------------------------------
(* How a call implements Invocation.                                       *)

args == [i \in 1 .. nargs |-> i]
balanced == sp = 0
phase == CASE pc = "function" -> "inside"
           [] pc \in {"returned", "thrown", "lost"} -> pc
           [] OTHER -> "ready"

-------------------------------------------------------------------------------
TypeOK ==
  /\ pc \in {"make", "ready", "push", "call", "wrapper", "function", "returned",
             "thrown", "lost"}
  /\ entry \in {"basic", "return_double"} /\ callee \in {"native", "thunk"}
  /\ nargs \in 0 .. MaxArgs /\ left \in 0 .. MaxArgs /\ pops \in 0 .. MaxArgs
  /\ sp \in Depth /\ mem \in [Depth -> Values]

\* The function, or wrapper() behind the stub, reads its parameters as the JNI
\* method passed them, whatever their number (stdcall_invoke.cpp:57-74).
ArgsArrive ==
  pc \in {"function", "returned"} => \A i \in 1 .. nargs : seen[i] = i

\* When the function has returned, it has popped what was pushed for it, not a word
\* more or less (stdcall_thunk.cpp:57, 125-135).
StackBalanced == pc \in {"returned", "thrown"} => sp = 0

===============================================================================
