----------------------------- MODULE MCInvocation -----------------------------
(***************************************************************************)
(* TLC's instance: one call, on amd64 or on x86, of every size up to       *)
(* MaxArgs, with every combination of register types.                      *)
(***************************************************************************)
EXTENDS CallLimits

VARIABLES abi, pc, entry, callee, nargs, types, label, shift, left, sp, mem, gpr, xmm,
          pops, seen

vars == <<abi, pc, entry, callee, nargs, types, label, shift, left, sp, mem, gpr, xmm,
          pops, seen>>
amd64 == <<types, label, shift, gpr, xmm>>

Amd64 == INSTANCE Invoke64
X86 == INSTANCE InvokeX86

Init == \/ abi = "amd64" /\ Amd64!Init /\ pops = 0
        \/ abi = "x86" /\ X86!Init /\ types = 0 /\ label = 0 /\ shift = 0 /\ gpr = 0 /\ xmm = 0

\* A call that has ended stays so; nothing else may stop.
Ended == pc \in {"returned", "thrown"} /\ UNCHANGED vars

Calls == /\ UNCHANGED abi
         /\ \/ abi = "amd64" /\ Amd64!Next /\ UNCHANGED pops
            \/ abi = "x86" /\ X86!Next /\ UNCHANGED amd64

Next == Calls \/ Ended

Spec == Init /\ [][Next]_vars

TypeOK == IF abi = "amd64" THEN Amd64!TypeOK ELSE X86!TypeOK

\* On amd64 no word is read from outside the arguments, the saved frame pointer
\* stays as it is and the stack is aligned at each call (invoke64_ll.asm,
\* thunk64.cpp:53-116).
FrameIntact == abi = "amd64" => Amd64!FrameIntact

\* On x86 a function that has returned has popped what was pushed for it
\* (stdcall_thunk.cpp:57, 125-135).
StackBalanced == abi = "x86" => X86!StackBalanced

Abstract == INSTANCE Invocation WITH
  args <- IF abi = "amd64" THEN Amd64!args ELSE X86!args,
  phase <- IF abi = "amd64" THEN Amd64!phase ELSE X86!phase,
  balanced <- IF abi = "amd64" THEN Amd64!balanced ELSE X86!balanced

\* On both ABIs the function is called once with the arguments that were passed,
\* and control comes back with the caller's stack as it was (invoke64.h:38-83,
\* stdcall_invoke.h:38-70).
ImplementsInvocation == Abstract!Spec

===============================================================================
