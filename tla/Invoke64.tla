------------------------------- MODULE Invoke64 -------------------------------
(***************************************************************************)
(* A call on amd64: invoke64_ll_basic() and invoke64_ll_fp() in            *)
(* invoke64_ll.asm spread an array of words over registers and stack; the  *)
(* function they call is native code, or the stub that thunk64.cpp         *)
(* generates, which puts the register parameters next to the others again  *)
(* and hands their address to wrapper().                                   *)
(*                                                                         *)
(* The stack is an array of words that grows with the index: word 0 is the *)
(* one rbp points to, where the caller's rbp is saved, rsp points to word  *)
(* sp, and [rsp+8*j] is word sp-j.  A word, or a register, holds an        *)
(* argument (its number), the low half of one (the number, negative), or   *)
(* one of four other things.                                               *)
(***************************************************************************)
EXTENDS CallLimits

VARIABLES
  pc,       \* where the call is
  entry,    \* the function of invoke64 that the JNI method uses
  callee,   \* "native" code or the stub of a "thunk"
  nargs,    \* words of arguments, args_size_bytes / 8
  types,    \* the four bytes of the register encoding, parameter 1 first
  label,    \* the jump table index, then the argument handler that runs
  shift,    \* bytes that are shifted out of rax, the register types
  left,     \* words of arguments before the cursor r11
  sp,       \* rsp
  mem,      \* the stack
  gpr, xmm, \* rcx, rdx, r8, r9 and xmm0 to xmm3
  seen      \* the parameters as the function, or wrapper(), reads them

vars == <<pc, entry, callee, nargs, types, label, shift, left, sp, mem, gpr, xmm, seen>>
call == <<entry, callee, nargs, types>>

UINT64 == 0
DOUBLE == 1
FLOAT  == 2
Bytes  == 0 .. 3 \* of an encoding; 3 stands for all that are no type

Junk     == 0
LowHalf(i) == -i
Saved    == MaxArgs + 1 \* rbp of the caller
Outside  == MaxArgs + 2 \* read from outside the array
ReturnTo == MaxArgs + 3 \* a return address
Impl     == MaxArgs + 4 \* the address of the thunk, as a parameter
Values == -MaxArgs .. MaxArgs + 4

Registers == 1 .. 4
Depth == 0 .. MaxArgs + 10

\* Word i of the array that args_ptr points to.
Arg(i) == IF i \in 1 .. nargs THEN i ELSE Outside

Entries == {"basic", "fp", "return_double", "return_float"}

\* A callback returns integers only, and nothing but floating point makes Java
\* choose one of the entries that take the types.
Chosen == /\ callee = "thunk" => entry \in {"basic", "fp"}
          /\ entry = "basic" => \A r \in Registers : types[r] = UINT64

Init == /\ pc = "ready"
        /\ entry \in Entries
        /\ callee \in {"native", "thunk"}
        /\ nargs \in 0 .. MaxArgs
        /\ types \in [Registers -> Bytes]
        /\ Chosen
        /\ label = 0 /\ shift = 0 /\ left = nargs /\ sp = -1
        /\ mem = [w \in Depth |-> Junk]
        /\ gpr = [r \in Registers |-> Junk]
        /\ xmm = [r \in Registers |-> Junk]
        /\ seen = <<>>

-------------------------------------------------------------------------------
\* param_register_types(uint32_t): all four bytes are looked at.
Valid == \A r \in Registers : types[r] \in {UINT64, DOUBLE, FLOAT}

Refuse == /\ pc = "ready" /\ entry # "basic" /\ ~Valid
          /\ pc' = "thrown"
          /\ UNCHANGED <<call, label, shift, left, sp, mem, gpr, xmm, seen>>

\* Mutant: without the word that aligns rsp.
PrologueUnaligned == mem' = [mem EXCEPT ![0] = Saved] /\ sp' = 3

\* Push rbp; home space for the function.
Prologue == /\ mem' = [mem EXCEPT ![0] = Saved]
            /\ sp' = 4

\* f(x) of the first jump table.
BasicIndex(x) == (x % 4) + (IF x < 4 THEN 0 ELSE 4)

Basic ==
  /\ pc = "ready" /\ entry = "basic"
  /\ Prologue
  /\ label' = BasicIndex(nargs)
  /\ pc' = IF BasicIndex(nargs) < 4 THEN "basic_few"
           ELSE IF BasicIndex(nargs) = 4 THEN "basic_load" ELSE "basic_mod"
  /\ UNCHANGED <<call, shift, left, gpr, xmm, seen>>

\* Lbasic_3args to Lbasic_0args.
BasicFew ==
  /\ pc = "basic_few"
  /\ gpr' = [r \in Registers |-> IF r <= label THEN Arg(r) ELSE gpr[r]]
  /\ pc' = "call"
  /\ UNCHANGED <<call, label, shift, left, sp, mem, xmm, seen>>

\* Lbasic_mod3args to Lbasic_mod1args: the arguments that are no four.
BasicMod ==
  /\ pc = "basic_mod"
  /\ gpr' = [r \in Registers |->
               IF r <= label - 4 THEN Arg(left - (label - 4) + r) ELSE gpr[r]]
  /\ left' = left - (label - 4)
  /\ pc' = "basic_store"
  /\ UNCHANGED <<call, label, shift, sp, mem, xmm, seen>>

\* Lbasic_loop: the registers go where the home space was, and new home space
\* is made.
BasicStore ==
  /\ pc = "basic_store"
  /\ mem' = [mem EXCEPT ![sp - 3] = gpr[4], ![sp - 2] = gpr[3],
                        ![sp - 1] = gpr[2], ![sp] = gpr[1]]
  /\ sp' = sp + 4
  /\ pc' = "basic_load"
  /\ UNCHANGED <<call, label, shift, left, gpr, xmm, seen>>

\* Lbasic_mod0args: the next four arguments from the right.
BasicLoad ==
  /\ pc = "basic_load"
  /\ gpr' = [r \in Registers |-> Arg(left - 4 + r)]
  /\ left' = left - 4
  /\ pc' = IF left - 4 = 0 THEN "call" ELSE "basic_store"
  /\ UNCHANGED <<call, label, shift, sp, mem, xmm, seen>>

-------------------------------------------------------------------------------
\* Mutant: one entry past the end of the jump table.
FpIndexPastEnd(x) == IF x <= 9 THEN x ELSE IF x % 4 = 0 THEN 8 ELSE (x % 4) + 4

\* g(x) of the second jump table.
FpIndex(x) == IF x <= 8 THEN x ELSE IF x % 4 = 0 THEN 8 ELSE (x % 4) + 4

\* Mutant: the handlers of few arguments start with the type of parameter 4.
FpNoShift ==
  /\ pc = "ready" /\ entry # "basic" /\ Valid
  /\ Prologue
  /\ label' = FpIndex(nargs) /\ shift' = 0
  /\ pc' = IF FpIndex(nargs) = 0 THEN "call"
           ELSE IF FpIndex(nargs) <= 4 THEN "fp_load" ELSE "fp_loop"
  /\ UNCHANGED <<call, left, gpr, xmm, seen>>

\* Lfp_jtbl_3 to Lfp_jtbl_1 first shift the types of later parameters away.
Fp ==
  /\ pc = "ready" /\ entry # "basic" /\ Valid
  /\ Prologue
  /\ label' = FpIndex(nargs)
  /\ shift' = IF FpIndex(nargs) \in 1 .. 3 THEN 4 - FpIndex(nargs) ELSE 0
  /\ pc' = IF FpIndex(nargs) = 0 THEN "call"
           ELSE IF FpIndex(nargs) <= 4 THEN "fp_load" ELSE "fp_loop"
  /\ UNCHANGED <<call, left, gpr, xmm, seen>>

\* Lfp_jtbl_8 to Lfp_jtbl_5: up to four arguments from the right go where the
\* home space was, and new home space is made.
FpLoop ==
  /\ pc = "fp_loop"
  /\ mem' = [w \in Depth |->
               IF w \in sp - (label - 5) .. sp THEN Arg(left - (label - 5) + (sp - w))
                                               ELSE mem[w]]
  /\ gpr' = [r \in Registers |->
               IF r <= label - 4 THEN Arg(left - (label - 4) + r) ELSE gpr[r]]
  /\ sp' = sp + 4
  /\ left' = left - (label - 4)
  /\ IF left - (label - 4) > 4 THEN label' = 8 /\ pc' = "fp_loop"
                               ELSE label' = 4 /\ pc' = "fp_load"
  /\ UNCHANGED <<call, shift, xmm, seen>>

\* Lfp_jtbl_4 and what follows: a parameter goes where its type, al, says.
FpLoad ==
  LET al == types[4 - shift] IN
  /\ pc = "fp_load"
  /\ gpr' = IF al = UINT64 THEN [gpr EXCEPT ![label] = Arg(label)] ELSE gpr
  /\ xmm' = IF al = UINT64 THEN xmm
            ELSE [xmm EXCEPT ![label] = IF al = DOUBLE THEN Arg(label)
                                                       ELSE LowHalf(Arg(label))]
  /\ label' = label - 1
  /\ shift' = IF label = 1 THEN shift ELSE shift + 1
  /\ pc' = IF label = 1 THEN "call" ELSE "fp_load"
  /\ UNCHANGED <<call, left, sp, mem, seen>>

-------------------------------------------------------------------------------
\* The ABI: where a function finds parameter i.
Parameter(i) == IF i > 4 THEN mem[sp - (i - 1)]
                ELSE IF types[i] = UINT64 THEN gpr[i] ELSE xmm[i]

\* Native code may use its home space as it likes.
CallNative ==
  /\ pc = "call" /\ callee = "native"
  /\ seen' = [i \in 1 .. nargs |-> Parameter(i)]
  /\ mem' = [w \in Depth |-> IF w \in sp - 3 .. sp THEN Junk
                             ELSE IF w = sp + 1 THEN ReturnTo ELSE mem[w]]
  /\ sp' = sp + 1
  /\ pc' = "function"
  /\ UNCHANGED <<call, label, shift, left, gpr, xmm>>

CallStub ==
  /\ pc = "call" /\ callee = "thunk"
  /\ mem' = [mem EXCEPT ![sp + 1] = ReturnTo]
  /\ sp' = sp + 1
  /\ pc' = "stub"
  /\ UNCHANGED <<call, label, shift, left, gpr, xmm, seen>>

\* newThunk64(): min(numParams, NUM_PARAM_REGISTERS).
Spilled == IF nargs < 4 THEN nargs ELSE 4

\* The code of the stub: sub rsp, 40; an instruction of CODE_MOV_STACK_TABLE for
\* each register parameter, at [rsp+48] and up; rcx and rdx for wrapper().
Stub ==
  LET home == sp + 5 - 6 IN
  /\ pc = "stub"
  /\ sp' = sp + 5
  /\ mem' = [w \in Depth |->
               IF w \in home - (Spilled - 1) .. home
                 THEN LET k == home - w + 1 IN
                      IF types[k] = UINT64 THEN gpr[k] ELSE xmm[k]
                 ELSE mem[w]]
  /\ gpr' = [gpr EXCEPT ![1] = Impl, ![2] = Junk]
  /\ pc' = "wrapper"
  /\ UNCHANGED <<call, label, shift, left, xmm, seen>>

\* wrapper() reads the words from args, [rsp+48] of the stub, and uses its own
\* home space; the stub returns.
Wrapper ==
  /\ pc = "wrapper"
  /\ seen' = [i \in 1 .. nargs |-> mem[sp - 6 - (i - 1)]]
  /\ mem' = [w \in Depth |-> IF w \in sp - 3 .. sp THEN Junk ELSE mem[w]]
  /\ sp' = sp - 5
  /\ pc' = "function"
  /\ UNCHANGED <<call, label, shift, left, gpr, xmm>>

\* The return address is popped; then Lbasic_epilogue, Lfp_epilogue: rsp from
\* rbp, rbp from word 0, the return to the JNI method.
Return ==
  /\ pc = "function"
  /\ pc' = IF mem[sp] = ReturnTo /\ mem[0] = Saved THEN "returned" ELSE "lost"
  /\ sp' = -1
  /\ UNCHANGED <<call, label, shift, left, mem, gpr, xmm, seen>>

\* Native code crashes: seh.h unwinds to invoke64::basic() and its like, by the
\* frame register rbp.
Crash ==
  /\ pc = "function" /\ callee = "native"
  /\ pc' = IF mem[0] = Saved THEN "thrown" ELSE "lost"
  /\ sp' = -1
  /\ UNCHANGED <<call, label, shift, left, mem, gpr, xmm, seen>>

Next == \/ Refuse \/ Basic \/ BasicFew \/ BasicMod \/ BasicStore \/ BasicLoad
        \/ Fp \/ FpLoop \/ FpLoad
        \/ CallNative \/ CallStub \/ Stub \/ Wrapper \/ Return \/ Crash

Spec == Init /\ [][Next]_vars /\ WF_vars(Next)

-------------------------------------------------------------------------------
(* How a call implements Invocation.                                       *)

\* Parameter i, as a function of the types must see it: of a float in one of the
\* first four, only the low half.
Passed(i) == IF i <= 4 /\ types[i] = FLOAT THEN LowHalf(i) ELSE i

args == [i \in 1 .. nargs |-> Passed(i)]
balanced == sp = -1
phase == CASE pc \in {"function"} -> "inside"
           [] pc \in {"returned", "thrown", "lost"} -> pc
           [] OTHER -> "ready"

-------------------------------------------------------------------------------
TypeOK ==
  /\ pc \in {"ready", "basic_few", "basic_mod", "basic_store", "basic_load", "fp_loop",
             "fp_load", "call", "stub", "wrapper", "function", "returned", "thrown", "lost"}
  /\ entry \in Entries /\ callee \in {"native", "thunk"}
  /\ nargs \in 0 .. MaxArgs /\ types \in [Registers -> Bytes]
  /\ label \in 0 .. 8 /\ shift \in 0 .. 3
  /\ left \in 0 .. MaxArgs /\ sp \in {-1} \cup Depth
  /\ mem \in [Depth -> Values]
  /\ gpr \in [Registers -> Values] /\ xmm \in [Registers -> Values]

\* The function, or wrapper() behind the stub, reads its parameters as the JNI
\* method passed them, for each number of arguments and all register types
\* (invoke64_ll.asm; the jump tables, the loops by fours, rax shifted byte by byte).
ArgsArrive ==
  pc \in {"function", "returned"} => \A i \in 1 .. nargs : seen[i] = Passed(i)

\* No word is read from outside the arguments; the saved rbp is never written
\* over, by the handlers, by a function that uses its home space or by the stub;
\* and rsp is aligned on 16 bytes at each call.
FrameIntact ==
  /\ Outside \notin {mem[w] : w \in Depth} \cup {gpr[r] : r \in Registers}
                                        \cup {xmm[r] : r \in Registers}
  /\ sp >= 0 => mem[0] = Saved
  /\ pc \in {"call", "wrapper"} => sp % 2 = 0
  /\ pc # "lost"

===============================================================================
