---------------------------- MODULE Invoke64Proofs ----------------------------
(***************************************************************************)
(* That a call on amd64 passes its arguments and keeps its frame, for      *)
(* every number of them.                                                   *)
(*                                                                         *)
(* The inductive invariant says of each label of the assembly code where   *)
(* the arguments are that have been dealt with.  Its centre is End, the    *)
(* word that rsp will point to when the function is called: argument i is  *)
(* in word End - (i - 1) from the moment it is stored, although rsp is     *)
(* still on its way there.                                                 *)
(***************************************************************************)
EXTENDS Invoke64, TLAPS

End == IF pc = "basic_store" THEN sp + left
       ELSE IF pc = "basic_load" THEN sp + left - 4
       ELSE IF pc = "fp_loop" THEN sp + left - (label - 4)
       ELSE IF pc = "stub" THEN sp - 1
       ELSE IF pc = "wrapper" THEN sp - 6 ELSE sp

\* Arguments from a on are in their words.
Stored(a) == \A i \in Int : a <= i /\ i <= nargs => mem[End - (i - 1)] = i

\* Parameters from a to 4 are in the registers of their types.
InRegisters(a) ==
  \A r \in Registers : a <= r /\ r <= nargs =>
     (IF types[r] = UINT64 THEN gpr[r] ELSE xmm[r]) = Passed(r)

\* The stack is as large as it has to be.
Room == 4 <= sp /\ 4 <= End /\ End % 4 = 0 /\ nargs <= End /\ End <= nargs + 4

NoTypes == entry = "basic" /\ \A r \in Registers : types[r] = UINT64

Where ==
  /\ pc = "ready" => /\ sp = -1 /\ left = nargs /\ shift = 0
                     /\ entry = "basic" => NoTypes
  /\ pc = "basic_few" => /\ NoTypes
                         /\ label = nargs /\ nargs < 4 /\ sp = 4
  /\ pc = "basic_mod" => /\ NoTypes
                         /\ label \in 5 .. 7 /\ left = nargs /\ nargs > 4 /\ sp = 4
                         /\ (nargs - (label - 4)) % 4 = 0
  /\ pc = "basic_store" => /\ NoTypes
                           /\ left >= 4 /\ left % 4 = 0 /\ left <= nargs /\ Room
                           /\ \A r \in Registers : left + r <= nargs => gpr[r] = left + r
                           /\ Stored(left + 5)
  /\ pc = "basic_load" => /\ NoTypes
                          /\ left >= 4 /\ left % 4 = 0 /\ left <= nargs /\ Room
                          /\ Stored(left + 1)
  /\ pc = "fp_loop" => /\ Valid
                       /\ label \in 5 .. 8 /\ left - (label - 4) >= 4 /\ left <= nargs
                       /\ (left - (label - 4)) % 4 = 0 /\ Room
                       /\ Stored(left + 1) /\ shift = 0
  /\ pc = "fp_load" => /\ Valid
                       /\ label \in 1 .. 4 /\ label <= nargs /\ shift = 4 - label
                       /\ Room /\ Stored(5) /\ InRegisters(label + 1)
  /\ pc \in {"call", "stub"} => Room /\ Stored(5) /\ InRegisters(1)
  /\ pc = "stub" => mem[sp] = ReturnTo
  /\ pc = "wrapper" => /\ Room /\ mem[sp - 5] = ReturnTo
                       /\ \A i \in 1 .. nargs : mem[End - (i - 1)] = Passed(i)
  /\ pc = "function" => sp >= 0 /\ mem[sp] = ReturnTo

IInv == TypeOK /\ FrameIntact /\ ArgsArrive /\ Where

-------------------------------------------------------------------------------
(* Arithmetic, and what a word can be.                                     *)

\* Remainders modulo the four register arguments.
LEMMA Modulo ==
  ASSUME NEW x \in Nat, NEW y \in Nat, x % 4 = 0, y <= x
  PROVE  /\ (x + 4) % 4 = 0 /\ x % 2 = 0
         /\ x >= 4 => (x - 4) % 4 = 0
         /\ x > 0 => x >= 4
         /\ (y - (y % 4)) % 4 = 0 /\ y % 4 \in 0 .. 3
OBVIOUS

\* An argument is its number.
LEMMA ArgIsIt ==
  ASSUME TypeOK, NEW i \in 1 .. nargs
  PROVE  /\ Arg(i) = i /\ i \in Values /\ LowHalf(i) \in Values
         /\ i # Outside /\ LowHalf(i) # Outside
         /\ Passed(i) \in Values /\ Passed(i) # Outside
BY CallLimitsAssumption DEF TypeOK, Arg, Values, Outside, LowHalf, Passed

-------------------------------------------------------------------------------
(* The invariant, label by label.                                          *)

\* The invariant holds before a call.
LEMMA InitInv == Init => IInv
<1> SUFFICES ASSUME Init PROVE IInv
  OBVIOUS
<1>1. Depth \subseteq Int /\ Junk \in Values /\ Junk # Outside /\ nargs \in Int
  BY CallLimitsAssumption DEF Init, Depth, Junk, Values, Outside
<1>2. TypeOK
  BY <1>1, CallLimitsAssumption DEF Init, TypeOK, Values, Junk
<1>3. FrameIntact /\ ArgsArrive
  BY <1>1 DEF Init, FrameIntact, ArgsArrive
<1>4. Where
  BY <1>1 DEF Init, Where, NoTypes, Chosen
<1>5. QED
  BY <1>2, <1>3, <1>4 DEF IInv

\* invoke64_basic() begins.
LEMMA BasicInv == IInv /\ Basic => IInv'
<1> SUFFICES ASSUME IInv, Basic PROVE IInv'
  OBVIOUS
<1>0. /\ nargs \in Nat /\ nargs <= MaxArgs /\ MaxArgs \in Nat
      /\ 0 \in Depth /\ 4 \in Depth /\ Saved \in Values /\ Saved # Outside
      /\ sp = -1 /\ left = nargs /\ NoTypes
  BY CallLimitsAssumption DEF IInv, TypeOK, Where, Basic, Depth, Saved, Values, Outside
<1>1. BasicIndex(nargs) \in 0 .. 7
  BY <1>0, Modulo DEF BasicIndex
<1>2. TypeOK'
  BY <1>0, <1>1 DEF IInv, TypeOK, Basic, Prologue, call
<1>3. FrameIntact'
  BY <1>0 DEF IInv, TypeOK, FrameIntact, Basic, Prologue
<1>4. ArgsArrive'
  BY DEF IInv, ArgsArrive, Basic
<1>5. NoTypes'
  BY <1>0 DEF NoTypes, Basic, call
<1>6. CASE BasicIndex(nargs) < 4
  <2>1. BasicIndex(nargs) = nargs /\ nargs < 4
    BY <1>0, <1>6 DEF BasicIndex
  <2>2. QED
    BY <1>2, <1>3, <1>4, <1>5, <1>6, <2>1 DEF IInv, Where, Basic, Prologue, call
<1>7. CASE BasicIndex(nargs) = 4
  <2>1. nargs >= 4 /\ nargs % 4 = 0
    BY <1>0, <1>7 DEF BasicIndex
  <2>2. pc' = "basic_load" /\ End' = nargs' /\ sp' = 4 /\ left' = nargs' /\ nargs' = nargs
    BY <1>0, <1>7 DEF Basic, Prologue, End, call
  <2>3. Room' /\ Stored(left + 1)'
    BY <1>0, <2>1, <2>2 DEF Room, Stored
  <2>4. QED
    BY <1>0, <1>2, <1>3, <1>4, <1>5, <2>1, <2>2, <2>3 DEF IInv, Where
<1>8. CASE BasicIndex(nargs) > 4
  <2>1. nargs > 4 /\ BasicIndex(nargs) = (nargs % 4) + 4 /\ (nargs - (nargs % 4)) % 4 = 0
    BY <1>0, <1>1, <1>8, Modulo DEF BasicIndex
  <2>2. /\ pc' = "basic_mod" /\ label' = BasicIndex(nargs) /\ sp' = 4
        /\ left' = nargs /\ nargs' = nargs
    BY <1>0, <1>1, <1>8 DEF Basic, Prologue, call
  <2>3. QED
    BY <1>0, <1>1, <1>2, <1>3, <1>4, <1>5, <1>8, <2>1, <2>2 DEF IInv, Where
<1>9. QED
  BY <1>1, <1>6, <1>7, <1>8

\* Up to four arguments.
LEMMA BasicFewInv == IInv /\ BasicFew => IInv'
<1> SUFFICES ASSUME IInv, BasicFew PROVE IInv'
  OBVIOUS
<1>0. /\ nargs \in Nat /\ nargs < 4 /\ label = nargs /\ sp = 4 /\ NoTypes
      /\ MaxArgs \in Nat /\ 4 \in Depth
  BY CallLimitsAssumption DEF IInv, TypeOK, Where, BasicFew, Depth
<1>1. \A r \in Registers : r <= label => Arg(r) = r /\ r \in Values /\ r # Outside
  BY <1>0, ArgIsIt DEF IInv, Registers
<1>2. TypeOK'
  BY <1>0, <1>1 DEF IInv, TypeOK, BasicFew, call
<1>3. FrameIntact'
  BY <1>0, <1>1 DEF IInv, TypeOK, FrameIntact, BasicFew
<1>4. ArgsArrive'
  BY DEF IInv, ArgsArrive, BasicFew
<1>5. pc' = "call" /\ sp' = 4 /\ nargs' = nargs /\ End' = 4
  BY <1>0 DEF BasicFew, End, call
<1>6. Room' /\ Stored(5)'
  BY <1>0, <1>5 DEF Room, Stored
<1>7. InRegisters(1)'
  BY <1>0, <1>1, <1>5 DEF InRegisters, BasicFew, call, NoTypes, Passed, Registers, UINT64, FLOAT
<1>8. QED
  BY <1>2, <1>3, <1>4, <1>5, <1>6, <1>7 DEF IInv, Where

\* The remainder of the count decides the entry of the loop.
LEMMA BasicModInv == IInv /\ BasicMod => IInv'
<1> SUFFICES ASSUME IInv, BasicMod PROVE IInv'
  OBVIOUS
<1> DEFINE k == label - 4
<1>0. /\ nargs \in Nat /\ nargs <= MaxArgs /\ MaxArgs \in Nat /\ nargs > 4
      /\ k \in 1 .. 3 /\ left = nargs /\ (nargs - k) % 4 = 0
      /\ sp = 4 /\ 4 \in Depth /\ NoTypes
  BY CallLimitsAssumption DEF IInv, TypeOK, Where, BasicMod, Depth
<1>1. nargs - k >= 4
  BY <1>0, Modulo
<1>2. \A r \in Registers : r <= k => /\ left - k + r \in 1 .. nargs
                                     /\ Arg(left - k + r) = left - k + r
                                     /\ left - k + r \in Values
                                     /\ left - k + r # Outside
  <2> SUFFICES ASSUME NEW r \in Registers, r <= k
               PROVE  left - k + r \in 1 .. nargs
    BY ArgIsIt DEF IInv
  <2>1. QED
    BY <1>0, <1>1 DEF Registers
<1>3. TypeOK'
  BY <1>0, <1>1, <1>2 DEF IInv, TypeOK, BasicMod, call
<1>4. FrameIntact'
  BY <1>0, <1>2 DEF IInv, TypeOK, FrameIntact, BasicMod
<1>5. ArgsArrive'
  BY DEF IInv, ArgsArrive, BasicMod
<1>6. /\ pc' = "basic_store" /\ sp' = 4 /\ left' = nargs - k /\ nargs' = nargs
      /\ End' = 4 + nargs - k /\ NoTypes'
  BY <1>0 DEF BasicMod, End, call, NoTypes
<1>7. Room' /\ Stored(left + 5)'
  <2>1. (4 + nargs - k) % 4 = 0
    BY <1>0, <1>1, Modulo
  <2>2. QED
    BY <1>0, <1>1, <1>6, <2>1 DEF Room, Stored
<1>8. \A r \in Registers : left' + r <= nargs => gpr'[r] = left' + r
  BY <1>0, <1>1, <1>2, <1>6 DEF BasicMod, Registers
<1>9. QED
  BY <1>0, <1>1, <1>3, <1>4, <1>5, <1>6, <1>7, <1>8 DEF IInv, Where

\* One word goes to the stack.
LEMMA BasicStoreInv == IInv /\ BasicStore => IInv'
<1> SUFFICES ASSUME IInv, BasicStore PROVE IInv'
  OBVIOUS
<1>0. /\ nargs \in Nat /\ nargs <= MaxArgs /\ MaxArgs \in Nat /\ left \in Nat
      /\ sp \in Int /\ sp >= 4 /\ left >= 4 /\ left % 4 = 0 /\ left <= nargs
      /\ End = sp + left /\ Room /\ Stored(left + 5) /\ NoTypes
      /\ \A r \in Registers : left + r <= nargs => gpr[r] = left + r
  BY CallLimitsAssumption DEF IInv, TypeOK, Where, BasicStore, Depth, Room, End
<1>1. /\ sp + 4 \in Depth /\ sp - 3 > 0
      /\ sp \in Depth /\ sp - 1 \in Depth /\ sp - 2 \in Depth /\ sp - 3 \in Depth
      /\ 1 \in Registers /\ 2 \in Registers /\ 3 \in Registers /\ 4 \in Registers
  BY <1>0 DEF Depth, Room, Registers
<1>2. mem' = [w \in Depth |-> IF w = sp THEN gpr[1] ELSE IF w = sp - 1 THEN gpr[2] ELSE
                              IF w = sp - 2 THEN gpr[3] ELSE IF w = sp - 3 THEN gpr[4]
                              ELSE mem[w]]
  BY <1>0, <1>1 DEF IInv, TypeOK, BasicStore, Depth
<1>3. TypeOK'
  BY <1>1, <1>2 DEF IInv, TypeOK, BasicStore, call
<1>4. FrameIntact'
  <2>1. /\ \A r \in Registers : gpr[r] # Outside /\ xmm[r] # Outside
        /\ \A w \in Depth : mem[w] # Outside
        /\ mem[0] = Saved
    BY <1>0 DEF IInv, FrameIntact
  <2>2. /\ \A w \in Depth : mem'[w] # Outside
        /\ 0 \in Depth /\ mem'[0] = Saved
    BY <1>0, <1>1, <1>2, <2>1 DEF Depth
  <2>3. QED
    BY <2>1, <2>2 DEF FrameIntact, BasicStore
<1>5. ArgsArrive'
  BY DEF IInv, ArgsArrive, BasicStore
<1>6. /\ pc' = "basic_load" /\ sp' = sp + 4 /\ left' = left /\ nargs' = nargs
      /\ End' = End /\ NoTypes'
  BY <1>0 DEF BasicStore, End, call, NoTypes
<1>7. Room'
  BY <1>0, <1>6 DEF Room
<1>8. Stored(left + 1)'
  <2> SUFFICES ASSUME NEW i \in Int, left + 1 <= i, i <= nargs
               PROVE  mem'[End - (i - 1)] = i
    BY <1>6 DEF Stored
  <2>1. End - (i - 1) \in Depth
    BY <1>0 DEF Room, Depth
  <2>2. CASE i <= left + 4
    <3>1. i - left \in Registers /\ gpr[i - left] = i
      BY <1>0, <2>2 DEF Registers
    <3>2. End - (i - 1) = sp + 1 - (i - left)
      BY <1>0
    <3>3. QED
      BY <1>0, <1>2, <2>1, <3>1, <3>2 DEF Registers
  <2>3. CASE left + 5 <= i
    <3>1. End - (i - 1) < sp - 3 /\ mem[End - (i - 1)] = i
      BY <1>0, <2>3 DEF Stored
    <3>2. QED
      BY <1>0, <1>2, <2>1, <3>1
  <2>4. QED
    BY <1>0, <2>2, <2>3
<1>9. QED
  BY <1>0, <1>3, <1>4, <1>5, <1>6, <1>7, <1>8 DEF IInv, Where

\* The registers are loaded.
LEMMA BasicLoadInv == IInv /\ BasicLoad => IInv'
<1> SUFFICES ASSUME IInv, BasicLoad PROVE IInv'
  OBVIOUS
<1>0. /\ nargs \in Nat /\ nargs <= MaxArgs /\ MaxArgs \in Nat /\ left \in Nat
      /\ sp \in Int /\ sp >= 4 /\ left >= 4 /\ left % 4 = 0 /\ left <= nargs
      /\ End = sp + left - 4 /\ Room /\ Stored(left + 1) /\ NoTypes
  BY CallLimitsAssumption DEF IInv, TypeOK, Where, BasicLoad, Depth, Room, End
<1>1. \A r \in Registers : /\ left - 4 + r \in 1 .. nargs
                           /\ Arg(left - 4 + r) = left - 4 + r
                           /\ left - 4 + r \in Values
                           /\ left - 4 + r # Outside
  BY <1>0, ArgIsIt DEF IInv, Registers
<1>2. TypeOK'
  BY <1>0, <1>1 DEF IInv, TypeOK, BasicLoad, call
<1>3. FrameIntact'
  <2>1. left - 4 = 0 => sp % 2 = 0
    BY <1>0, Modulo DEF Room
  <2>2. QED
    BY <1>0, <1>1, <2>1 DEF IInv, TypeOK, FrameIntact, BasicLoad
<1>4. ArgsArrive'
  BY DEF IInv, ArgsArrive, BasicLoad
<1>5. /\ sp' = sp /\ left' = left - 4 /\ nargs' = nargs /\ mem' = mem /\ NoTypes'
      /\ End' = End
      /\ gpr' = [r \in Registers |-> left - 4 + r]
  BY <1>0, <1>1 DEF BasicLoad, End, call, NoTypes
<1>6. Room' /\ Stored(left + 5)'
  BY <1>0, <1>5 DEF Room, Stored
<1>7. CASE left - 4 = 0
  <2>1. pc' = "call" /\ Stored(5)'
    BY <1>0, <1>5, <1>6, <1>7 DEF BasicLoad, Stored
  <2>2. InRegisters(1)'
    BY <1>0, <1>5, <1>7 DEF InRegisters, NoTypes, Passed, Registers, UINT64, FLOAT
  <2>3. QED
    BY <1>2, <1>3, <1>4, <1>6, <2>1, <2>2 DEF IInv, Where
<1>8. CASE left - 4 > 0
  <2>1. pc' = "basic_store" /\ left' >= 4 /\ left' % 4 = 0
    BY <1>0, <1>5, <1>8, Modulo DEF BasicLoad
  <2>2. \A r \in Registers : left' + r <= nargs' => gpr'[r] = left' + r
    BY <1>0, <1>5 DEF Registers
  <2>3. QED
    BY <1>0, <1>2, <1>3, <1>4, <1>5, <1>6, <2>1, <2>2 DEF IInv, Where
<1>9. QED
  BY <1>0, <1>7, <1>8

\* invoke64_fp() begins.
LEMMA FpInv == IInv /\ Fp => IInv'
<1> SUFFICES ASSUME IInv, Fp PROVE IInv'
  OBVIOUS
<1>0. /\ nargs \in Nat /\ nargs <= MaxArgs /\ MaxArgs \in Nat
      /\ 0 \in Depth /\ 4 \in Depth /\ Saved \in Values /\ Saved # Outside
      /\ sp = -1 /\ left = nargs /\ shift = 0 /\ Valid
  BY CallLimitsAssumption DEF IInv, TypeOK, Where, Fp, Depth, Saved, Values, Outside
<1> DEFINE g == FpIndex(nargs)
<1>1. /\ g \in 0 .. 8
      /\ nargs <= 4 => g = nargs
      /\ nargs > 4 => g \in 5 .. 8 /\ (nargs - (g - 4)) % 4 = 0 /\ nargs - (g - 4) >= 4
  <2>1. CASE nargs <= 8
    <3>1. \A n \in 5 .. 8 : (n - (n - 4)) % 4 = 0
      OBVIOUS
    <3>2. QED
      BY <1>0, <2>1, <3>1 DEF FpIndex
  <2>2. CASE nargs > 8 /\ nargs % 4 = 0
    BY <1>0, <2>2, Modulo DEF FpIndex
  <2>3. CASE nargs > 8 /\ nargs % 4 # 0
    <3>1. nargs % 4 \in 1 .. 3 /\ (nargs - (nargs % 4)) % 4 = 0
      BY <1>0, <2>3, Modulo
    <3>2. g = (nargs % 4) + 4 /\ g - 4 = nargs % 4
      BY <2>3, <3>1, <1>0 DEF FpIndex
    <3>3. QED
      BY <1>0, <2>3, <3>1, <3>2
  <2>4. QED
    BY <1>0, <2>1, <2>2, <2>3
<1>2. /\ label' = g /\ sp' = 4 /\ mem' = [mem EXCEPT ![0] = Saved]
      /\ shift' = (IF g \in 1 .. 3 THEN 4 - g ELSE 0)
      /\ pc' = (IF g = 0 THEN "call" ELSE IF g <= 4 THEN "fp_load" ELSE "fp_loop")
      /\ nargs' = nargs /\ entry' = entry /\ callee' = callee /\ types' = types
      /\ left' = left /\ gpr' = gpr /\ xmm' = xmm /\ seen' = seen
  BY DEF Fp, Prologue, call
<1> HIDE DEF g
<1>3. TypeOK'
  BY <1>0, <1>1, <1>2 DEF IInv, TypeOK
<1>4. FrameIntact'
  BY <1>0, <1>1, <1>2 DEF IInv, TypeOK, FrameIntact
<1>5. ArgsArrive'
  BY <1>1, <1>2 DEF ArgsArrive
<1>6. Valid'
  BY <1>0, <1>2 DEF Valid
<1>7. CASE g = 0
  <2>1. pc' = "call" /\ nargs = 0 /\ End' = 4
    BY <1>0, <1>1, <1>2, <1>7 DEF End
  <2>2. Room' /\ Stored(5)' /\ InRegisters(1)'
    BY <1>0, <1>2, <2>1 DEF Room, Stored, InRegisters, Registers
  <2>3. QED
    BY <1>3, <1>4, <1>5, <2>1, <2>2 DEF IInv, Where
<1>8. CASE g \in 1 .. 4
  <2>1. /\ pc' = "fp_load" /\ nargs = g /\ End' = 4 /\ shift' = 4 - label'
        /\ label' \in 1 .. 4 /\ label' <= nargs' /\ label' = nargs'
    BY <1>0, <1>1, <1>2, <1>8 DEF End
  <2>2. Room' /\ Stored(5)'
    BY <1>0, <1>2, <1>8, <2>1 DEF Room, Stored
  <2>3. InRegisters(label + 1)'
    BY <1>0, <1>1, <1>2, <1>8, <2>1 DEF InRegisters, Registers
  <2>4. QED
    BY <1>3, <1>4, <1>5, <1>6, <2>1, <2>2, <2>3 DEF IInv, Where
<1>9. CASE g > 4
  <2>1. /\ pc' = "fp_loop" /\ g \in 5 .. 8 /\ End' = 4 + (nargs - (g - 4))
        /\ (nargs - (g - 4)) % 4 = 0 /\ nargs - (g - 4) >= 4 /\ shift' = 0
    BY <1>0, <1>1, <1>2, <1>9 DEF End
  <2>2. End' % 4 = 0
    BY <1>0, <2>1, Modulo
  <2>3. Room' /\ Stored(left + 1)'
    BY <1>0, <1>2, <2>1, <2>2 DEF Room, Stored
  <2>4. QED
    BY <1>0, <1>2, <1>3, <1>4, <1>5, <1>6, <2>1, <2>3 DEF IInv, Where
<1>10. QED
  BY <1>1, <1>7, <1>8, <1>9

\* One word goes to the stack.
LEMMA FpLoopInv == IInv /\ FpLoop => IInv'
<1> SUFFICES ASSUME IInv, FpLoop PROVE IInv'
  OBVIOUS
<1> DEFINE k == label - 4
<1>0. /\ nargs \in Nat /\ nargs <= MaxArgs /\ MaxArgs \in Nat /\ left \in Nat
      /\ k \in 1 .. 4 /\ left - k >= 4 /\ (left - k) % 4 = 0 /\ left <= nargs
      /\ label = k + 4
      /\ sp \in Int /\ sp >= 4 /\ End = sp + left - k /\ Room /\ Stored(left + 1)
      /\ Valid /\ shift = 0
  BY CallLimitsAssumption DEF IInv, TypeOK, Where, FpLoop, Depth, Room, End
<1>1. /\ mem' = [w \in Depth |-> IF w \in sp - (k - 1) .. sp
                                 THEN Arg(left - (k - 1) + (sp - w)) ELSE mem[w]]
      /\ gpr' = [r \in Registers |-> IF r <= k THEN Arg(left - k + r) ELSE gpr[r]]
      /\ sp' = sp + 4 /\ left' = left - k /\ nargs' = nargs
      /\ types' = types /\ entry' = entry /\ callee' = callee
      /\ shift' = shift /\ xmm' = xmm /\ seen' = seen
      /\ IF left - k > 4 THEN label' = 8 /\ pc' = "fp_loop"
                         ELSE label' = 4 /\ pc' = "fp_load"
  <2>1. label - 5 = k - 1
    BY <1>0
  <2>2. QED
    BY <2>1 DEF FpLoop, call
<1> HIDE DEF k
<1>2. \A w \in sp - (k - 1) .. sp :
         LET i == left - (k - 1) + (sp - w) IN
         i \in 1 .. nargs /\ Arg(i) = i /\ i \in Values /\ i # Outside
  <2> SUFFICES ASSUME NEW w \in sp - (k - 1) .. sp
               PROVE  left - (k - 1) + (sp - w) \in 1 .. nargs
    BY ArgIsIt DEF IInv
  <2>1. QED
    BY <1>0
<1>3. \A r \in Registers : r <= k => LET i == left - k + r IN
         i \in 1 .. nargs /\ Arg(i) = i /\ i \in Values /\ i # Outside
  <2> SUFFICES ASSUME NEW r \in Registers, r <= k
               PROVE  left - k + r \in 1 .. nargs
    BY ArgIsIt DEF IInv
  <2>1. QED
    BY <1>0 DEF Registers
<1>4. sp + 4 \in Depth /\ \A w \in sp - (k - 1) .. sp : w \in Depth /\ w > 0
  BY <1>0 DEF Depth, Room
<1>5. TypeOK'
  <2>1. mem' \in [Depth -> Values] /\ gpr' \in [Registers -> Values]
    BY <1>1, <1>2, <1>3 DEF IInv, TypeOK
  <2>2. left' \in 0 .. MaxArgs /\ sp' \in {-1} \cup Depth
    BY <1>0, <1>1, <1>4
  <2>3. QED
    BY <1>1, <2>1, <2>2 DEF IInv, TypeOK
<1>6. FrameIntact'
  <2>1. /\ \A r \in Registers : gpr[r] # Outside /\ xmm[r] # Outside
        /\ \A w \in Depth : mem[w] # Outside
        /\ mem[0] = Saved
    BY <1>0 DEF IInv, FrameIntact
  <2>2. 0 \in Depth /\ 0 \notin sp - (k - 1) .. sp
    BY <1>0 DEF Depth
  <2>3. /\ \A w \in Depth : mem'[w] # Outside
        /\ \A r \in Registers : gpr'[r] # Outside
        /\ mem'[0] = Saved
    BY <1>1, <1>2, <1>3, <2>1, <2>2
  <2>4. QED
    BY <1>1, <2>1, <2>3 DEF FrameIntact
<1>7. ArgsArrive' /\ Valid'
  BY <1>0, <1>1 DEF ArgsArrive, Valid
<1>8. /\ End' = End /\ nargs' <= End' /\ End' <= nargs' + 4 /\ 4 <= sp'
      /\ 4 <= End' /\ End' % 4 = 0
  <2>1. CASE left - k > 4
    BY <1>0, <1>1, <2>1 DEF End, Room
  <2>2. CASE left - k = 4
    BY <1>0, <1>1, <2>2 DEF End, Room
  <2>3. QED
    BY <1>0, <2>1, <2>2
<1>9. Stored(left + 1)'
  <2> SUFFICES ASSUME NEW i \in Int, left - k + 1 <= i, i <= nargs
               PROVE  mem'[End - (i - 1)] = i
    BY <1>1, <1>8 DEF Stored
  <2>1. End - (i - 1) \in Depth
    BY <1>0 DEF Room, Depth
  <2>2. CASE i <= left
    <3>1. /\ End - (i - 1) \in sp - (k - 1) .. sp
          /\ left - (k - 1) + (sp - (End - (i - 1))) = i
      BY <1>0, <2>2
    <3>2. QED
      BY <1>1, <1>2, <2>1, <3>1
  <2>3. CASE left + 1 <= i
    <3>1. End - (i - 1) \notin sp - (k - 1) .. sp /\ mem[End - (i - 1)] = i
      BY <1>0, <2>3 DEF Stored
    <3>2. QED
      BY <1>1, <2>1, <3>1
  <2>4. QED
    BY <1>0, <2>2, <2>3
<1>10. CASE left - k > 4
  <2>1. left - k - 4 >= 4 /\ (left - k - 4) % 4 = 0
    BY <1>0, <1>10, Modulo
  <2>2. pc' = "fp_loop" /\ label' = 8 /\ Room'
    BY <1>1, <1>8, <1>10 DEF Room
  <2>3. label' - 4 = 4 /\ left' - (label' - 4) = left - k - 4
    BY <1>0, <1>1, <2>2
  <2>4. QED
    BY <1>0, <1>1, <1>5, <1>6, <1>7, <1>9, <2>1, <2>2, <2>3 DEF IInv, Where
<1>11. CASE left - k = 4
  <2>1. pc' = "fp_load" /\ label' = 4 /\ shift' = 0 /\ Room' /\ left' = 4
    BY <1>0, <1>1, <1>8, <1>11 DEF Room
  <2>2. Stored(5)'
    BY <1>9, <2>1 DEF Stored
  <2>3. InRegisters(label + 1)'
    BY <2>1 DEF InRegisters, Registers
  <2>4. QED
    BY <1>0, <1>1, <1>5, <1>6, <1>7, <2>1, <2>2, <2>3 DEF IInv, Where
<1>12. QED
  BY <1>0, <1>10, <1>11

\* Each register is loaded by its type.
LEMMA FpLoadInv == IInv /\ FpLoad => IInv'
<1> SUFFICES ASSUME IInv, FpLoad PROVE IInv'
  OBVIOUS
<1>0. /\ nargs \in Nat /\ nargs <= MaxArgs /\ MaxArgs \in Nat
      /\ label \in 1 .. 4 /\ label <= nargs /\ shift = 4 - label
      /\ End = sp /\ Room /\ Stored(5) /\ InRegisters(label + 1) /\ Valid
      /\ sp \in Int
  BY CallLimitsAssumption DEF IInv, TypeOK, Where, FpLoad, Depth, End
<1> DEFINE al == types[label]
<1>1. /\ gpr' = (IF al = UINT64 THEN [gpr EXCEPT ![label] = Arg(label)] ELSE gpr)
      /\ xmm' = (IF al = UINT64 THEN xmm
                 ELSE [xmm EXCEPT ![label] = IF al = DOUBLE THEN Arg(label)
                                                            ELSE LowHalf(Arg(label))])
      /\ label' = label - 1 /\ shift' = (IF label = 1 THEN shift ELSE shift + 1)
      /\ pc' = (IF label = 1 THEN "call" ELSE "fp_load")
      /\ nargs' = nargs /\ types' = types /\ entry' = entry /\ callee' = callee
      /\ left' = left /\ sp' = sp /\ mem' = mem /\ seen' = seen
  <2>1. 4 - shift = label
    BY <1>0
  <2>2. QED
    BY <2>1 DEF FpLoad, call
<1>2. /\ Arg(label) = label /\ label \in Values /\ LowHalf(label) \in Values
      /\ label # Outside /\ LowHalf(label) # Outside
      /\ label \in Registers /\ al \in {UINT64, DOUBLE, FLOAT}
  BY <1>0, ArgIsIt DEF IInv, Registers, Valid
<1> HIDE DEF al
<1>3. TypeOK'
  BY <1>0, <1>1, <1>2 DEF IInv, TypeOK
<1>4. FrameIntact'
  <2>1. /\ \A r \in Registers : gpr[r] # Outside /\ xmm[r] # Outside
        /\ \A w \in Depth : mem[w] # Outside
        /\ mem[0] = Saved
    BY <1>0 DEF IInv, FrameIntact, Room
  <2>2. \A r \in Registers : gpr'[r] # Outside /\ xmm'[r] # Outside
    BY <1>1, <1>2, <2>1 DEF IInv, TypeOK
  <2>3. sp % 2 = 0
    BY <1>0, Modulo DEF Room
  <2>4. QED
    BY <1>1, <2>1, <2>2, <2>3 DEF FrameIntact
<1>5. ArgsArrive' /\ Valid'
  BY <1>0, <1>1 DEF ArgsArrive, Valid
<1>6. Room' /\ Stored(5)'
  BY <1>0, <1>1 DEF Room, Stored, End
<1>7. ASSUME NEW r \in Registers, label <= r, r <= nargs
      PROVE  (IF types[r] = UINT64 THEN gpr'[r] ELSE xmm'[r]) = Passed(r)
  <2>1. CASE r = label
    BY <1>0, <1>1, <1>2, <2>1 DEF IInv, TypeOK, Passed, UINT64, DOUBLE, FLOAT, al
  <2>2. CASE r # label
    <3>1. label + 1 <= r
      BY <1>0, <1>7, <2>2 DEF Registers
    <3>2. (IF types[r] = UINT64 THEN gpr[r] ELSE xmm[r]) = Passed(r)
      BY <1>0, <1>7, <3>1 DEF InRegisters
    <3>3. gpr'[r] = gpr[r] /\ xmm'[r] = xmm[r]
      BY <1>1, <1>7, <2>2 DEF IInv, TypeOK
    <3>4. QED
      BY <3>2, <3>3
  <2>3. QED
    BY <2>1, <2>2
<1>8. CASE label = 1
  <2>1. pc' = "call" /\ InRegisters(1)'
    BY <1>1, <1>7, <1>8 DEF InRegisters, Passed
  <2>2. QED
    BY <1>3, <1>4, <1>5, <1>6, <2>1 DEF IInv, Where
<1>9. CASE label # 1
  <2>1. /\ pc' = "fp_load" /\ label' \in 1 .. 4 /\ label' <= nargs' /\ shift' = 4 - label'
        /\ label' + 1 = label
    BY <1>0, <1>1, <1>9
  <2>2. InRegisters(label + 1)'
    BY <1>1, <1>7, <2>1 DEF InRegisters, Passed
  <2>3. QED
    BY <1>3, <1>4, <1>5, <1>6, <2>1, <2>2 DEF IInv, Where
<1>10. QED
  BY <1>8, <1>9

\* When the function is called, each parameter is where the ABI puts it.
LEMMA AtCall ==
  ASSUME IInv, pc = "call"
  PROVE  /\ sp \in Int /\ 4 <= sp /\ nargs <= sp /\ sp <= nargs + 4 /\ nargs \in Nat
         /\ nargs <= MaxArgs /\ MaxArgs \in Nat
         /\ \A i \in 1 .. nargs : Parameter(i) = Passed(i)
<1>1. /\ sp \in Int /\ 4 <= sp /\ nargs <= sp /\ sp <= nargs + 4 /\ nargs \in Nat
      /\ nargs <= MaxArgs /\ MaxArgs \in Nat /\ End = sp
      /\ Stored(5) /\ InRegisters(1)
  BY CallLimitsAssumption DEF IInv, TypeOK, Where, Depth, Room, End
<1>2. ASSUME NEW i \in 1 .. nargs PROVE Parameter(i) = Passed(i)
  <2>1. CASE i <= 4
    BY <1>1, <2>1 DEF InRegisters, Registers, Parameter
  <2>2. CASE i > 4
    BY <1>1, <2>2 DEF Stored, Parameter, Passed
  <2>3. QED
    BY <1>1, <2>1, <2>2
<1>3. QED
  BY <1>1, <1>2

\* The call of a native function.
LEMMA CallNativeInv == IInv /\ CallNative => IInv'
<1> SUFFICES ASSUME IInv, CallNative PROVE IInv'
  OBVIOUS
<1>0. /\ sp \in Int /\ 4 <= sp /\ nargs <= sp /\ sp <= nargs + 4 /\ nargs \in Nat
      /\ nargs <= MaxArgs /\ MaxArgs \in Nat
      /\ \A i \in 1 .. nargs : Parameter(i) = Passed(i)
  BY AtCall DEF CallNative
<1>1. /\ 0 \in Depth /\ sp + 1 \in Depth /\ 0 \notin sp - 3 .. sp + 1
      /\ sp + 1 \notin sp - 3 .. sp
      /\ Junk \in Values /\ ReturnTo \in Values /\ Junk # Outside /\ ReturnTo # Outside
  BY <1>0 DEF Depth, Junk, ReturnTo, Outside, Values
<1>2. /\ mem' = [w \in Depth |-> IF w \in sp - 3 .. sp THEN Junk
                                 ELSE IF w = sp + 1 THEN ReturnTo ELSE mem[w]]
      /\ sp' = sp + 1 /\ pc' = "function"
  BY DEF CallNative
<1>3. TypeOK'
  BY <1>1, <1>2 DEF IInv, TypeOK, CallNative, call
<1>4. FrameIntact'
  <2>1. /\ \A r \in Registers : gpr[r] # Outside /\ xmm[r] # Outside
        /\ \A w \in Depth : mem[w] # Outside
        /\ mem[0] = Saved
    BY <1>0 DEF IInv, FrameIntact
  <2>2. \A w \in Depth : mem'[w] # Outside
    BY <1>1, <1>2, <2>1
  <2>3. mem'[0] = Saved
    BY <1>0, <1>1, <1>2, <2>1
  <2>4. QED
    BY <1>2, <2>1, <2>2, <2>3 DEF FrameIntact, CallNative
<1>5. ArgsArrive'
  BY <1>0 DEF ArgsArrive, CallNative, call, Passed
<1>6. Where'
  BY <1>0, <1>1, <1>2 DEF Where
<1>7. QED
  BY <1>3, <1>4, <1>5, <1>6 DEF IInv

\* The call of a stub.
LEMMA CallStubInv == IInv /\ CallStub => IInv'
<1> SUFFICES ASSUME IInv, CallStub PROVE IInv'
  OBVIOUS
<1>0. /\ sp \in Int /\ 4 <= sp /\ nargs <= sp /\ sp <= nargs + 4 /\ nargs \in Nat
      /\ nargs <= MaxArgs /\ MaxArgs \in Nat /\ End = sp
      /\ Room /\ Stored(5) /\ InRegisters(1)
  BY AtCall DEF CallStub, IInv, Where, End
<1>1. /\ 0 \in Depth /\ sp + 1 \in Depth /\ 0 # sp + 1
      /\ ReturnTo \in Values /\ ReturnTo # Outside
  BY <1>0 DEF Depth, ReturnTo, Outside, Values
<1>2. /\ mem' = [mem EXCEPT ![sp + 1] = ReturnTo]
      /\ sp' = sp + 1 /\ pc' = "stub" /\ nargs' = nargs /\ types' = types
      /\ gpr' = gpr /\ xmm' = xmm
  BY DEF CallStub, call
<1>3. TypeOK'
  BY <1>1, <1>2 DEF IInv, TypeOK, CallStub, call
<1>4. FrameIntact'
  <2>1. /\ \A r \in Registers : gpr[r] # Outside /\ xmm[r] # Outside
        /\ \A w \in Depth : mem[w] # Outside
        /\ mem[0] = Saved /\ mem \in [Depth -> Values]
    BY <1>0 DEF IInv, FrameIntact, TypeOK
  <2>2. (\A w \in Depth : mem'[w] # Outside) /\ mem'[0] = Saved
    BY <1>1, <1>2, <2>1
  <2>3. QED
    BY <1>2, <2>1, <2>2 DEF FrameIntact
<1>5. ArgsArrive'
  BY <1>2 DEF ArgsArrive
<1>6. End' = End /\ Room' /\ mem'[sp'] = ReturnTo
  BY <1>0, <1>1, <1>2 DEF End, Room, IInv, TypeOK
<1>7. Stored(5)'
  <2> SUFFICES ASSUME NEW i \in Int, 5 <= i, i <= nargs
               PROVE  mem'[sp - (i - 1)] = i
    BY <1>0, <1>2, <1>6 DEF Stored
  <2>1. sp - (i - 1) \in Depth /\ sp - (i - 1) # sp + 1 /\ mem[sp - (i - 1)] = i
    BY <1>0 DEF Stored, Depth
  <2>2. QED
    BY <1>2, <2>1 DEF IInv, TypeOK
<1>8. InRegisters(1)'
  BY <1>0, <1>2 DEF InRegisters, Passed
<1>9. QED
  BY <1>2, <1>3, <1>4, <1>5, <1>6, <1>7, <1>8 DEF IInv, Where

\* The stub spills the registers.
LEMMA StubInv == IInv /\ Stub => IInv'
<1> SUFFICES ASSUME IInv, Stub PROVE IInv'
  OBVIOUS
<1> DEFINE b == sp - 1
           lo == b - (Spilled - 1)
<1>0. /\ sp \in Int /\ b \in Int /\ 4 <= b /\ nargs <= b /\ b <= nargs + 4 /\ nargs \in Nat
      /\ b % 4 = 0 /\ nargs <= MaxArgs /\ MaxArgs \in Nat /\ End = b /\ sp = b + 1
      /\ Room /\ Stored(5) /\ InRegisters(1) /\ mem[sp] = ReturnTo
  BY CallLimitsAssumption DEF Stub, IInv, TypeOK, Where, Depth, Room, End
<1>1. /\ Spilled \in 0 .. 4 /\ Spilled <= nargs /\ (Spilled = 4 \/ Spilled = nargs)
      /\ lo \in Int /\ lo >= 1
      /\ \A w \in lo .. b : b - w + 1 \in Registers /\ b - w + 1 <= nargs
  BY <1>0 DEF Spilled, Registers
<1>2. /\ mem' = [w \in Depth |-> IF w \in lo .. b
                  THEN IF types[b - w + 1] = UINT64 THEN gpr[b - w + 1] ELSE xmm[b - w + 1]
                  ELSE mem[w]]
      /\ sp' = b + 6 /\ pc' = "wrapper" /\ nargs' = nargs /\ types' = types
      /\ gpr' = [gpr EXCEPT ![1] = Impl, ![2] = Junk] /\ xmm' = xmm
  <2>1. sp + 5 - 6 = b /\ sp + 5 = b + 6
    BY <1>0
  <2> HIDE DEF b
  <2>2. QED
    BY <2>1 DEF Stub, call
<1>3. /\ 0 \in Depth /\ b + 6 \in Depth /\ b + 1 \in Depth
      /\ 0 \notin lo .. b /\ b + 1 \notin lo .. b
      /\ Impl \in Values /\ Junk \in Values /\ Impl # Outside /\ Junk # Outside
  BY <1>0, <1>1 DEF Depth, Impl, Junk, Outside, Values
<1> HIDE DEF b, lo
<1>4. TypeOK'
  <2>1. mem' \in [Depth -> Values] /\ gpr' \in [Registers -> Values]
    BY <1>1, <1>2, <1>3 DEF IInv, TypeOK
  <2>2. QED
    BY <1>2, <1>3, <2>1 DEF IInv, TypeOK, Stub, call
<1>5. FrameIntact'
  <2>1. /\ \A r \in Registers : gpr[r] # Outside /\ xmm[r] # Outside
        /\ \A w \in Depth : mem[w] # Outside
        /\ mem[0] = Saved
    BY <1>0 DEF IInv, FrameIntact
  <2>2. (\A w \in Depth : mem'[w] # Outside) /\ mem'[0] = Saved
    BY <1>1, <1>2, <1>3, <2>1
  <2>3. \A r \in Registers : gpr'[r] # Outside
    BY <1>2, <1>3, <2>1 DEF IInv, TypeOK
  <2>4. (b + 6) % 2 = 0
    BY <1>0
  <2>5. QED
    BY <1>2, <2>1, <2>2, <2>3, <2>4 DEF FrameIntact
<1>6. ArgsArrive'
  BY <1>2 DEF ArgsArrive
<1>7. End' = b /\ Room' /\ mem'[sp' - 5] = ReturnTo
  <2>1. sp' - 5 = b + 1 /\ sp' - 6 = b
    BY <1>0, <1>2
  <2>2. QED
    BY <1>0, <1>2, <1>3, <2>1 DEF End, Room
<1>8. ASSUME NEW i \in 1 .. nargs PROVE mem'[b - (i - 1)] = Passed(i)
  <2>1. b - (i - 1) \in Depth
    BY <1>0 DEF Depth
  <2>2. CASE i <= 4
    <3>1. b - (i - 1) \in lo .. b /\ b - (b - (i - 1)) + 1 = i /\ i \in Registers
      BY <1>0, <1>1, <2>2 DEF lo, Registers
    <3>2. (IF types[i] = UINT64 THEN gpr[i] ELSE xmm[i]) = Passed(i)
      BY <1>0, <2>2, <3>1 DEF InRegisters
    <3>3. QED
      BY <1>2, <2>1, <3>1, <3>2
  <2>3. CASE i > 4
    <3>1. b - (i - 1) \notin lo .. b /\ mem[b - (i - 1)] = i /\ Passed(i) = i
      BY <1>0, <1>1, <2>3 DEF lo, Stored, Passed
    <3>2. QED
      BY <1>2, <2>1, <3>1
  <2>4. QED
    BY <1>0, <2>2, <2>3
<1>9. \A i \in 1 .. nargs' : mem'[End' - (i - 1)] = Passed(i)'
  BY <1>2, <1>7, <1>8 DEF Passed
<1>10. QED
  BY <1>2, <1>4, <1>5, <1>6, <1>7, <1>9 DEF IInv, Where

\* wrapper() reads the arguments.
LEMMA WrapperInv == IInv /\ Wrapper => IInv'
<1> SUFFICES ASSUME IInv, Wrapper PROVE IInv'
  OBVIOUS
<1>0. /\ sp \in Int /\ 4 <= sp - 6 /\ nargs <= sp - 6 /\ sp <= nargs + 10 /\ nargs \in Nat
      /\ nargs <= MaxArgs /\ MaxArgs \in Nat /\ mem[sp - 5] = ReturnTo
      /\ \A i \in 1 .. nargs : mem[sp - 6 - (i - 1)] = Passed(i)
  BY CallLimitsAssumption DEF Wrapper, IInv, TypeOK, Where, Depth, Room, End
<1>1. /\ 0 \in Depth /\ sp - 5 \in Depth /\ 0 \notin sp - 3 .. sp /\ sp - 5 \notin sp - 3 .. sp
      /\ Junk \in Values /\ Junk # Outside
  BY <1>0 DEF Depth, Junk, Outside, Values
<1>2. /\ mem' = [w \in Depth |-> IF w \in sp - 3 .. sp THEN Junk ELSE mem[w]]
      /\ sp' = sp - 5 /\ pc' = "function"
      /\ seen' = [i \in 1 .. nargs |-> mem[sp - 6 - (i - 1)]]
  BY DEF Wrapper
<1>3. TypeOK'
  BY <1>1, <1>2 DEF IInv, TypeOK, Wrapper, call
<1>4. FrameIntact'
  <2>1. /\ \A r \in Registers : gpr[r] # Outside /\ xmm[r] # Outside
        /\ \A w \in Depth : mem[w] # Outside
        /\ mem[0] = Saved
    BY <1>0 DEF IInv, FrameIntact
  <2>2. (\A w \in Depth : mem'[w] # Outside) /\ mem'[0] = Saved
    BY <1>1, <1>2, <2>1
  <2>3. QED
    BY <1>2, <2>1, <2>2 DEF FrameIntact, Wrapper
<1>5. ArgsArrive'
  BY <1>0, <1>2 DEF ArgsArrive, Wrapper, call, Passed
<1>6. Where'
  BY <1>0, <1>1, <1>2 DEF Where
<1>7. QED
  BY <1>3, <1>4, <1>5, <1>6 DEF IInv

\* A refusal, a return or a crash.
LEMMA EndInv == IInv /\ (Refuse \/ Return \/ Crash) => IInv'
<1> SUFFICES ASSUME IInv, Refuse \/ Return \/ Crash PROVE IInv'
  OBVIOUS
<1>1. sp' = -1 /\ pc' \in {"returned", "thrown"}
  BY DEF IInv, FrameIntact, Where, Refuse, Return, Crash
<1>2. /\ UNCHANGED <<entry, callee, nargs, types, label, shift, left, mem, gpr, xmm, seen>>
      /\ pc' = "returned" => pc = "function"
  BY DEF Refuse, Return, Crash, call
<1>3. TypeOK'
  BY <1>1, <1>2 DEF IInv, TypeOK
<1>4. FrameIntact' /\ ArgsArrive'
  BY <1>1, <1>2 DEF IInv, FrameIntact, ArgsArrive, Passed
<1>5. Where'
  BY <1>1, <1>2 DEF IInv, Where, Return, Crash
<1>6. QED
  BY <1>3, <1>4, <1>5 DEF IInv

\* Nothing happens.
LEMMA StutterInv == IInv /\ UNCHANGED vars => IInv'
<1> SUFFICES ASSUME IInv, UNCHANGED vars PROVE IInv'
  OBVIOUS
<1>1. TypeOK' /\ FrameIntact' /\ ArgsArrive'
  BY DEF IInv, TypeOK, FrameIntact, ArgsArrive, Passed, vars
<1>2. End' = End /\ NoTypes' = NoTypes /\ Valid' = Valid /\ Room' = Room
  BY DEF End, NoTypes, Valid, Room, vars
<1>3. Where'
  BY <1>2 DEF IInv, Where, Stored, InRegisters, Passed, vars
<1>4. QED
  BY <1>1, <1>3 DEF IInv

\* Each step keeps the invariant.
LEMMA NextInv == IInv /\ [Next]_vars => IInv'
BY BasicInv, BasicFewInv, BasicModInv, BasicStoreInv, BasicLoadInv, FpInv, FpLoopInv,
   FpLoadInv, CallNativeInv, CallStubInv, StubInv, WrapperInv, EndInv, StutterInv DEF Next

-------------------------------------------------------------------------------
(* The results.                                                            *)

\* The invariant holds throughout.
LEMMA Inductive == Spec => []IInv
<1>1. Init => IInv
  BY InitInv
<1>2. IInv /\ [Next]_vars => IInv'
  BY NextInv
<1>3. QED
  BY <1>1, <1>2, PTL DEF Spec

\* The code keeps its words, registers and indices in range, for any number of
\* arguments; in particular the stack never grows past Depth.
THEOREM Amd64Types == Spec => []TypeOK
<1>1. IInv => TypeOK
  BY DEF IInv
<1>2. QED
  BY <1>1, Inductive, PTL

\* Whatever their number and types, the arguments arrive as they were passed, in
\* native code and in wrapper() behind a stub.
THEOREM Amd64ArgsArrive == Spec => []ArgsArrive
<1>1. IInv => ArgsArrive
  BY DEF IInv
<1>2. QED
  BY <1>1, Inductive, PTL

\* Whatever their number and types, nothing is read from outside the arguments,
\* the saved frame pointer stays intact and each call is aligned.
THEOREM Amd64FrameIntact == Spec => []FrameIntact
<1>1. IInv => FrameIntact
  BY DEF IInv
<1>2. QED
  BY <1>1, Inductive, PTL

-------------------------------------------------------------------------------
(* A call on amd64 is what invoke64.h promises.                            *)

I == INSTANCE Invocation

\* What the function sees is what was passed.
LEMMA Delivered ==
  ASSUME IInv, CallNative \/ Wrapper
  PROVE  seen' = args
<1>1. CASE CallNative
  BY <1>1, AtCall DEF CallNative, args
<1>2. CASE Wrapper
  <2>1. \A i \in 1 .. nargs : mem[sp - 6 - (i - 1)] = Passed(i)
    BY <1>2 DEF Wrapper, IInv, Where, End
  <2>2. QED
    BY <1>2, <2>1 DEF Wrapper, args
<1>3. QED
  BY <1>1, <1>2

\* Each step is one of Invocation or a stutter.
LEMMA StepImplements == IInv /\ [Next]_vars => [I!Next]_(I!vars)
<1> SUFFICES ASSUME IInv, [Next]_vars PROVE [I!Next]_(I!vars)
  OBVIOUS
<1> DEFINE early == Basic \/ BasicFew \/ BasicMod \/ BasicStore \/ BasicLoad
                    \/ Fp \/ FpLoop \/ FpLoad \/ CallStub \/ Stub
<1>1. args' = args
  BY DEF args, Passed, Next, Refuse, Basic, BasicFew, BasicMod, BasicStore, BasicLoad, Fp,
         FpLoop, FpLoad, CallNative, CallStub, Stub, Wrapper, Return, Crash, call, vars
<1>2. CASE early
  <2>1. phase = "ready" /\ phase' = "ready" /\ seen' = seen /\ balanced' \in BOOLEAN
    BY <1>2 DEF phase, balanced, Basic, BasicFew, BasicMod, BasicStore, BasicLoad, Fp,
                FpLoop, FpLoad, CallStub, Stub, call
  <2>2. QED
    BY <1>1, <2>1 DEF I!Next, I!Prepare
<1>3. CASE CallNative \/ Wrapper
  <2>1. phase = "ready" /\ phase' = "inside" /\ balanced' \in BOOLEAN
    BY <1>3 DEF phase, balanced, CallNative, Wrapper
  <2>2. QED
    BY <1>1, <1>3, <2>1, Delivered DEF I!Next, I!Deliver
<1>4. CASE Refuse
  <2>1. phase = "ready" /\ phase' = "thrown" /\ seen' = seen /\ balanced' = TRUE
    BY <1>4 DEF phase, balanced, Refuse, IInv, Where
  <2>2. QED
    BY <1>1, <2>1 DEF I!Next, I!Refuse
<1>5. CASE Return
  <2>1. phase = "inside" /\ phase' = "returned" /\ seen' = seen /\ balanced' = TRUE
    BY <1>5 DEF phase, balanced, Return, IInv, Where, FrameIntact
  <2>2. QED
    BY <1>1, <2>1 DEF I!Next, I!Return
<1>6. CASE Crash
  <2>1. phase = "inside" /\ phase' = "thrown" /\ seen' = seen /\ balanced' = TRUE
    BY <1>6 DEF phase, balanced, Crash, IInv, Where, FrameIntact
  <2>2. QED
    BY <1>1, <2>1 DEF I!Next, I!Crash
<1>7. CASE UNCHANGED vars
  BY <1>1, <1>7 DEF phase, balanced, vars, I!vars
<1>8. QED
  BY <1>2, <1>3, <1>4, <1>5, <1>6, <1>7 DEF Next

\* A call on amd64 implements Invocation, for any number and types of arguments:
\* the function is called once, with what was passed, and returns to the caller's
\* stack.
THEOREM Amd64ImplementsInvocation == Spec => I!Spec
<1>1. Init => I!Init
  BY DEF Init, I!Init, phase, balanced
<1>2. IInv /\ [Next]_vars => [I!Next]_(I!vars)
  BY StepImplements
<1>3. QED
  BY <1>1, <1>2, Inductive, PTL DEF Spec, I!Spec

===============================================================================
