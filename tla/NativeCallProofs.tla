--------------------------- MODULE NativeCallProofs ---------------------------
(***************************************************************************)
(* Proofs about NativeCall, for a stack of any depth and variable indirect *)
(* arrays of any length: JNI functions are called when they may be, an     *)
(* exception that a callback left reaches Java, and what a frame holds is  *)
(* given back.  The invariant says of each frame what it holds at each     *)
(* point of its way, and which frame can be above which.                   *)
(***************************************************************************)
EXTENDS NativeCall, SequenceTheorems, TLAPS

\* Positions of a variable indirect array that Destroy() gives back in full, or
\* that could not be globalized, given what was refused so far.
Kept(T, r) == \A k \in DOMAIN T : /\ T[k].d_elems /\ ~T[k].d_global => "elems" \in r
                                  /\ T[k].d_global => T[k].d_elems

\* What a frame holds, wherever it is on the stack.
Fits(f, r) ==
  /\ f.pc = "run" <=> f.kind \in {"java", "code"}
  /\ f.exc # "none" => f.pc \in {"unwind", "handler"}
  /\ f.pc = "handler" => f.args = "none"
  /\ f.args = "critical" =>
        \/ f.kind \in Callbacks \ {"cb_vi"} /\ f.pc \in {"unmarshall", "unpin", "unwind"}
        \/ f.kind = "copyOutDirect" /\ f.pc \in {"steps", "unwind"} /\ f.next >= 1
        \/ f.kind = "copyOutIndirect" /\ f.pc \in {"steps", "unwind"} /\ f.next >= 2
  /\ f.kind \in {"indirect", "vi"} /\ f.pc \in {"copy", "init", "invoke", "returned", "finish"}
        => f.args = "pinned"
  /\ f.kind \in {"java", "code", "direct"} => f.args = "none"
  /\ f.kind \in Callbacks /\ f.pc \in {"enter", "array", "pin", "call"} => f.args = "none"
  /\ f.refs > 0 => f.kind = "newThunk"
  /\ f.refs > 0 /\ f.owner = "nobody" => f.pc = "construct" \/ "callback" \in r
  /\ Len(f.d_arrays) <= Slots
  /\ Kept(f.d_arrays, r)

\* A frame that waits for the one above it.
Waits(f) ==
  /\ f.kind \in {"java", "code"} \cup Invoking \cup Callbacks
  /\ f.kind \in Invoking => f.pc = "returned"
  /\ f.kind \in Callbacks => f.pc = "unwind" /\ f.exc = "none" /\ f.args = "none"

\* Which frame can be above which.
CanCall(f, g) == \/ f.kind = "java" /\ g.kind \in Methods
                 \/ f.kind = "code" /\ g.kind \in Callbacks
                 \/ f.kind \in Invoking /\ g.kind = "code"
                 \/ f.kind \in Callbacks /\ g.kind = "java"

\* A frame that has JNI functions before it, or native code.
Working(f) == \/ f.pc \in {"steps", "array", "pin", "copy", "init", "invoke", "finish",
                           "unmarshall", "unpin", "call", "construct", "out", "thunk"}
              \/ f.pc = "enter" /\ f.kind \in Methods

\* The running frame, if an exception is pending or not, and if code crashed.
Knows(f, p, c) == /\ Working(f) => ~p
                  /\ f.exc = "pending" => p
                  /\ f.exc = "cpp" /\ p => c

FlagsInv == /\ abi \in {"amd64", "x86"}
            /\ pending \in BOOLEAN /\ attached \in BOOLEAN /\ crashed \in BOOLEAN
            /\ refused \subseteq {"elems", "callback", "buffer"}
            /\ leaked \subseteq refused
            /\ JniDiscipline

FramesInv == /\ stack \in Seq(Frame) /\ Len(stack) \in 1 .. MaxFrames
             /\ stack[1].kind \in {"java", "code"}
             /\ Top.kind \in Cpp => Len(stack) < MaxFrames
             /\ \A i \in 1 .. Len(stack) : Fits(stack[i], refused)
             /\ \A i \in 1 .. Len(stack) - 1 : Waits(stack[i]) /\ CanCall(stack[i], stack[i + 1])

\* Above a method whose callback did not complete there is no Java.
MissedInv == \A i \in 1 .. Len(stack) : stack[i].missed =>
               pending /\ \A j \in i .. Len(stack) : stack[j].kind # "java"

IInv == FlagsInv /\ FramesInv /\ Knows(Top, pending, crashed) /\ MissedInv

-------------------------------------------------------------------------------
(* Stacks.                                                                 *)

\* A stack without its last frame.
LEMMA FrontProperties ==
  ASSUME NEW S, NEW s \in Seq(S), Len(s) > 0
  PROVE  /\ Front(s) \in Seq(S) /\ Len(Front(s)) = Len(s) - 1
         /\ \A i \in 1 .. Len(s) - 1 : Front(s)[i] = s[i]
<1>1. Len(s) \in Nat /\ 1 \in 1 .. Len(s) + 1 /\ Len(s) - 1 \in 0 .. Len(s)
  BY LenProperties
<1>2. \A m, n : m \in 1 .. Len(s) + 1 /\ n \in m - 1 .. Len(s) =>
        /\ SubSeq(s, m, n) \in Seq(S) /\ Len(SubSeq(s, m, n)) = n - m + 1
        /\ \A i \in 1 .. n - m + 1 : SubSeq(s, m, n)[i] = s[m + i - 1]
  BY SubSeqProperties
<1>3. /\ SubSeq(s, 1, Len(s) - 1) \in Seq(S)
      /\ Len(SubSeq(s, 1, Len(s) - 1)) = (Len(s) - 1) - 1 + 1
      /\ \A i \in 1 .. (Len(s) - 1) - 1 + 1 : SubSeq(s, 1, Len(s) - 1)[i] = s[1 + i - 1]
  <2>1. 1 \in 1 .. Len(s) + 1 /\ Len(s) - 1 \in 1 - 1 .. Len(s)
    BY <1>1
  <2>2. QED
    BY <1>2, <2>1
<1>4. (Len(s) - 1) - 1 + 1 = Len(s) - 1 /\ \A i \in 1 .. Len(s) - 1 : 1 + i - 1 = i
  BY <1>1
<1>5. QED
  BY <1>3, <1>4 DEF Front

\* The running frame changes.
LEMMA Replaced ==
  ASSUME NEW S, NEW s \in Seq(S), Len(s) > 0, NEW f \in S
  PROVE  LET t == Append(Front(s), f) IN
         /\ t \in Seq(S) /\ Len(t) = Len(s) /\ t[Len(s)] = f
         /\ \A i \in 1 .. Len(s) - 1 : t[i] = s[i]
<1>1. Len(s) \in Nat
  BY LenProperties
<1>2. QED
  BY <1>1, FrontProperties, AppendProperties

\* The running frame changes and calls another.
LEMMA Called ==
  ASSUME NEW S, NEW s \in Seq(S), Len(s) > 0, NEW f \in S, NEW g \in S
  PROVE  LET t == Front(s) \o <<f, g>> IN
         /\ t \in Seq(S) /\ Len(t) = Len(s) + 1 /\ t[Len(s)] = f /\ t[Len(s) + 1] = g
         /\ \A i \in 1 .. Len(s) - 1 : t[i] = s[i]
<1> DEFINE t == Front(s) \o <<f, g>>
<1>1. Len(s) \in Nat
  BY LenProperties
<1>2. <<f, g>> \in Seq(S) /\ Len(<<f, g>>) = 2 /\ <<f, g>>[1] = f /\ <<f, g>>[2] = g
  OBVIOUS
<1>3. /\ t \in Seq(S) /\ Len(t) = Len(Front(s)) + Len(<<f, g>>)
      /\ \A i \in 1 .. Len(Front(s)) + Len(<<f, g>>) :
           t[i] = IF i <= Len(Front(s)) THEN Front(s)[i] ELSE <<f, g>>[i - Len(Front(s))]
  BY <1>2, FrontProperties, ConcatProperties
<1>4. /\ Front(s) \in Seq(S) /\ Len(Front(s)) = Len(s) - 1
      /\ \A i \in 1 .. Len(s) - 1 : Front(s)[i] = s[i]
  BY FrontProperties
<1>5. Len(t) = Len(s) + 1 /\ \A i \in 1 .. Len(s) + 1 :
        t[i] = IF i <= Len(s) - 1 THEN Front(s)[i] ELSE <<f, g>>[i - (Len(s) - 1)]
  BY <1>1, <1>2, <1>3, <1>4
<1>6. t[Len(s)] = <<f, g>>[1] /\ t[Len(s) + 1] = <<f, g>>[2]
  <2>1. Len(s) - (Len(s) - 1) = 1 /\ Len(s) + 1 - (Len(s) - 1) = 2
    BY <1>1
  <2>2. QED
    BY <1>1, <1>5, <2>1
<1>7. ASSUME NEW i \in 1 .. Len(s) - 1 PROVE t[i] = s[i]
  <2>1. i \in 1 .. Len(s) + 1 /\ i <= Len(s) - 1
    BY <1>1
  <2>2. QED
    BY <1>4, <1>5, <2>1
<1>8. t \in Seq(S) /\ t[Len(s)] = f /\ t[Len(s) + 1] = g
  BY <1>2, <1>3, <1>6
<1> HIDE DEF t
<1>9. /\ t \in Seq(S) /\ Len(t) = Len(s) + 1 /\ t[Len(s)] = f /\ t[Len(s) + 1] = g
      /\ \A i \in 1 .. Len(s) - 1 : t[i] = s[i]
  BY <1>5, <1>7, <1>8
<1>10. QED
  BY <1>9 DEF t

-------------------------------------------------------------------------------
(* What every step does to the invariant.                                  *)

\* The running frame is a frame, and the ones below wait.
LEMMA TopFits ==
  ASSUME IInv
  PROVE  /\ Top \in Frame /\ Fits(Top, refused) /\ Len(stack) \in Nat /\ Len(stack) > 0
         /\ Top = stack[Len(stack)] /\ stack \in Seq(Frame)
<1>1. Len(stack) \in Nat /\ stack \in Seq(Frame) /\ Len(stack) > 0
  BY LenProperties DEF IInv, FramesInv
<1>2. QED
  BY <1>1, ElementOfSeq DEF IInv, FramesInv, Top, Last

\* A frame fits as well when more was refused.
LEMMA FitsMore ==
  ASSUME NEW f, NEW r, NEW q, r \subseteq q, Fits(f, r)
  PROVE  Fits(f, q)
  BY DEF Fits, Kept

\* What the running frame becomes.
Moves(f) == /\ f \in Frame /\ f.kind = Top.kind /\ f.missed = Top.missed
            /\ Fits(f, refused') /\ Knows(f, pending', crashed')

\* What a step other than JavaCatches does to the flags.
Grows == /\ refused \subseteq refused'
         /\ pending => pending'
         /\ FlagsInv'

\* The frames above n are gone, and n changes.
LEMMA Rewritten ==
  ASSUME IInv, Grows, NEW n \in 1 .. Len(stack), NEW f, f.kind = stack[n].kind,
         f.missed = stack[n].missed, Fits(f, refused'), Knows(f, pending', crashed'),
         f.kind \in Cpp => n < MaxFrames,
         stack' \in Seq(Frame), Len(stack') = n, stack'[n] = f,
         \A i \in 1 .. n - 1 : stack'[i] = stack[i]
  PROVE  IInv'
<1>1. Len(stack) \in Nat /\ n \in Nat /\ n > 0 /\ n <= Len(stack)
  BY TopFits
<1>2. /\ \A i \in 1 .. n : i \in 1 .. n - 1 \/ i = n
      /\ \A i \in 1 .. n : i \in 1 .. Len(stack)
      /\ \A i \in 1 .. n - 1 : i \in 1 .. n /\ i + 1 \in 1 .. n /\ i \in 1 .. Len(stack) - 1
  BY <1>1
<1>3. Top' = f
  BY DEF Top, Last
<1>4. \A i \in 1 .. n : stack'[i].kind = stack[i].kind /\ stack'[i].missed = stack[i].missed
  BY <1>2
<1>5. ASSUME NEW i \in 1 .. n PROVE Fits(stack'[i], refused')
  <2>1. CASE i = n
    BY <2>1
  <2>2. CASE i \in 1 .. n - 1
    <3>1. Fits(stack[i], refused) /\ refused \subseteq refused'
      BY <1>2 DEF IInv, FramesInv, Grows
    <3>2. QED
      BY <2>2, <3>1, FitsMore
  <2>3. QED
    BY <1>2, <2>1, <2>2
<1>6. ASSUME NEW i \in 1 .. n - 1 PROVE Waits(stack'[i]) /\ CanCall(stack'[i], stack'[i + 1])
  <2>1. Waits(stack[i]) /\ CanCall(stack[i], stack[i + 1])
    BY <1>2 DEF IInv, FramesInv
  <2>2. stack'[i + 1].kind = stack[i + 1].kind
    BY <1>2, <1>4
  <2>3. QED
    BY <2>1, <2>2 DEF CanCall
<1>7. FramesInv'
  <2>1. stack'[1].kind \in {"java", "code"}
    BY <1>1, <1>4 DEF IInv, FramesInv
  <2>2. n \in 1 .. MaxFrames
    BY <1>1, NativeCallAssumption DEF IInv, FramesInv, NativeCallAssumption
  <2>3. QED
    BY <1>3, <1>5, <1>6, <2>1, <2>2 DEF FramesInv
<1>8. MissedInv'
  <2>1. \A i \in 1 .. Len(stack) : stack[i].missed =>
          pending /\ \A j \in i .. Len(stack) : stack[j].kind # "java"
    BY DEF IInv, MissedInv
  <2>2. ASSUME NEW i \in 1 .. n, stack'[i].missed
        PROVE  pending' /\ \A j \in i .. n : stack'[j].kind # "java"
    <3>1. \A j \in i .. n : j \in 1 .. n /\ j \in i .. Len(stack)
      BY <1>1
    <3>2. stack[i].missed /\ i \in 1 .. Len(stack)
      BY <1>2, <1>4, <2>2
    <3>3. QED
      BY <1>4, <2>1, <3>1, <3>2 DEF Grows
  <2>3. QED
    BY <2>2 DEF MissedInv
<1>9. QED
  BY <1>3, <1>7, <1>8 DEF IInv, Grows

\* The running frame changes in a way that fits.
LEMMA BecomesStep ==
  ASSUME IInv, Grows, NEW f, Moves(f), stack' = Append(Front(stack), f)
  PROVE  IInv'
<1>1. Top = stack[Len(stack)] /\ Len(stack) \in Nat /\ Len(stack) > 0 /\ f \in Frame
      /\ stack \in Seq(Frame) /\ Len(stack) \in 1 .. Len(stack)
  BY TopFits DEF Moves
<1>2. /\ stack' \in Seq(Frame) /\ Len(stack') = Len(stack) /\ stack'[Len(stack)] = f
      /\ \A i \in 1 .. Len(stack) - 1 : stack'[i] = stack[i]
  <2> DEFINE t == Append(Front(stack), f)
  <2>1. /\ t \in Seq(Frame) /\ Len(t) = Len(stack) /\ t[Len(stack)] = f
        /\ \A i \in 1 .. Len(stack) - 1 : t[i] = stack[i]
    BY <1>1, Replaced, Zenon
  <2>2. QED
    BY <2>1
<1>3. f.kind \in Cpp => Len(stack) < MaxFrames
  BY DEF Moves, IInv, FramesInv
<1>4. /\ f.kind = stack[Len(stack)].kind /\ f.missed = stack[Len(stack)].missed
      /\ Fits(f, refused') /\ Knows(f, pending', crashed')
  BY <1>1 DEF Moves
<1>5. QED
  BY <1>1, <1>2, <1>3, <1>4, Rewritten

\* Throw() leaves what the frame holds to its destructors.
LEMMA ThrowStep ==
  ASSUME IInv, Grows, Top.kind \in Cpp, NEW e \in {"pending", "cpp"}, Throw(e),
         e = "pending" => pending',
         e = "cpp" /\ pending' => crashed',
         Top.pc # "handler",
         Top.refs > 0 /\ Top.owner = "nobody" => "callback" \in refused'
  PROVE  IInv'
<1> DEFINE f == [Top EXCEPT !.pc = "unwind", !.exc = e]
<1>1. Top \in Frame /\ Fits(Top, refused) /\ refused \subseteq refused'
  BY TopFits DEF Grows
<1>2. f \in Frame
  BY <1>1 DEF Frame, Pcs
<1>3. f.pc = "unwind" /\ f.exc = e /\ f.kind = Top.kind /\ f.missed = Top.missed
      /\ f.args = Top.args /\ f.d_arrays = Top.d_arrays /\ f.refs = Top.refs
      /\ f.owner = Top.owner /\ f.next = Top.next
  BY <1>1 DEF Frame
<1>4. Fits(f, refused')
  BY <1>1, <1>3 DEF Fits, Kept, Cpp, Methods, Invoking, Callbacks, Steps
<1>5. Knows(f, pending', crashed')
  BY <1>3 DEF Knows, Working
<1>6. Moves(f)
  BY <1>2, <1>3, <1>4, <1>5 DEF Moves
<1>7. QED
  BY <1>6, BecomesStep DEF Throw, Becomes

\* The running frame calls another, k.
LEMMA CallStep ==
  ASSUME IInv, Grows, NEW f \in Frame, NEW k,
         f.kind = Top.kind, f.missed = Top.missed, Fits(f, refused'), Waits(f),
         NewFrame(k) \in Frame, Fits(NewFrame(k), refused'), CanCall(f, NewFrame(k)),
         NewFrame(k).kind = k,
         Knows(NewFrame(k), pending', crashed'), ~NewFrame(k).missed,
         k = "java" => ~pending,
         Len(stack) < MaxFrames, k \in Cpp => Len(stack) + 1 < MaxFrames,
         stack' = Front(stack) \o <<f, NewFrame(k)>>
  PROVE  IInv'
<1> DEFINE n == Len(stack)
           g == NewFrame(k)
<1>1. Top = stack[n] /\ n \in Nat /\ n > 0 /\ stack \in Seq(Frame)
  BY TopFits
<1>0. /\ \A i \in 1 .. n + 1 : i \in 1 .. n \/ i = n + 1
      /\ \A i \in 1 .. n : i \in 1 .. n - 1 \/ i = n
  BY <1>1
<1>2. /\ stack' \in Seq(Frame) /\ Len(stack') = n + 1 /\ stack'[n] = f /\ stack'[n + 1] = g
      /\ \A i \in 1 .. n - 1 : stack'[i] = stack[i]
  <2> DEFINE t == Front(stack) \o <<f, g>>
  <2>1. /\ t \in Seq(Frame) /\ Len(t) = n + 1 /\ t[n] = f /\ t[n + 1] = g
        /\ \A i \in 1 .. n - 1 : t[i] = stack[i]
    <3>1. stack \in Seq(Frame) /\ Len(stack) > 0 /\ f \in Frame /\ NewFrame(k) \in Frame
      BY <1>1
    <3>2. QED
      BY <3>1, Called
  <2>2. QED
    BY <2>1
<1> HIDE DEF g
<1>3. Top' = g
  BY <1>1, <1>2 DEF Top, Last
<1>4. \A i \in 1 .. n : stack'[i].kind = stack[i].kind /\ stack'[i].missed = stack[i].missed
  BY <1>0, <1>1, <1>2
<1>5. ASSUME NEW i \in 1 .. n + 1 PROVE Fits(stack'[i], refused')
  <2>1. CASE i = n + 1
    BY <1>2, <2>1 DEF g
  <2>2. CASE i = n
    BY <1>2, <2>2
  <2>3. CASE i \in 1 .. n - 1
    <3>1. i \in 1 .. n
      BY <1>1, <2>3
    <3>2. Fits(stack[i], refused) /\ refused \subseteq refused'
      BY <3>1 DEF IInv, FramesInv, Grows
    <3>3. QED
      BY <1>2, <2>3, <3>2, FitsMore
  <2>4. QED
    BY <1>0, <2>1, <2>2, <2>3
<1>6. ASSUME NEW i \in 1 .. n PROVE Waits(stack'[i]) /\ CanCall(stack'[i], stack'[i + 1])
  <2>1. CASE i = n
    BY <1>2, <2>1 DEF g
  <2>2. CASE i \in 1 .. n - 1
    <3>1. i + 1 \in 1 .. n /\ stack'[i] = stack[i]
      BY <1>1, <1>2, <2>2
    <3>2. Waits(stack[i]) /\ CanCall(stack[i], stack[i + 1])
      BY <2>2 DEF IInv, FramesInv
    <3>3. stack'[i + 1].kind = stack[i + 1].kind
      BY <1>4, <3>1
    <3>4. QED
      BY <3>1, <3>2, <3>3 DEF CanCall
  <2>3. QED
    BY <1>0, <2>1, <2>2
<1>7. FramesInv'
  <2>1. stack'[1].kind \in {"java", "code"}
    BY <1>1, <1>4 DEF IInv, FramesInv
  <2>2. n + 1 \in 1 .. MaxFrames /\ Top'.kind = k
    BY <1>1, <1>3, NativeCallAssumption DEF g, NativeCallAssumption
  <2>3. Top'.kind \in Cpp => Len(stack') < MaxFrames
    BY <1>2, <2>2
  <2>4. \A i \in 1 .. Len(stack') - 1 : Waits(stack'[i]) /\ CanCall(stack'[i], stack'[i + 1])
    BY <1>1, <1>2, <1>6
  <2>5. QED
    BY <1>2, <1>5, <2>1, <2>2, <2>3, <2>4 DEF FramesInv
<1>8. MissedInv'
  <2>1. \A i \in 1 .. n : stack[i].missed => pending /\ \A j \in i .. n : stack[j].kind # "java"
    BY DEF IInv, MissedInv
  <2>2. ASSUME NEW i \in 1 .. n + 1, stack'[i].missed
        PROVE  pending' /\ \A j \in i .. n + 1 : stack'[j].kind # "java"
    <3>1. i \in 1 .. n /\ stack[i].missed
      <4>1. i # n + 1
        BY <1>2, <2>2 DEF g
      <4>2. QED
        BY <1>0, <1>4, <2>2, <4>1
    <3>2. pending /\ k # "java"
      BY <2>1, <3>1
    <3>3. \A j \in i .. n + 1 : (j \in i .. n /\ j \in 1 .. n) \/ j = n + 1
      BY <1>1, <3>1
    <3>4. stack'[n + 1].kind = k
      BY <1>2 DEF g
    <3>5. QED
      BY <1>4, <2>1, <3>1, <3>2, <3>3, <3>4 DEF Grows
  <2>3. QED
    BY <1>2, <2>2 DEF MissedInv
<1>9. QED
  BY <1>3, <1>7, <1>8 DEF g, IInv, Grows

\* All but the history of a frame.
Same(f, g) == /\ f.kind = g.kind /\ f.pc = g.pc /\ f.exc = g.exc /\ f.args = g.args
              /\ f.d_arrays = g.d_arrays /\ f.next = g.next
              /\ f.refs = g.refs /\ f.owner = g.owner

\* The running frame is gone, and a frame below may be marked.
LEMMA PopStep ==
  ASSUME IInv, Grows, Len(stack) > 1, stack' \in Seq(Frame), Len(stack') = Len(stack) - 1,
         \A i \in 1 .. Len(stack) - 1 : Same(stack'[i], stack[i]),
         \A i \in 1 .. Len(stack) - 1 : stack'[i].missed =>
            \/ stack[i].missed
            \/ pending' /\ \A j \in i .. Len(stack) - 1 : stack[j].kind # "java"
  PROVE  IInv'
<1> DEFINE n == Len(stack)
<1>1. n \in Nat /\ n > 1 /\ n - 1 \in 1 .. n - 1
  BY TopFits
<1>2. Top' = stack'[n - 1]
  BY DEF Top, Last
<1>3. ASSUME NEW i \in 1 .. n - 1
      PROVE  Waits(stack[i]) /\ Waits(stack'[i]) /\ Fits(stack'[i], refused')
  <2>1. i \in 1 .. n
    BY <1>1
  <2>2. Fits(stack[i], refused) /\ Waits(stack[i]) /\ refused \subseteq refused'
    BY <2>1 DEF IInv, FramesInv, Grows
  <2>3. Fits(stack[i], refused')
    BY <2>2, FitsMore
  <2>4. QED
    BY <2>2, <2>3 DEF Same, Waits, Fits
<1>4. ASSUME NEW i \in 1 .. n - 2 PROVE CanCall(stack'[i], stack'[i + 1])
  <2>1. i \in 1 .. n - 1 /\ i + 1 \in 1 .. n - 1
    BY <1>1
  <2>2. CanCall(stack[i], stack[i + 1])
    BY <2>1 DEF IInv, FramesInv
  <2>3. QED
    BY <2>1, <2>2 DEF Same, CanCall
<1>5. Top'.kind \in {"java", "code"} \cup Invoking \cup Callbacks
      /\ ~Working(Top') /\ Top'.exc = "none"
  BY <1>1, <1>2, <1>3 DEF Waits, Fits, Working, Methods, Invoking, Callbacks, Cpp
<1>6. FramesInv'
  <2>1. stack'[1].kind \in {"java", "code"}
    BY <1>1 DEF IInv, FramesInv, Same
  <2>2. n - 1 \in 1 .. MaxFrames /\ n - 1 < MaxFrames
    BY <1>1, NativeCallAssumption DEF IInv, FramesInv, NativeCallAssumption
  <2>3. \A i \in 1 .. Len(stack') - 1 : i \in 1 .. n - 2 /\ i \in 1 .. n - 1
    BY <1>1
  <2>4. QED
    BY <1>3, <1>4, <2>1, <2>2, <2>3 DEF FramesInv
<1>7. Knows(Top', pending', crashed')
  BY <1>5 DEF Knows
<1>8. MissedInv'
  <2>1. \A i \in 1 .. n : stack[i].missed => pending /\ \A j \in i .. n : stack[j].kind # "java"
    BY DEF IInv, MissedInv
  <2>2. ASSUME NEW i \in 1 .. n - 1, stack'[i].missed
        PROVE  pending' /\ \A j \in i .. n - 1 : stack'[j].kind # "java"
    <3>1. \A j \in i .. n - 1 : j \in i .. n /\ j \in 1 .. n - 1
      BY <1>1
    <3>2. i \in 1 .. n
      BY <1>1
    <3>3. pending' /\ \A j \in i .. n - 1 : stack[j].kind # "java"
      BY <2>1, <2>2, <3>1, <3>2 DEF Grows
    <3>4. QED
      BY <3>1, <3>3 DEF Same
  <2>3. QED
    BY <2>2 DEF MissedInv
<1>9. QED
  BY <1>6, <1>7, <1>8 DEF IInv, Grows

-------------------------------------------------------------------------------
(* JNI functions.                                                          *)

\* Nobody below holds an array critically.
LEMMA NoCritical ==
  ASSUME IInv, Top.args # "critical"
  PROVE  \A i \in DOMAIN stack : stack[i].args # "critical"
<1>1. stack \in Seq(Frame) /\ Len(stack) \in Nat /\ Top = stack[Len(stack)]
  BY TopFits
<1>2. ASSUME NEW i \in 1 .. Len(stack) - 1 PROVE stack[i].args # "critical"
  <2>1. i \in 1 .. Len(stack)
    BY <1>1
  <2>2. Fits(stack[i], refused) /\ Waits(stack[i])
    BY <2>1 DEF IInv, FramesInv
  <2>3. QED
    BY <2>2 DEF Fits, Waits, Callbacks, Invoking
<1>3. \A i \in DOMAIN stack : i \in 1 .. Len(stack) - 1 \/ i = Len(stack)
  BY <1>1
<1>4. QED
  BY <1>1, <1>2, <1>3

\* A JNI function may be called.
LEMMA JniMayRun ==
  ASSUME IInv, misuse = {}, ~pending, Top.args # "critical", NEW x, Jni(x)
  PROVE  misuse' = {}
  BY NoCritical DEF Jni

\* A step without misuse.
LEMMA QuietGrows ==
  ASSUME IInv, misuse' = {}, pending' \in {TRUE, pending}, attached' \in BOOLEAN,
         crashed' \in BOOLEAN, UNCHANGED abi, refused \subseteq refused',
         refused' \subseteq {"elems", "callback", "buffer"}, leaked' \subseteq refused'
  PROVE  Grows
<1>1. pending \in BOOLEAN /\ abi \in {"amd64", "x86"}
  BY DEF IInv, FlagsInv
<1>2. JniDiscipline'
  BY DEF JniDiscipline
<1>3. pending' \in BOOLEAN /\ (pending => pending')
  BY <1>1
<1>4. QED
  BY <1>1, <1>2, <1>3 DEF Grows, FlagsInv

\* A step that changes no flag but the ones of exceptions.
LEMMA PlainGrows ==
  ASSUME IInv, misuse' = {}, pending' \in {TRUE, pending},
         UNCHANGED <<leaked, refused, attached, crashed, abi>>
  PROVE  Grows
<1>1. /\ attached \in BOOLEAN /\ crashed \in BOOLEAN /\ leaked \subseteq refused
      /\ refused \subseteq {"elems", "callback", "buffer"}
  BY DEF IInv, FlagsInv
<1>2. QED
  BY <1>1, QuietGrows

\* A frame is left by a C++ exception that is no jni_exception.
LEMMA CppStep ==
  ASSUME IInv, misuse' = {}, Throw("cpp"), ~pending, Top.kind \in Cpp,
         Top.pc \notin {"handler", "construct"},
         UNCHANGED <<pending, leaked, refused, attached, crashed, abi>>
  PROVE  IInv'
<1>1. Grows
  BY PlainGrows
<1>2. Top.refs > 0 /\ Top.owner = "nobody" => "callback" \in refused'
  BY TopFits DEF Fits
<1>3. QED
  BY <1>1, <1>2, ThrowStep

\* A JNI function fails.
LEMMA JniFailsStep ==
  ASSUME IInv, misuse' = {}, JniFails, ~pending, Top.kind \in Cpp,
         Top.pc \notin {"handler", "construct"},
         UNCHANGED <<leaked, refused, attached, crashed, abi>>
  PROVE  IInv'
<1>1. CASE UNCHANGED pending /\ Throw("cpp")
  BY <1>1, CppStep
<1>2. CASE pending' = TRUE /\ Throw("pending")
  <2>1. Grows
    BY <1>2, PlainGrows
  <2>2. Top.refs > 0 /\ Top.owner = "nobody" => "callback" \in refused'
    BY TopFits DEF Fits
  <2>3. QED
    BY <1>2, <2>1, <2>2, ThrowStep
<1>3. QED
  BY <1>1, <1>2 DEF JniFails

\* An array region fails.
LEMMA RegionFailsStep ==
  ASSUME IInv, misuse' = {}, RegionFails, ~pending, Top.kind \in Cpp,
         Top.pc \notin {"handler", "construct"}, UNCHANGED <<attached, crashed, abi>>
  PROVE  IInv'
<1>1. CASE Throw("cpp") /\ UNCHANGED <<pending, leaked, refused>>
  BY <1>1, CppStep
<1>2. CASE /\ pending' = TRUE /\ Throw("pending")
           /\ leaked' = leaked \cup {"buffer"} /\ refused' = refused \cup {"buffer"}
  <2>1. Grows
    <3>1. /\ attached \in BOOLEAN /\ crashed \in BOOLEAN /\ leaked \subseteq refused
          /\ refused \subseteq {"elems", "callback", "buffer"}
      BY DEF IInv, FlagsInv
    <3>2. QED
      BY <1>2, <3>1, QuietGrows
  <2>2. Top.refs > 0 /\ Top.owner = "nobody" => "callback" \in refused'
    BY <1>2, TopFits DEF Fits
  <2>3. QED
    BY <1>2, <2>1, <2>2, ThrowStep
<1>3. QED
  BY <1>1, <1>2 DEF RegionFails

\* The running frame goes on to p.
LEMMA GotoStep ==
  ASSUME IInv, Grows, NEW p \in Pcs, Goto(p),
         p \notin {"run", "handler"}, Top.pc # "run", Top.exc = "none",
         Top.args = "critical" => p = "unwind" \/ p = "unpin",
         Top.args = "critical" /\ p = "unpin" => Top.kind \in Callbacks,
         Top.kind \in {"indirect", "vi"} /\ p # "unwind" => Top.args = "pinned",
         Top.kind \in Callbacks /\ p \in {"enter", "array", "pin", "call"} => Top.args = "none",
         Top.pc # "construct",
         p \notin {"unwind", "returned"} => ~pending'
  PROVE  IInv'
<1> DEFINE f == [Top EXCEPT !.pc = p]
<1>1. Top \in Frame /\ Fits(Top, refused) /\ refused \subseteq refused'
  BY TopFits DEF Grows
<1>2. f \in Frame
  BY <1>1 DEF Frame
<1>3. f.pc = p /\ f.exc = "none" /\ f.kind = Top.kind /\ f.missed = Top.missed
      /\ f.args = Top.args /\ f.d_arrays = Top.d_arrays /\ f.refs = Top.refs
      /\ f.owner = Top.owner /\ f.next = Top.next
  BY <1>1 DEF Frame
<1>4. Fits(f, refused')
  BY <1>1, <1>3 DEF Fits, Kept, Callbacks
<1>5. Knows(f, pending', crashed')
  BY <1>3 DEF Knows, Working
<1>6. Moves(f)
  BY <1>2, <1>3, <1>4, <1>5 DEF Moves
<1>7. QED
  BY <1>6, BecomesStep DEF Goto, Becomes

\* A frame in which JNI functions are called knows of no exception.
LEMMA Ready ==
  ASSUME IInv, Working(Top)
  PROVE  /\ Top \in Frame /\ Fits(Top, refused) /\ ~pending /\ pending = FALSE
         /\ Top.exc = "none" /\ Top.kind \in Cpp /\ Top.pc \notin {"run", "unwind", "handler"}
<1>1. Top \in Frame /\ Fits(Top, refused)
  BY TopFits
<1>2. ~pending /\ pending = FALSE
  BY DEF IInv, FlagsInv, Knows
<1>3. Top.pc \notin {"run", "unwind", "handler"}
  BY DEF Working
<1>4. QED
  BY <1>1, <1>2, <1>3 DEF Fits, Frame

\* Its JNI functions may be called, unless it holds an array critically.
LEMMA JniRuns ==
  ASSUME IInv, Working(Top), misuse = {}, NEW x, Jni(x),
         Top.pc \notin {"steps", "unpin"}, Top.pc = "unmarshall" => Top.kind = "cb_vi"
  PROVE  misuse' = {}
<1>1. Top.args # "critical"
  BY Ready DEF Fits
<1>2. QED
  BY <1>1, Ready, JniMayRun

\* A new frame fits.
LEMMA NewFits ==
  ASSUME NEW k \in Cpp \cup {"java", "code"}, NEW r
  PROVE  /\ NewFrame(k) \in Frame /\ Fits(NewFrame(k), r)
         /\ NewFrame(k).kind = k /\ ~NewFrame(k).missed /\ NewFrame(k).exc = "none"
         /\ NewFrame(k).pc = "run" <=> k \in {"java", "code"}
         /\ k \in Callbacks => NewFrame(k).pc = "enter"
<1> DEFINE f == NewFrame(k)
<1>1. f.pc = IF k \in DOMAIN Steps THEN "steps" ELSE IF k \in Cpp THEN "enter" ELSE "run"
  BY DEF NewFrame
<1>2. /\ f.kind = k /\ f.exc = "none" /\ f.args = "none" /\ f.d_arrays = <<>> /\ f.next = 0
      /\ f.missed = FALSE /\ f.refs = 0 /\ f.owner = "nobody"
  BY DEF NewFrame
<1>3. DOMAIN Steps = {"copyOutDirect", "copyOutIndirect", "copyOutVi", "loadLibrary",
                      "getProcAddress", "logThreshold", "when"}
  BY DEF Steps
<1>4. f.pc \in {"steps", "enter", "run"} /\ (f.pc = "run" <=> k \in {"java", "code"})
      /\ (k \in Callbacks => f.pc = "enter")
  BY <1>1, <1>3 DEF Cpp, Methods, Invoking, Callbacks
<1>5. f \in Frame
  <2>1. <<>> \in Seq(Tuple)
    OBVIOUS
  <2>2. QED
    BY <1>4, <2>1 DEF NewFrame, Frame, Pcs
<1>6. Fits(f, r)
  <2>1. Len(<<>>) <= Slots /\ Kept(<<>>, r)
    BY NativeCallAssumption DEF NativeCallAssumption, Kept
  <2>2. QED
    BY <1>2, <1>4, <2>1 DEF Fits
<1>7. QED
  BY <1>2, <1>4, <1>5, <1>6

-------------------------------------------------------------------------------
(* Java code and native code.                                              *)

\* Java calls a native method, when no exception is pending.
LEMMA CallNativeStep == ASSUME IInv, NEW m \in Methods, CallNative(m) PROVE IInv'
<1> DEFINE f == [Top EXCEPT !.pc = "run"]
<1>1. Top \in Frame /\ Fits(Top, refused) /\ Top.kind = "java" /\ Top.pc = "run"
      /\ ~pending /\ misuse = {} /\ Len(stack) \in Nat /\ Len(stack) + 2 <= MaxFrames
  BY TopFits DEF CallNative, Runs
<1>2. f = Top
  BY <1>1 DEF Frame
<1>3. Grows
  BY <1>1, PlainGrows DEF CallNative, flags
<1>4. Waits(Top) /\ CanCall(Top, NewFrame(m)) /\ NewFrame(m).kind = m
  BY <1>1, NewFits DEF Waits, CanCall, Cpp, Invoking, Callbacks
<1>5. Fits(NewFrame(m), refused') /\ NewFrame(m) \in Frame /\ ~NewFrame(m).missed
      /\ Knows(NewFrame(m), pending', crashed') /\ m # "java"
  <2>1. m \in Cpp \cup {"java", "code"} /\ m # "java" /\ ~pending'
    BY <1>1 DEF Cpp, Methods, Invoking, Steps, CallNative
  <2>2. QED
    BY <2>1, NewFits DEF Knows
<1>6. Fits(Top, refused')
  BY <1>1 DEF CallNative, flags
<1>7. stack' = Front(stack) \o <<Top, NewFrame(m)>>
  BY <1>2 DEF CallNative, Call
<1>8. Len(stack) < MaxFrames /\ Len(stack) + 1 < MaxFrames
  BY <1>1, NativeCallAssumption DEF NativeCallAssumption
<1>9. QED
  BY <1>1, <1>3, <1>4, <1>5, <1>6, <1>7, <1>8, CallStep

\* Java running means that no frame was marked.
LEMMA NoMissed ==
  ASSUME IInv, Top.kind = "java"
  PROVE  \A i \in 1 .. Len(stack) : ~stack[i].missed
<1>1. Len(stack) \in Nat /\ Top = stack[Len(stack)]
  BY TopFits
<1>2. ASSUME NEW i \in 1 .. Len(stack), stack[i].missed PROVE FALSE
  <2>1. Len(stack) \in i .. Len(stack)
    BY <1>1
  <2>2. QED
    BY <1>1, <1>2, <2>1 DEF IInv, MissedInv
<1>3. QED
  BY <1>2

\* The Java caller catches it.
LEMMA JavaCatchesStep == ASSUME IInv, JavaCatches PROVE IInv'
<1>1. /\ Top.kind = "java" /\ Top.pc = "run" /\ misuse = {} /\ pending' = FALSE
      /\ UNCHANGED <<stack, misuse, leaked, refused, attached, crashed, abi>>
  BY DEF JavaCatches, Runs, flags
<1>2. FlagsInv'
  BY <1>1 DEF IInv, FlagsInv, JniDiscipline
<1>3. FramesInv' /\ Top' = Top
  BY <1>1 DEF IInv, FramesInv, Top
<1>4. Knows(Top, FALSE, crashed')
  <2>1. Fits(Top, refused)
    BY TopFits
  <2>2. Top.exc = "none"
    BY <1>1, <2>1 DEF Fits
  <2>3. QED
    BY <2>2 DEF Knows
<1>5. MissedInv'
  BY <1>1, NoMissed DEF MissedInv
<1>6. QED
  BY <1>1, <1>2, <1>3, <1>4, <1>5 DEF IInv

\* The frames under one that is gone.
LEMMA FrontStep ==
  ASSUME IInv, Grows, Len(stack) > 1, stack' = Front(stack)
  PROVE  IInv'
<1>1. stack \in Seq(Frame) /\ Len(stack) \in Nat /\ Len(stack) > 0
  BY TopFits
<1>2. /\ stack' \in Seq(Frame) /\ Len(stack') = Len(stack) - 1
      /\ \A i \in 1 .. Len(stack) - 1 : stack'[i] = stack[i]
  BY <1>1, FrontProperties, Zenon
<1>3. QED
  BY <1>2, PopStep DEF Same

\* A Java method returns to the callback that called it.
LEMMA JavaLeavesStep == ASSUME IInv, JavaLeaves PROVE IInv'
<1>1. Grows
  BY PlainGrows DEF JavaLeaves, Runs, flags
<1>2. QED
  BY <1>1, FrontStep DEF JavaLeaves

\* Native code returns to the method that invoked it.
LEMMA CodeReturnsStep == ASSUME IInv, CodeReturns PROVE IInv'
<1>1. Grows
  BY PlainGrows DEF CodeReturns, Runs, flags
<1>2. QED
  BY <1>1, FrontStep DEF CodeReturns

\* Native code calls a stub, whether an exception is pending or not.
LEMMA CallStubStep == ASSUME IInv, NEW c \in Callbacks, CallStub(c) PROVE IInv'
<1> DEFINE f == [Top EXCEPT !.pc = "run"]
<1>1. Top \in Frame /\ Fits(Top, refused) /\ Top.kind = "code" /\ Top.pc = "run"
      /\ misuse = {} /\ Len(stack) \in Nat /\ Len(stack) + 2 <= MaxFrames
  BY TopFits DEF CallStub, Runs
<1>2. f = Top
  BY <1>1 DEF Frame
<1>3. Grows
  BY <1>1, PlainGrows DEF CallStub, flags
<1>4. c \in Cpp /\ c \notin Methods /\ c # "java"
  BY DEF Cpp, Methods, Invoking, Callbacks, Steps
<1>5. /\ Fits(NewFrame(c), refused') /\ NewFrame(c) \in Frame /\ ~NewFrame(c).missed
      /\ NewFrame(c).kind = c /\ NewFrame(c).pc = "enter" /\ NewFrame(c).exc = "none"
  BY <1>4, NewFits
<1>6. Waits(Top) /\ CanCall(Top, NewFrame(c)) /\ Knows(NewFrame(c), pending', crashed')
  BY <1>1, <1>4, <1>5 DEF Waits, CanCall, Knows, Working, Cpp, Invoking, Callbacks
<1>7. Fits(Top, refused')
  BY <1>1 DEF CallStub, flags
<1>8. stack' = Front(stack) \o <<Top, NewFrame(c)>>
  BY <1>2 DEF CallStub, Call
<1>9. Len(stack) < MaxFrames /\ Len(stack) + 1 < MaxFrames
  BY <1>1, NativeCallAssumption DEF NativeCallAssumption
<1>10. QED
  BY <1>1, <1>3, <1>4, <1>5, <1>6, <1>7, <1>8, <1>9, CallStep

\* Native code crashes: the method that invoked it has what it pinned, and a
\* C++ exception.
LEMMA CodeCrashesStep == ASSUME IInv, CodeCrashes PROVE IInv'
<1> DEFINE g == stack[Len(stack) - 1]
           f == [g EXCEPT !.pc = "unwind", !.exc = "cpp"]
<1>1. /\ stack \in Seq(Frame) /\ Len(stack) \in Nat /\ Len(stack) > 1 /\ Len(stack) > 0
      /\ Top = stack[Len(stack)] /\ Top.kind = "code" /\ misuse = {}
      /\ Len(stack) - 1 \in 1 .. Len(stack) /\ Len(stack) - 1 \in 1 .. Len(stack) - 1
  BY TopFits DEF CodeCrashes, Runs
<1>2. /\ g \in Frame /\ Fits(g, refused) /\ Waits(g) /\ g.kind \in Invoking
  <2>1. Waits(g) /\ CanCall(g, stack[(Len(stack) - 1) + 1])
    BY <1>1 DEF IInv, FramesInv
  <2>2. (Len(stack) - 1) + 1 = Len(stack)
    BY <1>1
  <2>3. g.kind \in Invoking
    BY <1>1, <2>1, <2>2 DEF CanCall, Methods, Invoking, Callbacks, Steps
  <2>4. QED
    BY <1>1, <2>1, <2>3, ElementOfSeq DEF IInv, FramesInv
<1>3. Grows
  <2>1. /\ attached \in BOOLEAN /\ crashed \in BOOLEAN /\ pending \in BOOLEAN
        /\ leaked \subseteq refused /\ refused \subseteq {"elems", "callback", "buffer"}
    BY DEF IInv, FlagsInv
  <2>2. QED
    BY <1>1, <2>1, QuietGrows DEF CodeCrashes
<1>4. /\ f \in Frame /\ f.kind = g.kind /\ f.missed = g.missed
      /\ f.pc = "unwind" /\ f.exc = "cpp" /\ f.args = g.args /\ f.d_arrays = g.d_arrays
      /\ f.refs = g.refs /\ f.owner = g.owner /\ f.next = g.next
  BY <1>2 DEF Frame, Pcs
<1>5. Fits(f, refused')
  <2>1. refused' = refused
    BY DEF CodeCrashes
  <2>2. QED
    BY <1>2, <1>4, <2>1 DEF Fits, Invoking, Waits, Callbacks
<1>6. Knows(f, pending', crashed')
  BY <1>4 DEF Knows, Working, CodeCrashes
<1>7. f.kind \in Cpp => Len(stack) - 1 < MaxFrames
  BY <1>1, NativeCallAssumption DEF IInv, FramesInv, NativeCallAssumption
<1>8. /\ Front(stack) \in Seq(Frame) /\ Len(Front(stack)) = Len(stack) - 1
      /\ \A i \in 1 .. Len(stack) - 1 : Front(stack)[i] = stack[i]
  BY <1>1, FrontProperties, Zenon
<1>9. Last(Front(stack)) = g
  BY <1>1, <1>8 DEF Last
<1> HIDE DEF f, g
<1>10. /\ stack' \in Seq(Frame) /\ Len(stack') = Len(stack) - 1 /\ stack'[Len(stack) - 1] = f
       /\ \A i \in 1 .. (Len(stack) - 1) - 1 : stack'[i] = stack[i]
  <2> DEFINE s == Front(stack)
             t == Append(Front(s), f)
  <2>1. s \in Seq(Frame) /\ Len(s) = Len(stack) - 1 /\ Len(s) > 0 /\ f \in Frame
    BY <1>1, <1>4, <1>8
  <2>2. /\ t \in Seq(Frame) /\ Len(t) = Len(s) /\ t[Len(s)] = f
        /\ \A i \in 1 .. Len(s) - 1 : t[i] = s[i]
    <3> HIDE DEF s
    <3>1. QED
      BY <2>1, Replaced, Zenon
  <2>3. stack' = t
    BY <1>9 DEF CodeCrashes, f
  <2> HIDE DEF t
  <2>4. \A i \in 1 .. (Len(stack) - 1) - 1 : i \in 1 .. Len(stack) - 1
    BY <1>1
  <2>5. QED
    BY <1>8, <2>1, <2>2, <2>3, <2>4
<1>11. QED
  BY <1>1, <1>3, <1>4, <1>5, <1>6, <1>7, <1>10, Rewritten DEF g

-------------------------------------------------------------------------------
(* The native methods.                                                     *)

\* The arguments are copied, or cannot be.
LEMMA CopyArgsStep == ASSUME IInv, CopyArgs PROVE IInv'
<1>1. /\ Top.kind = "direct" /\ Top.pc = "enter" /\ misuse = {} /\ Working(Top)
      /\ Jni("GetIntArrayRegion") /\ UNCHANGED <<attached, crashed, abi>>
      /\ (Goto("invoke") /\ UNCHANGED <<pending, leaked, refused>>) \/ RegionFails
  BY DEF CopyArgs, CopyRegion, Runs, Working, Methods, Invoking
<1>2. misuse' = {}
  BY <1>1, JniRuns
<1>3. CASE RegionFails
  BY <1>1, <1>2, <1>3, Ready, RegionFailsStep
<1>4. CASE Goto("invoke") /\ UNCHANGED <<pending, leaked, refused>>
  <2>1. Grows
    BY <1>1, <1>2, <1>4, PlainGrows
  <2>2. Top.args = "none" /\ Top.exc = "none" /\ ~pending
    BY <1>1, Ready DEF Fits
  <2>3. QED
    BY <1>1, <1>4, <2>1, <2>2, GotoStep DEF Pcs, Callbacks
<1>5. QED
  BY <1>1, <1>3, <1>4

\* The arguments are pinned, or there is no memory for them.
LEMMA PinArgsStep == ASSUME IInv, PinArgs PROVE IInv'
<1> DEFINE f == [Top EXCEPT !.pc = "copy", !.args = "pinned"]
<1>1. /\ Top.kind \in {"indirect", "vi"} /\ Top.pc = "enter" /\ misuse = {} /\ Working(Top)
      /\ Jni("GetLongArrayElements")
      /\ Becomes(f) \/ Throw("cpp")
      /\ UNCHANGED <<pending, leaked, refused, attached, crashed, abi>>
  BY DEF PinArgs, Runs, Working, Methods, Invoking
<1>2. misuse' = {}
  BY <1>1, JniRuns
<1>3. CASE Throw("cpp")
  BY <1>1, <1>2, <1>3, Ready, CppStep
<1>4. CASE Becomes(f)
  <2>1. Grows
    BY <1>1, <1>2, PlainGrows
  <2>2. Top \in Frame /\ Fits(Top, refused) /\ Top.exc = "none" /\ ~pending
    BY <1>1, Ready
  <2>3. /\ f \in Frame /\ f.kind = Top.kind /\ f.missed = Top.missed
        /\ f.pc = "copy" /\ f.exc = "none" /\ f.args = "pinned" /\ f.d_arrays = Top.d_arrays
        /\ f.refs = Top.refs /\ f.owner = Top.owner /\ f.next = Top.next
    BY <2>2 DEF Frame, Pcs
  <2>4. Fits(f, refused') /\ Knows(f, pending', crashed')
    BY <1>1, <2>2, <2>3 DEF Fits, Knows, Callbacks
  <2>5. QED
    BY <1>4, <2>1, <2>3, <2>4, BecomesStep DEF Moves, Becomes
<1>5. QED
  BY <1>1, <1>3, <1>4

\* The array of pointers is copied, or cannot be.
LEMMA CopyPtrsStep == ASSUME IInv, CopyPtrs PROVE IInv'
<1>1. /\ Top.kind \in {"indirect", "vi"} /\ Top.pc = "copy" /\ misuse = {} /\ Working(Top)
      /\ Jni("GetIntArrayRegion") /\ UNCHANGED <<attached, crashed, abi>>
      /\ (Goto("init") /\ UNCHANGED <<pending, leaked, refused>>) \/ RegionFails
  BY DEF CopyPtrs, CopyRegion, Runs, Working
<1>2. misuse' = {}
  BY <1>1, JniRuns
<1>3. CASE RegionFails
  BY <1>1, <1>2, <1>3, Ready, RegionFailsStep
<1>4. CASE Goto("init") /\ UNCHANGED <<pending, leaked, refused>>
  <2>1. Grows
    BY <1>1, <1>2, <1>4, PlainGrows
  <2>2. Top.args = "pinned" /\ Top.exc = "none" /\ ~pending
    BY <1>1, Ready DEF Fits
  <2>3. QED
    BY <1>1, <1>4, <2>1, <2>2, GotoStep DEF Pcs, Callbacks
<1>5. QED
  BY <1>1, <1>3, <1>4

\* A tuple fits, when it is given back in full or could not be globalized.
LEMMA TupleFits ==
  ASSUME NEW T \in Seq(Tuple), NEW t \in Tuple, NEW q, NEW r, q \subseteq r,
         Kept(T, q), Len(T) < Slots,
         t.d_elems /\ ~t.d_global => "elems" \in r, t.d_global => t.d_elems
  PROVE  /\ Append(T, t) \in Seq(Tuple) /\ Len(Append(T, t)) <= Slots
         /\ Kept(Append(T, t), r)
<1>1. Len(T) \in Nat
  BY LenProperties
<1>2. /\ Append(T, t) \in Seq(Tuple) /\ Len(Append(T, t)) = Len(T) + 1
      /\ Append(T, t)[Len(T) + 1] = t /\ \A i \in 1 .. Len(T) : Append(T, t)[i] = T[i]
  BY AppendProperties
<1>3. ASSUME NEW k \in DOMAIN Append(T, t)
      PROVE  /\ Append(T, t)[k].d_elems /\ ~Append(T, t)[k].d_global => "elems" \in r
             /\ Append(T, t)[k].d_global => Append(T, t)[k].d_elems
  <2>0. DOMAIN T = 1 .. Len(T) /\ DOMAIN Append(T, t) = 1 .. Len(Append(T, t))
    BY <1>2, LenProperties
  <2>1. k = Len(T) + 1 \/ (k \in DOMAIN T /\ k \in 1 .. Len(T))
    BY <1>1, <1>2, <2>0
  <2>2. CASE k = Len(T) + 1
    BY <1>2, <2>2
  <2>3. CASE k \in DOMAIN T /\ k \in 1 .. Len(T)
    BY <1>2, <2>3 DEF Kept
  <2>4. QED
    BY <2>1, <2>2, <2>3
<1>4. QED
  BY <1>1, <1>2, <1>3, NativeCallAssumption DEF Kept, NativeCallAssumption

\* The tuple of the next position, in a frame that goes on or is left.
LEMMA PutStep ==
  ASSUME IInv, Initializing, Grows, NEW t \in Tuple,
         t.d_elems /\ ~t.d_global => "elems" \in refused', t.d_global => t.d_elems,
         \/ Put(t) /\ ~pending'
         \/ /\ Becomes([Top EXCEPT !.pc = "unwind", !.exc = "pending", !.d_arrays = Append(@, t)])
            /\ pending'
  PROVE  IInv'
<1> DEFINE T == Append(Top.d_arrays, t)
           f == [Top EXCEPT !.d_arrays = T]
           g == [Top EXCEPT !.pc = "unwind", !.exc = "pending", !.d_arrays = T]
<1>1. /\ Top \in Frame /\ Fits(Top, refused) /\ Top.exc = "none" /\ Top.kind = "vi"
      /\ Top.pc = "init" /\ Len(Top.d_arrays) < Slots /\ refused \subseteq refused'
  BY Ready DEF Initializing, Runs, Working, Grows
<1>2. T \in Seq(Tuple) /\ Len(T) <= Slots /\ Kept(T, refused')
  <2>1. Top.d_arrays \in Seq(Tuple) /\ Kept(Top.d_arrays, refused)
    BY <1>1 DEF Frame, Fits
  <2>2. QED
    BY <1>1, <2>1, TupleFits
<1> HIDE DEF T
<1>3. CASE Put(t) /\ ~pending'
  <2>1. /\ f \in Frame /\ f.kind = "vi" /\ f.missed = Top.missed /\ f.pc = "init"
        /\ f.exc = "none" /\ f.args = Top.args /\ f.d_arrays = T /\ f.refs = Top.refs
        /\ f.owner = Top.owner /\ f.next = Top.next
    BY <1>1, <1>2 DEF Frame
  <2>2. Fits(f, refused') /\ Knows(f, pending', crashed')
    BY <1>1, <1>2, <1>3, <2>1 DEF Fits, Knows, Callbacks
  <2>3. QED
    BY <1>1, <1>3, <2>1, <2>2, BecomesStep DEF Moves, Put, Becomes, T
<1>4. CASE Becomes([Top EXCEPT !.pc = "unwind", !.exc = "pending", !.d_arrays = Append(@, t)])
           /\ pending'
  <2>1. /\ g \in Frame /\ g.kind = "vi" /\ g.missed = Top.missed /\ g.pc = "unwind"
        /\ g.exc = "pending" /\ g.args = Top.args /\ g.d_arrays = T /\ g.refs = Top.refs
        /\ g.owner = Top.owner /\ g.next = Top.next
    BY <1>1, <1>2 DEF Frame, Pcs
  <2>2. Fits(g, refused') /\ Knows(g, pending', crashed')
    BY <1>1, <1>2, <1>4, <2>1 DEF Fits, Knows, Callbacks, Working
  <2>3. QED
    BY <1>1, <1>4, <2>1, <2>2, BecomesStep DEF Moves, Becomes, T
<1>5. QED
  BY <1>3, <1>4

\* A position without elements.
LEMMA PutNullStep == ASSUME IInv, PutNull PROVE IInv'
<1>1. /\ Initializing /\ misuse = {} /\ Working(Top) /\ Top.pc = "init"
      /\ Jni("GetObjectArrayElement")
      /\ UNCHANGED <<pending, leaked, refused, attached, crashed, abi>>
  BY DEF PutNull, Initializing, Runs, Working
<1>2. PICK pp \in BOOLEAN : Put([d_elems |-> FALSE, d_pp_arr |-> pp, d_global |-> FALSE])
  BY DEF PutNull
<1>3. [d_elems |-> FALSE, d_pp_arr |-> pp, d_global |-> FALSE] \in Tuple
  BY DEF Tuple
<1>4. misuse' = {} /\ ~pending'
  <2>1. misuse' = {}
    BY <1>1, JniRuns
  <2>2. ~pending /\ pending' = pending
    BY <1>1, Ready
  <2>3. QED
    BY <2>1, <2>2
<1>5. Grows
  BY <1>1, <1>4, PlainGrows
<1>6. QED
  BY <1>1, <1>2, <1>3, <1>4, <1>5, PutStep

\* A position with its elements and their global reference, or neither.
LEMMA PutNotNullStep == ASSUME IInv, PutNotNull PROVE IInv'
<1> DEFINE t == [d_elems |-> TRUE, d_pp_arr |-> TRUE, d_global |-> TRUE]
<1>1. /\ Initializing /\ misuse = {} /\ Working(Top) /\ Top.kind \in Cpp /\ Top.pc = "init"
      /\ Jni("GetByteArrayElements")
      /\ (Put(t) /\ UNCHANGED pending) \/ JniFails
      /\ UNCHANGED <<leaked, refused, attached, crashed, abi>>
  BY DEF PutNotNull, Initializing, Runs, Working, Cpp, Methods, Invoking
<1>2. misuse' = {} /\ ~pending
  BY <1>1, JniRuns, Ready
<1>3. CASE JniFails
  BY <1>1, <1>2, <1>3, JniFailsStep
<1>4. CASE Put(t) /\ UNCHANGED pending
  <2>1. Grows
    BY <1>1, <1>2, <1>4, PlainGrows
  <2>2. t \in Tuple
    BY DEF Tuple
  <2>3. QED
    BY <1>1, <1>2, <1>4, <2>1, <2>2, PutStep
<1>5. QED
  BY <1>1, <1>3, <1>4

\* A position whose elements are not globalized: they were refused.
LEMMA PutNotNullRefusedStep == ASSUME IInv, PutNotNullRefused PROVE IInv'
<1> DEFINE t == [d_elems |-> TRUE, d_pp_arr |-> TRUE, d_global |-> FALSE]
           u == [d_elems |-> TRUE, d_pp_arr |-> FALSE, d_global |-> FALSE]
<1>1. /\ Initializing /\ misuse = {} /\ Working(Top) /\ Top.pc = "init"
      /\ Jni("NewGlobalRef") /\ refused' = refused \cup {"elems"}
      /\ \/ Put(t) /\ UNCHANGED pending
         \/ /\ Becomes([Top EXCEPT !.pc = "unwind", !.exc = "pending", !.d_arrays = Append(@, u)])
            /\ pending' = TRUE
      /\ UNCHANGED <<leaked, attached, crashed, abi>>
  BY DEF PutNotNullRefused, Initializing, Runs, Working
<1>2. misuse' = {} /\ ~pending /\ pending = FALSE
  BY <1>1, JniRuns, Ready
<1>3. Grows
  <2>1. /\ attached \in BOOLEAN /\ crashed \in BOOLEAN /\ leaked \subseteq refused
        /\ refused \subseteq {"elems", "callback", "buffer"}
    BY DEF IInv, FlagsInv
  <2>2. QED
    BY <1>1, <1>2, <2>1, QuietGrows
<1>4. t \in Tuple /\ u \in Tuple
  BY DEF Tuple
<1>5. CASE Put(t) /\ UNCHANGED pending
  BY <1>1, <1>2, <1>3, <1>4, <1>5, PutStep
<1>6. CASE /\ Becomes([Top EXCEPT !.pc = "unwind", !.exc = "pending", !.d_arrays = Append(@, u)])
           /\ pending' = TRUE
  <2>1. u.d_elems /\ ~u.d_global => "elems" \in refused'
    BY <1>1
  <2>2. u.d_global => u.d_elems
    OBVIOUS
  <2> HIDE DEF u
  <2>3. QED
    BY <1>1, <1>3, <1>4, <1>6, <2>1, <2>2, PutStep
<1>7. QED
  BY <1>1, <1>5, <1>6

\* All that is to be put is put.
LEMMA InitializedStep == ASSUME IInv, Initialized PROVE IInv'
<1>1. /\ Top.kind \in {"indirect", "vi"} /\ Top.pc = "init" /\ misuse = {} /\ Working(Top)
      /\ Goto("invoke") /\ UNCHANGED <<pending, misuse, leaked, refused, attached, crashed, abi>>
  BY DEF Initialized, Runs, Working, flags
<1>2. Grows
  BY <1>1, PlainGrows
<1>3. Top.args = "pinned" /\ Top.exc = "none" /\ ~pending
  BY <1>1, Ready DEF Fits
<1>4. QED
  BY <1>1, <1>2, <1>3, GotoStep DEF Pcs, Callbacks

\* A method invokes native code, and keeps its arguments pinned.
LEMMA InvokeStep == ASSUME IInv, Invoke PROVE IInv'
<1> DEFINE f == [Top EXCEPT !.pc = "returned"]
<1>1. /\ Top.kind \in Invoking /\ Top.pc = "invoke" /\ misuse = {} /\ Working(Top)
      /\ UNCHANGED <<pending, misuse, leaked, refused, attached, crashed, abi>>
      /\ stack' = Front(stack) \o <<f, NewFrame("code")>>
  BY DEF Invoke, Runs, Working, flags, Call
<1>2. Grows
  BY <1>1, PlainGrows
<1>3. /\ Top \in Frame /\ Fits(Top, refused) /\ Top.exc = "none"
      /\ Top.kind \in Cpp /\ Len(stack) < MaxFrames
  BY <1>1, Ready DEF IInv, FramesInv
<1>4. /\ f \in Frame /\ f.kind = Top.kind /\ f.missed = Top.missed
      /\ f.pc = "returned" /\ f.exc = "none" /\ f.args = Top.args /\ f.d_arrays = Top.d_arrays
      /\ f.refs = Top.refs /\ f.owner = Top.owner /\ f.next = Top.next
  BY <1>3 DEF Frame, Pcs
<1>5. Fits(f, refused') /\ Waits(f)
  BY <1>1, <1>3, <1>4 DEF Fits, Waits, Callbacks, Invoking
<1>6. /\ NewFrame("code") \in Frame /\ Fits(NewFrame("code"), refused')
      /\ NewFrame("code").kind = "code" /\ ~NewFrame("code").missed
      /\ NewFrame("code").pc = "run" /\ NewFrame("code").exc = "none"
  BY NewFits
<1>7. CanCall(f, NewFrame("code")) /\ Knows(NewFrame("code"), pending', crashed')
  BY <1>1, <1>4, <1>6 DEF CanCall, Knows, Working
<1>8. "code" \notin Cpp
  BY DEF Cpp, Methods, Invoking, Callbacks, Steps
<1>9. QED
  BY <1>1, <1>2, <1>3, <1>4, <1>5, <1>6, <1>7, <1>8, CallStep

\* The 32 bit library looks for an exception when the code has returned.
LEMMA ReturnedStep == ASSUME IInv, Returned PROVE IInv'
<1>1. /\ Top.kind \in {"direct", "indirect"} /\ Top.pc = "returned" /\ misuse = {}
      /\ Top.kind \in Cpp
      /\ (Throw("pending") /\ pending) \/ Goto("unwind")
      /\ UNCHANGED <<pending, misuse, leaked, refused, attached, crashed, abi>>
  BY DEF Returned, Runs, flags, Cpp, Methods, Invoking
<1>2. Grows
  BY <1>1, PlainGrows
<1>3. Fits(Top, refused) /\ refused' = refused
  BY <1>1, TopFits
<1>4. Top.exc = "none" /\ (Top.refs > 0 /\ Top.owner = "nobody" => "callback" \in refused')
  BY <1>1, <1>3 DEF Fits
<1>5. CASE Throw("pending") /\ pending
  BY <1>1, <1>2, <1>4, <1>5, ThrowStep
<1>6. CASE Goto("unwind")
  BY <1>1, <1>2, <1>3, <1>4, <1>6, GotoStep DEF Pcs, Fits
<1>7. QED
  BY <1>1, <1>5, <1>6

\* A variable indirect call looks for an exception, and copies the instructions.
LEMMA ReturnedViStep == ASSUME IInv, ReturnedVi PROVE IInv'
<1>1. /\ Top.kind = "vi" /\ Top.pc = "returned" /\ misuse = {} /\ Top.kind \in Cpp
      /\ \/ pending /\ Throw("pending") /\ UNCHANGED <<pending, flags>>
         \/ ~pending /\ CopyRegion(Goto("finish"))
  BY DEF ReturnedVi, Runs, Cpp, Methods, Invoking
<1>2. Fits(Top, refused)
  BY TopFits
<1>3. Top.exc = "none" /\ Top.args = "pinned" /\ (Top.refs > 0 /\ Top.owner = "nobody" => "callback" \in refused)
  BY <1>1, <1>2 DEF Fits
<1>4. CASE pending /\ Throw("pending") /\ UNCHANGED <<pending, flags>>
  <2>1. UNCHANGED <<pending, misuse, leaked, refused, attached, crashed, abi>>
    BY <1>4 DEF flags
  <2>2. Grows
    BY <1>1, <2>1, PlainGrows
  <2>3. QED
    BY <1>1, <1>3, <1>4, <2>1, <2>2, ThrowStep
<1>5. CASE ~pending /\ CopyRegion(Goto("finish"))
  <2>1. /\ Jni("GetIntArrayRegion") /\ UNCHANGED <<attached, crashed, abi>>
        /\ (Goto("finish") /\ UNCHANGED <<pending, leaked, refused>>) \/ RegionFails
    BY <1>5 DEF CopyRegion
  <2>2. misuse' = {}
    BY <1>1, <1>3, <1>5, <2>1, JniMayRun
  <2>3. CASE RegionFails
    BY <1>1, <1>5, <2>1, <2>2, <2>3, RegionFailsStep
  <2>4. CASE Goto("finish") /\ UNCHANGED <<pending, leaked, refused>>
    <3>1. Grows
      BY <2>1, <2>2, <2>4, PlainGrows
    <3>2. QED
      BY <1>1, <1>3, <1>5, <2>4, <3>1, GotoStep DEF Pcs, Callbacks
  <2>5. QED
    BY <2>1, <2>3, <2>4
<1>6. QED
  BY <1>1, <1>4, <1>5

\* A frame counts what it has done.
LEMMA NextStep ==
  ASSUME IInv, Grows, Working(Top), ~pending', NEW j \in Nat, j >= Top.next,
         Becomes([Top EXCEPT !.next = j])
  PROVE  IInv'
<1> DEFINE f == [Top EXCEPT !.next = j]
<1>1. Top \in Frame /\ Fits(Top, refused) /\ Top.exc = "none" /\ refused \subseteq refused'
  BY Ready DEF Grows
<1>2. /\ f \in Frame /\ f.kind = Top.kind /\ f.missed = Top.missed
      /\ f.pc = Top.pc /\ f.exc = "none" /\ f.args = Top.args /\ f.d_arrays = Top.d_arrays
      /\ f.refs = Top.refs /\ f.owner = Top.owner /\ f.next = j /\ Top.next \in Nat
  BY <1>1 DEF Frame
<1>3. Fits(f, refused') /\ Knows(f, pending', crashed')
  <2>1. Fits(Top, refused')
    BY <1>1, FitsMore
  <2>2. \A m \in {1, 2} : Top.next >= m => j >= m
    BY <1>2
  <2>3. Fits(f, refused')
    BY <1>2, <2>1, <2>2 DEF Fits
  <2>4. QED
    BY <1>2, <2>3 DEF Knows
<1>4. QED
  BY <1>2, <1>3, BecomesStep DEF Moves, Becomes

\* An instruction without an action.
LEMMA FinishNoActionStep == ASSUME IInv, FinishNoAction PROVE IInv'
<1>1. /\ misuse = {} /\ Working(Top)
      /\ Becomes([Top EXCEPT !.next = Top.next + 1])
      /\ UNCHANGED <<pending, misuse, leaked, refused, attached, crashed, abi>>
  BY DEF FinishNoAction, Finishing, Finished1, Runs, Working, flags
<1>2. Grows
  BY <1>1, PlainGrows
<1>3. ~pending' /\ Top.next \in Nat
  BY <1>1, Ready DEF Frame
<1>4. Top.next + 1 \in Nat /\ Top.next + 1 >= Top.next
  BY <1>3
<1>5. QED
  BY <1>1, <1>2, <1>3, <1>4, NextStep

\* What is no instruction is thrown for.
LEMMA FinishOutOfRangeStep == ASSUME IInv, FinishOutOfRange PROVE IInv'
<1>1. /\ misuse = {} /\ Working(Top) /\ Top.kind \in Cpp /\ Top.pc = "finish"
      /\ Throw("cpp")
      /\ UNCHANGED <<pending, misuse, leaked, refused, attached, crashed, abi>>
  BY DEF FinishOutOfRange, Finishing, Runs, Working, Cpp, Methods, Invoking, flags
<1>2. ~pending /\ misuse' = {}
  BY <1>1, Ready
<1>3. QED
  BY <1>1, <1>2, CppStep

\* A string takes the place of a byte array, or cannot be made.
LEMMA FinishReplaceStep == ASSUME IInv, FinishReplace PROVE IInv'
<1>1. /\ misuse = {} /\ Working(Top) /\ Top.kind \in Cpp /\ Top.pc = "finish"
      /\ Jni("SetObjectArrayElement")
      /\ (Becomes([Top EXCEPT !.next = Top.next + 1]) /\ UNCHANGED pending) \/ JniFails
      /\ UNCHANGED <<leaked, refused, attached, crashed, abi>>
  BY DEF FinishReplace, Finishing, Finished1, Runs, Working, Cpp, Methods, Invoking
<1>2. misuse' = {} /\ ~pending /\ Top.next \in Nat
  BY <1>1, JniRuns, Ready DEF Frame
<1>3. CASE JniFails
  BY <1>1, <1>2, <1>3, JniFailsStep
<1>4. CASE Becomes([Top EXCEPT !.next = Top.next + 1]) /\ UNCHANGED pending
  <2>1. Grows
    BY <1>1, <1>2, <1>4, PlainGrows
  <2>2. Top.next + 1 \in Nat /\ Top.next + 1 >= Top.next
    BY <1>2
  <2>3. QED
    BY <1>1, <1>2, <1>4, <2>1, <2>2, NextStep
<1>5. QED
  BY <1>1, <1>3, <1>4

\* Every position is done.
LEMMA FinishDoneStep == ASSUME IInv, FinishDone PROVE IInv'
<1>1. /\ Top.kind = "vi" /\ Top.pc = "finish" /\ misuse = {} /\ Working(Top)
      /\ Goto("unwind") /\ UNCHANGED <<pending, misuse, leaked, refused, attached, crashed, abi>>
  BY DEF FinishDone, Runs, Working, flags
<1>2. Grows
  BY <1>1, PlainGrows
<1>3. QED
  BY <1>1, <1>2, Ready, GotoStep DEF Pcs

-------------------------------------------------------------------------------
(* The methods that call no native code.                                   *)

\* What holds at a step.
LEMMA AtStepFacts ==
  ASSUME IInv, NEW kinds, AtStep(kinds)
  PROVE  /\ misuse = {} /\ Working(Top) /\ Top.kind \in Cpp /\ Top.pc = "steps"
         /\ Top.kind \in DOMAIN Steps /\ ~pending /\ Top.exc = "none"
         /\ Step \in Nat /\ Step >= Top.next
         /\ "memcpy" \notin kinds => Top.args # "critical"
<1>1. /\ misuse = {} /\ Working(Top) /\ Top.kind \in DOMAIN Steps /\ Top.pc = "steps"
      /\ Top.kind \in Cpp
  BY DEF AtStep, Runs, Working, Cpp, Methods
<1>2. ~pending /\ Top.exc = "none" /\ Fits(Top, refused) /\ Top.next \in Nat
  BY <1>1, Ready DEF Frame
<1>3. ASSUME "memcpy" \notin kinds, Top.args = "critical" PROVE FALSE
  <2>1. \/ Top.kind = "copyOutDirect" /\ Top.next >= 1
        \/ Top.kind = "copyOutIndirect" /\ Top.next >= 2
    BY <1>1, <1>2, <1>3 DEF Fits
  <2>2. /\ Steps["copyOutDirect"] = <<"critical", "memcpy">>
        /\ Steps["copyOutIndirect"] = <<"region", "critical", "memcpy">>
    BY DEF Steps
  <2>3. Step \in DOMAIN Steps[Top.kind] /\ Steps[Top.kind][Step] \in kinds
    BY DEF AtStep
  <2>4. CASE Top.kind = "copyOutDirect" /\ Top.next >= 1
    <3>1. Step \in 1 .. 2 /\ Step >= 2
      BY <1>2, <2>2, <2>3, <2>4 DEF Step
    <3>2. Step = 2
      BY <3>1
    <3>3. QED
      BY <1>3, <2>2, <2>3, <2>4, <3>2
  <2>5. CASE Top.kind = "copyOutIndirect" /\ Top.next >= 2
    <3>1. Step \in 1 .. 3 /\ Step >= 3
      BY <1>2, <2>2, <2>3, <2>5 DEF Step
    <3>2. Step = 3
      BY <3>1
    <3>3. QED
      BY <1>3, <2>2, <2>3, <2>5, <3>2
  <2>6. QED
    BY <2>1, <2>4, <2>5
<1>4. QED
  BY <1>1, <1>2, <1>3 DEF Step

\* A step of a method is done.
LEMMA DoneStep ==
  ASSUME IInv, NEW kinds, AtStep(kinds), misuse' = {}, Done,
         UNCHANGED <<pending, leaked, refused, attached, crashed, abi>>
  PROVE  IInv'
<1>1. Grows
  BY PlainGrows
<1>2. /\ Working(Top) /\ Step \in Nat /\ Step >= Top.next /\ ~pending'
      /\ Becomes([Top EXCEPT !.next = Step])
  BY AtStepFacts DEF Done
<1>3. QED
  BY <1>1, <1>2, NextStep

\* Two methods hold an array critically.
LEMMA CriticalStep ==
  ASSUME NEW k \in DOMAIN Steps, NEW j \in DOMAIN Steps[k], Steps[k][j] = "critical"
  PROVE  \/ k = "copyOutDirect" /\ j >= 1
         \/ k = "copyOutIndirect" /\ j >= 2
<1>1. k \in {"copyOutDirect", "copyOutIndirect", "copyOutVi", "loadLibrary",
            "getProcAddress", "logThreshold", "when"}
  BY DEF Steps
<1>2. CASE k = "copyOutDirect"
  <2>1. Steps[k] = <<"critical", "memcpy">>
    BY <1>2 DEF Steps
  <2>2. QED
    BY <1>2, <2>1
<1>3. CASE k = "copyOutIndirect"
  <2>1. Steps[k] = <<"region", "critical", "memcpy">>
    BY <1>3 DEF Steps
  <2>2. j \in 1 .. 3 /\ j # 1
    BY <2>1
  <2>3. QED
    BY <1>3, <2>2
<1>4. CASE k = "copyOutVi"
  <2>1. Steps[k] = <<"pin", "region", "region", "unmarshall">>
    BY <1>4 DEF Steps
  <2>2. j \in {1, 2, 3, 4}
    BY <2>1
  <2>3. QED
    BY <2>1, <2>2
<1>5. CASE k \in {"loadLibrary", "getProcAddress"}
  <2>1. Steps[k] = <<"string">>
    BY <1>5 DEF Steps
  <2>2. j \in {1}
    BY <2>1
  <2>3. QED
    BY <2>1, <2>2
<1>6. CASE k = "logThreshold"
  <2>1. Steps[k] = <<"call", "range", "call", "element">>
    BY <1>6 DEF Steps
  <2>2. j \in {1, 2, 3, 4}
    BY <2>1
  <2>3. QED
    BY <2>1, <2>2
<1>7. CASE k = "when"
  <2>1. Steps[k] = <<"NewString">>
    BY <1>7 DEF Steps
  <2>2. j \in {1}
    BY <2>1
  <2>3. QED
    BY <2>1, <2>2
<1>8. QED
  BY <1>1, <1>2, <1>3, <1>4, <1>5, <1>6, <1>7

\* logThreshold(null).
LEMMA SkipConversionStep == ASSUME IInv, SkipConversion PROVE IInv'
<1>1. /\ misuse = {} /\ Working(Top) /\ 2 >= Top.next
      /\ Becomes([Top EXCEPT !.next = 2])
      /\ UNCHANGED <<pending, misuse, leaked, refused, attached, crashed, abi>>
  BY DEF SkipConversion, Runs, Working, flags
<1>2. Grows
  BY <1>1, PlainGrows
<1>3. ~pending'
  BY <1>1, Ready
<1>4. QED
  BY <1>1, <1>2, <1>3, NextStep

\* An array region is copied, or cannot be.
LEMMA ReadRegionStep == ASSUME IInv, ReadRegion PROVE IInv'
<1>1. /\ AtStep({"region"}) /\ Jni("GetIntArrayRegion") /\ UNCHANGED <<attached, crashed, abi>>
      /\ (Done /\ UNCHANGED <<pending, leaked, refused>>) \/ RegionFails
  BY DEF ReadRegion, CopyRegion
<1>2. /\ misuse = {} /\ Working(Top) /\ Top.kind \in Cpp /\ Top.pc = "steps"
      /\ ~pending /\ Top.args # "critical"
  BY <1>1, AtStepFacts
<1>3. misuse' = {}
  BY <1>1, <1>2, JniMayRun
<1>4. CASE RegionFails
  BY <1>1, <1>2, <1>3, <1>4, RegionFailsStep
<1>5. CASE Done /\ UNCHANGED <<pending, leaked, refused>>
  BY <1>1, <1>3, <1>5, DoneStep
<1>6. QED
  BY <1>1, <1>4, <1>5

\* A JNI function succeeds or fails.
LEMMA CallJniStep == ASSUME IInv, CallJni PROVE IInv'
<1>1. /\ AtStep({"string", "call", "element", "NewString"}) /\ Jni(Steps[Top.kind][Step])
      /\ (Done /\ UNCHANGED pending) \/ JniFails
      /\ UNCHANGED <<leaked, refused, attached, crashed, abi>>
  BY DEF CallJni, JniFails
<1>2. /\ misuse = {} /\ Working(Top) /\ Top.kind \in Cpp /\ Top.pc = "steps"
      /\ ~pending /\ Top.args # "critical"
  BY <1>1, AtStepFacts
<1>3. misuse' = {}
  BY <1>1, <1>2, JniMayRun
<1>4. CASE JniFails
  BY <1>1, <1>2, <1>3, <1>4, JniFailsStep
<1>5. CASE Done /\ UNCHANGED pending
  BY <1>1, <1>3, <1>5, DoneStep
<1>6. QED
  BY <1>1, <1>4, <1>5

\* The ordinal is in range, or is not.
LEMMA CheckRangeStep == ASSUME IInv, CheckRange PROVE IInv'
<1>1. /\ AtStep({"range"})
      /\ Done \/ Throw("cpp")
      /\ UNCHANGED <<pending, misuse, leaked, refused, attached, crashed, abi>>
  BY DEF CheckRange, flags
<1>2. /\ misuse' = {} /\ Top.kind \in Cpp /\ Top.pc = "steps" /\ ~pending
  BY <1>1, AtStepFacts
<1>3. CASE Throw("cpp")
  BY <1>1, <1>2, <1>3, CppStep
<1>4. CASE Done
  BY <1>1, <1>2, <1>4, DoneStep
<1>5. QED
  BY <1>1, <1>3, <1>4

\* The array is pinned or held critically, or there is no memory for it.
LEMMA PinDataStep == ASSUME IInv, PinData PROVE IInv'
<1> DEFINE a == IF Steps[Top.kind][Step] = "critical" THEN "critical" ELSE "pinned"
           f == [Top EXCEPT !.next = Step, !.args = a]
<1>1. /\ AtStep({"pin", "critical"}) /\ Jni("GetLongArrayElements")
      /\ Becomes(f) \/ Throw("cpp")
      /\ UNCHANGED <<pending, leaked, refused, attached, crashed, abi>>
  BY DEF PinData
<1>2. /\ misuse = {} /\ Working(Top) /\ Top.kind \in Cpp /\ Top.pc = "steps"
      /\ ~pending /\ Top.args # "critical" /\ Top.exc = "none"
      /\ Top.kind \in DOMAIN Steps /\ Step \in Nat
  BY <1>1, AtStepFacts
<1>3. misuse' = {}
  BY <1>1, <1>2, JniMayRun
<1>4. CASE Throw("cpp")
  BY <1>1, <1>2, <1>3, <1>4, CppStep
<1>5. CASE Becomes(f)
  <2>1. Grows
    BY <1>1, <1>3, PlainGrows
  <2>2. a \in {"critical", "pinned"} /\ (a = "critical" =>
          \/ Top.kind = "copyOutDirect" /\ Step >= 1
          \/ Top.kind = "copyOutIndirect" /\ Step >= 2)
    <3>1. Step \in DOMAIN Steps[Top.kind]
      BY <1>1 DEF AtStep
    <3>2. QED
      BY <1>2, <3>1, CriticalStep
  <2>3. Top \in Frame /\ Fits(Top, refused) /\ Top.pc # "run"
    BY <1>2, Ready
  <2> HIDE DEF a
  <2>4. /\ f \in Frame /\ f.kind = Top.kind /\ f.missed = Top.missed
        /\ f.pc = "steps" /\ f.exc = "none" /\ f.args = a /\ f.d_arrays = Top.d_arrays
        /\ f.refs = Top.refs /\ f.owner = Top.owner /\ f.next = Step
    BY <1>2, <2>2, <2>3 DEF Frame
  <2>5. Top.kind \notin {"java", "code", "direct"} /\ Top.kind \notin Callbacks
    BY <1>2 DEF Steps, Callbacks
  <2>6. Fits(f, refused') /\ Knows(f, pending', crashed')
    BY <1>1, <1>2, <2>2, <2>3, <2>4, <2>5 DEF Fits, Knows
  <2>7. QED
    BY <1>5, <2>1, <2>4, <2>6, BecomesStep DEF Moves, Becomes, a
<1>6. QED
  BY <1>1, <1>4, <1>5

\* What native code holds is copied, or could not be read.
LEMMA CopyOutStep == ASSUME IInv, CopyOut PROVE IInv'
<1> DEFINE made == Steps[Top.kind][Step] = "unmarshall"
<1>1. /\ AtStep({"memcpy", "unmarshall"})
      /\ (made /\ Jni("SetObjectArrayElement")) \/ (~made /\ UNCHANGED misuse)
      /\ \/ (Done \/ Throw("cpp")) /\ UNCHANGED pending
         \/ JniFails
      /\ UNCHANGED <<leaked, refused, attached, crashed, abi>>
  BY DEF CopyOut
<1>2. /\ misuse = {} /\ Working(Top) /\ Top.kind \in Cpp /\ Top.pc = "steps" /\ ~pending
      /\ Top.kind \in DOMAIN Steps
  BY <1>1, AtStepFacts
<1>3. misuse' = {}
  <2>1. CASE made /\ Jni("SetObjectArrayElement")
    <3>1. AtStep({"unmarshall"})
      BY <1>1, <2>1 DEF AtStep
    <3>2. Top.args # "critical"
      BY <3>1, AtStepFacts
    <3>3. QED
      BY <1>2, <2>1, <3>2, JniMayRun
  <2>2. QED
    BY <1>1, <1>2, <2>1
<1>4. CASE JniFails
  BY <1>1, <1>2, <1>3, <1>4, JniFailsStep
<1>5. CASE Throw("cpp") /\ UNCHANGED pending
  BY <1>1, <1>2, <1>3, <1>5, CppStep
<1>6. CASE Done /\ UNCHANGED pending
  BY <1>1, <1>3, <1>6, DoneStep
<1>7. QED
  BY <1>1, <1>4, <1>5, <1>6

\* Every step is done.
LEMMA StepsDoneStep == ASSUME IInv, StepsDone PROVE IInv'
<1>1. /\ Top.kind \in DOMAIN Steps /\ Top.pc = "steps" /\ misuse = {} /\ Working(Top)
      /\ Goto("unwind") /\ UNCHANGED <<pending, misuse, leaked, refused, attached, crashed, abi>>
  BY DEF StepsDone, Runs, Working, flags
<1>2. Grows
  BY <1>1, PlainGrows
<1>3. QED
  BY <1>1, <1>2, Ready, GotoStep DEF Pcs

-------------------------------------------------------------------------------
(* newThunk64() and newThunkX86().                                         *)

\* The pointers of a callback that needs them are copied, or cannot be.
LEMMA ChooseCallbackStep == ASSUME IInv, ChooseCallback PROVE IInv'
<1>1. /\ Top.kind = "newThunk" /\ Top.pc = "enter" /\ misuse = {} /\ Working(Top)
      /\ \/ Goto(AfterPtrs) /\ UNCHANGED <<pending, misuse, leaked, refused, attached, crashed, abi>>
         \/ CopyRegion(Goto(AfterPtrs))
  BY DEF ChooseCallback, Runs, Working, Methods, flags
<1>2. /\ Top.exc = "none" /\ Top.args # "critical" /\ ~pending /\ Top.kind \in Cpp
      /\ Top.kind \notin Callbacks
  BY <1>1, Ready DEF Fits, Callbacks
<1>3. AfterPtrs \in {"out", "construct"} /\ AfterPtrs \in Pcs
  BY DEF AfterPtrs, Pcs
<1>4. ASSUME Goto(AfterPtrs), Grows, ~pending' PROVE IInv'
  BY <1>1, <1>2, <1>3, <1>4, GotoStep
<1>5. CASE Goto(AfterPtrs) /\ UNCHANGED <<pending, misuse, leaked, refused, attached, crashed, abi>>
  <2>1. Grows
    BY <1>1, <1>5, PlainGrows
  <2>2. QED
    BY <1>2, <1>4, <1>5, <2>1
<1>6. CASE CopyRegion(Goto(AfterPtrs))
  <2>1. /\ Jni("GetIntArrayRegion") /\ UNCHANGED <<attached, crashed, abi>>
        /\ (Goto(AfterPtrs) /\ UNCHANGED <<pending, leaked, refused>>) \/ RegionFails
    BY <1>6 DEF CopyRegion
  <2>2. misuse' = {}
    BY <1>1, <2>1, JniRuns
  <2>3. CASE RegionFails
    BY <1>1, <1>2, <2>1, <2>2, <2>3, RegionFailsStep
  <2>4. CASE Goto(AfterPtrs) /\ UNCHANGED <<pending, leaked, refused>>
    <3>1. Grows
      BY <2>1, <2>2, <2>4, PlainGrows
    <3>2. QED
      BY <1>2, <1>4, <2>4, <3>1
  <2>5. QED
    BY <2>1, <2>3, <2>4
<1>7. QED
  BY <1>1, <1>5, <1>6

\* A constructor fails: what it had taken is recorded.
LEMMA ConstructorFailsStep ==
  ASSUME IInv, misuse' = {}, ConstructorFails, ~pending, Top.kind = "newThunk",
         Top.pc = "construct", UNCHANGED <<leaked, attached, crashed, abi>>
  PROVE  IInv'
<1>1. /\ refused' = refused \cup {x \in {"callback"} : Top.refs > 0}
      /\ (pending' = TRUE /\ Throw("pending")) \/ (UNCHANGED pending /\ Throw("cpp"))
  BY DEF ConstructorFails, JniFails
<1>2. Grows
  <2>1. /\ attached \in BOOLEAN /\ crashed \in BOOLEAN /\ leaked \subseteq refused
        /\ refused \subseteq {"elems", "callback", "buffer"}
    BY DEF IInv, FlagsInv
  <2>2. refused \subseteq refused' /\ refused' \subseteq {"elems", "callback", "buffer"}
    BY <1>1, <2>1
  <2>3. QED
    BY <1>1, <2>1, <2>2, QuietGrows
<1>3. Top.kind \in Cpp /\ (Top.refs > 0 => "callback" \in refused')
  BY <1>1 DEF Cpp, Methods
<1>4. CASE pending' = TRUE /\ Throw("pending")
  BY <1>2, <1>3, <1>4, ThrowStep
<1>5. CASE UNCHANGED pending /\ Throw("cpp")
  BY <1>2, <1>3, <1>5, ThrowStep
<1>6. QED
  BY <1>1, <1>4, <1>5

\* The callback or the bound value is globalized, or cannot be.
LEMMA GlobalizeStep == ASSUME IInv, Globalize PROVE IInv'
<1> DEFINE f == [Top EXCEPT !.refs = Top.refs + 1]
<1>1. /\ Top.kind = "newThunk" /\ Top.pc = "construct" /\ misuse = {} /\ Working(Top)
      /\ Jni("NewGlobalRef") /\ Top.refs < 2
      /\ (Becomes(f) /\ UNCHANGED <<pending, refused>>) \/ ConstructorFails
      /\ UNCHANGED <<leaked, attached, crashed, abi>>
  BY DEF Globalize, Runs, Working
<1>2. misuse' = {} /\ ~pending
  BY <1>1, JniRuns, Ready
<1>3. CASE ConstructorFails
  BY <1>1, <1>2, <1>3, ConstructorFailsStep
<1>4. CASE Becomes(f) /\ UNCHANGED <<pending, refused>>
  <2>1. Grows
    BY <1>1, <1>2, <1>4, PlainGrows
  <2>2. Top \in Frame /\ Fits(Top, refused) /\ Top.exc = "none"
    BY <1>1, Ready
  <2>3. Top.refs + 1 \in 0 .. 2
    BY <1>1, <2>2 DEF Frame
  <2>4. /\ f \in Frame /\ f.kind = Top.kind /\ f.missed = Top.missed
        /\ f.pc = Top.pc /\ f.exc = "none" /\ f.args = Top.args /\ f.d_arrays = Top.d_arrays
        /\ f.owner = Top.owner /\ f.next = Top.next
    BY <2>2, <2>3 DEF Frame
  <2>5. Fits(f, refused') /\ Knows(f, pending', crashed')
    BY <1>1, <1>2, <1>4, <2>2, <2>4 DEF Fits, Knows
  <2>6. QED
    BY <1>4, <2>1, <2>4, <2>5, BecomesStep DEF Moves, Becomes
<1>5. QED
  BY <1>1, <1>3, <1>4

\* The callback is complete, and owned, or its constructor fails at last.
LEMMA FetchJvmStep == ASSUME IInv, FetchJvm PROVE IInv'
<1> DEFINE f == [Top EXCEPT !.pc = AfterCallback, !.owner = "callback_ptr"]
<1>1. /\ Top.kind = "newThunk" /\ Top.pc = "construct" /\ misuse = {} /\ Working(Top)
      /\ Jni("GetJavaVM")
      /\ (Becomes(f) /\ UNCHANGED <<pending, refused>>) \/ ConstructorFails
      /\ UNCHANGED <<leaked, attached, crashed, abi>>
  BY DEF FetchJvm, Runs, Working
<1>2. misuse' = {} /\ ~pending
  BY <1>1, JniRuns, Ready
<1>3. CASE ConstructorFails
  BY <1>1, <1>2, <1>3, ConstructorFailsStep
<1>4. CASE Becomes(f) /\ UNCHANGED <<pending, refused>>
  <2>1. Grows
    BY <1>1, <1>2, <1>4, PlainGrows
  <2>2. Top \in Frame /\ Fits(Top, refused) /\ Top.exc = "none"
    BY <1>1, Ready
  <2>3. AfterCallback \in {"thunk", "out"}
    BY DEF AfterCallback
  <2>4. /\ f \in Frame /\ f.kind = Top.kind /\ f.missed = Top.missed
        /\ f.pc = AfterCallback /\ f.exc = "none" /\ f.args = Top.args
        /\ f.d_arrays = Top.d_arrays /\ f.refs = Top.refs
        /\ f.owner = "callback_ptr" /\ f.next = Top.next
    BY <2>2, <2>3 DEF Frame, Pcs
  <2>5. Fits(f, refused') /\ Knows(f, pending', crashed')
    BY <1>1, <1>2, <1>4, <2>2, <2>3, <2>4 DEF Fits, Knows, Callbacks
  <2>6. QED
    BY <1>4, <2>1, <2>4, <2>5, BecomesStep DEF Moves, Becomes
<1>5. QED
  BY <1>1, <1>3, <1>4

\* The array for the addresses is pinned, or there is no memory for it.
LEMMA PinOutStep == ASSUME IInv, PinOut PROVE IInv'
<1> DEFINE f == [Top EXCEPT !.pc = AfterOut, !.args = "pinned"]
<1>1. /\ Top.kind = "newThunk" /\ Top.pc = "out" /\ misuse = {} /\ Working(Top)
      /\ Jni("GetLongArrayElements")
      /\ Becomes(f) \/ Throw("cpp")
      /\ UNCHANGED <<pending, leaked, refused, attached, crashed, abi>>
  BY DEF PinOut, Runs, Working
<1>2. misuse' = {} /\ ~pending
  BY <1>1, JniRuns, Ready
<1>3. CASE Throw("cpp")
  BY <1>1, <1>2, <1>3, Ready, CppStep
<1>4. CASE Becomes(f)
  <2>1. Grows
    BY <1>1, <1>2, PlainGrows
  <2>2. Top \in Frame /\ Fits(Top, refused) /\ Top.exc = "none"
    BY <1>1, Ready
  <2>3. AfterOut \in {"thunk", "construct"}
    BY DEF AfterOut
  <2>4. /\ f \in Frame /\ f.kind = Top.kind /\ f.missed = Top.missed
        /\ f.pc = AfterOut /\ f.exc = "none" /\ f.args = "pinned"
        /\ f.d_arrays = Top.d_arrays /\ f.refs = Top.refs
        /\ f.owner = Top.owner /\ f.next = Top.next
    BY <2>2, <2>3 DEF Frame, Pcs
  <2>5. Fits(f, refused') /\ Knows(f, pending', crashed')
    BY <1>1, <1>2, <2>2, <2>3, <2>4 DEF Fits, Knows, Callbacks
  <2>6. QED
    BY <1>4, <2>1, <2>4, <2>5, BecomesStep DEF Moves, Becomes
<1>5. QED
  BY <1>1, <1>3, <1>4

\* The thunk is made and owns the callback, or its stub cannot be had.
LEMMA NewThunkStep == ASSUME IInv, NewThunk PROVE IInv'
<1> DEFINE f == [Top EXCEPT !.pc = "unwind", !.owner = "thunk"]
<1>1. /\ Top.kind = "newThunk" /\ Top.pc = "thunk" /\ misuse = {} /\ Working(Top)
      /\ Becomes(f) \/ Throw("cpp")
      /\ UNCHANGED <<pending, misuse, leaked, refused, attached, crashed, abi>>
  BY DEF NewThunk, Runs, Working, StubFails, ThunkMade, flags
<1>2. misuse' = {} /\ ~pending
  BY <1>1, Ready
<1>3. CASE Throw("cpp")
  BY <1>1, <1>2, <1>3, Ready, CppStep
<1>4. CASE Becomes(f)
  <2>1. Grows
    BY <1>1, <1>2, PlainGrows
  <2>2. Top \in Frame /\ Fits(Top, refused) /\ Top.exc = "none"
    BY <1>1, Ready
  <2>3. /\ f \in Frame /\ f.kind = Top.kind /\ f.missed = Top.missed
        /\ f.pc = "unwind" /\ f.exc = "none" /\ f.args = Top.args
        /\ f.d_arrays = Top.d_arrays /\ f.refs = Top.refs
        /\ f.owner = "thunk" /\ f.next = Top.next
    BY <2>2 DEF Frame, Pcs
  <2>4. Fits(f, refused') /\ Knows(f, pending', crashed')
    BY <1>1, <1>2, <2>2, <2>3 DEF Fits, Knows, Callbacks
  <2>5. QED
    BY <1>4, <2>1, <2>3, <2>4, BecomesStep DEF Moves, Becomes
<1>5. QED
  BY <1>1, <1>3, <1>4

-------------------------------------------------------------------------------
(* The callbacks.                                                          *)

\* A C++ frame has its caller below it.
LEMMA Deep ==
  ASSUME IInv, Top.kind \in Cpp
  PROVE  Len(stack) > 1
<1>1. Len(stack) \in Nat /\ Len(stack) > 0
  BY TopFits
<1>2. Len(stack) # 1
  <2>1. Top = stack[Len(stack)]
    BY TopFits
  <2>2. QED
    BY <2>1 DEF IInv, FramesInv, Cpp, Methods, Invoking, Callbacks, Steps
<1>3. \A n \in Nat : n > 0 /\ n # 1 => n > 1
  OBVIOUS
<1>4. QED
  BY <1>1, <1>2, <1>3

\* A callback starts, unless an exception is pending.
LEMMA EnterCallbackStep == ASSUME IInv, EnterCallback PROVE IInv'
<1> DEFINE p == IF Top.kind = "cb_fast" THEN "call" ELSE "array"
<1>1. /\ Top.kind \in Callbacks /\ Top.pc = "enter" /\ misuse = {} /\ Top.kind \in Cpp
      /\ (pending /\ Throw("pending")) \/ (~pending /\ Goto(p))
      /\ attached' = TRUE /\ UNCHANGED <<pending, misuse, leaked, refused, crashed, abi>>
  BY DEF EnterCallback, Runs, Cpp
<1>2. Grows
  <2>1. /\ crashed \in BOOLEAN /\ leaked \subseteq refused
        /\ refused \subseteq {"elems", "callback", "buffer"}
    BY DEF IInv, FlagsInv
  <2>2. QED
    BY <1>1, <2>1, QuietGrows
<1>3. Fits(Top, refused)
  BY TopFits
<1>4. Top.exc = "none" /\ Top.args = "none" /\ (Top.refs > 0 /\ Top.owner = "nobody" => "callback" \in refused)
  BY <1>1, <1>3 DEF Fits
<1>5. CASE pending /\ Throw("pending")
  BY <1>1, <1>2, <1>4, <1>5, ThrowStep
<1>6. CASE ~pending /\ Goto(p)
  <2>1. p \in {"call", "array"} /\ p \in Pcs /\ Top.kind \notin {"indirect", "vi"}
    BY <1>1 DEF Pcs, Callbacks
  <2>2. QED
    BY <1>1, <1>2, <1>4, <1>6, <2>1, GotoStep
<1>7. QED
  BY <1>1, <1>5, <1>6

\* A thread that cannot be attached.
LEMMA NotAttachedStep == ASSUME IInv, NotAttached PROVE IInv'
<1>1. Grows
  BY PlainGrows DEF NotAttached, Runs, flags
<1>2. Len(stack) > 1
  BY Deep DEF NotAttached, Runs, Cpp
<1>3. QED
  BY <1>1, <1>2, FrontStep DEF NotAttached

\* What a callback that works is.
LEMMA CallbackFacts ==
  ASSUME IInv, NEW p \in {"array", "pin", "unmarshall", "unpin", "call"}, Runs(Callbacks, p)
  PROVE  /\ misuse = {} /\ Top.kind \in Callbacks /\ Top.kind \in Cpp /\ Top.pc = p
         /\ Working(Top) /\ ~pending /\ Top.exc = "none"
         /\ Top \in Frame /\ Fits(Top, refused)
         /\ Top.kind \notin {"java", "code", "direct", "indirect", "vi", "newThunk"}
<1>1. misuse = {} /\ Top.kind \in Callbacks /\ Top.kind \in Cpp /\ Top.pc = p /\ Working(Top)
  BY DEF Runs, Working, Cpp
<1>2. QED
  BY <1>1, Ready DEF Callbacks

\* The array of a callback is made, or cannot be.
LEMMA NewArraysStep == ASSUME IInv, NewArrays PROVE IInv'
<1>1. /\ Runs(Callbacks, "array") /\ Jni("NewLongArray")
      /\ (Goto("pin") /\ UNCHANGED pending) \/ JniFails
      /\ UNCHANGED <<leaked, refused, attached, crashed, abi>>
  BY DEF NewArrays
<1>2. /\ misuse = {} /\ Top.kind \in Cpp /\ Top.pc = "array" /\ Working(Top) /\ ~pending
      /\ Top.exc = "none" /\ Top.args = "none" /\ Top.kind \notin {"indirect", "vi"}
  BY <1>1, CallbackFacts DEF Fits
<1>3. misuse' = {}
  BY <1>1, <1>2, JniRuns
<1>4. CASE JniFails
  BY <1>1, <1>2, <1>3, <1>4, JniFailsStep
<1>5. CASE Goto("pin") /\ UNCHANGED pending
  <2>1. Grows
    BY <1>1, <1>3, <1>5, PlainGrows
  <2>2. QED
    BY <1>2, <1>5, <2>1, GotoStep DEF Pcs
<1>6. QED
  BY <1>1, <1>4, <1>5

\* The array is held, critically or not, or there is no memory for it.
LEMMA PinArrayStep == ASSUME IInv, PinArray PROVE IInv'
<1> DEFINE a == IF Top.kind = "cb_vi" THEN "pinned" ELSE "critical"
           f == [Top EXCEPT !.pc = "unmarshall", !.args = a]
<1>1. /\ Runs(Callbacks, "pin") /\ Jni("GetPrimitiveArrayCritical")
      /\ Becomes(f) \/ Throw("cpp")
      /\ UNCHANGED <<pending, leaked, refused, attached, crashed, abi>>
  BY DEF PinArray
<1>2. /\ misuse = {} /\ Top.kind \in Callbacks /\ Top.kind \in Cpp /\ Top.pc = "pin"
      /\ Working(Top) /\ ~pending /\ Top.exc = "none" /\ Top \in Frame /\ Fits(Top, refused)
      /\ Top.kind \notin {"java", "code", "direct", "indirect", "vi", "newThunk"}
  BY <1>1, CallbackFacts
<1>3. misuse' = {}
  BY <1>1, <1>2, JniRuns
<1>4. CASE Throw("cpp")
  BY <1>1, <1>2, <1>3, <1>4, CppStep
<1>5. CASE Becomes(f)
  <2>1. Grows
    BY <1>1, <1>3, PlainGrows
  <2>2. a \in {"pinned", "critical"} /\ (a = "critical" => Top.kind \in Callbacks \ {"cb_vi"})
    BY <1>2
  <2> HIDE DEF a
  <2>3. /\ f \in Frame /\ f.kind = Top.kind /\ f.missed = Top.missed
        /\ f.pc = "unmarshall" /\ f.exc = "none" /\ f.args = a
        /\ f.d_arrays = Top.d_arrays /\ f.refs = Top.refs
        /\ f.owner = Top.owner /\ f.next = Top.next
    BY <1>2, <2>2 DEF Frame, Pcs
  <2>4. Fits(f, refused') /\ Knows(f, pending', crashed')
    BY <1>1, <1>2, <2>2, <2>3 DEF Fits, Knows
  <2>5. QED
    BY <1>5, <2>1, <2>3, <2>4, BecomesStep DEF Moves, Becomes, a
<1>6. QED
  BY <1>1, <1>4, <1>5

\* The arguments are copied, or could not be read.
LEMMA UnmarshallStep == ASSUME IInv, Unmarshall PROVE IInv'
<1>1. /\ Runs(Callbacks, "unmarshall")
      /\ (Top.kind = "cb_vi" /\ Jni("SetObjectArrayElement")) \/ UNCHANGED misuse
      /\ \/ (Goto("unpin") \/ Throw("cpp")) /\ UNCHANGED pending
         \/ JniFails
      /\ UNCHANGED <<leaked, refused, attached, crashed, abi>>
  BY DEF Unmarshall
<1>2. /\ misuse = {} /\ Top.kind \in Callbacks /\ Top.kind \in Cpp /\ Top.pc = "unmarshall"
      /\ Working(Top) /\ ~pending /\ Top.exc = "none"
      /\ Top.kind \notin {"java", "code", "direct", "indirect", "vi", "newThunk"}
  BY <1>1, CallbackFacts
<1>3. misuse' = {}
  BY <1>1, <1>2, JniRuns
<1>4. CASE JniFails
  BY <1>1, <1>2, <1>3, <1>4, JniFailsStep
<1>5. CASE Throw("cpp") /\ UNCHANGED pending
  BY <1>1, <1>2, <1>3, <1>5, CppStep
<1>6. CASE Goto("unpin") /\ UNCHANGED pending
  <2>1. Grows
    BY <1>1, <1>3, <1>6, PlainGrows
  <2>2. QED
    BY <1>2, <1>6, <2>1, GotoStep DEF Pcs
<1>7. QED
  BY <1>1, <1>4, <1>5, <1>6

\* The array is given back before the Java method is called.
LEMMA UnpinStep == ASSUME IInv, Unpin PROVE IInv'
<1> DEFINE f == [Top EXCEPT !.pc = "call", !.args = "none"]
<1>1. /\ Runs(Callbacks, "unpin") /\ Becomes(f)
      /\ UNCHANGED <<pending, misuse, leaked, refused, attached, crashed, abi>>
  BY DEF Unpin, flags
<1>2. /\ misuse = {} /\ Top.pc = "unpin" /\ ~pending /\ Top.exc = "none"
      /\ Top \in Frame /\ Fits(Top, refused)
      /\ Top.kind \notin {"java", "code", "direct", "indirect", "vi", "newThunk"}
  BY <1>1, CallbackFacts
<1>3. Grows
  BY <1>1, <1>2, PlainGrows
<1>4. /\ f \in Frame /\ f.kind = Top.kind /\ f.missed = Top.missed
      /\ f.pc = "call" /\ f.exc = "none" /\ f.args = "none"
      /\ f.d_arrays = Top.d_arrays /\ f.refs = Top.refs
      /\ f.owner = Top.owner /\ f.next = Top.next
  BY <1>2 DEF Frame, Pcs
<1>5. Fits(f, refused') /\ Knows(f, pending', crashed')
  BY <1>1, <1>2, <1>4 DEF Fits, Knows
<1>6. QED
  BY <1>1, <1>3, <1>4, <1>5, BecomesStep DEF Moves, Becomes

\* The Java method is called, with nothing pending and nothing held.
LEMMA CallJavaStep == ASSUME IInv, CallJava PROVE IInv'
<1> DEFINE f == [Top EXCEPT !.pc = "unwind"]
<1>1. /\ Runs(Callbacks, "call") /\ Jni("CallNonvirtualLongMethodA")
      /\ UNCHANGED <<pending, leaked, refused, attached, crashed, abi>>
      /\ stack' = Front(stack) \o <<f, NewFrame("java")>>
  BY DEF CallJava, Call
<1>2. /\ misuse = {} /\ Top.kind \in Callbacks /\ Top.kind \in Cpp /\ Top.pc = "call"
      /\ Working(Top) /\ ~pending /\ Top.exc = "none" /\ Top \in Frame /\ Fits(Top, refused)
      /\ Top.kind \notin {"java", "code", "direct", "indirect", "vi", "newThunk"}
  BY <1>1, CallbackFacts
<1>3. misuse' = {} /\ Len(stack) < MaxFrames /\ Top.kind \notin Invoking
  <2>1. misuse' = {}
    BY <1>1, <1>2, JniRuns
  <2>2. QED
    BY <1>2, <2>1 DEF IInv, FramesInv, Invoking
<1>4. Grows
  BY <1>1, <1>3, PlainGrows
<1>5. /\ f \in Frame /\ f.kind = Top.kind /\ f.missed = Top.missed
      /\ f.pc = "unwind" /\ f.exc = "none" /\ f.args = "none" /\ f.args = Top.args
      /\ f.d_arrays = Top.d_arrays /\ f.refs = Top.refs /\ f.owner = Top.owner
      /\ f.next = Top.next
  BY <1>2 DEF Frame, Pcs, Fits
<1>6. Fits(f, refused') /\ Waits(f)
  BY <1>1, <1>2, <1>3, <1>5 DEF Fits, Waits
<1>7. /\ NewFrame("java") \in Frame /\ Fits(NewFrame("java"), refused')
      /\ NewFrame("java").kind = "java" /\ ~NewFrame("java").missed
      /\ NewFrame("java").pc = "run" /\ NewFrame("java").exc = "none"
  BY NewFits
<1>8. CanCall(f, NewFrame("java")) /\ Knows(NewFrame("java"), pending', crashed')
  BY <1>2, <1>5, <1>7 DEF CanCall, Knows, Working
<1>9. "java" \notin Cpp
  BY DEF Cpp, Methods, Invoking, Callbacks, Steps
<1>10. QED
  BY <1>2, <1>3, <1>4, <1>5, <1>6, <1>7, <1>8, <1>9, <1>1, CallStep

-------------------------------------------------------------------------------
(* The end of every C++ frame.                                             *)

\* What a frame holds is given back, or was refused.
LEMMA DestroyStep == ASSUME IInv, Destroy PROVE IInv'
<1> DEFINE T == Top.d_arrays
           f == [Top EXCEPT !.pc = "handler", !.args = "none", !.d_arrays = <<>>, !.refs = 0]
           lost == {x \in {"elems"} : \E k \in DOMAIN T : T[k].d_elems /\ ~T[k].d_global}
                     \cup {x \in {"global"} : \E k \in DOMAIN T : T[k].d_global /\ ~T[k].d_elems}
                     \cup {x \in {"callback"} : Top.refs > 0 /\ Top.owner = "nobody"}
<1>1. /\ Top.kind \in Cpp /\ Top.pc = "unwind" /\ misuse = {} /\ Becomes(f)
      /\ leaked' = leaked \cup lost
      /\ UNCHANGED <<pending, misuse, refused, attached, crashed, abi>>
  BY DEF Destroy, Runs
<1>2. Top \in Frame /\ Fits(Top, refused) /\ Kept(T, refused)
  BY TopFits DEF Fits
<1>3. /\ crashed \in BOOLEAN /\ attached \in BOOLEAN /\ leaked \subseteq refused
      /\ refused \subseteq {"elems", "callback", "buffer"}
  BY DEF IInv, FlagsInv
<1>4. lost \subseteq refused
  <2>1. Top.refs > 0 /\ Top.owner = "nobody" => "callback" \in refused
    BY <1>1, <1>2 DEF Fits
  <2>2. QED
    BY <1>2, <2>1 DEF Kept
<1>5. Grows
  BY <1>1, <1>3, <1>4, QuietGrows
<1>6. /\ f \in Frame /\ f.kind = Top.kind /\ f.missed = Top.missed
      /\ f.pc = "handler" /\ f.exc = Top.exc /\ f.args = "none" /\ f.d_arrays = <<>>
      /\ f.refs = 0 /\ f.owner = Top.owner /\ f.next = Top.next
  <2>1. <<>> \in Seq(Tuple) /\ 0 \in 0 .. 2 /\ "handler" \in Pcs
    BY DEF Pcs
  <2>2. QED
    BY <1>2, <2>1 DEF Frame
<1>7. Fits(f, refused') /\ Knows(f, pending', crashed')
  <2>1. Len(<<>>) <= Slots /\ Kept(<<>>, refused')
    BY NativeCallAssumption DEF NativeCallAssumption, Kept
  <2>2. Top.kind \notin {"java", "code"}
    BY <1>1 DEF Cpp, Methods, Invoking, Callbacks, Steps
  <2>3. Fits(f, refused')
    BY <1>6, <2>1, <2>2 DEF Fits
  <2>4. Knows(f, pending', crashed')
    BY <1>1, <1>6 DEF Knows, Working, IInv
  <2>5. QED
    BY <2>3, <2>4
<1>8. QED
  BY <1>1, <1>5, <1>6, <1>7, BecomesStep DEF Moves, Becomes

\* A frame that is not Java has a method or native code under it: the method
\* that is marked is not Java, and nothing above it is.
LEMMA MarkedFrames ==
  ASSUME IInv, Top.kind \in Callbacks
  PROVE  LET n == Len(stack)
             m == IF n = 2 THEN 1 ELSE n - 2
         IN m \in 1 .. n - 1 /\ \A j \in m .. n - 1 : stack[j].kind # "java"
<1> DEFINE n == Len(stack)
           m == IF n = 2 THEN 1 ELSE n - 2
<1>1. n \in Nat /\ n > 1 /\ n - 1 \in 1 .. n - 1
  BY TopFits, Deep DEF Cpp
<1>2. stack[n - 1].kind = "code"
  <2>1. CanCall(stack[n - 1], stack[(n - 1) + 1]) /\ (n - 1) + 1 = n /\ Top = stack[n]
    BY <1>1, TopFits DEF IInv, FramesInv
  <2>2. QED
    BY <2>1 DEF CanCall, Methods, Invoking, Callbacks, Steps
<1>3. CASE n = 2
  BY <1>2, <1>3
<1>4. CASE n # 2
  <2>1. /\ n - 2 \in 1 .. n - 1 /\ (n - 2) + 1 = n - 1
        /\ \A j \in n - 2 .. n - 1 : j = n - 2 \/ j = n - 1
    <3>1. \A k \in Nat : k > 1 /\ k # 2 =>
            /\ k - 2 \in 1 .. k - 1 /\ (k - 2) + 1 = k - 1
            /\ \A j \in k - 2 .. k - 1 : j = k - 2 \/ j = k - 1
      OBVIOUS
    <3>2. QED
      BY <1>1, <1>4, <3>1
  <2>2. CanCall(stack[n - 2], stack[n - 1])
    BY <2>1 DEF IInv, FramesInv
  <2>3. stack[n - 2].kind \in Invoking
    BY <1>2, <2>2 DEF CanCall, Methods, Invoking, Callbacks, Steps
  <2>4. stack[n - 2].kind # "java"
    BY <2>3 DEF Invoking
  <2>5. QED
    BY <1>2, <1>4, <2>1, <2>4
<1>5. QED
  BY <1>3, <1>4

\* The frame is popped, and a method is marked if its callback did not complete.
LEMMA Popped ==
  ASSUME IInv, Grows, Top.kind \in Cpp, Pop, Top.exc # "none" => pending',
         pending' \in BOOLEAN
  PROVE  IInv'
<1> DEFINE n == Len(stack)
           m == IF n = 2 THEN 1 ELSE n - 2
           s == Front(stack)
<1>1. stack \in Seq(Frame) /\ n \in Nat /\ n > 1 /\ n > 0
  BY TopFits, Deep
<1>2. s \in Seq(Frame) /\ Len(s) = n - 1 /\ \A i \in 1 .. n - 1 : s[i] = stack[i]
  BY <1>1, FrontProperties, Zenon
<1>3. CASE ~(Top.kind \in Callbacks /\ (Top.exc # "none" \/ pending'))
  BY <1>1, <1>3, FrontStep DEF Pop
<1>4. CASE Top.kind \in Callbacks /\ (Top.exc # "none" \/ pending')
  <2> DEFINE e == [s[m] EXCEPT !.missed = TRUE]
             t == [s EXCEPT ![m] = e]
  <2>1. m \in 1 .. n - 1 /\ \A j \in m .. n - 1 : stack[j].kind # "java"
    BY <1>4, MarkedFrames
  <2>2. stack' = t
    BY <1>4 DEF Pop
  <2> HIDE DEF m, s
  <2>3. s[m] \in Frame /\ m \in 1 .. Len(s)
    BY <1>1, <1>2, <2>1, ElementOfSeq
  <2>4. e \in Frame /\ Same(e, s[m])
    BY <2>3 DEF Frame, Same
  <2> HIDE DEF e
  <2>5. /\ t \in Seq(Frame) /\ Len(t) = Len(s)
        /\ \A i \in 1 .. Len(s) : t[i] = IF i = m THEN e ELSE s[i]
    BY <1>2, <2>3, <2>4, ExceptSeq
  <2> HIDE DEF t
  <2>6. stack' \in Seq(Frame) /\ Len(stack') = n - 1
    BY <1>2, <2>2, <2>5
  <2>7. \A i \in 1 .. n - 1 : Same(stack'[i], stack[i])
    BY <1>2, <2>2, <2>4, <2>5 DEF Same
  <2>8. \A i \in 1 .. n - 1 : stack'[i].missed => stack[i].missed \/ i = m
    BY <1>2, <2>2, <2>5
  <2>9. pending'
    BY <1>4
  <2>10. \A i \in 1 .. n - 1 : stack'[i].missed =>
            \/ stack[i].missed
            \/ pending' /\ \A j \in i .. n - 1 : stack[j].kind # "java"
    BY <2>1, <2>8, <2>9
  <2>11. QED
    BY <1>1, <2>6, <2>7, <2>10, PopStep
<1>5. QED
  BY <1>3, <1>4

\* The handler leaves an exception pending if there was any, and calls ThrowNew()
\* with one pending only after a crash.
LEMMA HandlerStep == ASSUME IInv, Handler PROVE IInv'
<1>1. /\ Top.kind \in Cpp /\ Top.pc = "handler" /\ misuse = {} /\ Pop
      /\ \/ Top.exc # "cpp" /\ UNCHANGED <<pending, misuse>>
         \/ Top.exc = "cpp" /\ Jni("ThrowNew") /\ pending' = TRUE
      /\ UNCHANGED <<leaked, refused, attached, crashed, abi>>
  BY DEF Handler, Runs
<1>2. Top \in Frame /\ Top.args # "critical" /\ pending \in BOOLEAN
  BY <1>1, TopFits DEF Fits, IInv, FlagsInv
<1>3. /\ Top.exc = "pending" => pending
      /\ Top.exc = "cpp" /\ pending => crashed
  BY DEF IInv, Knows
<1>4. CASE Top.exc # "cpp" /\ UNCHANGED <<pending, misuse>>
  <2>1. Grows
    BY <1>1, <1>4, PlainGrows
  <2>2. Top.exc # "none" => pending'
    BY <1>2, <1>3, <1>4 DEF Frame
  <2>3. QED
    BY <1>1, <1>2, <1>4, <2>1, <2>2, Popped
<1>5. CASE Top.exc = "cpp" /\ Jni("ThrowNew") /\ pending' = TRUE
  <2>1. misuse' # {} => misuse' = {"ThrowNew"} /\ crashed'
    BY <1>1, <1>2, <1>3, <1>5, NoCritical DEF Jni
  <2>2. Grows
    BY <1>1, <1>5, <2>1 DEF Grows, IInv, FlagsInv, JniDiscipline
  <2>3. QED
    BY <1>1, <1>5, <2>2, Popped
<1>6. QED
  BY <1>1, <1>4, <1>5

-------------------------------------------------------------------------------
(* The theorems.                                                           *)

\* Initially one frame of Java or of native code is on the stack, and holds nothing.
LEMMA InitIInv == Init => IInv
<1> SUFFICES ASSUME Init PROVE IInv
  OBVIOUS
<1>1. PICK base \in {"java", "code"} : stack = <<NewFrame(base)>>
  BY DEF Init
<1>2. /\ NewFrame(base) \in Frame /\ Fits(NewFrame(base), refused)
      /\ NewFrame(base).kind = base /\ ~NewFrame(base).missed
      /\ NewFrame(base).pc = "run" /\ NewFrame(base).exc = "none"
  BY NewFits
<1>3. stack \in Seq(Frame) /\ Len(stack) = 1 /\ stack[1] = NewFrame(base) /\ Top = stack[1]
  BY <1>1, <1>2 DEF Top, Last
<1>4. FlagsInv
  BY DEF Init, FlagsInv, JniDiscipline
<1>5. FramesInv
  <2>1. Len(stack) \in 1 .. MaxFrames /\ Top.kind \notin Cpp
    BY <1>2, <1>3, NativeCallAssumption
       DEF NativeCallAssumption, Cpp, Methods, Invoking, Callbacks, Steps
  <2>2. \A i \in 1 .. Len(stack) : i = 1
    BY <1>3
  <2>3. \A i \in 1 .. Len(stack) - 1 : FALSE
    BY <1>3
  <2>4. QED
    BY <1>2, <1>3, <2>1, <2>2, <2>3 DEF FramesInv
<1>6. Knows(Top, pending, crashed)
  BY <1>2, <1>3 DEF Knows, Working
<1>7. MissedInv
  <2>1. \A i \in 1 .. Len(stack) : i = 1
    BY <1>3
  <2>2. QED
    BY <1>2, <1>3, <2>1 DEF MissedInv
<1>8. QED
  BY <1>4, <1>5, <1>6, <1>7 DEF IInv

\* Every step keeps the invariant, action by action.
LEMMA NextIInv == IInv /\ [Next]_vars => IInv'
<1> SUFFICES ASSUME IInv, [Next]_vars PROVE IInv'
  OBVIOUS
<1>1. ASSUME NEW m \in Methods, CallNative(m) PROVE IInv'
  BY <1>1, CallNativeStep
<1>2. ASSUME NEW c \in Callbacks, CallStub(c) PROVE IInv'
  BY <1>2, CallStubStep
<1>3. CASE JavaCatches
  BY <1>3, JavaCatchesStep
<1>4. CASE JavaLeaves
  BY <1>4, JavaLeavesStep
<1>5. CASE CodeReturns
  BY <1>5, CodeReturnsStep
<1>6. CASE CodeCrashes
  BY <1>6, CodeCrashesStep
<1>7. CASE CopyArgs
  BY <1>7, CopyArgsStep
<1>8. CASE PinArgs
  BY <1>8, PinArgsStep
<1>9. CASE CopyPtrs
  BY <1>9, CopyPtrsStep
<1>10. CASE PutNull
  BY <1>10, PutNullStep
<1>11. CASE PutNotNull
  BY <1>11, PutNotNullStep
<1>12. CASE PutNotNullRefused
  BY <1>12, PutNotNullRefusedStep
<1>13. CASE Initialized
  BY <1>13, InitializedStep
<1>14. CASE Invoke
  BY <1>14, InvokeStep
<1>15. CASE Returned
  BY <1>15, ReturnedStep
<1>16. CASE ReturnedVi
  BY <1>16, ReturnedViStep
<1>17. CASE FinishNoAction
  BY <1>17, FinishNoActionStep
<1>range. CASE FinishOutOfRange
  BY <1>range, FinishOutOfRangeStep
<1>18. CASE FinishReplace
  BY <1>18, FinishReplaceStep
<1>19. CASE FinishDone
  BY <1>19, FinishDoneStep
<1>20. CASE SkipConversion
  BY <1>20, SkipConversionStep
<1>21. CASE ReadRegion
  BY <1>21, ReadRegionStep
<1>22. CASE CallJni
  BY <1>22, CallJniStep
<1>23. CASE CheckRange
  BY <1>23, CheckRangeStep
<1>24. CASE PinData
  BY <1>24, PinDataStep
<1>25. CASE CopyOut
  BY <1>25, CopyOutStep
<1>26. CASE StepsDone
  BY <1>26, StepsDoneStep
<1>27. CASE ChooseCallback
  BY <1>27, ChooseCallbackStep
<1>28. CASE Globalize
  BY <1>28, GlobalizeStep
<1>29. CASE FetchJvm
  BY <1>29, FetchJvmStep
<1>30. CASE PinOut
  BY <1>30, PinOutStep
<1>31. CASE NewThunk
  BY <1>31, NewThunkStep
<1>32. CASE EnterCallback
  BY <1>32, EnterCallbackStep
<1>33. CASE NotAttached
  BY <1>33, NotAttachedStep
<1>34. CASE NewArrays
  BY <1>34, NewArraysStep
<1>35. CASE PinArray
  BY <1>35, PinArrayStep
<1>36. CASE Unmarshall
  BY <1>36, UnmarshallStep
<1>37. CASE Unpin
  BY <1>37, UnpinStep
<1>38. CASE CallJava
  BY <1>38, CallJavaStep
<1>39. CASE Destroy
  BY <1>39, DestroyStep
<1>40. CASE Handler
  BY <1>40, HandlerStep
<1>41. CASE Undefined \/ UNCHANGED vars
  BY <1>41 DEF Undefined, vars, IInv, FlagsInv, JniDiscipline, FramesInv, MissedInv, Top
<1>42. QED
  BY <1>1, <1>2, <1>3, <1>4, <1>5, <1>6, <1>7, <1>8, <1>9, <1>10, <1>11, <1>12, <1>13, <1>14, <1>15, <1>16, <1>17, <1>18, <1>19, <1>20, <1>21, <1>22, <1>23, <1>24, <1>25, <1>26, <1>27, <1>28, <1>29, <1>30, <1>31, <1>32, <1>33, <1>34, <1>35, <1>36, <1>37, <1>38, <1>39, <1>40, <1>41, <1>range DEF Next

\* What the invariant says of each frame and of the flags is kept by every step
\* of the thread, at any depth.
THEOREM NativeInvariant == Spec => []IInv
  BY InitIInv, NextIInv, PTL DEF Spec

\* The frames are frames, Java or native code is at the bottom, and no position
\* outside a variable indirect array is filled (marshalling.cpp:24-68).
THEOREM NativeTyped == Spec => []TypeOK
<1>1. IInv => TypeOK
  <2> SUFFICES ASSUME IInv PROVE TypeOK
    OBVIOUS
  <2>1. \A i \in DOMAIN stack : Len(stack[i].d_arrays) <= Slots
    <3>1. DOMAIN stack = 1 .. Len(stack)
      BY LenProperties DEF IInv, FramesInv
    <3>2. QED
      BY <3>1 DEF IInv, FramesInv, Fits
  <2>2. QED
    BY <2>1 DEF TypeOK, IInv, FlagsInv, FramesInv
<1>2. QED
  BY <1>1, NativeInvariant, PTL

\* JNI functions are called with an exception pending only by the handler of a
\* method whose native code crashed (jni_exception.h:94-110).
THEOREM NativeDiscipline == Spec => []JniDiscipline
<1>1. IInv => JniDiscipline
  BY DEF IInv, FlagsInv
<1>2. QED
  BY <1>1, NativeInvariant, PTL

\* The assertion of throw_jni() never fails (jni_exception.cpp).
THEOREM NativeAssertion == Spec => []PendingAssertion
<1>1. IInv => PendingAssertion
  <2> SUFFICES ASSUME IInv, NEW i \in DOMAIN stack, stack[i].exc = "pending" PROVE pending
    BY DEF PendingAssertion
  <2>1. i \in 1 .. Len(stack) /\ Len(stack) \in Nat /\ Top = stack[Len(stack)]
    BY TopFits, LenProperties DEF IInv, FramesInv
  <2>2. CASE i = Len(stack)
    BY <2>1, <2>2 DEF IInv, Knows
  <2>3. CASE i \in 1 .. Len(stack) - 1
    BY <2>1, <2>3 DEF IInv, FramesInv, Fits, Waits, Invoking, Callbacks
  <2>4. QED
    BY <2>1, <2>2, <2>3
<1>2. QED
  BY <1>1, NativeInvariant, PTL

\* A callback that failed or was skipped is reported: the exception is pending
\* as long as the method under which it ran is on the stack.
THEOREM NativeReports == Spec => []MissedIsReported
<1>1. IInv => MissedIsReported
  <2>1. IInv => DOMAIN stack = 1 .. Len(stack)
    BY LenProperties DEF IInv, FramesInv
  <2>2. QED
    BY <2>1 DEF IInv, MissedInv, MissedIsReported
<1>2. QED
  BY <1>1, NativeInvariant, PTL

\* Whatever way a frame is left, what it does not give back was refused before.
THEOREM NativeGivesBack == Spec => []NothingLeaked
<1>1. IInv => NothingLeaked
  BY DEF IInv, FlagsInv, NothingLeaked
<1>2. QED
  BY <1>1, NativeInvariant, PTL

\* A method that waits for native code has its arguments pinned, a callback that
\* waits for Java holds no array (jsdi_callback.cpp:281-291).
THEOREM NativePins == Spec => []PinnedWhileUsed
<1>1. IInv => PinnedWhileUsed
  <2> SUFFICES ASSUME IInv, NEW i \in 1 .. Len(stack) - 1
               PROVE  stack[i].args = (IF stack[i].kind \in {"indirect", "vi"} THEN "pinned"
                                                                              ELSE "none")
    BY DEF PinnedWhileUsed
  <2>1. Len(stack) \in Nat /\ i \in 1 .. Len(stack)
    BY TopFits
  <2>2. Fits(stack[i], refused) /\ Waits(stack[i])
    BY <2>1 DEF IInv, FramesInv
  <2>3. QED
    BY <2>2 DEF Fits, Waits, Invoking, Callbacks
<1>2. QED
  BY <1>1, NativeInvariant, PTL

===============================================================================
