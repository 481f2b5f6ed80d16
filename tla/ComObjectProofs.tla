---------------------------- MODULE ComObjectProofs -----------------------------
(***************************************************************************)
(* Proofs about ComObject, for any finite sets of threads and objects, any *)
(* set of interfaces and any number of arguments: where a thread is, which *)
(* monitors it is in, and what it has in its hands at each point of a call.*)
(***************************************************************************)
EXTENDS ComObject, FiniteSetTheorems, SequenceTheorems, TLAPS

\* TypeOK but for the sign of the counts, which takes the accounting to show.
TypeInv ==
  /\ refs \in [Counted -> Int] /\ freed \subseteq Ifaces /\ lost \in [Counted -> Nat]
  /\ ptr \in [Objects -> Ifaces \cup {NoIface}] /\ unknown \subseteq Objects
  /\ released \in [Objects -> BOOLEAN]
  /\ monitor \in [Objects -> [Threads -> Int]]
  /\ pc \in [Threads -> Pcs] /\ op \in [Threads -> Ops]
  /\ recv \in [Threads -> Objects \cup {NoObject}] /\ args \in [Threads -> Seq(Values)]
  /\ var_args \in [Threads -> Seq(Counted \cup {NoIface})]
  /\ result \in [Threads -> Counted \cup {NoIface}] /\ dispatch \in [Threads -> BOOLEAN]
  /\ ops \in 0 .. MaxOps /\ damaged \in BOOLEAN

\* What t holds at each point of a call: its receiver, the arguments that are
\* left and those that are converted, and its result.
ThreadShape(t) ==
  /\ pc[t] \in {"idle", "create", "create_instance"} => recv[t] = NoObject
  /\ pc[t] \notin {"idle", "create", "create_instance", "wrap"} => recv[t] \in Objects
  /\ recv[t] \in Objects => ptr[recv[t]] \in Ifaces
  /\ pc[t] \in {"monitor", "verify", "addref"} =>
        args[t] # <<>> /\ Head(args[t]) \in Objects
  /\ pc[t] \notin {"convert", "monitor", "verify", "addref", "unwind"} =>
        var_args[t] = <<>>
  /\ Len(var_args[t]) + Len(args[t]) <= CallArgs + 1
  /\ pc[t] \notin {"result", "progid", "construct", "clear", "query_progid", "wrap"} =>
        result[t] = NoIface
  /\ pc[t] \in {"progid", "construct", "query_progid", "wrap"} => result[t] \in Ifaces

ShapeInv == \A t \in Threads : ThreadShape(t)

\* An object is released only while nobody is in it, or by the one who is, and
\* one that is not constructed is not released.
ReleasedInv ==
  /\ \A t \in Threads :
        /\ pc[t] \notin {"idle", "enter", "leave", "release"} /\ recv[t] \in Objects
              => ~released[recv[t]]
        /\ pc[t] = "release" => released[recv[t]]
  /\ \A o \in Objects : ptr[o] = NoIface => ~released[o]

\* An operation of t begins.
Begins(t) == \E o \in Objects, k \in Ops : \E vals \in ArgLists(k) : Begin(t, o, k, vals)

\* One operation of t begins, or goes on.
Step(t) == \/ InCall(t)
           \/ Create(t)
           \/ MonitorRefused(t)
           \/ Begins(t)

-------------------------------------------------------------------------------
(* The operators of the model.                                             *)

\* What is counted is a number.
LEMMA CountType ==
  ASSUME NEW S, NEW s \in Seq(S), NEW i
  PROVE  Count(s, i) \in Nat
<1>1. DOMAIN s = 1 .. Len(s) /\ Len(s) \in Nat
  BY LenProperties
<1>2. IsFiniteSet(1 .. Len(s))
  BY <1>1, FS_Interval
<1>3. IsFiniteSet({j \in DOMAIN s : s[j] = i})
  BY <1>1, <1>2, FS_Subset
<1>4. QED
  BY <1>3, FS_CardinalityType DEF Count

\* Nothing is in an empty list.
LEMMA CountEmpty == ASSUME NEW i PROVE Count(<<>>, i) = 0
<1>1. {j \in DOMAIN <<>> : <<>>[j] = i} = {}
  OBVIOUS
<1>2. QED
  BY <1>1, FS_EmptySet DEF Count

\* One variant is counted once.
LEMMA CountOne ==
  ASSUME NEW x, NEW i PROVE Count(<<x>>, i) = IF x = i THEN 1 ELSE 0
<1>1. CASE x = i
  <2>1. {j \in DOMAIN <<x>> : <<x>>[j] = i} = {1}
    BY <1>1
  <2>2. QED
    BY <1>1, <2>1, FS_Singleton DEF Count
<1>2. CASE x # i
  <2>1. {j \in DOMAIN <<x>> : <<x>>[j] = i} = {}
    BY <1>2
  <2>2. QED
    BY <1>2, <2>1, FS_EmptySet DEF Count
<1>3. QED
  BY <1>1, <1>2

\* A sequence with one more element in front.
LEMMA Prepend ==
  ASSUME NEW S, NEW s \in Seq(S), NEW x \in S
  PROVE  /\ <<x>> \o s \in Seq(S)
         /\ Len(<<x>> \o s) = Len(s) + 1
         /\ (<<x>> \o s)[1] = x
         /\ \A j \in 1 .. Len(s) : (<<x>> \o s)[j + 1] = s[j]
<1>1. <<x>> \in Seq(S) /\ Len(<<x>>) = 1 /\ <<x>>[1] = x /\ Len(s) \in Nat
  BY LenProperties
<1>2. /\ <<x>> \o s \in Seq(S)
      /\ Len(<<x>> \o s) = 1 + Len(s)
      /\ \A j \in 1 .. 1 + Len(s) :
            (<<x>> \o s)[j] = IF j <= 1 THEN <<x>>[j] ELSE s[j - 1]
  BY <1>1, ConcatProperties
<1>3. ASSUME NEW j \in 1 .. Len(s) PROVE (<<x>> \o s)[j + 1] = s[j]
  <2>1. j + 1 \in 1 .. 1 + Len(s) /\ ~ (j + 1 <= 1) /\ (j + 1) - 1 = j
    BY <1>1
  <2>2. QED
    BY <1>2, <2>1
<1>4. QED
  BY <1>1, <1>2, <1>3

\* A variant that is put in front counts for one more.
LEMMA CountPrepend ==
  ASSUME NEW S, NEW s \in Seq(S), NEW x \in S, NEW i
  PROVE  Count(<<x>> \o s, i) = Count(s, i) + (IF x = i THEN 1 ELSE 0)
<1> DEFINE new == <<x>> \o s
           A == {j \in DOMAIN s : s[j] = i}
           B == {j + 1 : j \in A}
           C == {j \in DOMAIN new : new[j] = i}
<1>1. /\ DOMAIN s = 1 .. Len(s) /\ Len(s) \in Nat
      /\ DOMAIN new = 1 .. Len(s) + 1
      /\ new[1] = x
      /\ \A j \in 1 .. Len(s) : new[j + 1] = s[j]
  BY LenProperties, Prepend
<1>2. IsFiniteSet(A) /\ A \subseteq Nat
  <2>1. IsFiniteSet(1 .. Len(s))
    BY <1>1, FS_Interval
  <2>2. QED
    BY <1>1, <2>1, FS_Subset
<1>3. IsFiniteSet(B) /\ Cardinality(B) = Cardinality(A)
  <2> DEFINE f == [j \in A |-> j + 1]
  <2>1. f \in Bijection(A, B)
    <3>1. f \in [A -> B] /\ \A a, b \in A : f[a] = f[b] => a = b
      BY <1>2
    <3>2. \A b \in B : \E a \in A : f[a] = b
      OBVIOUS
    <3>3. QED
      BY <3>1, <3>2 DEF Bijection, Injection, Surjection, IsInjective
  <2>2. ExistsBijection(A, B)
    BY <2>1 DEF ExistsBijection
  <2>3. QED
    BY <1>2, <2>2, FS_Bijection
<1>4. 1 \notin B
  BY <1>1
<1>5. C = IF x = i THEN B \cup {1} ELSE B
  <2>1. ASSUME NEW j \in C, j # 1 PROVE j \in B
    <3>1. j - 1 \in 1 .. Len(s) /\ (j - 1) + 1 = j
      BY <1>1, <2>1
    <3>2. s[j - 1] = i
      BY <1>1, <2>1, <3>1
    <3>3. j - 1 \in A
      BY <1>1, <3>1, <3>2
    <3>4. QED
      BY <3>1, <3>3
  <2>2. ASSUME NEW j \in B PROVE j \in C
    <3>1. PICK k \in A : j = k + 1
      OBVIOUS
    <3>2. k \in 1 .. Len(s) /\ s[k] = i
      BY <1>1
    <3>3. new[k + 1] = i /\ k + 1 \in 1 .. Len(s) + 1
      BY <1>1, <3>2
    <3>4. QED
      BY <1>1, <3>1, <3>3
  <2>3. 1 \in C <=> x = i
    BY <1>1
  <2>4. QED
    BY <2>1, <2>2, <2>3
<1>6. Cardinality(B) \in Nat
  BY <1>3, FS_CardinalityType
<1>7. Cardinality(B \cup {1}) = Cardinality(B) + 1
  <2> HIDE DEF B
  <2>1. QED
    BY <1>3, <1>4, <1>6, FS_AddElement
<1>8. Cardinality(C) = Cardinality(A) + (IF x = i THEN 1 ELSE 0)
  <2> HIDE DEF A, B, C
  <2>1. QED
    BY <1>3, <1>5, <1>6, <1>7
<1>9. QED
  BY <1>8 DEF Count

\* The tuples of a length are sequences of it.
LEMMA TupleType ==
  ASSUME NEW S, NEW n \in Nat, NEW s \in TupleOf(S, n)
  PROVE  s \in Seq(S) /\ Len(s) = n
BY DEF TupleOf

\* The arguments that an operation may get.
LEMMA ArgListsType ==
  ASSUME NEW k \in Ops, NEW vals \in ArgLists(k)
  PROVE  vals \in Seq(Values) /\ Len(vals) <= CallArgs + 1
<1>0. CallArgs \in Nat
  BY ComAssumption
<1>1. CASE k = "call"
  <2>1. vals \in TupleOf(Values, CallArgs)
    BY <1>1 DEF ArgLists
  <2>2. vals \in Seq(Values) /\ Len(vals) = CallArgs
    BY <1>0, <2>1, TupleType
  <2>3. ASSUME NEW n, n = CallArgs PROVE n <= CallArgs + 1
    BY <1>0, <2>3
  <2>4. QED
    BY <2>2, <2>3
<1>2. CASE k = "put"
  <2>1. PICK v \in Values : vals = <<v>>
    BY <1>2 DEF ArgLists
  <2>2. QED
    BY <1>0, <2>1
<1>3. CASE k # "call" /\ k # "put"
  <2>1. vals = <<>>
    BY <1>3 DEF ArgLists
  <2>2. QED
    BY <1>0, <2>1, EmptySeq
<1>4. QED
  BY <1>1, <1>2, <1>3

-------------------------------------------------------------------------------
(* Types.                                                                  *)

Variant == Counted \cup {NoIface}

\* References are still integers after AddRef() and Release().
LEMMA CountsTyped ==
  ASSUME TypeInv, NEW add \in Seq(Variant), NEW drop \in Seq(Variant),
         AddAndRelease(add, drop)
  PROVE  refs' \in [Counted -> Int] /\ freed' \subseteq Ifaces
<1>1. \A i : Count(add, i) \in Nat /\ Count(drop, i) \in Nat
  BY CountType
<1>2. refs' \in [Counted -> Int]
  BY <1>1 DEF TypeInv, AddAndRelease
<1>3. QED
  BY <1>2 DEF TypeInv, AddAndRelease

\* What is lost is a number.
LEMMA LostTyped ==
  ASSUME TypeInv, NEW s \in Seq(Variant), Lose(s)
  PROVE  lost' \in [Counted -> Nat]
<1>1. \A i : Count(s, i) \in Nat
  BY CountType
<1>2. QED
  BY <1>1 DEF TypeInv, Lose

\* Conversion keeps the types.
LEMMA ConvertedTyped ==
  ASSUME TypeInv, NEW t \in Threads, NEW i \in Variant, args[t] # <<>>, Converted(t, i)
  PROVE  /\ var_args' \in [Threads -> Seq(Variant)]
         /\ args' \in [Threads -> Seq(Values)]
<1>1. <<i>> \o var_args[t] \in Seq(Variant)
  BY Prepend DEF TypeInv, Variant
<1>2. Tail(args[t]) \in Seq(Values)
  BY HeadTailProperties DEF TypeInv
<1>3. QED
  BY <1>1, <1>2 DEF TypeInv, Converted, Variant

\* The lists that steps write out.
LEMMA ShortSeqs ==
  /\ <<>> \in Seq(Variant)
  /\ \A i \in Variant : <<i>> \in Seq(Variant)
OBVIOUS

\* The types hold initially.
LEMMA TypeInit == ASSUME Init PROVE TypeInv
<1>1. \A i \in Counted : Cardinality({o \in Objects : Existing[o] = i}) \in Nat
  <2>1. \A i : IsFiniteSet({o \in Objects : Existing[o] = i})
    BY ComAssumption, FS_Subset
  <2>2. QED
    BY <2>1, FS_CardinalityType
<1>2. <<>> \in Seq(Values) /\ <<>> \in Seq(Counted \cup {NoIface})
  OBVIOUS
<1>3. refs \in [Counted -> Int] /\ lost \in [Counted -> Nat]
  BY <1>1 DEF Init
<1>4. pc \in [Threads -> Pcs] /\ op \in [Threads -> Ops] /\ ops \in 0 .. MaxOps
  BY ComAssumption DEF Init, Pcs, Ops, Methods
<1>5. monitor \in [Objects -> [Threads -> Int]]
  BY DEF Init
<1>6. QED
  BY <1>2, <1>3, <1>4, <1>5, ComAssumption DEF Init, TypeInv

\* Each step of each thread keeps the types.
LEMMA TypeStep ==
  ASSUME TypeInv, ShapeInv, NEW t \in Threads, Step(t)
  PROVE  TypeInv'
<1> USE DEF At, Go, heap, java, call, out
<1>shape. /\ recv[t] \in Objects => ptr[recv[t]] \in Variant
          /\ pc[t] \notin {"idle", "create", "create_instance", "wrap"} => recv[t] \in Objects
          /\ pc[t] \in {"monitor", "verify", "addref"} => Head(args[t]) \in Objects
          /\ pc[t] \in {"progid", "construct", "query_progid", "wrap"} => result[t] \in Ifaces
          /\ result[t] \in Variant /\ var_args[t] \in Seq(Variant)
          /\ Bstr \in Variant /\ NoIface \in Variant /\ Ifaces \subseteq Variant
  BY DEF TypeInv, ShapeInv, ThreadShape, Counted, Variant
<1>facts. /\ Variant = Counted \cup {NoIface} /\ <<>> \in Seq(Values) /\ <<>> \in Seq(Variant)
  BY DEF Variant
<1>1. CASE EnterReceiver(t)
  <2>1. recv[t] \in Objects
    BY <1>shape, <1>1 DEF EnterReceiver
  <2>2. monitor' \in [Objects -> [Threads -> Int]] /\ released' \in [Objects -> BOOLEAN]
    BY <1>1, <2>1 DEF TypeInv, EnterReceiver, Enter
  <2>3. pc' \in [Threads -> Pcs]
    <3>1. op[t] \in Methods \/ op[t] \in {"query", "release"}
      BY DEF TypeInv, Ops
    <3>2. \E p \in {"leave", "native", "convert", "query", "release"} :
             pc' = [pc EXCEPT ![t] = p]
      BY <1>1, <3>1 DEF EnterReceiver
    <3>3. QED
      BY <3>2 DEF TypeInv, Pcs
  <2>4. QED
    BY <1>1, <2>2, <2>3 DEF TypeInv, EnterReceiver
<1>2. CASE Leave(t)
  BY <1>shape, <1>facts, <1>2 DEF TypeInv, Leave, Pcs, Exit, Ops, Methods
<1>3. CASE NativeRelease(t)
  <2>1. refs' \in [Counted -> Int] /\ freed' \subseteq Ifaces
    BY <1>shape, <1>3, CountsTyped, ShortSeqs DEF TypeInv, NativeRelease, AddRef, Release
  <2>4. QED
    BY <1>shape, <1>facts, <1>3, <2>1 DEF TypeInv, NativeRelease, Pcs
<1>4. CASE CreateFromProgid(t)
  <2>1. refs' \in [Counted -> Int] /\ freed' \subseteq Ifaces
    BY <1>shape, <1>4, CountsTyped, ShortSeqs DEF TypeInv, CreateFromProgid, AddRef, Release
  <2>4. QED
    BY <1>shape, <1>facts, <1>4, <2>1 DEF TypeInv, CreateFromProgid, Pcs
<1>5. CASE CoCreateInstance(t)
  <2>1. refs' \in [Counted -> Int] /\ freed' \subseteq Ifaces
    BY <1>shape, <1>5, CountsTyped, ShortSeqs DEF TypeInv, CoCreateInstance, AddRef, Release
  <2>4. QED
    <3>1. /\ pc' \in [Threads -> Pcs] /\ result' \in [Threads -> Variant]
          /\ dispatch' \in [Threads -> BOOLEAN]
      <4>1. CASE Go(t, "idle") /\ UNCHANGED out
        BY <1>facts, <4>1 DEF TypeInv, Pcs
      <4>2. ASSUME NEW i \in Ifaces, NEW d \in BOOLEAN, Go(t, "wrap"),
                   result' = [result EXCEPT ![t] = i],
                   dispatch' = [dispatch EXCEPT ![t] = d]
            PROVE  /\ pc' \in [Threads -> Pcs] /\ result' \in [Threads -> Variant]
                   /\ dispatch' \in [Threads -> BOOLEAN]
        BY <1>shape, <1>facts, <4>2 DEF TypeInv, Pcs
      <4>3. QED
        BY <1>5, <4>1, <4>2 DEF CoCreateInstance
    <3>2. QED
      BY <1>facts, <1>5, <2>1, <3>1 DEF TypeInv, CoCreateInstance
<1>6. CASE Wrap(t)
  <2>1. refs' \in [Counted -> Int] /\ freed' \subseteq Ifaces
    BY <1>shape, <1>6, CountsTyped, ShortSeqs DEF TypeInv, Wrap, AddRef, Release
  <2>4. QED
    <3>1. pc' \in [Threads -> Pcs]
      BY <1>6 DEF TypeInv, Wrap, Pcs, Back
    <3>2. ptr' \in [Objects -> Ifaces \cup {NoIface}] /\ unknown' \subseteq Objects
      BY <1>shape, <1>6 DEF TypeInv, Wrap
    <3>3. result' \in [Threads -> Variant] /\ dispatch' \in [Threads -> BOOLEAN]
      BY <1>shape, <1>facts, <1>6 DEF TypeInv, Wrap
    <3>4. UNCHANGED <<lost, released, monitor, call, var_args, ops, damaged>>
      BY <1>6 DEF Wrap
    <3>5. QED
      BY <1>facts, <2>1, <3>1, <3>2, <3>3, <3>4 DEF TypeInv
<1>7. CASE QueryForDispatch(t)
  <2>1. refs' \in [Counted -> Int] /\ freed' \subseteq Ifaces
    BY <1>shape, <1>7, CountsTyped, ShortSeqs DEF TypeInv, QueryForDispatch, AddRef, Release
  <2>4. QED
    BY <1>shape, <1>facts, <1>7, <2>1 DEF TypeInv, QueryForDispatch, Pcs
<1>8. CASE QueryProgid(t)
  <2>2. lost' \in [Counted -> Nat]
    BY <1>shape, <1>8, LostTyped, ShortSeqs DEF TypeInv, QueryProgid
  <2>4. QED
    BY <1>shape, <1>facts, <1>8, <2>2 DEF TypeInv, QueryProgid, Pcs, Back
<1>9. CASE NameToBstr(t)
  <2>1. refs' \in [Counted -> Int] /\ freed' \subseteq Ifaces
    BY <1>shape, <1>9, CountsTyped, ShortSeqs DEF TypeInv, NameToBstr, AddRef, Release
  <2>4. QED
    BY <1>shape, <1>facts, <1>9, <2>1 DEF TypeInv, NameToBstr, Pcs
<1>10. CASE GetDispid(t)
  <2>1. refs' \in [Counted -> Int] /\ freed' \subseteq Ifaces
    BY <1>shape, <1>10, CountsTyped, ShortSeqs DEF TypeInv, GetDispid, AddRef, Release
  <2>4. QED
    BY <1>shape, <1>facts, <1>10, <2>1 DEF TypeInv, GetDispid, Pcs
<1>11. CASE CheckDispid(t)
  BY <1>shape, <1>facts, <1>11 DEF TypeInv, CheckDispid, Pcs
<1>12. CASE ConvertPlain(t)
  <2>3. var_args' \in [Threads -> Seq(Variant)] /\ args' \in [Threads -> Seq(Values)]
    BY <1>shape, <1>facts, <1>12, ConvertedTyped DEF TypeInv, ConvertPlain, Converting
  <2>4. QED
    BY <1>shape, <1>facts, <1>12, <2>3 DEF TypeInv, ConvertPlain, Pcs
<1>13. CASE ConvertText(t)
  <2>1. refs' \in [Counted -> Int] /\ freed' \subseteq Ifaces
    BY <1>shape, <1>13, CountsTyped, ShortSeqs DEF TypeInv, ConvertText, AddRef, Release
  <2>3. var_args' \in [Threads -> Seq(Variant)] /\ args' \in [Threads -> Seq(Values)]
    BY <1>shape, <1>facts, <1>13, ConvertedTyped DEF TypeInv, ConvertText, Converting
  <2>4. QED
    BY <1>shape, <1>facts, <1>13, <2>1, <2>3 DEF TypeInv, ConvertText, Pcs, Converting,
       Converted
<1>14. CASE ConvertBad(t)
  BY <1>shape, <1>facts, <1>14 DEF TypeInv, ConvertBad, Pcs, Converting
<1>15. CASE EnterArgument(t)
  BY <1>shape, <1>facts, <1>15 DEF TypeInv, EnterArgument, Pcs, Enter, Converting
<1>16. CASE ExitArgument(t)
  BY <1>shape, <1>facts, <1>16 DEF TypeInv, ExitArgument, Pcs, Exit
<1>17. CASE VerifyArgument(t)
  BY <1>shape, <1>facts, <1>17 DEF TypeInv, VerifyArgument, Pcs
<1>18. CASE AddRefArgument(t)
  <2>1. refs' \in [Counted -> Int] /\ freed' \subseteq Ifaces
    BY <1>shape, <1>18, CountsTyped, ShortSeqs DEF TypeInv, AddRefArgument, AddRef, Release
  <2>2. lost' \in [Counted -> Nat]
    <3>1. Head(args[t]) \in Objects
      BY <1>shape, <1>18 DEF AddRefArgument, ShapeInv, ThreadShape
    <3>2. ptr[Head(args[t])] \in Variant
      BY <1>facts, <3>1 DEF TypeInv, Counted
    <3>3. QED
      BY <1>shape, <1>18, <3>2, LostTyped, ShortSeqs DEF TypeInv, AddRefArgument
  <2>3. var_args' \in [Threads -> Seq(Variant)] /\ args' \in [Threads -> Seq(Values)]
    <3>1. Head(args[t]) \in Objects /\ args[t] # <<>>
      BY <1>shape, <1>18 DEF AddRefArgument, ShapeInv, ThreadShape
    <3>2. ptr[Head(args[t])] \in Variant
      BY <1>facts, <3>1 DEF TypeInv, Counted
    <3>3. QED
      BY <1>facts, <1>18, <3>1, <3>2, ConvertedTyped DEF TypeInv, AddRefArgument
  <2>4. QED
    BY <1>shape, <1>facts, <1>18, <2>1, <2>2, <2>3 DEF TypeInv, AddRefArgument, Pcs
<1>19. CASE Unwind(t)
  <2>1. refs' \in [Counted -> Int] /\ freed' \subseteq Ifaces
    BY <1>shape, <1>19, CountsTyped, ShortSeqs DEF TypeInv, Unwind, AddRef, Release
  <2>4. QED
    BY <1>shape, <1>facts, <1>19, <2>1 DEF TypeInv, Unwind, Pcs
<1>20. CASE Invoke(t)
  <2>1. refs' \in [Counted -> Int] /\ freed' \subseteq Ifaces
    BY <1>shape, <1>20, CountsTyped, ShortSeqs DEF TypeInv, Invoke, AddRef, Release, Results
  <2>2. lost' \in [Counted -> Nat]
    BY <1>shape, <1>20, LostTyped, ShortSeqs DEF TypeInv, Invoke
  <2>4. QED
    <3>1. pc' \in [Threads -> Pcs]
      BY <1>20 DEF TypeInv, Invoke, Pcs
    <3>2. result' \in [Threads -> Variant] /\ dispatch' \in [Threads -> BOOLEAN]
      <4>1. CASE UNCHANGED out
        BY <1>facts, <4>1 DEF TypeInv
      <4>2. Results(t) \subseteq Variant
        BY <1>shape, <1>20 DEF Invoke, Results
      <4>3. ASSUME NEW r \in Results(t), NEW d \in BOOLEAN,
                   result' = [result EXCEPT ![t] = r],
                   dispatch' = [dispatch EXCEPT ![t] = d]
            PROVE  /\ result' \in [Threads -> Variant]
                   /\ dispatch' \in [Threads -> BOOLEAN]
        BY <1>facts, <4>2, <4>3 DEF TypeInv
      <4>4. QED
        BY <1>20, <4>1, <4>3 DEF Invoke
    <3>3. var_args' \in [Threads -> Seq(Variant)]
      BY <1>facts, <1>20 DEF TypeInv, Invoke
    <3>4. UNCHANGED <<java, monitor, call, ops, damaged>>
      BY <1>20 DEF Invoke
    <3>5. QED
      BY <1>facts, <2>1, <2>2, <3>1, <3>2, <3>3, <3>4 DEF TypeInv
<1>21. CASE AppendExcepinfo(t)
  <2>1. refs' \in [Counted -> Int] /\ freed' \subseteq Ifaces
    BY <1>shape, <1>21, CountsTyped, ShortSeqs DEF TypeInv, AppendExcepinfo, AddRef, Release
  <2>2. lost' \in [Counted -> Nat]
    BY <1>shape, <1>21, LostTyped, ShortSeqs DEF TypeInv, AppendExcepinfo
  <2>4. QED
    BY <1>shape, <1>facts, <1>21, <2>1, <2>2 DEF TypeInv, AppendExcepinfo, Pcs
<1>22. CASE ConvertResult(t)
  BY <1>shape, <1>facts, <1>22 DEF TypeInv, ConvertResult, Pcs, Converting
<1>23. CASE AddRefResult(t)
  <2>1. refs' \in [Counted -> Int] /\ freed' \subseteq Ifaces
    BY <1>shape, <1>23, CountsTyped, ShortSeqs DEF TypeInv, AddRefResult, AddRef, Release
  <2>4. QED
    BY <1>shape, <1>facts, <1>23, <2>1 DEF TypeInv, AddRefResult, Pcs
<1>24. CASE GetProgid(t)
  <2>1. refs' \in [Counted -> Int] /\ freed' \subseteq Ifaces
    BY <1>shape, <1>24, CountsTyped, ShortSeqs DEF TypeInv, GetProgid, AddRef, Release
  <2>4. QED
    BY <1>shape, <1>facts, <1>24, <2>1 DEF TypeInv, GetProgid, Pcs
<1>25. CASE Construct(t)
  <2>1. refs' \in [Counted -> Int] /\ freed' \subseteq Ifaces
    BY <1>shape, <1>25, CountsTyped, ShortSeqs DEF TypeInv, Construct, AddRef, Release
  <2>4. QED
    <3>1. pc' \in [Threads -> Pcs]
      BY <1>25 DEF TypeInv, Construct, Pcs
    <3>2. ptr' \in [Objects -> Ifaces \cup {NoIface}] /\ unknown' \subseteq Objects
      BY <1>shape, <1>25 DEF TypeInv, Construct
    <3>3. result' \in [Threads -> Variant] /\ dispatch' \in [Threads -> BOOLEAN]
      BY <1>shape, <1>facts, <1>25 DEF TypeInv, Construct
    <3>4. UNCHANGED <<lost, released, monitor, call, var_args, ops, damaged>>
      BY <1>25 DEF Construct
    <3>5. QED
      BY <1>facts, <2>1, <3>1, <3>2, <3>3, <3>4 DEF TypeInv
<1>26. CASE ClearResult(t)
  <2>1. refs' \in [Counted -> Int] /\ freed' \subseteq Ifaces
    BY <1>shape, <1>26, CountsTyped, ShortSeqs DEF TypeInv, ClearResult, AddRef, Release
  <2>4. QED
    BY <1>shape, <1>facts, <1>26, <2>1 DEF TypeInv, ClearResult, Pcs
<1>27. CASE Create(t)
  BY <1>shape, <1>facts, <1>27, ComAssumption DEF TypeInv, Create, Pcs
<1>refused. CASE MonitorRefused(t)
  BY <1>shape, <1>facts, <1>refused DEF TypeInv, MonitorRefused, Pcs, Converting
<1>28. CASE Begins(t)
  BY <1>shape, <1>facts, <1>28, ArgListsType, ComAssumption DEF TypeInv, Begins, Begin,
     Pcs, Ops, Methods
<1>29. QED
  BY <1>1, <1>2, <1>3, <1>4, <1>5, <1>6, <1>7, <1>8, <1>9, <1>10, <1>11, <1>12, <1>13,
     <1>14, <1>15, <1>16, <1>17, <1>18, <1>19, <1>20, <1>21, <1>22, <1>23, <1>24, <1>25,
     <1>26, <1>27, <1>28, <1>refused DEF Step, InCall, Creating, LookingUp

-------------------------------------------------------------------------------
(* Where a thread is, and what it holds.                                   *)

\* A step of t leaves the other threads alone, and the objects that exist.
Local(t) ==
  /\ \A u \in Threads \ {t} :
        /\ pc'[u] = pc[u] /\ recv'[u] = recv[u] /\ args'[u] = args[u]
        /\ var_args'[u] = var_args[u] /\ result'[u] = result[u]
        /\ \A o \in Objects : monitor'[o][u] = monitor[o][u]
  /\ \A o \in Objects : ptr[o] # NoIface => ptr'[o] = ptr[o]

\* A step of t changes nothing of the other threads' own.
LEMMA LocalStep ==
  ASSUME TypeInv, NEW t \in Threads, Step(t)
  PROVE  Local(t)
<1> USE DEF Local, At, Go, heap, java, call, out
<1>1. CASE EnterReceiver(t)
  BY <1>1 DEF TypeInv, EnterReceiver, Enter
<1>2. CASE Leave(t)
  BY <1>2 DEF TypeInv, Leave, Exit
<1>3. CASE NativeRelease(t)
  BY <1>3 DEF TypeInv, NativeRelease
<1>4. CASE CreateFromProgid(t)
  BY <1>4 DEF TypeInv, CreateFromProgid
<1>5. CASE CoCreateInstance(t)
  BY <1>5 DEF TypeInv, CoCreateInstance
<1>6. CASE Wrap(t)
  BY <1>6 DEF TypeInv, Wrap, Back
<1>7. CASE QueryForDispatch(t)
  BY <1>7 DEF TypeInv, QueryForDispatch
<1>8. CASE QueryProgid(t)
  BY <1>8 DEF TypeInv, QueryProgid, Back
<1>9. CASE NameToBstr(t)
  BY <1>9 DEF TypeInv, NameToBstr
<1>10. CASE GetDispid(t)
  BY <1>10 DEF TypeInv, GetDispid
<1>11. CASE CheckDispid(t)
  BY <1>11 DEF TypeInv, CheckDispid
<1>12. CASE ConvertPlain(t)
  BY <1>12 DEF TypeInv, ConvertPlain, Converted, Converting
<1>13. CASE ConvertText(t)
  BY <1>13 DEF TypeInv, ConvertText, Converted, Converting
<1>14. CASE ConvertBad(t)
  BY <1>14 DEF TypeInv, ConvertBad, Converting
<1>15. CASE EnterArgument(t)
  BY <1>15 DEF TypeInv, EnterArgument, Enter, Converting
<1>16. CASE ExitArgument(t)
  BY <1>16 DEF TypeInv, ExitArgument, Exit
<1>17. CASE VerifyArgument(t)
  BY <1>17 DEF TypeInv, VerifyArgument
<1>18. CASE AddRefArgument(t)
  BY <1>18 DEF TypeInv, AddRefArgument, Converted
<1>19. CASE Unwind(t)
  BY <1>19 DEF TypeInv, Unwind
<1>20. CASE Invoke(t)
  BY <1>20 DEF TypeInv, Invoke
<1>21. CASE AppendExcepinfo(t)
  BY <1>21 DEF TypeInv, AppendExcepinfo
<1>22. CASE ConvertResult(t)
  BY <1>22 DEF TypeInv, ConvertResult
<1>23. CASE AddRefResult(t)
  BY <1>23 DEF TypeInv, AddRefResult
<1>24. CASE GetProgid(t)
  BY <1>24 DEF TypeInv, GetProgid
<1>25. CASE Construct(t)
  BY <1>25 DEF TypeInv, Construct
<1>26. CASE ClearResult(t)
  BY <1>26 DEF TypeInv, ClearResult
<1>27. CASE Create(t)
  BY <1>27 DEF TypeInv, Create
<1>refused. CASE MonitorRefused(t)
  BY <1>refused DEF TypeInv, MonitorRefused, Converting
<1>28. CASE Begins(t)
  BY <1>28 DEF TypeInv, Begins, Begin
<1>29. QED
  BY <1>1, <1>2, <1>3, <1>4, <1>5, <1>6, <1>7, <1>8, <1>9, <1>10, <1>11, <1>12, <1>13,
     <1>14, <1>15, <1>16, <1>17, <1>18, <1>19, <1>20, <1>21, <1>22, <1>23, <1>24, <1>25,
     <1>26, <1>27, <1>28, <1>refused DEF Step, InCall, Creating, LookingUp

\* A conversion moves one argument.
LEMMA ConvertedLength ==
  ASSUME TypeInv, NEW t \in Threads, NEW i \in Variant, args[t] # <<>>, Converted(t, i)
  PROVE  Len(var_args'[t]) + Len(args'[t]) = Len(var_args[t]) + Len(args[t])
<1>1. var_args'[t] = <<i>> \o var_args[t] /\ args'[t] = Tail(args[t])
  BY DEF TypeInv, Converted
<1>2. /\ var_args[t] \in Seq(Variant) /\ args[t] \in Seq(Values)
      /\ Len(var_args[t]) \in Nat /\ Len(args[t]) \in Nat
  BY LenProperties DEF TypeInv, Variant
<1>3. Len(<<i>> \o var_args[t]) = Len(var_args[t]) + 1
  BY <1>2, Prepend
<1>4. Len(Tail(args[t])) = Len(args[t]) - 1
  BY <1>2, HeadTailProperties
<1>5. Len(var_args'[t]) = Len(var_args[t]) + 1 /\ Len(args'[t]) = Len(args[t]) - 1
  BY <1>1, <1>3, <1>4
<1>6. Len(var_args'[t]) + Len(args'[t]) = (Len(var_args[t]) + 1) + (Len(args[t]) - 1)
  BY <1>5, Zenon
<1>7. \A c, d \in Nat : (c + 1) + (d - 1) = c + d
  OBVIOUS
<1>8. (Len(var_args[t]) + 1) + (Len(args[t]) - 1) = Len(var_args[t]) + Len(args[t])
  BY <1>2, <1>7, Zenon
<1>9. QED
  BY <1>6, <1>8, Zenon

\* What the other threads have at their positions stays.
LEMMA ShapeOfOthers ==
  ASSUME TypeInv, ShapeInv, NEW t \in Threads, NEW u \in Threads \ {t}, Local(t)
  PROVE  ThreadShape(u)'
<1>1. ThreadShape(u)
  BY DEF ShapeInv
<1>2. recv[u] \in Objects => ptr'[recv[u]] = ptr[recv[u]]
  BY <1>1, ComAssumption DEF ThreadShape, Local
<1>3. QED
  BY <1>1, <1>2 DEF ThreadShape, Local

\* No thread has anything initially.
LEMMA ShapeInit == ASSUME Init PROVE ShapeInv
<1>1. Len(<<>>) = 0 /\ CallArgs \in Nat
  BY ComAssumption
<1>2. QED
  BY <1>1, ComAssumption DEF Init, ShapeInv, ThreadShape

\* Each step leaves its thread with what its new position wants.
LEMMA ShapeStep ==
  ASSUME TypeInv, ShapeInv, NEW t \in Threads, Step(t)
  PROVE  ShapeInv'
<1> USE DEF ThreadShape, At, Go, heap, java, call, out
<1>shape. /\ ThreadShape(t)
          /\ Local(t)
          /\ recv[t] \in Objects => ptr'[recv[t]] = ptr[recv[t]]
  BY LocalStep, ComAssumption DEF ShapeInv, Local
<1>facts. /\ Len(<<>>) = 0 /\ CallArgs \in Nat
          /\ Len(args[t]) \in Nat /\ Len(var_args[t]) \in Nat
          /\ Bstr \in Variant /\ NoIface \in Variant /\ Ifaces \subseteq Variant
          /\ NoObject \notin Objects
  BY ComAssumption, LenProperties DEF TypeInv, Variant, Counted
<1>1. ASSUME EnterReceiver(t) PROVE ThreadShape(t)'
  BY <1>shape, <1>facts, <1>1 DEF TypeInv, EnterReceiver, Enter, Ops, Methods
<1>2. ASSUME Leave(t) PROVE ThreadShape(t)'
  BY <1>shape, <1>facts, <1>2 DEF TypeInv, Leave, Exit
<1>3. ASSUME NativeRelease(t) PROVE ThreadShape(t)'
  BY <1>shape, <1>facts, <1>3 DEF TypeInv, NativeRelease
<1>4. ASSUME CreateFromProgid(t) PROVE ThreadShape(t)'
  BY <1>shape, <1>facts, <1>4 DEF TypeInv, CreateFromProgid
<1>5. ASSUME CoCreateInstance(t) PROVE ThreadShape(t)'
  BY <1>shape, <1>facts, <1>5 DEF TypeInv, CoCreateInstance
<1>6. ASSUME Wrap(t) PROVE ThreadShape(t)'
  BY <1>shape, <1>facts, <1>6 DEF TypeInv, Wrap, Back
<1>7. ASSUME QueryForDispatch(t) PROVE ThreadShape(t)'
  BY <1>shape, <1>facts, <1>7 DEF TypeInv, QueryForDispatch
<1>8. ASSUME QueryProgid(t) PROVE ThreadShape(t)'
  BY <1>shape, <1>facts, <1>8 DEF TypeInv, QueryProgid, Back
<1>9. ASSUME NameToBstr(t) PROVE ThreadShape(t)'
  BY <1>shape, <1>facts, <1>9 DEF TypeInv, NameToBstr
<1>10. ASSUME GetDispid(t) PROVE ThreadShape(t)'
  BY <1>shape, <1>facts, <1>10 DEF TypeInv, GetDispid
<1>11. ASSUME CheckDispid(t) PROVE ThreadShape(t)'
  BY <1>shape, <1>facts, <1>11 DEF TypeInv, CheckDispid
<1>12. ASSUME ConvertPlain(t) PROVE ThreadShape(t)'
  <2>1. Len(var_args'[t]) + Len(args'[t]) = Len(var_args[t]) + Len(args[t])
    BY <1>facts, <1>12, ConvertedLength DEF ConvertPlain, Converting
  <2>2. QED
    BY <1>shape, <1>12, <2>1 DEF TypeInv, ConvertPlain, Converting, Converted
<1>13. ASSUME ConvertText(t) PROVE ThreadShape(t)'
  <2>1. CASE Converted(t, Bstr) /\ UNCHANGED pc
    <3>1. Len(var_args'[t]) + Len(args'[t]) = Len(var_args[t]) + Len(args[t])
      BY <1>facts, <1>13, <2>1, ConvertedLength DEF ConvertText, Converting
    <3>2. QED
      BY <1>shape, <1>13, <2>1, <3>1 DEF TypeInv, ConvertText, Converting, Converted
  <2>2. CASE Go(t, "unwind") /\ UNCHANGED <<args, var_args>>
    BY <1>shape, <1>13, <2>2 DEF TypeInv, ConvertText, Converting
  <2>3. QED
    BY <1>13, <2>1, <2>2 DEF ConvertText
<1>14. ASSUME ConvertBad(t) PROVE ThreadShape(t)'
  BY <1>shape, <1>facts, <1>14 DEF TypeInv, ConvertBad, Converting
<1>15. ASSUME EnterArgument(t) PROVE ThreadShape(t)'
  BY <1>shape, <1>facts, <1>15 DEF TypeInv, EnterArgument, Enter, Converting
<1>16. ASSUME ExitArgument(t) PROVE ThreadShape(t)'
  BY <1>shape, <1>facts, <1>16 DEF TypeInv, ExitArgument, Exit
<1>17. ASSUME VerifyArgument(t) PROVE ThreadShape(t)'
  BY <1>shape, <1>facts, <1>17 DEF TypeInv, VerifyArgument
<1>18. ASSUME AddRefArgument(t) PROVE ThreadShape(t)'
  <2>1. ptr[Head(args[t])] \in Variant
    BY <1>shape, <1>18 DEF AddRefArgument, TypeInv, Variant, Counted
  <2>2. CASE UNCHANGED <<pc, args, var_args>>
    BY <1>shape, <1>18, <2>2 DEF AddRefArgument
  <2>3. CASE Converted(t, ptr[Head(args[t])]) /\ Go(t, "convert")
    <3>1. Len(var_args'[t]) + Len(args'[t]) = Len(var_args[t]) + Len(args[t])
      BY <1>shape, <1>18, <2>1, <2>3, ConvertedLength DEF AddRefArgument
    <3>2. QED
      BY <1>shape, <1>18, <2>3, <3>1 DEF TypeInv, AddRefArgument, Converted
  <2>4. CASE Go(t, "unwind") /\ UNCHANGED <<args, var_args>>
    BY <1>shape, <1>18, <2>4 DEF TypeInv, AddRefArgument
  <2>5. QED
    BY <1>18, <2>2, <2>3, <2>4 DEF AddRefArgument
<1>19. ASSUME Unwind(t) PROVE ThreadShape(t)'
  BY <1>shape, <1>facts, <1>19 DEF TypeInv, Unwind
<1>20. ASSUME Invoke(t) PROVE ThreadShape(t)'
  <2>1. /\ pc'[t] \in {"result", "leave", "excepinfo"}
        /\ pc'[t] # "result" => result'[t] = result[t]
    BY <1>20 DEF TypeInv, Invoke
  <2>2. var_args'[t] = <<>> /\ args'[t] = args[t] /\ recv'[t] = recv[t] /\ pc[t] = "convert"
    BY <1>20 DEF TypeInv, Invoke
  <2>3. args[t] = <<>>
    BY <1>20 DEF Invoke
  <2>4. QED
    BY <1>shape, <1>facts, <2>1, <2>2, <2>3
<1>21. ASSUME AppendExcepinfo(t) PROVE ThreadShape(t)'
  BY <1>shape, <1>facts, <1>21 DEF TypeInv, AppendExcepinfo
<1>22. ASSUME ConvertResult(t) PROVE ThreadShape(t)'
  BY <1>shape, <1>facts, <1>22 DEF TypeInv, ConvertResult
<1>23. ASSUME AddRefResult(t) PROVE ThreadShape(t)'
  BY <1>shape, <1>facts, <1>23 DEF TypeInv, AddRefResult
<1>24. ASSUME GetProgid(t) PROVE ThreadShape(t)'
  BY <1>shape, <1>facts, <1>24 DEF TypeInv, GetProgid
<1>25. ASSUME Construct(t) PROVE ThreadShape(t)'
  BY <1>shape, <1>facts, <1>25 DEF TypeInv, Construct
<1>26. ASSUME ClearResult(t) PROVE ThreadShape(t)'
  BY <1>shape, <1>facts, <1>26 DEF TypeInv, ClearResult
<1>27. ASSUME Create(t) PROVE ThreadShape(t)'
  BY <1>shape, <1>facts, <1>27 DEF TypeInv, Create
<1>refused. ASSUME MonitorRefused(t) PROVE ThreadShape(t)'
  BY <1>shape, <1>facts, <1>refused DEF TypeInv, MonitorRefused, Converting
<1>28. ASSUME Begins(t) PROVE ThreadShape(t)'
  BY <1>shape, <1>facts, <1>28, ArgListsType, ComAssumption DEF TypeInv, Begins, Begin
<1>29. ThreadShape(t)'
  BY <1>1, <1>2, <1>3, <1>4, <1>5, <1>6, <1>7, <1>8, <1>9, <1>10, <1>11, <1>12, <1>13,
     <1>14, <1>15, <1>16, <1>17, <1>18, <1>19, <1>20, <1>21, <1>22, <1>23, <1>24, <1>25,
     <1>26, <1>27, <1>28, <1>refused DEF Step, InCall, Creating, LookingUp
<1>30. QED
  BY <1>shape, <1>29, ShapeOfOthers DEF ShapeInv

-------------------------------------------------------------------------------
(* Monitors.                                                               *)

\* Nobody is in a monitor initially.
LEMMA MonitorsInit == ASSUME Init PROVE MonitorsMatch
BY ComAssumption DEF Init, MonitorsMatch

\* Each step enters and leaves the monitors as its positions say.
LEMMA MonitorsStep ==
  ASSUME TypeInv, ShapeInv, MonitorsMatch, NEW t \in Threads, Step(t)
  PROVE  MonitorsMatch'
<1> USE DEF At, Go, heap, java, call, out
<1> DEFINE Here(o) == monitor[o][t] = (IF pc[t] \notin {"idle", "enter"} /\ recv[t] = o THEN 1 ELSE 0)
                                      + (IF pc[t] = "monitor" /\ Head(args[t]) = o THEN 1 ELSE 0)
           In == \A o \in Objects : Here(o)
<1>shape. ThreadShape(t) /\ In /\ Local(t)
  BY LocalStep DEF ShapeInv, MonitorsMatch
<1>facts. NoObject \notin Objects /\ \A o \in Objects : monitor[o][t] \in Int
  BY ComAssumption DEF TypeInv
<1>1. ASSUME EnterReceiver(t) PROVE In'
  BY <1>shape, <1>facts, <1>1 DEF TypeInv, ThreadShape, EnterReceiver, Enter, Ops, Methods
<1>2. ASSUME Leave(t) PROVE In'
  BY <1>shape, <1>facts, <1>2 DEF TypeInv, ThreadShape, Leave, Exit
<1>3. ASSUME NativeRelease(t) PROVE In'
  BY <1>shape, <1>facts, <1>3 DEF TypeInv, ThreadShape, NativeRelease
<1>4. ASSUME CreateFromProgid(t) PROVE In'
  BY <1>shape, <1>facts, <1>4 DEF TypeInv, ThreadShape, CreateFromProgid
<1>5. ASSUME CoCreateInstance(t) PROVE In'
  BY <1>shape, <1>facts, <1>5 DEF TypeInv, ThreadShape, CoCreateInstance
<1>6. ASSUME Wrap(t) PROVE In'
  BY <1>shape, <1>facts, <1>6 DEF TypeInv, ThreadShape, Wrap, Back
<1>7. ASSUME QueryForDispatch(t) PROVE In'
  BY <1>shape, <1>facts, <1>7 DEF TypeInv, ThreadShape, QueryForDispatch
<1>8. ASSUME QueryProgid(t) PROVE In'
  BY <1>shape, <1>facts, <1>8 DEF TypeInv, ThreadShape, QueryProgid, Back
<1>9. ASSUME NameToBstr(t) PROVE In'
  BY <1>shape, <1>facts, <1>9 DEF TypeInv, ThreadShape, NameToBstr
<1>10. ASSUME GetDispid(t) PROVE In'
  BY <1>shape, <1>facts, <1>10 DEF TypeInv, ThreadShape, GetDispid
<1>11. ASSUME CheckDispid(t) PROVE In'
  BY <1>shape, <1>facts, <1>11 DEF TypeInv, ThreadShape, CheckDispid
<1>12. ASSUME ConvertPlain(t) PROVE In'
  BY <1>shape, <1>facts, <1>12 DEF TypeInv, ThreadShape, ConvertPlain, Converted, Converting
<1>13. ASSUME ConvertText(t) PROVE In'
  BY <1>shape, <1>facts, <1>13 DEF TypeInv, ThreadShape, ConvertText, Converted, Converting
<1>14. ASSUME ConvertBad(t) PROVE In'
  BY <1>shape, <1>facts, <1>14 DEF TypeInv, ThreadShape, ConvertBad, Converting
<1>15. ASSUME EnterArgument(t) PROVE In'
  BY <1>shape, <1>facts, <1>15 DEF TypeInv, ThreadShape, EnterArgument, Enter, Converting
<1>16. ASSUME ExitArgument(t) PROVE In'
  BY <1>shape, <1>facts, <1>16 DEF TypeInv, ThreadShape, ExitArgument, Exit
<1>17. ASSUME VerifyArgument(t) PROVE In'
  BY <1>shape, <1>facts, <1>17 DEF TypeInv, ThreadShape, VerifyArgument
<1>18. ASSUME AddRefArgument(t) PROVE In'
  BY <1>shape, <1>facts, <1>18 DEF TypeInv, ThreadShape, AddRefArgument, Converted
<1>19. ASSUME Unwind(t) PROVE In'
  BY <1>shape, <1>facts, <1>19 DEF TypeInv, ThreadShape, Unwind
<1>20. ASSUME Invoke(t) PROVE In'
  BY <1>shape, <1>facts, <1>20 DEF TypeInv, ThreadShape, Invoke
<1>21. ASSUME AppendExcepinfo(t) PROVE In'
  BY <1>shape, <1>facts, <1>21 DEF TypeInv, ThreadShape, AppendExcepinfo
<1>22. ASSUME ConvertResult(t) PROVE In'
  BY <1>shape, <1>facts, <1>22 DEF TypeInv, ThreadShape, ConvertResult
<1>23. ASSUME AddRefResult(t) PROVE In'
  BY <1>shape, <1>facts, <1>23 DEF TypeInv, ThreadShape, AddRefResult
<1>24. ASSUME GetProgid(t) PROVE In'
  BY <1>shape, <1>facts, <1>24 DEF TypeInv, ThreadShape, GetProgid
<1>25. ASSUME Construct(t) PROVE In'
  BY <1>shape, <1>facts, <1>25 DEF TypeInv, ThreadShape, Construct
<1>26. ASSUME ClearResult(t) PROVE In'
  BY <1>shape, <1>facts, <1>26 DEF TypeInv, ThreadShape, ClearResult
<1>27. ASSUME Create(t) PROVE In'
  BY <1>shape, <1>facts, <1>27 DEF TypeInv, ThreadShape, Create
<1>refused. ASSUME MonitorRefused(t) PROVE In'
  BY <1>shape, <1>facts, <1>refused DEF TypeInv, ThreadShape, MonitorRefused, Converting
<1>28. ASSUME Begins(t) PROVE In'
  BY <1>shape, <1>facts, <1>28 DEF TypeInv, ThreadShape, Begins, Begin
<1>29. In'
  BY <1>1, <1>2, <1>3, <1>4, <1>5, <1>6, <1>7, <1>8, <1>9, <1>10, <1>11, <1>12, <1>13,
     <1>14, <1>15, <1>16, <1>17, <1>18, <1>19, <1>20, <1>21, <1>22, <1>23, <1>24, <1>25,
     <1>26, <1>27, <1>28, <1>refused DEF Step, InCall, Creating, LookingUp
<1>30. QED
  BY <1>shape, <1>29 DEF MonitorsMatch, Local

-------------------------------------------------------------------------------
(* Released objects.                                                       *)

\* Nothing is released initially.
LEMMA ReleasedInit == ASSUME Init PROVE ReleasedInv
BY DEF Init, ReleasedInv

\* Nobody but the thread that enters its receiver sets the flag, or goes on to
\* where it matters.
LEMMA ReleasedKept ==
  ASSUME TypeInv, ShapeInv, NEW t \in Threads, Step(t), ~EnterReceiver(t)
  PROVE  /\ released' = released
         /\ pc'[t] # "release"
         /\ pc'[t] \notin {"idle", "enter", "leave", "release"} /\ recv'[t] \in Objects
              => /\ pc[t] \notin {"idle", "enter", "leave", "release"}
                 /\ recv'[t] = recv[t]
<1> USE DEF At, Go, heap, java, call, out
<1> DEFINE Kept == /\ released' = released
                   /\ pc'[t] # "release"
                   /\ pc'[t] \notin {"idle", "enter", "leave", "release"} /\ recv'[t] \in Objects
                        => /\ pc[t] \notin {"idle", "enter", "leave", "release"}
                           /\ recv'[t] = recv[t]
<1>shape. ThreadShape(t) /\ NoObject \notin Objects
  BY ComAssumption DEF ShapeInv
<1>1. ASSUME Leave(t) PROVE Kept
  BY <1>shape, <1>1 DEF TypeInv, ThreadShape, Leave, Exit
<1>2. ASSUME NativeRelease(t) PROVE Kept
  BY <1>shape, <1>2 DEF TypeInv, ThreadShape, NativeRelease
<1>3. ASSUME CreateFromProgid(t) PROVE Kept
  BY <1>shape, <1>3 DEF TypeInv, ThreadShape, CreateFromProgid
<1>4. ASSUME CoCreateInstance(t) PROVE Kept
  BY <1>shape, <1>4 DEF TypeInv, ThreadShape, CoCreateInstance
<1>5. ASSUME Wrap(t) PROVE Kept
  BY <1>shape, <1>5 DEF TypeInv, ThreadShape, Wrap, Back
<1>6. ASSUME QueryForDispatch(t) PROVE Kept
  BY <1>shape, <1>6 DEF TypeInv, ThreadShape, QueryForDispatch
<1>7. ASSUME QueryProgid(t) PROVE Kept
  BY <1>shape, <1>7 DEF TypeInv, ThreadShape, QueryProgid, Back
<1>8. ASSUME NameToBstr(t) PROVE Kept
  BY <1>shape, <1>8 DEF TypeInv, ThreadShape, NameToBstr
<1>9. ASSUME GetDispid(t) PROVE Kept
  BY <1>shape, <1>9 DEF TypeInv, ThreadShape, GetDispid
<1>10. ASSUME CheckDispid(t) PROVE Kept
  BY <1>shape, <1>10 DEF TypeInv, ThreadShape, CheckDispid
<1>11. ASSUME ConvertPlain(t) PROVE Kept
  BY <1>shape, <1>11 DEF TypeInv, ThreadShape, ConvertPlain, Converted, Converting
<1>12. ASSUME ConvertText(t) PROVE Kept
  BY <1>shape, <1>12 DEF TypeInv, ThreadShape, ConvertText, Converted, Converting
<1>13. ASSUME ConvertBad(t) PROVE Kept
  BY <1>shape, <1>13 DEF TypeInv, ThreadShape, ConvertBad, Converting
<1>14. ASSUME EnterArgument(t) PROVE Kept
  BY <1>shape, <1>14 DEF TypeInv, ThreadShape, EnterArgument, Enter, Converting
<1>15. ASSUME ExitArgument(t) PROVE Kept
  BY <1>shape, <1>15 DEF TypeInv, ThreadShape, ExitArgument, Exit
<1>16. ASSUME VerifyArgument(t) PROVE Kept
  BY <1>shape, <1>16 DEF TypeInv, ThreadShape, VerifyArgument
<1>17. ASSUME AddRefArgument(t) PROVE Kept
  BY <1>shape, <1>17 DEF TypeInv, ThreadShape, AddRefArgument, Converted
<1>18. ASSUME Unwind(t) PROVE Kept
  BY <1>shape, <1>18 DEF TypeInv, ThreadShape, Unwind
<1>19. ASSUME Invoke(t) PROVE Kept
  BY <1>shape, <1>19 DEF TypeInv, ThreadShape, Invoke
<1>20. ASSUME AppendExcepinfo(t) PROVE Kept
  BY <1>shape, <1>20 DEF TypeInv, ThreadShape, AppendExcepinfo
<1>21. ASSUME ConvertResult(t) PROVE Kept
  BY <1>shape, <1>21 DEF TypeInv, ThreadShape, ConvertResult
<1>22. ASSUME AddRefResult(t) PROVE Kept
  BY <1>shape, <1>22 DEF TypeInv, ThreadShape, AddRefResult
<1>23. ASSUME GetProgid(t) PROVE Kept
  BY <1>shape, <1>23 DEF TypeInv, ThreadShape, GetProgid
<1>24. ASSUME Construct(t) PROVE Kept
  BY <1>shape, <1>24 DEF TypeInv, ThreadShape, Construct
<1>25. ASSUME ClearResult(t) PROVE Kept
  BY <1>shape, <1>25 DEF TypeInv, ThreadShape, ClearResult
<1>26. ASSUME Create(t) PROVE Kept
  BY <1>shape, <1>26 DEF TypeInv, ThreadShape, Create
<1>refused. ASSUME MonitorRefused(t) PROVE Kept
  BY <1>shape, <1>refused DEF TypeInv, ThreadShape, MonitorRefused, Converting
<1>27. ASSUME Begins(t) PROVE Kept
  BY <1>shape, <1>27 DEF TypeInv, ThreadShape, Begins, Begin
<1>28. QED
  BY <1>1, <1>2, <1>3, <1>4, <1>5, <1>6, <1>7, <1>8, <1>9, <1>10, <1>11, <1>12, <1>13,
     <1>14, <1>15, <1>16, <1>17, <1>18, <1>19, <1>20, <1>21, <1>22, <1>23, <1>24, <1>25,
     <1>26, <1>27, <1>refused DEF Step, InCall, Creating, LookingUp

\* Only the thread that is in an object releases it.
LEMMA ReleasedStep ==
  ASSUME TypeInv, ShapeInv, MonitorsMatch, ReleasedInv, NEW t \in Threads, Step(t)
  PROVE  ReleasedInv'
<1> DEFINE Free(u) == /\ pc[u] \notin {"idle", "enter", "leave", "release"} /\ recv[u] \in Objects
                            => ~released[recv[u]]
                      /\ pc[u] = "release" => released[recv[u]]
<1>shape. Local(t)
  BY LocalStep
<1>1. \A o \in Objects : ptr'[o] = NoIface => ptr[o] = NoIface
  BY <1>shape DEF Local
<1>2. CASE ~EnterReceiver(t)
  <2>1. /\ released' = released
        /\ pc'[t] # "release"
        /\ pc'[t] \notin {"idle", "enter", "leave", "release"} /\ recv'[t] \in Objects
             => /\ pc[t] \notin {"idle", "enter", "leave", "release"}
                /\ recv'[t] = recv[t]
    BY <1>2, ReleasedKept
  <2>2. \A u \in Threads : Free(u)'
    BY <1>shape, <2>1 DEF ReleasedInv, Local
  <2>3. QED
    BY <1>1, <2>1, <2>2 DEF ReleasedInv
<1>3. CASE EnterReceiver(t)
  <2> DEFINE r == recv[t]
  <2>1. /\ pc[t] = "enter" /\ r \in Objects /\ ptr[r] \in Ifaces
        /\ recv'[t] = r /\ ptr' = ptr
        /\ released' = [released EXCEPT ![r] = @ \/ op[t] = "release"]
        /\ \A u \in Threads \ {t} : monitor[r][u] = 0
    BY <1>3 DEF EnterReceiver, Enter, At, ShapeInv, ThreadShape, call
  <2>2. /\ released[r] => pc'[t] = "leave"
        /\ ~released[r] /\ op[t] = "release" => pc'[t] = "release"
        /\ ~released[r] /\ op[t] # "release" => pc'[t] \in {"native", "convert", "query"}
    BY <1>3 DEF EnterReceiver, Go, TypeInv, Ops, Methods
  <2>3. Free(t)'
    BY <2>1, <2>2 DEF TypeInv
  <2>4. ASSUME NEW u \in Threads \ {t} PROVE Free(u)'
    <3>1. Free(u) /\ pc'[u] = pc[u] /\ recv'[u] = recv[u]
      BY <1>shape DEF ReleasedInv, Local
    <3>2. pc[u] \notin {"idle", "enter"} => recv[u] # r
      BY <2>1 DEF MonitorsMatch
    <3>3. pc[u] \notin {"idle", "enter"} => released'[recv[u]] = released[recv[u]]
      BY <2>1, <3>2 DEF TypeInv
    <3>4. QED
      BY <3>1, <3>3
  <2>5. \A o \in Objects : ptr[o] = NoIface => released'[o] = released[o]
    BY <2>1, ComAssumption DEF TypeInv
  <2>6. QED
    BY <2>1, <2>3, <2>4, <2>5 DEF ReleasedInv
<1>4. QED
  BY <1>2, <1>3

-------------------------------------------------------------------------------
(* Every reference and every BSTR is accounted for on every path, so an    *)
(* interface is freed only when nobody has it, and the one use after free  *)
(* is that of an argument.                                                 *)

\* RefsAccounted, in the states after an interface was used freed as well.
Accounted == \A i \in Counted : refs[i] = Holders(i)

\* An interface that was freed is not there again.
FreedInv == \A i \in freed : refs[i] = 0

One(b) == IF b THEN 1 ELSE 0
Is(x, y) == IF x = y THEN 1 ELSE 0

\* What a thread at p owes a Release() of i for, if x is the pointer of its
\* receiver, r its result and v its variants.
Owed(p, x, r, v, i) == (IF p = "release" THEN Is(x, i) ELSE 0)
                       + Is(r, i)
                       + (IF p \in {"progid", "construct"} THEN Is(r, i) ELSE 0)
                       + (IF p \in {"create_instance", "ids", "excepinfo"}
                          THEN Is(Bstr, i) ELSE 0)
                       + Count(v, i)

Own(t, i) == Owed(pc[t], ptr[recv[t]], result[t], var_args[t], i)

\* The places of i in the variants f of the threads.
Places(f, i) == {tj \in Threads \X (1 .. CallArgs + 1) :
                   tj[2] \in DOMAIN f[tj[1]] /\ f[tj[1]][tj[2]] = i}

-------------------------------------------------------------------------------
(* Counting.                                                               *)

\* Two sets that differ in one element at most.
LEMMA CardMove ==
  ASSUME NEW S, NEW T, NEW x, IsFiniteSet(S), IsFiniteSet(T), S \ {x} = T \ {x}
  PROVE  Cardinality(T) - Cardinality(S) = One(x \in T) - One(x \in S)
<1>1. Cardinality(S) \in Nat /\ Cardinality(T) \in Nat
  BY FS_CardinalityType
<1>2. Cardinality(S \ {x}) = Cardinality(S) - One(x \in S)
  BY <1>1, FS_RemoveElement DEF One
<1>3. Cardinality(T \ {x}) = Cardinality(T) - One(x \in T)
  BY <1>1, FS_RemoveElement DEF One
<1>4. Cardinality(T) - One(x \in T) = Cardinality(S) - One(x \in S)
  BY <1>2, <1>3
<1>5. One(x \in T) \in Int /\ One(x \in S) \in Int
  BY DEF One
<1>6. QED
  BY <1>1, <1>4, <1>5

\* There are finitely many places.
LEMMA PlacesFinite ==
  ASSUME NEW f, NEW i
  PROVE  IsFiniteSet(Places(f, i))
<1>1. IsFiniteSet(Threads) /\ IsFiniteSet(1 .. CallArgs + 1)
  BY ComAssumption, FS_Interval
<1>2. IsFiniteSet(Threads \X (1 .. CallArgs + 1))
  BY <1>1, FS_Product
<1>3. QED
  BY <1>2, FS_Subset DEF Places

\* The places of i, one thread and the others.
LEMMA PlacesSplit ==
  ASSUME NEW f \in [Threads -> Seq(Variant)], NEW t \in Threads, NEW i,
         Len(f[t]) <= CallArgs + 1
  PROVE  Cardinality(Places(f, i))
           = Cardinality({tj \in Places(f, i) : tj[1] # t}) + Count(f[t], i)
<1> DEFINE A == {tj \in Places(f, i) : tj[1] # t}
           B == {tj \in Places(f, i) : tj[1] = t}
           C == {j \in DOMAIN f[t] : f[t][j] = i}
           g == [j \in C |-> <<t, j>>]
<1>1. IsFiniteSet(A) /\ IsFiniteSet(B)
  BY PlacesFinite, FS_Subset
<1>2. Cardinality(A \cup B) = Cardinality(A) + Cardinality(B) - Cardinality(A \cap B)
  BY <1>1, FS_Union
<1>3. A \cup B = Places(f, i) /\ A \cap B = {}
  OBVIOUS
<1>4. /\ DOMAIN f[t] = 1 .. Len(f[t]) /\ Len(f[t]) \in Nat /\ CallArgs \in Nat
      /\ DOMAIN f[t] \subseteq 1 .. CallArgs + 1
  BY LenProperties, ComAssumption
<1>5. IsFiniteSet(C)
  <2>1. IsFiniteSet(1 .. Len(f[t]))
    BY <1>4, FS_Interval
  <2>2. QED
    BY <1>4, <2>1, FS_Subset
<1>6. g \in Bijection(C, B)
  <2>1. ASSUME NEW j \in C PROVE <<t, j>> \in B
    BY <1>4 DEF Places
  <2>2. ASSUME NEW b \in B PROVE \E j \in C : g[j] = b
    <3>1. b = <<t, b[2]>> /\ b[2] \in C
      BY DEF Places
    <3>2. QED
      BY <3>1
  <2>3. \A j, k \in C : g[j] = g[k] => j = k
    OBVIOUS
  <2>4. g \in [C -> B]
    BY <2>1
  <2>5. QED
    BY <2>2, <2>3, <2>4 DEF Bijection, Injection, Surjection, IsInjective
<1>7. Cardinality(B) = Cardinality(C)
  <2>1. ExistsBijection(C, B)
    BY <1>6 DEF ExistsBijection
  <2>2. QED
    BY <1>5, <2>1, FS_Bijection
<1>8. Cardinality(A \cap B) = 0 /\ Cardinality(A) \in Nat /\ Cardinality(B) \in Nat
  BY <1>1, <1>3, FS_EmptySet, FS_CardinalityType
<1>9. Cardinality(Places(f, i)) = Cardinality(A) + Cardinality(C)
  <2> HIDE DEF A, B, C
  <2>1. Cardinality(A \cup B) = Cardinality(A) + Cardinality(C)
    BY <1>2, <1>7, <1>8
  <2>2. QED
    BY <1>3, <2>1, Zenon
<1>10. QED
  BY <1>9 DEF Count

\* Where one thread's list changes, the places change as its count.
LEMMA PlacesMove ==
  ASSUME NEW f \in [Threads -> Seq(Variant)], NEW g \in [Threads -> Seq(Variant)],
         NEW t \in Threads, NEW i,
         Len(f[t]) <= CallArgs + 1, Len(g[t]) <= CallArgs + 1,
         \A u \in Threads \ {t} : g[u] = f[u]
  PROVE  Cardinality(Places(g, i)) - Cardinality(Places(f, i))
           = Count(g[t], i) - Count(f[t], i)
<1> DEFINE A(h) == {tj \in Places(h, i) : tj[1] # t}
<1>1. A(g) = A(f)
  BY DEF Places
<1>2. Cardinality(Places(f, i)) = Cardinality(A(f)) + Count(f[t], i)
  BY PlacesSplit
<1>3. Cardinality(Places(g, i)) = Cardinality(A(f)) + Count(g[t], i)
  BY <1>1, PlacesSplit
<1>4. Count(f[t], i) \in Nat /\ Count(g[t], i) \in Nat
  BY CountType
<1>5. Cardinality(A(f)) \in Nat
  <2>1. IsFiniteSet(A(f))
    BY PlacesFinite, FS_Subset
  <2>2. QED
    BY <2>1, FS_CardinalityType
<1> HIDE DEF A
<1>6. QED
  BY <1>2, <1>3, <1>4, <1>5

-------------------------------------------------------------------------------
(* What a step of t changes is what t itself owes, and who owns an object.  *)

Rest(i) == Cardinality(Releasing(i)) + Cardinality(Resulting(i))
           + Cardinality(Making(i)) + Cardinality(Naming(i)) + Cardinality(Variants(i))

\* There are finitely many owners.
LEMMA OwnersFinite == ASSUME NEW i PROVE IsFiniteSet(Owners(i))
BY ComAssumption, FS_Subset DEF Owners

\* There are finitely many holders of each kind.
LEMMA HoldersFinite ==
  ASSUME NEW i
  PROVE  /\ IsFiniteSet(Releasing(i)) /\ IsFiniteSet(Resulting(i))
         /\ IsFiniteSet(Making(i)) /\ IsFiniteSet(Naming(i))
<1>1. IsFiniteSet(Threads)
  BY ComAssumption
<1>2. /\ Releasing(i) \in SUBSET Threads /\ Resulting(i) \in SUBSET Threads
      /\ Making(i) \in SUBSET Threads /\ Naming(i) \in SUBSET Threads
  BY DEF Releasing, Resulting, Making, Naming
<1>3. QED
  BY <1>1, <1>2, FS_Subset

\* What a thread owes is a natural number.
LEMMA OwnInt ==
  ASSUME TypeInv, NEW t \in Threads, NEW i
  PROVE  Own(t, i) \in Nat
<1>1. Count(var_args[t], i) \in Nat
  BY CountType DEF TypeInv
<1>2. QED
  BY <1>1 DEF Own, Owed, Is

\* What the threads hold changes as what one thread owes.
LEMMA RestMove ==
  ASSUME TypeInv, TypeInv', ShapeInv, ShapeInv', NEW t \in Threads, Local(t),
         NEW i \in Counted
  PROVE  Rest(i)' - Rest(i) = Own(t, i)' - Own(t, i)
<1>1. Cardinality(Releasing(i)') - Cardinality(Releasing(i))
        = One(pc'[t] = "release" /\ ptr'[recv'[t]] = i)
          - One(pc[t] = "release" /\ ptr[recv[t]] = i)
  <2>1. IsFiniteSet(Releasing(i)) /\ IsFiniteSet(Releasing(i)')
    BY HoldersFinite, ComAssumption, FS_Subset DEF Releasing
  <2>2. ASSUME NEW u \in Threads \ {t} PROVE u \in Releasing(i) <=> u \in Releasing(i)'
    <3>1. pc[u] = "release" => ptr'[recv[u]] = ptr[recv[u]]
      BY ComAssumption DEF Local, ShapeInv, ThreadShape
    <3>2. QED
      BY <3>1 DEF Releasing, Local
  <2>3. Releasing(i) \ {t} = Releasing(i)' \ {t}
    BY <2>2 DEF Releasing
  <2>4. Cardinality(Releasing(i)') - Cardinality(Releasing(i))
          = One(t \in Releasing(i)') - One(t \in Releasing(i))
    BY <2>1, <2>3, CardMove
  <2>5. /\ (t \in Releasing(i)) = (pc[t] = "release" /\ ptr[recv[t]] = i)
        /\ (t \in Releasing(i)') = (pc'[t] = "release" /\ ptr'[recv'[t]] = i)
    BY DEF Releasing
  <2>6. QED
    BY <2>4, <2>5 DEF One
<1>2. Cardinality(Resulting(i)') - Cardinality(Resulting(i))
        = One(result'[t] = i)
          - One(result[t] = i)
  <2>1. IsFiniteSet(Resulting(i)) /\ IsFiniteSet(Resulting(i)')
    BY HoldersFinite, ComAssumption, FS_Subset DEF Resulting
  <2>2. Resulting(i) \ {t} = Resulting(i)' \ {t}
    BY DEF Resulting, Local
  <2>3. Cardinality(Resulting(i)') - Cardinality(Resulting(i)) = One(t \in Resulting(i)') - One(t \in Resulting(i))
    BY <2>1, <2>2, CardMove
  <2>4. /\ (t \in Resulting(i)) = (result[t] = i)
        /\ (t \in Resulting(i)') = (result'[t] = i)
    BY DEF Resulting
  <2>5. QED
    BY <2>3, <2>4 DEF One
<1>3. Cardinality(Making(i)') - Cardinality(Making(i))
        = One(pc'[t] \in {"progid", "construct"} /\ result'[t] = i)
          - One(pc[t] \in {"progid", "construct"} /\ result[t] = i)
  <2>1. IsFiniteSet(Making(i)) /\ IsFiniteSet(Making(i)')
    BY HoldersFinite, ComAssumption, FS_Subset DEF Making
  <2>2. Making(i) \ {t} = Making(i)' \ {t}
    BY DEF Making, Local
  <2>3. Cardinality(Making(i)') - Cardinality(Making(i)) = One(t \in Making(i)') - One(t \in Making(i))
    BY <2>1, <2>2, CardMove
  <2>4. /\ (t \in Making(i)) = (pc[t] \in {"progid", "construct"} /\ result[t] = i)
        /\ (t \in Making(i)') = (pc'[t] \in {"progid", "construct"} /\ result'[t] = i)
    BY DEF Making
  <2>5. QED
    BY <2>3, <2>4 DEF One
<1>4. Cardinality(Naming(i)') - Cardinality(Naming(i))
        = One(pc'[t] \in {"create_instance", "ids", "excepinfo"} /\ i = Bstr)
          - One(pc[t] \in {"create_instance", "ids", "excepinfo"} /\ i = Bstr)
  <2>1. IsFiniteSet(Naming(i)) /\ IsFiniteSet(Naming(i)')
    BY HoldersFinite, ComAssumption, FS_Subset DEF Naming
  <2>2. Naming(i) \ {t} = Naming(i)' \ {t}
    BY DEF Naming, Local
  <2>3. Cardinality(Naming(i)') - Cardinality(Naming(i)) = One(t \in Naming(i)') - One(t \in Naming(i))
    BY <2>1, <2>2, CardMove
  <2>4. /\ (t \in Naming(i)) = (pc[t] \in {"create_instance", "ids", "excepinfo"} /\ i = Bstr)
        /\ (t \in Naming(i)') = (pc'[t] \in {"create_instance", "ids", "excepinfo"} /\ i = Bstr)
    BY DEF Naming
  <2>5. QED
    BY <2>3, <2>4 DEF One
<1>5. Cardinality(Variants(i)') - Cardinality(Variants(i))
        = Count(var_args'[t], i) - Count(var_args[t], i)
  <2>1. Variants(i) = Places(var_args, i) /\ Variants(i)' = Places(var_args', i)
    BY DEF Variants, Places
  <2>2. Len(var_args[t]) <= CallArgs + 1 /\ Len(var_args'[t]) <= CallArgs + 1
    <3>1. /\ Len(var_args[t]) \in Nat /\ Len(var_args'[t]) \in Nat
          /\ Len(args[t]) \in Nat /\ Len(args'[t]) \in Nat /\ CallArgs \in Nat
      BY LenProperties, ComAssumption DEF TypeInv
    <3>2. /\ Len(var_args[t]) + Len(args[t]) <= CallArgs + 1
          /\ Len(var_args'[t]) + Len(args'[t]) <= CallArgs + 1
      BY DEF ShapeInv, ThreadShape
    <3>3. \A a, b, c \in Nat : a + b <= c + 1 => a <= c + 1
      OBVIOUS
    <3>4. QED
      BY <3>1, <3>2, <3>3, Zenon
  <2>3. var_args \in [Threads -> Seq(Variant)] /\ var_args' \in [Threads -> Seq(Variant)]
    BY DEF TypeInv, Variant
  <2>4. Cardinality(Places(var_args', i)) - Cardinality(Places(var_args, i))
          = Count(var_args'[t], i) - Count(var_args[t], i)
    BY <2>2, <2>3, PlacesMove DEF Local
  <2>5. QED
    BY <2>1, <2>4, Zenon
<1>6. /\ Cardinality(Releasing(i)) \in Nat /\ Cardinality(Releasing(i)') \in Nat
      /\ Cardinality(Resulting(i)) \in Nat /\ Cardinality(Resulting(i)') \in Nat
      /\ Cardinality(Making(i)) \in Nat /\ Cardinality(Making(i)') \in Nat
      /\ Cardinality(Naming(i)) \in Nat /\ Cardinality(Naming(i)') \in Nat
      /\ Cardinality(Variants(i)) \in Nat /\ Cardinality(Variants(i)') \in Nat
  <2>1. IsFiniteSet(Threads)
    BY ComAssumption
  <2>2. /\ Releasing(i)' \in SUBSET Threads /\ Resulting(i)' \in SUBSET Threads
        /\ Making(i)' \in SUBSET Threads /\ Naming(i)' \in SUBSET Threads
    BY DEF Releasing, Resulting, Making, Naming
  <2>3. /\ IsFiniteSet(Releasing(i)') /\ IsFiniteSet(Resulting(i)')
        /\ IsFiniteSet(Making(i)') /\ IsFiniteSet(Naming(i)')
    BY <2>1, <2>2, FS_Subset
  <2>4. IsFiniteSet(Variants(i)) /\ IsFiniteSet(Variants(i)')
    <3>1. Variants(i) = Places(var_args, i) /\ Variants(i)' = Places(var_args', i)
      BY DEF Variants, Places
    <3>2. QED
      BY <3>1, PlacesFinite
  <2>5. QED
    BY <2>3, <2>4, HoldersFinite, FS_CardinalityType
<1>7. Count(var_args[t], i) \in Nat /\ Count(var_args'[t], i) \in Nat
  BY CountType DEF TypeInv
<1>8. QED
  BY <1>1, <1>2, <1>3, <1>4, <1>5, <1>6, <1>7 DEF Rest, Own, Owed, One, Is

\* Without a change of the objects their owners are the same.
LEMMA OwnersSame ==
  ASSUME UNCHANGED java, NEW i
  PROVE  Cardinality(Owners(i)') - Cardinality(Owners(i)) = 0
<1>1. Owners(i)' = Owners(i)
  BY DEF Owners, java
<1>2. Cardinality(Owners(i)) \in Nat
  BY OwnersFinite, FS_CardinalityType
<1>3. QED
  BY <1>1, <1>2

\* Where one object changes, the owners change by it at most.
LEMMA OwnersMove ==
  ASSUME TypeInv, TypeInv', NEW o \in Objects, NEW i,
         \A p \in Objects \ {o} : ptr'[p] = ptr[p] /\ released'[p] = released[p]
  PROVE  Cardinality(Owners(i)') - Cardinality(Owners(i))
           = One(ptr'[o] = i /\ ~released'[o]) - One(ptr[o] = i /\ ~released[o])
<1>1. IsFiniteSet(Owners(i)) /\ IsFiniteSet(Owners(i)')
  BY ComAssumption, FS_Subset DEF Owners
<1>2. Owners(i) \ {o} = Owners(i)' \ {o}
  BY DEF Owners
<1>3. Cardinality(Owners(i)') - Cardinality(Owners(i))
        = One(o \in Owners(i)') - One(o \in Owners(i))
  BY <1>1, <1>2, CardMove
<1>4. /\ (o \in Owners(i)') = (ptr'[o] = i /\ ~released'[o])
      /\ (o \in Owners(i)) = (ptr[o] = i /\ ~released[o])
  BY DEF Owners
<1>5. QED
  BY <1>3, <1>4 DEF One

\* The count of i changes as do those who hold it.
Balance(t, i) ==
  refs'[i] - refs[i] = (Cardinality(Owners(i)') - Cardinality(Owners(i)))
                       + (Own(t, i)' - Own(t, i)) + (lost'[i] - lost[i])

\* The change of a count is the change of what the stepping thread and its object owe.
LEMMA BalanceStep ==
  ASSUME TypeInv, TypeInv', ShapeInv, ReleasedInv, NEW t \in Threads, Step(t),
         NEW i \in Counted
  PROVE  Balance(t, i)
<1> USE DEF At, Go, heap, call, out
<1> DEFINE own == Cardinality(Owners(i)') - Cardinality(Owners(i))
           r == result[t]
           v == var_args[t]
           x == ptr[recv[t]]
<1>shape. /\ ThreadShape(t) /\ NoIface # i /\ NoIface \notin Counted
          /\ NoObject \notin Objects /\ Bstr \notin Ifaces
          /\ refs[i] \in Int /\ lost[i] \in Int
          /\ v \in Seq(Variant) /\ var_args'[t] \in Seq(Variant)
  BY ComAssumption DEF ShapeInv, Counted, TypeInv, Variant
<1>facts. /\ Count(<<>>, i) = 0 /\ Is(NoIface, i) = 0
          /\ Is(x, i) \in Nat /\ Is(r, i) \in Nat /\ Is(Bstr, i) \in Nat
          /\ Count(v, i) \in Nat
          /\ Count(<<x>>, i) = Is(x, i) /\ Count(<<r>>, i) = Is(r, i)
          /\ Count(<<Bstr>>, i) = Is(Bstr, i)
  <2>1. Count(v, i) \in Nat
    BY <1>shape, CountType
  <2>2. \A y : Count(<<y>>, i) = Is(y, i)
    BY CountOne DEF Is
  <2>3. QED
    BY <1>shape, <2>1, <2>2, CountEmpty DEF Is
<1>count. /\ \A y : Count(<<y>>, i) = Is(y, i) /\ Is(y, i) \in Nat
          /\ \A y \in Variant : Count(<<y>> \o v, i) = Count(v, i) + Is(y, i)
          /\ Bstr \in Variant /\ NoIface \in Variant
  <2>1. \A y : Count(<<y>>, i) = Is(y, i) /\ Is(y, i) \in Nat
    BY CountOne DEF Is
  <2>2. \A y \in Variant : Count(<<y>> \o v, i) = Count(v, i) + Is(y, i)
    BY <1>shape, CountPrepend DEF Is
  <2>3. QED
    BY <2>1, <2>2 DEF Variant, Counted
<1>ints. /\ refs[i] \in Int /\ lost[i] \in Int /\ Count(v, i) \in Nat
         /\ Is(x, i) \in Nat /\ Is(r, i) \in Nat /\ Is(Bstr, i) \in Nat /\ Is(NoIface, i) = 0
  BY <1>shape, <1>facts
<1>same. UNCHANGED java => own = 0
  BY OwnersSame
<1>1. ASSUME EnterReceiver(t) PROVE Balance(t, i)
  <2>1. /\ pc[t] = "enter" /\ recv[t] \in Objects /\ x \in Ifaces
        /\ recv'[t] = recv[t] /\ ptr' = ptr /\ refs' = refs /\ lost' = lost
        /\ result' = result /\ var_args' = var_args
        /\ released' = [released EXCEPT ![recv[t]] = @ \/ op[t] = "release"]
    BY <1>shape, <1>1 DEF EnterReceiver, ThreadShape
  <2>2. CASE ~released[recv[t]] /\ op[t] = "release"
    <3>1. pc'[t] = "release"
      BY <1>1, <2>2 DEF EnterReceiver, TypeInv, Methods
    <3>2. own = 0 - Is(x, i)
      <4>1. own = One(ptr'[recv[t]] = i /\ ~released'[recv[t]])
                  - One(x = i /\ ~released[recv[t]])
        BY <2>1, OwnersMove DEF TypeInv
      <4>2. released'[recv[t]]
        BY <2>1, <2>2 DEF TypeInv
      <4>3. QED
        BY <2>1, <2>2, <4>1, <4>2 DEF One, Is
    <3>3. Own(t, i) = Is(r, i) + Count(v, i)
      BY <1>shape, <1>facts, <2>1 DEF Own, Owed
    <3>4. Own(t, i)' = Is(x, i) + Is(r, i) + Count(v, i)
      BY <1>shape, <1>facts, <2>1, <3>1 DEF Own, Owed
    <3>5. QED
      BY <1>ints, <2>1, <3>2, <3>3, <3>4 DEF Balance
  <2>3. CASE ~ (~released[recv[t]] /\ op[t] = "release")
    <3>1. pc'[t] \in {"leave", "native", "convert", "query"}
      BY <1>1, <2>3 DEF EnterReceiver, TypeInv, Ops, Methods
    <3>2. released' = released
      BY <2>1, <2>3 DEF TypeInv
    <3>3. Own(t, i) = Is(r, i) + Count(v, i)
      BY <1>shape, <1>facts, <2>1 DEF Own, Owed
    <3>4. Own(t, i)' = Is(r, i) + Count(v, i)
      BY <1>shape, <1>facts, <2>1, <3>1 DEF Own, Owed
    <3>5. own = 0
      <4>1. Owners(i)' = Owners(i)
        BY <2>1, <3>2 DEF Owners
      <4>2. Cardinality(Owners(i)) \in Nat
        BY OwnersFinite, FS_CardinalityType
      <4>3. QED
        BY <4>1, <4>2
    <3>6. QED
      BY <1>ints, <2>1, <3>3, <3>4, <3>5 DEF Balance
  <2>4. QED
    BY <2>2, <2>3
<1>2. ASSUME Leave(t) PROVE Balance(t, i)
  <2>1. /\ pc[t] = "leave" /\ pc'[t] = "idle"
        /\ result'[t] = r /\ var_args'[t] = v
    BY <1>2 DEF TypeInv, Leave
  <2>2. /\ refs'[i] = refs[i] /\ lost'[i] = lost[i]
        /\ UNCHANGED java
    BY <1>shape, <1>facts, <1>2 DEF TypeInv, Leave, java
  <2>3. Own(t, i) = Is(r, i) + Count(v, i)
    BY <1>shape, <1>facts, <2>1 DEF Own, Owed
  <2>4. Own(t, i)' = Is(r, i) + Count(v, i)
    BY <1>shape, <1>facts, <2>1 DEF Own, Owed
  <2>5. own = 0
    BY <2>2, OwnersSame
  <2>6. QED
    BY <1>ints, <2>2, <2>3, <2>4, <2>5 DEF Balance
<1>3. ASSUME NativeRelease(t) PROVE Balance(t, i)
  <2>1. /\ pc[t] = "release" /\ pc'[t] = "leave"
        /\ result'[t] = r /\ var_args'[t] = v
    BY <1>3 DEF TypeInv, NativeRelease
  <2>2. /\ refs'[i] = refs[i] - Is(x, i) /\ lost'[i] = lost[i]
        /\ UNCHANGED java
    BY <1>shape, <1>facts, <1>3 DEF TypeInv, NativeRelease, AddRef, Release,
       AddAndRelease, Lose, java
  <2>3. Own(t, i) = Is(x, i) + Is(r, i) + Count(v, i)
    BY <1>shape, <1>facts, <2>1 DEF Own, Owed
  <2>4. Own(t, i)' = Is(r, i) + Count(v, i)
    BY <1>shape, <1>facts, <2>1 DEF Own, Owed
  <2>5. own = 0
    BY <2>2, OwnersSame
  <2>6. QED
    BY <1>ints, <2>2, <2>3, <2>4, <2>5 DEF Balance
<1>4. ASSUME CreateFromProgid(t) PROVE Balance(t, i)
  <2>1. CASE Go(t, "idle") /\ UNCHANGED <<refs, freed>>
    <3>1. /\ pc[t] = "create" /\ pc'[t] = "idle"
          /\ result'[t] = r /\ var_args'[t] = v
      BY <1>4, <2>1 DEF TypeInv, CreateFromProgid
    <3>2. /\ refs'[i] = refs[i] /\ lost'[i] = lost[i]
          /\ UNCHANGED java
      BY <1>4, <2>1 DEF CreateFromProgid, java
    <3>3. Own(t, i) = Is(r, i) + Count(v, i)
      BY <1>shape, <1>facts, <3>1 DEF Own, Owed
    <3>4. Own(t, i)' = Is(r, i) + Count(v, i)
      BY <1>shape, <1>facts, <3>1 DEF Own, Owed
    <3>5. own = 0
      BY <3>2, OwnersSame
    <3>6. QED
      BY <1>ints, <3>2, <3>3, <3>4, <3>5 DEF Balance
  <2>2. CASE Go(t, "create_instance") /\ AddRef(Bstr)
    <3>1. /\ pc[t] = "create" /\ pc'[t] = "create_instance"
          /\ result'[t] = r /\ var_args'[t] = v
      BY <1>4, <2>2 DEF TypeInv, CreateFromProgid
    <3>2. refs'[i] = refs[i] + Is(Bstr, i)
      BY <1>shape, <1>facts, <2>2 DEF TypeInv, AddRef, Release, AddAndRelease
    <3>3. lost'[i] = lost[i] /\ UNCHANGED java
      BY <1>shape, <1>4, <2>2 DEF CreateFromProgid, java
    <3>4. Own(t, i) = Is(r, i) + Count(v, i)
      BY <1>shape, <1>facts, <3>1 DEF Own, Owed
    <3>5. Own(t, i)' = Is(r, i) + Is(Bstr, i) + Count(v, i)
      BY <1>shape, <1>facts, <3>1 DEF Own, Owed
    <3>6. own = 0
      BY <3>3, OwnersSame
    <3>7. QED
      BY <1>ints, <3>2, <3>3, <3>4, <3>5, <3>6 DEF Balance
  <2>3. QED
    BY <1>4, <2>1, <2>2 DEF CreateFromProgid
<1>5. ASSUME CoCreateInstance(t) PROVE Balance(t, i)
  <2>1. CASE Release(<<Bstr>>) /\ Go(t, "idle") /\ UNCHANGED out
    <3>1. /\ pc[t] = "create_instance" /\ pc'[t] = "idle"
          /\ result'[t] = r /\ var_args'[t] = v
      BY <1>5, <2>1 DEF TypeInv, CoCreateInstance
    <3>2. refs'[i] = refs[i] - Is(Bstr, i)
      BY <1>shape, <1>facts, <2>1 DEF TypeInv, AddRef, Release, AddAndRelease
    <3>3. lost'[i] = lost[i] /\ UNCHANGED java
      BY <1>shape, <1>5, <2>1 DEF CoCreateInstance, java
    <3>4. Own(t, i) = Is(r, i) + Is(Bstr, i) + Count(v, i)
      BY <1>shape, <1>facts, <3>1 DEF Own, Owed
    <3>5. Own(t, i)' = Is(r, i) + Count(v, i)
      BY <1>shape, <1>facts, <3>1 DEF Own, Owed
    <3>6. Is(r, i) = 0
      BY <1>shape, <1>facts, <3>1 DEF ThreadShape
    <3>7. own = 0
      BY <3>3, OwnersSame
    <3>8. QED
      BY <1>ints, <3>2, <3>3, <3>4, <3>5, <3>6, <3>7 DEF Balance
  <2>2. ASSUME NEW j \in Ifaces, NEW d \in BOOLEAN,
               AddAndRelease(<<j>>, <<Bstr>>), Go(t, "wrap"),
               result' = [result EXCEPT ![t] = j]
        PROVE  Balance(t, i)
    <3>1. /\ pc[t] = "create_instance" /\ pc'[t] = "wrap"
          /\ result'[t] = j /\ var_args'[t] = v
      BY <1>5, <2>2 DEF TypeInv, CoCreateInstance
    <3>2. refs'[i] = refs[i] + (Is(j, i) - Is(Bstr, i))
      BY <1>shape, <1>facts, <1>count, <2>2 DEF TypeInv, AddRef, Release, AddAndRelease
    <3>3. lost'[i] = lost[i] /\ UNCHANGED java
      BY <1>shape, <1>5, <2>2 DEF CoCreateInstance, java
    <3>4. Own(t, i) = Is(r, i) + Is(Bstr, i) + Count(v, i)
      BY <1>shape, <1>facts, <3>1 DEF Own, Owed
    <3>5. Is(j, i) \in Nat
      BY <1>count
    <3>6. Own(t, i)' = Is(j, i) + Count(v, i)
      BY <3>5, <1>shape, <1>facts, <3>1 DEF Own, Owed
    <3>7. Is(r, i) = 0
      BY <1>shape, <1>facts, <3>1 DEF ThreadShape
    <3>8. own = 0
      BY <3>3, OwnersSame
    <3>9. QED
      BY <1>ints, <3>2, <3>3, <3>4, <3>5, <3>6, <3>7, <3>8 DEF Balance
  <2>3. QED
    BY <1>5, <2>1, <2>2 DEF CoCreateInstance
<1>6. ASSUME Wrap(t) PROVE Balance(t, i)
  <2>1. ASSUME NEW o \in Objects, ptr[o] = NoIface, ptr' = [ptr EXCEPT ![o] = r],
               UNCHANGED <<refs, freed>>
        PROVE  Balance(t, i)
    <3>1. /\ pc[t] = "wrap" /\ pc'[t] \in {"idle", "leave"}
          /\ result'[t] = NoIface /\ var_args'[t] = v
      BY <1>6 DEF TypeInv, Wrap, Back
    <3>2. refs'[i] = refs[i] /\ lost'[i] = lost[i] /\ released' = released
      BY <1>6, <2>1 DEF Wrap
    <3>3. ~released[o] /\ ptr'[o] = r /\ \A p \in Objects \ {o} : ptr'[p] = ptr[p]
      BY <2>1 DEF TypeInv, ReleasedInv
    <3>4. own = Is(r, i)
      <4>1. own = One(ptr'[o] = i /\ ~released'[o]) - One(ptr[o] = i /\ ~released[o])
        BY <3>2, <3>3, OwnersMove
      <4>2. QED
        BY <1>shape, <2>1, <3>2, <3>3, <4>1 DEF One, Is
    <3>5. Own(t, i) = Is(r, i) + Count(v, i)
      BY <1>shape, <1>facts, <3>1 DEF Own, Owed
    <3>6. Own(t, i)' = Is(NoIface, i) + Count(v, i)
      BY <1>shape, <1>facts, <3>1 DEF Own, Owed
    <3>7. QED
      BY <1>ints, <3>2, <3>4, <3>5, <3>6 DEF Balance
  <2>2. CASE Release(<<r>>) /\ UNCHANGED <<ptr, unknown>>
    <3>1. /\ pc[t] = "wrap" /\ pc'[t] \in {"idle", "leave"}
          /\ result'[t] = NoIface /\ var_args'[t] = v
      BY <1>6, <2>2 DEF TypeInv, Wrap, Back
    <3>2. refs'[i] = refs[i] - Is(r, i)
      BY <1>shape, <1>facts, <2>2 DEF TypeInv, AddRef, Release, AddAndRelease
    <3>3. lost'[i] = lost[i] /\ UNCHANGED java
      BY <1>shape, <1>6, <2>2 DEF Wrap, java
    <3>4. Own(t, i) = Is(r, i) + Count(v, i)
      BY <1>shape, <1>facts, <3>1 DEF Own, Owed
    <3>5. Own(t, i)' = Is(NoIface, i) + Count(v, i)
      BY <1>shape, <1>facts, <3>1 DEF Own, Owed
    <3>6. own = 0
      BY <3>3, OwnersSame
    <3>7. QED
      BY <1>ints, <3>2, <3>3, <3>4, <3>5, <3>6 DEF Balance
  <2>3. QED
    BY <1>6, <2>1, <2>2 DEF Wrap
<1>7. ASSUME QueryForDispatch(t) PROVE Balance(t, i)
  <2>1. CASE Go(t, "leave") /\ UNCHANGED <<refs, freed, out>>
    <3>1. /\ pc[t] = "query" /\ pc'[t] = "leave"
          /\ result'[t] = r /\ var_args'[t] = v
      BY <1>7, <2>1 DEF TypeInv, QueryForDispatch
    <3>2. /\ refs'[i] = refs[i] /\ lost'[i] = lost[i]
          /\ UNCHANGED java
      BY <1>7, <2>1 DEF QueryForDispatch, java
    <3>3. Own(t, i) = Is(r, i) + Count(v, i)
      BY <1>shape, <1>facts, <3>1 DEF Own, Owed
    <3>4. Own(t, i)' = Is(r, i) + Count(v, i)
      BY <1>shape, <1>facts, <3>1 DEF Own, Owed
    <3>5. Is(r, i) = 0
      BY <1>shape, <1>facts, <3>1 DEF ThreadShape
    <3>6. own = 0
      BY <3>2, OwnersSame
    <3>7. QED
      BY <1>ints, <3>2, <3>3, <3>4, <3>5, <3>6 DEF Balance
  <2>2. CASE AddRef(x) /\ result' = [result EXCEPT ![t] = x] /\ Go(t, "query_progid")
    <3>1. /\ pc[t] = "query" /\ pc'[t] = "query_progid"
          /\ result'[t] = x /\ var_args'[t] = v
      BY <1>7, <2>2 DEF TypeInv, QueryForDispatch
    <3>2. refs'[i] = refs[i] + Is(x, i)
      BY <1>shape, <1>facts, <2>2 DEF TypeInv, AddRef, Release, AddAndRelease
    <3>3. lost'[i] = lost[i] /\ UNCHANGED java
      BY <1>shape, <1>7, <2>2 DEF QueryForDispatch, java
    <3>4. Own(t, i) = Is(r, i) + Count(v, i)
      BY <1>shape, <1>facts, <3>1 DEF Own, Owed
    <3>5. Own(t, i)' = Is(x, i) + Count(v, i)
      BY <1>shape, <1>facts, <3>1 DEF Own, Owed
    <3>6. Is(r, i) = 0
      BY <1>shape, <1>facts, <3>1 DEF ThreadShape
    <3>7. own = 0
      BY <3>3, OwnersSame
    <3>8. QED
      BY <1>ints, <3>2, <3>3, <3>4, <3>5, <3>6, <3>7 DEF Balance
  <2>3. QED
    BY <1>7, <2>1, <2>2 DEF QueryForDispatch
<1>8. ASSUME QueryProgid(t) PROVE Balance(t, i)
  <2>1. CASE Go(t, "wrap") /\ UNCHANGED <<lost, out>>
    <3>1. /\ pc[t] = "query_progid" /\ pc'[t] = "wrap"
          /\ result'[t] = r /\ var_args'[t] = v
      BY <1>8, <2>1 DEF TypeInv, QueryProgid
    <3>2. /\ refs'[i] = refs[i] /\ lost'[i] = lost[i]
          /\ UNCHANGED java
      BY <1>8, <2>1 DEF QueryProgid, java
    <3>3. Own(t, i) = Is(r, i) + Count(v, i)
      BY <1>shape, <1>facts, <3>1 DEF Own, Owed
    <3>4. Own(t, i)' = Is(r, i) + Count(v, i)
      BY <1>shape, <1>facts, <3>1 DEF Own, Owed
    <3>5. own = 0
      BY <3>2, OwnersSame
    <3>6. QED
      BY <1>ints, <3>2, <3>3, <3>4, <3>5 DEF Balance
  <2>2. CASE Lose(<<r>>) /\ result' = [result EXCEPT ![t] = NoIface] /\ Go(t, "leave")
    <3>1. /\ pc[t] = "query_progid" /\ pc'[t] = "leave"
          /\ result'[t] = NoIface /\ var_args'[t] = v
      BY <1>8, <2>2 DEF TypeInv, QueryProgid
    <3>2. lost'[i] = lost[i] + Is(r, i)
      BY <1>shape, <1>facts, <2>2 DEF TypeInv, Lose
    <3>3. refs'[i] = refs[i] /\ UNCHANGED java
      BY <1>shape, <1>8, <2>2 DEF QueryProgid, java
    <3>4. Own(t, i) = Is(r, i) + Count(v, i)
      BY <1>shape, <1>facts, <3>1 DEF Own, Owed
    <3>5. Own(t, i)' = Is(NoIface, i) + Count(v, i)
      BY <1>shape, <1>facts, <3>1 DEF Own, Owed
    <3>6. own = 0
      BY <3>3, OwnersSame
    <3>7. QED
      BY <1>ints, <3>2, <3>3, <3>4, <3>5, <3>6 DEF Balance
  <2>3. QED
    BY <1>8, <2>1, <2>2 DEF QueryProgid
<1>9. ASSUME NameToBstr(t) PROVE Balance(t, i)
  <2>1. /\ pc[t] = "native" /\ pc'[t] = "ids"
        /\ result'[t] = r /\ var_args'[t] = v
    BY <1>9 DEF TypeInv, NameToBstr
  <2>2. /\ refs'[i] = refs[i] + Is(Bstr, i) /\ lost'[i] = lost[i]
        /\ UNCHANGED java
    BY <1>shape, <1>facts, <1>9 DEF TypeInv, NameToBstr, AddRef, Release, AddAndRelease,
       Lose, java
  <2>3. Own(t, i) = Is(r, i) + Count(v, i)
    BY <1>shape, <1>facts, <2>1 DEF Own, Owed
  <2>4. Own(t, i)' = Is(r, i) + Is(Bstr, i) + Count(v, i)
    BY <1>shape, <1>facts, <2>1 DEF Own, Owed
  <2>5. own = 0
    BY <2>2, OwnersSame
  <2>6. QED
    BY <1>ints, <2>2, <2>3, <2>4, <2>5 DEF Balance
<1>10. ASSUME GetDispid(t) PROVE Balance(t, i)
  <2>1. /\ pc[t] = "ids" /\ pc'[t] \in {"convert", "dispid", "leave"}
        /\ result'[t] = r /\ var_args'[t] = v
    BY <1>10 DEF TypeInv, GetDispid
  <2>2. /\ refs'[i] = refs[i] - Is(Bstr, i) /\ lost'[i] = lost[i]
        /\ UNCHANGED java
    BY <1>shape, <1>facts, <1>10 DEF TypeInv, GetDispid, AddRef, Release, AddAndRelease,
       Lose, java
  <2>3. Own(t, i) = Is(r, i) + Is(Bstr, i) + Count(v, i)
    BY <1>shape, <1>facts, <2>1 DEF Own, Owed
  <2>4. Own(t, i)' = Is(r, i) + Count(v, i)
    BY <1>shape, <1>facts, <2>1 DEF Own, Owed
  <2>5. own = 0
    BY <2>2, OwnersSame
  <2>6. QED
    BY <1>ints, <2>2, <2>3, <2>4, <2>5 DEF Balance
<1>11. ASSUME CheckDispid(t) PROVE Balance(t, i)
  <2>1. /\ pc[t] = "dispid" /\ pc'[t] \in {"convert", "leave"}
        /\ result'[t] = r /\ var_args'[t] = v
    BY <1>11 DEF TypeInv, CheckDispid
  <2>2. /\ refs'[i] = refs[i] /\ lost'[i] = lost[i]
        /\ UNCHANGED java
    BY <1>shape, <1>facts, <1>11 DEF TypeInv, CheckDispid, java
  <2>3. Own(t, i) = Is(r, i) + Count(v, i)
    BY <1>shape, <1>facts, <2>1 DEF Own, Owed
  <2>4. Own(t, i)' = Is(r, i) + Count(v, i)
    BY <1>shape, <1>facts, <2>1 DEF Own, Owed
  <2>5. own = 0
    BY <2>2, OwnersSame
  <2>6. QED
    BY <1>ints, <2>2, <2>3, <2>4, <2>5 DEF Balance
<1>12. ASSUME ConvertPlain(t) PROVE Balance(t, i)
  <2>1. /\ pc[t] = "convert" /\ pc'[t] = "convert"
        /\ result'[t] = r /\ var_args'[t] = <<NoIface>> \o v
    BY <1>12 DEF TypeInv, ConvertPlain, Converting, Converted
  <2>2. /\ refs'[i] = refs[i] /\ lost'[i] = lost[i]
        /\ UNCHANGED java
    BY <1>shape, <1>facts, <1>12 DEF TypeInv, ConvertPlain, java, Converting, Converted
  <2>3. Own(t, i) = Is(r, i) + Count(v, i)
    BY <1>shape, <1>facts, <2>1 DEF Own, Owed
  <2>4. Count(<<NoIface>> \o v, i) = Count(v, i)
    BY <1>facts, <1>count
  <2>5. Own(t, i)' = Is(r, i) + Count(v, i)
    BY <2>4, <1>shape, <1>facts, <2>1 DEF Own, Owed
  <2>6. own = 0
    BY <2>2, OwnersSame
  <2>7. QED
    BY <1>ints, <2>2, <2>3, <2>5, <2>6 DEF Balance
<1>13. ASSUME ConvertText(t) PROVE Balance(t, i)
  <2>1. CASE AddRef(Bstr) /\ Converted(t, Bstr) /\ UNCHANGED pc
    <3>1. /\ pc[t] = "convert" /\ pc'[t] = "convert"
          /\ result'[t] = r /\ var_args'[t] = <<Bstr>> \o v
      BY <1>13, <2>1 DEF TypeInv, ConvertText, Converting, Converted
    <3>2. refs'[i] = refs[i] + Is(Bstr, i)
      BY <1>shape, <1>facts, <2>1 DEF TypeInv, AddRef, Release, AddAndRelease
    <3>3. lost'[i] = lost[i] /\ UNCHANGED java
      BY <1>shape, <1>13, <2>1 DEF ConvertText, java
    <3>4. Own(t, i) = Is(r, i) + Count(v, i)
      BY <1>shape, <1>facts, <3>1 DEF Own, Owed
    <3>5. Count(<<Bstr>> \o v, i) = Count(v, i) + Is(Bstr, i)
      BY <1>facts, <1>count
    <3>6. Own(t, i)' = Is(r, i) + (Count(v, i) + Is(Bstr, i))
      BY <3>5, <1>shape, <1>facts, <3>1 DEF Own, Owed
    <3>7. own = 0
      BY <3>3, OwnersSame
    <3>8. QED
      BY <1>ints, <3>2, <3>3, <3>4, <3>6, <3>7 DEF Balance
  <2>2. CASE Go(t, "unwind") /\ UNCHANGED <<refs, freed, args, var_args>>
    <3>1. /\ pc[t] = "convert" /\ pc'[t] = "unwind"
          /\ result'[t] = r /\ var_args'[t] = v
      BY <1>13, <2>2 DEF TypeInv, ConvertText, Converting, Converted
    <3>2. /\ refs'[i] = refs[i] /\ lost'[i] = lost[i]
          /\ UNCHANGED java
      BY <1>13, <2>2 DEF ConvertText, java
    <3>3. Own(t, i) = Is(r, i) + Count(v, i)
      BY <1>shape, <1>facts, <3>1 DEF Own, Owed
    <3>4. Own(t, i)' = Is(r, i) + Count(v, i)
      BY <1>shape, <1>facts, <3>1 DEF Own, Owed
    <3>5. own = 0
      BY <3>2, OwnersSame
    <3>6. QED
      BY <1>ints, <3>2, <3>3, <3>4, <3>5 DEF Balance
  <2>3. QED
    BY <1>13, <2>1, <2>2 DEF ConvertText
<1>14. ASSUME ConvertBad(t) PROVE Balance(t, i)
  <2>1. /\ pc[t] = "convert" /\ pc'[t] = "unwind"
        /\ result'[t] = r /\ var_args'[t] = v
    BY <1>14 DEF TypeInv, ConvertBad, Converting
  <2>2. /\ refs'[i] = refs[i] /\ lost'[i] = lost[i]
        /\ UNCHANGED java
    BY <1>shape, <1>facts, <1>14 DEF TypeInv, ConvertBad, java, Converting
  <2>3. Own(t, i) = Is(r, i) + Count(v, i)
    BY <1>shape, <1>facts, <2>1 DEF Own, Owed
  <2>4. Own(t, i)' = Is(r, i) + Count(v, i)
    BY <1>shape, <1>facts, <2>1 DEF Own, Owed
  <2>5. own = 0
    BY <2>2, OwnersSame
  <2>6. QED
    BY <1>ints, <2>2, <2>3, <2>4, <2>5 DEF Balance
<1>15. ASSUME EnterArgument(t) PROVE Balance(t, i)
  <2>1. /\ pc[t] = "convert" /\ pc'[t] = "monitor"
        /\ result'[t] = r /\ var_args'[t] = v
    BY <1>15 DEF TypeInv, EnterArgument, Converting
  <2>2. /\ refs'[i] = refs[i] /\ lost'[i] = lost[i]
        /\ UNCHANGED java
    BY <1>shape, <1>facts, <1>15 DEF TypeInv, EnterArgument, java, Converting
  <2>3. Own(t, i) = Is(r, i) + Count(v, i)
    BY <1>shape, <1>facts, <2>1 DEF Own, Owed
  <2>4. Own(t, i)' = Is(r, i) + Count(v, i)
    BY <1>shape, <1>facts, <2>1 DEF Own, Owed
  <2>5. own = 0
    BY <2>2, OwnersSame
  <2>6. QED
    BY <1>ints, <2>2, <2>3, <2>4, <2>5 DEF Balance
<1>16. ASSUME ExitArgument(t) PROVE Balance(t, i)
  <2>1. /\ pc[t] = "monitor" /\ pc'[t] = "verify"
        /\ result'[t] = r /\ var_args'[t] = v
    BY <1>16 DEF TypeInv, ExitArgument
  <2>2. /\ refs'[i] = refs[i] /\ lost'[i] = lost[i]
        /\ UNCHANGED java
    BY <1>shape, <1>facts, <1>16 DEF TypeInv, ExitArgument, java
  <2>3. Own(t, i) = Is(r, i) + Count(v, i)
    BY <1>shape, <1>facts, <2>1 DEF Own, Owed
  <2>4. Own(t, i)' = Is(r, i) + Count(v, i)
    BY <1>shape, <1>facts, <2>1 DEF Own, Owed
  <2>5. own = 0
    BY <2>2, OwnersSame
  <2>6. QED
    BY <1>ints, <2>2, <2>3, <2>4, <2>5 DEF Balance
<1>17. ASSUME VerifyArgument(t) PROVE Balance(t, i)
  <2>1. /\ pc[t] = "verify" /\ pc'[t] \in {"addref", "unwind"}
        /\ result'[t] = r /\ var_args'[t] = v
    BY <1>17 DEF TypeInv, VerifyArgument
  <2>2. /\ refs'[i] = refs[i] /\ lost'[i] = lost[i]
        /\ UNCHANGED java
    BY <1>shape, <1>facts, <1>17 DEF TypeInv, VerifyArgument, java
  <2>3. Own(t, i) = Is(r, i) + Count(v, i)
    BY <1>shape, <1>facts, <2>1 DEF Own, Owed
  <2>4. Own(t, i)' = Is(r, i) + Count(v, i)
    BY <1>shape, <1>facts, <2>1 DEF Own, Owed
  <2>5. own = 0
    BY <2>2, OwnersSame
  <2>6. QED
    BY <1>ints, <2>2, <2>3, <2>4, <2>5 DEF Balance
<1>18. ASSUME AddRefArgument(t) PROVE Balance(t, i)
  <2> DEFINE y == ptr[Head(args[t])]
  <2>1. y \in Variant /\ Is(y, i) \in Nat /\ Count(<<y>>, i) = Is(y, i)
    <3>1. Head(args[t]) \in Objects
      BY <1>shape, <1>18 DEF AddRefArgument, ThreadShape
    <3>2. y \in Variant
      BY <3>1 DEF TypeInv, Variant, Counted
    <3>3. QED
      BY <1>count, <3>2
  <2>2. CASE UNCHANGED <<heap, pc, args, var_args>>
    <3>1. /\ pc[t] = "addref" /\ pc'[t] = "addref"
          /\ result'[t] = r /\ var_args'[t] = v
      BY <1>18, <2>2 DEF TypeInv, AddRefArgument
    <3>2. /\ refs'[i] = refs[i] /\ lost'[i] = lost[i]
          /\ UNCHANGED java
      BY <1>18, <2>2 DEF AddRefArgument, java
    <3>3. Own(t, i) = Is(r, i) + Count(v, i)
      BY <1>shape, <1>facts, <3>1 DEF Own, Owed
    <3>4. Own(t, i)' = Is(r, i) + Count(v, i)
      BY <1>shape, <1>facts, <3>1, <2>1 DEF Own, Owed
    <3>5. own = 0
      BY <3>2, OwnersSame
    <3>6. QED
      BY <1>ints, <3>2, <3>3, <3>4, <3>5, <2>1 DEF Balance
  <2>3. CASE AddRef(y) /\ Converted(t, y) /\ Go(t, "convert") /\ UNCHANGED lost
    <3>1. /\ pc[t] = "addref" /\ pc'[t] = "convert"
          /\ result'[t] = r /\ var_args'[t] = <<y>> \o v
      BY <1>18, <2>1, <2>3 DEF TypeInv, AddRefArgument, Converted
    <3>2. refs'[i] = refs[i] + Is(y, i)
      BY <1>shape, <1>facts, <2>1, <2>3 DEF TypeInv, AddRef, Release, AddAndRelease
    <3>3. lost'[i] = lost[i] /\ UNCHANGED java
      BY <1>shape, <1>18, <2>1, <2>3 DEF AddRefArgument, java
    <3>4. Own(t, i) = Is(r, i) + Count(v, i)
      BY <1>shape, <1>facts, <3>1 DEF Own, Owed
    <3>5. Count(<<y>> \o v, i) = Count(v, i) + Is(y, i)
      BY <1>facts, <1>count, <2>1
    <3>6. Own(t, i)' = Is(r, i) + (Count(v, i) + Is(y, i))
      BY <3>5, <1>shape, <1>facts, <3>1, <2>1 DEF Own, Owed
    <3>7. own = 0
      BY <3>3, OwnersSame
    <3>8. QED
      BY <1>ints, <3>2, <3>3, <3>4, <3>6, <3>7, <2>1 DEF Balance
  <2>4. CASE AddRef(y) /\ Lose(<<y>>) /\ Go(t, "unwind") /\ UNCHANGED <<args, var_args>>
    <3>1. /\ pc[t] = "addref" /\ pc'[t] = "unwind"
          /\ result'[t] = r /\ var_args'[t] = v
      BY <1>18, <2>4 DEF TypeInv, AddRefArgument
    <3>2. refs'[i] = refs[i] + Is(y, i)
      BY <1>shape, <1>facts, <2>1, <2>4 DEF TypeInv, AddRef, Release, AddAndRelease
    <3>3. lost'[i] = lost[i] + Is(y, i)
      BY <2>1, <2>4 DEF Lose
    <3>4. Own(t, i) = Is(r, i) + Count(v, i)
      BY <1>shape, <1>facts, <3>1 DEF Own, Owed
    <3>5. Own(t, i)' = Is(r, i) + Count(v, i)
      BY <1>shape, <1>facts, <3>1 DEF Own, Owed
    <3>6. own = 0
      <4>1. UNCHANGED java
        BY <1>18 DEF AddRefArgument, java
      <4>2. QED
        BY <4>1, OwnersSame
    <3>7. QED
      BY <1>ints, <2>1, <3>2, <3>3, <3>4, <3>5, <3>6 DEF Balance
  <2>5. QED
    BY <1>18, <2>2, <2>3, <2>4 DEF AddRefArgument
<1>19. ASSUME Unwind(t) PROVE Balance(t, i)
  <2>1. /\ pc[t] = "unwind" /\ pc'[t] = "leave"
        /\ result'[t] = r /\ var_args'[t] = <<>>
    BY <1>19 DEF TypeInv, Unwind
  <2>2. /\ refs'[i] = refs[i] - Count(v, i) /\ lost'[i] = lost[i]
        /\ UNCHANGED java
    BY <1>shape, <1>facts, <1>19 DEF TypeInv, Unwind, AddRef, Release, AddAndRelease,
       Lose, java
  <2>3. Own(t, i) = Is(r, i) + Count(v, i)
    BY <1>shape, <1>facts, <2>1 DEF Own, Owed
  <2>4. Own(t, i)' = Is(r, i) + 0
    BY <1>shape, <1>facts, <2>1 DEF Own, Owed
  <2>5. own = 0
    BY <2>2, OwnersSame
  <2>6. QED
    BY <1>ints, <2>2, <2>3, <2>4, <2>5 DEF Balance
<1>20. ASSUME Invoke(t) PROVE Balance(t, i)
  <2>1. ASSUME NEW y \in Results(t), NEW d \in BOOLEAN,
               AddAndRelease(<<y>>, v), Go(t, "result"), UNCHANGED lost,
               result' = [result EXCEPT ![t] = y]
        PROVE  Balance(t, i)
    <3>1. /\ pc[t] = "convert" /\ pc'[t] = "result"
          /\ result'[t] = y /\ var_args'[t] = <<>>
      BY <1>20, <2>1 DEF TypeInv, Invoke
    <3>2. refs'[i] = refs[i] + (Is(y, i) - Count(v, i))
      BY <1>shape, <1>facts, <1>count, <2>1 DEF TypeInv, AddRef, Release, AddAndRelease
    <3>3. lost'[i] = lost[i] /\ UNCHANGED java
      BY <1>shape, <1>20, <2>1 DEF Invoke, java
    <3>4. Own(t, i) = Is(r, i) + Count(v, i)
      BY <1>shape, <1>facts, <3>1 DEF Own, Owed
    <3>5. Is(y, i) \in Nat
      BY <1>count
    <3>6. Own(t, i)' = Is(y, i) + 0
      BY <3>5, <1>shape, <1>facts, <3>1 DEF Own, Owed
    <3>7. Is(r, i) = 0
      BY <1>shape, <1>facts, <3>1 DEF ThreadShape
    <3>8. own = 0
      BY <3>3, OwnersSame
    <3>9. QED
      BY <1>ints, <3>2, <3>3, <3>4, <3>5, <3>6, <3>7, <3>8 DEF Balance
  <2>2. CASE Release(v) /\ Go(t, "leave") /\ UNCHANGED <<lost, out>>
    <3>1. /\ pc[t] = "convert" /\ pc'[t] = "leave"
          /\ result'[t] = r /\ var_args'[t] = <<>>
      BY <1>20, <2>2 DEF TypeInv, Invoke
    <3>2. refs'[i] = refs[i] - Count(v, i)
      BY <1>shape, <1>facts, <2>2 DEF TypeInv, AddRef, Release, AddAndRelease
    <3>3. lost'[i] = lost[i] /\ UNCHANGED java
      BY <1>shape, <1>20, <2>2 DEF Invoke, java
    <3>4. Own(t, i) = Is(r, i) + Count(v, i)
      BY <1>shape, <1>facts, <3>1 DEF Own, Owed
    <3>5. Own(t, i)' = Is(r, i) + 0
      BY <1>shape, <1>facts, <3>1 DEF Own, Owed
    <3>6. Is(r, i) = 0
      BY <1>shape, <1>facts, <3>1 DEF ThreadShape
    <3>7. own = 0
      BY <3>3, OwnersSame
    <3>8. QED
      BY <1>ints, <3>2, <3>3, <3>4, <3>5, <3>6, <3>7 DEF Balance
  <2>3. CASE AddAndRelease(<<Bstr>>, v) /\ Go(t, "excepinfo") /\ UNCHANGED <<lost, out>>
    <3>1. /\ pc[t] = "convert" /\ pc'[t] = "excepinfo"
          /\ result'[t] = r /\ var_args'[t] = <<>>
      BY <1>20, <2>3 DEF TypeInv, Invoke
    <3>2. refs'[i] = refs[i] + (Is(Bstr, i) - Count(v, i))
      BY <1>shape, <1>facts, <2>3 DEF TypeInv, AddRef, Release, AddAndRelease
    <3>3. lost'[i] = lost[i] /\ UNCHANGED java
      BY <1>shape, <1>20, <2>3 DEF Invoke, java
    <3>4. Own(t, i) = Is(r, i) + Count(v, i)
      BY <1>shape, <1>facts, <3>1 DEF Own, Owed
    <3>5. Own(t, i)' = Is(r, i) + Is(Bstr, i) + 0
      BY <1>shape, <1>facts, <3>1 DEF Own, Owed
    <3>6. Is(r, i) = 0
      BY <1>shape, <1>facts, <3>1 DEF ThreadShape
    <3>7. own = 0
      BY <3>3, OwnersSame
    <3>8. QED
      BY <1>ints, <3>2, <3>3, <3>4, <3>5, <3>6, <3>7 DEF Balance
  <2>4. CASE Lose(v) /\ Go(t, "leave") /\ UNCHANGED <<refs, freed, out>>
    <3>1. /\ pc[t] = "convert" /\ pc'[t] = "leave"
          /\ result'[t] = r /\ var_args'[t] = <<>>
      BY <1>20, <2>4 DEF TypeInv, Invoke
    <3>2. lost'[i] = lost[i] + Count(v, i)
      BY <1>shape, <1>facts, <2>4 DEF TypeInv, Lose
    <3>3. refs'[i] = refs[i] /\ UNCHANGED java
      BY <1>shape, <1>20, <2>4 DEF Invoke, java
    <3>4. Own(t, i) = Is(r, i) + Count(v, i)
      BY <1>shape, <1>facts, <3>1 DEF Own, Owed
    <3>5. Own(t, i)' = Is(r, i) + 0
      BY <1>shape, <1>facts, <3>1 DEF Own, Owed
    <3>6. Is(r, i) = 0
      BY <1>shape, <1>facts, <3>1 DEF ThreadShape
    <3>7. own = 0
      BY <3>3, OwnersSame
    <3>8. QED
      BY <1>ints, <3>2, <3>3, <3>4, <3>5, <3>6, <3>7 DEF Balance
  <2>5. QED
    BY <1>20, <2>1, <2>2, <2>3, <2>4 DEF Invoke
<1>21. ASSUME AppendExcepinfo(t) PROVE Balance(t, i)
  <2>1. CASE Release(<<Bstr>>) /\ UNCHANGED lost
    <3>1. /\ pc[t] = "excepinfo" /\ pc'[t] = "leave"
          /\ result'[t] = r /\ var_args'[t] = v
      BY <1>21, <2>1 DEF TypeInv, AppendExcepinfo
    <3>2. refs'[i] = refs[i] - Is(Bstr, i)
      BY <1>shape, <1>facts, <2>1 DEF TypeInv, AddRef, Release, AddAndRelease
    <3>3. lost'[i] = lost[i] /\ UNCHANGED java
      BY <1>shape, <1>21, <2>1 DEF AppendExcepinfo, java
    <3>4. Own(t, i) = Is(r, i) + Is(Bstr, i) + Count(v, i)
      BY <1>shape, <1>facts, <3>1 DEF Own, Owed
    <3>5. Own(t, i)' = Is(r, i) + Count(v, i)
      BY <1>shape, <1>facts, <3>1 DEF Own, Owed
    <3>6. own = 0
      BY <3>3, OwnersSame
    <3>7. QED
      BY <1>ints, <3>2, <3>3, <3>4, <3>5, <3>6 DEF Balance
  <2>2. CASE Lose(<<Bstr>>) /\ UNCHANGED <<refs, freed>>
    <3>1. /\ pc[t] = "excepinfo" /\ pc'[t] = "leave"
          /\ result'[t] = r /\ var_args'[t] = v
      BY <1>21, <2>2 DEF TypeInv, AppendExcepinfo
    <3>2. lost'[i] = lost[i] + Is(Bstr, i)
      BY <1>shape, <1>facts, <2>2 DEF TypeInv, Lose
    <3>3. refs'[i] = refs[i] /\ UNCHANGED java
      BY <1>shape, <1>21, <2>2 DEF AppendExcepinfo, java
    <3>4. Own(t, i) = Is(r, i) + Is(Bstr, i) + Count(v, i)
      BY <1>shape, <1>facts, <3>1 DEF Own, Owed
    <3>5. Own(t, i)' = Is(r, i) + Count(v, i)
      BY <1>shape, <1>facts, <3>1 DEF Own, Owed
    <3>6. own = 0
      BY <3>3, OwnersSame
    <3>7. QED
      BY <1>ints, <3>2, <3>3, <3>4, <3>5, <3>6 DEF Balance
  <2>3. QED
    BY <1>21, <2>1, <2>2 DEF AppendExcepinfo
<1>22. ASSUME ConvertResult(t) PROVE Balance(t, i)
  <2>1. /\ pc[t] = "result" /\ pc'[t] = "clear"
        /\ result'[t] = r /\ var_args'[t] = v
    BY <1>22 DEF TypeInv, ConvertResult
  <2>2. /\ refs'[i] = refs[i] /\ lost'[i] = lost[i]
        /\ UNCHANGED java
    BY <1>shape, <1>facts, <1>22 DEF TypeInv, ConvertResult, java
  <2>3. Own(t, i) = Is(r, i) + Count(v, i)
    BY <1>shape, <1>facts, <2>1 DEF Own, Owed
  <2>4. Own(t, i)' = Is(r, i) + Count(v, i)
    BY <1>shape, <1>facts, <2>1 DEF Own, Owed
  <2>5. own = 0
    BY <2>2, OwnersSame
  <2>6. QED
    BY <1>ints, <2>2, <2>3, <2>4, <2>5 DEF Balance
<1>23. ASSUME AddRefResult(t) PROVE Balance(t, i)
  <2>1. /\ pc[t] = "result" /\ pc'[t] \in {"progid", "construct"}
        /\ result'[t] = r /\ var_args'[t] = v
    BY <1>23 DEF TypeInv, AddRefResult
  <2>2. /\ refs'[i] = refs[i] + Is(r, i) /\ lost'[i] = lost[i]
        /\ UNCHANGED java
    BY <1>shape, <1>facts, <1>23 DEF TypeInv, AddRefResult, AddRef, Release,
       AddAndRelease, Lose, java
  <2>3. Own(t, i) = Is(r, i) + Count(v, i)
    BY <1>shape, <1>facts, <2>1 DEF Own, Owed
  <2>4. Own(t, i)' = Is(r, i) + Is(r, i) + Count(v, i)
    BY <1>shape, <1>facts, <2>1 DEF Own, Owed
  <2>5. own = 0
    BY <2>2, OwnersSame
  <2>6. QED
    BY <1>ints, <2>2, <2>3, <2>4, <2>5 DEF Balance
<1>24. ASSUME GetProgid(t) PROVE Balance(t, i)
  <2>1. CASE Go(t, "construct") /\ UNCHANGED <<refs, freed>>
    <3>1. /\ pc[t] = "progid" /\ pc'[t] = "construct"
          /\ result'[t] = r /\ var_args'[t] = v
      BY <1>24, <2>1 DEF TypeInv, GetProgid
    <3>2. /\ refs'[i] = refs[i] /\ lost'[i] = lost[i]
          /\ UNCHANGED java
      BY <1>24, <2>1 DEF GetProgid, java
    <3>3. Own(t, i) = Is(r, i) + Is(r, i) + Count(v, i)
      BY <1>shape, <1>facts, <3>1 DEF Own, Owed
    <3>4. Own(t, i)' = Is(r, i) + Is(r, i) + Count(v, i)
      BY <1>shape, <1>facts, <3>1 DEF Own, Owed
    <3>5. own = 0
      BY <3>2, OwnersSame
    <3>6. QED
      BY <1>ints, <3>2, <3>3, <3>4, <3>5 DEF Balance
  <2>2. CASE Go(t, "clear") /\ Release(<<r>>)
    <3>1. /\ pc[t] = "progid" /\ pc'[t] = "clear"
          /\ result'[t] = r /\ var_args'[t] = v
      BY <1>24, <2>2 DEF TypeInv, GetProgid
    <3>2. refs'[i] = refs[i] - Is(r, i)
      BY <1>shape, <1>facts, <2>2 DEF TypeInv, AddRef, Release, AddAndRelease
    <3>3. lost'[i] = lost[i] /\ UNCHANGED java
      BY <1>shape, <1>24, <2>2 DEF GetProgid, java
    <3>4. Own(t, i) = Is(r, i) + Is(r, i) + Count(v, i)
      BY <1>shape, <1>facts, <3>1 DEF Own, Owed
    <3>5. Own(t, i)' = Is(r, i) + Count(v, i)
      BY <1>shape, <1>facts, <3>1 DEF Own, Owed
    <3>6. own = 0
      BY <3>3, OwnersSame
    <3>7. QED
      BY <1>ints, <3>2, <3>3, <3>4, <3>5, <3>6 DEF Balance
  <2>3. QED
    BY <1>24, <2>1, <2>2 DEF GetProgid
<1>25. ASSUME Construct(t) PROVE Balance(t, i)
  <2>1. ASSUME NEW o \in Objects, ptr[o] = NoIface, ptr' = [ptr EXCEPT ![o] = r],
               UNCHANGED <<refs, freed>>
        PROVE  Balance(t, i)
    <3>1. /\ pc[t] = "construct" /\ pc'[t] = "clear"
          /\ result'[t] = r /\ var_args'[t] = v
      BY <1>25 DEF TypeInv, Construct, Back
    <3>2. refs'[i] = refs[i] /\ lost'[i] = lost[i] /\ released' = released
      BY <1>25, <2>1 DEF Construct
    <3>3. ~released[o] /\ ptr'[o] = r /\ \A p \in Objects \ {o} : ptr'[p] = ptr[p]
      BY <2>1 DEF TypeInv, ReleasedInv
    <3>4. own = Is(r, i)
      <4>1. own = One(ptr'[o] = i /\ ~released'[o]) - One(ptr[o] = i /\ ~released[o])
        BY <3>2, <3>3, OwnersMove
      <4>2. QED
        BY <1>shape, <2>1, <3>2, <3>3, <4>1 DEF One, Is
    <3>5. Own(t, i) = Is(r, i) + Is(r, i) + Count(v, i)
      BY <1>shape, <1>facts, <3>1 DEF Own, Owed
    <3>6. Own(t, i)' = Is(r, i) + Count(v, i)
      BY <1>shape, <1>facts, <3>1 DEF Own, Owed
    <3>7. QED
      BY <1>ints, <3>2, <3>4, <3>5, <3>6 DEF Balance
  <2>2. CASE Release(<<r>>) /\ UNCHANGED <<ptr, unknown>>
    <3>1. /\ pc[t] = "construct" /\ pc'[t] = "clear"
          /\ result'[t] = r /\ var_args'[t] = v
      BY <1>25, <2>2 DEF TypeInv, Construct
    <3>2. refs'[i] = refs[i] - Is(r, i)
      BY <1>shape, <1>facts, <2>2 DEF TypeInv, AddRef, Release, AddAndRelease
    <3>3. lost'[i] = lost[i] /\ UNCHANGED java
      BY <1>shape, <1>25, <2>2 DEF Construct, java
    <3>4. Own(t, i) = Is(r, i) + Is(r, i) + Count(v, i)
      BY <1>shape, <1>facts, <3>1 DEF Own, Owed
    <3>5. Own(t, i)' = Is(r, i) + Count(v, i)
      BY <1>shape, <1>facts, <3>1 DEF Own, Owed
    <3>6. own = 0
      BY <3>3, OwnersSame
    <3>7. QED
      BY <1>ints, <3>2, <3>3, <3>4, <3>5, <3>6 DEF Balance
  <2>3. QED
    BY <1>25, <2>1, <2>2 DEF Construct
<1>26. ASSUME ClearResult(t) PROVE Balance(t, i)
  <2>1. /\ pc[t] = "clear" /\ pc'[t] = "leave"
        /\ result'[t] = NoIface /\ var_args'[t] = v
    BY <1>26 DEF TypeInv, ClearResult
  <2>2. /\ refs'[i] = refs[i] - Is(r, i) /\ lost'[i] = lost[i]
        /\ UNCHANGED java
    BY <1>shape, <1>facts, <1>26 DEF TypeInv, ClearResult, AddRef, Release, AddAndRelease,
       Lose, java
  <2>3. Own(t, i) = Is(r, i) + Count(v, i)
    BY <1>shape, <1>facts, <2>1 DEF Own, Owed
  <2>4. Own(t, i)' = Is(NoIface, i) + Count(v, i)
    BY <1>shape, <1>facts, <2>1 DEF Own, Owed
  <2>5. own = 0
    BY <2>2, OwnersSame
  <2>6. QED
    BY <1>ints, <2>2, <2>3, <2>4, <2>5 DEF Balance
<1>27. ASSUME Create(t) PROVE Balance(t, i)
  <2>1. /\ pc[t] = "idle" /\ pc'[t] = "create"
        /\ result'[t] = r /\ var_args'[t] = v
    BY <1>27 DEF TypeInv, Create
  <2>2. /\ refs'[i] = refs[i] /\ lost'[i] = lost[i]
        /\ UNCHANGED java
    BY <1>shape, <1>facts, <1>27 DEF TypeInv, Create, java
  <2>3. Own(t, i) = Is(r, i) + Count(v, i)
    BY <1>shape, <1>facts, <2>1 DEF Own, Owed
  <2>4. Own(t, i)' = Is(r, i) + Count(v, i)
    BY <1>shape, <1>facts, <2>1 DEF Own, Owed
  <2>5. own = 0
    BY <2>2, OwnersSame
  <2>6. QED
    BY <1>ints, <2>2, <2>3, <2>4, <2>5 DEF Balance
<1>refused. ASSUME MonitorRefused(t) PROVE Balance(t, i)
  <2>1. /\ pc[t] = "convert" /\ pc'[t] = "unwind"
        /\ result'[t] = r /\ var_args'[t] = v
    BY <1>refused DEF TypeInv, MonitorRefused, Converting
  <2>2. /\ refs'[i] = refs[i] /\ lost'[i] = lost[i]
        /\ UNCHANGED java
    BY <1>shape, <1>facts, <1>refused DEF TypeInv, MonitorRefused, java, Converting
  <2>3. Own(t, i) = Is(r, i) + Count(v, i)
    BY <1>shape, <1>facts, <2>1 DEF Own, Owed
  <2>4. Own(t, i)' = Is(r, i) + Count(v, i)
    BY <1>shape, <1>facts, <2>1 DEF Own, Owed
  <2>5. own = 0
    BY <2>2, OwnersSame
  <2>6. QED
    BY <1>ints, <2>2, <2>3, <2>4, <2>5 DEF Balance
<1>28. ASSUME Begins(t) PROVE Balance(t, i)
  <2>1. /\ pc[t] = "idle" /\ pc'[t] = "enter"
        /\ result'[t] = r /\ var_args'[t] = v
    BY <1>28 DEF TypeInv, Begins, Begin
  <2>2. /\ refs'[i] = refs[i] /\ lost'[i] = lost[i]
        /\ UNCHANGED java
    BY <1>shape, <1>facts, <1>28 DEF TypeInv, Begins, Begin, java
  <2>3. Own(t, i) = Is(r, i) + Count(v, i)
    BY <1>shape, <1>facts, <2>1 DEF Own, Owed
  <2>4. Own(t, i)' = Is(r, i) + Count(v, i)
    BY <1>shape, <1>facts, <2>1 DEF Own, Owed
  <2>5. own = 0
    BY <2>2, OwnersSame
  <2>6. QED
    BY <1>ints, <2>2, <2>3, <2>4, <2>5 DEF Balance
<1>29. QED
  BY <1>1, <1>2, <1>3, <1>4, <1>5, <1>6, <1>7, <1>8, <1>9, <1>10, <1>11, <1>12, <1>13,
     <1>14, <1>15, <1>16, <1>17, <1>18, <1>19, <1>20, <1>21, <1>22, <1>23, <1>24, <1>25,
     <1>26, <1>27, <1>28, <1>refused DEF Step, InCall, Creating, LookingUp

\* The number of holders is the sum of its parts.
LEMMA HoldersNat ==
  ASSUME TypeInv, NEW i \in Counted
  PROVE  /\ Cardinality(Owners(i)) \in Nat /\ Rest(i) \in Nat /\ lost[i] \in Nat
         /\ Holders(i) = Cardinality(Owners(i)) + Rest(i) + lost[i]
<1>1. Cardinality(Owners(i)) \in Nat /\ lost[i] \in Nat
  BY OwnersFinite, FS_CardinalityType DEF TypeInv
<1>2. IsFiniteSet(Variants(i))
  <2>1. Variants(i) = Places(var_args, i)
    BY DEF Variants, Places
  <2>2. QED
    BY <2>1, PlacesFinite
<1>3. /\ Cardinality(Releasing(i)) \in Nat /\ Cardinality(Resulting(i)) \in Nat
      /\ Cardinality(Making(i)) \in Nat /\ Cardinality(Naming(i)) \in Nat
      /\ Cardinality(Variants(i)) \in Nat
  BY <1>2, HoldersFinite, FS_CardinalityType
<1>4. QED
  BY <1>1, <1>3 DEF Rest, Holders

\* Initially the counts are those of the objects that exist.
LEMMA AccountedInit == ASSUME Init PROVE Accounted /\ FreedInv
<1>1. TypeInv
  BY TypeInit
<1>2. ASSUME NEW i \in Counted PROVE refs[i] = Holders(i)
  <2>1. /\ Releasing(i) = {} /\ Resulting(i) = {} /\ Making(i) = {} /\ Naming(i) = {}
        /\ Variants(i) = {}
    <3>1. NoIface # i
      BY ComAssumption DEF Counted
    <3>2. \A t \in Threads : /\ pc[t] = "idle" /\ result[t] = NoIface
                             /\ var_args[t] = <<>>
      BY DEF Init
    <3>3. Releasing(i) = {} /\ Resulting(i) = {} /\ Making(i) = {} /\ Naming(i) = {}
      BY <3>1, <3>2 DEF Releasing, Resulting, Making, Naming
    <3>4. Variants(i) = {}
      BY <3>2 DEF Variants
    <3>5. QED
      BY <3>3, <3>4
  <2>2. Rest(i) = 0
    <3>1. Cardinality({}) = 0
      BY FS_EmptySet
    <3>2. /\ Cardinality(Releasing(i)) = 0 /\ Cardinality(Resulting(i)) = 0
          /\ Cardinality(Making(i)) = 0 /\ Cardinality(Naming(i)) = 0
          /\ Cardinality(Variants(i)) = 0
      BY <2>1, <3>1, Zenon
    <3>3. QED
      BY <3>2 DEF Rest
  <2>3. Owners(i) = {o \in Objects : Existing[o] = i}
    BY DEF Owners, Init
  <2>4. refs[i] = Cardinality(Owners(i)) /\ lost[i] = 0
    BY <2>3 DEF Init
  <2>5. QED
    BY <1>1, <2>2, <2>4, HoldersNat
<1>3. QED
  BY <1>2 DEF Accounted, FreedInv, Init

\* Each step changes counts and holders alike.
LEMMA AccountedStep ==
  ASSUME TypeInv, TypeInv', ShapeInv, ShapeInv', ReleasedInv, Accounted,
         NEW t \in Threads, Step(t)
  PROVE  Accounted' /\ \A i \in Counted : refs'[i] >= 0
<1>1. ASSUME NEW i \in Counted PROVE refs'[i] = Holders(i)' /\ refs'[i] >= 0
  <2>1. Balance(t, i)
    BY BalanceStep
  <2>2. Rest(i)' - Rest(i) = Own(t, i)' - Own(t, i)
    BY LocalStep, RestMove
  <2>3. /\ Cardinality(Owners(i)) \in Nat /\ Rest(i) \in Nat /\ lost[i] \in Nat
        /\ refs[i] = Cardinality(Owners(i)) + Rest(i) + lost[i]
    BY HoldersNat DEF Accounted
  <2>4. /\ Cardinality(Owners(i)') \in Nat /\ Rest(i)' \in Nat /\ lost'[i] \in Nat
        /\ Holders(i)' = Cardinality(Owners(i)') + Rest(i)' + lost'[i]
    <3>1. IsFiniteSet(Owners(i)') /\ IsFiniteSet(Variants(i)')
      <4>1. Variants(i)' = Places(var_args', i)
        BY DEF Variants, Places
      <4>2. QED
        BY <4>1, PlacesFinite, ComAssumption, FS_Subset DEF Owners
    <3>2. IsFiniteSet(Threads)
      BY ComAssumption
    <3>3. /\ Releasing(i)' \in SUBSET Threads /\ Resulting(i)' \in SUBSET Threads
          /\ Making(i)' \in SUBSET Threads /\ Naming(i)' \in SUBSET Threads
      BY DEF Releasing, Resulting, Making, Naming
    <3>4. /\ IsFiniteSet(Releasing(i)') /\ IsFiniteSet(Resulting(i)')
          /\ IsFiniteSet(Making(i)') /\ IsFiniteSet(Naming(i)')
      BY <3>2, <3>3, FS_Subset
    <3>5. /\ Cardinality(Releasing(i)') \in Nat /\ Cardinality(Resulting(i)') \in Nat
          /\ Cardinality(Making(i)') \in Nat /\ Cardinality(Naming(i)') \in Nat
          /\ Cardinality(Variants(i)') \in Nat /\ Cardinality(Owners(i)') \in Nat
      BY <3>1, <3>4, FS_CardinalityType
    <3>6. lost'[i] \in Nat
      BY DEF TypeInv
    <3>7. QED
      BY <3>5, <3>6 DEF Rest, Holders
  <2>5. Own(t, i) \in Int /\ Own(t, i)' \in Int
    <3>1. Count(var_args[t], i) \in Nat /\ Count(var_args'[t], i) \in Nat
      BY CountType DEF TypeInv
    <3>2. QED
      BY <3>1 DEF Own, Owed, Is
  <2>6. refs'[i] \in Int
    BY DEF TypeInv
  <2>7. refs'[i] = Cardinality(Owners(i)') + Rest(i)' + lost'[i]
    <3>1. refs'[i] - refs[i] = (Cardinality(Owners(i)') - Cardinality(Owners(i)))
                               + (Own(t, i)' - Own(t, i)) + (lost'[i] - lost[i])
      BY <2>1 DEF Balance
    <3>2. refs'[i] - refs[i] = (Cardinality(Owners(i)') - Cardinality(Owners(i)))
                               + (Rest(i)' - Rest(i)) + (lost'[i] - lost[i])
      BY <2>2, <3>1, Zenon
    <3>3. QED
      BY <2>3, <2>4, <2>6, <3>2
  <2>8. QED
    BY <2>4, <2>7
<1>2. QED
  BY <1>1 DEF Accounted

-------------------------------------------------------------------------------
(* What was freed.                                                         *)

\* Nobody has an interface that was freed.
LEMMA NobodyHasFreed ==
  ASSUME TypeInv, Accounted, FreedInv, NEW i \in freed
  PROVE  /\ \A o \in Objects : ptr[o] = i => released[o]
         /\ \A t \in Threads : result[t] # i /\ ~(pc[t] = "release" /\ ptr[recv[t]] = i)
<1>1. i \in Counted
  BY DEF TypeInv, Counted
<1>2. Holders(i) = 0
  BY <1>1 DEF Accounted, FreedInv
<1>3. Cardinality(Owners(i)) = 0 /\ Rest(i) = 0
  BY <1>1, <1>2, HoldersNat
<1>4. IsFiniteSet(Variants(i))
  <2>1. Variants(i) = Places(var_args, i)
    BY DEF Variants, Places
  <2>2. QED
    BY <2>1, PlacesFinite
<1>5. /\ Cardinality(Releasing(i)) \in Nat /\ Cardinality(Resulting(i)) \in Nat
      /\ Cardinality(Making(i)) \in Nat /\ Cardinality(Naming(i)) \in Nat
      /\ Cardinality(Variants(i)) \in Nat
  BY <1>4, HoldersFinite, FS_CardinalityType
<1>6. Cardinality(Releasing(i)) = 0 /\ Cardinality(Resulting(i)) = 0
  BY <1>3, <1>5 DEF Rest
<1>7. Owners(i) = {} /\ Releasing(i) = {} /\ Resulting(i) = {}
  BY <1>3, <1>6, OwnersFinite, HoldersFinite, FS_EmptySet
<1>8. QED
  BY <1>7 DEF Owners, Releasing, Resulting

\* A step adds no reference to an interface that was freed.
AddsAlive(S) == \/ UNCHANGED <<refs, freed>>
                \/ \E drop \in Seq(S) : AddAndRelease(<<>>, drop)
                \/ \E y \in S, drop \in Seq(S) : y \notin freed /\ AddAndRelease(<<y>>, drop)

\* No step adds a reference to what was freed.
LEMMA AddsAliveStep ==
  ASSUME TypeInv, ShapeInv, ReleasedInv, Accounted, FreedInv, NEW t \in Threads, Step(t)
  PROVE  AddsAlive(Variant)
<1> USE DEF At, Go, heap, out, call
<1>shape. /\ ThreadShape(t) /\ \A y \in Variant : <<y>> \in Seq(Variant)
          /\ <<>> \in Seq(Variant) /\ var_args[t] \in Seq(Variant)
          /\ Bstr \in Variant /\ NoIface \in Variant /\ Ifaces \subseteq Variant
          /\ Bstr \notin freed /\ NoIface \notin freed
  BY ShortSeqs, ComAssumption DEF ShapeInv, TypeInv, Variant, Counted
<1>facts. /\ result[t] \in Variant /\ result[t] \notin freed
          /\ recv[t] \in Objects => ptr[recv[t]] \in Variant
          /\ pc[t] \in {"query", "convert"} => ptr[recv[t]] \notin freed
  <2>1. result[t] \notin freed
    BY NobodyHasFreed
  <2>2. pc[t] \in {"query", "convert"} => recv[t] \in Objects /\ ~released[recv[t]]
    BY <1>shape DEF ThreadShape, ReleasedInv
  <2>3. QED
    BY <2>1, <2>2, NobodyHasFreed DEF TypeInv, Variant, Counted
<1>1. ASSUME EnterReceiver(t) PROVE AddsAlive(Variant)
  BY <1>shape, <1>facts, <1>1 DEF AddsAlive, EnterReceiver
<1>2. ASSUME Leave(t) PROVE AddsAlive(Variant)
  BY <1>shape, <1>facts, <1>2 DEF AddsAlive, Leave
<1>3. ASSUME NativeRelease(t) PROVE AddsAlive(Variant)
  BY <1>shape, <1>facts, <1>3 DEF AddsAlive, NativeRelease, AddRef, Release, ThreadShape
<1>4. ASSUME CreateFromProgid(t) PROVE AddsAlive(Variant)
  BY <1>shape, <1>facts, <1>4 DEF AddsAlive, CreateFromProgid, AddRef, Release
<1>5. ASSUME CoCreateInstance(t) PROVE AddsAlive(Variant)
  BY <1>shape, <1>facts, <1>5 DEF AddsAlive, CoCreateInstance, AddRef, Release
<1>6. ASSUME Wrap(t) PROVE AddsAlive(Variant)
  BY <1>shape, <1>facts, <1>6 DEF AddsAlive, Wrap, AddRef, Release
<1>7. ASSUME QueryForDispatch(t) PROVE AddsAlive(Variant)
  BY <1>shape, <1>facts, <1>7 DEF AddsAlive, QueryForDispatch, AddRef, Release, ThreadShape
<1>8. ASSUME QueryProgid(t) PROVE AddsAlive(Variant)
  BY <1>shape, <1>facts, <1>8 DEF AddsAlive, QueryProgid
<1>9. ASSUME NameToBstr(t) PROVE AddsAlive(Variant)
  BY <1>shape, <1>facts, <1>9 DEF AddsAlive, NameToBstr, AddRef, Release
<1>10. ASSUME GetDispid(t) PROVE AddsAlive(Variant)
  BY <1>shape, <1>facts, <1>10 DEF AddsAlive, GetDispid, AddRef, Release
<1>11. ASSUME CheckDispid(t) PROVE AddsAlive(Variant)
  BY <1>shape, <1>facts, <1>11 DEF AddsAlive, CheckDispid
<1>12. ASSUME ConvertPlain(t) PROVE AddsAlive(Variant)
  BY <1>shape, <1>facts, <1>12 DEF AddsAlive, ConvertPlain
<1>13. ASSUME ConvertText(t) PROVE AddsAlive(Variant)
  BY <1>shape, <1>facts, <1>13 DEF AddsAlive, ConvertText, AddRef, Release
<1>14. ASSUME ConvertBad(t) PROVE AddsAlive(Variant)
  BY <1>shape, <1>facts, <1>14 DEF AddsAlive, ConvertBad
<1>15. ASSUME EnterArgument(t) PROVE AddsAlive(Variant)
  BY <1>shape, <1>facts, <1>15 DEF AddsAlive, EnterArgument
<1>16. ASSUME ExitArgument(t) PROVE AddsAlive(Variant)
  BY <1>shape, <1>facts, <1>16 DEF AddsAlive, ExitArgument
<1>17. ASSUME VerifyArgument(t) PROVE AddsAlive(Variant)
  BY <1>shape, <1>facts, <1>17 DEF AddsAlive, VerifyArgument
<1>18. ASSUME AddRefArgument(t) PROVE AddsAlive(Variant)
  <2>1. Head(args[t]) \in Objects
    BY <1>shape, <1>18 DEF AddRefArgument, ThreadShape
  <2>2. ptr[Head(args[t])] \in Variant
    BY <2>1 DEF TypeInv, Variant, Counted
  <2>3. QED
    BY <1>shape, <1>18, <2>2 DEF AddsAlive, AddRefArgument, AddRef
<1>19. ASSUME Unwind(t) PROVE AddsAlive(Variant)
  BY <1>shape, <1>facts, <1>19 DEF AddsAlive, Unwind, AddRef, Release
<1>20. ASSUME Invoke(t) PROVE AddsAlive(Variant)
  <2>1. Results(t) \subseteq Variant /\ Results(t) \cap freed = {}
    BY <1>shape, <1>facts, <1>20 DEF Invoke, Results, ThreadShape
  <2>2. \/ \E r \in Results(t) : AddAndRelease(<<r>>, var_args[t])
        \/ AddAndRelease(<<>>, var_args[t])
        \/ AddAndRelease(<<Bstr>>, var_args[t])
        \/ UNCHANGED <<refs, freed>>
    BY <1>20 DEF Invoke, Release
  <2>3. QED
    BY <1>shape, <2>1, <2>2 DEF AddsAlive
<1>21. ASSUME AppendExcepinfo(t) PROVE AddsAlive(Variant)
  BY <1>shape, <1>facts, <1>21 DEF AddsAlive, AppendExcepinfo, AddRef, Release
<1>22. ASSUME ConvertResult(t) PROVE AddsAlive(Variant)
  BY <1>shape, <1>facts, <1>22 DEF AddsAlive, ConvertResult
<1>23. ASSUME AddRefResult(t) PROVE AddsAlive(Variant)
  BY <1>shape, <1>facts, <1>23 DEF AddsAlive, AddRefResult, AddRef, Release
<1>24. ASSUME GetProgid(t) PROVE AddsAlive(Variant)
  BY <1>shape, <1>facts, <1>24 DEF AddsAlive, GetProgid, AddRef, Release
<1>25. ASSUME Construct(t) PROVE AddsAlive(Variant)
  BY <1>shape, <1>facts, <1>25 DEF AddsAlive, Construct, AddRef, Release
<1>26. ASSUME ClearResult(t) PROVE AddsAlive(Variant)
  BY <1>shape, <1>facts, <1>26 DEF AddsAlive, ClearResult, AddRef, Release
<1>27. ASSUME Create(t) PROVE AddsAlive(Variant)
  BY <1>shape, <1>facts, <1>27 DEF AddsAlive, Create
<1>refused. ASSUME MonitorRefused(t) PROVE AddsAlive(Variant)
  BY <1>shape, <1>facts, <1>refused DEF AddsAlive, MonitorRefused
<1>28. ASSUME Begins(t) PROVE AddsAlive(Variant)
  BY <1>shape, <1>facts, <1>28 DEF AddsAlive, Begins, Begin
<1>29. QED
  BY <1>1, <1>2, <1>3, <1>4, <1>5, <1>6, <1>7, <1>8, <1>9, <1>10, <1>11, <1>12, <1>13,
     <1>14, <1>15, <1>16, <1>17, <1>18, <1>19, <1>20, <1>21, <1>22, <1>23, <1>24, <1>25,
     <1>26, <1>27, <1>28, <1>refused DEF Step, InCall, Creating, LookingUp

\* What is freed has no reference, and stays freed.
LEMMA FreedStep ==
  ASSUME TypeInv, FreedInv, AddsAlive(Variant), \A i \in Counted : refs'[i] >= 0
  PROVE  FreedInv'
<1>1. CASE UNCHANGED <<refs, freed>>
  BY <1>1 DEF FreedInv
<1>2. ASSUME NEW add \in Seq(Variant), NEW drop \in Seq(Variant), AddAndRelease(add, drop),
             \A i \in freed : Count(add, i) = 0
      PROVE  FreedInv'
  <2>1. ASSUME NEW i \in freed' PROVE refs'[i] = 0
    <3>1. CASE i \in freed
      <4>1. i \in Counted /\ refs[i] = 0 /\ refs'[i] >= 0
        BY <3>1 DEF TypeInv, Counted, FreedInv
      <4>2. refs'[i] = refs[i] + Count(add, i) - Count(drop, i)
        BY <1>2, <4>1 DEF AddAndRelease
      <4>3. Count(add, i) = 0 /\ Count(drop, i) \in Nat
        BY <1>2, <3>1, CountType
      <4>4. QED
        BY <4>1, <4>2, <4>3
    <3>2. CASE i \notin freed
      BY <1>2, <3>2 DEF AddAndRelease, Counted
    <3>3. QED
      BY <3>1, <3>2
  <2>2. QED
    BY <2>1 DEF FreedInv
<1>3. CASE \E drop \in Seq(Variant) : AddAndRelease(<<>>, drop)
  <2>1. PICK drop \in Seq(Variant) : AddAndRelease(<<>>, drop)
    BY <1>3
  <2>2. \A i \in freed : Count(<<>>, i) = 0
    BY CountEmpty
  <2>3. QED
    BY <1>2, <2>1, <2>2, ShortSeqs
<1>4. CASE \E y \in Variant, drop \in Seq(Variant) :
              y \notin freed /\ AddAndRelease(<<y>>, drop)
  <2>1. PICK y \in Variant, drop \in Seq(Variant) :
                y \notin freed /\ AddAndRelease(<<y>>, drop)
    BY <1>4
  <2>2. \A i \in freed : Count(<<y>>, i) = 0
    BY <2>1, CountOne
  <2>3. <<y>> \in Seq(Variant)
    BY ShortSeqs
  <2>4. QED
    BY <1>2, <2>1, <2>2, <2>3
<1>5. QED
  BY <1>1, <1>3, <1>4 DEF AddsAlive

\* Only AddRef() of an argument meets an interface that was freed.
LEMMA DamageStep ==
  ASSUME TypeInv, ShapeInv, Accounted, FreedInv, DamageOnlyByRelease,
         NEW t \in Threads, Step(t)
  PROVE  DamageOnlyByRelease'
<1>1. ~damaged
  BY DEF Step, InCall, Creating, LookingUp, At, Converting, EnterReceiver, Leave,
     NativeRelease, CreateFromProgid, CoCreateInstance, Wrap, QueryForDispatch,
     QueryProgid, NameToBstr, GetDispid, CheckDispid, ConvertPlain, ConvertText,
     ConvertBad, EnterArgument, MonitorRefused, ExitArgument, VerifyArgument,
     AddRefArgument, Unwind, Invoke, AppendExcepinfo, ConvertResult, AddRefResult, GetProgid, Construct,
     ClearResult, Create, Begins, Begin
<1>2. ~AddRefArgument(t) => damaged' = damaged
  BY DEF Step, InCall, Creating, LookingUp, EnterReceiver, Leave, NativeRelease,
     CreateFromProgid, CoCreateInstance, Wrap, QueryForDispatch, QueryProgid, NameToBstr,
     GetDispid, CheckDispid, ConvertPlain, ConvertText, ConvertBad, EnterArgument,
     MonitorRefused,
     ExitArgument, VerifyArgument, AddRefArgument, Unwind, Invoke, AppendExcepinfo,
     ConvertResult, AddRefResult, GetProgid, Construct, ClearResult, Create, Begins, Begin
<1>3. CASE AddRefArgument(t)
  <2> DEFINE o == Head(args[t])
  <2>1. pc[t] = "addref" /\ o \in Objects /\ released' = released
    BY <1>3 DEF AddRefArgument, At, ShapeInv, ThreadShape, java
  <2>2. ptr[o] \in freed => released[o]
    BY <2>1, NobodyHasFreed
  <2>3. damaged' => ptr[o] \in freed /\ pc' = pc /\ args' = args
    BY <1>1, <1>3 DEF AddRefArgument
  <2>4. QED
    BY <2>1, <2>2, <2>3 DEF DamageOnlyByRelease
<1>4. QED
  BY <1>1, <1>2, <1>3 DEF DamageOnlyByRelease

-------------------------------------------------------------------------------
(* The invariant, and what follows from it.                                *)

CountInv == /\ TypeInv /\ ShapeInv /\ MonitorsMatch /\ ReleasedInv
            /\ Accounted /\ FreedInv /\ DamageOnlyByRelease

\* The invariant holds initially.
LEMMA CountInit == ASSUME Init PROVE CountInv
<1>1. DamageOnlyByRelease
  BY DEF Init, DamageOnlyByRelease
<1>2. QED
  BY <1>1, TypeInit, ShapeInit, MonitorsInit, ReleasedInit, AccountedInit DEF CountInv

\* Each step keeps the invariant.
LEMMA CountStep ==
  ASSUME CountInv, [Next]_vars
  PROVE  CountInv'
<1> USE DEF CountInv
<1>1. ASSUME NEW t \in Threads, Step(t) PROVE CountInv'
  <2>1. TypeInv' /\ ShapeInv' /\ MonitorsMatch' /\ ReleasedInv'
    BY <1>1, TypeStep, ShapeStep, MonitorsStep, ReleasedStep
  <2>2. Accounted' /\ \A i \in Counted : refs'[i] >= 0
    BY <1>1, <2>1, AccountedStep
  <2>3. FreedInv'
    BY <1>1, <2>2, AddsAliveStep, FreedStep
  <2>4. DamageOnlyByRelease'
    BY <1>1, DamageStep
  <2>5. QED
    BY <2>1, <2>2, <2>3, <2>4
<1>2. CASE UNCHANGED vars
  <2> USE <1>2 DEF vars, heap, java, call, out
  <2>1. TypeInv' /\ ShapeInv' /\ MonitorsMatch' /\ ReleasedInv'
    BY DEF TypeInv, ShapeInv, ThreadShape, MonitorsMatch, ReleasedInv
  <2>2. \A i : Holders(i)' = Holders(i)
    BY DEF Holders, Owners, Releasing, Resulting, Making, Naming, Variants
  <2>3. Accounted' /\ FreedInv' /\ DamageOnlyByRelease'
    BY <2>2 DEF Accounted, FreedInv, DamageOnlyByRelease
  <2>4. QED
    BY <2>1, <2>3
<1>3. QED
  BY <1>1, <1>2 DEF Next, Step, Begins

\* The invariant holds in every state that is reached.
THEOREM ComInvariant == Spec => []CountInv
<1>1. Init => CountInv
  BY CountInit
<1>2. CountInv /\ [Next]_vars => CountInv'
  BY CountStep
<1>3. QED
  BY <1>1, <1>2, PTL DEF Spec

\* The variables are well-typed; no count falls below zero (com.cpp:49-70, 214-254).
THEOREM ComTyped == Spec => []TypeOK
<1>1. ASSUME CountInv PROVE TypeOK
  <2>1. ASSUME NEW i \in Counted PROVE refs[i] \in Nat
    BY <1>1, HoldersNat DEF CountInv, Accounted, TypeInv
  <2>2. ASSUME NEW o \in Objects, NEW t \in Threads PROVE monitor[o][t] \in Nat
    BY <1>1 DEF CountInv, MonitorsMatch
  <2>3. refs \in [Counted -> Nat]
    BY <1>1, <2>1 DEF CountInv, TypeInv
  <2>4. monitor \in [Objects -> [Threads -> Nat]]
    BY <1>1, <2>2 DEF CountInv, TypeInv
  <2>5. QED
    BY <1>1, <2>3, <2>4 DEF CountInv, TypeInv, TypeOK
<1>2. QED
  BY <1>1, ComInvariant, PTL

\* A thread is inside the monitors it should be in, and in no other (com.cpp:329-344).
THEOREM ComMonitors == Spec => []MonitorsMatch
<1>1. CountInv => MonitorsMatch
  BY DEF CountInv
<1>2. QED
  BY <1>1, ComInvariant, PTL

\* Every reference and every BSTR has someone who will release it, or was lost in
\* one of the four places that lose one (com.cpp:214-254, 327-378, 579-728).
THEOREM ComAccounted == Spec => []RefsAccounted
<1>1. CountInv => RefsAccounted
  BY DEF CountInv, Accounted, RefsAccounted
<1>2. QED
  BY <1>1, ComInvariant, PTL

\* The interface of the receiver is there as long as a native method uses it
\* (com.cpp:579-728; _jni_interface.cpp:348-398).
THEOREM ComReceiverAlive == Spec => []ReceiverAlive
<1>1. ASSUME CountInv PROVE ReceiverAlive
  <2>1. ASSUME NEW t \in Threads, recv[t] # NoObject, pc[t] \notin {"enter", "leave"},
               ptr[recv[t]] \in freed
        PROVE  FALSE
    <3>1. ThreadShape(t) /\ recv[t] \in Objects /\ pc[t] # "idle"
      BY <1>1, <2>1 DEF CountInv, TypeInv, ShapeInv, ThreadShape
    <3>2. released[recv[t]] /\ pc[t] # "release"
      BY <1>1, <2>1, <3>1, NobodyHasFreed DEF CountInv
    <3>3. QED
      BY <1>1, <2>1, <3>1, <3>2 DEF CountInv, ReleasedInv
  <2>2. QED
    BY <2>1 DEF ReceiverAlive
<1>2. QED
  BY <1>1, ComInvariant, PTL

\* The only use after free is AddRef() of an argument that was released in the
\* meantime (com.cpp:345-369).
THEOREM ComDamage == Spec => []DamageOnlyByRelease
<1>1. CountInv => DamageOnlyByRelease
  BY DEF CountInv
<1>2. QED
  BY <1>1, ComInvariant, PTL

===============================================================================
