----------------------------- MODULE LibraryProofs -----------------------------
(***************************************************************************)
(* Proofs about SuneidoProtocol and Library, for any threads and objects,  *)
(* contents and reads of any length, and any number of references and of   *)
(* calls of Start(): what a reader gets, who may start an object at which  *)
(* point of the start-up, and what can lead to a misuse of JNI.            *)
(***************************************************************************)
EXTENDS Library, SequenceTheorems, TLAPS

Byte == Nat \X Nat
Frame == [p : Protocols, n : 1 .. MaxStarts, pc : {"java", "report"}]

\* TypeOK, with the types of what is read.
TypeInv ==
  /\ registered \in {"no", "namespace", "done"}
  /\ d_ref_count \in [Protocols -> 0 .. MaxRefs]
  /\ d_jni_jvm \in [Protocols -> BOOLEAN]
  /\ d_data \in [Protocols -> Seq(Byte)]
  /\ d_pos \in [Protocols -> Nat]
  /\ \A p \in Protocols : d_pos[p] <= Len(d_data[p])
  /\ owner \in [Protocols -> Threads \cup {NoThread}]
  /\ stack \in [Threads -> Seq(Frame)]
  /\ pending \in [Threads -> BOOLEAN]
  /\ misuse \in BOOLEAN
  /\ phase \in [Protocols -> {"new", "starting", "open", "failed", "crashed"}]
  /\ answer \in [Protocols -> Seq(Byte)]
  /\ got \in [Protocols -> Seq(Byte)]
  /\ last \in [Protocols -> {"none", "S_OK", "S_FALSE"}]
  /\ starts \in 0 .. MaxStarts
  /\ unchecked \in BOOLEAN
  /\ failed \in [Threads -> BOOLEAN]

\* A Start() that has called out is of an object of its thread, and of one that no
\* other active Start() is of; while it is in Java the object is starting.
FramesInv ==
  /\ \A t \in Threads : \A i \in 1 .. Len(stack[t]) :
       /\ owner[stack[t][i].p] = t
       /\ stack[t][i].pc = "java" => phase[stack[t][i].p] = "starting"
  /\ \A t \in Threads : \A i, j \in 1 .. Len(stack[t]) :
       stack[t][i].p = stack[t][j].p => i = j

\* What was read is what is before the position, of the content that Java gave.
ReadInv ==
  \A p \in Protocols :
     /\ phase[p] = "starting" => got[p] = <<>> /\ last[p] = "none"
     /\ phase[p] = "open" =>
          /\ answer[p] = d_data[p]
          /\ got[p] = SubSeq(d_data[p], 1, d_pos[p])
          /\ last[p] = "S_FALSE" => d_pos[p] = Len(d_data[p])
          /\ last[p] = "S_OK" => d_pos[p] < Len(d_data[p])

ProtocolInv == TypeInv /\ FramesInv /\ ReadInv

-------------------------------------------------------------------------------
(* Sequences.                                                              *)

\* The running frame is the last one.
LEMMA LastFrame ==
  ASSUME NEW S, NEW s \in Seq(S), s # <<>>
  PROVE  /\ Len(s) \in Nat \ {0} /\ Len(s) \in 1 .. Len(s)
         /\ Last(s) = s[Len(s)] /\ Last(s) \in S
<1>1. Len(s) \in Nat \ {0}
  BY EmptySeq
<1>2. Len(s) \in 1 .. Len(s)
  BY <1>1
<1>3. QED
  BY <1>1, <1>2, ElementOfSeq DEF Last

\* What is left when the running frame returns.
LEMMA FrontFrames ==
  ASSUME NEW S, NEW s \in Seq(S), s # <<>>
  PROVE  /\ Front(s) \in Seq(S) /\ Len(Front(s)) = Len(s) - 1
         /\ \A i \in 1 .. Len(s) - 1 : Front(s)[i] = s[i]
<1>1. Len(s) \in Nat \ {0}
  BY EmptySeq
<1>2. \A i \in 1 .. Len(s) - 1 : i \in 1 .. Len(s)
  BY <1>1
<1>3. \A i \in 1 .. Len(s) - 1 : s[i] \in S
  BY <1>2, ElementOfSeq
<1>4. 1 \in Int /\ Len(s) - 1 \in Int
  BY <1>1
<1>5. /\ SubSeq(s, 1, Len(s) - 1) \in Seq(S)
      /\ Len(SubSeq(s, 1, Len(s) - 1)) =
           IF 1 <= Len(s) - 1 THEN (Len(s) - 1) - 1 + 1 ELSE 0
      /\ \A i \in 1 .. (Len(s) - 1) - 1 + 1 : SubSeq(s, 1, Len(s) - 1)[i] = s[1 + i - 1]
  BY <1>3, <1>4, SubSeqProperties
<1>6. Len(SubSeq(s, 1, Len(s) - 1)) = Len(s) - 1
  <2>1. \A k \in Nat \ {0} : (IF 1 <= k - 1 THEN (k - 1) - 1 + 1 ELSE 0) = k - 1
    OBVIOUS
  <2>2. QED
    BY <1>1, <1>5, <2>1, Zenon
<1>7. ASSUME NEW i \in 1 .. Len(s) - 1 PROVE SubSeq(s, 1, Len(s) - 1)[i] = s[i]
  <2>1. i \in 1 .. (Len(s) - 1) - 1 + 1 /\ 1 + i - 1 = i
    BY <1>1
  <2>2. QED
    BY <1>5, <2>1, Zenon
<1>8. QED
  BY <1>5, <1>6, <1>7, Zenon DEF Front

\* What is left when the running frame goes on.
LEMMA ReplacedFrame ==
  ASSUME NEW S, NEW s \in Seq(S), s # <<>>, NEW f \in S
  PROVE  LET r == Append(Front(s), f) IN
         /\ r \in Seq(S) /\ Len(r) = Len(s) /\ r[Len(s)] = f
         /\ \A i \in 1 .. Len(s) - 1 : r[i] = s[i]
<1>1. Len(s) \in Nat \ {0}
  BY EmptySeq
<1>2. QED
  BY <1>1, FrontFrames, AppendProperties

\* A read continues what was read before.
LEMMA ReadOnwards ==
  ASSUME NEW s \in Seq(Byte), NEW pos \in 0 .. Len(s), NEW n \in 0 .. Len(s) - pos
  PROVE  SubSeq(s, 1, pos) \o SubSeq(s, pos + 1, pos + n) = SubSeq(s, 1, pos + n)
<1>1. Len(s) \in Nat
  BY LenProperties
<1>2. /\ 1 \in 1 .. Len(s) + 1
      /\ pos \in 1 - 1 .. Len(s)
      /\ pos + n \in pos .. Len(s)
  BY <1>1
<1>3. QED
  BY <1>2, ConcatAdjacentSubSeq

\* The first bytes of a sequence of bytes.
LEMMA FirstBytes ==
  ASSUME NEW s \in Seq(Byte), NEW pos \in 0 .. Len(s)
  PROVE  /\ SubSeq(s, 1, pos) \in Seq(Byte)
         /\ Len(SubSeq(s, 1, pos)) = pos
<1>1. Len(s) \in Nat /\ pos \in Int /\ 1 \in Int
  BY LenProperties
<1>2. \A i \in 1 .. pos : i \in 1 .. Len(s)
  BY <1>1
<1>3. \A i \in 1 .. pos : s[i] \in Byte
  BY <1>2, ElementOfSeq
<1>4. /\ SubSeq(s, 1, pos) \in Seq(Byte)
      /\ Len(SubSeq(s, 1, pos)) = IF 1 <= pos THEN pos - 1 + 1 ELSE 0
  BY <1>1, <1>3, SubSeqProperties
<1>5. QED
  BY <1>1, <1>4

\* Any part of a sequence of bytes.
LEMMA SomeBytes ==
  ASSUME NEW s \in Seq(Byte), NEW pos \in 0 .. Len(s), NEW n \in 0 .. Len(s) - pos
  PROVE  SubSeq(s, pos + 1, pos + n) \in Seq(Byte)
<1>1. Len(s) \in Nat /\ pos + 1 \in Int /\ pos + n \in Int
  BY LenProperties
<1>2. \A i \in pos + 1 .. pos + n : i \in 1 .. Len(s)
  BY <1>1
<1>3. \A i \in pos + 1 .. pos + n : s[i] \in Byte
  BY <1>2, ElementOfSeq
<1>4. QED
  BY <1>1, <1>3, SubSeqProperties

\* The content of a Start().
LEMMA BytesProperties ==
  ASSUME NEW n \in Nat, NEW len \in Nat
  PROVE  Bytes(n, len) \in Seq(Byte) /\ Len(Bytes(n, len)) = len
<1>1. Bytes(n, len) \in [1 .. len -> Byte]
  BY DEF Bytes, Byte
<1>2. QED
  BY <1>1

-------------------------------------------------------------------------------
(* The protocol objects: one lemma for each step that changes them.        *)

\* Facts about the constants in the form the steps need them.
LEMMA Constants ==
  /\ MaxLen \in Nat /\ MaxRead \in Nat /\ MaxRefs \in Nat \ {0} /\ MaxStarts \in Nat
  /\ NoThread \notin Threads /\ Loader \in Threads
  BY ProtocolAssumption, LoaderAssumption

\* A frame is of an object.
LEMMA FrameTyped ==
  ASSUME TypeInv, NEW u \in Threads, NEW i \in 1 .. Len(stack[u])
  PROVE  stack[u][i] \in Frame /\ stack[u][i].p \in Protocols
<1>1. stack[u] \in Seq(Frame)
  BY DEF TypeInv
<1>2. stack[u][i] \in Frame
  BY <1>1, ElementOfSeq
<1>3. QED
  BY <1>2 DEF Frame

\* The frames stay, and what they say of their objects.
LEMMA SameFrames ==
  ASSUME FramesInv, stack' = stack,
         \A u \in Threads : \A i \in 1 .. Len(stack[u]) :
            /\ owner'[stack[u][i].p] = u
            /\ stack[u][i].pc = "java" => phase'[stack[u][i].p] = "starting"
  PROVE  FramesInv'
<1>1. \A u \in Threads : \A i \in 1 .. Len(stack'[u]) :
         /\ owner'[stack'[u][i].p] = u
         /\ stack'[u][i].pc = "java" => phase'[stack'[u][i].p] = "starting"
  OBVIOUS
<1>2. \A u \in Threads : \A i, j \in 1 .. Len(stack'[u]) :
         stack'[u][i].p = stack'[u][j].p => i = j
  BY Zenon DEF FramesInv
<1>3. QED
  BY <1>1, <1>2, Zenon DEF FramesInv

\* Before anything was done.
LEMMA ProtocolInit == Init => ProtocolInv
<1> SUFFICES ASSUME Init PROVE ProtocolInv
  OBVIOUS
<1>1. <<>> \in Seq(Byte) /\ <<>> \in Seq(Frame) /\ Len(<<>>) = 0
  OBVIOUS
<1>2. TypeInv
  <2>1. 0 \in 0 .. MaxRefs /\ 0 \in 0 .. MaxStarts /\ 0 <= Len(<<>>)
    BY <1>1, Constants
  <2>2. QED
    BY <1>1, <2>1 DEF Init, TypeInv
<1>3. FramesInv
  <2>1. ASSUME NEW t \in Threads, NEW i \in 1 .. Len(stack[t]) PROVE FALSE
    <3>1. stack[t] = <<>>
      BY DEF Init
    <3>2. QED
      BY <1>1, <3>1
  <2>2. QED
    BY <2>1, Zenon DEF FramesInv
<1>4. ReadInv
  BY DEF Init, ReadInv
<1>5. QED
  BY <1>2, <1>3, <1>4 DEF ProtocolInv

\* A step that leaves the objects, their contents, their frames and the reader
\* alone.
LEMMA ProtocolKept ==
  ASSUME ProtocolInv, UNCHANGED <<object, content, stack, failed, phase, reader, starts>>,
         registered' \in {"no", "namespace", "done"}, pending' \in [Threads -> BOOLEAN],
         misuse' \in BOOLEAN, unchecked' \in BOOLEAN
  PROVE  ProtocolInv'
<1>1. UNCHANGED <<d_ref_count, d_jni_jvm, owner, d_data, d_pos, stack, failed, phase,
                  answer, got, last, starts>>
  BY DEF object, content, reader
<1>2. TypeInv'
  BY <1>1 DEF ProtocolInv, TypeInv
<1>3. FramesInv'
  BY <1>1 DEF ProtocolInv, FramesInv
<1>4. ReadInv'
  BY <1>1 DEF ProtocolInv, ReadInv
<1>5. QED
  BY <1>2, <1>3, <1>4 DEF ProtocolInv

\* register_handler().
LEMMA RegisterStep == ASSUME ProtocolInv, RegisterNameSpace \/ SetJvm PROVE ProtocolInv'
<1>1. UNCHANGED <<object, content, stack, failed, phase, reader, starts>>
      /\ UNCHANGED <<pending, misuse, unchecked>>
      /\ registered' \in {"no", "namespace", "done"}
  BY DEF RegisterNameSpace, SetJvm, thread
<1>2. pending \in [Threads -> BOOLEAN] /\ misuse \in BOOLEAN /\ unchecked \in BOOLEAN
  BY DEF ProtocolInv, TypeInv
<1>3. QED
  BY <1>1, <1>2, ProtocolKept

\* A new object is in no frame, as those of the frames have a thread.
LEMMA CreateStep ==
  ASSUME ProtocolInv, NEW t \in Threads, NEW p \in Protocols, CreateInstance(t, p)
  PROVE  ProtocolInv'
<1>1. UNCHANGED <<registered, d_data, d_pos, stack, pending, failed, misuse, phase,
                  answer, got, last, starts, unchecked>>
  BY DEF CreateInstance, content, thread, reader
<1>2. /\ owner[p] = NoThread
      /\ owner' = [owner EXCEPT ![p] = t]
      /\ d_jni_jvm' = [d_jni_jvm EXCEPT ![p] = registered = "done"]
  BY DEF CreateInstance
<1>3. d_ref_count' \in [Protocols -> 0 .. MaxRefs]
  <2>1. PICK known \in BOOLEAN :
          d_ref_count' = [d_ref_count EXCEPT ![p] = (1 + IF known THEN 1 ELSE 0) - 1]
    BY DEF CreateInstance
  <2>2. (1 + IF known THEN 1 ELSE 0) - 1 \in 0 .. MaxRefs
    BY Constants
  <2>3. QED
    BY <2>1, <2>2 DEF ProtocolInv, TypeInv
<1>4. TypeInv'
  <2>1. (registered = "done") \in BOOLEAN
    OBVIOUS
  <2>2. d_jni_jvm' \in [Protocols -> BOOLEAN] /\ owner' \in [Protocols -> Threads \cup {NoThread}]
    BY <1>2, <2>1 DEF ProtocolInv, TypeInv
  <2>3. QED
    BY <1>1, <1>3, <2>2 DEF ProtocolInv, TypeInv
<1>5. FramesInv'
  <2>1. \A q \in Protocols : owner[q] # NoThread => owner'[q] = owner[q]
    BY <1>2 DEF ProtocolInv, TypeInv
  <2>2. ASSUME NEW u \in Threads, NEW i \in 1 .. Len(stack[u])
        PROVE  /\ owner'[stack[u][i].p] = u
               /\ stack[u][i].pc = "java" => phase'[stack[u][i].p] = "starting"
    <3>1. stack[u][i].p \in Protocols
      BY FrameTyped DEF ProtocolInv
    <3>2. /\ owner[stack[u][i].p] = u
          /\ stack[u][i].pc = "java" => phase[stack[u][i].p] = "starting"
      BY DEF ProtocolInv, FramesInv
    <3>3. QED
      BY <1>1, <2>1, <3>1, <3>2, Constants
  <2>3. QED
    BY <1>1, <2>2, SameFrames DEF ProtocolInv
<1>6. ReadInv'
  BY <1>1 DEF ProtocolInv, ReadInv
<1>7. QED
  BY <1>4, <1>5, <1>6 DEF ProtocolInv

\* AddRef() and Release().
LEMMA CountStep ==
  ASSUME ProtocolInv, NEW t \in Threads, NEW p \in Protocols, AddRef(t, p) \/ Release(t, p)
  PROVE  ProtocolInv'
<1>1. UNCHANGED <<registered, d_jni_jvm, owner, d_data, d_pos, stack, pending, failed,
                  misuse, phase, answer, got, last, starts, unchecked>>
  BY DEF AddRef, Release, content, thread, reader
<1>2. d_ref_count' \in [Protocols -> 0 .. MaxRefs]
  <2>1. d_ref_count \in [Protocols -> 0 .. MaxRefs]
    BY DEF ProtocolInv, TypeInv
  <2>2. CASE AddRef(t, p)
    BY <2>1, <2>2, Constants DEF AddRef
  <2>3. CASE Release(t, p)
    BY <2>1, <2>3, Constants DEF Release, Uses
  <2>4. QED
    BY <2>2, <2>3
<1>3. TypeInv'
  BY <1>1, <1>2 DEF ProtocolInv, TypeInv
<1>4. FramesInv'
  BY <1>1 DEF ProtocolInv, FramesInv
<1>5. ReadInv'
  BY <1>1 DEF ProtocolInv, ReadInv
<1>6. QED
  BY <1>3, <1>4, <1>5 DEF ProtocolInv

\* What an object that is in no frame does to its phase concerns no frame.
LEMMA PhaseOfNoFrame ==
  ASSUME ProtocolInv, UNCHANGED <<stack, owner>>, NEW p \in Protocols,
         \A u \in Threads : \A i \in 1 .. Len(stack[u]) : stack[u][i].p # p,
         \A q \in Protocols \ {p} : phase'[q] = phase[q]
  PROVE  FramesInv'
<1>1. ASSUME NEW u \in Threads, NEW i \in 1 .. Len(stack[u])
      PROVE  /\ owner'[stack[u][i].p] = u
             /\ stack[u][i].pc = "java" => phase'[stack[u][i].p] = "starting"
  <2>1. stack[u][i].p \in Protocols \ {p}
    BY FrameTyped DEF ProtocolInv
  <2>2. /\ owner[stack[u][i].p] = u
        /\ stack[u][i].pc = "java" => phase[stack[u][i].p] = "starting"
    BY DEF ProtocolInv, FramesInv
  <2>3. QED
    BY <2>1, <2>2
<1>2. QED
  BY <1>1, SameFrames DEF ProtocolInv

\* An object that has no active Start() on its thread is in no frame at all.
LEMMA NotStarting ==
  ASSUME TypeInv, FramesInv, NEW t \in Threads, NEW p \in Protocols,
         Uses(t, p), ~Starting(t, p)
  PROVE  \A u \in Threads : \A i \in 1 .. Len(stack[u]) : stack[u][i].p # p
<1> SUFFICES ASSUME NEW u \in Threads, NEW i \in 1 .. Len(stack[u]), stack[u][i].p = p
             PROVE  FALSE
  OBVIOUS
<1>1. owner[stack[u][i].p] = u /\ owner[p] = t
  BY DEF FramesInv, Uses
<1>2. u = t
  BY <1>1
<1>3. DOMAIN stack[t] = 1 .. Len(stack[t])
  BY LenProperties DEF TypeInv
<1>4. QED
  BY <1>2, <1>3 DEF Starting

\* Start() of p: its reader begins anew, and no frame is of p but the new one.
LEMMA StartStep ==
  ASSUME ProtocolInv, NEW t \in Threads, NEW p \in Protocols, Start(t, p)
  PROVE  ProtocolInv'
<1>1. UNCHANGED <<registered, d_ref_count, d_jni_jvm, owner, d_data, d_pos, pending, failed>>
  BY DEF Start, object, content
<1>2. /\ Uses(t, p) /\ ~Starting(t, p) /\ starts < MaxStarts /\ starts' = starts + 1
      /\ got' = [got EXCEPT ![p] = <<>>]
      /\ last' = [last EXCEPT ![p] = "none"]
      /\ answer' = [answer EXCEPT ![p] = <<>>]
  BY DEF Start
<1>3. starts' \in 1 .. MaxStarts
  BY <1>2, Constants DEF ProtocolInv, TypeInv
<1>4. PICK ph \in {"starting", "failed", "crashed"} : phase' = [phase EXCEPT ![p] = ph]
  BY DEF Start, CallsJava, NullJvm, Refused
<1>5. misuse' \in BOOLEAN /\ unchecked' \in BOOLEAN
  BY DEF Start, CallsJava, NullJvm, Refused, ProtocolInv, TypeInv
<1> DEFINE f == [p |-> p, n |-> starts', pc |-> "java"]
<1>6. f \in Frame
  BY <1>3 DEF Frame
<1>7. \/ stack' = stack
      \/ /\ stack' = [stack EXCEPT ![t] = Append(@, f)]
         /\ phase' = [phase EXCEPT ![p] = "starting"]
  BY DEF Start, CallsJava, NullJvm, Refused
<1>8. \A u \in Threads : \A i \in 1 .. Len(stack[u]) : stack[u][i].p # p
  BY <1>2, NotStarting DEF ProtocolInv
<1> HIDE DEF f
<1>9. TypeInv'
  <2>1. stack' \in [Threads -> Seq(Frame)]
    <3>1. Append(stack[t], f) \in Seq(Frame)
      BY <1>6, AppendProperties DEF ProtocolInv, TypeInv
    <3>2. QED
      BY <1>7, <3>1 DEF ProtocolInv, TypeInv
  <2>2. phase' \in [Protocols -> {"new", "starting", "open", "failed", "crashed"}]
    BY <1>4 DEF ProtocolInv, TypeInv
  <2>3. <<>> \in Seq(Byte)
    OBVIOUS
  <2>4. /\ got' \in [Protocols -> Seq(Byte)] /\ answer' \in [Protocols -> Seq(Byte)]
        /\ last' \in [Protocols -> {"none", "S_OK", "S_FALSE"}]
    BY <1>2, <2>3 DEF ProtocolInv, TypeInv
  <2>5. starts' \in 0 .. MaxStarts
    BY <1>3
  <2>6. QED
    BY <1>1, <1>5, <2>1, <2>2, <2>4, <2>5 DEF ProtocolInv, TypeInv
<1>10. FramesInv'
  <2>1. \A q \in Protocols \ {p} : phase'[q] = phase[q]
    BY <1>4 DEF ProtocolInv, TypeInv
  <2>2. CASE stack' = stack
    BY <1>1, <1>8, <2>1, <2>2, PhaseOfNoFrame
  <2>3. CASE /\ stack' = [stack EXCEPT ![t] = Append(@, f)]
             /\ phase' = [phase EXCEPT ![p] = "starting"]
    <3>1. stack \in [Threads -> Seq(Frame)] /\ stack[t] \in Seq(Frame) /\ Len(stack[t]) \in Nat
      BY LenProperties DEF ProtocolInv, TypeInv
    <3>2. /\ Len(stack'[t]) = Len(stack[t]) + 1
          /\ stack'[t][Len(stack[t]) + 1] = f
          /\ \A i \in 1 .. Len(stack[t]) : stack'[t][i] = stack[t][i]
      <4>1. stack'[t] = Append(stack[t], f)
        BY <2>3, <3>1
      <4>2. QED
        BY <1>6, <3>1, <4>1, AppendProperties
    <3>3. \A u \in Threads : u # t => stack'[u] = stack[u]
      BY <2>3, <3>1
    <3>4. ASSUME NEW u \in Threads, NEW i \in 1 .. Len(stack[u])
          PROVE  /\ stack[u][i].p # p /\ stack'[u][i] = stack[u][i]
                 /\ owner'[stack[u][i].p] = u
                 /\ stack[u][i].pc = "java" => phase'[stack[u][i].p] = "starting"
      <4>1. stack[u][i].p \in Protocols \ {p}
        BY <1>8, FrameTyped DEF ProtocolInv
      <4>2. /\ owner[stack[u][i].p] = u
            /\ stack[u][i].pc = "java" => phase[stack[u][i].p] = "starting"
        BY DEF ProtocolInv, FramesInv
      <4>3. QED
        BY <1>1, <2>1, <3>2, <3>3, <4>1, <4>2
    <3>5. f.p = p /\ owner'[p] = t /\ phase'[p] = "starting"
      BY <1>1, <1>2, <2>3 DEF f, Uses, ProtocolInv, TypeInv
    <3>6. ASSUME NEW u \in Threads, NEW i \in 1 .. Len(stack'[u])
          PROVE  \/ i \in 1 .. Len(stack[u])
                 \/ u = t /\ i = Len(stack[t]) + 1 /\ stack'[u][i] = f
      BY <3>1, <3>2, <3>3
    <3>7. ASSUME NEW u \in Threads, NEW i \in 1 .. Len(stack'[u])
          PROVE  /\ owner'[stack'[u][i].p] = u
                 /\ stack'[u][i].pc = "java" => phase'[stack'[u][i].p] = "starting"
      BY <3>4, <3>5, <3>6
    <3>8. ASSUME NEW u \in Threads, NEW i \in 1 .. Len(stack'[u]),
                 NEW j \in 1 .. Len(stack'[u]), stack'[u][i].p = stack'[u][j].p
          PROVE  i = j
      <4>1. CASE i \in 1 .. Len(stack[u]) /\ j \in 1 .. Len(stack[u])
        BY <3>4, <3>8, <4>1 DEF ProtocolInv, FramesInv
      <4>2. CASE ~(i \in 1 .. Len(stack[u]) /\ j \in 1 .. Len(stack[u]))
        BY <3>4, <3>5, <3>6, <3>8, <4>2
      <4>3. QED
        BY <4>1, <4>2
    <3>9. QED
      BY <3>7, <3>8, Zenon DEF FramesInv
  <2>4. QED
    BY <1>7, <2>2, <2>3
<1>11. ReadInv'
  <2>1. \A q \in Protocols \ {p} : /\ got'[q] = got[q] /\ last'[q] = last[q]
                                   /\ answer'[q] = answer[q] /\ phase'[q] = phase[q]
    BY <1>2, <1>4 DEF ProtocolInv, TypeInv
  <2>2. got'[p] = <<>> /\ last'[p] = "none" /\ phase'[p] # "open"
    BY <1>2, <1>4 DEF ProtocolInv, TypeInv
  <2>3. QED
    BY <1>1, <2>1, <2>2 DEF ProtocolInv, ReadInv
<1>12. QED
  BY <1>9, <1>10, <1>11 DEF ProtocolInv

\* The running frame, and that no other is of its object.
LEMMA TopFrame ==
  ASSUME ProtocolInv, NEW t \in Threads, stack[t] # <<>>
  PROVE  /\ Len(stack[t]) \in Nat \ {0} /\ Len(stack[t]) \in 1 .. Len(stack[t])
         /\ Top(t) = stack[t][Len(stack[t])]
         /\ Top(t) \in Frame /\ Top(t).p \in Protocols
         /\ owner[Top(t).p] = t
         /\ Top(t).pc = "java" => phase[Top(t).p] = "starting"
         /\ \A u \in Threads : \A i \in 1 .. Len(stack[u]) :
               stack[u][i].p = Top(t).p => u = t /\ i = Len(stack[t])
<1>1. stack[t] \in Seq(Frame)
  BY DEF ProtocolInv, TypeInv
<1>2. /\ Len(stack[t]) \in Nat \ {0} /\ Len(stack[t]) \in 1 .. Len(stack[t])
      /\ Top(t) = stack[t][Len(stack[t])] /\ Top(t) \in Frame
  BY <1>1, LastFrame DEF Top
<1>3. Top(t).p \in Protocols
  BY <1>2 DEF Frame
<1>4. /\ owner[Top(t).p] = t
      /\ Top(t).pc = "java" => phase[Top(t).p] = "starting"
  <2>1. \A i \in 1 .. Len(stack[t]) :
           /\ owner[stack[t][i].p] = t
           /\ stack[t][i].pc = "java" => phase[stack[t][i].p] = "starting"
    BY DEF ProtocolInv, FramesInv
  <2>2. QED
    BY <1>2, <2>1
<1>5. ASSUME NEW u \in Threads, NEW i \in 1 .. Len(stack[u]), stack[u][i].p = Top(t).p
      PROVE  u = t /\ i = Len(stack[t])
  <2>1. owner[stack[u][i].p] = u
    BY Zenon DEF ProtocolInv, FramesInv
  <2>2. u = t
    BY <1>4, <1>5, <2>1
  <2>3. QED
    BY <1>2, <1>5, <2>2 DEF ProtocolInv, FramesInv
<1>6. QED
  BY <1>2, <1>3, <1>4, <1>5, Zenon

\* The running frame returns, whatever becomes of its object.
LEMMA PopFrame ==
  ASSUME ProtocolInv, NEW t \in Threads, stack[t] # <<>>, Pop(t), owner' = owner,
         \A q \in Protocols \ {Top(t).p} : phase'[q] = phase[q]
  PROVE  stack' \in [Threads -> Seq(Frame)] /\ FramesInv'
<1>1. stack \in [Threads -> Seq(Frame)] /\ stack[t] \in Seq(Frame)
  BY DEF ProtocolInv, TypeInv
<1>2. stack' = [stack EXCEPT ![t] = Front(stack[t])]
  BY DEF Pop
<1>3. /\ Front(stack[t]) \in Seq(Frame) /\ Len(Front(stack[t])) = Len(stack[t]) - 1
      /\ \A i \in 1 .. Len(stack[t]) - 1 : Front(stack[t])[i] = stack[t][i]
  BY <1>1, FrontFrames
<1>4. stack' \in [Threads -> Seq(Frame)]
  BY <1>1, <1>2, <1>3
<1>5. /\ Len(stack[t]) \in Nat \ {0}
      /\ \A u \in Threads : \A i \in 1 .. Len(stack[u]) :
            stack[u][i].p = Top(t).p => u = t /\ i = Len(stack[t])
  BY TopFrame, Zenon
<1>6. /\ stack'[t] = Front(stack[t])
      /\ \A u \in Threads : u # t => stack'[u] = stack[u]
  BY <1>1, <1>2
<1>7. ASSUME NEW u \in Threads, NEW i \in 1 .. Len(stack'[u])
      PROVE  i \in 1 .. Len(stack[u]) /\ stack'[u][i] = stack[u][i]
             /\ stack[u][i].p \in Protocols \ {Top(t).p}
  <2>1. i \in 1 .. Len(stack[u]) /\ stack'[u][i] = stack[u][i] /\ ~(u = t /\ i = Len(stack[t]))
    BY <1>3, <1>5, <1>6
  <2>2. QED
    BY <1>5, <2>1, FrameTyped DEF ProtocolInv
<1>8. ASSUME NEW u \in Threads, NEW i \in 1 .. Len(stack'[u])
      PROVE  /\ owner'[stack'[u][i].p] = u
             /\ stack'[u][i].pc = "java" => phase'[stack'[u][i].p] = "starting"
  <2>1. /\ owner[stack[u][i].p] = u
        /\ stack[u][i].pc = "java" => phase[stack[u][i].p] = "starting"
    BY <1>7 DEF ProtocolInv, FramesInv
  <2>2. QED
    BY <1>7, <2>1
<1>9. ASSUME NEW u \in Threads, NEW i \in 1 .. Len(stack'[u]),
             NEW j \in 1 .. Len(stack'[u]), stack'[u][i].p = stack'[u][j].p
      PROVE  i = j
  BY <1>7, <1>9 DEF ProtocolInv, FramesInv
<1>10. QED
  BY <1>4, <1>8, <1>9, Zenon DEF FramesInv

\* start() comes back without a content.
LEMMA JavaFailsStep ==
  ASSUME ProtocolInv, NEW t \in Threads, JavaThrows(t) \/ JavaReturnsNull(t)
  PROVE  ProtocolInv'
<1>1. UNCHANGED <<registered, d_ref_count, d_jni_jvm, owner, d_data, d_pos, misuse,
                  answer, got, last, starts, unchecked>>
  BY DEF JavaThrows, JavaReturnsNull, object, content, reader
<1>2. /\ stack[t] # <<>> /\ Pop(t)
      /\ phase' = [phase EXCEPT ![Top(t).p] = "failed"]
  BY DEF JavaThrows, JavaReturnsNull, TopIs
<1>3. \A q \in Protocols \ {Top(t).p} : phase'[q] = phase[q]
  BY <1>2 DEF ProtocolInv, TypeInv
<1>4. stack' \in [Threads -> Seq(Frame)] /\ FramesInv'
  BY <1>1, <1>2, <1>3, PopFrame
<1>5. pending' \in [Threads -> BOOLEAN] /\ failed' \in [Threads -> BOOLEAN]
  BY DEF JavaThrows, JavaReturnsNull, ProtocolInv, TypeInv
<1>6. Top(t).p \in Protocols
  BY <1>2, TopFrame
<1>7. phase'[Top(t).p] = "failed"
      /\ phase' \in [Protocols -> {"new", "starting", "open", "failed", "crashed"}]
  BY <1>2, <1>6 DEF ProtocolInv, TypeInv
<1>8. TypeInv'
  BY <1>1, <1>4, <1>5, <1>7 DEF ProtocolInv, TypeInv
<1>9. ReadInv'
  BY <1>1, <1>3, <1>7 DEF ProtocolInv, ReadInv
<1>10. QED
  BY <1>4, <1>8, <1>9 DEF ProtocolInv

\* ReportData() comes back.
LEMMA SinkStep ==
  ASSUME ProtocolInv, NEW t \in Threads, SinkReturns(t) PROVE ProtocolInv'
<1>1. UNCHANGED <<registered, d_ref_count, d_jni_jvm, owner, d_data, d_pos, pending,
                  failed, misuse, phase, answer, got, last, starts, unchecked>>
  BY DEF SinkReturns, object, content, reader
<1>2. stack[t] # <<>> /\ Pop(t)
  BY DEF SinkReturns, TopIs
<1>3. stack' \in [Threads -> Seq(Frame)] /\ FramesInv'
  BY <1>1, <1>2, PopFrame
<1>4. TypeInv'
  BY <1>1, <1>3 DEF ProtocolInv, TypeInv
<1>5. ReadInv'
  BY <1>1 DEF ProtocolInv, ReadInv
<1>6. QED
  BY <1>3, <1>4, <1>5 DEF ProtocolInv

\* start() returns a content: the object starts at its first byte.
LEMMA JavaDataStep ==
  ASSUME ProtocolInv, NEW t \in Threads, JavaReturnsData(t) PROVE ProtocolInv'
<1> DEFINE p == Top(t).p
<1> DEFINE f == [Top(t) EXCEPT !.pc = "report"]
<1>1. UNCHANGED <<registered, d_ref_count, d_jni_jvm, owner, misuse, got, last, starts,
                  unchecked>>
  BY DEF JavaReturnsData, object
<1>2. /\ stack[t] # <<>> /\ Top(t).pc = "java"
      /\ pending' = [pending EXCEPT ![t] = FALSE]
      /\ failed' = [failed EXCEPT ![t] = FALSE]
      /\ d_pos' = [d_pos EXCEPT ![p] = 0]
      /\ phase' = [phase EXCEPT ![p] = "open"]
      /\ stack' = [stack EXCEPT ![t] = Append(Front(stack[t]), f)]
  BY DEF JavaReturnsData, TopIs
<1>3. PICK len \in 0 .. MaxLen : /\ d_data' = [d_data EXCEPT ![p] = Bytes(Top(t).n, len)]
                                 /\ answer' = [answer EXCEPT ![p] = Bytes(Top(t).n, len)]
  BY DEF JavaReturnsData
<1>4. /\ Len(stack[t]) \in Nat \ {0}
      /\ Top(t) = stack[t][Len(stack[t])] /\ Top(t) \in Frame /\ p \in Protocols
      /\ owner[p] = t /\ phase[p] = "starting"
      /\ \A u \in Threads : \A i \in 1 .. Len(stack[u]) :
            stack[u][i].p = p => u = t /\ i = Len(stack[t])
  BY <1>2, TopFrame, Zenon
<1>5. f \in Frame /\ f.p = p /\ f.pc = "report"
  BY <1>4 DEF Frame
<1>6. Bytes(Top(t).n, len) \in Seq(Byte)
  <2>1. Top(t).n \in Nat /\ len \in Nat
    BY <1>4, Constants DEF Frame
  <2>2. QED
    BY <2>1, BytesProperties
<1> DEFINE data == Bytes(Top(t).n, len)
<1> HIDE DEF p, f, data
<1>7. d_data' = [d_data EXCEPT ![p] = data] /\ answer' = [answer EXCEPT ![p] = data]
      /\ data \in Seq(Byte) /\ Len(data) \in Nat
  BY <1>3, <1>6, LenProperties DEF data
<1>8. stack \in [Threads -> Seq(Frame)] /\ stack[t] \in Seq(Frame)
  BY DEF ProtocolInv, TypeInv
<1>9. LET r == Append(Front(stack[t]), f) IN
      /\ r \in Seq(Frame) /\ Len(r) = Len(stack[t]) /\ r[Len(stack[t])] = f
      /\ \A i \in 1 .. Len(stack[t]) - 1 : r[i] = stack[t][i]
  BY <1>2, <1>5, <1>8, ReplacedFrame
<1>10. TypeInv'
  <2>1. stack' \in [Threads -> Seq(Frame)]
    BY <1>2, <1>8, <1>9
  <2>2. /\ d_data' \in [Protocols -> Seq(Byte)] /\ answer' \in [Protocols -> Seq(Byte)]
        /\ d_pos' \in [Protocols -> Nat]
        /\ phase' \in [Protocols -> {"new", "starting", "open", "failed", "crashed"}]
        /\ pending' \in [Threads -> BOOLEAN] /\ failed' \in [Threads -> BOOLEAN]
    BY <1>2, <1>7 DEF ProtocolInv, TypeInv
  <2>3. ASSUME NEW q \in Protocols PROVE d_pos'[q] <= Len(d_data'[q])
    <3>1. CASE q = p
      BY <1>2, <1>7, <3>1 DEF ProtocolInv, TypeInv
    <3>2. CASE q # p
      BY <1>2, <1>7, <3>2 DEF ProtocolInv, TypeInv
    <3>3. QED
      BY <3>1, <3>2
  <2>4. QED
    BY <1>1, <2>1, <2>2, <2>3 DEF ProtocolInv, TypeInv
<1>11. FramesInv'
  <2>1. /\ Len(stack'[t]) = Len(stack[t])
        /\ stack'[t][Len(stack[t])] = f
        /\ \A i \in 1 .. Len(stack[t]) - 1 : stack'[t][i] = stack[t][i]
    BY <1>2, <1>8, <1>9
  <2>2. \A u \in Threads : u # t => stack'[u] = stack[u]
    BY <1>2, <1>8
  <2>3. ASSUME NEW u \in Threads, NEW i \in 1 .. Len(stack'[u])
        PROVE  /\ i \in 1 .. Len(stack[u])
               /\ stack'[u][i].p = stack[u][i].p
               /\ \/ stack'[u][i].pc = "report"
                  \/ stack'[u][i] = stack[u][i] /\ stack[u][i].p \in Protocols \ {p}
    <3>1. CASE u = t /\ i = Len(stack[t])
      BY <1>4, <1>5, <2>1, <3>1 DEF p
    <3>2. CASE ~(u = t /\ i = Len(stack[t]))
      <4>1. i \in 1 .. Len(stack[u]) /\ stack'[u][i] = stack[u][i]
        BY <1>4, <2>1, <2>2, <3>2
      <4>2. QED
        BY <1>4, <3>2, <4>1, FrameTyped DEF ProtocolInv
    <3>3. QED
      BY <3>1, <3>2
  <2>4. \A q \in Protocols \ {p} : phase'[q] = phase[q]
    BY <1>2 DEF ProtocolInv, TypeInv
  <2>5. ASSUME NEW u \in Threads, NEW i \in 1 .. Len(stack'[u])
        PROVE  /\ owner'[stack'[u][i].p] = u
               /\ stack'[u][i].pc = "java" => phase'[stack'[u][i].p] = "starting"
    <3>1. /\ owner[stack[u][i].p] = u
          /\ stack[u][i].pc = "java" => phase[stack[u][i].p] = "starting"
      BY <2>3 DEF ProtocolInv, FramesInv
    <3>2. QED
      BY <1>1, <2>3, <2>4, <3>1
  <2>6. ASSUME NEW u \in Threads, NEW i \in 1 .. Len(stack'[u]),
               NEW j \in 1 .. Len(stack'[u]), stack'[u][i].p = stack'[u][j].p
        PROVE  i = j
    BY <2>3, <2>6 DEF ProtocolInv, FramesInv
  <2>7. QED
    BY <2>5, <2>6, Zenon DEF FramesInv
<1>12. ReadInv'
  <2>1. \A q \in Protocols \ {p} : /\ phase'[q] = phase[q] /\ answer'[q] = answer[q]
                                   /\ d_data'[q] = d_data[q] /\ d_pos'[q] = d_pos[q]
    BY <1>2, <1>7 DEF ProtocolInv, TypeInv
  <2>2. phase'[p] = "open" /\ answer'[p] = data /\ d_data'[p] = data /\ d_pos'[p] = 0
    BY <1>2, <1>4, <1>7 DEF ProtocolInv, TypeInv
  <2>3. got'[p] = <<>> /\ last'[p] = "none"
    BY <1>1, <1>4 DEF ProtocolInv, ReadInv
  <2>4. SubSeq(data, 1, 0) = <<>>
    <3>1. SubSeq(data, 1, 0) \in Seq(Byte) /\ Len(SubSeq(data, 1, 0)) = 0
      <4>1. 0 \in 0 .. Len(data)
        BY <1>7
      <4>2. QED
        BY <1>7, <4>1, FirstBytes
    <3>2. QED
      BY <3>1, EmptySeq
  <2>5. ASSUME NEW q \in Protocols
        PROVE  /\ phase'[q] = "starting" => got'[q] = <<>> /\ last'[q] = "none"
               /\ phase'[q] = "open" =>
                    /\ answer'[q] = d_data'[q]
                    /\ got'[q] = SubSeq(d_data'[q], 1, d_pos'[q])
                    /\ last'[q] = "S_FALSE" => d_pos'[q] = Len(d_data'[q])
                    /\ last'[q] = "S_OK" => d_pos'[q] < Len(d_data'[q])
    <3>1. CASE q = p
      BY <2>2, <2>3, <2>4, <3>1
    <3>2. CASE q # p
      BY <1>1, <2>1, <3>2 DEF ProtocolInv, ReadInv
    <3>3. QED
      BY <3>1, <3>2
  <2>6. QED
    BY <2>5, Zenon DEF ReadInv
<1>13. QED
  BY <1>10, <1>11, <1>12 DEF ProtocolInv

\* What a read hands out, at most what it was asked for.
LEMMA MinimumProperties ==
  ASSUME NEW a \in Nat, NEW b \in Nat
  PROVE  Minimum(a, b) \in 0 .. b
BY DEF Minimum

\* Read(): it goes on where the one before ended.
LEMMA ReadStep ==
  ASSUME ProtocolInv, NEW t \in Threads, NEW p \in Protocols, NEW cb \in 0 .. MaxRead,
         Read(t, p, cb)
  PROVE  ProtocolInv'
<1> DEFINE len == Minimum(cb, Len(d_data[p]) - d_pos[p])
<1> DEFINE more == SubSeq(d_data[p], d_pos[p] + 1, d_pos[p] + len)
<1>1. UNCHANGED <<registered, d_ref_count, d_jni_jvm, owner, d_data, stack, pending, failed,
                  misuse, phase, answer, starts, unchecked>>
  BY DEF Read, object, thread
<1>2. /\ phase[p] = "open"
      /\ got' = [got EXCEPT ![p] = got[p] \o more]
      /\ d_pos' = [d_pos EXCEPT ![p] = d_pos[p] + len]
      /\ last' = [last EXCEPT ![p] = IF d_pos'[p] < Len(d_data[p]) THEN "S_OK" ELSE "S_FALSE"]
  BY DEF Read
<1>3. /\ d_data[p] \in Seq(Byte) /\ Len(d_data[p]) \in Nat
      /\ d_pos[p] \in 0 .. Len(d_data[p])
      /\ Len(d_data[p]) - d_pos[p] \in Nat
  <2>1. d_data[p] \in Seq(Byte) /\ d_pos[p] \in Nat /\ d_pos[p] <= Len(d_data[p])
    BY DEF ProtocolInv, TypeInv
  <2>2. Len(d_data[p]) \in Nat
    BY <2>1, LenProperties
  <2>3. QED
    BY <2>1, <2>2
<1>4. len \in 0 .. Len(d_data[p]) - d_pos[p]
  <2>1. cb \in Nat
    BY Constants
  <2>2. QED
    BY <1>3, <2>1, MinimumProperties, Zenon
<1>5. more \in Seq(Byte)
  BY <1>3, <1>4, SomeBytes, Zenon
<1>6. SubSeq(d_data[p], 1, d_pos[p]) \o more = SubSeq(d_data[p], 1, d_pos[p] + len)
  BY <1>3, <1>4, ReadOnwards, Zenon
<1>7. got[p] \o more = SubSeq(d_data[p], 1, d_pos[p] + len) /\ answer[p] = d_data[p]
  BY <1>2, <1>6 DEF ProtocolInv, ReadInv
<1> HIDE DEF len, more
<1>8. TypeInv'
  <2>1. got[p] \o more \in Seq(Byte)
    <3>1. got[p] \in Seq(Byte)
      BY DEF ProtocolInv, TypeInv
    <3>2. QED
      BY <1>5, <3>1, ConcatProperties
  <2>2. got' \in [Protocols -> Seq(Byte)]
    BY <1>2, <2>1 DEF ProtocolInv, TypeInv
  <2>3. d_pos' \in [Protocols -> Nat] /\ last' \in [Protocols -> {"none", "S_OK", "S_FALSE"}]
    BY <1>2, <1>3, <1>4 DEF ProtocolInv, TypeInv
  <2>4. ASSUME NEW q \in Protocols PROVE d_pos'[q] <= Len(d_data'[q])
    <3>1. CASE q = p
      BY <1>1, <1>2, <1>3, <1>4, <3>1 DEF ProtocolInv, TypeInv
    <3>2. CASE q # p
      BY <1>1, <1>2, <3>2 DEF ProtocolInv, TypeInv
    <3>3. QED
      BY <3>1, <3>2
  <2>5. QED
    BY <1>1, <2>2, <2>3, <2>4 DEF ProtocolInv, TypeInv
<1>9. FramesInv'
  BY <1>1 DEF ProtocolInv, FramesInv
<1>10. ReadInv'
  <2>1. \A q \in Protocols \ {p} : /\ got'[q] = got[q] /\ d_pos'[q] = d_pos[q]
                                   /\ last'[q] = last[q]
    BY <1>2 DEF ProtocolInv, TypeInv
  <2>2. got'[p] = SubSeq(d_data[p], 1, d_pos[p] + len) /\ d_pos'[p] = d_pos[p] + len
    BY <1>2, <1>7 DEF ProtocolInv, TypeInv
  <2>3. last'[p] = IF d_pos[p] + len < Len(d_data[p]) THEN "S_OK" ELSE "S_FALSE"
    BY <1>2, <2>2 DEF ProtocolInv, TypeInv
  <2>4. /\ last'[p] = "S_FALSE" => d_pos[p] + len = Len(d_data[p])
        /\ last'[p] = "S_OK" => d_pos[p] + len < Len(d_data[p])
    BY <1>3, <1>4, <2>3
  <2>5. ASSUME NEW q \in Protocols
        PROVE  /\ phase'[q] = "starting" => got'[q] = <<>> /\ last'[q] = "none"
               /\ phase'[q] = "open" =>
                    /\ answer'[q] = d_data'[q]
                    /\ got'[q] = SubSeq(d_data'[q], 1, d_pos'[q])
                    /\ last'[q] = "S_FALSE" => d_pos'[q] = Len(d_data'[q])
                    /\ last'[q] = "S_OK" => d_pos'[q] < Len(d_data'[q])
    <3>1. CASE q = p
      BY <1>1, <1>2, <1>7, <2>2, <2>4, <3>1
    <3>2. CASE q # p
      BY <1>1, <2>1, <3>2 DEF ProtocolInv, ReadInv
    <3>3. QED
      BY <3>1, <3>2
  <2>6. QED
    BY <2>5, Zenon DEF ReadInv
<1>11. QED
  BY <1>8, <1>9, <1>10 DEF ProtocolInv

\* A thread goes back to Java.
LEMMA ReturnStep ==
  ASSUME ProtocolInv, NEW t \in Threads, ReturnToJava(t) PROVE ProtocolInv'
<1>1. UNCHANGED <<registered, d_ref_count, d_jni_jvm, owner, d_data, d_pos, stack, misuse,
                  phase, answer, got, last, starts, unchecked>>
  BY DEF ReturnToJava, object, content, reader
<1>2. pending' \in [Threads -> BOOLEAN] /\ failed' \in [Threads -> BOOLEAN]
  BY DEF ReturnToJava, ProtocolInv, TypeInv
<1>3. TypeInv'
  BY <1>1, <1>2 DEF ProtocolInv, TypeInv
<1>4. FramesInv'
  BY <1>1 DEF ProtocolInv, FramesInv
<1>5. ReadInv'
  BY <1>1 DEF ProtocolInv, ReadInv
<1>6. QED
  BY <1>3, <1>4, <1>5 DEF ProtocolInv

\* Every step of a thread of the browser keeps the invariant.
LEMMA BrowseStep ==
  ASSUME ProtocolInv, NEW t \in Threads, Browse(t) PROVE ProtocolInv'
<1>1. CASE JavaThrows(t) \/ JavaReturnsNull(t)
  BY <1>1, JavaFailsStep
<1>2. CASE JavaReturnsData(t)
  BY <1>2, JavaDataStep
<1>3. CASE SinkReturns(t)
  BY <1>3, SinkStep
<1>4. CASE ReturnToJava(t)
  BY <1>4, ReturnStep
<1>5. ASSUME NEW p \in Protocols, CreateInstance(t, p) PROVE ProtocolInv'
  BY <1>5, CreateStep
<1>6. ASSUME NEW p \in Protocols, AddRef(t, p) \/ Release(t, p) PROVE ProtocolInv'
  BY <1>6, CountStep
<1>7. ASSUME NEW p \in Protocols, Start(t, p) PROVE ProtocolInv'
  BY <1>7, StartStep
<1>8. ASSUME NEW p \in Protocols, NEW cb \in 0 .. MaxRead, Read(t, p, cb) PROVE ProtocolInv'
  BY <1>8, ReadStep
<1>9. QED
  BY <1>1, <1>2, <1>3, <1>4, <1>5, <1>6, <1>7, <1>8, Zenon DEF Browse

\* The invariant says what TypeOK says.
LEMMA InvTypes == ProtocolInv => TypeOK
<1> SUFFICES ASSUME ProtocolInv PROVE TypeOK
  OBVIOUS
<1>1. TypeInv
  BY DEF ProtocolInv
<1>2. ASSUME NEW p \in Protocols PROVE d_pos[p] \in 0 .. Len(d_data[p])
  <2>1. d_data[p] \in Seq(Byte) /\ d_pos[p] \in Nat /\ d_pos[p] <= Len(d_data[p])
    BY <1>1 DEF TypeInv
  <2>2. QED
    BY <2>1, LenProperties
<1>3. ASSUME NEW t \in Threads
      PROVE  stack[t] \in Seq([p : Protocols, n : 1 .. MaxStarts, pc : {"java", "report"}])
  BY <1>1 DEF TypeInv, Frame
<1>4. QED
  BY <1>1, <1>2, <1>3, Zenon DEF TypeOK, TypeInv

\* The invariant says what a reader gets.
LEMMA InvReads == ProtocolInv => ReadsExact
<1> SUFFICES ASSUME ProtocolInv, NEW p \in Protocols, phase[p] = "open"
             PROVE  /\ IsPrefix(got[p], answer[p])
                    /\ last[p] = "S_FALSE" => got[p] = answer[p]
                    /\ last[p] = "S_OK" => got[p] # answer[p]
  BY Zenon DEF ReadsExact
<1>1. /\ d_data[p] \in Seq(Byte) /\ d_pos[p] \in 0 .. Len(d_data[p])
      /\ Len(d_data[p]) \in Nat
  BY InvTypes, LenProperties DEF TypeOK, ProtocolInv, TypeInv
<1>2. /\ answer[p] = d_data[p]
      /\ got[p] = SubSeq(d_data[p], 1, d_pos[p])
      /\ last[p] = "S_FALSE" => d_pos[p] = Len(d_data[p])
      /\ last[p] = "S_OK" => d_pos[p] < Len(d_data[p])
  BY DEF ProtocolInv, ReadInv
<1>3. Len(got[p]) = d_pos[p]
  BY <1>1, <1>2, FirstBytes
<1>4. IsPrefix(got[p], answer[p])
  <2>1. Len(got[p]) <= Len(answer[p])
    BY <1>1, <1>2, <1>3
  <2>2. SubSeq(got[p], 1, Len(got[p])) = SubSeq(answer[p], 1, Len(got[p]))
    <3>1. got[p] \in Seq(Byte)
      BY DEF ProtocolInv, TypeInv
    <3>2. SubSeq(got[p], 1, Len(got[p])) = got[p]
      BY <3>1
    <3>3. QED
      BY <1>2, <1>3, <3>2
  <2>3. QED
    BY <2>1, <2>2 DEF IsPrefix
<1>5. last[p] = "S_FALSE" => got[p] = answer[p]
  <2>1. SubSeq(d_data[p], 1, Len(d_data[p])) = d_data[p]
    BY <1>1
  <2>2. QED
    BY <1>2, <2>1
<1>6. last[p] = "S_OK" => got[p] # answer[p]
  BY <1>1, <1>2, <1>3
<1>7. QED
  BY <1>4, <1>5, <1>6

\* The invariant holds of the protocol handler whoever registers it, and when.
LEMMA ProtocolInvariant == Spec => []ProtocolInv
<1>1. ProtocolInv /\ [Next]_vars => ProtocolInv'
  <2> SUFFICES ASSUME ProtocolInv, [Next]_vars PROVE ProtocolInv'
    OBVIOUS
  <2>1. CASE RegisterNameSpace \/ SetJvm
    BY <2>1, RegisterStep
  <2>2. ASSUME NEW t \in Threads, Browse(t) PROVE ProtocolInv'
    BY <2>2, BrowseStep
  <2>3. CASE UNCHANGED vars
    <3>1. /\ UNCHANGED <<object, content, stack, failed, phase, reader, starts>>
          /\ UNCHANGED <<registered, pending, misuse, unchecked>>
      BY <2>3 DEF vars, thread
    <3>2. /\ registered \in {"no", "namespace", "done"} /\ pending \in [Threads -> BOOLEAN]
          /\ misuse \in BOOLEAN /\ unchecked \in BOOLEAN
      BY DEF ProtocolInv, TypeInv
    <3>3. QED
      BY <3>1, <3>2, ProtocolKept
  <2>4. QED
    BY <2>1, <2>2, <2>3, Zenon DEF Next
<1>2. QED
  BY <1>1, ProtocolInit, PTL DEF Spec

\* Every reader gets the bytes of the last Start() of its object, in order and once,
\* and is told of the end exactly when it has them all, for contents and reads of
\* every length and every nesting of Start() calls (suneido_protocol.cpp:195-271).
THEOREM HandlerReadsExact == Spec => []ReadsExact
BY ProtocolInvariant, InvReads, PTL

-------------------------------------------------------------------------------
(* The start of the library: one lemma for each of its steps.              *)

\* How far the start-up is, what it has done so far, and who may have an object.
StartUpInv ==
  /\ at \in {"init", "refs", "session", "register", "jvm", "done", "failed"}
  /\ loaded \in 0 .. Len(Table)
  /\ com \in {"none", "apartment", "session"}
  /\ registered = "no" <=> at \notin {"jvm", "done"}
  /\ registered = "done" <=> at = "done"
  /\ at \in {"session", "register", "jvm", "done"} => loaded = Len(Table) /\ com # "none"
  /\ registered = "no" => \A p \in Protocols : owner[p] = NoThread
  /\ at \notin {"done", "failed"} => ~pending[Loader] /\ ~failed[Loader]

\* An exception is pending on a thread that a Start() failed on, or on the one
\* that the start-up failed on; and what a misuse comes from is still to be seen.
PendingInv ==
  /\ \A t \in Threads : pending[t] => failed[t] \/ (t = Loader /\ at = "failed")
  /\ MisuseExplained

LibraryInv == ProtocolInv /\ StartUpInv /\ PendingInv

\* The table of global references.
LEMMA TableProperties ==
  /\ Len(Table) = 9
  /\ \A n \in 1 .. 9 : Table[n].by \subseteq {Table[i].ref : i \in 1 .. n - 1}
<1>1. Len(Table) = 9
  BY DEF Table
<1>2. /\ Table[1].ref = "Boolean" /\ Table[2].ref = "Boolean.TRUE"
      /\ Table[3].ref = "Integer" /\ Table[4].ref = "Integer.<init>"
      /\ Table[5].ref = "InternetProtocol"
  BY DEF Table
<1>3. /\ Table[1].by = {} /\ Table[3].by = {} /\ Table[5].by = {} /\ Table[9].by = {}
  BY DEF Table
<1>4. /\ Table[2].by = {"Boolean"} /\ Table[4].by = {"Integer"}
      /\ Table[6].by = {"InternetProtocol"} /\ Table[7].by = {"Boolean", "Boolean.TRUE"}
      /\ Table[8].by = {"Integer", "Integer.<init>"}
  BY DEF Table
<1>5. Table[2].by \subseteq {Table[i].ref : i \in 1 .. 2 - 1}
  BY <1>2, <1>4, 1 \in 1 .. 2 - 1
<1>6. Table[4].by \subseteq {Table[i].ref : i \in 1 .. 4 - 1}
  BY <1>2, <1>4, 3 \in 1 .. 4 - 1
<1>7. Table[6].by \subseteq {Table[i].ref : i \in 1 .. 6 - 1}
  BY <1>2, <1>4, 5 \in 1 .. 6 - 1
<1>8. Table[7].by \subseteq {Table[i].ref : i \in 1 .. 7 - 1}
  BY <1>2, <1>4, 1 \in 1 .. 7 - 1, 2 \in 1 .. 7 - 1
<1>9. Table[8].by \subseteq {Table[i].ref : i \in 1 .. 8 - 1}
  BY <1>2, <1>4, 3 \in 1 .. 8 - 1, 4 \in 1 .. 8 - 1
<1>10. ASSUME NEW n \in 1 .. 9 PROVE Table[n].by \subseteq {Table[i].ref : i \in 1 .. n - 1}
  <2>1. n \in {1, 3, 5, 9} \/ n = 2 \/ n = 4 \/ n = 6 \/ n = 7 \/ n = 8
    OBVIOUS
  <2>2. CASE n \in {1, 3, 5, 9}
    BY <1>3, <2>2
  <2>3. CASE n = 2
    BY <1>5, <2>3
  <2>4. CASE n = 4
    BY <1>6, <2>4
  <2>5. CASE n = 6
    BY <1>7, <2>5
  <2>6. CASE n = 7
    BY <1>8, <2>6
  <2>7. CASE n = 8
    BY <1>9, <2>7
  <2>8. QED
    BY <2>1, <2>2, <2>3, <2>4, <2>5, <2>6, <2>7
<1>11. QED
  BY <1>1, <1>10

\* The references that the next entry of the table is looked up with are there.
LEMMA LookedUpWithLoaded ==
  ASSUME NEW n \in 0 .. Len(Table), n < Len(Table)
  PROVE  Table[n + 1].by \subseteq {Table[i].ref : i \in 1 .. n}
<1>1. n + 1 \in 1 .. 9 /\ (n + 1) - 1 = n
  BY TableProperties
<1>2. Table[n + 1].by \subseteq {Table[i].ref : i \in 1 .. (n + 1) - 1}
  BY <1>1, TableProperties, Zenon
<1>3. QED
  BY <1>1, <1>2

\* What a step of a thread of the browser does to the exceptions and to the
\* start-up: it is taken only while JNI was not misused, it leaves other threads'
\* exceptions alone, and it leaves one pending on its own only where a Start()
\* failed.
LEMMA BrowseEffect ==
  ASSUME ProtocolInv, NEW t \in Threads, Browse(t)
  PROVE  /\ ~misuse /\ registered' = registered
         /\ registered = "no" => owner' = owner
         /\ \A u \in Threads \ {t} : pending'[u] = pending[u] /\ failed'[u] = failed[u]
         /\ \/ pending'[t] => failed'[t]
            \/ pending'[t] = pending[t] /\ failed'[t] = failed[t]
         /\ misuse' => \/ unchecked'
                       \/ \E p \in Protocols : phase'[p] = "crashed"
                       \/ /\ pending[t] /\ failed' = failed
                          /\ \E p \in Protocols : owner[p] = t
<1> DEFINE Effect ==
      /\ ~misuse /\ registered' = registered
      /\ registered = "no" => owner' = owner
      /\ \A u \in Threads \ {t} : pending'[u] = pending[u] /\ failed'[u] = failed[u]
      /\ \/ pending'[t] => failed'[t]
         \/ pending'[t] = pending[t] /\ failed'[t] = failed[t]
      /\ misuse' => \/ unchecked'
                    \/ \E p \in Protocols : phase'[p] = "crashed"
                    \/ /\ pending[t] /\ failed' = failed
                       /\ \E p \in Protocols : owner[p] = t
<1>1. pending \in [Threads -> BOOLEAN] /\ failed \in [Threads -> BOOLEAN]
      /\ misuse \in BOOLEAN
      /\ phase \in [Protocols -> {"new", "starting", "open", "failed", "crashed"}]
  BY DEF ProtocolInv, TypeInv
<1>2. CASE JavaThrows(t)
  <2>1. /\ ~misuse /\ misuse' = misuse /\ registered' = registered /\ owner' = owner
        /\ pending' = [pending EXCEPT ![t] = TRUE] /\ failed' = [failed EXCEPT ![t] = TRUE]
    BY <1>2 DEF JavaThrows, TopIs, object
  <2>2. QED
    BY <1>1, <2>1 DEF Effect
<1>3. CASE JavaReturnsNull(t) \/ JavaReturnsData(t) \/ ReturnToJava(t)
  <2>1. /\ ~misuse /\ misuse' = misuse /\ registered' = registered /\ owner' = owner
        /\ pending' = [pending EXCEPT ![t] = FALSE] /\ failed' = [failed EXCEPT ![t] = FALSE]
    BY <1>3 DEF JavaReturnsNull, JavaReturnsData, ReturnToJava, TopIs, object
  <2>2. QED
    BY <1>1, <2>1 DEF Effect
<1>4. CASE SinkReturns(t)
  <2>1. /\ ~misuse /\ misuse' = misuse /\ registered' = registered /\ owner' = owner
        /\ pending' = pending /\ failed' = failed
    BY <1>4 DEF SinkReturns, TopIs, object
  <2>2. QED
    BY <2>1 DEF Effect
<1>5. ASSUME NEW p \in Protocols, CreateInstance(t, p) PROVE Effect
  <2>1. /\ ~misuse /\ misuse' = misuse /\ registered' = registered /\ registered # "no"
        /\ pending' = pending /\ failed' = failed
    BY <1>5 DEF CreateInstance, thread
  <2>2. QED
    BY <2>1 DEF Effect
<1>6. ASSUME NEW p \in Protocols, AddRef(t, p) \/ Release(t, p) PROVE Effect
  <2>1. /\ ~misuse /\ misuse' = misuse /\ registered' = registered /\ owner' = owner
        /\ pending' = pending /\ failed' = failed
    BY <1>6 DEF AddRef, Release, Uses, thread
  <2>2. QED
    BY <2>1 DEF Effect
<1>7. ASSUME NEW p \in Protocols, Start(t, p) PROVE Effect
  <2>1. /\ ~misuse /\ registered' = registered /\ owner' = owner /\ owner[p] = t
        /\ pending' = pending /\ failed' = failed
    BY <1>7 DEF Start, Uses, object
  <2>2. CASE CallsJava(t, p)
    BY <2>1, <2>2 DEF Effect, CallsJava
  <2>3. CASE NullJvm(p)
    <3>1. phase'[p] = "crashed"
      BY <1>1, <2>3 DEF NullJvm
    <3>2. QED
      BY <2>1, <3>1 DEF Effect
  <2>4. CASE Refused(p)
    BY <2>1, <2>4 DEF Effect, Refused
  <2>5. QED
    BY <1>7, <2>2, <2>3, <2>4 DEF Start
<1>8. ASSUME NEW p \in Protocols, NEW cb \in 0 .. MaxRead, Read(t, p, cb) PROVE Effect
  <2>1. /\ ~misuse /\ misuse' = misuse /\ registered' = registered /\ owner' = owner
        /\ pending' = pending /\ failed' = failed
    BY <1>8 DEF Read, Uses, object, thread
  <2>2. QED
    BY <2>1 DEF Effect
<1>9. Effect
  BY <1>2, <1>3, <1>4, <1>5, <1>6, <1>7, <1>8, Zenon DEF Browse
<1>10. QED
  BY <1>9 DEF Effect

\* Before JSDI.init().
LEMMA LibraryInitInv == LibraryInit => LibraryInv
<1> SUFFICES ASSUME LibraryInit PROVE LibraryInv
  OBVIOUS
<1>1. Init /\ at = "init" /\ loaded = 0 /\ com = "none"
  BY DEF LibraryInit
<1>2. ProtocolInv
  BY <1>1, ProtocolInit
<1>3. StartUpInv
  <2>1. 0 \in 0 .. Len(Table)
    BY TableProperties
  <2>2. QED
    BY <1>1, <2>1, Constants DEF Init, StartUpInv
<1>4. PendingInv
  BY <1>1 DEF Init, PendingInv, MisuseExplained
<1>5. QED
  BY <1>2, <1>3, <1>4 DEF LibraryInv

\* A step of the start-up leaves the protocol objects as they are, and changes no
\* exception but that of the thread that loads the library.
LEMMA StartUpKept ==
  ASSUME LibraryInv, Untouched,
         registered' = registered, misuse' \in BOOLEAN, unchecked' \in BOOLEAN,
         misuse' => misuse \/ unchecked', unchecked => unchecked',
         \/ pending' = pending
         \/ InitThrows
  PROVE  ProtocolInv' /\ (at' = "failed" \/ at # "failed" => PendingInv')
<1>1. /\ UNCHANGED <<object, content, stack, failed, phase, reader, starts>>
      /\ registered' \in {"no", "namespace", "done"}
      /\ pending' \in [Threads -> BOOLEAN]
  BY DEF Untouched, LibraryInv, ProtocolInv, TypeInv, InitThrows
<1>2. ProtocolInv'
  BY <1>1, ProtocolKept DEF LibraryInv
<1>3. ASSUME at' = "failed" \/ at # "failed" PROVE PendingInv'
  <2>1. failed' = failed /\ phase' = phase
    BY <1>1
  <2>2. ASSUME NEW u \in Threads, pending'[u]
        PROVE  failed'[u] \/ (u = Loader /\ at' = "failed")
    BY <1>3, <2>1, <2>2 DEF LibraryInv, PendingInv, InitThrows, ProtocolInv, TypeInv
  <2>3. MisuseExplained'
    BY <2>1 DEF LibraryInv, PendingInv, MisuseExplained
  <2>4. QED
    BY <2>2, <2>3 DEF PendingInv
<1>4. QED
  BY <1>2, <1>3

\* GetJavaVM() fails or not.
LEMMA GetJavaVMStep == ASSUME LibraryInv, GetJavaVM PROVE LibraryInv'
<1>1. /\ at = "init" /\ Untouched
      /\ UNCHANGED <<registered, misuse, unchecked, loaded, com>>
      /\ (at' = "refs" /\ pending' = pending) \/ InitThrows
  BY DEF GetJavaVM
<1>2. ProtocolInv' /\ PendingInv'
  <2>1. misuse' \in BOOLEAN /\ unchecked' \in BOOLEAN
    BY <1>1 DEF LibraryInv, ProtocolInv, TypeInv
  <2>2. QED
    BY <1>1, <2>1, StartUpKept
<1>3. owner' = owner /\ failed' = failed
  BY <1>1 DEF Untouched, object
<1>4. StartUpInv'
  BY <1>1, <1>3 DEF LibraryInv, StartUpInv, InitThrows
<1>5. QED
  BY <1>2, <1>4 DEF LibraryInv

\* An entry of the table is loaded: what it is looked up with is there, and no
\* exception is pending, so this does not misuse JNI.
LEMMA LoadRefStep == ASSUME LibraryInv, LoadRef PROVE LibraryInv'
<1>1. /\ at = "refs" /\ ~misuse /\ loaded < Len(Table) /\ Untouched
      /\ UNCHANGED <<registered, unchecked, com>>
      /\ misuse' = (pending[Loader] \/ ~(Table[loaded + 1].by \subseteq Loaded))
      /\ \/ loaded' = loaded + 1 /\ at' = at /\ pending' = pending
         \/ InitThrows /\ loaded' = loaded
  BY DEF LoadRef
<1>2. ~pending[Loader] /\ loaded \in 0 .. Len(Table)
  BY <1>1 DEF LibraryInv, StartUpInv
<1>3. Table[loaded + 1].by \subseteq Loaded
  BY <1>1, <1>2, LookedUpWithLoaded, Zenon DEF Loaded
<1>4. ~misuse'
  BY <1>1, <1>2, <1>3
<1>5. ProtocolInv' /\ PendingInv'
  <2>1. misuse' \in BOOLEAN /\ unchecked' \in BOOLEAN
    BY <1>1, <1>2, <1>3 DEF LibraryInv, ProtocolInv, TypeInv
  <2>2. QED
    BY <1>1, <1>4, <2>1, StartUpKept
<1>6. owner' = owner /\ failed' = failed
  BY <1>1 DEF Untouched, object
<1>7. loaded' \in 0 .. Len(Table)
  BY <1>1, <1>2, TableProperties
<1>8. StartUpInv'
  BY <1>1, <1>6, <1>7 DEF LibraryInv, StartUpInv, InitThrows
<1>9. QED
  BY <1>5, <1>8 DEF LibraryInv

\* A result that is used unchecked.
LEMMA LoadUncheckedStep == ASSUME LibraryInv, LoadUnchecked PROVE LibraryInv'
<1>1. /\ at = "refs" /\ Untouched /\ InitThrows
      /\ UNCHANGED <<registered, loaded, com>>
      /\ misuse' = TRUE /\ unchecked' = TRUE
  BY DEF LoadUnchecked
<1>2. ProtocolInv' /\ PendingInv'
  BY <1>1, StartUpKept
<1>3. owner' = owner /\ failed' = failed
  BY <1>1 DEF Untouched, object
<1>4. StartUpInv'
  BY <1>1, <1>3 DEF LibraryInv, StartUpInv, InitThrows
<1>5. QED
  BY <1>2, <1>4 DEF LibraryInv

\* COM, and the session of the handler.
LEMMA ComStep == ASSUME LibraryInv, InitializeCom \/ GetSession PROVE LibraryInv'
<1>1. /\ Untouched
      /\ UNCHANGED <<registered, misuse, unchecked, loaded>>
      /\ \/ at = "refs" /\ loaded = Len(Table)
         \/ at = "session"
      /\ \/ /\ at' \in {"session", "register"} /\ com' \in {"apartment", "session"}
            /\ pending' = pending
         \/ InitThrows /\ com' = com
  BY DEF InitializeCom, GetSession
<1>2. ProtocolInv' /\ PendingInv'
  <2>1. misuse' \in BOOLEAN /\ unchecked' \in BOOLEAN
    BY <1>1 DEF LibraryInv, ProtocolInv, TypeInv
  <2>2. QED
    BY <1>1, <2>1, StartUpKept
<1>3. owner' = owner /\ failed' = failed
  BY <1>1 DEF Untouched, object
<1>4. loaded = Len(Table)
  BY <1>1 DEF LibraryInv, StartUpInv
<1>5. StartUpInv'
  BY <1>1, <1>3, <1>4 DEF LibraryInv, StartUpInv, InitThrows
<1>6. QED
  BY <1>2, <1>5 DEF LibraryInv

\* The name space is registered, and the browser may create objects from here on.
LEMMA RegisterNameStep == ASSUME LibraryInv, Register PROVE LibraryInv'
<1>1. at = "register" /\ UNCHANGED <<loaded, com>>
  BY DEF Register
<1>2. loaded = Len(Table) /\ com # "none"
  BY <1>1 DEF LibraryInv, StartUpInv
<1>3. CASE RegisterNameSpace /\ at' = "jvm"
  <2>1. /\ UNCHANGED <<owner, pending, failed, misuse, unchecked, phase>>
        /\ registered' = "namespace"
    BY <1>3 DEF RegisterNameSpace, object, thread
  <2>2. ProtocolInv'
    BY <1>3, RegisterStep DEF LibraryInv
  <2>3. StartUpInv'
    BY <1>1, <1>2, <1>3, <2>1 DEF LibraryInv, StartUpInv
  <2>4. PendingInv'
    BY <1>1, <1>3, <2>1 DEF LibraryInv, PendingInv, MisuseExplained
  <2>5. QED
    BY <2>2, <2>3, <2>4 DEF LibraryInv
<1>4. CASE InitThrows /\ UNCHANGED <<registered, misuse, unchecked>> /\ Untouched
  <2>1. ProtocolInv' /\ PendingInv'
    <3>1. misuse' \in BOOLEAN /\ unchecked' \in BOOLEAN
      BY <1>4 DEF LibraryInv, ProtocolInv, TypeInv
    <3>2. QED
      BY <1>1, <1>4, <3>1, StartUpKept
  <2>2. owner' = owner /\ failed' = failed
    BY <1>4 DEF Untouched, object
  <2>3. StartUpInv'
    BY <1>1, <1>4, <2>2 DEF LibraryInv, StartUpInv, InitThrows
  <2>4. QED
    BY <2>1, <2>3 DEF LibraryInv
<1>5. QED
  BY <1>3, <1>4 DEF Register

\* The factory gets its JavaVM, and JSDI.init() is over.
LEMMA FinishStep == ASSUME LibraryInv, Finish PROVE LibraryInv'
<1>1. /\ at = "jvm" /\ SetJvm /\ at' = "done" /\ com' = "apartment" /\ loaded' = loaded
  BY DEF Finish
<1>2. /\ UNCHANGED <<owner, pending, failed, misuse, unchecked, phase>>
      /\ registered' = "done"
  BY <1>1 DEF SetJvm, object, thread
<1>3. ProtocolInv'
  BY <1>1, RegisterStep DEF LibraryInv
<1>4. StartUpInv'
  BY <1>1, <1>2 DEF LibraryInv, StartUpInv
<1>5. PendingInv'
  BY <1>1, <1>2 DEF LibraryInv, PendingInv, MisuseExplained
<1>6. QED
  BY <1>3, <1>4, <1>5 DEF LibraryInv

\* A thread browses.  A Start() with an exception pending is one on a thread that a
\* Start() failed on: had the start-up failed, there would be no object to start.
LEMMA BrowseLibraryStep ==
  ASSUME LibraryInv, NEW t \in Threads, BrowseInLibrary(t) PROVE LibraryInv'
<1>1. /\ t = Loader => at \in {"done", "failed"}
      /\ Browse(t) /\ UNCHANGED <<at, loaded, com>>
  BY DEF BrowseInLibrary, library
<1>2. ProtocolInv'
  BY <1>1, BrowseStep DEF LibraryInv
<1>3. /\ ~misuse /\ registered' = registered
      /\ registered = "no" => owner' = owner
      /\ \A u \in Threads \ {t} : pending'[u] = pending[u] /\ failed'[u] = failed[u]
      /\ \/ pending'[t] => failed'[t]
         \/ pending'[t] = pending[t] /\ failed'[t] = failed[t]
      /\ misuse' => \/ unchecked'
                    \/ \E p \in Protocols : phase'[p] = "crashed"
                    \/ /\ pending[t] /\ failed' = failed
                       /\ \E p \in Protocols : owner[p] = t
  BY <1>1, BrowseEffect DEF LibraryInv
<1>4. StartUpInv'
  <2>1. at \notin {"done", "failed"} => Loader \in Threads \ {t}
    BY <1>1, Constants
  <2>2. at \notin {"done", "failed"} => ~pending'[Loader] /\ ~failed'[Loader]
    BY <1>3, <2>1 DEF LibraryInv, StartUpInv
  <2>3. QED
    BY <1>1, <1>3, <2>2 DEF LibraryInv, StartUpInv
<1>5. PendingInv'
  <2>1. ASSUME NEW u \in Threads, pending'[u]
        PROVE  failed'[u] \/ (u = Loader /\ at' = "failed")
    BY <1>1, <1>3, <2>1 DEF LibraryInv, PendingInv
  <2>2. ASSUME misuse'
        PROVE  \/ unchecked'
               \/ \E p \in Protocols : phase'[p] = "crashed"
               \/ \E u \in Threads : failed'[u]
    <3>1. CASE \/ unchecked'
               \/ \E p \in Protocols : phase'[p] = "crashed"
      BY <3>1
    <3>2. CASE /\ pending[t] /\ failed' = failed
               /\ \E p \in Protocols : owner[p] = t
      <4>1. PICK p \in Protocols : owner[p] = t
        BY <3>2
      <4>2. registered # "no"
        BY <4>1, Constants DEF LibraryInv, StartUpInv
      <4>3. at # "failed"
        BY <4>2 DEF LibraryInv, StartUpInv
      <4>4. failed[t]
        BY <3>2, <4>3 DEF LibraryInv, PendingInv
      <4>5. QED
        BY <3>2, <4>4
    <3>3. QED
      BY <1>3, <2>2, <3>1, <3>2
  <2>3. MisuseExplained'
    BY <2>2, Zenon DEF MisuseExplained
  <2>4. QED
    BY <2>1, <2>3 DEF PendingInv
<1>6. QED
  BY <1>2, <1>4, <1>5 DEF LibraryInv

\* Every step keeps the invariant.
LEMMA LibraryStep == LibraryInv /\ [LibraryNext]_allVars => LibraryInv'
<1> SUFFICES ASSUME LibraryInv, [LibraryNext]_allVars PROVE LibraryInv'
  OBVIOUS
<1>1. CASE GetJavaVM
  BY <1>1, GetJavaVMStep
<1>2. CASE LoadRef
  BY <1>2, LoadRefStep
<1>3. CASE LoadUnchecked
  BY <1>3, LoadUncheckedStep
<1>4. CASE InitializeCom \/ GetSession
  BY <1>4, ComStep
<1>5. CASE Register
  BY <1>5, RegisterNameStep
<1>6. CASE Finish
  BY <1>6, FinishStep
<1>7. ASSUME NEW t \in Threads, BrowseInLibrary(t) PROVE LibraryInv'
  BY <1>7, BrowseLibraryStep
<1>8. CASE UNCHANGED allVars
  <2>1. /\ UNCHANGED <<object, content, stack, failed, phase, reader, starts>>
        /\ UNCHANGED <<registered, pending, failed, misuse, unchecked, phase, owner>>
        /\ UNCHANGED <<at, loaded, com>>
    BY <1>8 DEF allVars, vars, thread, object, library
  <2>2. ProtocolInv'
    <3>1. /\ registered \in {"no", "namespace", "done"} /\ pending \in [Threads -> BOOLEAN]
          /\ misuse \in BOOLEAN /\ unchecked \in BOOLEAN
      BY DEF LibraryInv, ProtocolInv, TypeInv
    <3>2. QED
      BY <2>1, <3>1, ProtocolKept DEF LibraryInv
  <2>3. StartUpInv'
    BY <2>1 DEF LibraryInv, StartUpInv
  <2>4. PendingInv'
    BY <2>1 DEF LibraryInv, PendingInv, MisuseExplained
  <2>5. QED
    BY <2>2, <2>3, <2>4 DEF LibraryInv
<1>9. QED
  BY <1>1, <1>2, <1>3, <1>4, <1>5, <1>6, <1>7, <1>8, Zenon DEF LibraryNext

\* The inductive invariant holds throughout.
LEMMA LibraryInvariant == LibrarySpec => []LibraryInv
BY LibraryInitInv, LibraryStep, PTL DEF LibrarySpec

\* Objects, frames and start-up are well-typed, and no read passes the end of its
\* content (suneido_protocol.cpp:262-271).
THEOREM LibraryTypeCorrect == LibrarySpec => []LibraryTypeOK
<1>1. LibraryInv => LibraryTypeOK
  BY InvTypes DEF LibraryInv, StartUpInv, LibraryTypeOK
<1>2. QED
  BY <1>1, LibraryInvariant, PTL

\* Also while the library starts, and after a start-up that failed, every reader gets
\* the bytes of the last Start() of its object (suneido_protocol.cpp:228-240, 262-271).
THEOREM LibraryReadsExact == LibrarySpec => []ReadsExact
<1>1. LibraryInv => ReadsExact
  BY InvReads DEF LibraryInv
<1>2. QED
  BY <1>1, LibraryInvariant, PTL

\* JNI is misused only because of a failure that the code does not look for, an object
\* created before the factory had its JavaVM, or a Start() that failed on the thread
\* (suneido_protocol.cpp:205-219, 405-407; global_refs.cpp:208-215).
THEOREM LibraryMisuseExplained == LibrarySpec => []MisuseExplained
<1>1. LibraryInv => MisuseExplained
  BY DEF LibraryInv, PendingInv
<1>2. QED
  BY <1>1, LibraryInvariant, PTL

\* Nobody holds a protocol object before all global references are there, and nobody
\* ever does after a start-up that failed (_jni_interface.cpp:145-153).
THEOREM LibraryServedOnlyWhenReady == LibrarySpec => []ServedOnlyWhenReady
<1>1. LibraryInv => ServedOnlyWhenReady
  <2> SUFFICES ASSUME LibraryInv, registered # "no" \/ \E p \in Protocols : owner[p] # NoThread
               PROVE  loaded = Len(Table) /\ at \in {"jvm", "done"} /\ com # "none"
    BY DEF ServedOnlyWhenReady
  <2>1. registered # "no"
    BY DEF LibraryInv, StartUpInv
  <2>2. QED
    BY <2>1 DEF LibraryInv, StartUpInv
<1>2. QED
  BY <1>1, LibraryInvariant, PTL

===============================================================================
