------------------------------ MODULE Unmarshaller ------------------------------
(***************************************************************************)
(* Unmarshalling of a native structure (marshalling.cpp:199-421): the walk *)
(* that copies the structure and whatever it points to into one flat block *)
(* for Java, guided by a list of pairs <<where a pointer is, where the     *)
(* thing it points to goes>>.  Used by the callbacks with indirect data    *)
(* and by the copy-outs of structures (_jni_interface.cpp:265-335).        *)
(*                                                                         *)
(* Offsets count units of the size of a pointer; padding is counted to the *)
(* block before it.  The native structures are external: each pointer is   *)
(* null, or points to an object of the right type, or cannot be followed.  *)
(* The list comes from Java, which lays it out as the tests of             *)
(* marshalling.cpp do; Layouts says what that takes.                       *)
(***************************************************************************)
EXTENDS Integers, FiniteSets, FiniteSetsExt, Functions, SequencesExt

CONSTANTS MaxTotal,  \* bound: size of the block
          MaxPairs,  \* bound: pairs of the list
          MaxVi      \* bound: variable indirect pairs of the list

ASSUME UnmarshallerAssumption == MaxTotal \in Nat /\ MaxPairs \in Nat /\ MaxVi \in Nat

VARIABLES
  layout,    \* size_direct, size_total and the list of pairs
  vi_known,  \* is it unmarshaller_vi, rather than unmarshaller_indirect?
  native,    \* per pair: the pointer, in the native structure
  vi_inst,   \* per variable indirect pair: its instruction, a jint from Java
  to,        \* the block for Java
  vi_array,  \* per pair: the Java object made for it
  ptr_i,     \* the next pair of the list
  frames,    \* the active calls of normal_ptr(): the extents they copied
  pc,        \* "call", "walk", "done", "thrown"
  jni_failed \* a JNI function failed, a history

input == <<layout, vi_known, native, vi_inst>>
vars == <<input, to, vi_array, ptr_i, frames, pc, jni_failed>>

-------------------------------------------------------------------------------
(* The input.                                                              *)

\* is_vi_ptr().
IsVi(L, k) == L.size_total <= L.pairs[k].ptd

Pairs(L) == DOMAIN L.pairs
NormalPairs(L) == {k \in Pairs(L) : ~IsVi(L, k)}

\* The blocks of a layout begin at 0 and where normal pointers point to.
Starts(L) == {0} \cup {L.pairs[k].ptd : k \in NormalPairs(L)}

\* The block with offset o begins at BlockOf, and the one at b ends at EndOf.
BlockOf(L, o) == Max({b \in Starts(L) : b <= o})
EndOf(L, b) == Min({s \in Starts(L) \cup {L.size_total} : b < s})

\* The pair whose pointer leads to the block at b, 0 for the direct block.
PairOf(L, b) == IF b = 0 THEN 0 ELSE CHOOSE k \in NormalPairs(L) : L.pairs[k].ptd = b

\* The pair whose block has the pointer of pair k.
Holder(L, k) == PairOf(L, BlockOf(L, L.pairs[k].ptr))

\* Blocks are listed in the order they are laid out, each pointer after the one
\* that leads to its block; variable indirect positions are numbered in order.
WellFormed(L) ==
  LET normal == NormalPairs(L) IN
  /\ \A j, k \in normal : j < k => L.pairs[j].ptd < L.pairs[k].ptd
  /\ \A k \in Pairs(L) \ normal :
        L.pairs[k].ptd = L.size_total + Cardinality({j \in Pairs(L) \ normal : j < k})
  /\ L.size_direct = EndOf(L, 0)
  /\ \A j, k \in Pairs(L) : j < k => L.pairs[j].ptr # L.pairs[k].ptr
  /\ \A k \in Pairs(L) : Holder(L, k) < k

Layouts ==
  {L \in UNION {[size_direct : 1 .. t, size_total : {t},
                 pairs : UNION {[1 .. n -> [ptr : 0 .. t - 1, ptd : 1 .. t + n - 1]] :
                                n \in 0 .. MaxPairs}] :
                t \in 1 .. MaxTotal} :
     /\ Cardinality(Pairs(L) \ NormalPairs(L)) <= MaxVi
     /\ WellFormed(L)}

\* A word of a block: a pointer of pair k, null, plain data, or memory beyond
\* the object that was to be copied.
Null == [kind |-> "null", at |-> 0]
Word(L, v, o) ==
  IF \E k \in Pairs(L) : L.pairs[k].ptr = o
  THEN LET k == CHOOSE k \in Pairs(L) : L.pairs[k].ptr = o IN
       IF v[k] = "null" THEN Null ELSE [kind |-> v[k], at |-> o]
  ELSE [kind |-> "data", at |-> o]

\* What is at the native object for the block at b, where offset o is copied from.
Native(b, o) ==
  IF o < EndOf(layout, b) THEN Word(layout, native, o) ELSE [kind |-> "beyond", at |-> o]

Init ==
  /\ layout \in Layouts
  /\ vi_known \in {b \in BOOLEAN : b \/ NormalPairs(layout) = Pairs(layout)}
  /\ native \in {v \in [Pairs(layout) -> {"null", "object", "string", "resource", "bad"}] :
                   \A k \in Pairs(layout) :
                      v[k] \in IF IsVi(layout, k) THEN {"null", "string", "resource", "bad"}
                               ELSE {"null", "object", "bad"}}
  /\ vi_inst \in [Pairs(layout) \ NormalPairs(layout) ->
                    {"NO_ACTION", "RETURN_JAVA_STRING", "RETURN_RESOURCE", "OUT_OF_RANGE"}]
  /\ to = [o \in 0 .. layout.size_total - 1 |-> [kind |-> "old", at |-> o]]
  /\ vi_array = [k \in DOMAIN vi_inst |-> "none"]
  /\ ptr_i = 1
  /\ frames = <<>>
  /\ pc = "call"
  /\ jni_failed = FALSE

-------------------------------------------------------------------------------
(* The walk.                                                               *)

\* memcpy(), or memset() for null.
Fill(words) == to' = [o \in DOMAIN to \cup DOMAIN words |->
                        IF o \in DOMAIN words THEN words[o] ELSE to[o]]

\* A C++ exception unwinds the walk.
Throws == pc' = "thrown" /\ frames' = <<>> /\ UNCHANGED vi_array

\* An access violation, made a C++ exception, in a copy: some of it is done.
CopyThrows(b, e) == /\ \E m \in b .. e - 1 : Fill([o \in b .. m - 1 |-> Native(b, o)])
                    /\ Throws
                    /\ UNCHANGED jni_failed

\* Bug: variable indirect pairs are not skipped in the search for the boundary.
CopyEndOfVi(k) == IF k < Len(layout.pairs) THEN layout.pairs[k + 1].ptd
                  ELSE layout.size_total

\* Where the copy for pair k ends: at the thing that the next normal pointer
\* points to.  unmarshaller_indirect has no others.
CopyEnd(k) ==
  LET next == {j \in Pairs(layout) : j > k /\ (vi_known => ~IsVi(layout, j))} IN
  IF next = {} THEN layout.size_total ELSE layout.pairs[Min(next)].ptd

\* Bug: null is not followed, and nothing is zeroed.
NormalPtrNoZero(k) ==
  LET p == layout.pairs[k]
      end == CopyEnd(k)
  IN
  \/ /\ to[p.ptr] = Null
     /\ frames' = Append(frames, [ptd |-> p.ptd, end |-> end])
     /\ UNCHANGED <<to, vi_array, pc, jni_failed>>
  \/ /\ to[p.ptr].kind = "object"
     /\ Fill([o \in p.ptd .. end - 1 |-> Native(p.ptd, o)])
     /\ frames' = Append(frames, [ptd |-> p.ptd, end |-> end])
     /\ UNCHANGED <<vi_array, pc, jni_failed>>
  \/ /\ to[p.ptr] # Null /\ to[p.ptr].kind # "object"
     /\ CopyThrows(p.ptd, end)

\* normal_ptr() is entered: the copy.
NormalPtr(k) ==
  LET p == layout.pairs[k]
      end == CopyEnd(k)
  IN
  \/ /\ to[p.ptr] = Null
     /\ Fill([o \in p.ptd .. end - 1 |-> Null])
     /\ frames' = Append(frames, [ptd |-> p.ptd, end |-> end])
     /\ UNCHANGED <<vi_array, pc, jni_failed>>
  \/ /\ to[p.ptr].kind = "object"
     /\ Fill([o \in p.ptd .. end - 1 |-> Native(p.ptd, o)])
     /\ frames' = Append(frames, [ptd |-> p.ptd, end |-> end])
     /\ UNCHANGED <<vi_array, pc, jni_failed>>
  \/ /\ to[p.ptr] # Null /\ to[p.ptr].kind # "object"
     /\ CopyThrows(p.ptd, end)

\* vi_string_ptr() makes a Java object and puts it into the array.
Makes(k, object) ==
  /\ UNCHANGED to
  /\ \/ /\ vi_array' = [vi_array EXCEPT ![k] = object]
        /\ UNCHANGED <<frames, pc, jni_failed>>
     \/ Throws /\ jni_failed' = TRUE

\* Bug: null is not kept from vi_string_ptr(), which takes it for a resource.
ViPtrOfNull(k) ==
  LET str == to[layout.pairs[k].ptr].kind
      inst == vi_inst[k]
  IN
  \/ /\ inst = "NO_ACTION"
     /\ UNCHANGED <<to, vi_array, frames, pc, jni_failed>>
  \/ inst = "RETURN_RESOURCE" /\ str \in {"null", "resource"} /\ Makes(k, "Integer")
  \/ /\ inst \in {"RETURN_JAVA_STRING", "RETURN_RESOURCE"} /\ str = "string"
     /\ Makes(k, "String")
  \/ /\ inst # "NO_ACTION"
     /\ str = "string" => inst = "OUT_OF_RANGE"
     /\ ~(inst = "RETURN_RESOURCE" /\ str \in {"null", "resource"})
     /\ Throws /\ UNCHANGED <<to, jni_failed>>

\* vi_ptr(), and vi_string_ptr() unless the pointer is null.  It throws, too, for
\* an instruction that ordinal_enum_to_cpp() does not know.
ViPtr(k) ==
  LET str == to[layout.pairs[k].ptr].kind
      inst == vi_inst[k]
  IN
  \/ /\ str = "null" \/ inst = "NO_ACTION"
     /\ UNCHANGED <<to, vi_array, frames, pc, jni_failed>>
  \/ inst = "RETURN_RESOURCE" /\ str = "resource" /\ Makes(k, "Integer")
  \/ /\ inst \in {"RETURN_JAVA_STRING", "RETURN_RESOURCE"} /\ str = "string"
     /\ Makes(k, "String")
  \/ /\ inst # "NO_ACTION" /\ str # "null"
     /\ str = "string" => inst = "OUT_OF_RANGE"
     /\ ~(inst = "RETURN_RESOURCE" /\ str = "resource")
     /\ Throws /\ UNCHANGED <<to, jni_failed>>

\* Bug: the list is not moved on past a variable indirect pair.
TakePairAgain ==
  /\ UNCHANGED input
  /\ IF vi_known /\ IsVi(layout, ptr_i)
     THEN ViPtr(ptr_i) /\ UNCHANGED ptr_i
     ELSE NormalPtr(ptr_i) /\ ptr_i' = ptr_i + 1

\* The next pair is taken off the list, by the call that walks it.
TakePair ==
  /\ ptr_i' = ptr_i + 1
  /\ UNCHANGED input
  /\ IF vi_known /\ IsVi(layout, ptr_i) THEN ViPtr(ptr_i) ELSE NormalPtr(ptr_i)

\* unmarshall_indirect(), unmarshall_vi(): the direct block is copied.
Call ==
  /\ pc = "call"
  /\ \/ /\ Fill([o \in 0 .. layout.size_direct - 1 |-> Native(0, o)])
        /\ pc' = "walk"
        /\ UNCHANGED <<frames, vi_array, jni_failed>>
     \/ CopyThrows(0, layout.size_direct)  \* the structure cannot be read
  /\ UNCHANGED <<input, ptr_i>>

AtEnd == ptr_i > Len(layout.pairs)

\* Does normal_ptr() have the next pointer in the extent it has copied?
InFrame == LET f == Last(frames) IN
           ~AtEnd /\ layout.pairs[ptr_i].ptr \in f.ptd .. f.end - 1

\* The loop of unmarshall_indirect() or unmarshall_vi() takes a pair.
Outer == pc = "walk" /\ frames = <<>> /\ ~AtEnd /\ TakePair

\* The loop of normal_ptr() takes a pair.
Inner == pc = "walk" /\ frames # <<>> /\ InFrame /\ TakePair

\* normal_ptr() returns.
Leave ==
  /\ pc = "walk" /\ frames # <<>> /\ ~InFrame
  /\ frames' = Front(frames)
  /\ UNCHANGED <<input, to, vi_array, ptr_i, pc, jni_failed>>

Finish ==
  /\ pc = "walk" /\ frames = <<>> /\ AtEnd
  /\ pc' = "done"
  /\ UNCHANGED <<input, to, vi_array, ptr_i, frames, jni_failed>>

Next == Call \/ Outer \/ Inner \/ Leave \/ Finish

Spec == Init /\ [][Next]_vars
FairSpec == Spec /\ WF_vars(Next)

-------------------------------------------------------------------------------
(* What it should come to, said without a walk.                            *)

\* Can the thing that pair k points to be reached from the structure?
Reached ==
  LET reached[k \in 0 .. Len(layout.pairs)] ==
        IF k = 0 THEN TRUE ELSE native[k] # "null" /\ reached[Holder(layout, k)]
  IN  reached

\* A word of the block: of the object it is of, or zero if nothing leads there.
Expected(o) ==
  IF Reached[PairOf(layout, BlockOf(layout, o))] THEN Word(layout, native, o) ELSE Null

\* Following pair k is an access violation, or there is no such instruction.
Violates(k) ==
  /\ Reached[k]
  /\ \/ native[k] = "bad" /\ (IsVi(layout, k) => vi_inst[k] # "NO_ACTION")
     \/ native[k] = "resource" /\ vi_inst[k] = "RETURN_JAVA_STRING"
     \/ IsVi(layout, k) /\ native[k] # "null" /\ vi_inst[k] = "OUT_OF_RANGE"

ExpectedVi(k) ==
  IF ~Reached[k] \/ vi_inst[k] = "NO_ACTION" THEN "none"
  ELSE IF native[k] = "resource" THEN "Integer" ELSE "String"

\* The pairs that were followed, 0 for the structure itself, and the one whose
\* exception ended the walk.
Thrower == IF pc = "thrown" THEN {ptr_i - 1} ELSE {}
Handled == IF pc = "call" THEN {} ELSE (0 .. ptr_i - 1) \ Thrower

-------------------------------------------------------------------------------
\* Well-typed, and nothing is written outside of the block.
TypeOK ==
  /\ layout \in [size_direct : 1 .. MaxTotal, size_total : 1 .. MaxTotal,
                 pairs : Seq([ptr : Nat, ptd : Nat])]
  /\ DOMAIN to = 0 .. layout.size_total - 1
  /\ vi_array \in [DOMAIN vi_inst -> {"none", "Integer", "String"}]
  /\ ptr_i \in 1 .. Len(layout.pairs) + 1
  /\ \A i \in DOMAIN frames : frames[i] \in [ptd : DOMAIN to, end : 1 .. layout.size_total]
  /\ pc \in {"call", "walk", "done", "thrown"} /\ jni_failed \in BOOLEAN

\* Whatever the nesting of the structure and of the walk, each pair handled so
\* far has brought its block, to the last unit, and its string, and null has
\* zeroed all that was to be reached through it; and no block was touched before
\* its turn, so that an exception spoils no more than its own one (marshalling.cpp:
\* 213-222, 261-268, 285-309).
PrefixRight ==
  /\ \A o \in DOMAIN to :
       LET k == PairOf(layout, BlockOf(layout, o)) IN
       k \notin Thrower =>
         to[o] = IF k \in Handled THEN Expected(o) ELSE [kind |-> "old", at |-> o]
  /\ \A k \in DOMAIN vi_array :
       vi_array[k] = IF k \in Handled THEN ExpectedVi(k) ELSE "none"

\* It throws for what cannot be followed, at the first such pair, and for no
\* other structure unless JNI fails: null, in whatever place, is no error
\* (marshalling.cpp:217-222, 264).
ThrowsRight ==
  /\ \A k \in Thrower \ {0} : jni_failed \/ Violates(k)
  /\ \A k \in Handled \ {0} : ~Violates(k)

\* Every walk comes to the end of its list.
WalkEnds == <>(pc \in {"done", "thrown"})

===============================================================================
