--------------------------- MODULE UnmarshallerProofs ---------------------------
(***************************************************************************)
(* Proofs about Unmarshaller, for blocks of any size and lists of any      *)
(* length: however a structure is nested, each pair of the list brings     *)
(* its own block and no other, with what is really there, and the walk is  *)
(* ended only by something that cannot be followed.                        *)
(*                                                                         *)
(* The pairs of a list form a tree, by the block that holds the pointer;   *)
(* that the recursive function Reached is well defined on it is proved by  *)
(* induction over the list, from the least number of a set.                *)
(***************************************************************************)
EXTENDS Unmarshaller, SequenceTheorems, WellFoundedInduction, TLAPS

(* Numbers.                                                                *)

\* Every nonempty set of naturals has a least element.
LEMMA LeastNat ==
  ASSUME NEW T, T \subseteq Nat, T # {}
  PROVE  \E m \in T : \A n \in T : m <= n
<1> DEFINE R == {ss \in Nat \X Nat : ss[1] < ss[2]}
<1>1. IsWellFoundedOn(R, Nat)
  BY NatLessThanWellFounded DEF OpToRel
<1>2. \E x \in T : \A y \in T : ~(<<y, x>> \in R)
  <2> HIDE DEF R
  <2>1. QED
    BY <1>1, WFMin, Zenon
<1>3. PICK m \in T : \A n \in T : ~(<<n, m>> \in R)
  BY <1>2
<1>4. ASSUME NEW n \in T PROVE m <= n
  <2>1. n \in Nat /\ m \in Nat
    OBVIOUS
  <2>2. <<n, m>> \in Nat \X Nat
    BY <2>1
  <2>3. ~(n < m)
    BY <1>3, <2>2
  <2>4. QED
    BY <2>1, <2>3
<1>5. QED
  BY <1>4

\* Min() of the community modules.
LEMMA MinProperties ==
  ASSUME NEW T, T \subseteq Nat, T # {}
  PROVE  Min(T) \in T /\ \A n \in T : Min(T) <= n
<1>1. \E m \in T : \A n \in T : m <= n
  BY LeastNat
<1>2. QED
  BY <1>1 DEF Min

\* Max() of a set that is bounded.
LEMMA MaxProperties ==
  ASSUME NEW b \in Nat, NEW T, T \subseteq 0 .. b, T # {}
  PROVE  Max(T) \in T /\ \A n \in T : n <= Max(T)
<1>1. T \subseteq Nat
  OBVIOUS
<1> DEFINE D == {d \in 0 .. b : b - d \in T}
<1>2. D \subseteq Nat /\ D # {}
  <2>1. PICK n \in T : TRUE
    OBVIOUS
  <2>2. b - n \in 0 .. b /\ b - (b - n) = n
    OBVIOUS
  <2>3. b - n \in D
    BY <2>2
  <2>4. D \subseteq Nat
    OBVIOUS
  <2>5. QED
    BY <2>3, <2>4
<1>3. PICK d \in D : \A e \in D : d <= e
  BY <1>2, LeastNat
<1>4. b - d \in T
  OBVIOUS
<1>5. ASSUME NEW n \in T PROVE b - d >= n
  <2>1. b - n \in 0 .. b /\ b - (b - n) = n
    OBVIOUS
  <2>2. b - n \in D
    BY <2>1
  <2>3. d <= b - n
    BY <1>3, <2>2
  <2>4. QED
    BY <2>3
<1>6. \E x \in T : \A y \in T : x >= y
  BY <1>4, <1>5
<1>7. Max(T) \in T /\ \A n \in T : Max(T) >= n
  BY <1>6 DEF Max
<1>8. QED
  BY <1>1, <1>7

\* A function on an initial part of the numbers is a sequence.
LEMMA FunctionIsSeq ==
  ASSUME NEW S, NEW n \in Nat, NEW f \in [1 .. n -> S]
  PROVE  f \in Seq(S) /\ Len(f) = n
OBVIOUS

-------------------------------------------------------------------------------
(* Layouts.                                                                *)

\* What the lemmas use of a layout.
Layout(L) ==
  /\ L.size_direct \in 1 .. MaxTotal
  /\ L.size_total \in 1 .. MaxTotal
  /\ L.pairs \in Seq([ptr : Nat, ptd : Nat])
  /\ \A k \in 1 .. Len(L.pairs) : /\ L.pairs[k].ptr \in 0 .. L.size_total - 1
                                  /\ L.pairs[k].ptd \in Nat \ {0}
  /\ WellFormed(L)
  /\ L \in [size_direct : 1 .. MaxTotal, size_total : 1 .. MaxTotal,
            pairs : Seq([ptr : Nat, ptd : Nat])]

\* The layouts have that.
LEMMA LayoutsTyped == \A L \in Layouts : Layout(L)
<1> SUFFICES ASSUME NEW L \in Layouts PROVE Layout(L)
  OBVIOUS
<1>1. MaxTotal \in Nat /\ MaxPairs \in Nat
  BY UnmarshallerAssumption
<1>2. WellFormed(L)
  BY DEF Layouts
<1>3. PICK t \in 1 .. MaxTotal :
        L \in [size_direct : 1 .. t, size_total : {t},
               pairs : UNION {[1 .. n -> [ptr : 0 .. t - 1, ptd : 1 .. t + n - 1]] :
                              n \in 0 .. MaxPairs}]
  BY DEF Layouts
<1>4. PICK n \in 0 .. MaxPairs : L.pairs \in [1 .. n -> [ptr : 0 .. t - 1, ptd : 1 .. t + n - 1]]
  BY <1>3
<1>5. L.size_direct \in 1 .. MaxTotal /\ L.size_total = t /\ t \in 1 .. MaxTotal
  BY <1>1, <1>3
<1>6. \A k \in 1 .. n : /\ L.pairs[k] \in [ptr : Nat, ptd : Nat]
                       /\ L.pairs[k].ptr \in 0 .. L.size_total - 1
                       /\ L.pairs[k].ptd \in Nat \ {0}
  BY <1>4, <1>5
<1>7. L.pairs \in Seq([ptr : Nat, ptd : Nat]) /\ Len(L.pairs) = n /\ n \in Nat
  <2>1. L.pairs \in [1 .. n -> [ptr : Nat, ptd : Nat]] /\ n \in Nat
    BY <1>1, <1>4, <1>6
  <2>2. QED
    BY <2>1, FunctionIsSeq
<1>8. L \in [size_direct : 1 .. MaxTotal, size_total : 1 .. MaxTotal,
            pairs : Seq([ptr : Nat, ptd : Nat])]
  BY <1>3, <1>5, <1>7
<1>9. QED
  BY <1>2, <1>5, <1>6, <1>7, <1>8 DEF Layout

\* The list of a layout.
LEMMA PairsTyped ==
  ASSUME NEW L, Layout(L)
  PROVE  /\ Len(L.pairs) \in Nat /\ Pairs(L) = 1 .. Len(L.pairs)
         /\ NormalPairs(L) \subseteq Pairs(L)
         /\ \A k \in NormalPairs(L) : L.pairs[k].ptd \in 1 .. L.size_total - 1
         /\ \A k \in Pairs(L) : L.pairs[k].ptr \in 0 .. L.size_total - 1
         /\ \A k \in Pairs(L) : k \in NormalPairs(L) <=> ~IsVi(L, k)
<1>1. Len(L.pairs) \in Nat /\ Pairs(L) = 1 .. Len(L.pairs)
  BY LenProperties DEF Layout, Pairs
<1>2. NormalPairs(L) \subseteq Pairs(L)
  BY DEF NormalPairs
<1>3. ASSUME NEW k \in NormalPairs(L) PROVE L.pairs[k].ptd \in 1 .. L.size_total - 1
  <2>1. k \in 1 .. Len(L.pairs) /\ ~(L.size_total <= L.pairs[k].ptd)
    BY <1>1 DEF NormalPairs, IsVi
  <2>2. L.pairs[k].ptd \in Nat \ {0} /\ L.size_total \in Nat
    BY <2>1 DEF Layout
  <2>3. QED
    BY <2>1, <2>2
<1>4. \A k \in Pairs(L) : L.pairs[k].ptr \in 0 .. L.size_total - 1
  BY <1>1 DEF Layout
<1>5. QED
  BY <1>1, <1>2, <1>3, <1>4 DEF NormalPairs

\* Where blocks begin.
LEMMA StartsTyped ==
  ASSUME NEW L, Layout(L)
  PROVE  /\ Starts(L) \subseteq 0 .. L.size_total - 1
         /\ 0 \in Starts(L)
         /\ L.size_total \in Nat \ {0}
         /\ \A k \in NormalPairs(L) : L.pairs[k].ptd \in Starts(L)
<1>1. L.size_total \in Nat \ {0}
  BY DEF Layout
<1>2. QED
  BY <1>1, PairsTyped DEF Starts

\* The block of an offset is the last that begins there or before.
LEMMA BlockOfProperties ==
  ASSUME NEW L, Layout(L), NEW o \in 0 .. L.size_total - 1
  PROVE  /\ BlockOf(L, o) \in Starts(L) /\ BlockOf(L, o) <= o
         /\ \A b \in Starts(L) : b <= o => b <= BlockOf(L, o)
<1> DEFINE T == {b \in Starts(L) : b <= o}
<1>1. T \subseteq 0 .. o /\ T # {} /\ o \in Nat
  BY StartsTyped
<1>2. Max(T) \in T /\ \A b \in T : b <= Max(T)
  BY <1>1, MaxProperties
<1>3. QED
  BY <1>2 DEF BlockOf

\* A block ends where the next begins.
LEMMA EndOfProperties ==
  ASSUME NEW L, Layout(L), NEW b \in Starts(L)
  PROVE  /\ EndOf(L, b) \in Starts(L) \cup {L.size_total}
         /\ b < EndOf(L, b) /\ EndOf(L, b) \in 1 .. L.size_total
         /\ \A s \in Starts(L) : b < s => EndOf(L, b) <= s
<1> DEFINE T == {s \in Starts(L) \cup {L.size_total} : b < s}
<1>1. T \subseteq 1 .. L.size_total /\ T # {} /\ T \subseteq Nat
  BY StartsTyped
<1>2. Min(T) \in T /\ \A s \in T : Min(T) <= s
  BY <1>1, MinProperties
<1>3. QED
  BY <1>1, <1>2 DEF EndOf

\* So the blocks are the intervals from where they begin to where they end.
LEMMA BlockIsInterval ==
  ASSUME NEW L, Layout(L), NEW b \in Starts(L), NEW o \in 0 .. L.size_total - 1
  PROVE  BlockOf(L, o) = b <=> o \in b .. EndOf(L, b) - 1
<1>1. /\ Starts(L) \subseteq Nat /\ o \in Nat /\ b \in Nat /\ L.size_total \in Nat
      /\ EndOf(L, b) \in Nat /\ BlockOf(L, o) \in Nat
  BY StartsTyped, EndOfProperties, BlockOfProperties
<1>2. /\ BlockOf(L, o) \in Starts(L) /\ BlockOf(L, o) <= o
      /\ \A s \in Starts(L) : s <= o => s <= BlockOf(L, o)
  BY BlockOfProperties
<1>3. /\ EndOf(L, b) \in Starts(L) \cup {L.size_total} /\ b < EndOf(L, b)
      /\ \A s \in Starts(L) : b < s => EndOf(L, b) <= s
  BY EndOfProperties
<1>4. ASSUME BlockOf(L, o) = b PROVE o < EndOf(L, b)
  <2>1. CASE EndOf(L, b) = L.size_total
    BY <1>1, <2>1
  <2>2. CASE EndOf(L, b) \in Starts(L)
    BY <1>1, <1>2, <1>3, <1>4, <2>2
  <2>3. QED
    BY <1>3, <2>1, <2>2
<1>5. ASSUME b <= o, o < EndOf(L, b) PROVE BlockOf(L, o) = b
  <2>1. b <= BlockOf(L, o)
    BY <1>2, <1>5
  <2>2. ~(b < BlockOf(L, o))
    BY <1>1, <1>2, <1>3, <1>5
  <2>3. QED
    BY <1>1, <2>1, <2>2
<1>6. QED
  BY <1>1, <1>2, <1>4, <1>5

\* Pairs and blocks belong together.
LEMMA PairOfProperties ==
  ASSUME NEW L, Layout(L)
  PROVE  /\ PairOf(L, 0) = 0
         /\ \A k \in NormalPairs(L) : PairOf(L, L.pairs[k].ptd) = k
         /\ \A b \in Starts(L) : \/ b = 0 /\ PairOf(L, b) = 0
                                 \/ PairOf(L, b) \in NormalPairs(L) /\ L.pairs[PairOf(L, b)].ptd = b
<1>1. PairOf(L, 0) = 0
  BY DEF PairOf
<1>2. ASSUME NEW k \in NormalPairs(L) PROVE PairOf(L, L.pairs[k].ptd) = k
  <2>1. \A j \in NormalPairs(L) : L.pairs[j].ptd = L.pairs[k].ptd => j = k
    <3>1. \A i, j \in NormalPairs(L) : i < j => L.pairs[i].ptd < L.pairs[j].ptd
      BY DEF Layout, WellFormed
    <3>2. \A j \in NormalPairs(L) : j \in Nat /\ L.pairs[j].ptd \in Nat
      BY PairsTyped
    <3>3. QED
      BY <3>1, <3>2
  <2>2. L.pairs[k].ptd # 0
    BY PairsTyped
  <2>3. PairOf(L, L.pairs[k].ptd)
          = CHOOSE j \in NormalPairs(L) : L.pairs[j].ptd = L.pairs[k].ptd
    BY <2>2 DEF PairOf
  <2>4. QED
    BY <2>1, <2>3
<1>3. ASSUME NEW b \in Starts(L), b # 0
      PROVE  PairOf(L, b) \in NormalPairs(L) /\ L.pairs[PairOf(L, b)].ptd = b
  <2>1. PICK k \in NormalPairs(L) : L.pairs[k].ptd = b
    BY <1>3 DEF Starts
  <2>2. QED
    BY <1>2, <2>1
<1>4. QED
  BY <1>1, <1>2, <1>3

\* The block that an offset is in, by its pair.
Of(L, o) == PairOf(L, BlockOf(L, o))

\* The direct block is that of no pair, and the block of a normal pair begins
\* where it points to.
LEMMA OfProperties ==
  ASSUME NEW L, Layout(L), NEW o \in 0 .. L.size_total - 1
  PROVE  /\ Of(L, o) \in {0} \cup NormalPairs(L)
         /\ Of(L, o) = 0 <=> o \in 0 .. L.size_direct - 1
         /\ \A k \in NormalPairs(L) :
               Of(L, o) = k <=> o \in L.pairs[k].ptd .. EndOf(L, L.pairs[k].ptd) - 1
<1> DEFINE b == BlockOf(L, o)
<1>1. b \in Starts(L) /\ 0 \in Starts(L)
  BY BlockOfProperties, StartsTyped
<1>2. \/ b = 0 /\ PairOf(L, b) = 0
      \/ PairOf(L, b) \in NormalPairs(L) /\ L.pairs[PairOf(L, b)].ptd = b
  BY <1>1, PairOfProperties
<1>3. Of(L, o) = PairOf(L, b)
  BY DEF Of
<1>4. \A k \in NormalPairs(L) : k # 0 /\ L.pairs[k].ptd # 0
  BY PairsTyped
<1>5. Of(L, o) = 0 <=> b = 0
  BY <1>2, <1>3, <1>4
<1>6. b = 0 <=> o \in 0 .. L.size_direct - 1
  <2>1. L.size_direct = EndOf(L, 0)
    BY DEF Layout, WellFormed
  <2>2. QED
    BY <1>1, <2>1, BlockIsInterval
<1>7. ASSUME NEW k \in NormalPairs(L)
      PROVE  Of(L, o) = k <=> o \in L.pairs[k].ptd .. EndOf(L, L.pairs[k].ptd) - 1
  <2>1. L.pairs[k].ptd \in Starts(L)
    BY StartsTyped
  <2>2. PairOf(L, L.pairs[k].ptd) = k
    BY PairOfProperties
  <2>3. Of(L, o) = k <=> b = L.pairs[k].ptd
    BY <1>2, <1>3, <1>4, <2>2
  <2>4. QED
    BY <2>1, <2>3, BlockIsInterval
<1>8. QED
  BY <1>2, <1>3, <1>5, <1>6, <1>7

\* A pointer is in a block that is listed before.
LEMMA HolderProperties ==
  ASSUME NEW L, Layout(L), NEW k \in Pairs(L)
  PROVE  /\ Holder(L, k) = Of(L, L.pairs[k].ptr)
         /\ Holder(L, k) \in 0 .. k - 1
<1>1. Holder(L, k) = Of(L, L.pairs[k].ptr)
  BY DEF Holder, Of
<1>2. L.pairs[k].ptr \in 0 .. L.size_total - 1
  BY PairsTyped
<1>3. Of(L, L.pairs[k].ptr) \in {0} \cup NormalPairs(L)
  BY <1>2, OfProperties
<1>4. Holder(L, k) < k
  BY DEF Layout, WellFormed
<1>5. k \in Nat /\ NormalPairs(L) \subseteq Nat
  BY PairsTyped
<1>6. QED
  BY <1>1, <1>3, <1>4, <1>5

\* The word where a pair has its pointer is that pointer.
LEMMA WordOfPair ==
  ASSUME NEW L, Layout(L), NEW k \in Pairs(L), NEW v
  PROVE  Word(L, v, L.pairs[k].ptr)
           = IF v[k] = "null" THEN Null ELSE [kind |-> v[k], at |-> L.pairs[k].ptr]
<1> DEFINE o == L.pairs[k].ptr
<1>1. \A j \in Pairs(L) : L.pairs[j].ptr = o => j = k
  <2>1. \A i, j \in Pairs(L) : i < j => L.pairs[i].ptr # L.pairs[j].ptr
    BY DEF Layout, WellFormed
  <2>2. \A j \in Pairs(L) : j \in Nat
    BY PairsTyped
  <2>3. QED
    BY <2>1, <2>2
<1>2. (CHOOSE j \in Pairs(L) : L.pairs[j].ptr = o) = k
  BY <1>1
<1>3. \E j \in Pairs(L) : L.pairs[j].ptr = o
  OBVIOUS
<1>4. QED
  BY <1>2, <1>3 DEF Word

\* The copy for a normal pair ends where its block does, because the blocks are
\* listed in the order they are laid out.
LEMMA CopyEndIsEndOf ==
  ASSUME Layout(layout), vi_known \in BOOLEAN,
         vi_known \/ NormalPairs(layout) = Pairs(layout),
         NEW k \in NormalPairs(layout)
  PROVE  CopyEnd(k) = EndOf(layout, layout.pairs[k].ptd)
<1> DEFINE next == {j \in Pairs(layout) : j > k /\ (vi_known => ~IsVi(layout, j))}
<1> DEFINE b == layout.pairs[k].ptd
<1> DEFINE T == {s \in Starts(layout) \cup {layout.size_total} : b < s}
<1>1. next = {j \in NormalPairs(layout) : j > k}
  BY PairsTyped
<1>2. /\ NormalPairs(layout) \subseteq Nat
      /\ \A j \in NormalPairs(layout) : layout.pairs[j].ptd \in 1 .. layout.size_total - 1
      /\ \A i, j \in NormalPairs(layout) : i < j => layout.pairs[i].ptd < layout.pairs[j].ptd
  <2>1. \A i, j \in NormalPairs(layout) : i < j => layout.pairs[i].ptd < layout.pairs[j].ptd
    BY DEF Layout, WellFormed
  <2>2. QED
    BY <2>1, PairsTyped
<1>3. layout.size_total \in Nat
  BY StartsTyped
<1>4. \A s \in Starts(layout) : b < s => \E j \in next : layout.pairs[j].ptd = s
  BY <1>1, <1>2 DEF Starts
<1>5. b \in Starts(layout)
  BY StartsTyped
<1>6. /\ EndOf(layout, b) \in Starts(layout) \cup {layout.size_total}
      /\ b < EndOf(layout, b) /\ EndOf(layout, b) <= layout.size_total
      /\ \A s \in Starts(layout) : b < s => EndOf(layout, b) <= s
      /\ EndOf(layout, b) \in Nat
  BY <1>3, <1>5, EndOfProperties
<1>7. CASE next = {}
  <2>1. CopyEnd(k) = layout.size_total
    BY <1>7 DEF CopyEnd
  <2>2. QED
    BY <1>4, <1>6, <1>7, <2>1
<1>8. CASE next # {}
  <2>1. next \subseteq Nat
    BY <1>1, <1>2
  <2>2. Min(next) \in next /\ \A j \in next : Min(next) <= j
    BY <1>8, <2>1, MinProperties
  <2> DEFINE m == Min(next)
  <2>3. CopyEnd(k) = layout.pairs[m].ptd
    BY <1>8 DEF CopyEnd
  <2> HIDE DEF next, m
  <2>4. m \in NormalPairs(layout) /\ m > k /\ layout.pairs[m].ptd \in Starts(layout)
    BY <1>1, <2>2, StartsTyped DEF m
  <2>5. b < layout.pairs[m].ptd /\ layout.pairs[m].ptd <= layout.size_total - 1
    BY <1>2, <2>4
  <2>6. EndOf(layout, b) <= layout.pairs[m].ptd
    BY <1>6, <2>4, <2>5
  <2>7. EndOf(layout, b) \in Starts(layout)
    BY <1>2, <1>3, <1>6, <2>4, <2>5, <2>6
  <2>8. PICK j \in next : layout.pairs[j].ptd = EndOf(layout, b)
    BY <1>4, <1>6, <2>7
  <2>9. m <= j /\ j \in NormalPairs(layout)
    BY <1>1, <2>2, <2>8 DEF m
  <2>10. layout.pairs[m].ptd <= layout.pairs[j].ptd
    BY <1>2, <2>4, <2>9
  <2>11. QED
    BY <1>2, <1>6, <2>3, <2>4, <2>6, <2>8, <2>10
<1>9. QED
  BY <1>7, <1>8

-------------------------------------------------------------------------------
(* What can be reached: the recursion over the list is well defined.       *)

\* Is f what Reached says, on the first n pairs?
ReachedUpTo(f, n) ==
  /\ f \in [0 .. n -> BOOLEAN]
  /\ \A k \in 0 .. n :
        f[k] = IF k = 0 THEN TRUE ELSE native[k] # "null" /\ f[Holder(layout, k)]

\* There is such a function for every part of the list: the next pair needs only
\* what was decided for its holder.
LEMMA ReachedExists ==
  ASSUME Layout(layout), NEW n \in 0 .. Len(layout.pairs)
  PROVE  \E f : ReachedUpTo(f, n)
<1> DEFINE T == {m \in 0 .. Len(layout.pairs) : ~\E f : ReachedUpTo(f, m)}
<1>1. Len(layout.pairs) \in Nat /\ Pairs(layout) = 1 .. Len(layout.pairs)
  BY PairsTyped
<1>2. SUFFICES ASSUME T # {} PROVE FALSE
  OBVIOUS
<1>3. T \subseteq Nat
  BY <1>1
<1>4. PICK m \in T : \A i \in T : m <= i
  BY <1>2, <1>3, LeastNat
<1>5. m \in 0 .. Len(layout.pairs) /\ ~\E f : ReachedUpTo(f, m)
  OBVIOUS
<1>6. CASE m = 0
  <2>1. ReachedUpTo([k \in 0 .. 0 |-> TRUE], 0)
    BY DEF ReachedUpTo
  <2>2. QED
    BY <1>5, <1>6, <2>1
<1>7. CASE m # 0
  <2>1. m - 1 \in 0 .. Len(layout.pairs) /\ m \in Pairs(layout) /\ m \in Nat /\ ~(m <= m - 1)
    BY <1>1, <1>5, <1>7
  <2>2. m - 1 \notin T
    BY <1>4, <2>1
  <2>3. PICK g : ReachedUpTo(g, m - 1)
    BY <2>1, <2>2
  <2> DEFINE f == [k \in 0 .. m |-> IF k = m THEN native[m] # "null" /\ g[Holder(layout, m)]
                                    ELSE g[k]]
  <2>4. g \in [0 .. m - 1 -> BOOLEAN]
        /\ \A k \in 0 .. m - 1 :
              g[k] = IF k = 0 THEN TRUE ELSE native[k] # "null" /\ g[Holder(layout, k)]
    BY <2>3 DEF ReachedUpTo
  <2>5. \A k \in 1 .. m : Holder(layout, k) \in 0 .. k - 1
    BY <1>1, <1>5, HolderProperties
  <2>6. f \in [0 .. m -> BOOLEAN]
    <3>1. ASSUME NEW k \in 0 .. m
          PROVE  (IF k = m THEN native[m] # "null" /\ g[Holder(layout, m)] ELSE g[k]) \in BOOLEAN
      <4>1. CASE k = m
        BY <4>1
      <4>2. CASE k # m
        <5>1. k \in 0 .. m - 1
          BY <2>1, <4>2
        <5>2. QED
          BY <2>4, <4>2, <5>1
      <4>3. QED
        BY <4>1, <4>2
    <3>2. QED
      BY <3>1
  <2>7. \A k \in 0 .. m - 1 : k \in 0 .. m /\ k # m /\ f[k] = g[k]
    BY <2>1
  <2>8. f[m] = (native[m] # "null" /\ g[Holder(layout, m)]) /\ Holder(layout, m) \in 0 .. m - 1
    BY <2>1, <2>5
  <2> HIDE DEF f
  <2>9. ASSUME NEW k \in 0 .. m
        PROVE  f[k] = IF k = 0 THEN TRUE ELSE native[k] # "null" /\ f[Holder(layout, k)]
    <3>1. CASE k = m
      BY <1>7, <2>7, <2>8, <3>1
    <3>2. CASE k # m
      <4>1. k \in 0 .. m - 1
        BY <2>1, <3>2
      <4>2. CASE k = 0
        BY <2>4, <2>7, <4>1, <4>2
      <4>3. CASE k # 0
        <5>1. k \in 1 .. m /\ Holder(layout, k) \in 0 .. m - 1
          BY <2>1, <2>5, <4>1, <4>3
        <5>2. QED
          BY <2>4, <2>7, <4>1, <4>3, <5>1
      <4>4. QED
        BY <4>2, <4>3
    <3>3. QED
      BY <3>1, <3>2
  <2>10. ReachedUpTo(f, m)
    BY <2>6, <2>9 DEF ReachedUpTo
  <2>11. QED
    BY <1>5, <2>10
<1>8. QED
  BY <1>6, <1>7

\* So Reached is a function, and it is what its recursion says.
LEMMA ReachedDefined ==
  ASSUME Layout(layout)
  PROVE  /\ Reached[0] = TRUE
         /\ \A k \in Pairs(layout) :
               /\ Reached[k] \in BOOLEAN
               /\ Reached[k] = (native[k] # "null" /\ Reached[Holder(layout, k)])
<1> DEFINE N == Len(layout.pairs)
<1> DEFINE Eq(f) == f = [k \in 0 .. N |-> IF k = 0 THEN TRUE
                                          ELSE native[k] # "null" /\ f[Holder(layout, k)]]
<1>1. N \in Nat /\ Pairs(layout) = 1 .. N
  BY PairsTyped
<1>2. \E f : ReachedUpTo(f, N)
  <2>1. N \in 0 .. N
    BY <1>1
  <2>2. QED
    BY <2>1, ReachedExists
<1>3. \E f : Eq(f)
  BY <1>2 DEF ReachedUpTo
<1>4. Reached = CHOOSE f : Eq(f)
  BY DEF Reached
<1>5. Eq(Reached)
  <2> HIDE DEF Eq
  <2>1. QED
    BY <1>3, <1>4
<1>6. \A k \in 0 .. N : Reached[k] = IF k = 0 THEN TRUE
                                     ELSE native[k] # "null" /\ Reached[Holder(layout, k)]
  BY <1>5
<1>7. QED
  <2>1. 0 \in 0 .. N
    BY <1>1
  <2>2. Reached[0] = TRUE
    BY <1>6, <2>1
  <2>3. ASSUME NEW k \in Pairs(layout)
        PROVE  /\ Reached[k] \in BOOLEAN
               /\ Reached[k] = (native[k] # "null" /\ Reached[Holder(layout, k)])
    <3>1. k \in 0 .. N /\ k # 0
      BY <1>1
    <3>2. Reached[k] = (native[k] # "null" /\ Reached[Holder(layout, k)])
      BY <1>6, <3>1
    <3>3. QED
      BY <3>2
  <2>4. QED
    BY <2>2, <2>3

-------------------------------------------------------------------------------
(* The walk.                                                               *)

\* The input stays what it is.
InputInv ==
  /\ Layout(layout)
  /\ vi_known \in BOOLEAN
  /\ vi_known \/ NormalPairs(layout) = Pairs(layout)
  /\ native \in [Pairs(layout) -> {"null", "object", "string", "resource", "bad"}]
  /\ \A k \in Pairs(layout) :
        native[k] \in IF IsVi(layout, k) THEN {"null", "string", "resource", "bad"}
                      ELSE {"null", "object", "bad"}
  /\ vi_inst \in [Pairs(layout) \ NormalPairs(layout) ->
                    {"NO_ACTION", "RETURN_JAVA_STRING", "RETURN_RESOURCE", "OUT_OF_RANGE"}]

\* What was to come of it stays, too.
LEMMA SameInput ==
  ASSUME UNCHANGED input
  PROVE  Reached' = Reached
<1>1. layout' = layout /\ native' = native
  BY DEF input
<1>2. QED
  BY <1>1, SMT DEF Reached

\* The type of a call of normal_ptr().
Extent == [ptd : 0 .. layout.size_total - 1, end : 1 .. layout.size_total]

\* The inductive invariant: types, where the walk is, and what it has done so far.
WalkInv ==
  /\ InputInv
  /\ DOMAIN to = 0 .. layout.size_total - 1
  /\ vi_array \in [DOMAIN vi_inst -> {"none", "Integer", "String"}]
  /\ ptr_i \in 1 .. Len(layout.pairs) + 1
  /\ frames \in Seq(Extent)
  /\ pc \in {"call", "walk", "done", "thrown"}
  /\ jni_failed \in BOOLEAN
  /\ pc = "call" => ptr_i = 1 /\ frames = <<>>
  /\ pc = "done" => ptr_i = Len(layout.pairs) + 1
  /\ PrefixRight
  /\ ThrowsRight

\* Which pairs were handled: none, those before ptr_i, or those but the last.
LEMMA HandledPairs ==
  ASSUME ptr_i \in Nat \ {0}
  PROVE  /\ pc = "call" => Thrower = {} /\ Handled = {}
         /\ pc \in {"walk", "done"} =>
              Thrower = {} /\ \A j : j \in Handled <=> j \in 0 .. ptr_i - 1
         /\ pc = "thrown" =>
              Thrower = {ptr_i - 1} /\ \A j : j \in Handled <=> j \in 0 .. ptr_i - 2
BY DEF Handled, Thrower

\* What is filled changes, and nothing else.
LEMMA FillProperties ==
  ASSUME NEW words, DOMAIN words \subseteq DOMAIN to, Fill(words)
  PROVE  /\ DOMAIN to' = DOMAIN to
         /\ \A o \in DOMAIN words : to'[o] = words[o]
         /\ \A o \in DOMAIN to \ DOMAIN words : to'[o] = to[o]
BY DEF Fill

\* The types that the steps rely on.
LEMMA WalkTypes ==
  ASSUME WalkInv
  PROVE  /\ Layout(layout) /\ Pairs(layout) = 1 .. Len(layout.pairs)
         /\ Len(layout.pairs) \in Nat /\ ptr_i \in Nat \ {0}
         /\ layout.size_total \in Nat \ {0}
         /\ DOMAIN to = 0 .. layout.size_total - 1
         /\ DOMAIN vi_inst = Pairs(layout) \ NormalPairs(layout)
         /\ DOMAIN vi_array = DOMAIN vi_inst
<1>1. Layout(layout) /\ DOMAIN to = 0 .. layout.size_total - 1
  BY DEF WalkInv, InputInv
<1>2. Pairs(layout) = 1 .. Len(layout.pairs) /\ Len(layout.pairs) \in Nat
  BY <1>1, PairsTyped
<1>3. ptr_i \in Nat \ {0}
  BY <1>2 DEF WalkInv
<1>4. layout.size_total \in Nat \ {0}
  BY <1>1, StartsTyped
<1>5. DOMAIN vi_inst = Pairs(layout) \ NormalPairs(layout) /\ DOMAIN vi_array = DOMAIN vi_inst
  BY DEF WalkInv, InputInv
<1>6. QED
  BY <1>1, <1>2, <1>3, <1>4, <1>5

\* What the invariant says of the block, by the pairs of its words.
LEMMA BlockWords ==
  ASSUME WalkInv, NEW o \in 0 .. layout.size_total - 1, Of(layout, o) \notin Thrower
  PROVE  to[o] = IF Of(layout, o) \in Handled THEN Expected(o) ELSE [kind |-> "old", at |-> o]
<1>1. o \in DOMAIN to
  BY WalkTypes
<1>2. QED
  BY <1>1 DEF WalkInv, PrefixRight, Of

\* The pointer of the next pair is there: as it is, if something leads to it.
LEMMA NextPointer ==
  ASSUME WalkInv, pc = "walk", NEW k \in Pairs(layout), k = ptr_i
  PROVE  /\ to[layout.pairs[k].ptr]
              = IF Reached[k] THEN [kind |-> native[k], at |-> layout.pairs[k].ptr] ELSE Null
         /\ Reached[k] \in BOOLEAN
         /\ Reached[k] => native[k] # "null"
<1> DEFINE o == layout.pairs[k].ptr
<1> DEFINE h == Holder(layout, k)
<1>1. Layout(layout) /\ o \in 0 .. layout.size_total - 1
  BY WalkTypes, PairsTyped
<1>2. h = Of(layout, o) /\ h \in 0 .. k - 1
  BY <1>1, HolderProperties
<1>3. Thrower = {} /\ h \in Handled
  BY <1>2, HandledPairs, WalkTypes
<1>4. to[o] = Expected(o)
  BY <1>1, <1>2, <1>3, BlockWords
<1>5. Expected(o) = IF Reached[h] THEN Word(layout, native, o) ELSE Null
  BY <1>2 DEF Expected, Of
<1>6. Word(layout, native, o) = IF native[k] = "null" THEN Null ELSE [kind |-> native[k], at |-> o]
  BY <1>1, WordOfPair
<1>7. Reached[k] \in BOOLEAN /\ Reached[k] = (native[k] # "null" /\ Reached[h])
  BY <1>1, ReachedDefined
<1>8. to[o] = IF Reached[k] THEN [kind |-> native[k], at |-> o] ELSE Null
  <2>1. CASE Reached[k]
    BY <1>4, <1>5, <1>6, <1>7, <2>1
  <2>2. CASE ~Reached[k]
    BY <1>4, <1>5, <1>6, <1>7, <2>2
  <2>3. QED
    BY <2>1, <2>2
<1>9. Reached[k] => native[k] # "null"
  BY <1>7
<1>10. QED
  BY <1>7, <1>8, <1>9

\* A pair is handled, or ends the walk: what its step has to see to.
LEMMA PairHandled ==
  ASSUME WalkInv, pc = "walk", NEW k \in Pairs(layout), k = ptr_i, ptr_i' = k + 1,
         UNCHANGED input, DOMAIN to' = DOMAIN to,
         \A o \in DOMAIN to : Of(layout, o) # k => to'[o] = to[o],
         \A o \in DOMAIN to : Of(layout, o) = k /\ pc' = "walk" => to'[o] = Expected(o),
         vi_array' \in [DOMAIN vi_inst -> {"none", "Integer", "String"}],
         \A j \in DOMAIN vi_inst : j # k => vi_array'[j] = vi_array[j],
         k \in DOMAIN vi_inst =>
            vi_array'[k] = IF pc' = "walk" THEN ExpectedVi(k) ELSE vi_array[k],
         frames' \in Seq(Extent), pc' \in {"walk", "thrown"}, jni_failed' \in BOOLEAN,
         pc' = "walk" => ~Violates(k),
         pc' = "thrown" => jni_failed' \/ Violates(k)
  PROVE  WalkInv'
<1>1. UNCHANGED <<layout, vi_known, native, vi_inst>> /\ Reached' = Reached
  BY SameInput DEF input
<1>2. \A o : Expected(o)' = Expected(o)
  BY <1>1 DEF Expected
<1>3. \A j : ExpectedVi(j)' = ExpectedVi(j) /\ (Violates(j)' <=> Violates(j))
  BY <1>1 DEF ExpectedVi, Violates
<1>4. InputInv'
  BY <1>1 DEF WalkInv, InputInv
<1>5. Layout(layout) /\ Pairs(layout) = 1 .. Len(layout.pairs) /\ k \in Nat \ {0}
      /\ k + 1 \in 1 .. Len(layout.pairs) + 1 /\ DOMAIN to = 0 .. layout.size_total - 1
      /\ DOMAIN vi_array = DOMAIN vi_inst
  BY WalkTypes
<1>6. Thrower = {} /\ \A j : j \in Handled <=> j \in 0 .. k - 1
  BY HandledPairs, WalkTypes
<1>7. /\ pc' = "walk" => Thrower' = {} /\ \A j : j \in Handled' <=> j \in 0 .. k
      /\ pc' = "thrown" => Thrower' = {k} /\ \A j : j \in Handled' <=> j \in 0 .. k - 1
  <2>1. ptr_i' - 1 = k
    BY <1>5
  <2>2. pc' = "walk" => Thrower' = {} /\ Handled' = 0 .. k
    BY <2>1, Zenon DEF Handled, Thrower
  <2>3. pc' = "thrown" => Thrower' = {k} /\ Handled' = (0 .. k) \ {k}
    BY <2>1, Zenon DEF Handled, Thrower
  <2>4. \A j : j \in (0 .. k) \ {k} <=> j \in 0 .. k - 1
    BY <1>5
  <2>5. QED
    BY <2>2, <2>3, <2>4
<1>8. \A j : j # k => (j \in Handled' <=> j \in Handled)
  BY <1>5, <1>6, <1>7
<1>9. k \notin Handled /\ (k \in Handled' <=> pc' = "walk") /\ (k \in Thrower' <=> pc' = "thrown")
  BY <1>5, <1>6, <1>7
<1>10. PrefixRight'
  <2>1. ASSUME NEW o \in DOMAIN to, Of(layout, o) \notin Thrower'
        PROVE  to'[o] = IF Of(layout, o) \in Handled' THEN Expected(o)
                        ELSE [kind |-> "old", at |-> o]
    <3>1. CASE Of(layout, o) = k
      BY <1>9, <2>1, <3>1
    <3>2. CASE Of(layout, o) # k
      <4>1. to[o] = IF Of(layout, o) \in Handled THEN Expected(o) ELSE [kind |-> "old", at |-> o]
        BY <1>5, <1>6, BlockWords
      <4>2. QED
        BY <1>8, <3>2, <4>1
    <3>3. QED
      BY <3>1, <3>2
  <2>2. ASSUME NEW j \in DOMAIN vi_array
        PROVE  vi_array'[j] = IF j \in Handled' THEN ExpectedVi(j) ELSE "none"
    <3>1. vi_array[j] = IF j \in Handled THEN ExpectedVi(j) ELSE "none"
      BY DEF WalkInv, PrefixRight
    <3>2. QED
      BY <1>5, <1>8, <1>9, <3>1
  <2>3. DOMAIN vi_array' = DOMAIN vi_array
    BY <1>5
  <2>4. QED
    BY <1>1, <1>2, <1>3, <2>1, <2>2, <2>3 DEF PrefixRight, Of
<1>11. ThrowsRight'
  <2>1. \A j \in Handled \ {0} : ~Violates(j)
    BY DEF WalkInv, ThrowsRight
  <2>2. ASSUME NEW j \in Handled' \ {0} PROVE ~Violates(j)
    BY <1>8, <1>9, <2>1
  <2>3. ASSUME NEW j \in Thrower' \ {0} PROVE jni_failed' \/ Violates(j)
    BY <1>7
  <2>4. QED
    BY <1>3, <2>2, <2>3 DEF ThrowsRight
<1>12. frames' \in Seq(Extent')
  BY <1>1 DEF Extent
<1>13. QED
  BY <1>1, <1>4, <1>5, <1>10, <1>11, <1>12 DEF WalkInv

\* The block of a normal pair: where it is, and what is to be there.
LEMMA BlockOfPair ==
  ASSUME InputInv, NEW k \in NormalPairs(layout)
  PROVE  /\ layout.pairs[k].ptd \in 1 .. layout.size_total - 1
         /\ CopyEnd(k) \in 1 .. layout.size_total
         /\ CopyEnd(k) = EndOf(layout, layout.pairs[k].ptd)
         /\ \A o \in 0 .. layout.size_total - 1 :
               Of(layout, o) = k <=> o \in layout.pairs[k].ptd .. CopyEnd(k) - 1
         /\ layout.pairs[k].ptd .. CopyEnd(k) - 1 \subseteq 0 .. layout.size_total - 1
         /\ \A o : Of(layout, o) = k =>
               Expected(o) = IF Reached[k] THEN Word(layout, native, o) ELSE Null
<1> DEFINE b == layout.pairs[k].ptd
<1>1. Layout(layout) /\ CopyEnd(k) = EndOf(layout, b)
  BY CopyEndIsEndOf DEF InputInv
<1>2. /\ b \in 1 .. layout.size_total - 1 /\ b \in Starts(layout)
      /\ layout.size_total \in Nat \ {0}
  BY <1>1, PairsTyped, StartsTyped
<1>3. CopyEnd(k) \in 1 .. layout.size_total
  BY <1>1, <1>2, EndOfProperties
<1>4. \A o \in 0 .. layout.size_total - 1 : Of(layout, o) = k <=> o \in b .. CopyEnd(k) - 1
  BY <1>1, OfProperties
<1>5. b .. CopyEnd(k) - 1 \subseteq 0 .. layout.size_total - 1
  BY <1>2, <1>3
<1>6. \A o : Of(layout, o) = k =>
         Expected(o) = IF Reached[k] THEN Word(layout, native, o) ELSE Null
  BY DEF Expected, Of
<1>7. QED
  BY <1>1, <1>2, <1>3, <1>4, <1>5, <1>6

\* normal_ptr(): its block becomes what is there, or zero if nothing leads there; or
\* some of it does, and the pointer was one that cannot be followed.
LEMMA NormalStep ==
  ASSUME WalkInv, pc = "walk", NEW k \in NormalPairs(layout), k = ptr_i, ptr_i' = k + 1,
         UNCHANGED input, NormalPtr(k)
  PROVE  WalkInv'
<1> DEFINE b == layout.pairs[k].ptd
<1> DEFINE end == CopyEnd(k)
<1> DEFINE word == to[layout.pairs[k].ptr]
<1>1. InputInv /\ Layout(layout) /\ DOMAIN to = 0 .. layout.size_total - 1
  BY DEF WalkInv, InputInv
<1>2. k \in Pairs(layout) /\ ~IsVi(layout, k) /\ k \notin DOMAIN vi_inst
  BY <1>1, PairsTyped, WalkTypes
<1>3. /\ b \in 1 .. layout.size_total - 1 /\ end \in 1 .. layout.size_total
      /\ end = EndOf(layout, b)
      /\ \A o \in DOMAIN to : Of(layout, o) = k <=> o \in b .. end - 1
      /\ b .. end - 1 \subseteq DOMAIN to
      /\ \A o : Of(layout, o) = k =>
            Expected(o) = IF Reached[k] THEN Word(layout, native, o) ELSE Null
  BY <1>1, BlockOfPair
<1>4. /\ word = IF Reached[k] THEN [kind |-> native[k], at |-> layout.pairs[k].ptr] ELSE Null
      /\ Reached[k] \in BOOLEAN
      /\ Reached[k] => native[k] # "null"
  BY <1>2, NextPointer
<1>5. native[k] \in {"null", "object", "bad"}
  BY <1>1, <1>2 DEF InputInv
<1>6. /\ word = Null <=> ~Reached[k]
      /\ Reached[k] => word.kind = native[k]
      /\ ~Reached[k] => word.kind = "null"
  BY <1>4 DEF Null
<1>7. Violates(k) <=> Reached[k] /\ native[k] = "bad"
  <2>1. ~IsVi(layout, k) /\ native[k] # "resource"
    BY <1>2, <1>5 DEF NormalPairs
  <2>2. QED
    BY <2>1 DEF Violates
<1>8. Append(frames, [ptd |-> b, end |-> end]) \in Seq(Extent) /\ <<>> \in Seq(Extent)
  <2>1. [ptd |-> b, end |-> end] \in Extent
    BY <1>3 DEF Extent
  <2>2. frames \in Seq(Extent)
    BY DEF WalkInv
  <2>3. <<>> \in Seq(Extent)
    OBVIOUS
  <2>4. QED
    BY <2>1, <2>2, <2>3, AppendProperties
<1>9. vi_array \in [DOMAIN vi_inst -> {"none", "Integer", "String"}] /\ jni_failed \in BOOLEAN
  BY DEF WalkInv
<1> HIDE DEF b, end, word
<1>10. \A o \in b .. end - 1 : Native(b, o) = Word(layout, native, o)
  <2>1. b \in Int /\ end \in Int
    BY <1>3
  <2>2. \A o \in b .. end - 1 : o < end
    BY <2>1
  <2>3. QED
    BY <1>3, <2>2 DEF Native
<1>11. CASE /\ word = Null
            /\ Fill([o \in b .. end - 1 |-> Null])
            /\ frames' = Append(frames, [ptd |-> b, end |-> end])
            /\ UNCHANGED <<vi_array, pc, jni_failed>>
  <2>1. /\ DOMAIN to' = DOMAIN to
        /\ \A o \in b .. end - 1 : to'[o] = Null
        /\ \A o \in DOMAIN to \ (b .. end - 1) : to'[o] = to[o]
    <3> DEFINE words == [o \in b .. end - 1 |-> Null]
    <3>1. DOMAIN words = b .. end - 1 /\ \A o \in b .. end - 1 : words[o] = Null
      OBVIOUS
    <3>2. Fill(words)
      BY <1>11
    <3> HIDE DEF words
    <3>3. QED
      BY <1>3, <3>1, <3>2, FillProperties
  <2>2. \A o \in DOMAIN to : Of(layout, o) # k => to'[o] = to[o]
    BY <1>3, <2>1
  <2>3. \A o \in DOMAIN to : Of(layout, o) = k => to'[o] = Expected(o)
    BY <1>3, <1>6, <1>11, <2>1
  <2>4. ~Violates(k)
    BY <1>6, <1>7, <1>11
  <2>5. QED
    BY <1>2, <1>8, <1>9, <1>11, <2>1, <2>2, <2>3, <2>4, PairHandled
<1>12. CASE /\ word.kind = "object"
            /\ Fill([o \in b .. end - 1 |-> Native(b, o)])
            /\ frames' = Append(frames, [ptd |-> b, end |-> end])
            /\ UNCHANGED <<vi_array, pc, jni_failed>>
  <2>1. /\ DOMAIN to' = DOMAIN to
        /\ \A o \in b .. end - 1 : to'[o] = Native(b, o)
        /\ \A o \in DOMAIN to \ (b .. end - 1) : to'[o] = to[o]
    <3> DEFINE words == [o \in b .. end - 1 |-> Native(b, o)]
    <3>1. DOMAIN words = b .. end - 1 /\ \A o \in b .. end - 1 : words[o] = Native(b, o)
      OBVIOUS
    <3>2. Fill(words)
      BY <1>12
    <3> HIDE DEF words
    <3>3. QED
      BY <1>3, <3>1, <3>2, FillProperties
  <2>2. \A o \in DOMAIN to : Of(layout, o) # k => to'[o] = to[o]
    BY <1>3, <2>1
  <2>3. Reached[k] /\ native[k] = "object"
    BY <1>4, <1>6, <1>12
  <2>4. \A o \in DOMAIN to : Of(layout, o) = k => to'[o] = Expected(o)
    BY <1>3, <1>10, <2>1, <2>3
  <2>5. ~Violates(k)
    BY <1>7, <2>3
  <2>6. QED
    BY <1>2, <1>8, <1>9, <1>12, <2>1, <2>2, <2>4, <2>5, PairHandled
<1>13. CASE word # Null /\ word.kind # "object" /\ CopyThrows(b, end)
  <2>1. PICK m \in b .. end - 1 : Fill([o \in b .. m - 1 |-> Native(b, o)])
    BY <1>13 DEF CopyThrows
  <2>2. pc' = "thrown" /\ frames' = <<>> /\ UNCHANGED <<vi_array, jni_failed>>
    BY <1>13 DEF CopyThrows, Throws
  <2>3. b .. m - 1 \subseteq b .. end - 1
    BY <1>3
  <2>4. /\ DOMAIN to' = DOMAIN to
        /\ \A o \in DOMAIN to \ (b .. end - 1) : to'[o] = to[o]
    <3> DEFINE words == [o \in b .. m - 1 |-> Native(b, o)]
    <3>1. DOMAIN words = b .. m - 1 /\ Fill(words)
      BY <2>1
    <3> HIDE DEF words
    <3>2. DOMAIN words \subseteq DOMAIN to
      BY <1>3, <2>3, <3>1
    <3>3. QED
      BY <2>3, <3>1, <3>2, FillProperties
  <2>5. \A o \in DOMAIN to : Of(layout, o) # k => to'[o] = to[o]
    BY <1>3, <2>4
  <2>6. Violates(k)
    BY <1>4, <1>5, <1>6, <1>7, <1>13
  <2>7. QED
    BY <1>2, <1>8, <1>9, <2>2, <2>4, <2>5, <2>6, PairHandled
<1>14. QED
  BY <1>11, <1>12, <1>13 DEF NormalPtr, b, end, word

\* vi_ptr(): the block stays, and the object is made that the instruction asks for,
\* or the pointer was one that cannot be followed, or JNI failed.
LEMMA ViStep ==
  ASSUME WalkInv, pc = "walk", NEW k \in Pairs(layout), IsVi(layout, k), k = ptr_i,
         ptr_i' = k + 1, UNCHANGED input, ViPtr(k)
  PROVE  WalkInv'
<1> DEFINE str == to[layout.pairs[k].ptr].kind
<1> DEFINE inst == vi_inst[k]
<1>1. InputInv /\ Layout(layout) /\ DOMAIN to = 0 .. layout.size_total - 1
  BY DEF WalkInv, InputInv
<1>2. k \notin NormalPairs(layout) /\ k \in DOMAIN vi_inst /\ k # 0
      /\ DOMAIN vi_array = DOMAIN vi_inst
  BY <1>1, PairsTyped, WalkTypes
<1>3. \A o \in DOMAIN to : Of(layout, o) # k
  BY <1>1, <1>2, OfProperties
<1>4. inst \in {"NO_ACTION", "RETURN_JAVA_STRING", "RETURN_RESOURCE", "OUT_OF_RANGE"}
  BY <1>1, <1>2 DEF InputInv
<1>5. native[k] \in {"null", "string", "resource", "bad"}
  BY <1>1 DEF InputInv
<1>6. /\ Reached[k] \in BOOLEAN
      /\ Reached[k] => native[k] # "null"
      /\ Reached[k] => str = native[k]
      /\ ~Reached[k] => str = "null"
  <2>1. /\ to[layout.pairs[k].ptr]
              = IF Reached[k] THEN [kind |-> native[k], at |-> layout.pairs[k].ptr] ELSE Null
        /\ Reached[k] \in BOOLEAN
        /\ Reached[k] => native[k] # "null"
    BY NextPointer
  <2>2. Reached[k] => str = native[k]
    BY <2>1
  <2>3. ~Reached[k] => str = "null"
    BY <2>1 DEF Null
  <2>4. QED
    BY <2>1, <2>2, <2>3
<1>7. Violates(k) <=> /\ Reached[k]
                      /\ \/ native[k] = "bad" /\ inst # "NO_ACTION"
                         \/ native[k] = "resource" /\ inst = "RETURN_JAVA_STRING"
                         \/ native[k] # "null" /\ inst = "OUT_OF_RANGE"
  BY DEF Violates
<1>8. ExpectedVi(k) = IF ~Reached[k] \/ inst = "NO_ACTION" THEN "none"
                      ELSE IF native[k] = "resource" THEN "Integer" ELSE "String"
  BY DEF ExpectedVi
<1>9. /\ vi_array \in [DOMAIN vi_inst -> {"none", "Integer", "String"}]
      /\ vi_array[k] = "none"
      /\ jni_failed \in BOOLEAN /\ frames \in Seq(Extent)
  <2>1. k \notin Handled
    BY HandledPairs, WalkTypes
  <2>2. vi_array[k] = "none"
    BY <1>2, <2>1 DEF WalkInv, PrefixRight
  <2>3. QED
    BY <2>2 DEF WalkInv
<1>10. <<>> \in Seq(Extent)
  OBVIOUS
<1> HIDE DEF str, inst
<1>11. ASSUME to' = to, UNCHANGED <<frames, pc, jni_failed>>,
              vi_array' = vi_array, ExpectedVi(k) = "none", ~Violates(k)
       PROVE  WalkInv'
  BY <1>2, <1>3, <1>9, <1>11, PairHandled
<1>12. ASSUME to' = to, pc' = "thrown", frames' = <<>>, vi_array' = vi_array,
              jni_failed' \in BOOLEAN, jni_failed' \/ Violates(k)
       PROVE  WalkInv'
  BY <1>2, <1>3, <1>9, <1>10, <1>12, PairHandled
<1>13. ASSUME NEW object \in {"Integer", "String"}, Makes(k, object), ~Violates(k),
              ExpectedVi(k) = object
       PROVE  WalkInv'
  <2>1. to' = to
    BY <1>13 DEF Makes
  <2>2. CASE vi_array' = [vi_array EXCEPT ![k] = object] /\ UNCHANGED <<frames, pc, jni_failed>>
    <3>1. /\ vi_array' \in [DOMAIN vi_inst -> {"none", "Integer", "String"}]
          /\ vi_array'[k] = object
          /\ \A j \in DOMAIN vi_inst : j # k => vi_array'[j] = vi_array[j]
      BY <1>2, <1>9, <2>2
    <3>2. QED
      BY <1>2, <1>3, <1>9, <1>13, <2>1, <2>2, <3>1, PairHandled
  <2>3. CASE Throws /\ jni_failed' = TRUE
    <3>1. pc' = "thrown" /\ frames' = <<>> /\ vi_array' = vi_array /\ jni_failed' = TRUE
      BY <2>3 DEF Throws
    <3>2. QED
      BY <1>12, <2>1, <3>1
  <2>4. QED
    BY <1>13, <2>2, <2>3 DEF Makes
<1>14. CASE /\ str = "null" \/ inst = "NO_ACTION"
            /\ UNCHANGED <<to, vi_array, frames, pc, jni_failed>>
  <2>1. ExpectedVi(k) = "none"
    BY <1>6, <1>8, <1>14
  <2>2. ~Violates(k)
    BY <1>6, <1>7, <1>14
  <2>3. QED
    BY <1>11, <1>14, <2>1, <2>2
<1>15. CASE inst = "RETURN_RESOURCE" /\ str = "resource" /\ Makes(k, "Integer")
  <2>1. Reached[k] /\ native[k] = "resource"
    BY <1>6, <1>15
  <2>2. ExpectedVi(k) = "Integer" /\ ~Violates(k)
    BY <1>7, <1>8, <1>15, <2>1
  <2>3. QED
    BY <1>13, <1>15, <2>2
<1>16. CASE /\ inst \in {"RETURN_JAVA_STRING", "RETURN_RESOURCE"} /\ str = "string"
            /\ Makes(k, "String")
  <2>1. Reached[k] /\ native[k] = "string"
    BY <1>6, <1>16
  <2>2. ExpectedVi(k) = "String" /\ ~Violates(k)
    BY <1>7, <1>8, <1>16, <2>1
  <2>3. QED
    BY <1>13, <1>16, <2>2
<1>17. CASE /\ inst # "NO_ACTION" /\ str # "null"
            /\ str = "string" => inst = "OUT_OF_RANGE"
            /\ ~(inst = "RETURN_RESOURCE" /\ str = "resource")
            /\ Throws /\ UNCHANGED <<to, jni_failed>>
  <2>1. Reached[k] /\ str = native[k]
    BY <1>6, <1>17
  <2>2. Violates(k)
    BY <1>4, <1>5, <1>7, <1>17, <2>1
  <2>3. pc' = "thrown" /\ frames' = <<>> /\ vi_array' = vi_array
    BY <1>17 DEF Throws
  <2>4. QED
    BY <1>9, <1>12, <1>17, <2>2, <2>3
<1>18. QED
  BY <1>14, <1>15, <1>16, <1>17 DEF ViPtr, str, inst

\* The next pair, of either kind, by whichever loop takes it.
LEMMA TakePairStep ==
  ASSUME WalkInv, pc = "walk", ~AtEnd, TakePair PROVE WalkInv'
<1> DEFINE k == ptr_i
<1>1. k \in Pairs(layout)
  BY WalkTypes DEF AtEnd
<1>2. ptr_i' = k + 1 /\ UNCHANGED input
  BY DEF TakePair
<1>3. CASE vi_known /\ IsVi(layout, k)
  <2>1. ViPtr(k)
    BY <1>3 DEF TakePair
  <2>2. QED
    BY <1>1, <1>2, <1>3, <2>1, ViStep
<1>4. CASE ~(vi_known /\ IsVi(layout, k))
  <2>1. NormalPtr(k)
    BY <1>4 DEF TakePair
  <2>2. k \in NormalPairs(layout)
    BY <1>1, <1>4 DEF WalkInv, InputInv, NormalPairs
  <2>3. QED
    BY <1>2, <2>1, <2>2, NormalStep
<1>5. QED
  BY <1>3, <1>4

\* The direct block is copied, or not all of it.
LEMMA CallStep == ASSUME WalkInv, Call PROVE WalkInv'
<1> DEFINE d == layout.size_direct
<1>1. pc = "call" /\ UNCHANGED input /\ ptr_i' = ptr_i
  BY DEF Call
<1>2. UNCHANGED <<layout, vi_known, native, vi_inst>> /\ Reached' = Reached
  BY <1>1, SameInput DEF input
<1>3. InputInv' /\ ptr_i = 1 /\ frames = <<>>
  BY <1>1, <1>2 DEF WalkInv, InputInv
<1>4. Layout(layout) /\ DOMAIN to = 0 .. layout.size_total - 1
      /\ layout.size_total \in Nat \ {0} /\ Len(layout.pairs) \in Nat
  BY WalkTypes
<1>5. /\ d = EndOf(layout, 0)
      /\ d \in 1 .. layout.size_total
      /\ 0 .. d - 1 \subseteq DOMAIN to
  <2>1. d = EndOf(layout, 0)
    BY <1>4 DEF Layout, WellFormed
  <2>2. d \in 1 .. layout.size_total
    BY <1>4, <2>1, StartsTyped, EndOfProperties
  <2>3. 0 .. d - 1 \subseteq DOMAIN to
    BY <1>4, <2>2
  <2>4. QED
    BY <2>1, <2>2, <2>3
<1>6. \A o \in DOMAIN to : Of(layout, o) = 0 <=> o \in 0 .. d - 1
  BY <1>4, OfProperties
<1>7. \A o \in DOMAIN to : to[o] = [kind |-> "old", at |-> o]
  <2>1. Thrower = {} /\ Handled = {}
    BY <1>1, <1>3, HandledPairs
  <2>2. QED
    BY <1>4, <2>1, BlockWords
<1>8. \A j \in DOMAIN vi_array : vi_array[j] = "none"
  <2>1. Handled = {}
    BY <1>1, <1>3, HandledPairs
  <2>2. QED
    BY <2>1 DEF WalkInv, PrefixRight
<1>9. \A o : /\ Expected(o)' = Expected(o)
             /\ Of(layout, o) = 0 => Expected(o) = Word(layout, native, o)
  <2>1. Reached[0] = TRUE
    BY <1>4, ReachedDefined
  <2>2. QED
    BY <1>2, <2>1 DEF Expected, Of
<1>10. CASE /\ Fill([o \in 0 .. d - 1 |-> Native(0, o)])
            /\ pc' = "walk" /\ UNCHANGED <<frames, vi_array, jni_failed>>
  <2>1. /\ DOMAIN to' = DOMAIN to
        /\ \A o \in 0 .. d - 1 : to'[o] = Native(0, o)
        /\ \A o \in DOMAIN to \ (0 .. d - 1) : to'[o] = to[o]
    <3> DEFINE words == [o \in 0 .. d - 1 |-> Native(0, o)]
    <3>1. DOMAIN words = 0 .. d - 1 /\ \A o \in 0 .. d - 1 : words[o] = Native(0, o)
      OBVIOUS
    <3>2. Fill(words)
      BY <1>10
    <3> HIDE DEF words
    <3>3. QED
      BY <1>5, <3>1, <3>2, FillProperties
  <2>2. \A o \in 0 .. d - 1 : Native(0, o) = Word(layout, native, o)
    <3>1. \A o \in 0 .. d - 1 : o < d
      BY <1>4, <1>5
    <3>2. QED
      BY <1>5, <3>1 DEF Native
  <2>3. Thrower' = {} /\ Handled' = {0}
    <3>1. ptr_i' - 1 = 0 /\ 0 .. 0 = {0}
      BY <1>1, <1>3
    <3>2. Thrower' = {}
      BY <1>10 DEF Thrower
    <3>3. Handled' = 0 .. ptr_i' - 1
      BY <1>10, <3>2 DEF Handled
    <3>4. QED
      BY <3>1, <3>2, <3>3
  <2>4. PrefixRight'
    <3>1. ASSUME NEW o \in DOMAIN to
          PROVE  to'[o] = IF Of(layout, o) \in {0} THEN Expected(o) ELSE [kind |-> "old", at |-> o]
      BY <1>6, <1>7, <1>9, <2>1, <2>2
    <3>2. ASSUME NEW j \in DOMAIN vi_array
          PROVE  vi_array'[j] = IF j \in {0} THEN ExpectedVi(j)' ELSE "none"
      <4>1. j # 0
        BY WalkTypes
      <4>2. QED
        BY <1>8, <1>10, <4>1
    <3>3. QED
      BY <1>2, <1>9, <1>10, <2>1, <2>3, <3>1, <3>2 DEF PrefixRight, Of
  <2>5. ThrowsRight'
    BY <2>3 DEF ThrowsRight
  <2>6. frames' \in Seq(Extent')
    BY <1>2, <1>10 DEF Extent, WalkInv
  <2>7. QED
    BY <1>1, <1>2, <1>3, <1>4, <1>10, <2>1, <2>4, <2>5, <2>6 DEF WalkInv
<1>11. CASE CopyThrows(0, d)
  <2>1. PICK m \in 0 .. d - 1 : Fill([o \in 0 .. m - 1 |-> Native(0, o)])
    BY <1>11 DEF CopyThrows
  <2>2. pc' = "thrown" /\ frames' = <<>> /\ UNCHANGED <<vi_array, jni_failed>>
    BY <1>11 DEF CopyThrows, Throws
  <2>3. 0 .. m - 1 \subseteq 0 .. d - 1
    BY <1>4, <1>5
  <2>4. /\ DOMAIN to' = DOMAIN to
        /\ \A o \in DOMAIN to \ (0 .. d - 1) : to'[o] = to[o]
    <3> DEFINE words == [o \in 0 .. m - 1 |-> Native(0, o)]
    <3>1. DOMAIN words = 0 .. m - 1 /\ Fill(words)
      BY <2>1
    <3> HIDE DEF words
    <3>2. DOMAIN words \subseteq DOMAIN to
      BY <1>5, <2>3, <3>1
    <3>3. QED
      BY <2>3, <3>1, <3>2, FillProperties
  <2>5. Thrower' = {0} /\ Handled' = {}
    <3>1. ptr_i' - 1 = 0 /\ 0 .. 0 = {0}
      BY <1>1, <1>3
    <3>2. Thrower' = {0}
      BY <2>2, <3>1 DEF Thrower
    <3>3. Handled' = (0 .. ptr_i' - 1) \ {0}
      BY <2>2, <3>2 DEF Handled
    <3>4. QED
      BY <3>1, <3>2, <3>3
  <2>6. PrefixRight'
    <3>1. ASSUME NEW o \in DOMAIN to, Of(layout, o) # 0
          PROVE  to'[o] = [kind |-> "old", at |-> o]
      BY <1>6, <1>7, <2>4, <3>1
    <3>2. \A j \in DOMAIN vi_array : vi_array'[j] = "none"
      BY <1>8, <2>2
    <3>3. QED
      BY <1>2, <2>2, <2>4, <2>5, <3>1, <3>2 DEF PrefixRight, Of
  <2>7. ThrowsRight'
    BY <2>5 DEF ThrowsRight
  <2>8. frames' \in Seq(Extent')
    BY <2>2
  <2>9. QED
    BY <1>1, <1>2, <1>3, <1>4, <2>2, <2>4, <2>6, <2>7, <2>8 DEF WalkInv
<1>12. QED
  BY <1>10, <1>11 DEF Call

\* The calls of normal_ptr() that are left when one returns.
LEMMA FrontOfSeq ==
  ASSUME NEW S, NEW s \in Seq(S), s # <<>>
  PROVE  Front(s) \in Seq(S)
<1>1. Len(s) \in Nat \ {0}
  BY EmptySeq
<1>2. \A i \in 1 .. Len(s) - 1 : i \in 1 .. Len(s)
  BY <1>1
<1>3. \A i \in 1 .. Len(s) - 1 : s[i] \in S
  BY <1>2, ElementOfSeq
<1>4. 1 \in Int /\ Len(s) - 1 \in Int
  BY <1>1
<1>5. QED
  BY <1>3, <1>4, SubSeqProperties DEF Front

\* A step that handles no pair: normal_ptr() returns, the walk ends, or nothing is
\* done.
LEMMA NoPairStep ==
  ASSUME WalkInv, UNCHANGED <<input, to, vi_array, ptr_i, jni_failed>>,
         \/ Leave
         \/ Finish
         \/ UNCHANGED vars
  PROVE  WalkInv'
<1>1. UNCHANGED <<layout, vi_known, native, vi_inst>> /\ Reached' = Reached
  BY SameInput DEF input
<1>2. InputInv'
  BY <1>1 DEF WalkInv, InputInv
<1>3. frames' \in Seq(Extent) /\ Extent' = Extent
  <2>1. frames \in Seq(Extent)
    BY DEF WalkInv
  <2>2. Extent' = Extent
    BY <1>1 DEF Extent
  <2>3. CASE Leave
    BY <2>1, <2>2, <2>3, FrontOfSeq DEF Leave
  <2>4. CASE Finish \/ UNCHANGED vars
    BY <2>1, <2>2, <2>4 DEF Finish, vars
  <2>5. QED
    BY <2>3, <2>4
<1>4. /\ pc' \in {"call", "walk", "done", "thrown"}
      /\ pc' = "call" => pc = "call" /\ frames' = frames
      /\ pc' = "done" => pc = "done" \/ ptr_i > Len(layout.pairs)
      /\ pc' = "thrown" <=> pc = "thrown"
      /\ pc' = "call" <=> pc = "call"
  BY DEF Leave, Finish, vars, AtEnd, WalkInv
<1>5. Thrower' = Thrower /\ Handled' = Handled
  <2>1. Thrower' = Thrower
    BY <1>4 DEF Thrower
  <2>2. QED
    BY <1>4, <2>1 DEF Handled
<1>6. PrefixRight'
  BY <1>1, <1>5 DEF WalkInv, PrefixRight, Expected, ExpectedVi
<1>7. ThrowsRight'
  BY <1>1, <1>5 DEF WalkInv, ThrowsRight, Violates
<1>8. pc' = "done" => ptr_i' = Len(layout.pairs) + 1
  BY <1>4, WalkTypes DEF WalkInv
<1>9. QED
  BY <1>1, <1>2, <1>3, <1>4, <1>6, <1>7, <1>8 DEF WalkInv

\* Before the walk the block is what it was, and no object was made.
LEMMA WalkInit == Init => WalkInv
<1> SUFFICES ASSUME Init PROVE WalkInv
  OBVIOUS
<1>1. Layout(layout)
  BY LayoutsTyped DEF Init
<1>2. DOMAIN vi_inst = Pairs(layout) \ NormalPairs(layout)
  BY DEF Init
<1>3. Len(layout.pairs) \in Nat
  BY <1>1, PairsTyped
<1>4. InputInv
  <2>1. vi_known \in BOOLEAN /\ (vi_known \/ NormalPairs(layout) = Pairs(layout))
    BY DEF Init
  <2>2. /\ native \in [Pairs(layout) -> {"null", "object", "string", "resource", "bad"}]
        /\ \A k \in Pairs(layout) :
              native[k] \in IF IsVi(layout, k) THEN {"null", "string", "resource", "bad"}
                            ELSE {"null", "object", "bad"}
    BY DEF Init
  <2>3. vi_inst \in [Pairs(layout) \ NormalPairs(layout) ->
                       {"NO_ACTION", "RETURN_JAVA_STRING", "RETURN_RESOURCE", "OUT_OF_RANGE"}]
    BY DEF Init
  <2>4. QED
    BY <1>1, <2>1, <2>2, <2>3 DEF InputInv
<1>5. Thrower = {} /\ Handled = {}
  BY DEF Init, Thrower, Handled
<1>6. PrefixRight
  <2>1. \A o \in DOMAIN to : to[o] = [kind |-> "old", at |-> o]
    BY DEF Init
  <2>2. \A k \in DOMAIN vi_array : vi_array[k] = "none"
    BY DEF Init
  <2>3. QED
    BY <1>5, <2>1, <2>2 DEF PrefixRight
<1>7. ThrowsRight
  BY <1>5 DEF ThrowsRight
<1>8. /\ DOMAIN to = 0 .. layout.size_total - 1
      /\ vi_array \in [DOMAIN vi_inst -> {"none", "Integer", "String"}]
      /\ ptr_i = 1 /\ frames = <<>> /\ pc = "call" /\ jni_failed = FALSE
  BY DEF Init
<1>9. 1 \in 1 .. Len(layout.pairs) + 1 /\ <<>> \in Seq(Extent)
  BY <1>3
<1>10. QED
  BY <1>4, <1>6, <1>7, <1>8, <1>9 DEF WalkInv

\* Every step keeps the invariant.
LEMMA WalkStep == WalkInv /\ [Next]_vars => WalkInv'
<1> SUFFICES ASSUME WalkInv, [Next]_vars PROVE WalkInv'
  OBVIOUS
<1>1. CASE Call
  BY <1>1, CallStep
<1>2. CASE Outer
  BY <1>2, TakePairStep DEF Outer
<1>3. CASE Inner
  BY <1>3, TakePairStep DEF Inner, InFrame
<1>4. CASE Leave
  BY <1>4, NoPairStep DEF Leave
<1>5. CASE Finish
  BY <1>5, NoPairStep DEF Finish
<1>6. CASE UNCHANGED vars
  BY <1>6, NoPairStep DEF vars
<1>7. QED
  BY <1>1, <1>2, <1>3, <1>4, <1>5, <1>6 DEF Next

\* The inductive invariant holds throughout.
LEMMA WalkInvariant == Spec => []WalkInv
BY WalkInit, WalkStep, PTL DEF Spec

\* The walk is well-typed and writes nothing outside of the block (marshalling.cpp:
\* 199-309).
THEOREM UnmarshallerTypeCorrect == Spec => []TypeOK
<1>1. WalkInv => TypeOK
  <2> SUFFICES ASSUME WalkInv PROVE TypeOK
    OBVIOUS
  <2>1. layout \in [size_direct : 1 .. MaxTotal, size_total : 1 .. MaxTotal,
                    pairs : Seq([ptr : Nat, ptd : Nat])]
    BY DEF WalkInv, InputInv, Layout
  <2>2. ASSUME NEW i \in DOMAIN frames
        PROVE  frames[i] \in [ptd : DOMAIN to, end : 1 .. layout.size_total]
    <3>1. frames \in Seq(Extent)
      BY DEF WalkInv
    <3>2. i \in 1 .. Len(frames)
      BY <3>1
    <3>3. frames[i] \in Extent
      BY <3>1, <3>2, ElementOfSeq
    <3>4. QED
      BY <3>3 DEF Extent, WalkInv
  <2>3. QED
    BY <2>1, <2>2 DEF WalkInv, TypeOK
<1>2. QED
  BY <1>1, WalkInvariant, PTL

\* Every pair handled so far has brought its block and its string, with what is
\* there, and no other block was touched, for structures of any size and nesting
\* (marshalling.cpp:213-222, 261-268, 285-309).
THEOREM UnmarshallerPrefixRight == Spec => []PrefixRight
<1>1. WalkInv => PrefixRight
  BY DEF WalkInv
<1>2. QED
  BY <1>1, WalkInvariant, PTL

\* The walk throws for the first thing that cannot be followed, and otherwise only
\* if JNI fails (marshalling.cpp:217-222, 264).
THEOREM UnmarshallerThrowsRight == Spec => []ThrowsRight
<1>1. WalkInv => ThrowsRight
  BY DEF WalkInv
<1>2. QED
  BY <1>1, WalkInvariant, PTL

\* A walk that comes to its end has brought all of the structure: every word of the
\* block and every object is what the structure has there, and there was nothing
\* that could not be followed (marshalling.cpp:238-254, 333-355).
UnmarshalledWhole ==
  pc = "done" => /\ \A o \in DOMAIN to : to[o] = Expected(o)
                 /\ \A k \in DOMAIN vi_array : vi_array[k] = ExpectedVi(k)
                 /\ \A k \in Pairs(layout) : ~Violates(k)

\* What a caller relies on when unmarshall_indirect() or unmarshall_vi() returns
\* (marshalling.cpp:238-254, 333-355).
THEOREM UnmarshallerWhole == Spec => []UnmarshalledWhole
<1>1. WalkInv => UnmarshalledWhole
  <2> SUFFICES ASSUME WalkInv, pc = "done"
               PROVE  /\ \A o \in DOMAIN to : to[o] = Expected(o)
                      /\ \A k \in DOMAIN vi_array : vi_array[k] = ExpectedVi(k)
                      /\ \A k \in Pairs(layout) : ~Violates(k)
    BY DEF UnmarshalledWhole
  <2>1. /\ Layout(layout) /\ Pairs(layout) = 1 .. Len(layout.pairs)
        /\ Len(layout.pairs) \in Nat /\ ptr_i = Len(layout.pairs) + 1
        /\ DOMAIN to = 0 .. layout.size_total - 1
        /\ DOMAIN vi_array \subseteq Pairs(layout)
    BY WalkTypes DEF WalkInv
  <2>2. Thrower = {} /\ \A j : j \in Handled <=> j \in 0 .. ptr_i - 1
    BY <2>1, HandledPairs
  <2>3. 0 \in Handled /\ 0 \notin Pairs(layout) /\ Pairs(layout) \subseteq Handled
    BY <2>1, <2>2
  <2>4. ASSUME NEW o \in DOMAIN to PROVE to[o] = Expected(o)
    <3>1. Of(layout, o) \in Handled
      BY <2>1, <2>3, OfProperties, PairsTyped
    <3>2. QED
      BY <2>1, <2>2, <3>1, BlockWords
  <2>5. \A k \in DOMAIN vi_array : vi_array[k] = ExpectedVi(k)
    BY <2>1, <2>3 DEF WalkInv, PrefixRight
  <2>6. \A k \in Pairs(layout) : ~Violates(k)
    BY <2>3 DEF WalkInv, ThrowsRight
  <2>7. QED
    BY <2>4, <2>5, <2>6
<1>2. QED
  BY <1>1, WalkInvariant, PTL

===============================================================================
