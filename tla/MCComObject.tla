------------------------------ MODULE MCComObject ------------------------------
(***************************************************************************)
(* Instances of ComObject for TLC: the first two objects exist, each with  *)
(* an interface of its own; the rest are constructed along the way.        *)
(***************************************************************************)
EXTENDS ComObject

CONSTANTS o1, o2, i1, i2

MCExisting == (o1 :> i1) @@ (o2 :> i2) @@ [o \in Objects |-> NoIface]

Symmetry == Permutations(Threads)

===============================================================================
