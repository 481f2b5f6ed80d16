-------------------------------- MODULE MCThunk --------------------------------
(***************************************************************************)
(* Instances of ThunkClearingList for TLC.                                 *)
(***************************************************************************)
EXTENDS ThunkClearingList, TLC

Symmetry == Permutations(Calls) \cup Permutations(Thunks)

===============================================================================
