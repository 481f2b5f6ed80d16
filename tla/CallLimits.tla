------------------------------ MODULE CallLimits ------------------------------
(***************************************************************************)
(* The sizes of a call, for both ABIs.                                     *)
(***************************************************************************)
EXTENDS Integers

CONSTANTS MaxArgs, \* bound: words of arguments
          RetLimit \* words that the operand of RET can pop on x86, where it is a
                   \* uint16_t and counts bytes

ASSUME CallLimitsAssumption == MaxArgs \in Nat /\ RetLimit \in Nat

===============================================================================
