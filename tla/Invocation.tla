------------------------------ MODULE Invocation ------------------------------
(***************************************************************************)
(* What the invokers promise (invoke64.h, stdcall_invoke.h), for both ABIs: *)
(* the function is called at most once, reads its arguments as the caller  *)
(* passed them, and control comes back with the caller's stack as it was;  *)
(* or an exception does, from the code that prepares the call, or from a   *)
(* function that crashed (SEH_CONVERT_TO_CPP_BEGIN).                       *)
(***************************************************************************)
EXTENDS Sequences

VARIABLES
  args,    \* the arguments, as the function must see them
  seen,    \* what the function has read, once it has been called
  phase,   \* "ready", "inside" the function, "returned", "thrown"
  balanced \* is the caller's stack as it was before the call?

vars == <<args, seen, phase, balanced>>

Init == phase = "ready" /\ seen = <<>> /\ balanced = TRUE

Deliver == /\ phase = "ready" /\ phase' = "inside"
           /\ seen' = args
           /\ balanced' \in BOOLEAN

Return == /\ phase = "inside" /\ phase' = "returned"
          /\ balanced' = TRUE
          /\ UNCHANGED seen

Refuse == /\ phase = "ready" /\ phase' = "thrown"
          /\ balanced' = TRUE
          /\ UNCHANGED seen

Crash == /\ phase = "inside" /\ phase' = "thrown"
         /\ balanced' = TRUE
         /\ UNCHANGED seen

\* While the invoker works, its part of the stack grows.
Prepare == /\ phase = "ready" /\ phase' = phase
           /\ balanced' \in BOOLEAN
           /\ UNCHANGED seen

Next == args' = args /\ (Prepare \/ Deliver \/ Return \/ Refuse \/ Crash)

Spec == Init /\ [][Next]_vars

===============================================================================
