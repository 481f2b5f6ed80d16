---------------------------- MODULE ThunkLifecycle ----------------------------
(***************************************************************************)
(* What a thunk promises, without its counter.  A thunk is ready until it  *)
(* is cleared, stays clearing while calls that were admitted are still     *)
(* inside its callback, is cleared once the last of them has left, and is  *)
(* deleted at most once after that.  A call that reaches an idle thunk     *)
(* that is past "ready" dooms the process (the code aborts).               *)
(***************************************************************************)

CONSTANTS Thunks, Calls

VARIABLES life, users

lifeVars == <<life, users>>

Init == /\ life = [k \in Thunks |-> "ready"]
        /\ users = [k \in Thunks |-> {}]

\* A call is admitted: always while ready, and while clearing only next to
\* another call that still is in the callback.
Begin(k, c) == /\ \/ life[k] = "ready"
                  \/ life[k] = "clearing" /\ users[k] # {}
               /\ \A j \in Thunks : c \notin users[j]
               /\ users' = [users EXCEPT ![k] = @ \cup {c}]
               /\ UNCHANGED life

End(k, c) == /\ c \in users[k]
             /\ users' = [users EXCEPT ![k] = @ \ {c}]
             /\ UNCHANGED life

StartClear(k) == /\ life[k] = "ready"
                 /\ life' = [life EXCEPT ![k] = "clearing"]
                 /\ UNCHANGED users

\* Only a thunk that nobody is using any more becomes cleared.
FinishClear(k) == /\ life[k] = "clearing"
                  /\ users[k] = {}
                  /\ life' = [life EXCEPT ![k] = "cleared"]
                  /\ UNCHANGED users

Delete(k) == /\ life[k] = "cleared"
             /\ life' = [life EXCEPT ![k] = "deleted"]
             /\ UNCHANGED users

\* A call arrived on a thunk that is past ready and that no admitted call is
\* using: the process is lost, and nothing is promised of it any more.
Doom(k) == /\ life[k] \in {"clearing", "cleared", "deleted"}
           /\ users[k] = {}
           /\ life' = [j \in Thunks |-> "doomed"]
           /\ users' = [j \in Thunks |-> {}]

Next == \E k \in Thunks :
            \/ \E c \in Calls : Begin(k, c) \/ End(k, c)
            \/ StartClear(k)
            \/ FinishClear(k)
            \/ Delete(k)
            \/ Doom(k)

Spec == Init /\ [][Next]_lifeVars

===============================================================================
