--------------------------- MODULE ThunkClearingList ---------------------------
(***************************************************************************)
(* jsdi::thunk_clearing_list (thunk.cpp:154-205), the owner of every thunk *)
(* that jSuneido deletes.  clear_thunk() runs under the list's mutex: it   *)
(* clears its thunk, queues it by the result, deletes at most one thunk    *)
(* once more than MaxCleared are cleared, and moves at most one thunk that *)
(* has become CLEARED meanwhile.  Calls go on in other threads throughout. *)
(***************************************************************************)
EXTENDS Thunk, Sequences

CONSTANT MaxCleared  \* 10 in the code

ASSUME ClearingListAssumption == MaxCleared \in Nat \ {0}

VARIABLES
  clearedList,   \* d_cleared_list
  clearingList,  \* d_clearing_list
  mutex,         \* the thunk whose clear_thunk() holds d_mutex, or NoThunk
  listPc,        \* where the clear_thunk() of each thunk is
  pushed         \* the thunks that were queued once, a history

listVars == <<clearedList, clearingList, mutex, listPc, pushed>>
vars == <<thunkVars, listVars>>

ListPcs == {"none", "waiting", "clear", "push", "trim", "move", "done"}

ListInit == /\ Init
            /\ clearedList = <<>>
            /\ clearingList = <<>>
            /\ mutex = NoThunk
            /\ listPc = [k \in Thunks |-> "none"]
            /\ pushed = {}

Goto(k, from, to) == /\ ~aborted
                     /\ listPc[k] = from
                     /\ listPc' = [listPc EXCEPT ![k] = to]

-------------------------------------------------------------------------------
\* deleteThunk() from Java: once per thunk, for different thunks concurrently.
CallClearThunk(k) == /\ Goto(k, "none", "waiting")
                     /\ UNCHANGED <<thunkVars, clearedList, clearingList, mutex, pushed>>

LockList(k) == /\ Goto(k, "waiting", "clear")
               /\ mutex = NoThunk
               /\ mutex' = k
               /\ UNCHANGED <<thunkVars, clearedList, clearingList, pushed>>

\* thunk_->clear(), atomic operation by atomic operation; it is over when it
\* has a result.
ClearInList(k) ==
  /\ listPc[k] = "clear"
  /\ ClearFlag(k) \/ ClearSub(k) \/ ClearStore(k)
  /\ listPc' = IF clearPc'[k] \in {"cleared", "clearing"}
               THEN [listPc EXCEPT ![k] = "push"] ELSE listPc
  /\ UNCHANGED <<clearedList, clearingList, mutex, pushed>>

\* Bug: every thunk goes to the cleared list, whatever clear() returned.
PushAlwaysCleared(k) ==
  /\ Goto(k, "push", "trim")
  /\ clearedList' = Append(clearedList, k)
  /\ pushed' = pushed \cup {k}
  /\ UNCHANGED <<thunkVars, clearingList, mutex>>

\* The switch on the result of clear().
Push(k) ==
  /\ Goto(k, "push", "trim")
  /\ \/ /\ clearPc[k] = "cleared"
        /\ clearedList' = Append(clearedList, k)
        /\ UNCHANGED clearingList
     \/ /\ clearPc[k] = "clearing"
        /\ clearingList' = Append(clearingList, k)
        /\ UNCHANGED clearedList
  /\ pushed' = pushed \cup {k}
  /\ UNCHANGED <<thunkVars, mutex>>

\* Bug: the thunk is deleted but stays at the head of the list.
TrimNoPop(k) ==
  /\ Goto(k, "trim", "move")
  /\ \/ /\ Len(clearedList) > MaxCleared
        /\ Delete(Head(clearedList))
     \/ /\ Len(clearedList) <= MaxCleared
        /\ UNCHANGED thunkVars
  /\ UNCHANGED <<clearedList, clearingList, mutex, pushed>>

\* Bug: the list is trimmed when it is full, not when it is too long.
TrimAtBound(k) ==
  /\ Goto(k, "trim", "move")
  /\ \/ /\ Len(clearedList) >= MaxCleared
        /\ Delete(Head(clearedList))
        /\ clearedList' = Tail(clearedList)
     \/ /\ Len(clearedList) < MaxCleared
        /\ UNCHANGED <<thunkVars, clearedList>>
  /\ UNCHANGED <<clearingList, mutex, pushed>>

\* "Don't let the cleared list grow indefinitely": delete the oldest cleared
\* thunk when there are too many.  The assertion at thunk.cpp:182 is a guard: were
\* the oldest ever the thunk just cleared, the step could not be taken.
Trim(k) ==
  /\ Goto(k, "trim", "move")
  /\ \/ /\ Len(clearedList) > MaxCleared
        /\ Head(clearedList) # k
        /\ Delete(Head(clearedList))
        /\ clearedList' = Tail(clearedList)
     \/ /\ Len(clearedList) <= MaxCleared
        /\ UNCHANGED <<thunkVars, clearedList>>
  /\ UNCHANGED <<clearingList, mutex, pushed>>

\* The oldest thunk on the clearing list may have become CLEARED meanwhile.
HeadIsCleared == Len(clearingList) > 1 /\ state(Head(clearingList)) = CLEARED

\* Bug: the mutex is never released by a call that moves a thunk.
MoveKeepsMutex(k) ==
  /\ Goto(k, "move", "done")
  /\ \/ /\ HeadIsCleared
        /\ clearedList' = Append(clearedList, Head(clearingList))
        /\ clearingList' = Tail(clearingList)
        /\ UNCHANGED mutex
     \/ /\ ~HeadIsCleared
        /\ mutex' = NoThunk
        /\ UNCHANGED <<clearedList, clearingList>>
  /\ UNCHANGED <<thunkVars, pushed>>

\* Bug: the head is copied to the cleared list and stays where it was.
MoveNoPop(k) ==
  /\ Goto(k, "move", "done")
  /\ clearedList' = IF HeadIsCleared THEN Append(clearedList, Head(clearingList))
                                     ELSE clearedList
  /\ mutex' = NoThunk
  /\ UNCHANGED <<thunkVars, clearingList, pushed>>

\* "Don't let the clearing list grow indefinitely": move one thunk, with no
\* second look at the length of the cleared list, and release the mutex.
Move(k) ==
  /\ Goto(k, "move", "done")
  /\ \/ /\ HeadIsCleared
        /\ clearedList' = Append(clearedList, Head(clearingList))
        /\ clearingList' = Tail(clearingList)
     \/ /\ ~HeadIsCleared
        /\ UNCHANGED <<clearedList, clearingList>>
  /\ mutex' = NoThunk
  /\ UNCHANGED <<thunkVars, pushed>>

ClearThunkStep(k) == \/ LockList(k)
                     \/ ClearInList(k)
                     \/ Push(k)
                     \/ Trim(k)
                     \/ Move(k)

\* Nothing is left to do: the process aborted, or Java has deleted every thunk
\* and no activation is on its way (some may be lost to an exception).
Finished == /\ \/ aborted
               \/ /\ \A k \in Thunks : listPc[k] = "done"
                  /\ \A c \in Calls : pc[c] \in {"idle", "unwound"}
            /\ UNCHANGED vars

ListNext == \/ \E c \in Calls : CallStep(c) /\ UNCHANGED listVars
            \/ \E k \in Thunks : CallClearThunk(k)
            \/ \E k \in Thunks : ClearThunkStep(k)
            \/ Finished

ListSpec == ListInit /\ [][ListNext]_vars

\* Threads inside wrapper() and clear_thunk() are scheduled and the callback
\* returns; nothing obliges native code to call, or Java to delete.  The wait
\* for the mutex needs no more, as every thunk locks it once.
ListFairness ==
  /\ \A c \in Calls :
       WF_vars((\/ SetupCall(c) \/ TeardownCall(c) \/ StoreCleared(c)
                \/ ReturnToCaller(c) \/ Abort(c)) /\ UNCHANGED listVars)
  /\ \A k \in Thunks : WF_vars(ClearThunkStep(k))

FairListSpec == ListSpec /\ ListFairness

-------------------------------------------------------------------------------
\* Well-typed, and the mutex is held exactly inside clear_thunk().
ListTypeOK ==
  /\ TypeOK
  /\ clearedList \in Seq(Thunks)
  /\ clearingList \in Seq(Thunks)
  /\ mutex \in Thunks \cup {NoThunk}
  /\ listPc \in [Thunks -> ListPcs]
  /\ pushed \subseteq Thunks
  /\ \A k \in Thunks : mutex = k <=> listPc[k] \in {"clear", "push", "trim", "move"}

\* Every thunk that was queued is at exactly one place, once: on one of the
\* lists, or deleted.  Nothing is deleted twice, lost or kept after deletion
\* (the pops and pushes of thunk.cpp:169-195 agree).
OnePlace ==
  \A k \in Thunks :
     Cardinality({i \in DOMAIN clearedList : clearedList[i] = k})
     + Cardinality({i \in DOMAIN clearingList : clearingList[i] = k})
     + (IF k \in freed THEN 1 ELSE 0)
       = (IF k \in pushed THEN 1 ELSE 0)

\* Whatever is on the cleared list is CLEARED and quiet while it waits there,
\* so the assertion at thunk.cpp:183 holds, and so does the destructor's.
ClearedListIsCleared ==
  Healthy => \A i \in DOMAIN clearedList : state(clearedList[i]) = CLEARED

\* The thunks that outlived their clear() and were moved since.
Moved == {k \in pushed : clearPc[k] = "clearing"
                         /\ \A i \in DOMAIN clearingList : clearingList[i] # k}

\* The cleared list is as long as MaxCleared only allows plus one for every
\* thunk that ever came over from the clearing list: its length is checked
\* before the move, never after (thunk.cpp:179-196).
ClearedListBound ==
  mutex = NoThunk => Len(clearedList) <= MaxCleared + Cardinality(Moved)

\* The list keeps its most recent thunks: once a thunk was deleted
\* there are never fewer than MaxCleared on the cleared list (thunk.cpp:179-187).
KeepsRecent ==
  freed # {} => Len(clearedList) >= MaxCleared

\* Every clear() that was begun ends in CLEARED, however many calls were inside.
ClearCompletes ==
  \A k \in Thunks : dClearing[k] ~> (dState[k] = CLEARED \/ k \in freed) \/ aborted

\* Every deleteThunk() returns, whatever the callbacks do.
ClearThunkReturns ==
  \A k \in Thunks : listPc[k] = "waiting" ~> listPc[k] = "done" \/ aborted

-------------------------------------------------------------------------------
(* What the documentation says and the code does not do.                   *)

\* thunk.h:46-47: a CLEARED thunk "is ready to delete": nobody executes it.
ReadyToDelete ==
  Healthy => \A k \in Thunks : state(k) = CLEARED =>
     \A c \in Calls : thunkOf[c] = k => pc[c] # "return"

===============================================================================
