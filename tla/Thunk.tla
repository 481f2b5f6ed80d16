--------------------------------- MODULE Thunk ---------------------------------
(***************************************************************************)
(* The call/clear protocol of jsdi::thunk (thunk.h, thunk.cpp) and of the  *)
(* wrapper that every generated stub jumps to (thunk64.cpp,                *)
(* stdcall_thunk.cpp).  Any number of threads may be inside one thunk      *)
(* while another thread clears it; all of it is settled by one atomic      *)
(* counter, d_state, and one atomic flag, d_clearing.                      *)
(*                                                                         *)
(* A member of Calls is one activation of a stub: a native caller that     *)
(* jumped to func_addr() and has not returned yet.  Nested calls on one    *)
(* thread are several activations.  Each atomic operation of the code is   *)
(* one action.                                                             *)
(***************************************************************************)
EXTENDS Integers, FiniteSets

CONSTANTS Thunks,      \* the thunks, all constructed
          Calls,       \* the activations that may exist at once
          LateCalls,   \* may native code enter a stub after clear() began?
          SehEscapes,  \* may a Win32 structured exception leave the callback?
          NoThunk

ASSUME ThunkAssumption == /\ IsFiniteSet(Calls)
                          /\ NoThunk \notin Thunks
                          /\ LateCalls \in BOOLEAN
                          /\ SehEscapes \in BOOLEAN

\* enum thunk_state
DELETED  == -1
CLEARED  == 0
CLEARING == 1
READY    == 2

VARIABLES
  dState,     \* thunk::d_state, the atomic counter of each thunk
  dClearing,  \* thunk::d_clearing, the atomic flag of each thunk
  clearPc,    \* how far the one clear() of each thunk is
  pc,         \* where each activation is
  thunkOf,    \* the thunk whose stub the activation runs
  freed,      \* the thunks whose destructor has run
  aborted     \* std::abort() was called, or freed code was executed

thunkVars == <<dState, dClearing, clearPc, pc, thunkOf, freed, aborted>>

\* Where clear() is: not called, flag set, counter decremented to CLEARING and
\* about to be stored, returned CLEARED, returned CLEARING.
ClearPcs == {"none", "flagged", "storing", "cleared", "clearing"}

\* Where an activation is: not running, in the stub before setup_call(), in
\* the callback, between teardown's fetch_sub and its store, on its way back
\* through wrapper and stub, past a failed state check and about to abort,
\* dead of executing freed code, unwound by a structured exception.
CallPcs == {"idle", "stub", "callback", "storing", "return", "bad", "fault",
            "unwound"}

-------------------------------------------------------------------------------
Init == /\ dState = [k \in Thunks |-> READY]
        /\ dClearing = [k \in Thunks |-> FALSE]
        /\ clearPc = [k \in Thunks |-> "none"]
        /\ pc = [c \in Calls |-> "idle"]
        /\ thunkOf = [c \in Calls |-> NoThunk]
        /\ freed = {}
        /\ aborted = FALSE

\* thunk::state(): what an observer is told.
state(k) == CASE dState[k] < READY -> dState[k]
              [] dState[k] >= READY /\ dClearing[k] -> CLEARING
              [] OTHER -> READY

\* The activations that setup_call() admitted and teardown_call() has not
\* subtracted yet.  A structured exception leaves its activation here for good.
Users(k) == {c \in Calls : thunkOf[c] = k /\ pc[c] \in {"callback", "unwound"}}

-------------------------------------------------------------------------------
(* The activations.                                                        *)

\* Native code jumps to func_addr().
EnterStub(c, k) ==
  /\ ~aborted
  /\ pc[c] = "idle"
  /\ k \notin freed
  /\ LateCalls \/ ~dClearing[k]
  /\ pc' = [pc EXCEPT ![c] = "stub"]
  /\ thunkOf' = [thunkOf EXCEPT ![c] = k]
  /\ UNCHANGED <<dState, dClearing, clearPc, freed, aborted>>

\* Off by one: a call is let in next to a clear() that took the thunk to 1.
SetupCallOffByOne(c) ==
  LET k == thunkOf[c] IN
  /\ ~aborted
  /\ pc[c] = "stub"
  /\ k \notin freed
  /\ dState' = [dState EXCEPT ![k] = @ + 1]
  /\ pc' = [pc EXCEPT ![c] = IF dState[k] < CLEARING THEN "bad" ELSE "callback"]
  /\ UNCHANGED <<dClearing, clearPc, thunkOf, freed, aborted>>

\* setup_call(): the counter goes up whatever it was, and only the old value
\* decides between the callback and setup_bad_state().
SetupCall(c) ==
  LET k == thunkOf[c] IN
  /\ ~aborted
  /\ pc[c] = "stub"
  /\ k \notin freed
  /\ dState' = [dState EXCEPT ![k] = @ + 1]
  /\ pc' = [pc EXCEPT ![c] = IF dState[k] < READY THEN "bad" ELSE "callback"]
  /\ UNCHANGED <<dClearing, clearPc, thunkOf, freed, aborted>>

\* Bug: the last call out leaves CLEARING in the counter.
TeardownNoStore(c) ==
  LET k   == thunkOf[c]
      new == dState[k] - 1 IN
  /\ ~aborted
  /\ pc[c] = "callback"
  /\ dState' = [dState EXCEPT ![k] = new]
  /\ pc' = [pc EXCEPT ![c] = IF new >= CLEARING THEN "return" ELSE "bad"]
  /\ UNCHANGED <<dClearing, clearPc, thunkOf, freed, aborted>>

\* Bug: the last call out of a ready thunk declares it cleared.
TeardownEager(c) ==
  LET k   == thunkOf[c]
      new == dState[k] - 1 IN
  /\ ~aborted
  /\ pc[c] = "callback"
  /\ dState' = [dState EXCEPT ![k] = new]
  /\ pc' = [pc EXCEPT ![c] = IF new > READY THEN "return" ELSE "storing"]
  /\ UNCHANGED <<dClearing, clearPc, thunkOf, freed, aborted>>

\* The callback returned; teardown_call() subtracts and looks at the result.
TeardownCall(c) ==
  LET k   == thunkOf[c]
      new == dState[k] - 1 IN
  /\ ~aborted
  /\ pc[c] = "callback"
  /\ dState' = [dState EXCEPT ![k] = new]
  /\ pc' = [pc EXCEPT ![c] = CASE new >= READY    -> "return"
                               [] new = CLEARING  -> "storing"
                               [] OTHER           -> "bad"]
  /\ UNCHANGED <<dClearing, clearPc, thunkOf, freed, aborted>>

\* teardown_call(), the store that completes the clear() it outlived.
StoreCleared(c) ==
  /\ ~aborted
  /\ pc[c] = "storing"
  /\ dState' = [dState EXCEPT ![thunkOf[c]] = CLEARED]
  /\ pc' = [pc EXCEPT ![c] = "return"]
  /\ UNCHANGED <<dClearing, clearPc, thunkOf, freed, aborted>>

\* wrapper() returns to the stub, the stub to its native caller.
ReturnToCaller(c) ==
  /\ ~aborted
  /\ pc[c] = "return"
  /\ pc' = [pc EXCEPT ![c] = "idle"]
  /\ thunkOf' = [thunkOf EXCEPT ![c] = NoThunk]
  /\ UNCHANGED <<dState, dClearing, clearPc, freed, aborted>>

\* A structured exception goes through wrapper(): no handler, no teardown.
EscapeCallback(c) ==
  /\ SehEscapes
  /\ ~aborted
  /\ pc[c] = "callback"
  /\ pc' = [pc EXCEPT ![c] = "unwound"]
  /\ UNCHANGED <<dState, dClearing, clearPc, thunkOf, freed, aborted>>

\* setup_bad_state() or teardown_bad_state(): log, then abort.
Abort(c) ==
  /\ ~aborted
  /\ pc[c] = "bad"
  /\ aborted' = TRUE
  /\ UNCHANGED <<dState, dClearing, clearPc, pc, thunkOf, freed>>

\* The thunk was deleted under an activation that still runs its stub or its
\* wrapper.  One outcome is that nothing happens (ReturnToCaller); this is the
\* other one.
RunFreedCode(c) ==
  /\ ~aborted
  /\ pc[c] \in {"stub", "return"}
  /\ thunkOf[c] \in freed
  /\ pc' = [pc EXCEPT ![c] = "fault"]
  /\ aborted' = TRUE
  /\ UNCHANGED <<dState, dClearing, clearPc, thunkOf, freed>>

-------------------------------------------------------------------------------
(* clear() and the destructor, run by the owner of the thunk.              *)

\* clear(), the exchange on d_clearing.
ClearFlag(k) ==
  /\ ~aborted
  /\ clearPc[k] = "none"
  /\ dClearing' = [dClearing EXCEPT ![k] = TRUE]
  /\ clearPc' = [clearPc EXCEPT ![k] = "flagged"]
  /\ UNCHANGED <<dState, pc, thunkOf, freed, aborted>>

\* Bug: clear() looks at the value it had before subtracting.
ClearSubOldValue(k) ==
  /\ ~aborted
  /\ clearPc[k] = "flagged"
  /\ dState' = [dState EXCEPT ![k] = @ - 1]
  /\ clearPc' = [clearPc EXCEPT ![k] =
                   IF dState[k] <= READY + 1 THEN "storing" ELSE "clearing"]
  /\ aborted' = FALSE
  /\ UNCHANGED <<dClearing, pc, thunkOf, freed>>

\* clear(), the fetch_sub: with nobody inside it stores CLEARED next, else it
\* returns CLEARING at once.  A result below CLEARING fails the assertion.
ClearSub(k) ==
  LET new == dState[k] - 1 IN
  /\ ~aborted
  /\ clearPc[k] = "flagged"
  /\ dState' = [dState EXCEPT ![k] = new]
  /\ clearPc' = [clearPc EXCEPT ![k] =
                   IF new = CLEARING THEN "storing" ELSE "clearing"]
  /\ aborted' = (new < CLEARING)
  /\ UNCHANGED <<dClearing, pc, thunkOf, freed>>

\* clear(), the store after which it returns CLEARED.
ClearStore(k) ==
  /\ ~aborted
  /\ clearPc[k] = "storing"
  /\ dState' = [dState EXCEPT ![k] = CLEARED]
  /\ clearPc' = [clearPc EXCEPT ![k] = "cleared"]
  /\ UNCHANGED <<dClearing, pc, thunkOf, freed, aborted>>

\* ~thunk() of the implementation: its stub is freed, the counter is exchanged
\* for DELETED, and an old value other than CLEARED or READY fails the assertion.
Delete(k) ==
  /\ ~aborted
  /\ clearPc[k] \in {"cleared", "clearing"}
  /\ dState' = [dState EXCEPT ![k] = DELETED]
  /\ freed' = freed \cup {k}
  /\ aborted' = (dState[k] \notin {CLEARED, READY})
  /\ UNCHANGED <<dClearing, clearPc, pc, thunkOf>>

-------------------------------------------------------------------------------
CallStep(c) == \/ \E k \in Thunks : EnterStub(c, k)
               \/ SetupCall(c)
               \/ TeardownCall(c)
               \/ StoreCleared(c)
               \/ ReturnToCaller(c)
               \/ EscapeCallback(c)
               \/ Abort(c)
               \/ RunFreedCode(c)

\* Nobody has yet called a thunk that was past READY and idle.  Once somebody
\* has, the process is only waiting for std::abort().
Healthy == ~aborted /\ \A c \in Calls : pc[c] # "bad"

\* The owner deletes a thunk once, after it has seen CLEARED; in a process that
\* is about to abort it may have been misled.
OwnerStep(k) == \/ ClearFlag(k)
                \/ ClearSub(k)
                \/ ClearStore(k)
                \/ /\ k \notin freed
                   /\ state(k) = CLEARED \/ ~Healthy
                   /\ Delete(k)

Next == (\E c \in Calls : CallStep(c)) \/ (\E k \in Thunks : OwnerStep(k))

Spec == Init /\ [][Next]_thunkVars

-------------------------------------------------------------------------------
\* Well-typed: counter, flags and positions stay in their ranges.
TypeOK ==
  /\ dState \in [Thunks -> Int]
  /\ dClearing \in [Thunks -> BOOLEAN]
  /\ clearPc \in [Thunks -> ClearPcs]
  /\ pc \in [Calls -> CallPcs]
  /\ thunkOf \in [Calls -> Thunks \cup {NoThunk}]
  /\ freed \subseteq Thunks
  /\ aborted \in BOOLEAN

\* clear() has taken its one unit from the counter.
Subtracted(k) == clearPc[k] \notin {"none", "flagged"}

\* Those who have brought the counter to CLEARING and owe the store of CLEARED.
CallStorers(k) == {c \in Calls : thunkOf[c] = k /\ pc[c] = "storing"}

\* The note at thunk.cpp:52-62, made precise: above CLEARED the counter is
\* READY plus the admitted calls, less one when clear() has subtracted.
CounterExact(k) ==
  dState[k] = READY + Cardinality(Users(k)) - (IF Subtracted(k) THEN 1 ELSE 0)

\* Exactly one of the calls and clear() itself owes the store of CLEARED.
OneStorer(k) == \/ clearPc[k] = "storing" /\ CallStorers(k) = {}
                \/ /\ clearPc[k] # "storing"
                   /\ \E c \in Calls : CallStorers(k) = {c}

NoStorer(k) == clearPc[k] # "storing" /\ CallStorers(k) = {}

CounterOK(k) ==
  \/ /\ dState[k] > CLEARING /\ k \notin freed
     /\ CounterExact(k) /\ NoStorer(k)
  \/ /\ dState[k] = CLEARING /\ k \notin freed
     /\ CounterExact(k) /\ Subtracted(k) /\ OneStorer(k)
  \/ /\ dState[k] = IF k \in freed THEN DELETED ELSE CLEARED
     /\ Subtracted(k) /\ Users(k) = {} /\ NoStorer(k)

\* The counter always says how many calls are inside, and CLEARING, the value
\* in transit to CLEARED, always has exactly one thread that will replace it:
\* no store is lost and none is made twice (thunk.cpp:78-131).
CounterInv == Healthy => \A k \in Thunks : CounterOK(k)

\* A thunk that reads CLEARED or was deleted has no call between setup_call()
\* and the end of teardown_call(), and none that would still write to it: what
\* makes it safe for the clearing list to delete what it finds CLEARED.
QuietWhenCleared ==
  Healthy => \A k \in Thunks :
     dState[k] <= CLEARED => Users(k) = {} /\ NoStorer(k)

\* The assertions of clear() and of the destructor (thunk.cpp:115, 124, 182,
\* 183) never fail: a process dies only of a call to a thunk that was past
\* READY, or of one whose stub was freed around it.
DiesOnlyOfLateCall == aborted => \E c \in Calls : pc[c] \in {"bad", "fault"}

\* The lifecycle a thunk shows: clearing from the fetch_sub of clear() on.
Life(k) == CASE dState[k] = DELETED -> "deleted"
             [] dState[k] = CLEARED -> "cleared"
             [] dState[k] > CLEARED /\ Subtracted(k) -> "clearing"
             [] OTHER -> "ready"

lifeOf == [k \in Thunks |-> IF Healthy THEN Life(k) ELSE "doomed"]
usersOf == [k \in Thunks |-> IF Healthy THEN Users(k) ELSE {}]

Lifecycle == INSTANCE ThunkLifecycle WITH life <- lifeOf, users <- usersOf

\* Counter and flag together implement the lifecycle, step by step.
ImplementsLifecycle == Lifecycle!Spec

===============================================================================
