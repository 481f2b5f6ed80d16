------------------------------ MODULE ThunkProofs ------------------------------
(***************************************************************************)
(* Proofs about Thunk, for any set of thunks and any finite set of         *)
(* activations, and then about ThunkClearingList, for any MaxCleared: the  *)
(* clearing list is an owner as Thunk supposes it (it deletes nothing that *)
(* is not CLEARED), so whatever is proved of Thunk holds of the thunks it  *)
(* manages.                                                                *)
(***************************************************************************)
EXTENDS ThunkClearingList, FiniteSetTheorems, SequenceTheorems, TLAPS

\* An activation belongs to a thunk exactly while it is not idle.
OwnedOK == \A c \in Calls : pc[c] # "idle" => thunkOf[c] \in Thunks

TypeInv == TypeOK /\ OwnedOK

-------------------------------------------------------------------------------
(* Lemmas on the admitted calls of a thunk.                                *)

\* The admitted calls of a thunk are finitely many.
LEMMA UsersFinite ==
  ASSUME NEW k
  PROVE  /\ IsFiniteSet(Users(k))
         /\ Cardinality(Users(k)) \in Nat
         /\ Cardinality(Users(k)) = 0 <=> Users(k) = {}
<1>1. Users(k) \subseteq Calls
  BY DEF Users
<1>2. IsFiniteSet(Users(k))
  BY <1>1, ThunkAssumption, FS_Subset
<1>3. QED
  BY <1>2, FS_CardinalityType, FS_EmptySet

-------------------------------------------------------------------------------
\* The thunks and the activations start well-typed.
LEMMA TypeInvInit == Init => TypeInv
<1> SUFFICES ASSUME Init PROVE TypeInv
  OBVIOUS
<1>1. /\ dState \in [Thunks -> Int]
      /\ clearPc \in [Thunks -> ClearPcs]
      /\ pc \in [Calls -> CallPcs]
      /\ thunkOf \in [Calls -> Thunks \cup {NoThunk}]
      /\ freed \subseteq Thunks
  BY DEF Init, ClearPcs, CallPcs, READY
<1>2. dClearing \in [Thunks -> BOOLEAN] /\ aborted \in BOOLEAN
  BY Zenon DEF Init
<1>3. OwnedOK
  BY DEF Init, OwnedOK
<1>4. QED
  BY <1>1, <1>2, <1>3 DEF TypeInv, TypeOK

\* Every step keeps the types.
LEMMA TypeInvStep ==
  ASSUME TypeInv, [Next]_thunkVars
  PROVE  TypeInv'
<1> USE DEF TypeInv, TypeOK, OwnedOK
<1>1. ASSUME NEW c \in Calls, NEW k \in Thunks, EnterStub(c, k)
      PROVE  TypeInv'
  BY <1>1 DEF EnterStub, CallPcs
<1>2. ASSUME NEW c \in Calls, SetupCall(c)
      PROVE  TypeInv'
  BY <1>2 DEF SetupCall, CallPcs
<1>3. ASSUME NEW c \in Calls, TeardownCall(c)
      PROVE  TypeInv'
  BY <1>3 DEF TeardownCall, CallPcs
<1>4. ASSUME NEW c \in Calls, StoreCleared(c)
      PROVE  TypeInv'
  BY <1>4 DEF StoreCleared, CallPcs, CLEARED
<1>5. ASSUME NEW c \in Calls, ReturnToCaller(c)
      PROVE  TypeInv'
  BY <1>5 DEF ReturnToCaller, CallPcs
<1>6. ASSUME NEW c \in Calls, EscapeCallback(c)
      PROVE  TypeInv'
  BY <1>6 DEF EscapeCallback, CallPcs
<1>7. ASSUME NEW c \in Calls, Abort(c) \/ RunFreedCode(c)
      PROVE  TypeInv'
  BY <1>7 DEF Abort, RunFreedCode, CallPcs
<1>8. ASSUME NEW k \in Thunks, ClearFlag(k)
      PROVE  TypeInv'
  BY <1>8 DEF ClearFlag, ClearPcs
<1>9. ASSUME NEW k \in Thunks, ClearSub(k)
      PROVE  TypeInv'
  BY <1>9 DEF ClearSub, ClearPcs
<1>10. ASSUME NEW k \in Thunks, ClearStore(k)
       PROVE  TypeInv'
  BY <1>10 DEF ClearStore, ClearPcs, CLEARED
<1>11. ASSUME NEW k \in Thunks, Delete(k)
       PROVE  TypeInv'
  BY <1>11 DEF Delete, DELETED
<1>12. CASE UNCHANGED thunkVars
  BY <1>12 DEF thunkVars
<1>13. QED
  BY <1>1, <1>2, <1>3, <1>4, <1>5, <1>6, <1>7, <1>8, <1>9, <1>10, <1>11, <1>12
  DEF Next, CallStep, OwnerStep

\* Well-typedness, and that an activation that runs has a thunk: every step of
\* the program keeps its counter, flags and positions in their ranges.
THEOREM ThunkTyped == Spec => []TypeInv
<1>1. Init => TypeInv
  BY TypeInvInit
<1>2. TypeInv /\ [Next]_thunkVars => TypeInv'
  BY TypeInvStep
<1>3. QED
  BY <1>1, <1>2, PTL DEF Spec

-------------------------------------------------------------------------------
(* The counter.  Each lemma says what one kind of step does to CounterOK of  *)
(* a thunk in a state where the process is healthy before and after.         *)

\* A step that leaves counter, clear() and the admitted calls of k alone.
LEMMA CounterFrame ==
  ASSUME NEW k \in Thunks, CounterOK(k),
         dState'[k] = dState[k], clearPc'[k] = clearPc[k],
         k \in freed' <=> k \in freed,
         Users(k)' = Users(k), CallStorers(k)' = CallStorers(k)
  PROVE  CounterOK(k)'
  BY DEF CounterOK, CounterExact, Subtracted, NoStorer, OneStorer

\* An increment by setup_call() on a thunk that is READY or busy adds one user and
\* keeps its counter exact.
LEMMA CounterSetup ==
  ASSUME TypeInv, NEW c \in Calls, NEW k \in Thunks, thunkOf[c] = k,
         SetupCall(c), CounterOK(k), pc'[c] # "bad"
  PROVE  CounterOK(k)'
<1>0. dState[k] \in Int /\ dState' = [dState EXCEPT ![k] = @ + 1]
  BY DEF TypeInv, TypeOK, OwnedOK, SetupCall
<1>1. dState[k] >= READY /\ pc' = [pc EXCEPT ![c] = "callback"]
  <2>1. pc' = [pc EXCEPT ![c] = IF dState[k] < READY THEN "bad" ELSE "callback"]
    BY DEF SetupCall
  <2>2. pc'[c] = IF dState[k] < READY THEN "bad" ELSE "callback"
    BY <2>1 DEF TypeInv, TypeOK
  <2>3. dState[k] >= READY
    BY <1>0, <2>2 DEF READY
  <2>4. QED
    BY <1>0, <2>1, <2>3 DEF READY
<1>2. c \notin Users(k) /\ Users(k)' = Users(k) \cup {c}
  BY <1>1 DEF Users, SetupCall, TypeInv, TypeOK
<1>3. Cardinality(Users(k)') = Cardinality(Users(k)) + 1
  BY <1>2, UsersFinite, FS_AddElement
<1>4. CallStorers(k)' = CallStorers(k)
  BY <1>1 DEF CallStorers, SetupCall, TypeInv, TypeOK
<1>5. /\ dState[k] > CLEARING /\ k \notin freed /\ CounterExact(k) /\ NoStorer(k)
  BY <1>0, <1>1 DEF CounterOK, READY, CLEARING, CLEARED, DELETED
<1>6. Cardinality(Users(k)) \in Nat
  BY UsersFinite
<1>7. dState'[k] = dState[k] + 1 /\ clearPc' = clearPc /\ freed' = freed
  BY <1>0 DEF SetupCall, TypeInv, TypeOK
<1>8. CounterExact(k)'
  BY <1>0, <1>3, <1>5, <1>6, <1>7 DEF CounterExact, Subtracted, READY
<1>9. NoStorer(k)'
  BY <1>4, <1>5, <1>7 DEF NoStorer
<1>10. dState'[k] > CLEARING /\ k \notin freed'
  BY <1>0, <1>5, <1>7 DEF CLEARING
<1>11. QED
  BY <1>8, <1>9, <1>10 DEF CounterOK

\* A decrement by teardown_call() takes one user away and keeps the counter exact;
\* it never finds a value that makes bad_state() abort.
LEMMA CounterTeardown ==
  ASSUME TypeInv, NEW c \in Calls, NEW k \in Thunks, thunkOf[c] = k,
         TeardownCall(c), CounterOK(k)
  PROVE  CounterOK(k)' /\ pc'[c] # "bad"
<1> DEFINE new == dState[k] - 1
<1>0. /\ dState[k] \in Int /\ pc[c] = "callback"
      /\ dState'[k] = new /\ clearPc' = clearPc /\ freed' = freed
      /\ thunkOf' = thunkOf
  BY DEF TypeInv, TypeOK, OwnedOK, TeardownCall
<1>1. c \in Users(k) /\ Users(k) # {}
  BY <1>0 DEF Users
<1>2. Cardinality(Users(k)) \in Nat \ {0} /\ IsFiniteSet(Users(k))
  BY <1>1, UsersFinite
<1>3. dState[k] > CLEARING /\ k \notin freed /\ CounterExact(k) /\ NoStorer(k)
  BY <1>0, <1>1, <1>2 DEF CounterOK, CounterExact, READY, CLEARING
<1>4. new = READY + (Cardinality(Users(k)) - 1) - (IF Subtracted(k) THEN 1 ELSE 0)
  BY <1>0, <1>2, <1>3 DEF CounterExact, READY
<1>5. new >= CLEARING
  BY <1>0, <1>3 DEF CLEARING
<1>6. pc'[c] = IF new >= READY THEN "return" ELSE "storing"
  BY <1>0, <1>5 DEF TeardownCall, TypeInv, TypeOK, READY, CLEARING
<1>7. Users(k)' = Users(k) \ {c}
  BY <1>0, <1>6 DEF Users, TeardownCall, TypeInv, TypeOK
<1>8. Cardinality(Users(k)') = Cardinality(Users(k)) - 1
  BY <1>1, <1>2, <1>7, FS_RemoveElement
<1>9. CounterExact(k)'
  BY <1>0, <1>4, <1>8 DEF CounterExact, Subtracted, READY
<1>10. CASE new >= READY
  <2>1. CallStorers(k)' = CallStorers(k)
    BY <1>0, <1>6, <1>10 DEF CallStorers, TeardownCall, TypeInv, TypeOK
  <2>2. NoStorer(k)'
    BY <2>1, <1>0, <1>3 DEF NoStorer
  <2>3. QED
    BY <1>0, <1>3, <1>6, <1>9, <1>10, <2>2 DEF CounterOK, READY, CLEARING
<1>11. CASE ~(new >= READY)
  <2>1. new = CLEARING
    BY <1>0, <1>5, <1>11 DEF READY, CLEARING
  <2>2. CallStorers(k)' = CallStorers(k) \cup {c}
    BY <1>0, <1>6, <1>11 DEF CallStorers, TeardownCall, TypeInv, TypeOK
  <2>3. OneStorer(k)'
    BY <2>2, <1>0, <1>3 DEF OneStorer, NoStorer
  <2>4. Subtracted(k)'
    BY <2>1, <1>0, <1>2, <1>4 DEF Subtracted, READY, CLEARING
  <2>5. QED
    BY <1>0, <1>3, <1>6, <1>9, <1>11, <2>1, <2>3, <2>4 DEF CounterOK
<1>12. QED
  BY <1>10, <1>11

\* The store of CLEARED that ends the last teardown_call() keeps the counter right.
LEMMA CounterStoreCleared ==
  ASSUME TypeInv, NEW c \in Calls, NEW k \in Thunks, thunkOf[c] = k,
         StoreCleared(c), CounterOK(k)
  PROVE  CounterOK(k)'
<1>0. /\ dState[k] \in Int /\ pc[c] = "storing"
      /\ dState'[k] = CLEARED /\ clearPc' = clearPc /\ freed' = freed
      /\ thunkOf' = thunkOf /\ pc' = [pc EXCEPT ![c] = "return"]
  BY DEF TypeInv, TypeOK, StoreCleared
<1>1. c \in CallStorers(k)
  BY <1>0 DEF CallStorers
<1>2. /\ dState[k] = CLEARING /\ k \notin freed /\ CounterExact(k)
      /\ Subtracted(k) /\ OneStorer(k)
  BY <1>1 DEF CounterOK, NoStorer
<1>3. clearPc[k] # "storing" /\ CallStorers(k) = {c}
  BY <1>1, <1>2 DEF OneStorer
<1>4. Cardinality(Users(k)) \in Nat
  BY UsersFinite
<1>5. Users(k) = {}
  BY <1>2, <1>4, UsersFinite DEF CounterExact, READY, CLEARING
<1>6. Users(k)' = {}
  BY <1>0, <1>5 DEF Users, TypeInv, TypeOK
<1>7. CallStorers(k)' = {}
  BY <1>0, <1>3 DEF CallStorers, TypeInv, TypeOK
<1>8. QED
  BY <1>0, <1>2, <1>3, <1>6, <1>7 DEF CounterOK, NoStorer, Subtracted

\* The subtraction of clear() keeps the counter right and never goes below CLEARING.
LEMMA CounterClearSub ==
  ASSUME TypeInv, NEW k \in Thunks, ClearSub(k), CounterOK(k)
  PROVE  CounterOK(k)' /\ dState'[k] >= CLEARING
<1> DEFINE new == dState[k] - 1
<1>0. /\ dState[k] \in Int /\ clearPc[k] = "flagged" /\ dState'[k] = new
      /\ clearPc'[k] = IF new = CLEARING THEN "storing" ELSE "clearing"
      /\ freed' = freed /\ thunkOf' = thunkOf /\ pc' = pc
  BY DEF TypeInv, TypeOK, ClearSub
<1>1. ~Subtracted(k) /\ Subtracted(k)'
  BY <1>0 DEF Subtracted
<1>2. dState[k] > CLEARING /\ k \notin freed /\ CounterExact(k) /\ NoStorer(k)
  BY <1>1 DEF CounterOK
<1>3. Users(k)' = Users(k) /\ CallStorers(k)' = CallStorers(k)
  BY <1>0 DEF Users, CallStorers
<1>4. Cardinality(Users(k)) \in Nat
  BY UsersFinite
<1>5. dState[k] = READY + Cardinality(Users(k))
  BY <1>1, <1>2, <1>4 DEF CounterExact, READY
<1>6. CounterExact(k)'
  BY <1>0, <1>1, <1>3, <1>4, <1>5 DEF CounterExact, READY
<1>7. CASE new = CLEARING
  BY <1>0, <1>1, <1>2, <1>3, <1>6, <1>7 DEF CounterOK, OneStorer, NoStorer
<1>8. CASE new # CLEARING
  <2>1. new > CLEARING
    BY <1>0, <1>2, <1>8 DEF CLEARING
  <2>2. NoStorer(k)'
    BY <1>0, <1>2, <1>3, <1>8 DEF NoStorer
  <2>3. QED
    BY <1>0, <1>2, <1>6, <2>1, <2>2 DEF CounterOK, CLEARING
<1>9. QED
  BY <1>0, <1>2, <1>7, <1>8 DEF CLEARING

\* The store of CLEARED by clear() itself, on an idle thunk, keeps the counter right.
LEMMA CounterClearStore ==
  ASSUME TypeInv, NEW k \in Thunks, ClearStore(k), CounterOK(k)
  PROVE  CounterOK(k)'
<1>0. /\ dState[k] \in Int /\ clearPc[k] = "storing"
      /\ dState'[k] = CLEARED /\ clearPc'[k] = "cleared"
      /\ freed' = freed /\ thunkOf' = thunkOf /\ pc' = pc
  BY DEF TypeInv, TypeOK, ClearStore
<1>1. /\ dState[k] = CLEARING /\ k \notin freed /\ CounterExact(k)
      /\ Subtracted(k) /\ OneStorer(k)
  BY <1>0 DEF CounterOK, NoStorer
<1>2. Cardinality(Users(k)) \in Nat
  BY UsersFinite
<1>3. Users(k) = {}
  BY <1>1, <1>2, UsersFinite DEF CounterExact, READY, CLEARING
<1>4. CallStorers(k) = {}
  BY <1>0, <1>1 DEF OneStorer
<1>5. Users(k)' = {} /\ CallStorers(k)' = {}
  BY <1>0, <1>3, <1>4 DEF Users, CallStorers
<1>6. QED
  BY <1>0, <1>1, <1>5 DEF CounterOK, NoStorer, Subtracted

\* The destructor of a CLEARED thunk does not abort and leaves its counter right.
LEMMA CounterDelete ==
  ASSUME TypeInv, NEW k \in Thunks, Delete(k), state(k) = CLEARED, CounterOK(k)
  PROVE  CounterOK(k)' /\ ~aborted'
<1>0. /\ dState[k] \in Int /\ dState'[k] = DELETED /\ k \in freed'
      /\ clearPc' = clearPc /\ thunkOf' = thunkOf /\ pc' = pc
  BY DEF TypeInv, TypeOK, Delete
<1>1. dState[k] = CLEARED
  BY <1>0 DEF state, READY, CLEARING, CLEARED
<1>2. Subtracted(k) /\ Users(k) = {} /\ NoStorer(k)
  BY <1>0, <1>1 DEF CounterOK, CLEARING, CLEARED
<1>3. CounterOK(k)'
  BY <1>0, <1>2 DEF CounterOK, Subtracted, Users, NoStorer, CallStorers
<1>4. ~aborted'
  BY <1>1 DEF Delete
<1>5. QED
  BY <1>3, <1>4

-------------------------------------------------------------------------------
\* A step of an activation that has the thunk k0 leaves the other thunks alone.
LEMMA CallFrame ==
  ASSUME TypeInv, NEW c \in Calls, NEW k \in Thunks, thunkOf[c] # k,
         NEW v, pc' = [pc EXCEPT ![c] = v], thunkOf' = thunkOf
  PROVE  Users(k)' = Users(k) /\ CallStorers(k)' = CallStorers(k)
  BY DEF TypeInv, TypeOK, Users, CallStorers

\* While nobody calls a thunk that is past READY and idle, every step keeps
\* the counter of every thunk right.
LEMMA CounterStep ==
  ASSUME TypeInv, Healthy, Healthy', \A k \in Thunks : CounterOK(k),
         [Next]_thunkVars, NEW k \in Thunks
  PROVE  CounterOK(k)'
<1> USE DEF TypeInv, TypeOK
<1>1. ASSUME NEW c \in Calls, NEW j \in Thunks, EnterStub(c, j)
      PROVE  CounterOK(k)'
  <2>1. Users(k)' = Users(k) /\ CallStorers(k)' = CallStorers(k)
    BY <1>1 DEF EnterStub, Users, CallStorers, OwnedOK
  <2>2. QED
    BY <2>1, <1>1, CounterFrame DEF EnterStub
<1>2. ASSUME NEW c \in Calls, SetupCall(c)
      PROVE  CounterOK(k)'
  <2>0. thunkOf[c] \in Thunks /\ pc'[c] # "bad"
    BY <1>2 DEF OwnedOK, SetupCall, Healthy
  <2>1. CASE thunkOf[c] = k
    BY <1>2, <2>0, <2>1, CounterSetup
  <2>2. CASE thunkOf[c] # k
    BY <1>2, <2>0, <2>2, CallFrame, CounterFrame DEF SetupCall
  <2>3. QED
    BY <2>1, <2>2
<1>3. ASSUME NEW c \in Calls, TeardownCall(c)
      PROVE  CounterOK(k)'
  <2>0. thunkOf[c] \in Thunks
    BY <1>3 DEF OwnedOK, TeardownCall
  <2>1. CASE thunkOf[c] = k
    BY <1>3, <2>1, CounterTeardown
  <2>2. CASE thunkOf[c] # k
    BY <1>3, <2>0, <2>2, CallFrame, CounterFrame DEF TeardownCall
  <2>3. QED
    BY <2>1, <2>2
<1>4. ASSUME NEW c \in Calls, StoreCleared(c)
      PROVE  CounterOK(k)'
  <2>0. thunkOf[c] \in Thunks
    BY <1>4 DEF OwnedOK, StoreCleared
  <2>1. CASE thunkOf[c] = k
    BY <1>4, <2>1, CounterStoreCleared
  <2>2. CASE thunkOf[c] # k
    BY <1>4, <2>0, <2>2, CallFrame, CounterFrame DEF StoreCleared
  <2>3. QED
    BY <2>1, <2>2
<1>5. ASSUME NEW c \in Calls, ReturnToCaller(c)
      PROVE  CounterOK(k)'
  <2>1. Users(k)' = Users(k) /\ CallStorers(k)' = CallStorers(k)
    BY <1>5 DEF ReturnToCaller, Users, CallStorers
  <2>2. QED
    BY <2>1, <1>5, CounterFrame DEF ReturnToCaller
<1>6. ASSUME NEW c \in Calls, EscapeCallback(c)
      PROVE  CounterOK(k)'
  <2>1. Users(k)' = Users(k) /\ CallStorers(k)' = CallStorers(k)
    BY <1>6 DEF EscapeCallback, Users, CallStorers
  <2>2. QED
    BY <2>1, <1>6, CounterFrame DEF EscapeCallback
<1>7. ASSUME NEW c \in Calls, Abort(c) \/ RunFreedCode(c)
      PROVE  CounterOK(k)'
  BY <1>7 DEF Abort, RunFreedCode, Healthy
<1>8. ASSUME NEW j \in Thunks, ClearFlag(j)
      PROVE  CounterOK(k)'
  <2>0. Users(k)' = Users(k) /\ CallStorers(k)' = CallStorers(k)
    BY <1>8 DEF ClearFlag, Users, CallStorers
  <2>1. CASE j = k
    <3>1. /\ dState' = dState /\ freed' = freed
          /\ clearPc[k] = "none" /\ clearPc'[k] = "flagged"
      BY <1>8, <2>1 DEF ClearFlag
    <3>2. QED
      BY <2>0, <3>1 DEF CounterOK, CounterExact, Subtracted, NoStorer, OneStorer
  <2>2. CASE j # k
    BY <1>8, <2>0, <2>2, CounterFrame DEF ClearFlag
  <2>3. QED
    BY <2>1, <2>2
<1>9. ASSUME NEW j \in Thunks, ClearSub(j)
      PROVE  CounterOK(k)'
  <2>1. CASE j = k
    BY <1>9, <2>1, CounterClearSub
  <2>2. CASE j # k
    BY <1>9, <2>2, CounterFrame DEF ClearSub, Users, CallStorers
  <2>3. QED
    BY <2>1, <2>2
<1>10. ASSUME NEW j \in Thunks, ClearStore(j)
       PROVE  CounterOK(k)'
  <2>1. CASE j = k
    BY <1>10, <2>1, CounterClearStore
  <2>2. CASE j # k
    BY <1>10, <2>2, CounterFrame DEF ClearStore, Users, CallStorers
  <2>3. QED
    BY <2>1, <2>2
<1>11. ASSUME NEW j \in Thunks, Delete(j), state(j) = CLEARED \/ ~Healthy
       PROVE  CounterOK(k)'
  <2>0. state(j) = CLEARED
    BY <1>11
  <2>1. CASE j = k
    BY <1>11, <2>0, <2>1, CounterDelete
  <2>2. CASE j # k
    BY <1>11, <2>2, CounterFrame DEF Delete, Users, CallStorers
  <2>3. QED
    BY <2>1, <2>2
<1>12. CASE UNCHANGED thunkVars
  BY <1>12, CounterFrame DEF thunkVars, Users, CallStorers
<1>13. QED
  BY <1>1, <1>2, <1>3, <1>4, <1>5, <1>6, <1>7, <1>8, <1>9, <1>10, <1>11, <1>12
  DEF Next, CallStep, OwnerStep

\* A process that is not healthy never becomes healthy again.
LEMMA HealthyBefore ==
  ASSUME TypeInv, [Next]_thunkVars, Healthy'
  PROVE  Healthy
<1> USE DEF TypeInv, TypeOK
<1>1. CASE UNCHANGED thunkVars
  BY <1>1 DEF thunkVars, Healthy
<1>2. CASE Next
  <2>1. ~aborted
    BY <1>2 DEF Next, CallStep, OwnerStep, EnterStub, SetupCall, TeardownCall,
         StoreCleared, ReturnToCaller, EscapeCallback, Abort, RunFreedCode,
         ClearFlag, ClearSub, ClearStore, Delete
  <2>2. \A c \in Calls : pc[c] = "bad" => pc'[c] = "bad"
    BY <1>2 DEF Next, CallStep, OwnerStep, EnterStub, SetupCall, TeardownCall,
         StoreCleared, ReturnToCaller, EscapeCallback, Abort, RunFreedCode,
         ClearFlag, ClearSub, ClearStore, Delete
  <2>3. QED
    BY <2>1, <2>2 DEF Healthy
<1>3. QED
  BY <1>1, <1>2

\* Every step keeps the counters of all thunks right while the process is healthy.
LEMMA CounterInvStep ==
  ASSUME TypeInv, CounterInv, [Next]_thunkVars
  PROVE  CounterInv'
<1>1. SUFFICES ASSUME Healthy', NEW k \in Thunks
               PROVE  CounterOK(k)'
  BY DEF CounterInv
<1>2. Healthy
  BY <1>1, HealthyBefore
<1>3. \A j \in Thunks : CounterOK(j)
  BY <1>2 DEF CounterInv
<1>4. QED
  BY <1>1, <1>2, <1>3, CounterStep

\* The assertions of clear() and of the destructor hold in a healthy process.
LEMMA DiesOnlyStep ==
  ASSUME TypeInv, CounterInv, DiesOnlyOfLateCall, [Next]_thunkVars
  PROVE  DiesOnlyOfLateCall'
<1> USE DEF TypeInv, TypeOK
<1>1. SUFFICES ASSUME aborted'
               PROVE  \E c \in Calls : pc'[c] \in {"bad", "fault"}
  BY DEF DiesOnlyOfLateCall
<1>2. ASSUME NEW c \in Calls, Abort(c)
      PROVE  \E d \in Calls : pc'[d] \in {"bad", "fault"}
  BY <1>2 DEF Abort
<1>3. ASSUME NEW c \in Calls, RunFreedCode(c)
      PROVE  \E d \in Calls : pc'[d] \in {"bad", "fault"}
  BY <1>3 DEF RunFreedCode
<1>4. ASSUME NEW k \in Thunks, ClearSub(k)
      PROVE  \E d \in Calls : pc'[d] \in {"bad", "fault"}
  <2>1. ~aborted /\ dState'[k] < CLEARING /\ pc' = pc
    BY <1>1, <1>4 DEF ClearSub, CLEARING
  <2>2. ASSUME Healthy PROVE FALSE
    <3>1. CounterOK(k)
      BY <2>2 DEF CounterInv
    <3>2. dState'[k] >= CLEARING
      BY <1>4, <3>1, CounterClearSub
    <3>3. dState'[k] \in Int
      BY <1>4 DEF ClearSub
    <3>4. QED
      BY <2>1, <3>2, <3>3 DEF CLEARING
  <2>3. QED
    BY <2>1, <2>2 DEF Healthy
<1>5. ASSUME NEW k \in Thunks, Delete(k), state(k) = CLEARED \/ ~Healthy
      PROVE  \E d \in Calls : pc'[d] \in {"bad", "fault"}
  <2>1. CASE state(k) = CLEARED
    <3>1. dState[k] = CLEARED
      BY <2>1 DEF state, READY, CLEARING, CLEARED
    <3>2. QED
      BY <1>1, <1>5, <3>1 DEF Delete
  <2>2. CASE ~Healthy
    BY <1>5, <2>2 DEF Healthy, Delete
  <2>3. QED
    BY <1>5, <2>1, <2>2
<1>6. CASE UNCHANGED thunkVars
  BY <1>1, <1>6 DEF thunkVars, DiesOnlyOfLateCall
<1>7. ASSUME NEW c \in Calls,
             \/ \E k \in Thunks : EnterStub(c, k)
             \/ SetupCall(c) \/ TeardownCall(c) \/ StoreCleared(c)
             \/ ReturnToCaller(c) \/ EscapeCallback(c)
      PROVE  FALSE
  BY <1>1, <1>7 DEF EnterStub, SetupCall, TeardownCall, StoreCleared,
       ReturnToCaller, EscapeCallback
<1>8. ASSUME NEW k \in Thunks, ClearFlag(k) \/ ClearStore(k)
      PROVE  FALSE
  BY <1>1, <1>8 DEF ClearFlag, ClearStore
<1>9. QED
  BY <1>2, <1>3, <1>4, <1>5, <1>6, <1>7, <1>8 DEF Next, CallStep, OwnerStep

\* The inductive invariant holds at the start.
LEMMA IInvInit == Init => TypeInv /\ CounterInv /\ DiesOnlyOfLateCall
<1> SUFFICES ASSUME Init PROVE TypeInv /\ CounterInv /\ DiesOnlyOfLateCall
  OBVIOUS
<1>1. TypeInv
  BY TypeInvInit
<1>2. ASSUME NEW k \in Thunks PROVE CounterOK(k)
  <2>1. Users(k) = {} /\ CallStorers(k) = {}
    BY DEF Init, Users, CallStorers
  <2>2. Cardinality(Users(k)) = 0
    BY <2>1, FS_EmptySet
  <2>3. QED
    BY <2>1, <2>2 DEF Init, CounterOK, CounterExact, NoStorer, Subtracted,
         READY, CLEARING
<1>3. DiesOnlyOfLateCall
  BY DEF Init, DiesOnlyOfLateCall
<1>4. QED
  BY <1>1, <1>2, <1>3 DEF CounterInv

-------------------------------------------------------------------------------
\* The counter of thunk.cpp counts exactly, and the store of CLEARED has exactly
\* one author, for every number of thunks and of concurrent calls; and none of
\* the assertions of clear() and ~thunk() can fail before a call arrives late.
THEOREM ThunkCounter == Spec => []CounterInv /\ []DiesOnlyOfLateCall
<1>1. TypeInv /\ CounterInv /\ DiesOnlyOfLateCall /\ [Next]_thunkVars
        => CounterInv' /\ DiesOnlyOfLateCall'
  BY CounterInvStep, DiesOnlyStep
<1>2. QED
  BY <1>1, IInvInit, ThunkTyped, PTL DEF Spec

\* What makes deletion safe: nobody is between setup_call() and the end of
\* teardown_call() of a thunk that is CLEARED or deleted.
THEOREM ThunkQuiet == Spec => []QuietWhenCleared
<1>1. ASSUME CounterInv, TypeInv PROVE QuietWhenCleared
  BY <1>1 DEF CounterInv, CounterOK, QuietWhenCleared, CLEARING, CLEARED,
       TypeInv, TypeOK
<1>2. QED
  BY <1>1, ThunkCounter, ThunkTyped, PTL

-------------------------------------------------------------------------------
(* The refinement of ThunkLifecycle.                                       *)

\* What CounterOK says of the lifecycle of one thunk.
LEMMA LifeFacts ==
  ASSUME TypeInv, NEW k \in Thunks, CounterOK(k)
  PROVE  /\ dState[k] < READY => Users(k) = {} /\ Life(k) # "ready"
         /\ dState[k] >= READY /\ Subtracted(k) => Users(k) # {}
         /\ k \in freed <=> Life(k) = "deleted"
         /\ dState[k] = CLEARED <=> Life(k) = "cleared"
         /\ ~Subtracted(k) <=> Life(k) = "ready"
         /\ Life(k) \in {"ready", "clearing", "cleared", "deleted"}
<1>1. dState[k] \in Int /\ Cardinality(Users(k)) \in Nat
  BY UsersFinite DEF TypeInv, TypeOK
<1>2. dState[k] < READY => Users(k) = {}
  BY <1>1, UsersFinite
  DEF CounterOK, CounterExact, READY, CLEARING
<1>3. dState[k] >= READY /\ Subtracted(k) => Cardinality(Users(k)) # 0
  BY <1>1 DEF CounterOK, CounterExact, READY, CLEARING, CLEARED, DELETED
<1>4. dState[k] < READY => Subtracted(k)
  BY <1>1 DEF CounterOK, READY, CLEARING
<1>5. dState[k] >= DELETED
  BY <1>1 DEF CounterOK, CLEARING, CLEARED, DELETED
<1>6. k \in freed <=> dState[k] = DELETED
  BY <1>1 DEF CounterOK, CLEARING, CLEARED, DELETED
<1>7. QED
  BY <1>1, <1>2, <1>3, <1>4, <1>5, <1>6, UsersFinite
  DEF Life, READY, CLEARING, CLEARED, DELETED, CounterOK

\* Steps that keep every thunk's lifecycle and users map to a stutter.
LEMMA LifeStutter ==
  ASSUME Healthy <=> Healthy',
         \A k \in Thunks : Life(k)' = Life(k) /\ Users(k)' = Users(k)
  PROVE  UNCHANGED <<lifeOf, usersOf>>
<1>1. lifeOf' = lifeOf
  BY DEF lifeOf
<1>2. usersOf' = usersOf
  BY DEF usersOf
<1>3. QED
  BY <1>1, <1>2

\* A step out of health is the abstract Doom of the thunk it happened on.
LEMMA LifeDoom ==
  ASSUME NEW k \in Thunks, Healthy, ~Healthy', Users(k) = {},
         Life(k) \in {"clearing", "cleared", "deleted"}
  PROVE  Lifecycle!Doom(k)
<1>1. lifeOf[k] = Life(k) /\ usersOf[k] = {}
  BY DEF lifeOf, usersOf
<1>2. lifeOf' = [j \in Thunks |-> "doomed"] /\ usersOf' = [j \in Thunks |-> {}]
  BY DEF lifeOf, usersOf
<1>3. QED
  BY <1>1, <1>2 DEF Lifecycle!Doom

\* A step after which the process is no longer healthy is the abstract Doom.
LEMMA DoomStep ==
  ASSUME TypeInv, CounterInv, Healthy, ~Healthy', [Next]_thunkVars
  PROVE  \E k \in Thunks : Lifecycle!Doom(k)
<1> USE DEF TypeInv, TypeOK
<1>0. \A k \in Thunks : CounterOK(k)
  BY DEF CounterInv
<1>1. ASSUME NEW c \in Calls, SetupCall(c)
      PROVE  \E k \in Thunks : Lifecycle!Doom(k)
  <2> DEFINE k == thunkOf[c]
  <2>1. k \in Thunks /\ pc[c] = "stub" /\ ~aborted' /\ dState[k] \in Int
    BY <1>1 DEF SetupCall, OwnedOK, Healthy
  <2>2. \A d \in Calls : d # c => pc'[d] = pc[d]
    BY <1>1 DEF SetupCall
  <2>3. pc'[c] = "bad"
    BY <2>1, <2>2 DEF Healthy
  <2>4. pc'[c] = IF dState[k] < READY THEN "bad" ELSE "callback"
    BY <1>1 DEF SetupCall
  <2>5. dState[k] < READY
    BY <2>3, <2>4
  <2>6. Users(k) = {} /\ Life(k) \in {"clearing", "cleared", "deleted"}
    BY <1>0, <2>1, <2>5, LifeFacts
  <2>7. Lifecycle!Doom(k)
    BY <2>1, <2>6, LifeDoom
  <2>8. QED
    BY <2>1, <2>7
<1>2. ASSUME NEW c \in Calls, TeardownCall(c)
      PROVE  FALSE
  <2>1. thunkOf[c] \in Thunks /\ ~aborted'
    BY <1>2 DEF TeardownCall, OwnedOK, Healthy
  <2>2. pc'[c] # "bad"
    BY <1>0, <1>2, <2>1, CounterTeardown
  <2>3. \A d \in Calls : d # c => pc'[d] = pc[d]
    BY <1>2 DEF TeardownCall
  <2>4. QED
    BY <2>1, <2>2, <2>3 DEF Healthy
<1>3. ASSUME NEW c \in Calls, RunFreedCode(c)
      PROVE  \E k \in Thunks : Lifecycle!Doom(k)
  <2>1. thunkOf[c] \in Thunks /\ thunkOf[c] \in freed
    BY <1>3 DEF RunFreedCode
  <2>2. CounterOK(thunkOf[c])
    BY <1>0, <2>1
  <2>3. Life(thunkOf[c]) = "deleted" /\ Users(thunkOf[c]) = {}
    BY <2>1, <2>2, LifeFacts DEF CounterOK
  <2>4. Lifecycle!Doom(thunkOf[c])
    BY <2>1, <2>3, LifeDoom
  <2>5. QED
    BY <2>1, <2>4
<1>4. ASSUME NEW c \in Calls, Abort(c)
      PROVE  FALSE
  BY <1>4 DEF Abort, Healthy
<1>5. ASSUME NEW k \in Thunks, ClearSub(k)
      PROVE  FALSE
  <2>1. dState'[k] >= CLEARING
    BY <1>0, <1>5, CounterClearSub
  <2>2. dState'[k] \in Int /\ pc' = pc /\ (aborted' => dState'[k] < CLEARING)
    BY <1>5 DEF ClearSub, CLEARING
  <2>3. ~aborted'
    BY <2>1, <2>2 DEF CLEARING
  <2>4. QED
    BY <2>2, <2>3 DEF Healthy
<1>6. ASSUME NEW k \in Thunks, Delete(k), state(k) = CLEARED \/ ~Healthy
      PROVE  FALSE
  <2>1. ~aborted'
    BY <1>0, <1>6, CounterDelete
  <2>2. pc' = pc
    BY <1>6 DEF Delete
  <2>3. QED
    BY <2>1, <2>2 DEF Healthy
<1>7. ASSUME NEW c \in Calls,
             \/ \E k \in Thunks : EnterStub(c, k)
             \/ StoreCleared(c) \/ ReturnToCaller(c) \/ EscapeCallback(c)
      PROVE  FALSE
  BY <1>7 DEF Healthy, EnterStub, StoreCleared, ReturnToCaller, EscapeCallback
<1>8. ASSUME NEW k \in Thunks, ClearFlag(k) \/ ClearStore(k)
      PROVE  FALSE
  BY <1>8 DEF Healthy, ClearFlag, ClearStore
<1>9. CASE UNCHANGED thunkVars
  BY <1>9 DEF thunkVars, Healthy
<1>10. QED
  BY <1>1, <1>2, <1>3, <1>4, <1>5, <1>6, <1>7, <1>8, <1>9
  DEF Next, CallStep, OwnerStep

\* A healthy step that touches the lifecycle or the users of one thunk only.
LEMMA LifeOther ==
  ASSUME Healthy, Healthy', NEW k \in Thunks,
         \A j \in Thunks \ {k} : Life(j)' = Life(j) /\ Users(j)' = Users(j)
  PROVE  /\ lifeOf' = [lifeOf EXCEPT ![k] = Life(k)']
         /\ usersOf' = [usersOf EXCEPT ![k] = Users(k)']
         /\ lifeOf[k] = Life(k) /\ usersOf[k] = Users(k)
<1>1. lifeOf' = [j \in Thunks |-> Life(j)'] /\ lifeOf = [j \in Thunks |-> Life(j)]
  BY DEF lifeOf
<1>2. /\ usersOf' = [j \in Thunks |-> Users(j)']
      /\ usersOf = [j \in Thunks |-> Users(j)]
  BY DEF usersOf
<1>3. QED
  BY <1>1, <1>2

\* An admitted call begins.
LEMMA LifeSetup ==
  ASSUME TypeInv, Healthy, Healthy', NEW k \in Thunks, CounterOK(k),
         NEW c \in Calls, thunkOf[c] = k, SetupCall(c)
  PROVE  Lifecycle!Begin(k, c)
<1> USE DEF TypeInv, TypeOK
<1>1. /\ thunkOf' = thunkOf /\ clearPc' = clearPc /\ pc[c] = "stub"
      /\ dState[k] \in Int /\ dState' = [dState EXCEPT ![k] = @ + 1]
      /\ pc' = [pc EXCEPT ![c] = IF dState[k] < READY THEN "bad" ELSE "callback"]
  BY DEF SetupCall
<1>2. pc'[c] = IF dState[k] < READY THEN "bad" ELSE "callback"
  BY <1>1
<1>3. dState[k] >= READY
  BY <1>1, <1>2 DEF Healthy, READY
<1>4. pc' = [pc EXCEPT ![c] = "callback"]
  <2>1. ~(dState[k] < READY)
    BY <1>1, <1>3 DEF READY
  <2>2. QED
    BY <1>1, <2>1
<1>5. \A j \in Thunks \ {k} : Life(j)' = Life(j) /\ Users(j)' = Users(j)
  BY <1>1, <1>4 DEF Life, Subtracted, Users
<1>6. Users(k)' = Users(k) \cup {c}
  BY <1>1, <1>4 DEF Users
<1>7. Life(k)' = Life(k)
  BY <1>1, <1>3 DEF Life, Subtracted, READY, CLEARED, DELETED
<1>8. Life(k) = "ready" \/ (Life(k) = "clearing" /\ Users(k) # {})
  BY <1>1, <1>3, LifeFacts DEF Life, READY, CLEARED, DELETED
<1>9. \A j \in Thunks : c \notin usersOf[j]
  BY <1>1 DEF Users, usersOf
<1>10. /\ lifeOf[k] = Life(k) /\ usersOf[k] = Users(k)
       /\ usersOf' = [usersOf EXCEPT ![k] = Users(k) \cup {c}]
       /\ lifeOf' = [lifeOf EXCEPT ![k] = Life(k)]
  BY <1>5, <1>6, <1>7, LifeOther
<1>11. lifeOf' = lifeOf
  BY <1>10 DEF lifeOf
<1>12. QED
  BY <1>8, <1>9, <1>10, <1>11 DEF Lifecycle!Begin

\* An admitted call ends.
LEMMA LifeTeardown ==
  ASSUME TypeInv, Healthy, Healthy', NEW k \in Thunks, CounterOK(k),
         NEW c \in Calls, thunkOf[c] = k, TeardownCall(c)
  PROVE  Lifecycle!End(k, c)
<1> USE DEF TypeInv, TypeOK
<1>1. /\ thunkOf' = thunkOf /\ clearPc' = clearPc /\ pc[c] = "callback"
      /\ dState[k] \in Int /\ dState' = [dState EXCEPT ![k] = @ - 1]
      /\ \A d \in Calls : d # c => pc'[d] = pc[d]
      /\ pc'[c] \in {"return", "storing", "bad"}
  BY DEF TeardownCall
<1>2. \A j \in Thunks \ {k} : Life(j)' = Life(j) /\ Users(j)' = Users(j)
  BY <1>1 DEF Life, Subtracted, Users
<1>3. c \in Users(k) /\ Users(k)' = Users(k) \ {c}
  BY <1>1 DEF Users
<1>4. Cardinality(Users(k)) \in Nat /\ Cardinality(Users(k)) # 0
  BY <1>3, UsersFinite
<1>5. dState[k] > CLEARING
  BY <1>1, <1>3, <1>4 DEF CounterOK, CounterExact, READY, CLEARING
<1>6. Life(k)' = Life(k)
  BY <1>1, <1>5 DEF Life, Subtracted, CLEARING, CLEARED, DELETED
<1>7. QED
  BY <1>2, <1>3, <1>6, LifeOther DEF Lifecycle!End, lifeOf

\* CLEARED is stored, by the last call out or by clear() itself.
LEMMA LifeStore ==
  ASSUME TypeInv, Healthy, Healthy', NEW k \in Thunks, CounterOK(k),
         dState' = [dState EXCEPT ![k] = CLEARED],
         clearPc[k] = "storing" \/ CallStorers(k) # {},
         \A j \in Thunks : Users(j)' = Users(j) /\ Subtracted(j)' = Subtracted(j)
  PROVE  Lifecycle!FinishClear(k)
<1> USE DEF TypeInv, TypeOK
<1>1. dState[k] = CLEARING /\ Subtracted(k) /\ dState[k] \in Int
  BY DEF CounterOK, NoStorer
<1>2. Life(k) = "clearing" /\ Users(k) = {}
  BY <1>1, LifeFacts DEF Life, READY, CLEARING, CLEARED, DELETED
<1>3. Life(k)' = "cleared"
  BY DEF Life, CLEARED, DELETED
<1>4. \A j \in Thunks \ {k} : Life(j)' = Life(j)
  BY DEF Life
<1>5. QED
  BY <1>2, <1>3, <1>4, LifeOther DEF Lifecycle!FinishClear, usersOf

\* The fetch_sub of clear().
LEMMA LifeClearSub ==
  ASSUME TypeInv, Healthy, Healthy', NEW k \in Thunks, CounterOK(k), ClearSub(k)
  PROVE  Lifecycle!StartClear(k)
<1> USE DEF TypeInv, TypeOK
<1>1. /\ dState' = [dState EXCEPT ![k] = @ - 1] /\ dState[k] \in Int
      /\ thunkOf' = thunkOf /\ pc' = pc
      /\ clearPc[k] = "flagged" /\ Subtracted(k)'
      /\ \A j \in Thunks : j # k => clearPc'[j] = clearPc[j]
  BY DEF ClearSub, Subtracted
<1>2. \A j \in Thunks : Users(j)' = Users(j)
  BY <1>1 DEF Users
<1>3. \A j \in Thunks \ {k} : Life(j)' = Life(j)
  BY <1>1 DEF Life, Subtracted
<1>4. dState[k] > CLEARING /\ ~Subtracted(k)
  BY <1>1 DEF CounterOK, Subtracted
<1>5. Life(k) = "ready" /\ Life(k)' = "clearing"
  BY <1>1, <1>4 DEF Life, CLEARING, CLEARED, DELETED
<1>6. QED
  BY <1>2, <1>3, <1>5, LifeOther DEF Lifecycle!StartClear, usersOf

\* The destructor.
LEMMA LifeDelete ==
  ASSUME TypeInv, Healthy, Healthy', NEW k \in Thunks, state(k) = CLEARED, Delete(k)
  PROVE  Lifecycle!Delete(k)
<1> USE DEF TypeInv, TypeOK
<1>1. /\ dState' = [dState EXCEPT ![k] = DELETED] /\ dState[k] \in Int
      /\ thunkOf' = thunkOf /\ pc' = pc /\ clearPc' = clearPc
  BY DEF Delete
<1>2. dState[k] = CLEARED
  BY DEF state, READY, CLEARING, CLEARED
<1>3. Life(k) = "cleared" /\ Life(k)' = "deleted"
  BY <1>1, <1>2 DEF Life, CLEARED, DELETED
<1>4. \A j \in Thunks \ {k} : Life(j)' = Life(j)
  BY <1>1 DEF Life, Subtracted
<1>5. \A j \in Thunks : Users(j)' = Users(j)
  BY <1>1 DEF Users
<1>6. QED
  BY <1>3, <1>4, <1>5, LifeOther DEF Lifecycle!Delete, usersOf

\* Every healthy step is a step of the lifecycle or invisible in it.
LEMMA LifeStep ==
  ASSUME TypeInv, CounterInv, Healthy, Healthy', [Next]_thunkVars
  PROVE  [Lifecycle!Next]_(Lifecycle!lifeVars)
<1> USE DEF TypeInv, TypeOK
<1>1. \A k \in Thunks : CounterOK(k)
  BY DEF CounterInv
<1>2. SUFFICES \/ UNCHANGED <<lifeOf, usersOf>>
               \/ \E k \in Thunks :
                     \/ \E c \in Calls : Lifecycle!Begin(k, c) \/ Lifecycle!End(k, c)
                     \/ Lifecycle!StartClear(k)
                     \/ Lifecycle!FinishClear(k)
                     \/ Lifecycle!Delete(k)
  BY DEF Lifecycle!Next, Lifecycle!lifeVars
<1> DEFINE Goal == \/ UNCHANGED <<lifeOf, usersOf>>
                   \/ \E k \in Thunks :
                        \/ \E c \in Calls :
                              Lifecycle!Begin(k, c) \/ Lifecycle!End(k, c)
                        \/ Lifecycle!StartClear(k)
                        \/ Lifecycle!FinishClear(k)
                        \/ Lifecycle!Delete(k)
<1>3. ASSUME NEW c \in Calls, NEW k \in Thunks, EnterStub(c, k)
      PROVE  Goal
  <2>1. \A j \in Thunks : Life(j)' = Life(j) /\ Users(j)' = Users(j)
    BY <1>3 DEF EnterStub, Life, Subtracted, Users, OwnedOK
  <2>2. QED
    BY <2>1, LifeStutter
<1>4. ASSUME NEW c \in Calls, SetupCall(c)
      PROVE  Goal
  <2>1. thunkOf[c] \in Thunks
    BY <1>4 DEF SetupCall, OwnedOK
  <2>2. Lifecycle!Begin(thunkOf[c], c)
    BY <1>1, <1>4, <2>1, LifeSetup
  <2>3. QED
    BY <2>1, <2>2
<1>5. ASSUME NEW c \in Calls, TeardownCall(c)
      PROVE  Goal
  <2>1. thunkOf[c] \in Thunks
    BY <1>5 DEF TeardownCall, OwnedOK
  <2>2. Lifecycle!End(thunkOf[c], c)
    BY <1>1, <1>5, <2>1, LifeTeardown
  <2>3. QED
    BY <2>1, <2>2
<1>6. ASSUME NEW c \in Calls, StoreCleared(c)
      PROVE  Goal
  <2>1. thunkOf[c] \in Thunks /\ CallStorers(thunkOf[c]) # {}
    BY <1>6 DEF StoreCleared, OwnedOK, CallStorers
  <2>2. \A j \in Thunks : Users(j)' = Users(j) /\ Subtracted(j)' = Subtracted(j)
    BY <1>6 DEF StoreCleared, Users, Subtracted
  <2>3. dState' = [dState EXCEPT ![thunkOf[c]] = CLEARED]
    BY <1>6 DEF StoreCleared
  <2>4. ASSUME NEW k \in Thunks, k = thunkOf[c] PROVE Lifecycle!FinishClear(k)
    BY <1>1, <2>1, <2>2, <2>3, <2>4, LifeStore
  <2>5. QED
    BY <2>1, <2>4
<1>7. ASSUME NEW c \in Calls, ReturnToCaller(c) \/ EscapeCallback(c)
      PROVE  Goal
  <2>1. \A j \in Thunks : Life(j)' = Life(j) /\ Users(j)' = Users(j)
    BY <1>7 DEF ReturnToCaller, EscapeCallback, Life, Subtracted, Users
  <2>2. QED
    BY <2>1, LifeStutter
<1>8. ASSUME NEW c \in Calls, Abort(c) \/ RunFreedCode(c)
      PROVE  Goal
  BY <1>8 DEF Abort, RunFreedCode, Healthy
<1>9. ASSUME NEW k \in Thunks, ClearFlag(k)
      PROVE  Goal
  <2>1. \A j \in Thunks : Life(j)' = Life(j) /\ Users(j)' = Users(j)
    BY <1>9 DEF ClearFlag, Life, Subtracted, Users
  <2>2. QED
    BY <2>1, LifeStutter
<1>10. ASSUME NEW k \in Thunks, ClearSub(k)
       PROVE  Goal
  BY <1>1, <1>10, LifeClearSub
<1>11. ASSUME NEW k \in Thunks, ClearStore(k)
       PROVE  Goal
  <2>1. \A j \in Thunks : Users(j)' = Users(j) /\ Subtracted(j)' = Subtracted(j)
    BY <1>11 DEF ClearStore, Users, Subtracted
  <2>2. Lifecycle!FinishClear(k)
    BY <1>1, <1>11, <2>1, LifeStore DEF ClearStore
  <2>3. QED
    BY <2>2
<1>12. ASSUME NEW k \in Thunks, Delete(k), state(k) = CLEARED \/ ~Healthy
       PROVE  Goal
  BY <1>12, LifeDelete
<1>13. CASE UNCHANGED thunkVars
  <2>1. \A j \in Thunks : Life(j)' = Life(j) /\ Users(j)' = Users(j)
    BY <1>13 DEF thunkVars, Life, Subtracted, Users
  <2>2. QED
    BY <2>1, LifeStutter
<1>14. QED
  BY <1>3, <1>4, <1>5, <1>6, <1>7, <1>8, <1>9, <1>10, <1>11, <1>12, <1>13
  DEF Next, CallStep, OwnerStep

\* Counter and flag, one atomic operation at a time, implement the lifecycle:
\* ready, clearing while admitted calls are inside, cleared, deleted, never
\* back (thunk.cpp:78-131), and a doomed process only by a late call.
THEOREM ThunkRefinement == Spec => ImplementsLifecycle
<1>1. Init => Lifecycle!Init
  <2> SUFFICES ASSUME Init PROVE Lifecycle!Init
    OBVIOUS
  <2>1. Healthy
    BY DEF Init, Healthy
  <2>2. \A k \in Thunks : Life(k) = "ready" /\ Users(k) = {}
    BY DEF Init, Life, Users, Subtracted, READY, CLEARED, DELETED
  <2>3. QED
    BY <2>1, <2>2 DEF Lifecycle!Init, lifeOf, usersOf
<1>2. ASSUME TypeInv, CounterInv, [Next]_thunkVars
      PROVE  [Lifecycle!Next]_(Lifecycle!lifeVars)
  <2>1. CASE Healthy'
    BY <1>2, <2>1, HealthyBefore, LifeStep
  <2>2. CASE Healthy /\ ~Healthy'
    BY <1>2, <2>2, DoomStep DEF Lifecycle!Next
  <2>3. CASE ~Healthy /\ ~Healthy'
    BY <2>3 DEF Lifecycle!lifeVars, lifeOf, usersOf
  <2>4. QED
    BY <2>1, <2>2, <2>3
<1>3. QED
  BY <1>1, <1>2, ThunkTyped, ThunkCounter, PTL
  DEF Spec, ImplementsLifecycle, Lifecycle!Spec

-------------------------------------------------------------------------------
(* The clearing list.                                                      *)

\* clear_thunk() has put the thunk on one of the lists.
Queued == {"trim", "move", "done"}

Elems(s) == {s[i] : i \in 1 .. Len(s)}
Distinct(s) == \A i, j \in 1 .. Len(s) : s[i] = s[j] => i = j

\* The structure of the lists: what is on them was queued once and is not
\* deleted, no thunk is on them twice, and nothing is deleted before it was
\* queued.
ListInv ==
  /\ \A k \in Elems(clearedList) \cup Elems(clearingList) :
        listPc[k] \in Queued /\ k \notin freed
  /\ Distinct(clearedList) /\ Distinct(clearingList)
  /\ Elems(clearedList) \cap Elems(clearingList) = {}
  /\ \A k \in freed : listPc[k] \in Queued

\* What is on the cleared list, or about to be, is CLEARED.
ClearedInv ==
  Healthy => /\ \A k \in Elems(clearedList) : dState[k] = CLEARED
             /\ \A k \in Thunks :
                   listPc[k] = "push" /\ clearPc[k] = "cleared" => dState[k] = CLEARED

ListIInv == ListTypeOK /\ ListInv /\ ClearedInv

-------------------------------------------------------------------------------
(* Sequences, as Push, Trim and Move change them.                          *)

\* push_back() of a thunk that is not on the list.
LEMMA PushBack ==
  ASSUME NEW s \in Seq(Thunks), NEW k \in Thunks
  PROVE  /\ Append(s, k) \in Seq(Thunks)
         /\ Elems(Append(s, k)) = Elems(s) \cup {k}
         /\ Distinct(s) /\ k \notin Elems(s) => Distinct(Append(s, k))
<1>1. Len(s) \in Nat
  BY LenProperties
<1>2. /\ Append(s, k) \in Seq(Thunks) /\ Len(Append(s, k)) = Len(s) + 1
      /\ \A i \in 1 .. Len(s) : Append(s, k)[i] = s[i]
      /\ Append(s, k)[Len(s) + 1] = k
  BY AppendProperties
<1>3. 1 .. Len(s) + 1 = (1 .. Len(s)) \cup {Len(s) + 1}
  BY <1>1
<1>4. Elems(Append(s, k)) = Elems(s) \cup {k}
  BY <1>2, <1>3 DEF Elems
<1>5. ASSUME Distinct(s), k \notin Elems(s) PROVE Distinct(Append(s, k))
  BY <1>2, <1>3, <1>5 DEF Distinct, Elems
<1>6. QED
  BY <1>2, <1>4, <1>5

\* pop_front().
LEMMA PopFront ==
  ASSUME NEW s \in Seq(Thunks), Len(s) > 0
  PROVE  /\ Tail(s) \in Seq(Thunks) /\ Head(s) \in Thunks /\ Head(s) \in Elems(s)
         /\ Elems(Tail(s)) \subseteq Elems(s)
         /\ Distinct(s) => Head(s) \notin Elems(Tail(s)) /\ Distinct(Tail(s))
<1>1. s # <<>> /\ Len(s) \in Nat
  BY EmptySeq, LenProperties
<1>2. /\ Tail(s) \in Seq(Thunks) /\ Head(s) \in Thunks /\ Head(s) = s[1]
      /\ Len(Tail(s)) = Len(s) - 1
      /\ \A i \in 1 .. Len(Tail(s)) : Tail(s)[i] = s[i + 1]
  BY <1>1, HeadTailProperties
<1>3. /\ 1 \in 1 .. Len(s)
      /\ \A i \in 1 .. Len(Tail(s)) : i + 1 \in 1 .. Len(s) /\ i + 1 # 1
      /\ \A i, j \in 1 .. Len(Tail(s)) : i + 1 = j + 1 => i = j
  BY <1>1, <1>2
<1>4. Head(s) \in Elems(s) /\ Elems(Tail(s)) \subseteq Elems(s)
  BY <1>2, <1>3 DEF Elems
<1>5. ASSUME Distinct(s) PROVE Head(s) \notin Elems(Tail(s)) /\ Distinct(Tail(s))
  BY <1>2, <1>3, <1>5 DEF Distinct, Elems
<1>6. QED
  BY <1>2, <1>4, <1>5

-------------------------------------------------------------------------------
(* Types, and the mutex.                                                   *)

\* The lists start well-typed and empty.
LEMMA ListTypeInit == ListInit => ListTypeOK
<1> SUFFICES ASSUME ListInit PROVE ListTypeOK
  OBVIOUS
<1>1. TypeOK
  BY TypeInvInit DEF ListInit, TypeInv
<1>2. clearedList \in Seq(Thunks) /\ clearingList \in Seq(Thunks)
  BY EmptySeq DEF ListInit
<1>3. QED
  BY <1>1, <1>2, ThunkAssumption DEF ListInit, ListTypeOK, ListPcs

\* Every step keeps the types of the list, and exactly the clear_thunk() that has
\* locked the mutex and not released it is between its lock and its return.
LEMMA ListTypeStep ==
  ASSUME ListTypeOK, TypeOK', [ListNext]_vars
  PROVE  ListTypeOK'
<1> USE DEF ListTypeOK
<1>1. ASSUME UNCHANGED listVars PROVE ListTypeOK'
  BY <1>1 DEF listVars
<1>2. ASSUME NEW k \in Thunks, CallClearThunk(k) PROVE ListTypeOK'
  BY <1>2 DEF CallClearThunk, Goto, ListPcs
<1>3. ASSUME NEW k \in Thunks, LockList(k) PROVE ListTypeOK'
  BY <1>3, ThunkAssumption DEF LockList, Goto, ListPcs
<1>4. ASSUME NEW k \in Thunks, ClearInList(k) PROVE ListTypeOK'
  BY <1>4 DEF ClearInList, ListPcs
<1>5. ASSUME NEW k \in Thunks, Push(k) PROVE ListTypeOK'
  <2>0. Append(clearedList, k) \in Seq(Thunks) /\ Append(clearingList, k) \in Seq(Thunks)
    BY PushBack
  <2>1. clearedList' \in Seq(Thunks) /\ clearingList' \in Seq(Thunks)
    BY <1>5, <2>0 DEF Push
  <2>2. mutex' = mutex /\ listPc' = [listPc EXCEPT ![k] = "trim"] /\ listPc[k] = "push"
        /\ pushed' = pushed \cup {k}
    BY <1>5 DEF Push, Goto
  <2>3. QED
    BY <2>1, <2>2 DEF ListPcs
<1>6. ASSUME NEW k \in Thunks, Trim(k) PROVE ListTypeOK'
  <2>1. Len(clearedList) \in Nat
    BY LenProperties
  <2>2. Len(clearedList) > MaxCleared => Tail(clearedList) \in Seq(Thunks)
    BY <2>1, PopFront, ClearingListAssumption
  <2>3. clearedList' \in Seq(Thunks) /\ clearingList' \in Seq(Thunks)
    BY <1>6, <2>2 DEF Trim
  <2>4. mutex' = mutex /\ listPc' = [listPc EXCEPT ![k] = "move"] /\ listPc[k] = "trim"
        /\ pushed' = pushed
    BY <1>6 DEF Trim, Goto
  <2>5. QED
    BY <2>3, <2>4 DEF ListPcs
<1>7. ASSUME NEW k \in Thunks, Move(k) PROVE ListTypeOK'
  <2>1. Len(clearingList) \in Nat
    BY LenProperties
  <2>2. clearedList' \in Seq(Thunks) /\ clearingList' \in Seq(Thunks)
    <3>1. CASE HeadIsCleared
      <4>1. Tail(clearingList) \in Seq(Thunks) /\ Head(clearingList) \in Thunks
        BY <2>1, <3>1, PopFront DEF HeadIsCleared
      <4>2. Append(clearedList, Head(clearingList)) \in Seq(Thunks)
        BY <4>1, PushBack
      <4>3. QED
        BY <1>7, <3>1, <4>1, <4>2 DEF Move
    <3>2. CASE ~HeadIsCleared
      BY <1>7, <3>2 DEF Move
    <3>3. QED
      BY <3>1, <3>2
  <2>3. mutex' = NoThunk /\ listPc' = [listPc EXCEPT ![k] = "done"] /\ listPc[k] = "move"
        /\ pushed' = pushed
    BY <1>7 DEF Move, Goto
  <2>4. QED
    BY <2>2, <2>3, ThunkAssumption DEF ListPcs
<1>8. QED
  BY <1>1, <1>2, <1>3, <1>4, <1>5, <1>6, <1>7
  DEF ListNext, ClearThunkStep, Finished, vars

-------------------------------------------------------------------------------
(* The structure of the lists.                                             *)

\* The lists keep their structure through every push and pop.
LEMMA ListInvStep ==
  ASSUME ListTypeOK, ListInv, [ListNext]_vars
  PROVE  ListInv'
<1> USE DEF ListTypeOK, TypeOK
<1>0. Len(clearedList) \in Nat /\ Len(clearingList) \in Nat
  BY LenProperties
<1>1. Elems(clearedList) \subseteq Thunks /\ Elems(clearingList) \subseteq Thunks
  BY ElementOfSeq DEF Elems
<1>2. ASSUME freed' = freed, clearedList' = clearedList, clearingList' = clearingList,
             \A k \in Thunks : listPc[k] \in Queued => listPc'[k] \in Queued
      PROVE  ListInv'
  BY <1>1, <1>2 DEF ListInv
<1>3. ASSUME NEW k \in Thunks, CallClearThunk(k) \/ LockList(k) \/ ClearInList(k)
      PROVE  ListInv'
  <2>1. \A j \in Thunks : listPc[j] \in Queued => listPc'[j] \in Queued
    BY <1>3 DEF CallClearThunk, LockList, ClearInList, Goto, Queued
  <2>2. clearedList' = clearedList /\ clearingList' = clearingList
    BY <1>3 DEF CallClearThunk, LockList, ClearInList
  <2>3. freed' = freed
    BY <1>3 DEF CallClearThunk, LockList, ClearInList, thunkVars, ClearFlag, ClearSub,
         ClearStore
  <2>4. QED
    BY <1>2, <2>1, <2>2, <2>3
<1>4. ASSUME NEW k \in Thunks, Push(k)
      PROVE  ListInv'
  <2>1. /\ freed' = freed /\ listPc[k] = "push" /\ listPc'[k] = "trim"
        /\ \A j \in Thunks : listPc[j] \in Queued => listPc'[j] \in Queued
    BY <1>4 DEF Push, Goto, thunkVars, Queued
  <2>2. k \notin freed /\ k \notin Elems(clearedList) /\ k \notin Elems(clearingList)
    BY <2>1 DEF ListInv, Queued
  <2>3. CASE clearedList' = Append(clearedList, k) /\ clearingList' = clearingList
    <3>1. Elems(clearedList') = Elems(clearedList) \cup {k} /\ Distinct(clearedList')
      BY <2>2, <2>3, PushBack DEF ListInv
    <3>2. QED
      BY <1>1, <2>1, <2>2, <2>3, <3>1 DEF ListInv, Queued
  <2>4. CASE clearingList' = Append(clearingList, k) /\ clearedList' = clearedList
    <3>1. Elems(clearingList') = Elems(clearingList) \cup {k} /\ Distinct(clearingList')
      BY <2>2, <2>4, PushBack DEF ListInv
    <3>2. QED
      BY <1>1, <2>1, <2>2, <2>4, <3>1 DEF ListInv, Queued
  <2>5. QED
    BY <1>4, <2>3, <2>4 DEF Push
<1>5. ASSUME NEW k \in Thunks, Trim(k)
      PROVE  ListInv'
  <2>1. /\ clearingList' = clearingList
        /\ \A j \in Thunks : listPc[j] \in Queued => listPc'[j] \in Queued
    BY <1>5 DEF Trim, Goto, Queued
  <2>2. CASE clearedList' = clearedList /\ freed' = freed
    BY <1>2, <2>1, <2>2
  <2>3. CASE /\ Len(clearedList) > 0 /\ clearedList' = Tail(clearedList)
             /\ freed' = freed \cup {Head(clearedList)}
    <3>1. /\ Head(clearedList) \in Elems(clearedList)
          /\ Elems(clearedList') \subseteq Elems(clearedList)
          /\ Head(clearedList) \notin Elems(clearedList') /\ Distinct(clearedList')
      BY <2>3, PopFront DEF ListInv
    <3>2. QED
      BY <1>1, <2>1, <2>3, <3>1 DEF ListInv
  <2>4. QED
    BY <1>0, <1>5, <2>2, <2>3, ClearingListAssumption DEF Trim, Delete, thunkVars
<1>6. ASSUME NEW k \in Thunks, Move(k)
      PROVE  ListInv'
  <2>1. /\ freed' = freed
        /\ \A j \in Thunks : listPc[j] \in Queued => listPc'[j] \in Queued
    BY <1>6 DEF Move, Goto, thunkVars, Queued
  <2>2. CASE clearedList' = clearedList /\ clearingList' = clearingList
    BY <1>2, <2>1, <2>2
  <2>3. CASE /\ Len(clearingList) > 0 /\ clearingList' = Tail(clearingList)
             /\ clearedList' = Append(clearedList, Head(clearingList))
    <3> DEFINE h == Head(clearingList)
    <3>1. /\ h \in Elems(clearingList) /\ h \in Thunks
          /\ Elems(clearingList') \subseteq Elems(clearingList)
          /\ h \notin Elems(clearingList') /\ Distinct(clearingList')
      BY <2>3, PopFront DEF ListInv
    <3>2. h \notin Elems(clearedList)
      BY <3>1 DEF ListInv
    <3>3. Elems(clearedList') = Elems(clearedList) \cup {h} /\ Distinct(clearedList')
      BY <2>3, <3>1, <3>2, PushBack DEF ListInv
    <3>4. QED
      BY <1>1, <2>1, <3>1, <3>3 DEF ListInv
  <2>4. QED
    BY <1>0, <1>6, <2>2, <2>3 DEF Move, HeadIsCleared
<1>7. CASE UNCHANGED listVars /\ freed' = freed
  BY <1>2, <1>7 DEF listVars
<1>8. ASSUME NEW c \in Calls, CallStep(c) PROVE freed' = freed
  BY <1>8 DEF CallStep, EnterStub, SetupCall, TeardownCall, StoreCleared,
       ReturnToCaller, EscapeCallback, Abort, RunFreedCode
<1>9. CASE UNCHANGED vars
  BY <1>7, <1>9 DEF vars, thunkVars
<1>10. QED
  BY <1>3, <1>4, <1>5, <1>6, <1>7, <1>8, <1>9 DEF ListNext, ClearThunkStep, Finished

-------------------------------------------------------------------------------
(* The owner deletes only what is CLEARED.                                 *)

\* Every step of the list is a step that Thunk allows its activations and the
\* owner, or none of theirs.
LEMMA ListStepIsThunkStep ==
  ASSUME ListIInv, [ListNext]_vars
  PROVE  [Next]_thunkVars
<1> USE DEF ListIInv, ListTypeOK, TypeOK
<1>1. ASSUME NEW k \in Thunks, Trim(k), ~UNCHANGED thunkVars
      PROVE  Next
  <2> DEFINE h == Head(clearedList)
  <2>1. Len(clearedList) \in Nat
    BY LenProperties
  <2>2. Len(clearedList) > MaxCleared /\ Delete(h)
    BY <1>1 DEF Trim
  <2>3. h \in Elems(clearedList) /\ h \in Thunks
    BY <2>1, <2>2, PopFront, ClearingListAssumption
  <2>4. h \notin freed /\ (Healthy => dState[h] = CLEARED)
    BY <2>3 DEF ListInv, ClearedInv
  <2>5. Healthy => state(h) = CLEARED
    BY <2>4 DEF state, READY, CLEARED
  <2>6. QED
    BY <2>2, <2>3, <2>4, <2>5 DEF Next, OwnerStep
<1>2. ASSUME NEW k \in Thunks, ClearInList(k)
      PROVE  Next
  BY <1>2 DEF ClearInList, Next, OwnerStep
<1>3. ASSUME NEW c \in Calls, CallStep(c)
      PROVE  Next
  BY <1>3 DEF Next
<1>4. QED
  BY <1>1, <1>2, <1>3
  DEF ListNext, ClearThunkStep, Finished, vars, CallClearThunk, LockList, Push, Move

\* A thunk that is CLEARED stays so until it is deleted, as long as nobody calls it.
LEMMA ClearedStable ==
  ASSUME TypeInv, CounterInv, Healthy, Healthy', [Next]_thunkVars,
         NEW k \in Thunks, dState[k] = CLEARED, ~Delete(k)
  PROVE  dState'[k] = CLEARED
<1> USE DEF TypeInv, TypeOK
<1>1. Subtracted(k) /\ Users(k) = {} /\ NoStorer(k)
  BY DEF CounterInv, CounterOK, CLEARING, CLEARED
<1>2. ASSUME NEW c \in Calls, SetupCall(c)
      PROVE  dState'[k] = CLEARED
  <2>1. pc'[c] = IF dState[thunkOf[c]] < READY THEN "bad" ELSE "callback"
    BY <1>2 DEF SetupCall
  <2>2. thunkOf[c] # k
    BY <2>1 DEF Healthy, READY, CLEARED
  <2>3. QED
    BY <1>2, <2>2 DEF SetupCall
<1>3. ASSUME NEW c \in Calls, TeardownCall(c)
      PROVE  dState'[k] = CLEARED
  <2>1. thunkOf[c] # k
    BY <1>1, <1>3 DEF TeardownCall, Users
  <2>2. QED
    BY <1>3, <2>1 DEF TeardownCall
<1>4. ASSUME NEW j \in Thunks, ClearSub(j)
      PROVE  dState'[k] = CLEARED
  <2>1. j # k
    BY <1>1, <1>4 DEF ClearSub, Subtracted
  <2>2. QED
    BY <1>4, <2>1 DEF ClearSub
<1>5. ASSUME NEW c \in Calls, StoreCleared(c)
      PROVE  dState'[k] = CLEARED
  BY <1>5 DEF StoreCleared
<1>6. ASSUME NEW j \in Thunks, ClearStore(j) \/ Delete(j)
      PROVE  dState'[k] = CLEARED
  BY <1>6 DEF ClearStore, Delete
<1>7. ASSUME NEW c \in Calls,
             \/ \E j \in Thunks : EnterStub(c, j)
             \/ ReturnToCaller(c) \/ EscapeCallback(c) \/ Abort(c) \/ RunFreedCode(c)
      PROVE  dState'[k] = CLEARED
  BY <1>7 DEF EnterStub, ReturnToCaller, EscapeCallback, Abort, RunFreedCode
<1>8. ASSUME NEW j \in Thunks, ClearFlag(j)
      PROVE  dState'[k] = CLEARED
  BY <1>8 DEF ClearFlag
<1>9. CASE UNCHANGED thunkVars
  BY <1>9 DEF thunkVars
<1>10. QED
  BY <1>2, <1>3, <1>4, <1>5, <1>6, <1>7, <1>8, <1>9 DEF Next, CallStep, OwnerStep

\* What is on the cleared list, or about to be, stays CLEARED.
LEMMA ClearedInvStep ==
  ASSUME TypeInv, CounterInv, ListIInv, [ListNext]_vars
  PROVE  ClearedInv'
<1> USE DEF ListIInv, ListTypeOK, TypeOK
<1>1. [Next]_thunkVars
  BY ListStepIsThunkStep
<1>2. SUFFICES ASSUME Healthy'
               PROVE  /\ \A k \in Elems(clearedList') : dState'[k] = CLEARED
                      /\ \A k \in Thunks : listPc'[k] = "push" /\ clearPc'[k] = "cleared"
                                           => dState'[k] = CLEARED
  BY DEF ClearedInv
<1>3. Healthy
  BY <1>1, <1>2, HealthyBefore
<1>4. Elems(clearedList) \subseteq Thunks
  BY ElementOfSeq DEF Elems
<1>5. /\ \A k \in Elems(clearedList) : dState[k] = CLEARED
      /\ \A k \in Thunks : listPc[k] = "push" /\ clearPc[k] = "cleared"
                           => dState[k] = CLEARED
  BY <1>3 DEF ClearedInv
<1>6. \A k \in Thunks : dState[k] = CLEARED /\ ~Delete(k) => dState'[k] = CLEARED
  BY <1>1, <1>2, <1>3, ClearedStable
<1>7. ASSUME \A k \in Thunks : ~Delete(k), clearedList' = clearedList,
             \A k \in Thunks : listPc'[k] = "push" /\ clearPc'[k] = "cleared"
                               => listPc[k] = "push" /\ clearPc[k] = "cleared"
      PROVE  ClearedInv'
  BY <1>4, <1>5, <1>6, <1>7 DEF ClearedInv
<1>8. ASSUME thunkVars' = thunkVars
      PROVE  /\ \A k \in Thunks : ~Delete(k) \/ dState'[k] = dState[k]
             /\ clearPc' = clearPc /\ dState' = dState
  BY <1>8 DEF thunkVars
<1>9. ASSUME NEW c \in Calls, CallStep(c), UNCHANGED listVars
      PROVE  ClearedInv'
  <2>1. /\ freed' = freed /\ clearPc' = clearPc
        /\ \A k \in Thunks : dState'[k] = dState[k] \/ pc' # pc
    BY <1>9 DEF CallStep, EnterStub, SetupCall, TeardownCall, StoreCleared,
         ReturnToCaller, EscapeCallback, Abort, RunFreedCode
  <2>2. \A k \in Thunks : ~Delete(k)
    <3>1. pc' # pc \/ aborted'
      BY <1>9 DEF CallStep, EnterStub, SetupCall, TeardownCall, StoreCleared,
           ReturnToCaller, EscapeCallback, Abort, RunFreedCode
    <3>2. ~aborted'
      BY <1>2 DEF Healthy
    <3>3. QED
      BY <3>1, <3>2 DEF Delete
  <2>3. QED
    BY <1>7, <1>9, <2>1, <2>2 DEF listVars
<1>10. ASSUME NEW k \in Thunks, ClearInList(k)
       PROVE  ClearedInv'
  <2>1. /\ clearedList' = clearedList /\ freed' = freed /\ listPc[k] = "clear"
        /\ \A j \in Thunks : j # k => listPc'[j] = listPc[j] /\ clearPc'[j] = clearPc[j]
    BY <1>10 DEF ClearInList, ClearFlag, ClearSub, ClearStore
  <2>2. clearPc'[k] = "cleared" => dState'[k] = CLEARED
    BY <1>10 DEF ClearInList, ClearFlag, ClearSub, ClearStore
  <2>3. \A j \in Thunks : ~Delete(j)
    BY <1>10 DEF ClearInList, ClearFlag, ClearSub, ClearStore, Delete
  <2>4. QED
    BY <1>4, <1>5, <1>6, <2>1, <2>2, <2>3 DEF ClearedInv
<1>11. ASSUME NEW k \in Thunks, Push(k)
       PROVE  ClearedInv'
  <2>1. /\ dState' = dState /\ clearPc' = clearPc /\ listPc[k] = "push"
        /\ listPc' = [listPc EXCEPT ![k] = "trim"]
    BY <1>11 DEF Push, Goto, thunkVars
  <2>2. CASE clearPc[k] = "cleared" /\ clearedList' = Append(clearedList, k)
    <3>1. Elems(clearedList') = Elems(clearedList) \cup {k}
      BY <2>2, PushBack
    <3>2. QED
      BY <1>5, <2>1, <2>2, <3>1 DEF ClearedInv
  <2>3. CASE clearedList' = clearedList
    BY <1>5, <2>1, <2>3 DEF ClearedInv
  <2>4. QED
    BY <1>11, <2>2, <2>3 DEF Push
<1>12. ASSUME NEW k \in Thunks, Trim(k)
       PROVE  ClearedInv'
  <2>1. listPc' = [listPc EXCEPT ![k] = "move"] /\ clearPc' = clearPc
    BY <1>12 DEF Trim, Goto, thunkVars, Delete
  <2>2. CASE thunkVars' = thunkVars /\ clearedList' = clearedList
    BY <1>5, <1>8, <2>1, <2>2 DEF ClearedInv
  <2>3. CASE /\ Len(clearedList) > MaxCleared /\ Delete(Head(clearedList))
             /\ clearedList' = Tail(clearedList)
    <3> DEFINE h == Head(clearedList)
    <3>1. Len(clearedList) \in Nat
      BY LenProperties
    <3>2. /\ Elems(clearedList') \subseteq Elems(clearedList) /\ h \in Thunks
          /\ h \in Elems(clearedList) /\ h \notin Elems(clearedList')
      BY <2>3, <3>1, PopFront, ClearingListAssumption DEF ListInv
    <3>3. \A j \in Thunks : j # h => dState'[j] = dState[j]
      BY <2>3 DEF Delete
    <3>4. listPc[h] \in Queued
      BY <3>2 DEF ListInv
    <3>5. QED
      BY <1>4, <1>5, <2>1, <3>2, <3>3, <3>4 DEF ClearedInv, Queued
  <2>4. QED
    BY <1>12, <2>2, <2>3 DEF Trim
<1>13. ASSUME NEW k \in Thunks, Move(k)
       PROVE  ClearedInv'
  <2>1. /\ dState' = dState /\ clearPc' = clearPc
        /\ listPc' = [listPc EXCEPT ![k] = "done"]
    BY <1>13 DEF Move, Goto, thunkVars
  <2>2. CASE HeadIsCleared /\ clearedList' = Append(clearedList, Head(clearingList))
    <3> DEFINE h == Head(clearingList)
    <3>1. Len(clearingList) \in Nat
      BY LenProperties
    <3>2. h \in Thunks /\ state(h) = CLEARED
      BY <2>2, <3>1, PopFront DEF HeadIsCleared
    <3>3. dState[h] = CLEARED
      BY <3>2 DEF state, READY, CLEARING, CLEARED
    <3>4. Elems(clearedList') = Elems(clearedList) \cup {h}
      BY <2>2, <3>2, PushBack
    <3>5. QED
      BY <1>5, <2>1, <3>3, <3>4 DEF ClearedInv
  <2>3. CASE clearedList' = clearedList
    BY <1>5, <2>1, <2>3 DEF ClearedInv
  <2>4. QED
    BY <1>13, <2>2, <2>3 DEF Move
<1>14. ASSUME NEW k \in Thunks, CallClearThunk(k) \/ LockList(k)
       PROVE  ClearedInv'
  <2>1. dState' = dState /\ clearPc' = clearPc /\ clearedList' = clearedList
    BY <1>14 DEF CallClearThunk, LockList, thunkVars
  <2>2. \A j \in Thunks : listPc'[j] = "push" => listPc[j] = "push"
    BY <1>14 DEF CallClearThunk, LockList, Goto
  <2>3. QED
    BY <1>5, <2>1, <2>2 DEF ClearedInv
<1>15. ASSUME UNCHANGED vars PROVE ClearedInv'
  <2>1. /\ dState' = dState /\ clearPc' = clearPc /\ clearedList' = clearedList
        /\ listPc' = listPc
    BY <1>15 DEF vars, thunkVars, listVars
  <2>2. QED
    BY <1>5, <2>1 DEF ClearedInv
<1>16. ClearedInv'
  <2>1. CASE \E k \in Thunks : ClearThunkStep(k) \/ CallClearThunk(k)
    BY <2>1, <1>10, <1>11, <1>12, <1>13, <1>14 DEF ClearThunkStep
  <2>2. CASE \E c \in Calls : CallStep(c) /\ UNCHANGED listVars
    BY <2>2, <1>9
  <2>3. CASE Finished
    BY <2>3, <1>15 DEF Finished
  <2>4. ListNext => \/ \E c \in Calls : CallStep(c) /\ UNCHANGED listVars
                    \/ \E k \in Thunks : ClearThunkStep(k) \/ CallClearThunk(k)
                    \/ Finished
    BY Zenon DEF ListNext
  <2>5. QED
    BY <2>1, <2>2, <2>3, <2>4, <1>15, Zenon
<1>17. QED
  BY <1>2, <1>16 DEF ClearedInv

\* The inductive invariant of the list holds at the start.
LEMMA ListIInvInit == ListInit => ListIInv
<1> SUFFICES ASSUME ListInit PROVE ListIInv
  OBVIOUS
<1>1. clearedList = <<>> /\ clearingList = <<>> /\ freed = {}
      /\ listPc = [k \in Thunks |-> "none"]
  BY DEF ListInit, Init
<1>2. Elems(<<>>) = {} /\ Distinct(<<>>)
  BY EmptySeq DEF Elems, Distinct
<1>3. QED
  BY <1>1, <1>2, ListTypeInit DEF ListIInv, ListInv, ClearedInv

-------------------------------------------------------------------------------
\* The invariant that carries everything below: that of Thunk and that of the
\* lists, neither of which is inductive without the other.
LEMMA ListInvariant ==
  ListSpec => [](TypeInv /\ CounterInv /\ DiesOnlyOfLateCall /\ ListIInv)
<1> DEFINE J == TypeInv /\ CounterInv /\ DiesOnlyOfLateCall /\ ListIInv
<1>1. ListInit => J
  BY ListIInvInit, IInvInit DEF ListInit
<1>2. J /\ [ListNext]_vars => J'
  <2> SUFFICES ASSUME J, [ListNext]_vars PROVE J'
    OBVIOUS
  <2>1. [Next]_thunkVars
    BY ListStepIsThunkStep
  <2>2. TypeInv' /\ CounterInv' /\ DiesOnlyOfLateCall'
    BY <2>1, TypeInvStep, CounterInvStep, DiesOnlyStep
  <2>3. ListTypeOK'
    BY <2>2, ListTypeStep DEF ListIInv, TypeInv
  <2>4. ListInv'
    BY ListInvStep DEF ListIInv
  <2>5. ClearedInv'
    BY ClearedInvStep
  <2>6. QED
    BY <2>2, <2>3, <2>4, <2>5 DEF ListIInv
<1>3. QED
  BY <1>1, <1>2, PTL DEF ListSpec

\* clear_thunk() is an owner as thunk.h asks for: it clears each thunk once and
\* deletes it once, after it has read CLEARED (thunk.cpp:161-197).  Everything
\* proved of Spec therefore holds of the thunks that jSuneido deletes.
THEOREM ListOwnsThunks == ListSpec => Spec
<1>1. ListInit => Init
  BY DEF ListInit
<1>2. ListIInv /\ [ListNext]_vars => [Next]_thunkVars
  BY ListStepIsThunkStep
<1>3. QED
  BY <1>1, <1>2, ListInvariant, PTL DEF ListSpec, Spec

\* The lists are well-typed, and the mutex is held exactly from the lock of a
\* clear_thunk() to its return.
THEOREM ListTyped == ListSpec => []ListTypeOK
<1>1. ListIInv => ListTypeOK
  BY DEF ListIInv
<1>2. QED
  BY <1>1, ListInvariant, PTL

\* Whatever waits on the cleared list is CLEARED, for any number of thunks and
\* calls and any bound: the assertion at thunk.cpp:183 cannot fail.
THEOREM ListCleared == ListSpec => []ClearedListIsCleared
<1>1. ASSUME ListIInv PROVE ClearedListIsCleared
  <2>1. SUFFICES ASSUME Healthy, NEW i \in DOMAIN clearedList
                 PROVE  state(clearedList[i]) = CLEARED
    BY DEF ClearedListIsCleared
  <2>2. DOMAIN clearedList = 1 .. Len(clearedList)
    BY <1>1, LenProperties DEF ListIInv, ListTypeOK
  <2>3. dState[clearedList[i]] = CLEARED
    BY <1>1, <2>1, <2>2 DEF ListIInv, ClearedInv, Elems
  <2>4. QED
    BY <2>3 DEF state, READY, CLEARED
<1>2. QED
  BY <1>1, ListInvariant, PTL

\* The properties of the single thunk under the clearing list.
THEOREM ListKeepsThunks ==
  ListSpec => []CounterInv /\ []QuietWhenCleared /\ []DiesOnlyOfLateCall
BY ListOwnsThunks, ThunkCounter, ThunkQuiet, PTL

\* The clearing list with its thunks implements the lifecycle of each of them.
THEOREM ListRefinement == ListSpec => ImplementsLifecycle
BY ListOwnsThunks, ThunkRefinement, PTL

-------------------------------------------------------------------------------
(* Where a thunk is once it was queued, and how long the list of cleared   *)
(* thunks can be.                                                          *)

\* A thunk was queued iff clear_thunk() is past its push, and iff it is on a list
\* or deleted.
PlaceInv ==
  \A k \in Thunks :
     /\ k \in pushed <=> listPc[k] \in Queued
     /\ k \in pushed <=> \/ k \in Elems(clearedList)
                         \/ k \in Elems(clearingList)
                         \/ k \in freed

\* clear() has returned what it will ever return before its result is looked at;
\* only those that were CLEARING go to the clearing list.
ResultInv ==
  /\ \A k \in Thunks : listPc[k] \in {"push"} \cup Queued
                       => clearPc[k] \in {"cleared", "clearing"}
  /\ \A k \in Elems(clearingList) : clearPc[k] = "clearing"

\* Between its push and its trim, clear_thunk() may have one thunk too many.
Trimming == \E k \in Thunks : listPc[k] = "trim"

LengthInv ==
  /\ IsFiniteSet(pushed)
  /\ Len(clearedList) <= MaxCleared + Cardinality(Moved) + (IF Trimming THEN 1 ELSE 0)
  /\ KeepsRecent

-------------------------------------------------------------------------------
(* Sequences, more exactly than before.                                    *)

\* pop_front() takes the head and nothing else.
LEMMA PopFrontExact ==
  ASSUME NEW s \in Seq(Thunks), Len(s) > 0
  PROVE  /\ Elems(s) = Elems(Tail(s)) \cup {Head(s)}
         /\ Len(Tail(s)) = Len(s) - 1
<1>1. s # <<>> /\ Len(s) \in Nat
  BY EmptySeq, LenProperties
<1>2. /\ Head(s) = s[1] /\ Len(Tail(s)) = Len(s) - 1
      /\ \A i \in 1 .. Len(Tail(s)) : Tail(s)[i] = s[i + 1]
  BY <1>1, HeadTailProperties
<1>3. ASSUME NEW i \in 1 .. Len(s) PROVE s[i] \in Elems(Tail(s)) \cup {Head(s)}
  <2>1. CASE i = 1
    BY <1>2, <2>1
  <2>2. CASE i # 1
    <3>1. i - 1 \in 1 .. Len(Tail(s)) /\ (i - 1) + 1 = i
      BY <1>1, <1>2, <2>2
    <3>2. Tail(s)[i - 1] = s[i]
      BY <1>2, <3>1
    <3>3. QED
      BY <3>1, <3>2 DEF Elems
  <2>3. QED
    BY <2>1, <2>2
<1>4. Elems(s) \subseteq Elems(Tail(s)) \cup {Head(s)}
  BY <1>3 DEF Elems
<1>5. QED
  BY <1>2, <1>4, PopFront

\* In a list without duplicates a thunk is once or not at all.
LEMMA CountInList ==
  ASSUME NEW s \in Seq(Thunks), Distinct(s), NEW k
  PROVE  Cardinality({i \in DOMAIN s : s[i] = k}) = IF k \in Elems(s) THEN 1 ELSE 0
<1>1. DOMAIN s = 1 .. Len(s)
  BY LenProperties
<1>2. CASE k \in Elems(s)
  <2>1. PICK i \in 1 .. Len(s) : s[i] = k
    BY <1>2 DEF Elems
  <2>2. {j \in DOMAIN s : s[j] = k} = {i}
    BY <1>1, <2>1 DEF Distinct
  <2>3. QED
    BY <1>2, <2>2, FS_Singleton
<1>3. CASE k \notin Elems(s)
  <2>1. {j \in DOMAIN s : s[j] = k} = {}
    BY <1>1, <1>3 DEF Elems
  <2>2. QED
    BY <1>3, <2>1, FS_EmptySet
<1>4. QED
  BY <1>2, <1>3

-------------------------------------------------------------------------------
(* What the steps leave alone.                                             *)

\* A call changes neither the lists nor what clear() returned.
LEMMA CallStepFrame ==
  ASSUME NEW c \in Calls, CallStep(c)
  PROVE  freed' = freed /\ clearPc' = clearPc
BY DEF CallStep, EnterStub, SetupCall, TeardownCall, StoreCleared,
     ReturnToCaller, EscapeCallback, Abort, RunFreedCode

\* The steps of clear() change the result of the thunk that is being cleared.
LEMMA ClearFrame ==
  ASSUME TypeOK, NEW k \in Thunks, ClearInList(k)
  PROVE  /\ freed' = freed /\ listPc[k] = "clear"
         /\ \A j \in Thunks : j # k => clearPc'[j] = clearPc[j] /\ listPc'[j] = listPc[j]
         /\ listPc'[k] \in {listPc[k], "push"}
         /\ listPc' = listPc \/ clearPc'[k] \in {"cleared", "clearing"}
         /\ UNCHANGED <<clearedList, clearingList, mutex, pushed>>
<1>1. /\ listPc[k] = "clear" /\ UNCHANGED <<clearedList, clearingList, mutex, pushed>>
      /\ listPc' = IF clearPc'[k] \in {"cleared", "clearing"}
                   THEN [listPc EXCEPT ![k] = "push"] ELSE listPc
  BY DEF ClearInList
<1>2. freed' = freed /\ \E v \in ClearPcs : clearPc' = [clearPc EXCEPT ![k] = v]
  BY DEF ClearInList, ClearFlag, ClearSub, ClearStore, ClearPcs
<1>3. QED
  BY <1>1, <1>2 DEF TypeOK

-------------------------------------------------------------------------------
(* The place of a thunk.                                                   *)

\* Initially no thunk is queued.
LEMMA PlaceInit == ListInit => PlaceInv
<1> SUFFICES ASSUME ListInit PROVE PlaceInv
  OBVIOUS
<1>1. Elems(<<>>) = {}
  BY EmptySeq DEF Elems
<1>2. QED
  BY <1>1 DEF ListInit, Init, PlaceInv, Queued

\* Each step moves at most one thunk, from where it is to one other place.
LEMMA PlaceStep ==
  ASSUME ListTypeOK, ListInv, PlaceInv, [ListNext]_vars
  PROVE  PlaceInv'
<1> USE DEF ListTypeOK, TypeOK
<1>0. Len(clearedList) \in Nat /\ Len(clearingList) \in Nat
  BY LenProperties
<1>1. ASSUME UNCHANGED <<clearedList, clearingList, pushed, freed>>,
             \A k \in Thunks : listPc[k] \in Queued <=> listPc'[k] \in Queued
      PROVE  PlaceInv'
  BY <1>1 DEF PlaceInv
<1>2. ASSUME NEW c \in Calls, CallStep(c), UNCHANGED listVars PROVE PlaceInv'
  BY <1>1, <1>2, CallStepFrame DEF listVars
<1>3. ASSUME NEW k \in Thunks, CallClearThunk(k) \/ LockList(k) PROVE PlaceInv'
  BY <1>1, <1>3 DEF CallClearThunk, LockList, Goto, thunkVars, Queued
<1>4. ASSUME NEW k \in Thunks, ClearInList(k) PROVE PlaceInv'
  BY <1>1, <1>4, ClearFrame DEF Queued
<1>5. ASSUME NEW k \in Thunks, Push(k) PROVE PlaceInv'
  <2>1. /\ freed' = freed /\ listPc[k] = "push" /\ listPc' = [listPc EXCEPT ![k] = "trim"]
        /\ pushed' = pushed \cup {k}
    BY <1>5 DEF Push, Goto, thunkVars
  <2>2. \/ Elems(clearedList') = Elems(clearedList) \cup {k} /\ clearingList' = clearingList
        \/ Elems(clearingList') = Elems(clearingList) \cup {k} /\ clearedList' = clearedList
    BY <1>5, PushBack DEF Push
  <2>3. QED
    BY <2>1, <2>2 DEF PlaceInv, Queued
<1>6. ASSUME NEW k \in Thunks, Trim(k) PROVE PlaceInv'
  <2>1. /\ listPc[k] = "trim" /\ listPc' = [listPc EXCEPT ![k] = "move"]
        /\ UNCHANGED <<clearingList, pushed>>
    BY <1>6 DEF Trim, Goto
  <2>2. CASE UNCHANGED <<thunkVars, clearedList>>
    BY <1>1, <2>1, <2>2 DEF thunkVars, Queued
  <2>3. CASE Len(clearedList) > MaxCleared /\ Delete(Head(clearedList))
             /\ clearedList' = Tail(clearedList)
    <3>0. Len(clearedList) > 0
      BY <1>0, <2>3, ClearingListAssumption
    <3>1. Elems(clearedList) = Elems(Tail(clearedList)) \cup {Head(clearedList)}
      BY <3>0, PopFrontExact
    <3>2. freed' = freed \cup {Head(clearedList)}
      BY <2>3 DEF Delete
    <3>3. QED
      BY <2>1, <2>3, <3>1, <3>2 DEF PlaceInv, Queued
  <2>4. QED
    BY <1>6, <2>2, <2>3 DEF Trim
<1>7. ASSUME NEW k \in Thunks, Move(k) PROVE PlaceInv'
  <2>1. /\ listPc[k] = "move" /\ listPc' = [listPc EXCEPT ![k] = "done"]
        /\ freed' = freed /\ pushed' = pushed
    BY <1>7 DEF Move, Goto, thunkVars
  <2>2. CASE UNCHANGED <<clearedList, clearingList>>
    BY <1>1, <2>1, <2>2 DEF Queued
  <2>3. CASE HeadIsCleared /\ clearingList' = Tail(clearingList)
             /\ clearedList' = Append(clearedList, Head(clearingList))
    <3>0. Len(clearingList) > 0
      BY <1>0, <2>3 DEF HeadIsCleared
    <3>1. Elems(clearingList) = Elems(Tail(clearingList)) \cup {Head(clearingList)}
      BY <3>0, PopFrontExact
    <3>2. Elems(Append(clearedList, Head(clearingList)))
            = Elems(clearedList) \cup {Head(clearingList)}
      BY <3>0, PopFront, PushBack
    <3>3. QED
      BY <2>1, <2>3, <3>1, <3>2 DEF PlaceInv, Queued
  <2>4. QED
    BY <1>7, <2>2, <2>3 DEF Move
<1>8. CASE UNCHANGED vars
  BY <1>1, <1>8 DEF vars, listVars, thunkVars
<1>9. QED
  BY <1>2, <1>3, <1>4, <1>5, <1>6, <1>7, <1>8 DEF ListNext, ClearThunkStep, Finished

\* One place is what PlaceInv and the structure of the lists come to.
LEMMA PlaceIsOne == ListTypeOK /\ ListInv /\ PlaceInv => OnePlace
<1> SUFFICES ASSUME ListTypeOK, ListInv, PlaceInv, NEW k \in Thunks
             PROVE  Cardinality({i \in DOMAIN clearedList : clearedList[i] = k})
                    + Cardinality({i \in DOMAIN clearingList : clearingList[i] = k})
                    + (IF k \in freed THEN 1 ELSE 0)
                      = (IF k \in pushed THEN 1 ELSE 0)
  BY DEF OnePlace
<1>1. /\ Cardinality({i \in DOMAIN clearedList : clearedList[i] = k})
           = IF k \in Elems(clearedList) THEN 1 ELSE 0
      /\ Cardinality({i \in DOMAIN clearingList : clearingList[i] = k})
           = IF k \in Elems(clearingList) THEN 1 ELSE 0
  BY CountInList DEF ListTypeOK, ListInv
<1>2. /\ ~(k \in Elems(clearedList) /\ k \in Elems(clearingList))
      /\ k \in Elems(clearedList) \cup Elems(clearingList) => k \notin freed
  BY DEF ListInv
<1>3. QED
  BY <1>1, <1>2 DEF PlaceInv

-------------------------------------------------------------------------------
(* The length of the cleared list.                                         *)

\* Initially nothing is queued or on its way to a list.
LEMMA ResultInit == ListInit => ResultInv
<1> SUFFICES ASSUME ListInit PROVE ResultInv
  OBVIOUS
<1>1. Elems(<<>>) = {}
  BY EmptySeq DEF Elems
<1>2. QED
  BY <1>1 DEF ListInit, Init, ResultInv, Queued

\* Each step keeps it: what is on the clearing list was CLEARING when clear() looked.
LEMMA ResultStep ==
  ASSUME ListTypeOK, ListInv, ResultInv, [ListNext]_vars
  PROVE  ResultInv'
<1> USE DEF ListTypeOK, TypeOK
<1>0. Len(clearedList) \in Nat /\ Len(clearingList) \in Nat
  BY LenProperties
<1>a. Elems(clearingList) \subseteq Thunks
  BY ElementOfSeq DEF Elems
<1>1. ASSUME clearPc' = clearPc, Elems(clearingList') \subseteq Elems(clearingList),
             \A k \in Thunks : listPc'[k] \in {"push"} \cup Queued
                               => listPc[k] \in {"push"} \cup Queued
      PROVE  ResultInv'
  BY <1>1 DEF ResultInv
<1>2. ASSUME NEW c \in Calls, CallStep(c), UNCHANGED listVars PROVE ResultInv'
  BY <1>1, <1>2, CallStepFrame DEF listVars
<1>3. ASSUME NEW k \in Thunks, CallClearThunk(k) \/ LockList(k) PROVE ResultInv'
  BY <1>1, <1>3 DEF CallClearThunk, LockList, Goto, thunkVars, Queued
<1>4. ASSUME NEW k \in Thunks, ClearInList(k) PROVE ResultInv'
  <2>1. k \notin Elems(clearingList)
    BY <1>4, ClearFrame DEF ListInv, Queued
  <2>2. QED
    BY <1>4, <1>a, <2>1, ClearFrame DEF ResultInv, Queued
<1>5. ASSUME NEW k \in Thunks, Push(k) PROVE ResultInv'
  <2>1. /\ clearPc' = clearPc /\ listPc[k] = "push"
        /\ listPc' = [listPc EXCEPT ![k] = "trim"]
    BY <1>5 DEF Push, Goto, thunkVars
  <2>2. \/ clearingList' = clearingList
        \/ /\ Elems(clearingList') = Elems(clearingList) \cup {k}
           /\ clearPc[k] = "clearing"
    BY <1>5, PushBack DEF Push
  <2>3. QED
    BY <2>1, <2>2 DEF ResultInv, Queued
<1>6. ASSUME NEW k \in Thunks, Trim(k) PROVE ResultInv'
  <2>1. /\ listPc[k] = "trim" /\ listPc' = [listPc EXCEPT ![k] = "move"]
        /\ clearingList' = clearingList /\ clearPc' = clearPc
    BY <1>6 DEF Trim, Goto, Delete, thunkVars
  <2>2. QED
    BY <1>1, <2>1 DEF Queued
<1>7. ASSUME NEW k \in Thunks, Move(k) PROVE ResultInv'
  <2>1. /\ listPc[k] = "move" /\ listPc' = [listPc EXCEPT ![k] = "done"]
        /\ clearPc' = clearPc
    BY <1>7 DEF Move, Goto, thunkVars
  <2>2. Elems(clearingList') \subseteq Elems(clearingList)
    <3>1. CASE HeadIsCleared
      <4>1. Len(clearingList) > 0 /\ clearingList' = Tail(clearingList)
        BY <1>0, <1>7, <3>1 DEF Move, HeadIsCleared
      <4>2. Elems(Tail(clearingList)) \subseteq Elems(clearingList)
        BY <4>1, PopFront
      <4>3. QED
        BY <4>1, <4>2
    <3>2. CASE ~HeadIsCleared
      BY <1>7, <3>2 DEF Move
    <3>3. QED
      BY <3>1, <3>2
  <2>3. QED
    BY <1>1, <2>1, <2>2 DEF Queued
<1>8. CASE UNCHANGED vars
  BY <1>1, <1>8 DEF vars, listVars, thunkVars
<1>9. QED
  BY <1>2, <1>3, <1>4, <1>5, <1>6, <1>7, <1>8 DEF ListNext, ClearThunkStep, Finished

\* Moved, in terms of the elements of the list.
LEMMA MovedIs ==
  ASSUME ListTypeOK
  PROVE  Moved = {k \in pushed : clearPc[k] = "clearing" /\ k \notin Elems(clearingList)}
<1>1. DOMAIN clearingList = 1 .. Len(clearingList)
  BY LenProperties DEF ListTypeOK
<1>2. QED
  BY <1>1 DEF Moved, Elems

\* Finitely many thunks were moved.
LEMMA MovedFinite ==
  ASSUME IsFiniteSet(pushed)
  PROVE  IsFiniteSet(Moved) /\ Cardinality(Moved) \in Nat
<1>1. Moved \in SUBSET pushed
  BY DEF Moved
<1>2. IsFiniteSet(Moved)
  BY <1>1, FS_Subset
<1>3. QED
  BY <1>2, FS_CardinalityType

\* Initially the lists are empty.
LEMMA LengthInit == ListInit => LengthInv
<1> SUFFICES ASSUME ListInit PROVE LengthInv
  OBVIOUS
<1>1. IsFiniteSet(pushed)
  BY FS_EmptySet DEF ListInit
<1>2. Cardinality(Moved) \in Nat
  BY <1>1, MovedFinite
<1>3. Len(clearedList) = 0 /\ freed = {}
  BY EmptySeq DEF ListInit, Init
<1>4. QED
  BY <1>1, <1>2, <1>3, ClearingListAssumption DEF LengthInv, KeepsRecent

\* Only one clear_thunk() can be between its push and its trim: it has the mutex.
LEMMA OneTrims ==
  ASSUME ListTypeOK, NEW k \in Thunks, NEW j \in Thunks,
         listPc[k] \in {"push", "trim", "move"}, listPc[j] = "trim"
  PROVE  j = k
BY DEF ListTypeOK

\* The length of the list goes up with a push, for as long as the trim is due,
\* and with a move, which adds to Moved for good.
LEMMA LengthStep ==
  ASSUME ListTypeOK, ListTypeOK', ListInv, PlaceInv, ResultInv, LengthInv, [ListNext]_vars
  PROVE  LengthInv'
<1>0. /\ Len(clearedList) \in Nat /\ Len(clearingList) \in Nat
      /\ IsFiniteSet(pushed) /\ IsFiniteSet(Moved) /\ Cardinality(Moved) \in Nat
  BY LenProperties, MovedFinite DEF LengthInv, ListTypeOK
<1>a. listPc \in [Thunks -> ListPcs] /\ clearPc \in [Thunks -> ClearPcs]
      /\ pushed \subseteq Thunks
  BY DEF ListTypeOK, TypeOK
<1>b. /\ Moved = {j \in pushed : clearPc[j] = "clearing" /\ j \notin Elems(clearingList)}
      /\ Moved' = {j \in pushed' : clearPc'[j] = "clearing" /\ j \notin Elems(clearingList')}
  <2>1. Moved = {j \in pushed : clearPc[j] = "clearing" /\ j \notin Elems(clearingList)}
    BY MovedIs
  <2>2. DOMAIN clearingList' = 1 .. Len(clearingList')
    BY LenProperties DEF ListTypeOK
  <2>3. QED
    BY <2>1, <2>2 DEF Moved, Elems
<1>1. ASSUME UNCHANGED <<clearedList, freed, pushed>>, Moved' = Moved, Trimming' = Trimming
      PROVE  LengthInv'
  BY <1>0, <1>1 DEF LengthInv, KeepsRecent
<1>2. ASSUME NEW c \in Calls, CallStep(c), UNCHANGED listVars PROVE LengthInv'
  BY <1>1, <1>2, <1>b, CallStepFrame DEF listVars, Trimming
<1>3. ASSUME NEW k \in Thunks, CallClearThunk(k) \/ LockList(k) PROVE LengthInv'
  <2>1. UNCHANGED <<clearedList, clearingList, freed, pushed, clearPc>>
    BY <1>3 DEF CallClearThunk, LockList, Goto, thunkVars
  <2>2. \A j \in Thunks : listPc'[j] = "trim" <=> listPc[j] = "trim"
    BY <1>3, <1>a DEF CallClearThunk, LockList, Goto
  <2>3. QED
    BY <1>1, <1>b, <2>1, <2>2 DEF Trimming
<1>4. ASSUME NEW k \in Thunks, ClearInList(k) PROVE LengthInv'
  <2>1. k \notin pushed
    BY <1>4, ClearFrame DEF PlaceInv, Queued, ListTypeOK
  <2>2. \A j \in pushed : clearPc'[j] = clearPc[j]
    BY <1>4, <1>a, <2>1, ClearFrame DEF ListTypeOK
  <2>3. UNCHANGED <<clearedList, clearingList, freed, pushed>>
    BY <1>4, ClearFrame DEF ListTypeOK
  <2>4. \A j \in Thunks : listPc'[j] = "trim" <=> listPc[j] = "trim"
    BY <1>4, ClearFrame DEF ListTypeOK
  <2>5. QED
    BY <1>1, <1>b, <2>2, <2>3, <2>4 DEF Trimming
<1>5. ASSUME NEW k \in Thunks, Push(k) PROVE LengthInv'
  <2>1. /\ listPc[k] = "push" /\ listPc' = [listPc EXCEPT ![k] = "trim"]
        /\ pushed' = pushed \cup {k} /\ UNCHANGED <<freed, clearPc>>
    BY <1>5 DEF Push, Goto, thunkVars
  <2>2. ~Trimming
    BY <2>1, OneTrims DEF Trimming
  <2>3. Trimming'
    BY <1>a, <2>1 DEF Trimming
  <2>4. IsFiniteSet(pushed')
    BY <1>0, <2>1, FS_AddElement
  <2>5. k \notin pushed
    BY <2>1 DEF PlaceInv, Queued
  <2>6. CASE clearPc[k] = "cleared" /\ clearedList' = Append(clearedList, k)
             /\ clearingList' = clearingList
    <3>1. Moved' = Moved
      BY <1>b, <2>1, <2>5, <2>6
    <3>2. Len(clearedList') = Len(clearedList) + 1
      BY <2>6, AppendProperties DEF ListTypeOK
    <3>3. QED
      BY <1>0, <2>1, <2>2, <2>3, <2>4, <3>1, <3>2, ClearingListAssumption
      DEF LengthInv, KeepsRecent
  <2>7. CASE clearPc[k] = "clearing" /\ clearingList' = Append(clearingList, k)
             /\ clearedList' = clearedList
    <3>1. Elems(Append(clearingList, k)) = Elems(clearingList) \cup {k}
      BY PushBack DEF ListTypeOK
    <3>2. Moved' = Moved
      BY <1>b, <2>1, <2>5, <2>7, <3>1
    <3>3. QED
      BY <1>0, <2>1, <2>2, <2>3, <2>4, <2>7, <3>2, ClearingListAssumption
      DEF LengthInv, KeepsRecent
  <2>8. QED
    BY <1>5, <2>6, <2>7 DEF Push
<1>6. ASSUME NEW k \in Thunks, Trim(k) PROVE LengthInv'
  <2>1. /\ listPc[k] = "trim" /\ listPc' = [listPc EXCEPT ![k] = "move"]
        /\ UNCHANGED <<clearingList, pushed, clearPc>>
    BY <1>6 DEF Trim, Goto, Delete, thunkVars
  <2>2. Trimming
    BY <2>1 DEF Trimming
  <2>3. ~Trimming'
    <3>1. SUFFICES ASSUME NEW j \in Thunks, listPc'[j] = "trim" PROVE FALSE
      BY DEF Trimming
    <3>2. j # k /\ listPc[j] = "trim"
      BY <1>a, <2>1, <3>1
    <3>3. QED
      BY <2>1, <3>2, OneTrims
  <2>4. Moved' = Moved
    BY <1>b, <2>1
  <2>5. CASE UNCHANGED <<thunkVars, clearedList>> /\ Len(clearedList) <= MaxCleared
    <3>1. freed' = freed
      BY <2>5 DEF thunkVars
    <3>2. QED
      BY <1>0, <2>1, <2>3, <2>4, <2>5, <3>1, ClearingListAssumption DEF LengthInv, KeepsRecent
  <2>6. CASE Len(clearedList) > MaxCleared /\ clearedList' = Tail(clearedList)
    <3>1. Len(clearedList) > 0
      BY <1>0, <2>6, ClearingListAssumption
    <3>2. Len(clearedList') = Len(clearedList) - 1
      BY <2>6, <3>1, PopFrontExact DEF ListTypeOK
    <3>3. QED
      BY <1>0, <2>1, <2>2, <2>3, <2>4, <2>6, <3>2, ClearingListAssumption
      DEF LengthInv, KeepsRecent
  <2>7. QED
    BY <1>6, <2>5, <2>6 DEF Trim
<1>7. ASSUME NEW k \in Thunks, Move(k) PROVE LengthInv'
  <2>1. /\ listPc[k] = "move" /\ listPc' = [listPc EXCEPT ![k] = "done"]
        /\ UNCHANGED <<freed, pushed, clearPc>>
    BY <1>7 DEF Move, Goto, thunkVars
  <2>2. ~Trimming /\ ~Trimming'
    <3>1. ~Trimming
      BY <2>1, OneTrims DEF Trimming
    <3>2. QED
      BY <1>a, <2>1, <3>1 DEF Trimming
  <2>3. CASE UNCHANGED <<clearedList, clearingList>>
    <3>1. Moved' = Moved
      BY <1>b, <2>1, <2>3
    <3>2. Trimming' = Trimming
      BY <2>2, Zenon DEF Trimming
    <3>3. QED
      BY <1>1, <2>1, <2>3, <3>1, <3>2
  <2>4. CASE HeadIsCleared /\ clearingList' = Tail(clearingList)
             /\ clearedList' = Append(clearedList, Head(clearingList))
    <3> DEFINE h == Head(clearingList)
    <3>0. Len(clearingList) > 0 /\ clearingList \in Seq(Thunks) /\ clearedList \in Seq(Thunks)
      BY <1>0, <2>4 DEF HeadIsCleared, ListTypeOK
    <3>1. /\ h \in Thunks /\ h \in Elems(clearingList) /\ h \notin Elems(Tail(clearingList))
          /\ Elems(clearingList) = Elems(Tail(clearingList)) \cup {h}
      BY <3>0, PopFront, PopFrontExact DEF ListInv
    <3>2. h \in pushed /\ clearPc[h] = "clearing" /\ h \notin Moved
      BY <1>b, <3>1 DEF PlaceInv, ResultInv
    <3>3. Moved' = Moved \cup {h}
      BY <1>b, <2>1, <2>4, <3>1, <3>2
    <3>4. Cardinality(Moved') = Cardinality(Moved) + 1
      BY <1>0, <3>2, <3>3, FS_AddElement
    <3>5. Len(clearedList') = Len(clearedList) + 1
      BY <2>4, <3>0, <3>1, AppendProperties
    <3>6. QED
      BY <1>0, <2>1, <2>2, <3>4, <3>5, ClearingListAssumption DEF LengthInv, KeepsRecent
  <2>5. QED
    BY <1>7, <2>3, <2>4 DEF Move
<1>8. CASE UNCHANGED vars
  <2>1. UNCHANGED <<clearedList, clearingList, freed, pushed, clearPc, listPc>>
    BY <1>8 DEF vars, listVars, thunkVars
  <2>2. Moved' = Moved
    BY <1>b, <2>1
  <2>3. Trimming' = Trimming
    BY <2>1 DEF Trimming
  <2>4. QED
    BY <1>1, <2>1, <2>2, <2>3
<1>9. QED
  BY <1>2, <1>3, <1>4, <1>5, <1>6, <1>7, <1>8 DEF ListNext, ClearThunkStep, Finished

-------------------------------------------------------------------------------
\* The three invariants, next to the structure of the lists they rest on.
LEMMA PlacesInvariant ==
  ListSpec => [](ListTypeOK /\ ListInv /\ PlaceInv /\ ResultInv /\ LengthInv)
<1> DEFINE J == PlaceInv /\ ResultInv /\ LengthInv
           K == ListTypeOK /\ ListInv
<1>1. ListInit => J
  BY PlaceInit, ResultInit, LengthInit
<1>2. J /\ K /\ K' /\ [ListNext]_vars => J'
  <2> SUFFICES ASSUME J, K, K', [ListNext]_vars PROVE J'
    OBVIOUS
  <2>1. QED
    BY PlaceStep, ResultStep, LengthStep
<1>3. ListIInv => K
  BY DEF ListIInv
<1>4. ListSpec => []K
  BY <1>3, ListInvariant, PTL
<1>5. QED
  BY <1>1, <1>2, <1>4, PTL DEF ListSpec

\* Every thunk that clear_thunk() has queued is on one list, once, or deleted, and
\* never both: none is lost and none is deleted twice (thunk.cpp:165-198).
THEOREM ListOnePlace == ListSpec => []OnePlace
<1>1. ListTypeOK /\ ListInv /\ PlaceInv => OnePlace
  BY PlaceIsOne
<1>2. QED
  BY <1>1, PlacesInvariant, PTL

\* However many thunks come and in whatever order their calls leave, the cleared
\* list is at most MaxCleared long, and one more for each thunk that was ever moved
\* to it (thunk.cpp:179-197).
THEOREM ListLengthBound == ListSpec => []ClearedListBound
<1>1. ASSUME ListTypeOK, LengthInv PROVE ClearedListBound
  <2>1. SUFFICES ASSUME mutex = NoThunk
                 PROVE  Len(clearedList) <= MaxCleared + Cardinality(Moved)
    BY DEF ClearedListBound
  <2>2. ~Trimming
    BY <1>1, <2>1, ThunkAssumption DEF Trimming, ListTypeOK
  <2>3. Len(clearedList) \in Nat /\ Cardinality(Moved) \in Nat
    BY <1>1, LenProperties, MovedFinite DEF LengthInv, ListTypeOK
  <2>4. QED
    BY <1>1, <2>2, <2>3, ClearingListAssumption DEF LengthInv
<1>2. QED
  BY <1>1, PlacesInvariant, PTL

\* Once a thunk was deleted, MaxCleared others are kept at all times
\* (thunk.cpp:179-187).
THEOREM ListKeepsRecent == ListSpec => []KeepsRecent
<1>1. LengthInv => KeepsRecent
  BY DEF LengthInv
<1>2. QED
  BY <1>1, PlacesInvariant, PTL

===============================================================================
