------------------------ MODULE UConditionVarProofs -------------------------
(***************************************************************************)
(* Proofs about the two-gate condition variable, for any finite number of  *)
(* threads: the wait count is exact, nobody is trapped between the gates,  *)
(* and one broadcast wakes a thread at most once.                          *)
(***************************************************************************)
EXTENDS UConditionVar, FiniteSetTheorems, TLAPS

(* Counted is a finite set, so that its cardinality is a number and is     *)
(* zero only when nobody is counted.                                       *)
LEMMA CountedFinite ==
  /\ IsFiniteSet(Counted)
  /\ Cardinality(Counted) \in Nat
  /\ Cardinality(Counted) = 0 <=> Counted = {}
<1>1. Counted \in SUBSET Threads
  BY DEF Counted
<1>2. IsFiniteSet(Counted)
  BY <1>1, CondAssumption, FS_Subset
<1>3. QED
  BY <1>2, FS_CardinalityType, FS_EmptySet

(* Moving one thread changes one location.                                 *)
LEMMA GotoFact ==
  ASSUME TypeOK, NEW t \in Threads, NEW l \in Loc, Goto(t, l)
  PROVE  /\ pc' \in [Threads -> Loc]
         /\ \A u \in Threads : pc'[u] = IF u = t THEN l ELSE pc[u]
  BY DEF TypeOK, Goto

(* Taking the mutex, at first or on the way out of the wait.               *)
LEMMA TakeInv ==
  ASSUME IInv, NEW t \in Threads, Lock(t) \/ WaitReturns(t)
  PROVE  IInv'
<1> USE DEF IInv
<1>1. /\ Goto(t, "critical") /\ pc[t] \in {"out", "exitlock"}
      /\ mutex = None /\ mutex' = t
      /\ UNCHANGED <<fWaitCount, fEntryGate, fExitGate, passed>>
  BY DEF Lock, WaitReturns
<1>2. /\ pc' \in [Threads -> Loc]
      /\ \A u \in Threads : pc'[u] = IF u = t THEN "critical" ELSE pc[u]
  BY <1>1, GotoFact DEF Loc
<1>3. Counted' = Counted
  BY <1>1, <1>2 DEF Counted
<1>4. TypeOK' /\ WaitCountExact'
  BY <1>1, <1>2, <1>3 DEF TypeOK, WaitCountExact
<1>5. NobodyTrapped'
  BY <1>1, <1>2, <1>3 DEF NobodyTrapped
<1>6. MutexHeld'
  BY <1>1, <1>2, CondAssumption DEF MutexHeld
<1>7. PassedStillInside'
  BY <1>1, <1>2 DEF PassedStillInside, TypeOK
<1>8. QED
  BY <1>4, <1>5, <1>6, <1>7

LEMMA UnlockInv ==
  ASSUME IInv, NEW t \in Threads, Unlock(t)
  PROVE  IInv'
<1> USE DEF IInv
<1>1. /\ Goto(t, "out") /\ pc[t] = "critical" /\ mutex = t /\ mutex' = None
      /\ UNCHANGED <<fWaitCount, fEntryGate, fExitGate, passed>>
  BY DEF Unlock, MutexHeld
<1>2. /\ pc' \in [Threads -> Loc]
      /\ \A u \in Threads : pc'[u] = IF u = t THEN "out" ELSE pc[u]
  BY <1>1, GotoFact DEF Loc
<1>3. Counted' = Counted
  BY <1>1, <1>2 DEF Counted
<1>4. TypeOK' /\ WaitCountExact'
  BY <1>1, <1>2, <1>3 DEF TypeOK, WaitCountExact
<1>5. NobodyTrapped'
  BY <1>1, <1>2, <1>3 DEF NobodyTrapped
<1>6. MutexHeld'
  BY <1>1, <1>2, CondAssumption DEF MutexHeld
<1>7. PassedStillInside'
  BY <1>1, <1>2 DEF PassedStillInside, TypeOK
<1>8. QED
  BY <1>4, <1>5, <1>6, <1>7

(* A broadcast opens the entry gate only for somebody.                     *)
LEMMA CondBroadcastInv ==
  ASSUME IInv, NEW t \in Threads, CondBroadcast(t)
  PROVE  IInv'
<1> USE DEF IInv
<1>1. /\ fExitGate' = "closed" /\ fEntryGate' = "open"
      /\ passed' = IF fEntryGate = "open" THEN passed ELSE {}
      /\ UNCHANGED <<pc, mutex, fWaitCount>>
  BY DEF CondBroadcast
<1>2. Counted # {} /\ Counted' = Counted
  BY <1>1, CountedFinite DEF CondBroadcast, WaitCountExact, Counted
<1>3. TypeOK' /\ WaitCountExact'
  BY <1>1, <1>2 DEF TypeOK, WaitCountExact, Gate
<1>4. NobodyTrapped'
  BY <1>1, <1>2 DEF NobodyTrapped
<1>5. MutexHeld' /\ PassedStillInside'
  BY <1>1 DEF MutexHeld, PassedStillInside
<1>6. QED
  BY <1>3, <1>4, <1>5

(* A new waiter is counted in.                                             *)
LEMMA CondWaitInv ==
  ASSUME IInv, NEW t \in Threads, CondWait(t)
  PROVE  IInv'
<1> USE DEF IInv
<1>1. /\ Goto(t, "entry") /\ pc[t] = "critical" /\ mutex = t /\ mutex' = None
      /\ fWaitCount' = fWaitCount + 1 /\ passed' = passed
      /\ IF fEntryGate = "null"
         THEN fEntryGate' = "closed" /\ fExitGate' = "open"
         ELSE UNCHANGED <<fEntryGate, fExitGate>>
  BY DEF CondWait, MutexHeld
<1>2. /\ pc' \in [Threads -> Loc]
      /\ \A u \in Threads : pc'[u] = IF u = t THEN "entry" ELSE pc[u]
  BY <1>1, GotoFact DEF Loc
<1>3. Counted' = Counted \cup {t} /\ t \notin Counted
  BY <1>1, <1>2 DEF Counted
<1>4. WaitCountExact'
  <2>1. Cardinality(Counted \cup {t}) = Cardinality(Counted) + 1
    BY <1>3, CountedFinite, FS_AddElement
  <2>2. QED
    BY <1>1, <1>3, <2>1 DEF WaitCountExact
<1>5. TypeOK'
  BY <1>1, <1>2 DEF TypeOK, Gate
<1>6. NobodyTrapped'
  BY <1>1, <1>2, <1>3 DEF NobodyTrapped
<1>7. MutexHeld'
  BY <1>1, <1>2, CondAssumption DEF MutexHeld
<1>8. PassedStillInside'
  BY <1>1, <1>2 DEF PassedStillInside, TypeOK
<1>9. QED
  BY <1>4, <1>5, <1>6, <1>7, <1>8

LEMMA PassEntryInv ==
  ASSUME IInv, NEW t \in Threads, PassEntry(t)
  PROVE  IInv'
<1> USE DEF IInv
<1>1. /\ Goto(t, "entrylock") /\ pc[t] = "entry" /\ fEntryGate = "open"
      /\ passed' = passed \cup {t}
      /\ UNCHANGED <<mutex, fWaitCount, fEntryGate, fExitGate>>
  BY DEF PassEntry
<1>2. /\ pc' \in [Threads -> Loc]
      /\ \A u \in Threads : pc'[u] = IF u = t THEN "entrylock" ELSE pc[u]
  BY <1>1, GotoFact DEF Loc
<1>3. Counted' = Counted
  BY <1>1, <1>2 DEF Counted
<1>4. TypeOK' /\ WaitCountExact'
  BY <1>1, <1>2, <1>3 DEF TypeOK, WaitCountExact
<1>5. NobodyTrapped'
  BY <1>1, <1>2, <1>3 DEF NobodyTrapped
<1>6. MutexHeld'
  BY <1>1, <1>2 DEF MutexHeld
<1>7. PassedStillInside'
  BY <1>1, <1>2 DEF PassedStillInside, TypeOK
<1>8. QED
  BY <1>4, <1>5, <1>6, <1>7

(* The last thread to be counted out leaves nobody at or past the entry    *)
(* gate; otherwise somebody is still to come.                              *)
LEMMA CountOutInv ==
  ASSUME IInv, NEW t \in Threads, CountOut(t)
  PROVE  IInv'
<1> USE DEF IInv
<1>1. /\ pc[t] = "entrylock" /\ mutex = None /\ passed' = passed
      /\ fWaitCount' = fWaitCount - 1 /\ fEntryGate = "open" /\ fExitGate = "closed"
  BY DEF CountOut, NobodyTrapped
<1>2. PICK l \in {"critical", "exit"} :
        /\ Goto(t, l)
        /\ l = "critical" => /\ fWaitCount' = 0 /\ mutex' = t
                             /\ fEntryGate' = "closed" /\ fExitGate' = "open"
        /\ l = "exit" => fWaitCount' # 0 /\ UNCHANGED <<mutex, fEntryGate, fExitGate>>
  BY DEF CountOut
<1>3. /\ pc' \in [Threads -> Loc]
      /\ \A u \in Threads : pc'[u] = IF u = t THEN l ELSE pc[u]
  BY <1>2, GotoFact DEF Loc
<1>4. Counted' = Counted \ {t} /\ t \in Counted
  BY <1>1, <1>3 DEF Counted
<1>5. /\ WaitCountExact'
      /\ fWaitCount' = 0 <=> Counted' = {}
  <2>1. IsFiniteSet(Counted \ {t}) /\ Cardinality(Counted \ {t}) = Cardinality(Counted) - 1
    BY <1>4, CountedFinite, FS_RemoveElement
  <2>2. Cardinality(Counted \ {t}) = 0 <=> Counted \ {t} = {}
    BY <2>1, FS_EmptySet
  <2>3. QED
    BY <1>1, <1>4, <2>1, <2>2 DEF WaitCountExact
<1>6. TypeOK'
  BY <1>1, <1>2, <1>3 DEF TypeOK, Gate
<1>7. NobodyTrapped'
  <2>1. \A u \in Threads : pc'[u] \in {"entry", "entrylock"} => u \in Counted'
    BY <1>3 DEF Counted
  <2>2. QED
    BY <1>1, <1>2, <1>3, <1>5, <2>1 DEF NobodyTrapped
<1>8. MutexHeld'
  BY <1>1, <1>2, <1>3, CondAssumption DEF MutexHeld
<1>9. PassedStillInside'
  BY <1>1, <1>2, <1>3 DEF PassedStillInside, TypeOK
<1>10. QED
  BY <1>5, <1>6, <1>7, <1>8, <1>9

LEMMA PassExitInv ==
  ASSUME IInv, NEW t \in Threads, PassExit(t)
  PROVE  IInv'
<1> USE DEF IInv
<1>1. /\ Goto(t, "exitlock") /\ pc[t] = "exit" /\ fExitGate = "open"
      /\ UNCHANGED <<mutex, fWaitCount, fEntryGate, fExitGate, passed>>
  BY DEF PassExit
<1>2. /\ pc' \in [Threads -> Loc]
      /\ \A u \in Threads : pc'[u] = IF u = t THEN "exitlock" ELSE pc[u]
  BY <1>1, GotoFact DEF Loc
<1>3. Counted' = Counted
  BY <1>1, <1>2 DEF Counted
<1>4. TypeOK' /\ WaitCountExact'
  BY <1>1, <1>2, <1>3 DEF TypeOK, WaitCountExact
<1>5. NobodyTrapped' /\ MutexHeld'
  BY <1>1, <1>2, <1>3 DEF NobodyTrapped, MutexHeld
<1>6. PassedStillInside'
  BY <1>1, <1>2 DEF PassedStillInside, NobodyTrapped, TypeOK
<1>7. QED
  BY <1>4, <1>5, <1>6

LEMMA InitInv ==
  Init => IInv
<1> SUFFICES ASSUME Init PROVE IInv
  OBVIOUS
<1>1. Counted = {}
  BY DEF Init, Counted
<1>2. WaitCountExact
  BY <1>1, FS_EmptySet DEF Init, WaitCountExact
<1>3. TypeOK /\ NobodyTrapped /\ MutexHeld /\ PassedStillInside
  BY <1>1, CondAssumption DEF Init, TypeOK, Loc, Gate, NobodyTrapped, MutexHeld, PassedStillInside
<1>4. QED
  BY <1>2, <1>3 DEF IInv

LEMMA NextInv ==
  IInv /\ [Next]_vars => IInv'
<1> SUFFICES ASSUME IInv, [Next]_vars PROVE IInv'
  OBVIOUS
<1>1. CASE UNCHANGED vars
  BY <1>1 DEF vars, IInv, TypeOK, WaitCountExact, Counted, NobodyTrapped, MutexHeld,
              PassedStillInside
<1>2. QED
  BY <1>1, TakeInv, UnlockInv, CondBroadcastInv, CondWaitInv, PassEntryInv, CountOutInv,
     PassExitInv DEF Next

(* The inductive invariant of umtx_condWait and umtx_condBroadcast.        *)
THEOREM InvariantTheorem == Spec => []IInv
  BY InitInv, NextInv, PTL DEF Spec

(* fWaitCount counts exactly the threads at or past the entry gate that    *)
(* have not counted themselves out (umtx_condWait).                        *)
THEOREM WaitCountTheorem == Spec => []WaitCountExact
<1>1. IInv => WaitCountExact
  BY DEF IInv
<1>2. QED
  BY <1>1, InvariantTheorem, PTL

(* No waiter is ever caught between two shut gates (umtx_condWait,         *)
(* umtx_condBroadcast).                                                    *)
THEOREM NobodyTrappedTheorem == Spec => []NobodyTrapped
<1>1. IInv => NobodyTrapped
  BY DEF IInv
<1>2. QED
  BY <1>1, InvariantTheorem, PTL

(* One broadcast lets a thread through the entry gate at most once         *)
(* (umtx_condBroadcast).                                                   *)
THEOREM WokenOnceTheorem == Spec => []WokenOncePerBroadcast
<1>1. IInv => WokenOncePerBroadcast
  BY DEF IInv, PassedStillInside, WokenOncePerBroadcast
<1>2. QED
  BY <1>1, InvariantTheorem, PTL
=============================================================================
