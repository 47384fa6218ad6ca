-------------------------- MODULE UInitOnceProofs ---------------------------
(***************************************************************************)
(* Proofs about umtx_initOnce, for any number of threads and once-controls *)
(* and for both builds: the inductive invariant IInv, the two safety       *)
(* properties it implies, and that UInitOnce implements OnceSpec.          *)
(***************************************************************************)
EXTENDS UInitOnce, TLAPS

(* Moving one call changes one location, and keeps pc a table of           *)
(* locations.                                                              *)
LEMMA GotoFact ==
  ASSUME TypeOK, NEW t \in Threads, NEW o \in Onces, NEW l \in PC, Goto(t, o, l)
  PROVE  /\ pc' \in [Threads -> [Onces -> PC]]
         /\ \A u \in Threads, p \in Onces :
              pc'[u][p] = IF u = t /\ p = o THEN l ELSE pc[u][p]
  BY DEF TypeOK, Goto

(* The innermost call of a thread is the least deep one, and the only one  *)
(* that is not inside its initialiser.                                     *)
LEMMA InnermostFact ==
  ASSUME StackInv, TypeOK, NEW t \in Threads, NEW o \in Onces,
         Active(t, o), \A d \in Uses[o] : pc[t][d] = "idle"
  PROVE  \A p \in Onces : Active(t, p) /\ p # o =>
           /\ Depth[o] < Depth[p]
           /\ pc[t][p] = "init"
           /\ \E d \in Uses[p] : pc[t][d] # "idle"
<1> SUFFICES ASSUME NEW p \in Onces, Active(t, p), p # o
             PROVE  /\ Depth[o] < Depth[p]
                    /\ pc[t][p] = "init"
                    /\ \E d \in Uses[p] : pc[t][d] # "idle"
  OBVIOUS
<1>1. Depth[o] \in Nat /\ Depth[p] \in Nat /\ Depth[o] # Depth[p]
  BY OnceAssumption DEF StackInv
<1>2. ~(Depth[p] < Depth[o])
  BY DEF StackInv, Active
<1>3. Depth[o] < Depth[p]
  BY <1>1, <1>2
<1>4. QED
  BY <1>3 DEF StackInv, Active

(* The innermost call of a thread can move to any other location without   *)
(* disturbing the chain of its calls.                                      *)
LEMMA MoveKeepsStack ==
  ASSUME StackInv, TypeOK, NEW t \in Threads, NEW o \in Onces, NEW l0 \in PC, NEW l \in PC,
         l0 # "idle", At(t, o, l0), Goto(t, o, l)
  PROVE  StackInv'
<1>1. \A u \in Threads, p \in Onces : pc'[u][p] = IF u = t /\ p = o THEN l ELSE pc[u][p]
  BY GotoFact
<1>2. \A p \in Onces : Active(t, p) /\ p # o =>
           /\ Depth[o] < Depth[p]
           /\ pc[t][p] = "init"
           /\ \E d \in Uses[p] : pc[t][d] # "idle"
  BY InnermostFact DEF At, Active
<1>3. SUFFICES ASSUME NEW u \in Threads, NEW p \in Onces, NEW q \in Onces,
                      Active(u, p)', Active(u, q)', p # q
               PROVE  /\ Depth[p] # Depth[q]
                      /\ Depth[q] < Depth[p] =>
                           /\ pc'[u][p] = "init"
                           /\ \E d \in Uses[p] : Active(u, d)' /\ Depth[q] <= Depth[d]
  BY DEF StackInv
<1>4. Active(u, p) /\ Active(u, q)
  BY <1>1, <1>3 DEF Active, At
<1>5. CASE u # t
  BY <1>1, <1>4, <1>5, <1>3, OnceAssumption DEF StackInv, Active
<1>6. CASE u = t
  <2>1. Depth[p] # Depth[q]
    BY <1>3, <1>4, <1>6 DEF StackInv
  <2>2. ASSUME Depth[q] < Depth[p]
        PROVE  pc'[u][p] = "init" /\ \E d \in Uses[p] : Active(u, d)' /\ Depth[q] <= Depth[d]
    <3>1. p # o
      BY <1>2, <1>4, <1>6, <2>2, <1>3, OnceAssumption
    <3>2. pc'[u][p] = "init"
      BY <1>1, <1>2, <1>4, <1>6, <3>1
    <3>3. PICK d \in Uses[p] : Active(u, d) /\ Depth[q] <= Depth[d]
      BY <1>3, <1>4, <2>2 DEF StackInv
    <3>4. d \in Onces
      BY OnceAssumption
    <3>5. CASE l # "idle"
      BY <1>1, <3>2, <3>3, <3>4, <3>5 DEF Active
    <3>6. CASE l = "idle"
      <4>1. q # o
        BY <1>1, <1>3, <1>6, <3>6 DEF Active
      <4>2. Depth[o] < Depth[q]
        BY <1>2, <1>4, <1>6, <4>1
      <4>3. d # o
        BY <3>3, <4>2, OnceAssumption
      <4>4. QED
        BY <1>1, <3>2, <3>3, <3>4, <4>3 DEF Active
    <3>7. QED
      BY <3>5, <3>6
  <2>3. QED
    BY <2>1, <2>2
<1>7. QED
  BY <1>5, <1>6

(* A nested call becomes the new innermost call.                           *)
LEMMA NestedKeepsStack ==
  ASSUME StackInv, TypeOK, NEW t \in Threads, NEW o \in Onces, NEW d \in Uses[o],
         At(t, o, "init"), Goto(t, d, "load")
  PROVE  StackInv'
<1>0. d \in Onces /\ Depth[d] < Depth[o]
  BY OnceAssumption
<1>1. \A u \in Threads, p \in Onces : pc'[u][p] = IF u = t /\ p = d THEN "load" ELSE pc[u][p]
  BY <1>0, GotoFact DEF PC
<1>2. \A p \in Onces : Active(t, p) /\ p # o => Depth[o] < Depth[p] /\ pc[t][p] = "init"
  BY InnermostFact DEF At, Active
<1>3. SUFFICES ASSUME NEW u \in Threads, NEW p \in Onces, NEW q \in Onces,
                      Active(u, p)', Active(u, q)', p # q
               PROVE  /\ Depth[p] # Depth[q]
                      /\ Depth[q] < Depth[p] =>
                           /\ pc'[u][p] = "init"
                           /\ \E e \in Uses[p] : Active(u, e)' /\ Depth[q] <= Depth[e]
  BY DEF StackInv
<1>4. CASE u # t
  BY <1>1, <1>3, <1>4, OnceAssumption DEF StackInv, Active
<1>5. CASE u = t /\ p # d /\ q # d
  <2>1. Active(u, p) /\ Active(u, q)
    BY <1>1, <1>3, <1>5 DEF Active
  <2>2. \A e \in Onces : Active(u, e) => Active(u, e)'
    BY <1>1 DEF Active
  <2>3. pc'[u][p] = pc[u][p]
    BY <1>1, <1>5
  <2>4. QED
    BY <1>3, <2>1, <2>2, <2>3, OnceAssumption DEF StackInv
<1>6. CASE u = t /\ p = d
  \* everything else that is active is deeper than d
  BY <1>0, <1>1, <1>2, <1>3, <1>6, OnceAssumption DEF Active, At
<1>7. CASE u = t /\ q = d /\ p = o
  BY <1>0, <1>1, <1>3, <1>7, OnceAssumption DEF Active, At
<1>8. CASE u = t /\ q = d /\ p # o
  <2>1. Active(t, p) /\ p # d /\ Active(t, o) /\ Depth[o] < Depth[p] /\ pc[t][p] = "init"
    BY <1>1, <1>2, <1>3, <1>8 DEF Active, At
  <2>2. PICK e \in Uses[p] : Active(t, e) /\ Depth[o] <= Depth[e]
    BY <2>1, <1>8 DEF StackInv
  <2>3. e \in Onces /\ Active(t, e)' /\ Depth[d] <= Depth[e]
    BY <1>0, <1>1, <2>2, OnceAssumption DEF Active
  <2>4. QED
    BY <1>0, <1>1, <1>8, <2>1, <2>2, <2>3, OnceAssumption
<1>9. QED
  BY <1>4, <1>5, <1>6, <1>7, <1>8

(* A thread whose innermost call moves has no other call outside its       *)
(* initialiser.                                                            *)
LEMMA OnlyInnermostMoves ==
  ASSUME StackInv, TypeOK, NEW t \in Threads, NEW o \in Onces, NEW l \in PC,
         l # "idle", At(t, o, l)
  PROVE  \A p \in Onces : p # o => pc[t][p] \in {"idle", "init"}
  BY InnermostFact DEF At, Active

(* A step that neither starts nor ends an initialiser, and leaves fState   *)
(* alone.                                                                  *)
LEMMA SameRunners ==
  ASSUME OneInitialiser, fState' = fState,
         \A u \in Threads, p \in Onces : Running(u, p)' <=> Running(u, p)
  PROVE  OneInitialiser'
  BY DEF OneInitialiser

(* The fast-path test of fState preserves the invariant.                   *)
LEMMA LoadAcquireInv ==
  ASSUME IInv, NEW t \in Threads, NEW o \in Onces, LoadAcquire(t, o)
  PROVE  IInv'
<1> USE DEF IInv
<1>1. PICK l \in {"check", "cas", "prelock"} :
        /\ At(t, o, "load") /\ Goto(t, o, l) /\ pc[t][o] = "load"
        /\ l = "check" => fState[o] = 2
        /\ l = "cas" => Platform = "win32"
        /\ l = "prelock" => Platform = "posix"
  BY OnceAssumption DEF LoadAcquire, At
<1>2. \A p \in Onces : p # o => pc[t][p] \in {"idle", "init"}
  BY <1>1, OnlyInnermostMoves DEF PC
<1>3. /\ pc' \in [Threads -> [Onces -> PC]]
      /\ \A u \in Threads, p \in Onces :
           pc'[u][p] = IF u = t /\ p = o THEN l ELSE pc[u][p]
  BY <1>1, GotoFact DEF PC
<1>4. /\ UNCHANGED <<todo, err, fState, fErrCode, built, initMutex>>
  BY DEF LoadAcquire, TypeOK
<1>5. TypeOK'
  BY <1>3, <1>4 DEF LoadAcquire, TypeOK
<1>6. StackInv'
  BY <1>1, MoveKeepsStack DEF PC
<1>7. MutexInv'
  BY <1>1, <1>2, <1>3, <1>4 DEF MutexInv
<1>8. BuildInv'
  BY <1>1, <1>3 DEF BuildInv
<1>9. OneInitialiser'
  <2>1. \A u \in Threads, p \in Onces : Running(u, p)' <=> Running(u, p)
    BY <1>1, <1>3 DEF Running
  <2>2. QED
    BY <1>4, <2>1, SameRunners
<1>10. StateInv'
  BY <1>1, <1>2, <1>3, <1>4 DEF StateInv, Outcome
<1>11. QED
  BY <1>5, <1>6, <1>7, <1>8, <1>9, <1>10

(* Taking the mutex, first or again after a wait.                          *)
LEMMA PreLockInv ==
  ASSUME IInv, NEW t \in Threads, NEW o \in Onces, PreLock(t, o)
  PROVE  IInv'
<1> USE DEF IInv
<1>1. PICK f \in {"prelock", "relock"}, l \in {"pretest", "retest"} :
        /\ At(t, o, f) /\ Goto(t, o, l) /\ pc[t][o] = f
        /\ l = "retest" <=> f = "relock"
  BY DEF PreLock, At
<1>2. \A p \in Onces : p # o => pc[t][p] \in {"idle", "init"}
  BY <1>1, OnlyInnermostMoves DEF PC
<1>3. /\ pc' \in [Threads -> [Onces -> PC]]
      /\ \A u \in Threads, p \in Onces :
           pc'[u][p] = IF u = t /\ p = o THEN l ELSE pc[u][p]
  BY <1>1, GotoFact DEF PC
<1>4. /\ initMutex = None /\ initMutex' = t
      /\ UNCHANGED <<todo, err, fState, fErrCode, built>>
  BY DEF PreLock, TypeOK, Lock
<1>5. TypeOK'
  BY <1>3, <1>4 DEF PreLock, TypeOK, Lock
<1>6. StackInv'
  BY <1>1, MoveKeepsStack DEF PC
<1>7. MutexInv'
  BY <1>1, <1>2, <1>3, <1>4, OnceAssumption DEF MutexInv
<1>8. BuildInv'
  BY <1>1, <1>3 DEF BuildInv
<1>9. OneInitialiser'
  <2>1. \A u \in Threads, p \in Onces : Running(u, p)' <=> Running(u, p)
    BY <1>1, <1>3 DEF Running
  <2>2. QED
    BY <1>4, <2>1, SameRunners
<1>10. StateInv'
  BY <1>1, <1>2, <1>3, <1>4 DEF StateInv, Outcome
<1>11. QED
  BY <1>5, <1>6, <1>7, <1>8, <1>9, <1>10

(* The locked test of fState.                                             *)
LEMMA PreTestInv ==
  ASSUME IInv, NEW t \in Threads, NEW o \in Onces, PreTest(t, o)
  PROVE  IInv'
<1> USE DEF IInv
<1>1. PICK l \in {"prestore", "retest"} :
        /\ At(t, o, "pretest") /\ Goto(t, o, l) /\ pc[t][o] = "pretest"
        /\ l = "prestore" <=> fState[o] = 0
  BY DEF PreTest, At
<1>2. \A p \in Onces : p # o => pc[t][p] \in {"idle", "init"}
  BY <1>1, OnlyInnermostMoves DEF PC
<1>3. /\ pc' \in [Threads -> [Onces -> PC]]
      /\ \A u \in Threads, p \in Onces :
           pc'[u][p] = IF u = t /\ p = o THEN l ELSE pc[u][p]
  BY <1>1, GotoFact DEF PC
<1>4. /\ UNCHANGED <<todo, err, fState, fErrCode, built, initMutex>>
  BY DEF PreTest, TypeOK
<1>5. TypeOK'
  BY <1>3, <1>4 DEF PreTest, TypeOK
<1>6. StackInv'
  BY <1>1, MoveKeepsStack DEF PC
<1>7. MutexInv'
  BY <1>1, <1>2, <1>3, <1>4 DEF MutexInv
<1>8. BuildInv'
  BY <1>1, <1>3 DEF BuildInv
<1>9. OneInitialiser'
  <2>1. \A u \in Threads, p \in Onces : Running(u, p)' <=> Running(u, p)
    BY <1>1, <1>3 DEF Running
  <2>2. QED
    BY <1>4, <2>1, SameRunners
<1>10. StateInv'
  BY <1>1, <1>2, <1>3, <1>4 DEF StateInv, Outcome
<1>11. QED
  BY <1>5, <1>6, <1>7, <1>8, <1>9, <1>10

(* Starting the initialiser under the mutex.                               *)
LEMMA PreStoreInv ==
  ASSUME IInv, NEW t \in Threads, NEW o \in Onces, PreStore(t, o)
  PROVE  IInv'
<1> USE DEF IInv
<1>1. /\ At(t, o, "prestore") /\ Goto(t, o, "init")
      /\ pc[t][o] = "prestore" /\ fState[o] = 0 /\ initMutex = t
  BY DEF PreStore, StartInit, At, StateInv, MutexInv
<1>2. \A p \in Onces : p # o => pc[t][p] \in {"idle", "init"}
  BY <1>1, OnlyInnermostMoves DEF PC
<1>3. /\ pc' \in [Threads -> [Onces -> PC]]
      /\ \A u \in Threads, p \in Onces :
           pc'[u][p] = IF u = t /\ p = o THEN "init" ELSE pc[u][p]
  BY <1>1, GotoFact DEF PC
<1>4. /\ \A p \in Onces : fState'[p] = IF p = o THEN 1 ELSE fState[p]
      /\ \A p \in Onces : built'[p] = IF p = o THEN "partial" ELSE built[p]
      /\ initMutex = t /\ initMutex' = None
      /\ todo' \in [Threads -> [Onces -> SUBSET Onces]]
      /\ UNCHANGED <<err, fErrCode>>
  BY OnceAssumption DEF PreStore, TypeOK, StartInit, Unlock
<1>5. \A u \in Threads : ~Running(u, o) /\ (u # t => pc[u][o] # "prestore")
  BY <1>1 DEF OneInitialiser, MutexInv
<1>6. TypeOK'
  BY <1>3, <1>4 DEF PreStore, TypeOK, StartInit, Unlock
<1>7. StackInv'
  BY <1>1, MoveKeepsStack DEF PC
<1>8. MutexInv'
  BY <1>1, <1>2, <1>3, <1>4, OnceAssumption DEF MutexInv
<1>9. BuildInv'
  BY <1>1, <1>3 DEF BuildInv
<1>10. OneInitialiser'
  <2>1. \A u \in Threads : ~Running(u, o)
    BY <1>1 DEF OneInitialiser
  <2>2. \A u \in Threads, p \in Onces :
          Running(u, p)' <=> Running(u, p) \/ (u = t /\ p = o)
    BY <1>3 DEF Running
  <2>3. QED
    BY <1>4, <2>1, <2>2 DEF OneInitialiser
<1>11. StateInv'
  <2>1. /\ fState'[o] = 1
        /\ \A u \in Threads : pc'[u][o] \notin {"prestore", "check", "postbcast", "return",
                                            "record", "postlock", "poststore"}
    BY <1>1, <1>3, <1>4, <1>5 DEF StateInv, Running
  <2>2. \A p \in Onces : fState'[p] = 2 => built'[p] = Outcome(fErrCode'[p])
    BY <1>3, <1>4, <2>1 DEF StateInv
  <2>3. ASSUME NEW u \in Threads, NEW p \in Onces
       PROVE  /\ pc'[u][p] = "prestore" => fState'[p] = 0
              /\ pc'[u][p] \in {"waiting", "relock", "retest"} => fState'[p] # 0
              /\ pc'[u][p] \in {"check", "postbcast", "return"} => fState'[p] = 2
              /\ pc'[u][p] \in {"record", "postlock", "poststore"} =>
                   built'[p] = Outcome(err'[u])
              /\ pc'[u][p] \in {"postlock", "poststore", "postbcast", "return"} =>
                   fErrCode'[p] = err'[u]
    <3>1. CASE p = o
      BY <1>3, <1>4, <2>1, <3>1
    <3>2. CASE p # o
      BY <1>3, <1>4, <2>1, <3>2 DEF StateInv
    <3>3. QED
      BY <3>1, <3>2
  <2>4. QED
    BY <2>2, <2>3 DEF StateInv
<1>12. QED
  BY <1>6, <1>7, <1>8, <1>9, <1>10, <1>11

(* The test in the loop around the condition wait.                         *)
LEMMA RetestInv ==
  ASSUME IInv, NEW t \in Threads, NEW o \in Onces, Retest(t, o)
  PROVE  IInv'
<1> USE DEF IInv
<1>1. PICK l \in {"waiting", "check"} :
        /\ At(t, o, "retest") /\ Goto(t, o, l) /\ pc[t][o] = "retest"
        /\ l = "waiting" <=> fState[o] = 1
        /\ fState[o] \in {1, 2}
  BY DEF Retest, At, StateInv, TypeOK
<1>2. \A p \in Onces : p # o => pc[t][p] \in {"idle", "init"}
  BY <1>1, OnlyInnermostMoves DEF PC
<1>3. /\ pc' \in [Threads -> [Onces -> PC]]
      /\ \A u \in Threads, p \in Onces :
           pc'[u][p] = IF u = t /\ p = o THEN l ELSE pc[u][p]
  BY <1>1, GotoFact DEF PC
<1>4. /\ initMutex = t /\ initMutex' = None
      /\ UNCHANGED <<todo, err, fState, fErrCode, built>>
  BY DEF Retest, TypeOK, Unlock
<1>5. TypeOK'
  BY <1>3, <1>4 DEF Retest, TypeOK, Unlock
<1>6. StackInv'
  BY <1>1, MoveKeepsStack DEF PC
<1>7. MutexInv'
  BY <1>1, <1>2, <1>3, <1>4, OnceAssumption DEF MutexInv
<1>8. BuildInv'
  BY <1>1, <1>3 DEF BuildInv
<1>9. OneInitialiser'
  <2>1. \A u \in Threads, p \in Onces : Running(u, p)' <=> Running(u, p)
    BY <1>1, <1>3 DEF Running
  <2>2. QED
    BY <1>4, <2>1, SameRunners
<1>10. StateInv'
  BY <1>1, <1>2, <1>3, <1>4 DEF StateInv, Outcome
<1>11. QED
  BY <1>5, <1>6, <1>7, <1>8, <1>9, <1>10

(* Waking without a broadcast.                                             *)
LEMMA SpuriousWakeupInv ==
  ASSUME IInv, NEW t \in Threads, NEW o \in Onces, SpuriousWakeup(t, o)
  PROVE  IInv'
<1> USE DEF IInv
<1>1. At(t, o, "waiting") /\ Goto(t, o, "relock") /\ pc[t][o] = "waiting"
  BY DEF SpuriousWakeup, At
<1>2. \A p \in Onces : p # o => pc[t][p] \in {"idle", "init"}
  BY <1>1, OnlyInnermostMoves DEF PC
<1>3. /\ pc' \in [Threads -> [Onces -> PC]]
      /\ \A u \in Threads, p \in Onces :
           pc'[u][p] = IF u = t /\ p = o THEN "relock" ELSE pc[u][p]
  BY <1>1, GotoFact DEF PC
<1>4. /\ UNCHANGED <<todo, err, fState, fErrCode, built, initMutex>>
  BY DEF SpuriousWakeup, TypeOK
<1>5. TypeOK'
  BY <1>3, <1>4 DEF SpuriousWakeup, TypeOK
<1>6. StackInv'
  BY <1>1, MoveKeepsStack DEF PC
<1>7. MutexInv'
  BY <1>1, <1>2, <1>3, <1>4 DEF MutexInv
<1>8. BuildInv'
  BY <1>1, <1>3 DEF BuildInv
<1>9. OneInitialiser'
  <2>1. \A u \in Threads, p \in Onces : Running(u, p)' <=> Running(u, p)
    BY <1>1, <1>3 DEF Running
  <2>2. QED
    BY <1>4, <2>1, SameRunners
<1>10. StateInv'
  BY <1>1, <1>2, <1>3, <1>4 DEF StateInv, Outcome
<1>11. QED
  BY <1>5, <1>6, <1>7, <1>8, <1>9, <1>10

(* Leaving the sleep loop of the interlocked build.                        *)
LEMMA SleepLoopInv ==
  ASSUME IInv, NEW t \in Threads, NEW o \in Onces, SleepLoop(t, o)
  PROVE  IInv'
<1> USE DEF IInv
<1>1. At(t, o, "sleep") /\ Goto(t, o, "cas") /\ pc[t][o] = "sleep"
  BY DEF SleepLoop, At
<1>2. \A p \in Onces : p # o => pc[t][p] \in {"idle", "init"}
  BY <1>1, OnlyInnermostMoves DEF PC
<1>3. /\ pc' \in [Threads -> [Onces -> PC]]
      /\ \A u \in Threads, p \in Onces :
           pc'[u][p] = IF u = t /\ p = o THEN "cas" ELSE pc[u][p]
  BY <1>1, GotoFact DEF PC
<1>4. /\ UNCHANGED <<todo, err, fState, fErrCode, built, initMutex>>
  BY DEF SleepLoop, TypeOK
<1>5. TypeOK'
  BY <1>3, <1>4 DEF SleepLoop, TypeOK
<1>6. StackInv'
  BY <1>1, MoveKeepsStack DEF PC
<1>7. MutexInv'
  BY <1>1, <1>2, <1>3, <1>4 DEF MutexInv
<1>8. BuildInv'
  BY <1>1, <1>3 DEF BuildInv
<1>9. OneInitialiser'
  <2>1. \A u \in Threads, p \in Onces : Running(u, p)' <=> Running(u, p)
    BY <1>1, <1>3 DEF Running
  <2>2. QED
    BY <1>4, <2>1, SameRunners
<1>10. StateInv'
  BY <1>1, <1>2, <1>3, <1>4 DEF StateInv, Outcome
<1>11. QED
  BY <1>5, <1>6, <1>7, <1>8, <1>9, <1>10

(* The initialiser returns.                                                *)
LEMMA FinishInitInv ==
  ASSUME IInv, NEW t \in Threads, NEW o \in Onces, FinishInit(t, o)
  PROVE  IInv'
<1> USE DEF IInv
<1>1. At(t, o, "init") /\ Goto(t, o, "record") /\ pc[t][o] = "init"
  BY DEF FinishInit, At
<1>2. \A p \in Onces : p # o => pc[t][p] \in {"idle", "init"}
  BY <1>1, OnlyInnermostMoves DEF PC
<1>3. /\ pc' \in [Threads -> [Onces -> PC]]
      /\ \A u \in Threads, p \in Onces :
           pc'[u][p] = IF u = t /\ p = o THEN "record" ELSE pc[u][p]
  BY <1>1, GotoFact DEF PC
<1>4. /\ \A u \in Threads : err'[u] \in {"ok", "fail"} /\ (u # t => err'[u] = err[u])
      /\ \A p \in Onces : built'[p] = IF p = o THEN Outcome(err'[t]) ELSE built[p]
      /\ UNCHANGED <<todo, fState, fErrCode, initMutex>>
  BY DEF FinishInit, TypeOK, Outcome
<1>5. fState[o] = 1 /\ \A u \in Threads : u # t => ~Running(u, o)
  BY <1>1 DEF OneInitialiser, Running
<1>6. TypeOK'
  BY <1>3, <1>4 DEF FinishInit, TypeOK, Outcome
<1>7. StackInv'
  BY <1>1, MoveKeepsStack DEF PC
<1>8. MutexInv'
  BY <1>1, <1>2, <1>3, <1>4 DEF MutexInv
<1>9. BuildInv'
  BY <1>1, <1>3 DEF BuildInv
<1>10. OneInitialiser'
  <2>1. \A u \in Threads, p \in Onces : Running(u, p)' <=> Running(u, p)
    BY <1>1, <1>3 DEF Running
  <2>2. QED
    BY <1>4, <2>1, SameRunners
<1>11. StateInv'
  BY <1>1, <1>2, <1>3, <1>4, <1>5 DEF StateInv, Running
<1>12. QED
  BY <1>6, <1>7, <1>8, <1>9, <1>10, <1>11

(* Recording the error code.                                               *)
LEMMA RecordErrorInv ==
  ASSUME IInv, NEW t \in Threads, NEW o \in Onces, RecordError(t, o)
  PROVE  IInv'
<1> USE DEF IInv
<1>1. PICK l \in {"postlock", "poststore"} :
        /\ At(t, o, "record") /\ Goto(t, o, l) /\ pc[t][o] = "record"
        /\ l = "postlock" <=> Platform = "posix"
  BY OnceAssumption DEF RecordError, At
<1>2. \A p \in Onces : p # o => pc[t][p] \in {"idle", "init"}
  BY <1>1, OnlyInnermostMoves DEF PC
<1>3. /\ pc' \in [Threads -> [Onces -> PC]]
      /\ \A u \in Threads, p \in Onces :
           pc'[u][p] = IF u = t /\ p = o THEN l ELSE pc[u][p]
  BY <1>1, GotoFact DEF PC
<1>4. /\ \A p \in Onces : fErrCode'[p] = IF p = o THEN err[t] ELSE fErrCode[p]
      /\ UNCHANGED <<todo, err, fState, built, initMutex>>
  BY DEF RecordError, TypeOK
<1>5. fState[o] = 1 /\ \A u \in Threads : u # t => ~Running(u, o)
  BY <1>1 DEF OneInitialiser, Running
<1>6. TypeOK'
  BY <1>3, <1>4 DEF RecordError, TypeOK
<1>7. StackInv'
  BY <1>1, MoveKeepsStack DEF PC
<1>8. MutexInv'
  BY <1>1, <1>2, <1>3, <1>4 DEF MutexInv
<1>9. BuildInv'
  BY <1>1, <1>3 DEF BuildInv
<1>10. OneInitialiser'
  <2>1. \A u \in Threads, p \in Onces : Running(u, p)' <=> Running(u, p)
    BY <1>1, <1>3 DEF Running
  <2>2. QED
    BY <1>4, <2>1, SameRunners
<1>11. StateInv'
  BY <1>1, <1>2, <1>3, <1>4, <1>5 DEF StateInv, Running
<1>12. QED
  BY <1>6, <1>7, <1>8, <1>9, <1>10, <1>11

(* Taking the mutex to publish.                                            *)
LEMMA PostLockInv ==
  ASSUME IInv, NEW t \in Threads, NEW o \in Onces, PostLock(t, o)
  PROVE  IInv'
<1> USE DEF IInv
<1>1. At(t, o, "postlock") /\ Goto(t, o, "poststore") /\ pc[t][o] = "postlock"
  BY DEF PostLock, At
<1>2. \A p \in Onces : p # o => pc[t][p] \in {"idle", "init"}
  BY <1>1, OnlyInnermostMoves DEF PC
<1>3. /\ pc' \in [Threads -> [Onces -> PC]]
      /\ \A u \in Threads, p \in Onces :
           pc'[u][p] = IF u = t /\ p = o THEN "poststore" ELSE pc[u][p]
  BY <1>1, GotoFact DEF PC
<1>4. /\ initMutex = None /\ initMutex' = t
      /\ UNCHANGED <<todo, err, fState, fErrCode, built>>
  BY DEF PostLock, TypeOK, Lock
<1>5. TypeOK'
  BY <1>3, <1>4 DEF PostLock, TypeOK, Lock
<1>6. StackInv'
  BY <1>1, MoveKeepsStack DEF PC
<1>7. MutexInv'
  BY <1>1, <1>2, <1>3, <1>4, OnceAssumption DEF MutexInv
<1>8. BuildInv'
  BY <1>1, <1>3 DEF BuildInv
<1>9. OneInitialiser'
  <2>1. \A u \in Threads, p \in Onces : Running(u, p)' <=> Running(u, p)
    BY <1>1, <1>3 DEF Running
  <2>2. QED
    BY <1>4, <2>1, SameRunners
<1>10. StateInv'
  BY <1>1, <1>2, <1>3, <1>4 DEF StateInv, Outcome
<1>11. QED
  BY <1>5, <1>6, <1>7, <1>8, <1>9, <1>10

(* Publishing the end of the initialiser.                                  *)
LEMMA PostStoreInv ==
  ASSUME IInv, NEW t \in Threads, NEW o \in Onces, PostStore(t, o)
  PROVE  IInv'
<1> USE DEF IInv
<1>1. PICK l \in {"return", "postbcast"} :
        /\ At(t, o, "poststore") /\ Goto(t, o, l) /\ pc[t][o] = "poststore"
        /\ l = "postbcast" <=> Platform = "posix"
  BY OnceAssumption DEF PostStore, At
<1>2. \A p \in Onces : p # o => pc[t][p] \in {"idle", "init"}
  BY <1>1, OnlyInnermostMoves DEF PC
<1>3. /\ pc' \in [Threads -> [Onces -> PC]]
      /\ \A u \in Threads, p \in Onces :
           pc'[u][p] = IF u = t /\ p = o THEN l ELSE pc[u][p]
  BY <1>1, GotoFact DEF PC
<1>4. /\ \A p \in Onces : fState'[p] = IF p = o THEN 2 ELSE fState[p]
      /\ UNCHANGED <<todo, err, fErrCode, built, initMutex>>
  BY DEF PostStore, TypeOK
<1>5. fState[o] = 1
  BY <1>1 DEF OneInitialiser, Running
<1>6. TypeOK'
  BY <1>3, <1>4 DEF PostStore, TypeOK
<1>7. StackInv'
  BY <1>1, MoveKeepsStack DEF PC
<1>8. MutexInv'
  BY <1>1, <1>2, <1>3, <1>4 DEF MutexInv
<1>9. BuildInv'
  BY <1>1, <1>3 DEF BuildInv
<1>10. OneInitialiser'
  <2>1. fState[o] = 1 /\ \A u \in Threads : u # t => ~Running(u, o)
    BY <1>1 DEF OneInitialiser, Running
  <2>2. \A u \in Threads, p \in Onces :
          Running(u, p)' <=> Running(u, p) /\ ~(u = t /\ p = o)
    BY <1>1, <1>3 DEF Running
  <2>3. QED
    BY <1>4, <2>1, <2>2 DEF OneInitialiser
<1>11. StateInv'
  BY <1>1, <1>2, <1>3, <1>4, <1>5 DEF StateInv, Outcome
<1>12. QED
  BY <1>6, <1>7, <1>8, <1>9, <1>10, <1>11

(* The initialising thread returns.                                        *)
LEMMA ReturnInv ==
  ASSUME IInv, NEW t \in Threads, NEW o \in Onces, Return(t, o)
  PROVE  IInv'
<1> USE DEF IInv
<1>1. At(t, o, "return") /\ Goto(t, o, "idle") /\ pc[t][o] = "return"
  BY DEF Return, At
<1>2. \A p \in Onces : p # o => pc[t][p] \in {"idle", "init"}
  BY <1>1, OnlyInnermostMoves DEF PC
<1>3. /\ pc' \in [Threads -> [Onces -> PC]]
      /\ \A u \in Threads, p \in Onces :
           pc'[u][p] = IF u = t /\ p = o THEN "idle" ELSE pc[u][p]
  BY <1>1, GotoFact DEF PC
<1>4. /\ UNCHANGED <<todo, err, fState, fErrCode, built, initMutex>>
  BY DEF Return, TypeOK
<1>5. TypeOK'
  BY <1>3, <1>4 DEF Return, TypeOK
<1>6. StackInv'
  BY <1>1, MoveKeepsStack DEF PC
<1>7. MutexInv'
  BY <1>1, <1>2, <1>3, <1>4 DEF MutexInv
<1>8. BuildInv'
  BY <1>1, <1>3 DEF BuildInv
<1>9. OneInitialiser'
  <2>1. \A u \in Threads, p \in Onces : Running(u, p)' <=> Running(u, p)
    BY <1>1, <1>3 DEF Running
  <2>2. QED
    BY <1>4, <2>1, SameRunners
<1>10. StateInv'
  BY <1>1, <1>2, <1>3, <1>4 DEF StateInv, Outcome
<1>11. QED
  BY <1>5, <1>6, <1>7, <1>8, <1>9, <1>10

(* Any other caller returns.                                               *)
LEMMA CheckInv ==
  ASSUME IInv, NEW t \in Threads, NEW o \in Onces, Check(t, o)
  PROVE  IInv'
<1> USE DEF IInv
<1>1. At(t, o, "check") /\ Goto(t, o, "idle") /\ pc[t][o] = "check"
  BY DEF Check, At
<1>2. \A p \in Onces : p # o => pc[t][p] \in {"idle", "init"}
  BY <1>1, OnlyInnermostMoves DEF PC
<1>3. /\ pc' \in [Threads -> [Onces -> PC]]
      /\ \A u \in Threads, p \in Onces :
           pc'[u][p] = IF u = t /\ p = o THEN "idle" ELSE pc[u][p]
  BY <1>1, GotoFact DEF PC
<1>4. /\ \A u \in Threads : err'[u] \in {"ok", "fail"} /\ (u # t => err'[u] = err[u])
      /\ UNCHANGED <<todo, fState, fErrCode, built, initMutex>>
  BY DEF Check, TypeOK
<1>5. TypeOK'
  BY <1>3, <1>4 DEF Check, TypeOK
<1>6. StackInv'
  BY <1>1, MoveKeepsStack DEF PC
<1>7. MutexInv'
  BY <1>1, <1>2, <1>3, <1>4 DEF MutexInv
<1>8. BuildInv'
  BY <1>1, <1>3 DEF BuildInv
<1>9. OneInitialiser'
  <2>1. \A u \in Threads, p \in Onces : Running(u, p)' <=> Running(u, p)
    BY <1>1, <1>3 DEF Running
  <2>2. QED
    BY <1>4, <2>1, SameRunners
<1>10. StateInv'
  BY <1>1, <1>2, <1>3, <1>4 DEF StateInv, Outcome
<1>11. QED
  BY <1>5, <1>6, <1>7, <1>8, <1>9, <1>10

(* A call from the application enters the fast path.                       *)
LEMMA CallInv ==
  ASSUME IInv, NEW t \in Threads, NEW o \in Onces, Call(t, o)
  PROVE  IInv'
<1> USE DEF IInv
<1>1. Goto(t, o, "load") /\ \A p \in Onces : pc[t][p] = "idle"
  BY DEF Call
<1>2. /\ pc' \in [Threads -> [Onces -> PC]]
      /\ \A u \in Threads, p \in Onces :
           pc'[u][p] = IF u = t /\ p = o THEN "load" ELSE pc[u][p]
  BY <1>1, GotoFact DEF PC
<1>3. /\ \A u \in Threads : err'[u] \in {"ok", "fail"} /\ (u # t => err'[u] = err[u])
      /\ UNCHANGED <<todo, fState, fErrCode, built, initMutex>>
  BY DEF Call, TypeOK
<1>4. TypeOK'
  <2>1. err' \in [Threads -> {"ok", "fail"}]
    BY DEF Call, TypeOK
  <2>2. QED
    BY <1>2, <1>3, <2>1 DEF TypeOK
<1>5. StackInv'
  <2>1. SUFFICES ASSUME NEW u \in Threads, NEW p \in Onces, NEW q \in Onces,
                        Active(u, p)', Active(u, q)', p # q
                 PROVE  /\ Depth[p] # Depth[q]
                        /\ Depth[q] < Depth[p] =>
                             /\ pc'[u][p] = "init"
                             /\ \E d \in Uses[p] : Active(u, d)' /\ Depth[q] <= Depth[d]
    BY DEF StackInv
  <2>2. u # t
    BY <1>1, <1>2, <2>1 DEF Active
  <2>3. QED
    BY <1>2, <2>1, <2>2, OnceAssumption DEF StackInv, Active
<1>6. MutexInv'
  BY <1>1, <1>2, <1>3 DEF MutexInv
<1>7. BuildInv'
  BY <1>1, <1>2 DEF BuildInv
<1>8. OneInitialiser'
  <2>1. \A u \in Threads, p \in Onces : Running(u, p)' <=> Running(u, p)
    BY <1>1, <1>2 DEF Running
  <2>2. QED
    BY <1>3, <2>1, SameRunners
<1>9. StateInv'
  BY <1>1, <1>2, <1>3 DEF StateInv, Outcome
<1>10. QED
  BY <1>4, <1>5, <1>6, <1>7, <1>8, <1>9

(* Losing the compare-and-swap, or winning it and starting the             *)
(* initialiser.                                                            *)
LEMMA CompareExchangeInv ==
  ASSUME IInv, NEW t \in Threads, NEW o \in Onces, CompareExchange(t, o)
  PROVE  IInv'
<1> USE DEF IInv
<1>1. PICK l \in {"init", "check", "sleep"} :
        /\ At(t, o, "cas") /\ Goto(t, o, l) /\ pc[t][o] = "cas"
        /\ l = "init" => fState[o] = 0 /\ StartInit(t, o)
        /\ l = "check" => fState[o] = 2
        /\ l # "init" => UNCHANGED <<todo, err, fState, fErrCode, built>>
  BY DEF CompareExchange, StartInit, At
<1>2. \A p \in Onces : p # o => pc[t][p] \in {"idle", "init"}
  BY <1>1, OnlyInnermostMoves DEF PC
<1>3. /\ pc' \in [Threads -> [Onces -> PC]]
      /\ \A u \in Threads, p \in Onces :
           pc'[u][p] = IF u = t /\ p = o THEN l ELSE pc[u][p]
  BY <1>1, GotoFact DEF PC
<1>4. initMutex' = initMutex
  BY DEF CompareExchange
<1>5. /\ StackInv'
      /\ MutexInv'
      /\ BuildInv'
  <2>1. StackInv'
    BY <1>1, MoveKeepsStack DEF PC
  <2>2. MutexInv'
    BY <1>1, <1>3, <1>4 DEF MutexInv
  <2>3. BuildInv'
    BY <1>1, <1>3 DEF BuildInv
  <2>4. QED
    BY <2>1, <2>2, <2>3
<1>6. CASE l = "init"
  <2>0. StartInit(t, o) /\ Uses[o] \in SUBSET Onces
    BY <1>1, <1>6, OnceAssumption
  <2>1. /\ \A p \in Onces : fState'[p] = IF p = o THEN 1 ELSE fState[p]
        /\ \A p \in Onces : built'[p] = IF p = o THEN "partial" ELSE built[p]
        /\ todo' \in [Threads -> [Onces -> SUBSET Onces]]
        /\ UNCHANGED <<err, fErrCode>>
    BY <2>0 DEF TypeOK, StartInit
  <2>2. TypeOK'
    BY <1>1, <1>3, <1>4, <1>6, <2>1 DEF TypeOK, StartInit
  <2>3. \A u \in Threads : ~Running(u, o) /\ pc[u][o] # "prestore"
    <3>1. fState[o] = 0 /\ pc[t][o] = "cas"
      BY <1>1, <1>6
    <3>2. \A u \in Threads : ~Running(u, o)
      BY <3>1 DEF OneInitialiser
    <3>3. \A u \in Threads : pc[u][o] # "prestore"
      BY <3>1 DEF BuildInv
    <3>4. QED
      BY <3>2, <3>3
  <2>4. OneInitialiser'
    <3>1. \A u \in Threads, p \in Onces :
            Running(u, p)' <=> Running(u, p) \/ (u = t /\ p = o)
      BY <1>3, <1>6 DEF Running
    <3>2. QED
      BY <2>1, <2>3, <3>1 DEF OneInitialiser
  <2>5. StateInv'
    <3>1. /\ fState'[o] = 1
          /\ \A u \in Threads : pc'[u][o] \notin {"prestore", "check", "postbcast", "return",
                                              "record", "postlock", "poststore"}
      BY <1>1, <1>3, <1>6, <2>1, <2>3 DEF StateInv, Running
    <3>2. ASSUME NEW p \in Onces, fState'[p] = 2
          PROVE  built'[p] = Outcome(fErrCode'[p])
      <4>1. p # o /\ fState[p] = 2
        BY <2>1, <3>1, <3>2
      <4>2. built[p] = Outcome(fErrCode[p])
        BY <4>1 DEF StateInv
      <4>3. QED
        BY <2>1, <4>1, <4>2
    <3>3. ASSUME NEW u \in Threads, NEW p \in Onces
         PROVE  /\ pc'[u][p] = "prestore" => fState'[p] = 0
                /\ pc'[u][p] \in {"waiting", "relock", "retest"} => fState'[p] # 0
                /\ pc'[u][p] \in {"check", "postbcast", "return"} => fState'[p] = 2
                /\ pc'[u][p] \in {"record", "postlock", "poststore"} =>
                     built'[p] = Outcome(err'[u])
                /\ pc'[u][p] \in {"postlock", "poststore", "postbcast", "return"} =>
                     fErrCode'[p] = err'[u]
      <4>1. CASE p = o
        BY <1>3, <1>6, <2>1, <3>1, <4>1
      <4>2. CASE p # o
        BY <1>3, <1>6, <2>1, <3>1, <4>2 DEF StateInv
      <4>3. QED
        BY <4>1, <4>2
    <3>4. QED
      BY <3>2, <3>3 DEF StateInv
  <2>6. QED
    BY <1>5, <2>2, <2>4, <2>5
<1>7. CASE l # "init"
  <2>1. UNCHANGED <<todo, err, fState, fErrCode, built>>
    BY <1>1, <1>7
  <2>2. TypeOK'
    BY <1>3, <1>4, <2>1 DEF TypeOK
  <2>3. OneInitialiser'
    <3>1. \A u \in Threads, p \in Onces : Running(u, p)' <=> Running(u, p)
      BY <1>1, <1>3, <1>7 DEF Running
    <3>2. QED
      BY <2>1, <3>1, SameRunners
  <2>4. StateInv'
    BY <1>1, <1>3, <1>7, <2>1 DEF StateInv, Outcome
  <2>5. QED
    BY <1>5, <2>2, <2>3, <2>4
<1>8. QED
  BY <1>6, <1>7

(* An initialiser enters a nested call, or is refused because its error    *)
(* code already holds a failure.                                           *)
LEMMA NestedCallInv ==
  ASSUME IInv, NEW t \in Threads, NEW o \in Onces, NEW d \in Uses[o],
         NestedCall(t, o, d)
  PROVE  IInv'
<1> USE DEF IInv
<1>1. /\ d \in Onces /\ At(t, o, "init") /\ pc[t][d] = "idle"
      /\ UNCHANGED <<err, fState, fErrCode, built, initMutex>>
      /\ todo' \in [Threads -> [Onces -> SUBSET Onces]]
  BY OnceAssumption DEF NestedCall, At, TypeOK
<1>2. CASE UNCHANGED pc
  <2>1. TypeOK' /\ StackInv' /\ MutexInv' /\ BuildInv'
    BY <1>1, <1>2, SMTT(30) DEF TypeOK, StackInv, Active, MutexInv, BuildInv
  <2>2. OneInitialiser' /\ StateInv'
    BY <1>1, <1>2 DEF OneInitialiser, Running, StateInv, Outcome
  <2>3. QED
    BY <2>1, <2>2
<1>3. CASE Goto(t, d, "load")
  <2>1. /\ pc' \in [Threads -> [Onces -> PC]]
        /\ \A u \in Threads, p \in Onces :
             pc'[u][p] = IF u = t /\ p = d THEN "load" ELSE pc[u][p]
    BY <1>1, <1>3, GotoFact DEF PC
  <2>2. TypeOK'
    BY <1>1, <2>1 DEF TypeOK
  <2>3. StackInv'
    BY <1>1, <1>3, NestedKeepsStack DEF PC
  <2>4. MutexInv'
    BY <1>1, <2>1 DEF MutexInv
  <2>5. BuildInv'
    BY <2>1 DEF BuildInv
  <2>6. OneInitialiser'
    <3>1. \A u \in Threads, p \in Onces : Running(u, p)' <=> Running(u, p)
      BY <1>1, <2>1 DEF Running
    <3>2. QED
      BY <1>1, <3>1, SameRunners
  <2>7. StateInv'
    BY <1>1, <2>1 DEF StateInv, Outcome
  <2>8. QED
    BY <2>2, <2>3, <2>4, <2>5, <2>6, <2>7
<1>4. QED
  BY <1>2, <1>3 DEF NestedCall

(* The broadcast moves the sleepers of every once-control.                 *)
LEMMA PostBroadcastInv ==
  ASSUME IInv, NEW t \in Threads, NEW o \in Onces, PostBroadcast(t, o)
  PROVE  IInv'
<1> USE DEF IInv
<1>1. /\ pc[t][o] = "postbcast" /\ At(t, o, "postbcast")
      /\ initMutex = t /\ initMutex' = None
      /\ UNCHANGED <<todo, err, fState, fErrCode, built>>
  BY DEF PostBroadcast, Unlock, At
<1>2. /\ pc' \in [Threads -> [Onces -> PC]]
      /\ \A u \in Threads, p \in Onces :
           pc'[u][p] = IF u = t /\ p = o THEN "return"
                       ELSE IF pc[u][p] = "waiting" THEN "relock" ELSE pc[u][p]
  BY DEF PostBroadcast, TypeOK, PC
<1>3. \A p \in Onces : p # o => pc[t][p] \in {"idle", "init"}
  BY <1>1, OnlyInnermostMoves DEF PC
<1>4. TypeOK'
  BY <1>1, <1>2 DEF TypeOK
<1>5. StackInv'
  <2>1. \A u \in Threads, p \in Onces :
          /\ pc'[u][p] # "idle" <=> pc[u][p] # "idle"
          /\ pc[u][p] = "init" => pc'[u][p] = "init"
    BY <1>1, <1>2
  <2>2. QED
    BY <2>1, OnceAssumption DEF StackInv, Active
<1>6. MutexInv'
  BY <1>1, <1>2, <1>3, OnceAssumption DEF MutexInv, BuildInv
<1>7. BuildInv'
  BY <1>2 DEF BuildInv
<1>8. OneInitialiser'
  <2>1. \A u \in Threads, p \in Onces : Running(u, p)' <=> Running(u, p)
    BY <1>1, <1>2 DEF Running
  <2>2. QED
    BY <1>1, <2>1, SameRunners
<1>9. StateInv'
  BY <1>1, <1>2 DEF StateInv, Outcome
<1>10. QED
  BY <1>4, <1>5, <1>6, <1>7, <1>8, <1>9

(* Library clean-up, while no thread is inside a call.                     *)
LEMMA CleanupInv ==
  ASSUME IInv, Cleanup
  PROVE  IInv'
<1> USE DEF IInv
<1>1. /\ \A t \in Threads, o \in Onces : pc'[t][o] = "idle"
      /\ \A o \in Onces : fState'[o] = 0
  BY DEF Cleanup, TypeOK
<1>2. TypeOK'
  BY DEF Cleanup, TypeOK
<1>3. StackInv' /\ MutexInv' /\ BuildInv' /\ OneInitialiser'
  BY <1>1 DEF StackInv, Active, MutexInv, BuildInv, OneInitialiser, Running
<1>4. StateInv'
  BY <1>1 DEF StateInv
<1>5. QED
  BY <1>2, <1>3, <1>4

-----------------------------------------------------------------------------
LEMMA InitInv ==
  Init => IInv
<1> SUFFICES ASSUME Init PROVE IInv
  OBVIOUS
<1>1. TypeOK
  BY DEF Init, TypeOK, PC
<1>2. /\ \A t \in Threads, o \in Onces : pc[t][o] = "idle"
      /\ \A o \in Onces : fState[o] = 0
  BY DEF Init
<1>3. StackInv /\ MutexInv /\ BuildInv /\ OneInitialiser /\ StateInv
  BY <1>2 DEF StackInv, Active, MutexInv, BuildInv, OneInitialiser, Running, StateInv
<1>4. QED
  BY <1>1, <1>3 DEF IInv

LEMMA NextInv ==
  IInv /\ [Next]_vars => IInv'
<1> SUFFICES ASSUME IInv, [Next]_vars PROVE IInv'
  OBVIOUS
<1>1. ASSUME NEW t \in Threads, NEW o \in Onces, Step(t, o)
      PROVE  IInv'
  BY <1>1, LoadAcquireInv, PreLockInv, PreTestInv, PreStoreInv, RetestInv,
     CompareExchangeInv, SleepLoopInv, NestedCallInv, FinishInitInv, RecordErrorInv,
     PostLockInv, PostStoreInv, PostBroadcastInv, ReturnInv, CheckInv
     DEF Step
<1>2. CASE UNCHANGED vars
  <2>1. UNCHANGED <<pc, todo, err, fState, fErrCode, built, initMutex>>
    BY <1>2 DEF vars
  <2>2. TypeOK' /\ MutexInv' /\ BuildInv'
    BY <2>1 DEF IInv, TypeOK, MutexInv, BuildInv
  <2>3. StackInv'
    BY <2>1 DEF IInv, StackInv, Active
  <2>4. OneInitialiser'
    BY <2>1 DEF IInv, OneInitialiser, Running
  <2>5. StateInv'
    BY <2>1 DEF IInv, StateInv, Outcome
  <2>6. QED
    BY <2>2, <2>3, <2>4, <2>5 DEF IInv
<1>3. QED
  BY <1>1, <1>2, CallInv, SpuriousWakeupInv, CleanupInv DEF Next

(* The inductive invariant holds of umtx_initOnce in every reachable state *)
(* of every number of threads and once-controls, on both builds.           *)
THEOREM InvariantTheorem == Spec => []IInv
  BY InitInv, NextInv, PTL DEF Spec

(* The variables keep their types (UInitOnce, umtx_initOnce).              *)
THEOREM TypeTheorem == Spec => []TypeOK
<1>1. IInv => TypeOK
  BY DEF IInv
<1>2. QED
  BY <1>1, InvariantTheorem, PTL

(* At most one thread runs the initialiser of a once-control, and fState   *)
(* is 1 exactly then (umtx_initImplPreInit, umtx_initImplPostInit).        *)
THEOREM OneInitialiserTheorem == Spec => []OneInitialiser
<1>1. IInv => OneInitialiser
  BY DEF IInv
<1>2. QED
  BY <1>1, InvariantTheorem, PTL

(* A caller about to return sees a finished initialiser and an error code  *)
(* that tells what it built (umtx_initOnce).                               *)
THEOREM CallersSeeResultTheorem == Spec => []CallersSeeResult
<1>1. IInv => CallersSeeResult
  BY DEF IInv, StateInv, Outcome, CallersSeeResult
<1>2. QED
  BY <1>1, InvariantTheorem, PTL

-----------------------------------------------------------------------------
(* The refinement: each step of umtx_initOnce is a step of OnceSpec under  *)
(* the mapping Outcomes, Phases, or leaves the mapped state alone.         *)

(* Moving one call changes one phase.                                      *)
LEMMA PhaseMove ==
  ASSUME TypeOK, NEW t \in Threads, NEW o \in Onces, NEW l \in PC, Goto(t, o, l)
  PROVE  Phases' = [Phases EXCEPT ![t][o] = PhaseOf(l)]
<1>1. \A u \in Threads, p \in Onces :
        pc'[u][p] = IF u = t /\ p = o THEN l ELSE pc[u][p]
  BY GotoFact
<1>2. Phases' = [u \in Threads |-> [p \in Onces |->
                   IF u = t /\ p = o THEN PhaseOf(l) ELSE PhaseOf(pc[u][p])]]
  BY <1>1 DEF Phases
<1>3. [Phases EXCEPT ![t][o] = PhaseOf(l)] =
        [u \in Threads |-> [p \in Onces |->
           IF u = t /\ p = o THEN PhaseOf(l) ELSE PhaseOf(pc[u][p])]]
  BY DEF Phases
<1>4. QED
  BY <1>2, <1>3

(* ... and none when the old and the new location have the same phase.     *)
LEMMA PhaseStays ==
  ASSUME TypeOK, NEW t \in Threads, NEW o \in Onces, NEW l \in PC, Goto(t, o, l),
         PhaseOf(l) = PhaseOf(pc[t][o])
  PROVE  Phases' = Phases
<1>1. \A u \in Threads, p \in Onces :
        pc'[u][p] = IF u = t /\ p = o THEN l ELSE pc[u][p]
  BY GotoFact
<1>2. QED
  BY <1>1 DEF Phases

LEMMA OutcomesStay ==
  ASSUME UNCHANGED <<fState, fErrCode>>
  PROVE  Outcomes' = Outcomes
  BY DEF Outcomes

(* A thread's phase of a once-control is the phase of its location.        *)
LEMMA PhaseFact ==
  ASSUME NEW t \in Threads, NEW o \in Onces
  PROVE  Phases[t][o] = PhaseOf(pc[t][o])
  BY DEF Phases

(* Steps that only move a call between locations of one phase.             *)
LEMMA SilentSteps ==
  ASSUME IInv, NEW t \in Threads, NEW o \in Onces,
         \/ LoadAcquire(t, o) \/ PreLock(t, o) \/ PreTest(t, o) \/ Retest(t, o)
         \/ SpuriousWakeup(t, o) \/ SleepLoop(t, o) \/ PostLock(t, o)
  PROVE  UNCHANGED <<Outcomes, Phases, err>>
<1>1. PICK l \in PC : Goto(t, o, l) /\ PhaseOf(l) = PhaseOf(pc[t][o])
  BY DEF LoadAcquire, PreLock, PreTest, Retest, SpuriousWakeup, SleepLoop, PostLock,
         At, PC, PhaseOf
<1>2. UNCHANGED <<fState, fErrCode, err>>
  BY DEF LoadAcquire, PreLock, PreTest, Retest, SpuriousWakeup, SleepLoop, PostLock
<1>3. QED
  BY <1>1, <1>2, PhaseStays, OutcomesStay DEF IInv

(* Recording the error code happens before the outcome is published.       *)
LEMMA RecordErrorSilent ==
  ASSUME IInv, NEW t \in Threads, NEW o \in Onces, RecordError(t, o)
  PROVE  UNCHANGED <<Outcomes, Phases, err>>
<1>1. PICK l \in PC : Goto(t, o, l) /\ PhaseOf(l) = PhaseOf(pc[t][o])
  BY DEF RecordError, At, PC, PhaseOf
<1>2. fState[o] = 1
  BY DEF IInv, OneInitialiser, Running, RecordError, At
<1>3. Outcomes' = Outcomes
  BY <1>2 DEF Outcomes, RecordError, IInv, TypeOK
<1>4. QED
  BY <1>1, <1>3, PhaseStays DEF IInv, RecordError

(* The broadcast moves sleepers within the phase "in".                     *)
LEMMA PostBroadcastSilent ==
  ASSUME IInv, NEW t \in Threads, NEW o \in Onces, PostBroadcast(t, o)
  PROVE  UNCHANGED <<Outcomes, Phases, err>>
<1>1. \A u \in Threads, p \in Onces : PhaseOf(pc'[u][p]) = PhaseOf(pc[u][p])
  BY DEF PostBroadcast, At, PhaseOf
<1>2. Phases' = Phases
  BY <1>1 DEF Phases
<1>3. QED
  BY <1>2, OutcomesStay DEF PostBroadcast

(* A call, of the application or of an initialiser, enters.                *)
LEMMA CallEnters ==
  ASSUME IInv, NEW t \in Threads, NEW o \in Onces, Call(t, o)
  PROVE  Once!Enter(t, o)
<1>1. Phases' = [Phases EXCEPT ![t][o] = "in"]
  BY PhaseMove DEF Call, IInv, PC, PhaseOf
<1>2. \A p \in Onces : Phases[t][p] = "out"
  BY PhaseFact DEF Call, PhaseOf
<1>3. QED
  BY <1>1, <1>2, OutcomesStay DEF Call, Once!Enter

LEMMA NestedCallEnters ==
  ASSUME IInv, NEW t \in Threads, NEW o \in Onces, NEW d \in Uses[o], NestedCall(t, o, d)
  PROVE  Once!Enter(t, d) \/ UNCHANGED <<Outcomes, Phases, err>>
<1>1. d \in Onces /\ pc[t][d] = "idle" /\ err' = err /\ Outcomes' = Outcomes
  BY OnceAssumption, OutcomesStay DEF NestedCall, At
<1>2. CASE UNCHANGED pc
  BY <1>1, <1>2 DEF Phases
<1>3. CASE err[t] = "ok" /\ Goto(t, d, "load")
  <2>1. Phases' = [Phases EXCEPT ![t][d] = "in"]
    BY <1>1, <1>3, PhaseMove DEF IInv, PC, PhaseOf
  <2>2. Phases[t][d] = "out"
    BY <1>1, PhaseFact DEF PhaseOf
  <2>3. err' = [err EXCEPT ![t] = "ok"]
    BY <1>1, <1>3 DEF IInv, TypeOK
  <2>4. QED
    BY <1>1, <1>3, <2>1, <2>2, <2>3 DEF Once!Enter
<1>4. QED
  BY <1>2, <1>3 DEF NestedCall

(* Starting the initialiser elects the thread.                             *)
LEMMA StartElects ==
  ASSUME IInv, NEW t \in Threads, NEW o \in Onces, StartInit(t, o), fState[o] = 0,
         PhaseOf(pc[t][o]) = "in"
  PROVE  Once!Elect(t, o)
<1>1. Phases' = [Phases EXCEPT ![t][o] = "running"]
  BY PhaseMove DEF StartInit, IInv, PC, PhaseOf
<1>2. Phases[t][o] = "in"
  BY PhaseFact
<1>3. \A u \in Threads : Phases[u][o] # "running"
  BY PhaseFact DEF IInv, OneInitialiser, Running, PhaseOf
<1>4. Outcomes[o] = "none" /\ Outcomes' = Outcomes
  BY DEF Outcomes, StartInit, IInv, TypeOK
<1>5. err' = err
  BY DEF StartInit
<1>6. QED
  BY <1>1, <1>2, <1>3, <1>4, <1>5 DEF Once!Elect

LEMMA PreStoreElects ==
  ASSUME IInv, NEW t \in Threads, NEW o \in Onces, PreStore(t, o)
  PROVE  Once!Elect(t, o)
  BY StartElects DEF PreStore, At, IInv, StateInv, PhaseOf

LEMMA CompareExchangeElects ==
  ASSUME IInv, NEW t \in Threads, NEW o \in Onces, CompareExchange(t, o)
  PROVE  Once!Elect(t, o) \/ UNCHANGED <<Outcomes, Phases, err>>
<1>1. PhaseOf(pc[t][o]) = "in"
  BY DEF CompareExchange, At, PhaseOf
<1>2. CASE fState[o] = 0 /\ StartInit(t, o)
  BY <1>1, <1>2, StartElects
<1>3. CASE /\ Goto(t, o, IF fState[o] = 2 THEN "check" ELSE "sleep")
           /\ UNCHANGED <<todo, err, fState, fErrCode, built>>
  <2>1. PICK l \in PC : Goto(t, o, l) /\ PhaseOf(l) = "in"
    BY <1>3 DEF PC, PhaseOf
  <2>2. QED
    BY <1>1, <1>3, <2>1, PhaseStays, OutcomesStay DEF IInv
<1>4. QED
  BY <1>2, <1>3 DEF CompareExchange

(* The initialiser ends, failing or not.                                   *)
LEMMA FinishInitFails ==
  ASSUME IInv, NEW t \in Threads, NEW o \in Onces, FinishInit(t, o)
  PROVE  Once!Fails(t, o) \/ UNCHANGED <<Outcomes, Phases, err>>
<1>1. Phases' = Phases /\ Outcomes' = Outcomes
  BY PhaseStays, OutcomesStay DEF FinishInit, At, PhaseOf, IInv, PC
<1>2. Phases[t][o] = "running"
  BY PhaseFact DEF FinishInit, At, PhaseOf
<1>3. QED
  BY <1>1, <1>2 DEF FinishInit, Once!Fails

(* Publishing fState = 2 decides the outcome.                              *)
LEMMA PostStoreDecides ==
  ASSUME IInv, NEW t \in Threads, NEW o \in Onces, PostStore(t, o)
  PROVE  Once!Decide(t, o)
<1>1. PICK l \in PC : Goto(t, o, l) /\ PhaseOf(l) = "in"
  BY DEF PostStore, PC, PhaseOf
<1>2. Phases' = [Phases EXCEPT ![t][o] = "in"]
  BY <1>1, PhaseMove DEF IInv
<1>3. Phases[t][o] = "running"
  BY PhaseFact DEF PostStore, At, PhaseOf
<1>4. fState[o] = 1 /\ fErrCode[o] = err[t]
  BY DEF IInv, OneInitialiser, StateInv, Running, PostStore, At
<1>5. /\ \A p \in Onces : fState'[p] = IF p = o THEN 2 ELSE fState[p]
      /\ UNCHANGED <<fErrCode, err>>
  BY DEF PostStore, IInv, TypeOK
<1>6. Outcomes[o] = "none" /\ Outcomes' = [Outcomes EXCEPT ![o] = err[t]]
  <2>1. Outcomes' = [p \in Onces |-> IF p = o THEN err[t] ELSE Outcomes[p]]
    BY <1>4, <1>5 DEF Outcomes
  <2>2. Outcomes[o] = "none"
    BY <1>4 DEF Outcomes
  <2>3. [Outcomes EXCEPT ![o] = err[t]] =
          [p \in Onces |-> IF p = o THEN err[t] ELSE Outcomes[p]]
    BY DEF Outcomes
  <2>4. QED
    BY <2>1, <2>2, <2>3
<1>7. QED
  BY <1>2, <1>3, <1>5, <1>6 DEF Once!Decide

(* Returning leaves, with the failure if that was the outcome.             *)
LEMMA ReturnLeaves ==
  ASSUME IInv, NEW t \in Threads, NEW o \in Onces, Return(t, o) \/ Check(t, o)
  PROVE  Once!Leave(t, o)
<1>1. Goto(t, o, "idle") /\ PhaseOf(pc[t][o]) = "in"
  BY DEF Return, Check, At, PhaseOf
<1>2. Phases' = [Phases EXCEPT ![t][o] = "out"] /\ Phases[t][o] = "in"
  BY <1>1, PhaseMove, PhaseFact DEF IInv, PC, PhaseOf
<1>3. fState[o] = 2 /\ (Return(t, o) => fErrCode[o] = err[t])
  BY DEF IInv, StateInv, Return, Check, At
<1>4. Outcomes[o] = fErrCode[o] /\ Outcomes[o] # "none" /\ Outcomes' = Outcomes
  BY <1>3, OutcomesStay DEF Outcomes, IInv, TypeOK, Return, Check
<1>5. err' = [err EXCEPT ![t] = IF Outcomes[o] = "fail" THEN "fail" ELSE @]
  BY <1>3, <1>4 DEF Return, Check, IInv, TypeOK
<1>6. QED
  BY <1>2, <1>4, <1>5 DEF Once!Leave

LEMMA CleanupResets ==
  ASSUME IInv, Cleanup
  PROVE  Once!Reset
<1>1. \A t \in Threads, o \in Onces : Phases[t][o] = "out"
  BY PhaseFact DEF Cleanup, PhaseOf
<1>2. Outcomes' = [o \in Onces |-> "none"]
  BY DEF Cleanup, Outcomes
<1>3. Phases' = Phases /\ err' = err
  BY DEF Cleanup, Phases
<1>4. QED
  BY <1>1, <1>2, <1>3 DEF Once!Reset

LEMMA InitRefines ==
  Init => Once!Init
  BY DEF Init, Once!Init, Outcomes, Phases, PhaseOf

LEMMA NextRefines ==
  IInv /\ [Next]_vars => [Once!Next]_(Once!vars)
<1> SUFFICES ASSUME IInv, [Next]_vars
             PROVE  Once!Next \/ UNCHANGED <<Outcomes, Phases, err>>
  BY DEF Once!vars
<1>1. ASSUME NEW t \in Threads, NEW o \in Onces, Step(t, o)
      PROVE  Once!Next \/ UNCHANGED <<Outcomes, Phases, err>>
  <2>1. \A d \in Uses[o] : d \in Onces
    BY OnceAssumption
  <2>2. QED
    BY <1>1, <2>1, SilentSteps, RecordErrorSilent, PostBroadcastSilent, NestedCallEnters,
       PreStoreElects, CompareExchangeElects, FinishInitFails, PostStoreDecides,
       ReturnLeaves
       DEF Step, Once!Next
<1>2. CASE UNCHANGED vars
  BY <1>2 DEF vars, Outcomes, Phases
<1>3. QED
  BY <1>1, <1>2, CallEnters, SilentSteps, CleanupResets DEF Next, Once!Next

(* umtx_initOnce implements the abstract once-control: every behaviour is  *)
(* one of OnceSpec under the mapping Outcomes, Phases.                     *)
THEOREM RefinementTheorem == Spec => ImplementsOnce
<1>1. Spec => Once!Init
  BY InitRefines DEF Spec
<1>2. Spec => [][Once!Next]_(Once!vars)
  BY InvariantTheorem, NextRefines, PTL DEF Spec
<1>3. QED
  BY <1>1, <1>2, PTL DEF ImplementsOnce, Once!Spec
=============================================================================
