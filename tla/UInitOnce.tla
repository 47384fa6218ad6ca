----------------------------- MODULE UInitOnce ------------------------------
(***************************************************************************)
(* umtx_initOnce: the once-control that guards every lazily built table,   *)
(* singleton and cache of ICU (umutex.h, umutex.cpp).                      *)
(*                                                                         *)
(* Each thread may be inside several calls at once, because an             *)
(* initialiser may itself call umtx_initOnce on other once-controls        *)
(* (cacheInit opens a hash table, a data loader opens the alias table,     *)
(* ...).  A thread is in at most one call per once-control, so the call    *)
(* stack is the function pc[t]; only the innermost call moves.  A nested   *)
(* call is passed the error code of the enclosing one by reference, which  *)
(* is why there is one error code per thread.                              *)
(***************************************************************************)
EXTENDS Naturals

CONSTANTS
  Threads,
  Onces,    \* the UInitOnce objects
  Uses,     \* [Onces -> SUBSET Onces]: the ones an initialiser itself calls
  Depth,    \* [Onces -> Nat]: how deep the calls of an initialiser nest
  Platform, \* "win32" for the interlocked build, "posix" for the pthread build
  None      \* no owner

(* An initialiser that reaches its own once-control again waits for        *)
(* itself; the library never nests them in a cycle.                        *)
ASSUME OnceAssumption ==
  /\ Uses \in [Onces -> SUBSET Onces]
  /\ Depth \in [Onces -> Nat]
  /\ \A o \in Onces : \A d \in Uses[o] : Depth[d] < Depth[o]
  /\ Platform \in {"posix", "win32"}
  /\ None \notin Threads

VARIABLES
  pc,         \* [Threads -> [Onces -> PC]]: where each call is
  todo,       \* [Threads -> [Onces -> SUBSET Onces]]: nested calls still to make
  err,        \* [Threads -> {"ok", "fail"}]: the caller's UErrorCode
  fState,     \* [Onces -> 0..2]: not started, running, done
  fErrCode,   \* [Onces -> {"ok", "fail"}]: the code the initialiser ended with
  built,      \* [Onces -> {"none", "partial", "ready"}]: what it builds
  initMutex   \* Threads \cup {None}: the one mutex behind all once-controls

vars == <<pc, todo, err, fState, fErrCode, built, initMutex>>

PC == {"idle", "load", "prelock", "pretest", "prestore", "waiting", "relock",
       "retest", "cas", "sleep", "init", "record", "postlock", "poststore",
       "postbcast", "check", "return"}

TypeOK ==
  /\ pc \in [Threads -> [Onces -> PC]]
  /\ todo \in [Threads -> [Onces -> SUBSET Onces]]
  /\ err \in [Threads -> {"ok", "fail"}]
  /\ fState \in [Onces -> 0..2]
  /\ fErrCode \in [Onces -> {"ok", "fail"}]
  /\ built \in [Onces -> {"none", "partial", "ready"}]
  /\ initMutex \in Threads \cup {None}

Init ==
  /\ pc = [t \in Threads |-> [o \in Onces |-> "idle"]]
  /\ todo = [t \in Threads |-> [o \in Onces |-> {}]]
  /\ err = [t \in Threads |-> "ok"]
  /\ fState = [o \in Onces |-> 0]
  /\ fErrCode = [o \in Onces |-> "ok"]
  /\ built = [o \in Onces |-> "none"]
  /\ initMutex = None
-----------------------------------------------------------------------------
Goto(t, o, l) == pc' = [pc EXCEPT ![t][o] = l]

(* The call on o is the innermost one of t.                                *)
At(t, o, l) ==
  /\ pc[t][o] = l
  /\ \A d \in Uses[o] : pc[t][d] = "idle"

Lock(t) == initMutex = None /\ initMutex' = t
Unlock(t) == initMutex = t /\ initMutex' = None

(* umtx_initOnce(uio, fp, errCode) from the application.  A call whose     *)
(* error code already holds a failure returns at once and changes nothing. *)
Call(t, o) ==
  /\ \A p \in Onces : pc[t][p] = "idle"
  /\ err' = [err EXCEPT ![t] = "ok"]
  /\ Goto(t, o, "load")
  /\ UNCHANGED <<todo, fState, fErrCode, built, initMutex>>

(* The unlocked fast-path test of fState.                                  *)
LoadAcquire(t, o) ==
  /\ At(t, o, "load")
  /\ Goto(t, o, IF fState[o] = 2 THEN "check" ELSE IF Platform = "win32" THEN "cas" ELSE "prelock")
  /\ UNCHANGED <<todo, err, fState, fErrCode, built, initMutex>>

(* pthread_mutex_lock of umtx_initImplPreInit, and the re-acquisition that *)
(* ends pthread_cond_wait.                                                 *)
PreLock(t, o) ==
  /\ Lock(t)
  /\ \/ At(t, o, "prelock") /\ Goto(t, o, "pretest")
     \/ At(t, o, "relock") /\ Goto(t, o, "retest")
  /\ UNCHANGED <<todo, err, fState, fErrCode, built>>

PreTestUnchecked(t, o) ==
  /\ At(t, o, "pretest")
  /\ Goto(t, o, "prestore")
  /\ UNCHANGED <<todo, err, fState, fErrCode, built, initMutex>>

PreTest(t, o) ==
  /\ At(t, o, "pretest")
  /\ Goto(t, o, IF fState[o] = 0 THEN "prestore" ELSE "retest")
  /\ UNCHANGED <<todo, err, fState, fErrCode, built, initMutex>>

(* The caller starts the initialiser, which begins to build its data.      *)
StartInit(t, o) ==
  /\ fState' = [fState EXCEPT ![o] = 1]
  /\ built' = [built EXCEPT ![o] = "partial"]
  /\ todo' = [todo EXCEPT ![t][o] = Uses[o]]
  /\ Goto(t, o, "init")
  /\ UNCHANGED <<err, fErrCode>>

PreStore(t, o) ==
  /\ At(t, o, "prestore")
  /\ StartInit(t, o)
  /\ Unlock(t)

RetestOnce(t, o) ==
  /\ At(t, o, "retest")
  /\ Goto(t, o, "check")
  /\ Unlock(t)
  /\ UNCHANGED <<todo, err, fState, fErrCode, built>>

(* The loop around pthread_cond_wait: sleep while the initialiser runs,    *)
(* otherwise leave umtx_initImplPreInit with FALSE.                        *)
Retest(t, o) ==
  /\ At(t, o, "retest")
  /\ Goto(t, o, IF fState[o] = 1 THEN "waiting" ELSE "check")
  /\ Unlock(t)
  /\ UNCHANGED <<todo, err, fState, fErrCode, built>>

(* pthread_cond_wait may return without a broadcast.                       *)
SpuriousWakeup(t, o) ==
  /\ At(t, o, "waiting")
  /\ Goto(t, o, "relock")
  /\ UNCHANGED <<todo, err, fState, fErrCode, built, initMutex>>

CompareExchangeIncrements(t, o) ==
  /\ At(t, o, "cas")
  /\ fState' = [fState EXCEPT ![o] = @ + 1]
  /\ Goto(t, o, IF fState[o] = 0 THEN "init" ELSE IF fState[o] = 2 THEN "check" ELSE "sleep")
  /\ UNCHANGED <<todo, err, fErrCode, built, initMutex>>

(* The interlocked build: compare-and-swap 0 -> 1, or spin.                *)
CompareExchange(t, o) ==
  /\ At(t, o, "cas")
  /\ \/ fState[o] = 0 /\ StartInit(t, o)
     \/ /\ fState[o] # 0
        /\ Goto(t, o, IF fState[o] = 2 THEN "check" ELSE "sleep")
        /\ UNCHANGED <<todo, err, fState, fErrCode, built>>
  /\ UNCHANGED initMutex

SleepLoop(t, o) ==
  /\ At(t, o, "sleep")
  /\ fState[o] # 1
  /\ Goto(t, o, "cas")
  /\ UNCHANGED <<todo, err, fState, fErrCode, built, initMutex>>
-----------------------------------------------------------------------------
(* The initialiser calls umtx_initOnce on d, passing its error code on.    *)
NestedCall(t, o, d) ==
  /\ At(t, o, "init")
  /\ d \in todo[t][o]
  /\ todo' = [todo EXCEPT ![t][o] = @ \ {d}]
  /\ IF err[t] = "ok" THEN Goto(t, d, "load") ELSE UNCHANGED pc
  /\ UNCHANGED <<err, fState, fErrCode, built, initMutex>>

(* The initialiser fp returns.  It fails when something it called failed,  *)
(* and may fail by itself; a failed initialiser leaves nothing behind.     *)
FinishInit(t, o) ==
  /\ At(t, o, "init")
  /\ todo[t][o] = {}
  /\ \/ /\ err[t] = "ok"
        /\ built' = [built EXCEPT ![o] = "ready"]
        /\ UNCHANGED err
     \/ /\ err' = [err EXCEPT ![t] = "fail"]
        /\ built' = [built EXCEPT ![o] = "none"]
  /\ Goto(t, o, "record")
  /\ UNCHANGED <<todo, fState, fErrCode, initMutex>>

(* uio.fErrCode = errCode                                                  *)
RecordError(t, o) ==
  /\ At(t, o, "record")
  /\ fErrCode' = [fErrCode EXCEPT ![o] = err[t]]
  /\ Goto(t, o, IF Platform = "win32" THEN "poststore" ELSE "postlock")
  /\ UNCHANGED <<todo, err, fState, built, initMutex>>

PostLock(t, o) ==
  /\ At(t, o, "postlock")
  /\ Lock(t)
  /\ Goto(t, o, "poststore")
  /\ UNCHANGED <<todo, err, fState, fErrCode, built>>

(* umtx_initImplPostInit: storeRelease(fState, 2)                          *)
PostStore(t, o) ==
  /\ At(t, o, "poststore")
  /\ fState' = [fState EXCEPT ![o] = 2]
  /\ Goto(t, o, IF Platform = "win32" THEN "return" ELSE "postbcast")
  /\ UNCHANGED <<todo, err, fErrCode, built, initMutex>>

PostSignal(t, o) ==
  /\ At(t, o, "postbcast")
  /\ LET asleep == {u \in Threads : pc[u][o] = "waiting"} IN
     IF asleep = {}
     THEN Goto(t, o, "return")
     ELSE \E u \in asleep : pc' = [pc EXCEPT ![t][o] = "return", ![u][o] = "relock"]
  /\ Unlock(t)
  /\ UNCHANGED <<todo, err, fState, fErrCode, built>>

(* pthread_cond_broadcast on the condition shared by all once-controls:    *)
(* every sleeper wakes, whichever once-control it waits for.               *)
PostBroadcast(t, o) ==
  /\ At(t, o, "postbcast")
  /\ pc' = [u \in Threads |-> [p \in Onces |->
              IF u = t /\ p = o THEN "return"
              ELSE IF pc[u][p] = "waiting" THEN "relock" ELSE pc[u][p]]]
  /\ Unlock(t)
  /\ UNCHANGED <<todo, err, fState, fErrCode, built>>

(* The thread that ran the initialiser returns with its own error code.    *)
Return(t, o) ==
  /\ At(t, o, "return")
  /\ Goto(t, o, "idle")
  /\ UNCHANGED <<todo, err, fState, fErrCode, built, initMutex>>

(* Someone else ran the initialiser: take over its failure, and return.    *)
Check(t, o) ==
  /\ At(t, o, "check")
  /\ err' = [err EXCEPT ![t] = IF fErrCode[o] = "fail" THEN "fail" ELSE @]
  /\ Goto(t, o, "idle")
  /\ UNCHANGED <<todo, fState, fErrCode, built, initMutex>>

(* u_cleanup: the clean-up functions free what was built and reset() the   *)
(* once-controls.  The caller guarantees that no thread is using ICU.      *)
(* reset() leaves fErrCode as it is.                                       *)
Cleanup ==
  /\ \A t \in Threads, o \in Onces : pc[t][o] = "idle"
  /\ fState' = [o \in Onces |-> 0]
  /\ built' = [o \in Onces |-> "none"]
  /\ UNCHANGED <<pc, todo, err, fErrCode, initMutex>>
-----------------------------------------------------------------------------
(* The steps a thread inside a call takes by itself.                       *)
Step(t, o) ==
  \/ LoadAcquire(t, o) \/ PreLock(t, o) \/ PreTest(t, o) \/ PreStore(t, o)
  \/ Retest(t, o) \/ CompareExchange(t, o) \/ SleepLoop(t, o)
  \/ (\E d \in Uses[o] : NestedCall(t, o, d))
  \/ FinishInit(t, o) \/ RecordError(t, o) \/ PostLock(t, o)
  \/ PostStore(t, o) \/ PostBroadcast(t, o) \/ Return(t, o) \/ Check(t, o)

Next ==
  \/ \E t \in Threads, o \in Onces :
       Call(t, o) \/ Step(t, o) \/ SpuriousWakeup(t, o)
  \/ Cleanup

Spec == Init /\ [][Next]_vars

(* A thread inside a call keeps running, initialisers terminate, and a     *)
(* thread blocked on the mutex gets it if it is released again and again.  *)
(* Nothing obliges an application to call, or the system to wake a thread  *)
(* spuriously.                                                             *)
Fairness ==
  \A t \in Threads :
    /\ WF_vars(\E o \in Onces : Step(t, o))
    /\ SF_vars(\E o \in Onces : PreLock(t, o) \/ PostLock(t, o))

FairSpec == Spec /\ Fairness
-----------------------------------------------------------------------------
Running(t, o) == pc[t][o] \in {"init", "record", "postlock", "poststore"}

(* A once-control is in state 1 exactly while one thread is between        *)
(* starting the initialiser and publishing its end: no initialiser runs    *)
(* twice, or on two threads (umtx_initImplPreInit, umtx_initImplPostInit). *)
OneInitialiser ==
  \A o \in Onces :
    /\ \A t, u \in Threads : Running(t, o) /\ Running(u, o) => t = u
    /\ fState[o] = 1 <=> \E t \in Threads : Running(t, o)

(* A caller that is about to return sees a finished initialiser and an     *)
(* error code that tells the truth about what it built, also when the code *)
(* recorded before a clean-up was different (umtx_initOnce).               *)
CallersSeeResult ==
  \A t \in Threads, o \in Onces :
    pc[t][o] \in {"check", "postbcast", "return"} =>
      /\ fState[o] = 2
      /\ built[o] = IF fErrCode[o] = "ok" THEN "ready" ELSE "none"

-----------------------------------------------------------------------------
(* The inductive invariant behind the three properties above.              *)

Active(t, o) == pc[t][o] # "idle"

(* The calls of one thread are a chain of nested initialisers: of two      *)
(* active calls the outer one is inside its initialiser, which has called  *)
(* something that is still active and not deeper than the inner one.       *)
StackInv ==
  \A t \in Threads : \A p, q \in Onces :
    Active(t, p) /\ Active(t, q) /\ p # q =>
      /\ Depth[p] # Depth[q]
      /\ Depth[q] < Depth[p] =>
           /\ pc[t][p] = "init"
           /\ \E d \in Uses[p] : Active(t, d) /\ Depth[q] <= Depth[d]

(* The locations inside the critical sections of initMutex.                *)
MutexInv ==
  \A t \in Threads, o \in Onces :
    /\ pc[t][o] \in {"pretest", "prestore", "retest", "postbcast"} => initMutex = t
    /\ pc[t][o] = "poststore" /\ Platform = "posix" => initMutex = t

(* Each build uses its own locations only.                                 *)
BuildInv ==
  \A t \in Threads, o \in Onces :
    /\ pc[t][o] \in {"cas", "sleep"} => Platform = "win32"
    /\ pc[t][o] \in {"prelock", "pretest", "prestore", "waiting", "relock",
                     "retest", "postlock", "postbcast"} => Platform = "posix"

Outcome(e) == IF e = "ok" THEN "ready" ELSE "none"

(* What the locations know about the state of the once-control.            *)
StateInv ==
  /\ \A o \in Onces : fState[o] = 2 => built[o] = Outcome(fErrCode[o])
  /\ \A t \in Threads, o \in Onces :
       /\ pc[t][o] = "prestore" => fState[o] = 0
       /\ pc[t][o] \in {"waiting", "relock", "retest"} => fState[o] # 0
       /\ pc[t][o] \in {"check", "postbcast", "return"} => fState[o] = 2
       /\ pc[t][o] \in {"record", "postlock", "poststore"} => built[o] = Outcome(err[t])
       /\ pc[t][o] \in {"postlock", "poststore", "postbcast", "return"} =>
            fErrCode[o] = err[t]

(* All of it: what a step of umtx_initOnce preserves.                      *)
IInv == TypeOK /\ StackInv /\ MutexInv /\ BuildInv /\ OneInitialiser /\ StateInv

-----------------------------------------------------------------------------
(* The refinement mapping: the outcome is what a finished initialiser      *)
(* recorded, and a location is outside, inside, or running the             *)
(* initialiser.                                                            *)
Outcomes == [o \in Onces |-> IF fState[o] = 2 THEN fErrCode[o] ELSE "none"]

PhaseOf(l) ==
  IF l = "idle" THEN "out"
  ELSE IF l \in {"init", "record", "postlock", "poststore"} THEN "running" ELSE "in"

Phases == [t \in Threads |-> [o \in Onces |-> PhaseOf(pc[t][o])]]

(* The once-control implements its abstract promise: one outcome, decided  *)
(* by one thread, seen by every caller that returns.                       *)
Once == INSTANCE OnceSpec WITH outcome <- Outcomes, phase <- Phases

ImplementsOnce == Once!Spec

(* Every call returns, whoever runs the initialiser and however calls      *)
(* nest: no wake-up is lost between the test of fState and the sleep.      *)
CallReturns ==
  \A t \in Threads :
    (\E o \in Onces : pc[t][o] # "idle") ~> (\A o \in Onces : pc[t][o] = "idle")
=============================================================================
