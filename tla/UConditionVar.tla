--------------------------- MODULE UConditionVar ----------------------------
(***************************************************************************)
(* The condition variable that ICU builds from two Windows events          *)
(* (umutex.cpp, the U_PLATFORM_HAS_WIN32_API branch).                      *)
(*                                                                         *)
(* A waiter stops at the entry gate until a broadcast opens it, and then   *)
(* at the exit gate until everybody has come through the entry gate.  The  *)
(* last one through shuts the entry gate and opens the exit gate.  The     *)
(* wait count is only touched under the mutex; the gates are tested        *)
(* without it.                                                             *)
(***************************************************************************)
EXTENDS Integers, FiniteSets

CONSTANTS
  Threads,
  None      \* no owner

ASSUME CondAssumption ==
  /\ IsFiniteSet(Threads)
  /\ None \notin Threads

VARIABLES
  pc,          \* [Threads -> Loc]
  mutex,       \* Threads \cup {None}: the mutex the callers associate with it
  fWaitCount,  \* threads between the two sides of the entry gate
  fEntryGate,  \* {"null", "closed", "open"}: a manual-reset event
  fExitGate,
  passed       \* history: who came through since the entry gate last opened

vars == <<pc, mutex, fWaitCount, fEntryGate, fExitGate, passed>>

Loc == {"out",        \* outside the critical section
        "critical",   \* holding the mutex: may wait, broadcast or unlock
        "entry",      \* in condWait, at the entry gate
        "entrylock",  \* through the entry gate, taking the mutex back
        "exit",       \* counted out, at the exit gate
        "exitlock"}   \* through the exit gate, taking the mutex back

Gate == {"null", "closed", "open"}

TypeOK ==
  /\ pc \in [Threads -> Loc]
  /\ mutex \in Threads \cup {None}
  /\ fWaitCount \in Int
  /\ fEntryGate \in Gate
  /\ fExitGate \in Gate
  /\ passed \subseteq Threads

Init ==
  /\ pc = [t \in Threads |-> "out"]
  /\ mutex = None
  /\ fWaitCount = 0
  /\ fEntryGate = "null"
  /\ fExitGate = "null"
  /\ passed = {}
-----------------------------------------------------------------------------
Goto(t, l) == pc' = [pc EXCEPT ![t] = l]

(* umtx_lock and umtx_unlock around the caller's test of its condition.    *)
Lock(t) ==
  /\ pc[t] = "out"
  /\ mutex = None
  /\ mutex' = t
  /\ Goto(t, "critical")
  /\ UNCHANGED <<fWaitCount, fEntryGate, fExitGate, passed>>

Unlock(t) ==
  /\ pc[t] = "critical"
  /\ mutex' = None
  /\ Goto(t, "out")
  /\ UNCHANGED <<fWaitCount, fEntryGate, fExitGate, passed>>

(* umtx_condBroadcast, which requires the mutex: shut the exit gate and    *)
(* open the entry gate, unless nobody waits.                               *)
CondBroadcast(t) ==
  /\ pc[t] = "critical"
  /\ fWaitCount # 0
  /\ fExitGate' = "closed"
  /\ fEntryGate' = "open"
  /\ passed' = IF fEntryGate = "open" THEN passed ELSE {}
  /\ UNCHANGED <<pc, mutex, fWaitCount>>

(* umtx_condWait up to the entry gate.  The gates are created by the first *)
(* waiter, the entry gate shut and the exit gate open.                     *)
CondWait(t) ==
  /\ pc[t] = "critical"
  /\ IF fEntryGate = "null"
     THEN fEntryGate' = "closed" /\ fExitGate' = "open"
     ELSE UNCHANGED <<fEntryGate, fExitGate>>
  /\ fWaitCount' = fWaitCount + 1
  /\ mutex' = None
  /\ Goto(t, "entry")
  /\ UNCHANGED passed

PassEntry(t) ==
  /\ pc[t] = "entry"
  /\ fEntryGate = "open"
  /\ passed' = passed \cup {t}
  /\ Goto(t, "entrylock")
  /\ UNCHANGED <<mutex, fWaitCount, fEntryGate, fExitGate>>

CountOutNoExitGate(t) ==
  /\ pc[t] = "entrylock"
  /\ mutex = None
  /\ mutex' = t
  /\ fWaitCount' = fWaitCount - 1
  /\ IF fWaitCount' = 0
     THEN fEntryGate' = "closed" /\ fExitGate' = "open"
     ELSE UNCHANGED <<fEntryGate, fExitGate>>
  /\ Goto(t, "critical")
  /\ UNCHANGED passed

CountOutKeepsEntry(t) ==
  /\ pc[t] = "entrylock"
  /\ mutex = None
  /\ fWaitCount' = fWaitCount - 1
  /\ IF fWaitCount' = 0
     THEN /\ fExitGate' = "open"
          /\ mutex' = t
          /\ Goto(t, "critical")
          /\ UNCHANGED fEntryGate
     ELSE /\ Goto(t, "exit")
          /\ UNCHANGED <<mutex, fEntryGate, fExitGate>>
  /\ UNCHANGED passed

CountOutAlwaysWaits(t) ==
  /\ pc[t] = "entrylock"
  /\ mutex = None
  /\ fWaitCount' = fWaitCount - 1
  /\ Goto(t, "exit")
  /\ UNCHANGED <<mutex, fEntryGate, fExitGate, passed>>

(* Back under the mutex, the thread counts itself out.  The last one turns *)
(* the gates round and returns, holding the mutex; the others give the     *)
(* mutex up again and stop at the exit gate.                               *)
CountOut(t) ==
  /\ pc[t] = "entrylock"
  /\ mutex = None
  /\ fWaitCount' = fWaitCount - 1
  /\ IF fWaitCount' = 0
     THEN /\ fEntryGate' = "closed"
          /\ fExitGate' = "open"
          /\ mutex' = t
          /\ Goto(t, "critical")
     ELSE /\ Goto(t, "exit")
          /\ UNCHANGED <<mutex, fEntryGate, fExitGate>>
  /\ UNCHANGED passed

PassExit(t) ==
  /\ pc[t] = "exit"
  /\ fExitGate = "open"
  /\ Goto(t, "exitlock")
  /\ UNCHANGED <<mutex, fWaitCount, fEntryGate, fExitGate, passed>>

(* umtx_condWait takes the mutex back for the last time and returns.       *)
WaitReturns(t) ==
  /\ pc[t] = "exitlock"
  /\ mutex = None
  /\ mutex' = t
  /\ Goto(t, "critical")
  /\ UNCHANGED <<fWaitCount, fEntryGate, fExitGate, passed>>

Next ==
  \E t \in Threads :
    \/ Lock(t) \/ Unlock(t) \/ CondBroadcast(t) \/ CondWait(t)
    \/ PassEntry(t) \/ CountOut(t) \/ PassExit(t) \/ WaitReturns(t)

Spec == Init /\ [][Next]_vars

(* Nobody keeps the mutex for ever, a thread that wants it back gets it if *)
(* it is free again and again, and a thread that waits on an event is      *)
(* released if the event is set again and again.  Nobody has to lock, and  *)
(* nobody has to broadcast.                                                *)
Fairness ==
  \A t \in Threads :
    /\ WF_vars(Unlock(t) \/ CondWait(t))
    /\ SF_vars(CountOut(t) \/ WaitReturns(t))
    /\ SF_vars(PassEntry(t) \/ PassExit(t))

FairSpec == Spec /\ Fairness
-----------------------------------------------------------------------------
Counted == {t \in Threads : pc[t] \in {"entry", "entrylock"}}

(* fWaitCount is the number of threads that still have to come through     *)
(* the entry gate and count themselves out (umtx_condWait).                *)
WaitCountExact == fWaitCount = Cardinality(Counted)

(* The gates are never both shut with a waiter between them: the exit gate *)
(* is shut only while the entry gate is open and somebody is still to come *)
(* through, who will open it; and a thread that has come through finds the *)
(* entry gate still open when it counts itself out (umtx_condWait).        *)
NobodyTrapped ==
  /\ fEntryGate = "null" <=> fExitGate = "null"
  /\ fEntryGate = "open" <=> fExitGate = "closed"
  /\ fEntryGate = "open" => Counted # {}
  /\ \A t \in Threads : pc[t] = "entrylock" => fEntryGate = "open"
  /\ \A t \in Threads : pc[t] \in {"entry", "exit"} => fEntryGate # "null"

(* One broadcast wakes a thread once: a thread that waits again is never   *)
(* let through by the broadcast that woke it, which would steal the        *)
(* wake-up of a slower thread.  This is what the exit gate is for.         *)
WokenOncePerBroadcast ==
  \A t \in Threads : pc[t] = "entry" /\ fEntryGate = "open" => t \notin passed

(* The mutex is held exactly by the thread in the critical section.        *)
MutexHeld == \A t \in Threads : pc[t] = "critical" <=> mutex = t

(* While the entry gate is open, those who came through are on their way   *)
(* out and cannot have returned.                                           *)
PassedStillInside ==
  fEntryGate = "open" => \A t \in passed : pc[t] \in {"entrylock", "exit"}

(* The inductive invariant behind the properties above: what every step of *)
(* umtx_condWait and umtx_condBroadcast preserves.                         *)
IInv == TypeOK /\ WaitCountExact /\ NobodyTrapped /\ MutexHeld /\ PassedStillInside

(* Every thread that waits when a broadcast comes returns from condWait,   *)
(* whatever arrives or is broadcast while it is on its way out.            *)
BroadcastWakesAll ==
  \A t \in Threads :
    (pc[t] = "entry" /\ fEntryGate = "open") ~> (pc[t] = "critical")
=============================================================================
