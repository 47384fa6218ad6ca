---------------------------- MODULE MCUInitOnce -----------------------------
(* Small instances of UInitOnce: the initialiser of the unified cache uses *)
(* one other once-control.  The library is built for pthreads or, with     *)
(* interlocked operations, for Windows; build says which.                  *)
EXTENDS UInitOnce, TLC

CONSTANTS t1, t2, t3

MCUses == [o \in Onces |-> IF o = "cache" THEN {"table"} ELSE {}]

MCDepth == [o \in Onces |-> IF o = "cache" THEN 1 ELSE 0]

VARIABLE build

Windows == INSTANCE UInitOnce WITH Platform <- "win32"

buildVars == <<vars, build>>

BuildInit == Init /\ build \in {"posix", "win32"}

BuildNext ==
  /\ \/ build = "posix" /\ Next
     \/ build = "win32" /\ Windows!Next
  /\ UNCHANGED build

BuildStep(t) ==
  /\ \E o \in Onces : \/ build = "posix" /\ Step(t, o)
                      \/ build = "win32" /\ Windows!Step(t, o)
  /\ UNCHANGED build

BuildLock(t) ==
  /\ build = "posix" /\ \E o \in Onces : PreLock(t, o) \/ PostLock(t, o)
  /\ UNCHANGED build

BuildSpec ==
  /\ BuildInit
  /\ [][BuildNext]_buildVars
  /\ \A t \in Threads : WF_buildVars(BuildStep(t)) /\ SF_buildVars(BuildLock(t))

=============================================================================
