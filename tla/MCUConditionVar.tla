-------------------------- MODULE MCUConditionVar ---------------------------
(* Threads that wait, broadcast and leave in any order; and, as two other  *)
(* scenes, the waiting in the unified cache: three threads meet on one     *)
(* key, or two on a key whose value is made from that of another.          *)
EXTENDS UConditionVar

CONSTANTS t1, t2, t3, t4, NoValue, Null

VARIABLES
  scene,   \* {"condition", "cache", "nested"}
  total, soft, alive, holds, table, frame, value, status, ptr, of, writing,
  doomed, gCacheMutex, flushing, visit, found, hit, quiet, calls

cacheVars == <<total, soft, alive, holds, table, frame, value, status, ptr, of, writing,
               doomed, gCacheMutex, flushing, visit, found, hit, quiet, calls>>

Cache == INSTANCE UnifiedCache
           WITH Threads <- {t1, t2, t3}, Keys <- {"en"}, Objs <- {"x1", "x2"},
                DepOf <- [k \in {"en"} |-> Null], Level <- [k \in {"en"} |-> 0],
                MaxCalls <- 1, Failures <- {"put"}, pc <- frame, mutex <- gCacheMutex

Nested == INSTANCE UnifiedCache
           WITH Threads <- {t1, t2}, Keys <- {"en", "en_US"}, Objs <- {"x1", "x2"},
                DepOf <- [k \in {"en", "en_US"} |-> IF k = "en_US" THEN "en" ELSE Null],
                Level <- [k \in {"en", "en_US"} |-> IF k = "en_US" THEN 1 ELSE 0],
                MaxCalls <- 1, Failures <- {"put"}, pc <- frame, mutex <- gCacheMutex

SceneInit ==
  /\ Init
  /\ \/ scene \in {"condition", "cache"} /\ Cache!Init
     \/ scene = "nested" /\ Nested!Init

(* Whatever does not take part in a scene stays as it was initialised.     *)
SceneNext ==
  /\ \/ scene = "condition" /\ Next /\ UNCHANGED cacheVars
     \/ scene = "cache" /\ Cache!Next /\ UNCHANGED vars
     \/ scene = "nested" /\ Nested!Next /\ UNCHANGED vars
  /\ UNCHANGED scene

(* One strong fairness condition per thread does for the ones of each      *)
(* module: a thread is at one place at a time, and a step that does not    *)
(* compete for a mutex or a gate stays enabled until it is taken.          *)
Moves(t) ==
  /\ \/ /\ scene = "condition" /\ UNCHANGED cacheVars
        /\ \/ Unlock(t) \/ CondWait(t) \/ CountOut(t) \/ WaitReturns(t)
           \/ PassEntry(t) \/ PassExit(t)
     \/ scene = "cache" /\ t # t4 /\ Cache!Step(t) /\ UNCHANGED vars
     \/ scene = "nested" /\ t \in {t1, t2} /\ Nested!Step(t) /\ UNCHANGED vars
  /\ UNCHANGED scene

SceneSpec ==
  /\ SceneInit /\ [][SceneNext]_<<scene, vars, cacheVars>>
  /\ \A t \in Threads : SF_<<scene, vars, cacheVars>>(Moves(t))

(* Every call of UnifiedCache::get returns, although flush evicts          *)
(* placeholders, createObject calls get() again and there may be no memory *)
(* for the entry of a value.                                               *)
GetReturns ==
  \A t \in {t1, t2, t3} :
    LET idle == t \in DOMAIN frame => \A k \in DOMAIN frame[t] : frame[t][k] = "idle"
    IN ~idle ~> idle
=============================================================================
