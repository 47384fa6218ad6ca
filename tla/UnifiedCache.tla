---------------------------- MODULE UnifiedCache ----------------------------
(***************************************************************************)
(* The unified cache and the reference counts of its values                *)
(* (unifiedcache.cpp, unifiedcache.h, sharedobject.cpp, sharedobject.h).   *)
(*                                                                         *)
(* A thread inside UnifiedCache::get has one frame per key, because        *)
(* createObject may itself get the value of another key.  The first thread *)
(* to miss a key leaves a placeholder (gNoValue, U_ZERO_ERROR) in the      *)
(* table and creates the value without the mutex; the others wait on the   *)
(* condition.  flush() may evict the placeholder meanwhile.                *)
(*                                                                         *)
(* A value is freed by the removeRef that brings its count to zero; its    *)
(* destructor then gives up the reference it holds on another value.       *)
(* The critical sections of gCacheMutex are single steps, except where     *)
(* counts are dropped inside one (flush, and replacing a value that then   *)
(* dies): other threads release references meanwhile.                      *)
(***************************************************************************)
EXTENDS Integers, FiniteSets

CONSTANTS
  Threads,
  Keys,
  DepOf,      \* [Keys -> Keys \cup {Null}]: the key createObject itself gets
  Level,      \* [Keys -> Nat]: createObject only goes down
  Objs,       \* addresses of values; a freed one may be used again
  NoValue,    \* gNoValue
  Null,
  MaxCalls,   \* bound: calls of get, flush and u_cleanup per thread
  Failures    \* subset of {"create", "put"}: which allocations may fail

ASSUME CacheAssumption ==
  /\ DepOf \in [Keys -> Keys \cup {Null}]
  /\ Level \in [Keys -> Nat]
  /\ \A k \in Keys : DepOf[k] # Null => Level[DepOf[k]] < Level[k]
  /\ NoValue \notin Objs /\ Null \notin Objs \cup Keys \cup Threads \cup {NoValue}
  /\ IsFiniteSet(Threads) /\ IsFiniteSet(Keys) /\ IsFiniteSet(Objs)
  /\ MaxCalls \in Nat
  /\ Failures \subseteq {"create", "put"}

VARIABLES
  total, soft,  \* [Values -> Nat]: totalRefCount, softRefCount
  alive,        \* SUBSET Objs: allocated and not yet deleted
  holds,        \* [Objs -> Objs \cup {Null}]: the value an object refers to
  table,        \* [Keys -> Absent or an entry]: fHashtable
  pc,           \* [Threads -> [Keys -> Loc]]: the frames of get()
  value,        \* [Threads -> [Keys -> Values \cup {Null}]]: local of a frame
  status,       \* [Threads -> [Keys -> {"ok", "fail"}]]: local of a frame
  ptr,          \* [Threads -> Objs \cup {Null}]: the client's pointer
  of,           \* [Threads -> Keys \cup {Null}]: history, the key ptr is for
  writing,      \* [Threads -> {"no", "inplace", "clone"}]: in copyOnWrite
  doomed,       \* [Threads -> Objs \cup {Null}]: what the thread is deleting
  mutex,        \* Threads \cup {Null}: gCacheMutex, when held across steps
  flushing,     \* {"no", "flush", "cleanup", "wipe"}
  visit,        \* SUBSET Keys: what the pass of _flush has still to look at
  found,        \* Keys \cup {Null}: the entry about to be removed
  hit,          \* BOOLEAN: result of _flush
  quiet,        \* BOOLEAN: history, nobody else dropped a reference in this pass
  calls         \* [Threads -> 0 .. MaxCalls]: calls left

refs == <<total, soft, alive, holds>>
frames == <<pc, value, status>>
client == <<ptr, of, writing>>
flushVars == <<flushing, visit, found, hit>>
vars == <<refs, table, frames, client, doomed, mutex, flushVars, quiet, calls>>

Values == Objs \cup {NoValue}
Absent == [val |-> Null, status |-> "ok"]
Entry == [val : Values, status : {"ok", "fail"}] \cup {Absent}
Loc == {"idle", "poll", "waiting", "create", "nested", "build", "put", "ret"}

(* Everything but the counts, whose being natural is a result.             *)
Typed ==
  /\ alive \subseteq Objs
  /\ holds \in [Objs -> Objs \cup {Null}]
  /\ table \in [Keys -> Entry]
  /\ pc \in [Threads -> [Keys -> Loc]]
  /\ value \in [Threads -> [Keys -> Values \cup {Null}]]
  /\ status \in [Threads -> [Keys -> {"ok", "fail"}]]
  /\ ptr \in [Threads -> Objs \cup {Null}]
  /\ of \in [Threads -> Keys \cup {Null}]
  /\ writing \in [Threads -> {"no", "inplace", "clone"}]
  /\ doomed \in [Threads -> Objs \cup {Null}]
  /\ mutex \in Threads \cup {Null}
  /\ flushing \in {"no", "flush", "cleanup", "wipe"}
  /\ visit \subseteq Keys /\ found \in Keys \cup {Null}
  /\ hit \in BOOLEAN /\ quiet \in BOOLEAN
  /\ calls \in [Threads -> 0 .. MaxCalls]

TypeOK == total \in [Values -> Nat] /\ soft \in [Values -> Nat] /\ Typed

(* cacheInit: an empty table, and gNoValue with a soft reference that is   *)
(* never given up.                                                         *)
Init ==
  /\ total = [x \in Values |-> IF x = NoValue THEN 1 ELSE 0]
  /\ soft = total
  /\ alive = {}
  /\ holds = [x \in Objs |-> Null]
  /\ table = [k \in Keys |-> Absent]
  /\ pc = [t \in Threads |-> [k \in Keys |-> "idle"]]
  /\ value = [t \in Threads |-> [k \in Keys |-> Null]]
  /\ status = [t \in Threads |-> [k \in Keys |-> "ok"]]
  /\ ptr = [t \in Threads |-> Null]
  /\ of = [t \in Threads |-> Null]
  /\ writing = [t \in Threads |-> "no"]
  /\ doomed = [t \in Threads |-> Null]
  /\ mutex = Null
  /\ flushing = "no" /\ visit = {} /\ found = Null /\ hit = FALSE /\ quiet = TRUE
  /\ calls = [t \in Threads |-> MaxCalls]
-----------------------------------------------------------------------------
Goto(t, k, l) == pc' = [pc EXCEPT ![t][k] = l]

Present == {k \in Keys : table[k] # Absent}

AllSoftAnySoft(x) == soft[x] > 0

(* SharedObject::allSoftReferences                                         *)
AllSoftReferences(x) == total[x] = soft[x]

InProgressByValue(e) == e.val = NoValue

(* UnifiedCache::_inProgress                                               *)
InProgress(e) == e.val = NoValue /\ e.status = "ok"

SoleOwnerOffByOne(x) == total[x] <= 2

(* The test of SharedObject::copyOnWrite                                   *)
SoleOwner(x) == total[x] <= 1

(* Thread t gains one reference to each value of gain and gives up one to  *)
(* each value of lose, deleting the value whose count reaches zero.        *)
Counted(gain, lose) ==
  [x \in Values |-> total[x] + (IF x \in gain THEN 1 ELSE 0) - (IF x \in lose THEN 1 ELSE 0)]

References(t, gain, lose) ==
  LET dead == {x \in Objs \cap lose : Counted(gain, lose)[x] = 0} IN
  /\ total' = Counted(gain, lose)
  /\ doomed' = [doomed EXCEPT ![t] = IF dead = {} THEN Null ELSE CHOOSE x \in dead : TRUE]
  /\ quiet' = (flushing = "no" \/ (quiet /\ (lose \cap Values = {} \/ mutex = t)))

NoReferences == UNCHANGED <<total, doomed, quiet>>

(* umtx_condBroadcast(&gInProgressValueAddedCond)                          *)
Woken(p) == [t \in Threads |-> [k \in Keys |->
               IF p[t][k] = "waiting" THEN "poll" ELSE p[t][k]]]

(* A thread outside the library, and nobody is cleaning up.                *)
Idle(t) ==
  /\ \A k \in Keys : pc[t][k] = "idle"
  /\ doomed[t] = Null /\ mutex # t
  /\ flushing \notin {"cleanup", "wipe"}

At(t, k, l) == pc[t][k] = l /\ doomed[t] = Null /\ mutex # t
-----------------------------------------------------------------------------
(* UnifiedCache::get(key, ptr, status) from a client.                      *)
Get(t, k) ==
  /\ Idle(t) /\ writing[t] = "no"
  /\ calls[t] > 0
  /\ calls' = [calls EXCEPT ![t] = @ - 1]
  /\ Goto(t, k, "poll")
  /\ UNCHANGED <<refs, table, value, status, client, doomed, mutex, flushVars, quiet>>

PollNoReference(t, k) ==
  /\ At(t, k, "poll")
  /\ mutex = Null
  /\ IF table[k] = Absent
     THEN /\ table' = [table EXCEPT ![k] = [val |-> NoValue, status |-> "ok"]]
          /\ References(t, {NoValue}, {})
          /\ soft' = [soft EXCEPT ![NoValue] = @ + 1]
          /\ Goto(t, k, "create")
          /\ UNCHANGED <<value, status>>
     ELSE IF InProgress(table[k])
     THEN Goto(t, k, "waiting") /\ UNCHANGED <<table, soft, value, status>> /\ NoReferences
     ELSE /\ value' = [value EXCEPT ![t][k] = table[k].val]
          /\ status' = [status EXCEPT ![t][k] = table[k].status]
          /\ Goto(t, k, "ret")
          /\ NoReferences
          /\ UNCHANGED <<table, soft>>
  /\ UNCHANGED <<alive, holds, client, mutex, flushVars, calls>>

(* _poll, from taking the mutex to returning or to sleeping: fetch what is *)
(* in the table, wait for a value in progress, or leave a placeholder.  If *)
(* there is no memory for the placeholder, get() fails.                    *)
Poll(t, k) ==
  /\ At(t, k, "poll")
  /\ mutex = Null
  /\ \/ /\ InProgress(table[k])
        /\ Goto(t, k, "waiting")
        /\ UNCHANGED <<table, soft, value, status>> /\ NoReferences
     \/ /\ table[k] # Absent /\ ~InProgress(table[k])
        /\ value' = [value EXCEPT ![t][k] = table[k].val]
        /\ status' = [status EXCEPT ![t][k] = table[k].status]
        /\ References(t, {table[k].val}, {})
        /\ Goto(t, k, "ret")
        /\ UNCHANGED <<table, soft>>
     \/ /\ table[k] = Absent
        /\ table' = [table EXCEPT ![k] = [val |-> NoValue, status |-> "ok"]]
        /\ References(t, {NoValue}, {})
        /\ soft' = [soft EXCEPT ![NoValue] = @ + 1]
        /\ Goto(t, k, "create")
        /\ UNCHANGED <<value, status>>
     \/ /\ table[k] = Absent /\ "put" \in Failures
        /\ status' = [status EXCEPT ![t][k] = "fail"]
        /\ Goto(t, k, "ret")
        /\ UNCHANGED <<table, soft, value>> /\ NoReferences
  /\ UNCHANGED <<alive, holds, client, mutex, flushVars, calls>>

SpuriousWakeup(t, k) ==
  /\ At(t, k, "waiting")
  /\ Goto(t, k, "poll")
  /\ UNCHANGED <<refs, table, value, status, client, doomed, mutex, flushVars, quiet, calls>>

(* createObject gets the value of another key first.                       *)
NestedGet(t, k) ==
  /\ At(t, k, "create") /\ DepOf[k] # Null
  /\ pc' = [pc EXCEPT ![t][k] = "nested", ![t][DepOf[k]] = "poll"]
  /\ UNCHANGED <<refs, table, value, status, client, doomed, mutex, flushVars, quiet, calls>>

(* The rest of createObject, whose local pointer is value[t][k]: it        *)
(* returns a new value that keeps what it got, or just what it got, or     *)
(* NULL and a failure, for which _get substitutes gNoValue.                *)
Build(t, k) ==
  /\ At(t, k, "build") \/ (At(t, k, "create") /\ DepOf[k] = Null)
  /\ \/ \E x \in Objs \ alive :
          /\ alive' = alive \cup {x}
          /\ holds' = [holds EXCEPT ![x] = value[t][k]]
          /\ References(t, {x}, {})
          /\ value' = [value EXCEPT ![t][k] = x]
          /\ UNCHANGED status
     \/ /\ value[t][k] # Null
        /\ UNCHANGED <<alive, holds, value, status>> /\ NoReferences
     \/ /\ "create" \in Failures \/ alive = Objs
        /\ References(t, {NoValue}, {value[t][k]})
        /\ value' = [value EXCEPT ![t][k] = NoValue]
        /\ status' = [status EXCEPT ![t][k] = "fail"]
        /\ UNCHANGED <<alive, holds>>
  /\ Goto(t, k, "put")
  /\ UNCHANGED <<soft, table, client, mutex, flushVars, calls>>

(* _putIfAbsentAndGet: take over what another thread has put there         *)
(* meanwhile (_fetch), or put the value where there is nothing (_putNew,   *)
(* which may fail unnoticed), or replace the placeholder and wake the      *)
(* waiters (_put).                                                         *)
PutIfAbsentAndGet(t, k) ==
  LET e == table[k]
      v == value[t][k]
      put == [table EXCEPT ![k] = [val |-> v, status |-> status[t][k]]]
  IN
  /\ At(t, k, "put")
  /\ mutex = Null
  /\ \/ /\ e # Absent /\ ~InProgress(e)
        /\ References(t, {e.val}, {v})
        /\ value' = [value EXCEPT ![t][k] = e.val]
        /\ status' = [status EXCEPT ![t][k] = e.status]
        /\ Goto(t, k, "ret")
        /\ UNCHANGED <<table, soft>>
     \/ /\ e = Absent
        /\ table' = put
        /\ References(t, {v}, {})
        /\ soft' = [soft EXCEPT ![v] = @ + 1]
        /\ Goto(t, k, "ret")
        /\ UNCHANGED <<value, status>>
     \/ /\ e = Absent /\ "put" \in Failures
        /\ Goto(t, k, "ret")
        /\ UNCHANGED <<table, soft, value, status>> /\ NoReferences
     \/ /\ InProgress(e)
        /\ table' = put
        /\ References(t, {v}, {NoValue})
        /\ soft' = [x \in Values |-> soft[x] + (IF x = v THEN 1 ELSE 0)
                                             - (IF x = NoValue THEN 1 ELSE 0)]
        /\ pc' = [Woken(pc) EXCEPT ![t][k] = "ret"]
        /\ UNCHANGED <<value, status>>
  /\ mutex' = IF doomed'[t] = Null THEN Null ELSE t
  /\ UNCHANGED <<alive, holds, client, flushVars, calls>>

(* The end of get(): gNoValue becomes NULL, a value goes to the caller's   *)
(* pointer, which gives up what it pointed to, and a failure leaves the    *)
(* pointer alone.  The caller is createObject or the client.               *)
Return(t, k) ==
  LET v == value[t][k]
      outer == {p \in Keys : pc[t][p] = "nested" /\ DepOf[p] = k}
      ok == status[t][k] = "ok"
  IN
  /\ At(t, k, "ret")
  /\ pc' = [pc EXCEPT ![t] = [p \in Keys |->
              IF p = k THEN "idle" ELSE IF p \in outer THEN "build" ELSE @[p]]]
  /\ value' = [value EXCEPT ![t] = [p \in Keys |->
                 IF p = k THEN Null ELSE IF p \in outer /\ ok THEN v ELSE @[p]]]
  /\ status' = [status EXCEPT ![t][k] = "ok"]
  /\ IF outer = {} /\ ok
     THEN /\ ptr' = [ptr EXCEPT ![t] = v]
          /\ of' = [of EXCEPT ![t] = k]
          /\ References(t, {}, {ptr[t]})
     ELSE References(t, {}, {v} \cap {NoValue}) /\ UNCHANGED <<ptr, of>>
  /\ UNCHANGED <<soft, alive, holds, table, writing, mutex, flushVars, calls>>
-----------------------------------------------------------------------------
(* Deleting a value: its destructor gives up the reference it holds.  A    *)
(* thread that replaced a value in the table then gives the mutex back.    *)
Destroy(t) ==
  LET x == doomed[t] IN
  /\ x # Null
  /\ alive' = alive \ {x}
  /\ holds' = [holds EXCEPT ![x] = Null]
  /\ References(t, {}, {holds[x]})
  /\ mutex' = IF mutex = t /\ flushing = "no" /\ doomed'[t] = Null THEN Null ELSE mutex
  /\ UNCHANGED <<soft, table, frames, client, flushVars, calls>>

(* SharedObject::clearPtr by a client.                                     *)
Release(t) ==
  /\ Idle(t) /\ writing[t] = "no"
  /\ ptr[t] # Null
  /\ References(t, {}, {ptr[t]})
  /\ ptr' = [ptr EXCEPT ![t] = Null]
  /\ of' = [of EXCEPT ![t] = Null]
  /\ UNCHANGED <<soft, alive, holds, table, frames, writing, mutex, flushVars, calls>>

(* SharedObject::copyPtr from another client's pointer, as in the copy     *)
(* constructors of the formatters.                                         *)
CopyPtr(t, u) ==
  /\ Idle(t) /\ writing[t] = "no"
  /\ Idle(u) /\ writing[u] = "no"
  /\ ptr[u] # Null /\ ptr[u] # ptr[t]
  /\ References(t, {ptr[u]}, {ptr[t]})
  /\ ptr' = [ptr EXCEPT ![t] = ptr[u]]
  /\ of' = [of EXCEPT ![t] = of[u]]
  /\ UNCHANGED <<soft, alive, holds, table, frames, writing, mutex, flushVars, calls>>

(* SharedObject::copyOnWrite: the test of the count ...                    *)
CopyOnWriteTest(t) ==
  /\ Idle(t) /\ writing[t] = "no"
  /\ ptr[t] # Null
  /\ writing' = [writing EXCEPT ![t] = IF SoleOwner(ptr[t]) THEN "inplace" ELSE "clone"]
  /\ UNCHANGED <<refs, table, frames, ptr, of, doomed, mutex, flushVars, quiet, calls>>

(* ... then the caller writes, or a clone replaces the pointer first.  The *)
(* result is no longer the value of a key.  Without memory for the clone   *)
(* copyOnWrite returns NULL and changes nothing.                           *)
CopyOnWrite(t) ==
  /\ Idle(t)
  /\ writing' = [writing EXCEPT ![t] = "no"]
  /\ \/ /\ writing[t] = "inplace"
        /\ of' = [of EXCEPT ![t] = Null]
        /\ UNCHANGED <<ptr, alive, holds>> /\ NoReferences
     \/ /\ writing[t] = "clone"
        /\ \E x \in Objs \ alive :
             /\ alive' = alive \cup {x}
             /\ holds' = [holds EXCEPT ![x] = holds[ptr[t]]]
             /\ References(t, {x, holds[ptr[t]]}, {ptr[t]})
             /\ ptr' = [ptr EXCEPT ![t] = x]
             /\ of' = [of EXCEPT ![t] = Null]
     \/ /\ writing[t] = "clone" /\ alive = Objs
        /\ UNCHANGED <<ptr, of, alive, holds>> /\ NoReferences
  /\ UNCHANGED <<soft, table, frames, mutex, flushVars, calls>>
-----------------------------------------------------------------------------
(* flush(): lock, then passes of _flush(FALSE).                            *)
FlushBegin(t) ==
  /\ Idle(t) /\ writing[t] = "no"
  /\ mutex = Null /\ mutex' = t
  /\ calls[t] > 0
  /\ calls' = [calls EXCEPT ![t] = @ - 1]
  /\ flushing' = "flush"
  /\ visit' = Present /\ hit' = FALSE /\ quiet' = TRUE
  /\ UNCHANGED <<refs, table, frames, client, doomed, found>>

(* unifiedcache_cleanup deletes the cache, whose destructor flushes it.    *)
(* u_cleanup is only called when no other thread is using ICU.             *)
CleanupBegin(t) ==
  /\ \A u \in Threads : Idle(u) /\ writing[u] = "no"
  /\ mutex = Null /\ mutex' = t
  /\ calls[t] > 0
  /\ calls' = [calls EXCEPT ![t] = @ - 1]
  /\ flushing' = "cleanup"
  /\ visit' = Present /\ hit' = FALSE /\ quiet' = TRUE
  /\ UNCHANGED <<refs, table, frames, client, doomed, found>>

(* _flush looks at an entry; the hash table is iterated in some order.     *)
FlushTest(t, k) ==
  /\ mutex = t /\ flushing # "no" /\ doomed[t] = Null
  /\ found = Null
  /\ k \in visit
  /\ visit' = visit \ {k}
  /\ found' = IF flushing = "wipe" \/ AllSoftReferences(table[k].val) THEN k ELSE Null
  /\ UNCHANGED <<refs, table, frames, client, doomed, mutex, flushing, hit, quiet, calls>>

(* ... and removes it, with its soft reference.                            *)
FlushEvict(t) ==
  /\ mutex = t /\ doomed[t] = Null
  /\ found # Null
  /\ table' = [table EXCEPT ![found] = Absent]
  /\ soft' = [soft EXCEPT ![table[found].val] = @ - 1]
  /\ References(t, {}, {table[found].val})
  /\ found' = Null /\ hit' = TRUE
  /\ UNCHANGED <<alive, holds, frames, client, mutex, flushing, visit, calls>>

FlushEndSilent(t) ==
  /\ mutex = t /\ flushing # "no" /\ doomed[t] = Null
  /\ visit = {} /\ found = Null
  /\ \/ /\ hit /\ flushing # "wipe"
        /\ visit' = Present /\ hit' = FALSE /\ quiet' = TRUE
        /\ UNCHANGED <<total, soft, pc, of, mutex, flushing>>
     \/ /\ ~hit /\ flushing = "flush"
        /\ flushing' = "no" /\ mutex' = Null /\ quiet' = TRUE
        /\ UNCHANGED <<total, soft, pc, of, visit, hit>>
  /\ UNCHANGED <<alive, holds, table, value, status, ptr, writing, doomed, found, calls>>

FlushEndOnePass(t) ==
  /\ mutex = t /\ flushing # "no" /\ doomed[t] = Null
  /\ visit = {} /\ found = Null
  /\ flushing' = "no" /\ mutex' = Null /\ hit' = FALSE /\ quiet' = TRUE
  /\ pc' = Woken(pc)
  /\ UNCHANGED <<total, soft, alive, holds, table, value, status, client, doomed, found,
                 visit, calls>>

(* The end of a pass: another one while the last removed something; then   *)
(* the waiters are woken and the mutex is released.  The destructor of the *)
(* cache goes on with _flush(TRUE), after which gNoValue is deleted; the   *)
(* next cacheInit makes a new one.                                         *)
FlushPassEnd(t) ==
  /\ mutex = t /\ flushing # "no" /\ doomed[t] = Null
  /\ visit = {} /\ found = Null
  /\ hit' = FALSE /\ quiet' = TRUE
  /\ \/ /\ hit /\ flushing # "wipe"
        /\ visit' = Present
        /\ UNCHANGED <<total, soft, pc, of, mutex, flushing>>
     \/ /\ ~hit /\ flushing = "flush"
        /\ pc' = Woken(pc)
        /\ flushing' = "no" /\ mutex' = Null
        /\ UNCHANGED <<total, soft, of, visit>>
     \/ /\ ~hit /\ flushing = "cleanup"
        /\ pc' = Woken(pc)
        /\ flushing' = "wipe"
        /\ visit' = Present
        /\ UNCHANGED <<total, soft, of, mutex>>
     \/ /\ flushing = "wipe"
        /\ total' = [total EXCEPT ![NoValue] = 1]
        /\ soft' = [soft EXCEPT ![NoValue] = 1]
        /\ of' = [u \in Threads |-> Null]
        /\ flushing' = "no" /\ mutex' = Null
        /\ UNCHANGED <<pc, visit>>
  /\ UNCHANGED <<alive, holds, table, value, status, ptr, writing, doomed, found, calls>>
-----------------------------------------------------------------------------
Locked(t, k) == Poll(t, k) \/ PutIfAbsentAndGet(t, k)

(* The steps of a thread that is inside the library.                       *)
Step(t) ==
  \/ \E k \in Keys : \/ Locked(t, k) \/ NestedGet(t, k) \/ Build(t, k) \/ Return(t, k)
                     \/ FlushTest(t, k)
  \/ Destroy(t) \/ CopyOnWrite(t) \/ FlushEvict(t) \/ FlushPassEnd(t)

Next ==
  \E t \in Threads :
    \/ Step(t)
    \/ \E k \in Keys : Get(t, k) \/ SpuriousWakeup(t, k)
    \/ \E u \in Threads : CopyPtr(t, u)
    \/ Release(t) \/ CopyOnWriteTest(t) \/ FlushBegin(t) \/ CleanupBegin(t)

Spec == Init /\ [][Next]_vars

(* Threads inside the library keep running, createObject terminates, and   *)
(* a thread that wants the mutex gets it if it is free again and again.    *)
(* The clients need not call anything.                                     *)
Fairness ==
  \A t \in Threads :
    /\ WF_vars(Step(t))
    /\ SF_vars(\E k \in Keys : Locked(t, k))

FairSpec == Spec /\ Fairness
-----------------------------------------------------------------------------
HardRefs(x) ==
  Cardinality({t \in Threads : ptr[t] = x})
  + Cardinality({f \in Threads \X Keys : value[f[1]][f[2]] = x})
  + Cardinality({y \in alive : holds[y] = x})

SoftRefs(x) ==
  Cardinality({k \in Keys : table[k].val = x}) + (IF x = NoValue THEN 1 ELSE 0)

(* The counts of a value are exactly the references there are to it, at    *)
(* every step of gets, flushes, copies and destructors: nothing leaks and  *)
(* nothing is freed early (addRef, removeRef, addSoftRef, removeSoftRef).  *)
RefCountsExact ==
  \A x \in alive \cup {NoValue} :
    soft[x] = SoftRefs(x) /\ total[x] = SoftRefs(x) + HardRefs(x)

(* Whatever a table entry, a client, a frame or a live value refers to has *)
(* not been deleted, and a value being deleted is referred to by nobody    *)
(* (removeRef, _fetch, _flush).                                            *)
NoDanglingReference ==
  LET inUse == {ptr[t] : t \in Threads} \cup {table[k].val : k \in Keys}
               \cup {value[t][k] : t \in Threads, k \in Keys}
               \cup {holds[x] : x \in alive}
  IN inUse \cap Objs \subseteq alive \ {doomed[t] : t \in Threads}

(* Both, and no count is ever negative.                                    *)
ReferencesSound == TypeOK /\ RefCountsExact /\ NoDanglingReference

(* flush() "removes any values from cache that are not referenced outside  *)
(* the cache" (unifiedcache.h): unless somebody drops a reference during   *)
(* the last pass, every value left is referred to by something, also when  *)
(* evicting one value freed the last reference to another.                 *)
FlushRemovesUnreferenced ==
  [][flushing = "flush" /\ flushing' = "no" /\ quiet =>
       \A k \in Present : HardRefs(table[k].val) > 0]_vars

(* While a client holds the value of a key, every other client that gets   *)
(* this key gets the same value, unless there was no memory to put it in   *)
(* the table (get, _putIfAbsentAndGet, _flush).                            *)
ClientsShare ==
  "put" \notin Failures =>
    \A t, u \in Threads : of[t] # Null /\ of[t] = of[u] => ptr[t] = ptr[u]

(* copyOnWrite hands out a value for writing in place only to its sole     *)
(* owner: it is in nobody else's hands and not in the cache.               *)
WriterIsAlone ==
  \A t \in Threads : writing[t] = "inplace" => HardRefs(ptr[t]) = 1 /\ SoftRefs(ptr[t]) = 0

(* Every call of get() returns, although placeholders are evicted, values  *)
(* are created twice and createObject calls get() again.                   *)
GetReturns ==
  \A t \in Threads :
    (\E k \in Keys : pc[t][k] # "idle") ~> (\A k \in Keys : pc[t][k] = "idle")
=============================================================================
