------------------------------- MODULE UHash --------------------------------
(***************************************************************************)
(* UHashtable (uhash.c, uhash.h): open addressing with double hashing,     *)
(* deleted marks, and rehashing into an array of the next prime length.    *)
(*                                                                         *)
(* A slot keeps the key itself; its stored hash code is Hash[key], so the  *)
(* quick check on hash codes followed by the key comparator is equality of *)
(* keys.  The water marks are always those of the policy and the length,   *)
(* and are not variables.  The table has a key deleter: owned[k] counts    *)
(* the key objects equal to k that were passed to uhash_put and not        *)
(* deleted since.                                                          *)
(***************************************************************************)
EXTENDS Integers, Sequences, FiniteSets, FiniteSetsExt

CONSTANTS
  Keys,
  Hash,        \* [Keys -> 0 .. 2^26 - 1]: keyHasher(key) & 0x7FFFFFFF
  Vals,
  Null,
  PRIMES,      \* table lengths
  OpenIndexes, \* the prime indices uhash_open and uhash_openSize choose
  Policies,    \* the resize policies the user sets
  Uses,        \* what else the user does: "iterate", "put NULL"
  AllocFails   \* subset of {"grow", "shrink"}: when uprv_malloc may fail

(* What the constants are.                                                 *)
ConstantsOK ==
  /\ Hash \in [Keys -> 0 .. 67108863]
  /\ Null \notin Keys \cup Vals
  /\ Len(PRIMES) > 0 /\ \A i \in DOMAIN PRIMES : PRIMES[i] > 2
  /\ OpenIndexes \subseteq DOMAIN PRIMES
  /\ Policies \subseteq {"GROW", "GROW_AND_SHRINK", "FIXED"}
  /\ Uses \subseteq {"iterate", "put NULL"}
  /\ AllocFails \subseteq {"grow", "shrink"}

VARIABLES
  elements,     \* [0 .. length-1 -> Slot]
  length,
  count,
  primeIndex,
  policy,       \* lowWaterRatio and highWaterRatio
  owned,        \* [Keys -> Nat]
  pos,          \* the position of an iteration, or Idle
  must,         \* history: keys in the table since the iteration began
  seen,         \* history: keys the iteration has returned
  repeated      \* history: has it returned a key twice?

table == <<elements, length, count, primeIndex, policy>>
iteration == <<pos, must, seen, repeated>>
vars == <<table, owned, iteration>>

Lengths == {PRIMES[i] : i \in DOMAIN PRIMES}

Idle == -2
UHASH_FIRST == -1

Empty == [state |-> "empty", key |-> Null, val |-> Null]
Deleted == [state |-> "deleted", key |-> Null, val |-> Null]
Used(k, v) == [state |-> "used", key |-> k, val |-> v]
Slot == {Empty, Deleted} \cup {Used(k, v) : k \in Keys, v \in Vals}

Positions(els) == {i \in DOMAIN els : els[i].state = "used"}
KeysIn(els) == {els[i].key : i \in Positions(els)}

TypeOK ==
  /\ primeIndex \in DOMAIN PRIMES
  /\ length \in Lengths
  /\ elements \in [0 .. length - 1 -> Slot]
  /\ count \in 0 .. length
  /\ owned \in [Keys -> Nat]
  /\ pos \in Idle .. length - 1
  /\ must \subseteq Keys /\ seen \subseteq Keys /\ repeated \in BOOLEAN
-----------------------------------------------------------------------------
(* How the table changes its size: the water marks and prime indices.      *)
Sizes == INSTANCE UHashResize

Fresh(len) == [i \in 0 .. len - 1 |-> Empty]

(* The probe sequence of _uhash_find: (hashcode ^ 0x4000000) % length,     *)
(* then steps of a jump that depends on the hash code.                     *)
Probe ==
  [len \in Lengths |-> [k \in Keys |-> [i \in 0 .. len - 1 |->
     (Hash[k] + 67108864 + i * ((Hash[k] % (len - 1)) + 1)) % len]]]

FindStopsAtDeleted(els, k) ==
  LET len == Cardinality(DOMAIN els)
      probe == Probe[len][k]
      stop == {i \in 0 .. len - 1 : els[probe[i]].state # "used"
                                    \/ els[probe[i]].key = k}
  IN IF stop = {} THEN -1 ELSE probe[Min(stop)]

(* _uhash_find: the slot of the key, or else the first deleted slot that   *)
(* was passed, or else the empty slot that ended the search.  -1 is NULL.  *)
Find(els, k) ==
  LET len == Cardinality(DOMAIN els)
      probe == Probe[len][k]
      at(i) == els[probe[i]]
      stop == {i \in 0 .. len - 1 : at(i).state = "empty" \/ at(i).key = k}
      last == IF stop = {} THEN len ELSE Min(stop)
      deleted == {i \in 0 .. last - 1 : at(i).state = "deleted"}
  IN IF last < len /\ at(last).key = k THEN probe[last]
     ELSE IF deleted # {} THEN probe[Min(deleted)]
     ELSE IF last < len THEN probe[last]
     ELSE -1

(* The loop of _uhash_rehash: from the last old slot to the first.         *)
Refilled(old, len) ==
  LET oldLen == Cardinality(DOMAIN old)
      fill[i \in 0 .. oldLen] ==
        IF i = oldLen THEN Fresh(len)
        ELSE LET els == fill[i + 1] IN
             IF old[i].state = "used"
             THEN [els EXCEPT ![Find(els, old[i].key)] = old[i]]
             ELSE els
  IN fill[0]

(* _uhash_rehash, applied to the slots els holding n elements, under       *)
(* policy p.  A failed allocation has already changed the prime index.     *)
Rehash(els, n, p) ==
  LET i == Sizes!NewIndex(n, p) IN
  /\ primeIndex' = i
  /\ \/ i # primeIndex /\ length' = PRIMES[i] /\ elements' = Refilled(els, PRIMES[i])
     \/ i = primeIndex /\ length' = length /\ elements' = els
     \/ Sizes!RehashFailed(n, p) /\ elements' = els
-----------------------------------------------------------------------------
Init ==
  /\ primeIndex \in OpenIndexes
  /\ length = PRIMES[primeIndex]
  /\ elements = Fresh(length)
  /\ count = 0
  /\ policy = "GROW"
  /\ owned = [k \in Keys |-> 0]
  /\ pos = Idle /\ must = {} /\ seen = {} /\ repeated = FALSE

(* A key leaves the table: keyDeleter is called on the key object there.   *)
KeyDeleted(k) == owned' = [owned EXCEPT ![k] = @ - 1]

Forgotten(k) == must' = must \ {k}

PutToTheBrim(k, v) ==
  /\ pos = Idle
  /\ Find(elements, k) # -1
  /\ elements' = [elements EXCEPT ![Find(elements, k)] = Used(k, v)]
  /\ count' = Cardinality(Positions(elements'))
  /\ owned' = [owned EXCEPT ![k] = 1]
  /\ UNCHANGED <<length, primeIndex, policy, iteration>>

PutKeepsOldKey(k, v) ==
  /\ pos = Idle
  /\ count + 1 < length
  /\ elements' = [elements EXCEPT ![Find(elements, k)] = Used(k, v)]
  /\ count' = Cardinality(Positions(elements'))
  /\ owned' = [owned EXCEPT ![k] = @ + 1]
  /\ UNCHANGED <<length, primeIndex, policy, iteration>>

(* _uhash_put with a new key object.  Grow first when the count is above   *)
(* the high water mark; if that fails, the key is deleted and nothing is   *)
(* stored.  Nor is it when a new entry would fill the last slot.  The key  *)
(* object in an existing entry is deleted and replaced.                    *)
Put(k, v) ==
  LET grows == count > Sizes!High(policy, length) /\ primeIndex + 1 \in DOMAIN PRIMES
      len == IF grows THEN PRIMES[primeIndex + 1] ELSE length
      els == IF grows THEN Refilled(elements, len) ELSE elements
      e == Find(els, k)
      new == els[e].state # "used"
      refused == new /\ count + 1 = len
  IN
  /\ pos = Idle
  /\ primeIndex' = IF grows THEN primeIndex + 1 ELSE primeIndex
  /\ \/ /\ length' = len
        /\ elements' = IF refused THEN els ELSE [els EXCEPT ![e] = Used(k, v)]
        /\ count' = IF new /\ ~refused THEN count + 1 ELSE count
        /\ owned' = IF new /\ ~refused THEN [owned EXCEPT ![k] = @ + 1] ELSE owned
     \/ grows /\ "grow" \in AllocFails /\ UNCHANGED <<elements, length, count, owned>>
  /\ UNCHANGED <<policy, iteration>>

(* The slot of a removed element is marked deleted, and the table may      *)
(* shrink (_uhash_remove).                                                 *)
TakenOut(k) ==
  LET e == Find(elements, k)
      els == [elements EXCEPT ![e] = Deleted]
  IN IF elements[e].state = "used"
     THEN /\ count' = count - 1
          /\ Forgotten(k)
          /\ IF count - 1 < Sizes!Low(policy, length)
             THEN Rehash(els, count - 1, policy)
             ELSE elements' = els /\ UNCHANGED <<length, primeIndex>>
     ELSE UNCHANGED <<elements, length, count, primeIndex, must>>

(* uhash_remove                                                            *)
Remove(k) ==
  /\ TakenOut(k)
  /\ IF k \in KeysIn(elements) THEN KeyDeleted(k) ELSE UNCHANGED owned
  /\ UNCHANGED <<policy, pos, seen, repeated>>

(* The bound on key objects that are in no table and not deleted.          *)
MaxLeaked == 1

(* uhash_put of a NULL value is uhash_remove; the new key object is        *)
(* neither stored nor deleted.                                             *)
PutNull(k) ==
  /\ "put NULL" \in Uses
  /\ MapThenSumSet(LAMBDA j : owned[j], Keys) - count < MaxLeaked
  /\ TakenOut(k)
  /\ owned' = IF k \in KeysIn(elements) THEN owned ELSE [owned EXCEPT ![k] = @ + 1]
  /\ UNCHANGED <<policy, pos, seen, repeated>>

RemoveElementToEmpty ==
  /\ pos >= 0 /\ elements[pos].state = "used"
  /\ elements' = [elements EXCEPT ![pos] = Empty]
  /\ count' = count - 1
  /\ KeyDeleted(elements[pos].key)
  /\ Forgotten(elements[pos].key)
  /\ UNCHANGED <<length, primeIndex, policy, pos, seen, repeated>>

(* uhash_removeElement on the element the iteration is at; no rehash.      *)
RemoveElement ==
  /\ pos \in DOMAIN elements /\ elements[pos].state = "used"
  /\ elements' = [elements EXCEPT ![pos] = Deleted]
  /\ count' = count - 1
  /\ KeyDeleted(elements[pos].key)
  /\ Forgotten(elements[pos].key)
  /\ UNCHANGED <<length, primeIndex, policy, pos, seen, repeated>>

(* uhash_removeAll: every element is removed like that.                    *)
RemoveAll ==
  /\ pos = Idle
  /\ count # 0
  /\ elements' = [i \in DOMAIN elements |->
                    IF elements[i].state = "used" THEN Deleted ELSE elements[i]]
  /\ count' = 0
  /\ owned' = [k \in Keys |-> IF k \in KeysIn(elements) THEN owned[k] - 1 ELSE owned[k]]
  /\ UNCHANGED <<length, primeIndex, policy, iteration>>

(* uhash_setResizePolicy recomputes the marks and rehashes.                *)
SetResizePolicy(p) ==
  /\ pos = Idle
  /\ p # policy
  /\ policy' = p
  /\ Rehash(elements, count, p)
  /\ UNCHANGED <<count, owned, iteration>>

IterationBegin ==
  /\ "iterate" \in Uses /\ pos = Idle
  /\ pos' = UHASH_FIRST
  /\ must' = KeysIn(elements) /\ seen' = {} /\ repeated' = FALSE
  /\ UNCHANGED <<table, owned>>

NextElementFromPos ==
  LET ahead == {i \in Positions(elements) : i >= pos} IN
  /\ pos # Idle /\ ahead # {}
  /\ pos' = Min(ahead)
  /\ seen' = seen \cup {elements[pos'].key}
  /\ repeated' = (repeated \/ elements[pos'].key \in seen)
  /\ UNCHANGED <<table, owned, must>>

(* uhash_nextElement: the next used slot, or NULL, which ends the          *)
(* iteration.                                                              *)
NextElement ==
  LET ahead == {i \in Positions(elements) : i > pos} IN
  /\ pos # Idle
  /\ IF ahead # {}
     THEN /\ pos' = Min(ahead)
          /\ seen' = seen \cup {elements[pos'].key}
          /\ repeated' = (repeated \/ elements[pos'].key \in seen)
          /\ UNCHANGED must
     ELSE pos' = Idle /\ must' = {} /\ seen' = {} /\ repeated' = FALSE
  /\ UNCHANGED <<table, owned>>

Next ==
  \/ \E k \in Keys : Remove(k) \/ PutNull(k) \/ \E v \in Vals : Put(k, v)
  \/ RemoveElement \/ RemoveAll
  \/ \E p \in Policies : SetResizePolicy(p)
  \/ IterationBegin \/ NextElement

Spec == Init /\ [][Next]_vars
-----------------------------------------------------------------------------
(* Every key in the table is found where it is stored, whatever was        *)
(* removed or rehashed before, and so is stored once; the count is exact;  *)
(* and one slot stays free, so that no search fails with NULL              *)
(* (_uhash_find, _uhash_put).                                              *)
TableSound ==
  /\ \A i \in Positions(elements) : Find(elements, elements[i].key) = i
  /\ count = Cardinality(Positions(elements)) /\ count < length
  /\ \A k \in Keys : Find(elements, k) # -1

(* A key object passed to uhash_put with a value is in the table or has    *)
(* been deleted: "keys passed to uhash_put() are owned by the hashtable    *)
(* and will be deleted by it at some point, either as keys are replaced,   *)
(* or when uhash_close() is finally called" (uhash.h:42-44).  The key      *)
(* object of a put with NULL is neither stored nor deleted, which leaks it *)
(* but never deletes a key object that the table still holds.              *)
KeysOwned ==
  \A k \in Keys :
    LET held == IF k \in KeysIn(elements) THEN 1 ELSE 0 IN
    IF "put NULL" \in Uses THEN owned[k] >= held ELSE owned[k] = held

(* "During iteration an element may be deleted by calling                  *)
(* uhash_removeElement(); iteration may safely continue thereafter.  The   *)
(* uhash_remove() function may also be safely called in mid-iteration"     *)
(* (uhash.h:58-61): a complete iteration returns every element that stays  *)
(* in the table, and no element twice (uhash_nextElement).                 *)
IterationComplete ==
  [][/\ pos # Idle /\ pos' = Idle => must \subseteq seen
     /\ ~repeated']_vars

(* What uhash_get returns for each key.                                    *)
Contents == [k \in Keys |-> elements[Find(elements, k)].val]
=============================================================================
