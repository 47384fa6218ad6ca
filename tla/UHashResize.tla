----------------------------- MODULE UHashResize ----------------------------
(***************************************************************************)
(* How a UHashtable changes its size (uhash.c): the element count, the     *)
(* array length and the water marks, without the elements.  The marks are  *)
(* always those of the policy and the length, and are not variables.       *)
(***************************************************************************)
EXTENDS Integers, Sequences

CONSTANTS
  PRIMES,      \* table lengths
  OpenIndexes, \* the prime indices uhash_open and uhash_openSize choose
  Policies,    \* the resize policies the user sets
  AllocFails   \* subset of {"grow", "shrink"}: when uprv_malloc may fail

ASSUME PrimesAssumption ==
  /\ PRIMES \in Seq(Nat)
  /\ OpenIndexes \subseteq DOMAIN PRIMES
  /\ \A i \in DOMAIN PRIMES :
       /\ PRIMES[i] > 2
       /\ i + 1 \in DOMAIN PRIMES => /\ PRIMES[i] < PRIMES[i + 1]
                                     /\ PRIMES[i + 1] <= 10 * PRIMES[i]
  /\ Policies \subseteq {"GROW", "GROW_AND_SHRINK", "FIXED"}
  /\ AllocFails \subseteq {"grow", "shrink"}

VARIABLES
  length,
  count,
  primeIndex,
  policy       \* lowWaterRatio and highWaterRatio

vars == <<length, count, primeIndex, policy>>

Lengths == {PRIMES[i] : i \in DOMAIN PRIMES}

TypeOK ==
  /\ length \in Lengths
  /\ count \in Nat
  /\ primeIndex \in DOMAIN PRIMES
  /\ policy \in Policies \cup {"GROW"}
-----------------------------------------------------------------------------
(* RESIZE_POLICY_RATIO_TABLE: the marks are length * ratio, truncated.     *)
Low(p, len) == IF p = "GROW_AND_SHRINK" THEN len \div 10 ELSE 0
High(p, len) == IF p = "FIXED" THEN len ELSE len \div 2

(* The prime index _uhash_rehash goes to from n elements, if it is one.    *)
NewIndex(n, p) ==
  LET i == IF n > High(p, length) THEN primeIndex + 1
           ELSE IF n < Low(p, length) THEN primeIndex - 1
           ELSE primeIndex
  IN IF i \in DOMAIN PRIMES THEN i ELSE primeIndex

(* _uhash_rehash that goes there, or has nowhere to go.                    *)
Rehashed(n, p) ==
  LET i == NewIndex(n, p) IN
  /\ primeIndex' = i
  /\ length' = IF i = primeIndex THEN length ELSE PRIMES[i]

(* _uhash_rehash that fails.  _uhash_allocate has set the prime index;     *)
(* only the array and the length are put back.                             *)
RehashFailed(n, p) ==
  LET i == NewIndex(n, p) IN
  /\ \/ i > primeIndex /\ "grow" \in AllocFails
     \/ i < primeIndex /\ "shrink" \in AllocFails
  /\ primeIndex' = i
  /\ UNCHANGED length

Rehash(n, p) == Rehashed(n, p) \/ RehashFailed(n, p)
-----------------------------------------------------------------------------
Init ==
  /\ primeIndex \in OpenIndexes
  /\ length = PRIMES[primeIndex]
  /\ count = 0
  /\ policy = "GROW"

PutToTheBrim(new) ==
  /\ count' = IF new /\ count < length THEN count + 1 ELSE count
  /\ UNCHANGED <<length, primeIndex, policy>>

(* _uhash_put.  A rehash that fails ends it.  A new element must leave one *)
(* slot free; another element is replaced.                                 *)
Put(new) ==
  /\ \/ /\ IF count > High(policy, length) THEN Rehashed(count, policy)
           ELSE UNCHANGED <<length, primeIndex>>
        /\ count' = IF new /\ count + 1 < length' THEN count + 1 ELSE count
     \/ /\ count > High(policy, length)
        /\ RehashFailed(count, policy)
        /\ UNCHANGED count
  /\ UNCHANGED policy

(* _uhash_remove of an element that is there.                              *)
Remove ==
  /\ count > 0
  /\ count' = count - 1
  /\ IF count - 1 < Low(policy, length) THEN Rehash(count - 1, policy)
     ELSE UNCHANGED <<length, primeIndex>>
  /\ UNCHANGED policy

(* uhash_removeElement never rehashes.                                     *)
RemoveElement ==
  /\ count > 0
  /\ count' = count - 1
  /\ UNCHANGED <<length, primeIndex, policy>>

RemoveAll ==
  /\ count' = 0
  /\ UNCHANGED <<length, primeIndex, policy>>

SetResizePolicy(p) ==
  /\ policy' = p
  /\ Rehash(count, p)
  /\ UNCHANGED count

Next ==
  \/ \E new \in BOOLEAN : Put(new)
  \/ Remove \/ RemoveElement \/ RemoveAll
  \/ \E p \in Policies : SetResizePolicy(p)

Spec == Init /\ [][Next]_vars
-----------------------------------------------------------------------------
(* One slot is always free, and after a rehash too: "In any case, upon     *)
(* return the arrays will be valid" (uhash.c:390).  _uhash_find relies on  *)
(* it, and _uhash_rehash dereferences what it returns.                     *)
SlotFree == count < length

(* The prime index never falls behind the length, so that a rehash that    *)
(* shrinks the table starts no lower than where the table is               *)
(* (_uhash_allocate, _uhash_rehash).                                       *)
IndexNotBehind == length <= PRIMES[primeIndex]

=============================================================================
