-------------------------- MODULE UHashResizeProofs -------------------------
(***************************************************************************)
(* A UHashtable always keeps a slot free, unless an allocation fails while *)
(* it shrinks.                                                             *)
(***************************************************************************)
EXTENDS UHashResize, TLAPS

(* Either only the growing of a table may fail, or no table shrinks.       *)
NoFailedShrink == "shrink" \notin AllocFails \/ "GROW_AND_SHRINK" \notin Policies

(* The inductive invariant: a shrinking table starts from the prime index, *)
(* so SlotFree needs to know that the index is not behind the length.      *)
IInv == TypeOK /\ IndexNotBehind /\ SlotFree

(* The lengths are positive, and neighbours differ by at most a factor 10. *)
LEMMA PrimesFacts ==
  /\ PRIMES \in Seq(Nat)
  /\ OpenIndexes \subseteq DOMAIN PRIMES
  /\ \A i \in DOMAIN PRIMES : PRIMES[i] \in Nat /\ PRIMES[i] > 2
  /\ \A i \in DOMAIN PRIMES : i + 1 \in DOMAIN PRIMES =>
       PRIMES[i] < PRIMES[i + 1] /\ PRIMES[i + 1] <= 10 * PRIMES[i]
BY PrimesAssumption

(* The prime index of _uhash_rehash stays in the table of primes.          *)
LEMMA NewIndexType ==
  ASSUME TypeOK, NEW n, NEW p
  PROVE  NewIndex(n, p) \in DOMAIN PRIMES
BY DEF NewIndex, TypeOK

(* What the type invariant says about the numbers.                         *)
LEMMA Numbers ==
  ASSUME TypeOK
  PROVE  /\ count \in Nat /\ length \in Nat /\ length \in Lengths
         /\ primeIndex \in DOMAIN PRIMES /\ primeIndex \in Int
         /\ policy \in Policies \cup {"GROW"}
BY PrimesFacts DEF TypeOK, Lengths

(* After a rehash, successful or not, there is room for every element and  *)
(* the prime index is still not behind: a table that grows gets longer,    *)
(* and a table that shrinks is less than a tenth full.                     *)
LEMMA RehashFits ==
  ASSUME NoFailedShrink, TypeOK, IndexNotBehind,
         NEW n \in Nat, n < length,
         NEW p \in Policies \cup {"GROW"}, Rehash(n, p)
  PROVE  /\ primeIndex' \in DOMAIN PRIMES
         /\ length' \in Lengths
         /\ length' <= PRIMES[primeIndex']
         /\ n < length'
<1>1. primeIndex' \in DOMAIN PRIMES
  BY NewIndexType DEF Rehash, Rehashed, RehashFailed
<1>2. primeIndex' \in {primeIndex, primeIndex + 1, primeIndex - 1}
  BY DEF Rehash, Rehashed, RehashFailed, NewIndex
<1>3. length' \in {length, PRIMES[primeIndex']}
  BY DEF Rehash, Rehashed, RehashFailed
<1>4. length' \in Lengths
  BY <1>1, <1>3, Numbers DEF Lengths
<1>5. CASE primeIndex' = primeIndex
  <2>1. length' = length
    BY <1>5, Numbers DEF Rehash, Rehashed, RehashFailed
  <2> QED BY <1>1, <1>4, <1>5, <2>1 DEF IndexNotBehind
<1>6. CASE primeIndex' = primeIndex + 1
  <2>1. PRIMES[primeIndex] < PRIMES[primeIndex'] /\ PRIMES[primeIndex] \in Nat
        /\ PRIMES[primeIndex'] \in Nat
    BY <1>1, <1>6, Numbers, PrimesFacts
  <2> QED BY <1>1, <1>3, <1>4, <2>1, Numbers DEF IndexNotBehind
<1>7. CASE primeIndex' = primeIndex - 1
  <2>1. primeIndex' + 1 = primeIndex
    BY <1>7, Numbers
  <2>2. PRIMES[primeIndex] <= 10 * PRIMES[primeIndex'] /\ PRIMES[primeIndex] \in Nat
        /\ PRIMES[primeIndex'] \in Nat
    BY <1>1, <2>1, Numbers, PrimesFacts
  <2>3. n < Low(p, length)
    BY <1>7, Numbers DEF Rehash, Rehashed, RehashFailed, NewIndex
  <2>4. p = "GROW_AND_SHRINK" /\ n < length \div 10
    BY <2>3 DEF Low
  <2>5. length' = PRIMES[primeIndex']
    BY <1>7, <2>4, Numbers DEF NoFailedShrink, Rehash, Rehashed, RehashFailed
  <2>6. length <= 10 * length' /\ length' \in Nat
    BY <2>2, <2>5, Numbers DEF IndexNotBehind
  <2> QED BY <1>1, <1>4, <2>4, <2>5, <2>6, Numbers
<1> QED BY <1>2, <1>5, <1>6, <1>7

(* Every step preserves the invariant.                                     *)
LEMMA StepInv ==
  ASSUME NoFailedShrink, IInv, [Next]_vars
  PROVE  IInv'
<1> USE DEF IInv
<1>0. count < length /\ length <= PRIMES[primeIndex]
  BY DEF SlotFree, IndexNotBehind
<1>b. \A len \in Lengths : len \in Nat /\ len > 2
  BY PrimesFacts DEF Lengths
<1>1. ASSUME NEW new \in BOOLEAN, Put(new) PROVE IInv'
  <2>1. /\ primeIndex' \in DOMAIN PRIMES
        /\ length' \in Lengths
        /\ length' <= PRIMES[primeIndex']
        /\ count < length'
    BY <1>0, <1>1, Numbers, RehashFits DEF Put, Rehash
  <2>2. count' \in {count, count + 1} /\ (count' = count + 1 => count + 1 < length')
    BY <1>1, Numbers DEF Put
  <2>3. policy' = policy
    BY <1>1 DEF Put
  <2> QED BY <2>1, <2>2, <2>3, Numbers DEF TypeOK, IndexNotBehind, SlotFree, Lengths
<1>2. CASE Remove
  <2>1. count - 1 \in Nat /\ count' = count - 1 /\ policy' = policy
    BY <1>2, Numbers DEF Remove
  <2>2. /\ primeIndex' \in DOMAIN PRIMES
        /\ length' \in Lengths
        /\ length' <= PRIMES[primeIndex']
        /\ count - 1 < length'
    BY <1>0, <1>2, <2>1, Numbers, RehashFits DEF Remove
  <2> QED BY <2>1, <2>2, Numbers DEF TypeOK, IndexNotBehind, SlotFree, Lengths
<1>3. CASE RemoveElement
  BY <1>0, <1>3, Numbers DEF RemoveElement, TypeOK, IndexNotBehind, SlotFree, Lengths
<1>4. CASE RemoveAll
  BY <1>0, <1>4, <1>b, Numbers DEF RemoveAll, TypeOK, IndexNotBehind, SlotFree, Lengths
<1>5. ASSUME NEW p \in Policies, SetResizePolicy(p) PROVE IInv'
  <2>1. /\ primeIndex' \in DOMAIN PRIMES
        /\ length' \in Lengths
        /\ length' <= PRIMES[primeIndex']
        /\ count < length'
    BY <1>0, <1>5, Numbers, RehashFits DEF SetResizePolicy
  <2> QED BY <1>5, <2>1, Numbers DEF SetResizePolicy, TypeOK, IndexNotBehind, SlotFree, Lengths
<1>6. CASE UNCHANGED vars
  BY <1>6 DEF vars, TypeOK, IndexNotBehind, SlotFree, Lengths
<1> QED BY <1>1, <1>2, <1>3, <1>4, <1>5, <1>6 DEF Next

(* The invariant holds of a new table.                                     *)
LEMMA InitInv == Init => IInv
BY PrimesFacts DEF Init, IInv, TypeOK, IndexNotBehind, SlotFree, Lengths

(* A UHashtable keeps a slot free, so that _uhash_find never returns NULL, *)
(* for every table of primes that grows by a factor of at most 10 and      *)
(* every sequence of operations and policies, as long as no allocation     *)
(* fails while the table shrinks.  _uhash_rehash needs the condition: see  *)
(* what it leaves in primeIndex when _uhash_allocate fails.                *)
THEOREM SlotFreeTheorem == NoFailedShrink => (Spec => []SlotFree)
<1> SUFFICES ASSUME NoFailedShrink PROVE Spec => []SlotFree
  OBVIOUS
<1>1. Init => IInv
  BY InitInv
<1>2. IInv /\ [Next]_vars => IInv'
  BY StepInv
<1>3. IInv => SlotFree
  BY DEF IInv
<1> QED BY <1>1, <1>2, <1>3, PTL DEF Spec

(* Under the same condition, the types and the prime index stay right.     *)
THEOREM IndexTheorem == NoFailedShrink => (Spec => [](TypeOK /\ IndexNotBehind))
<1> SUFFICES ASSUME NoFailedShrink PROVE Spec => [](TypeOK /\ IndexNotBehind)
  OBVIOUS
<1>1. Init => IInv
  BY InitInv
<1>2. IInv /\ [Next]_vars => IInv'
  BY StepInv
<1>3. IInv => TypeOK /\ IndexNotBehind
  BY DEF IInv
<1> QED BY <1>1, <1>2, <1>3, PTL DEF Spec
=============================================================================
