------------------------------ MODULE MCUHash -------------------------------
(* Three scenes.  "sizes": a table of the real lengths without its         *)
(* elements.  "map" and "iterate": keys whose probe sequences collide, in  *)
(* short tables, which are also tables of UHashResize.                     *)
EXTENDS UHashResize

CONSTANTS
  a, b, c, d, v, w, Null,
  Scenes,
  IteratePRIMES, IterateIndexes, IteratePolicies, IterateUses

VARIABLES scene, elements, owned, pos, must, seen, repeated

others == <<elements, owned, pos, must, seen, repeated>>

(* The first lengths of the table in uhash.c.                              *)
FirstPRIMES == <<13, 31, 61, 127, 251>>

(* Lengths close enough together to grow twice with four keys.             *)
ShortPRIMES == <<3, 5, 7>>

(* Lengths far enough apart for a table to shrink with elements in it.     *)
SparsePRIMES == <<3, 7, 31>>

(* a and b have the same hash code, c the same first slot but another jump.*)
MCHash(keys) == [k \in keys |->
                   CASE k = a -> 1 [] k = b -> 1 [] k = c -> 106 [] OTHER -> 3]

Dictionary == INSTANCE UHash
  WITH Keys <- {a, b, c}, Hash <- MCHash({a, b, c}), Vals <- {v, w},
       PRIMES <- SparsePRIMES, OpenIndexes <- {1, 3},
       Policies <- {"GROW_AND_SHRINK", "FIXED"}, Uses <- {}, AllocFails <- {"grow"}

Iterating == INSTANCE UHash
  WITH Keys <- {a, b, c, d}, Hash <- MCHash({a, b, c, d}), Vals <- {v},
       PRIMES <- IteratePRIMES, OpenIndexes <- IterateIndexes,
       Policies <- IteratePolicies, Uses <- IterateUses, AllocFails <- {"grow"}

ASSUME Dictionary!ConstantsOK /\ Iterating!ConstantsOK

SceneInit ==
  /\ scene \in Scenes
  /\ \/ /\ scene = "sizes" /\ Init
        /\ elements = <<>> /\ owned = <<>> /\ pos = Dictionary!Idle
        /\ must = {} /\ seen = {} /\ repeated = FALSE
     \/ scene = "map" /\ Dictionary!Init
     \/ scene = "iterate" /\ Iterating!Init

SceneNext ==
  /\ \/ scene = "sizes" /\ Next /\ UNCHANGED others
     \/ scene = "map" /\ Dictionary!Next
     \/ scene = "iterate" /\ Iterating!Next
  /\ UNCHANGED scene

SceneSpec == SceneInit /\ [][SceneNext]_<<scene, vars, others>>
-----------------------------------------------------------------------------
(* Every key in the table is found where it is stored, whatever was        *)
(* removed or rehashed before; the count is exact, and one slot stays free *)
(* (_uhash_find, _uhash_rehash, uhash_removeElement).                      *)
TablesSound ==
  /\ scene = "map" => Dictionary!TypeOK /\ Dictionary!TableSound
  /\ scene = "iterate" => Iterating!TableSound

(* Key objects are deleted once, and only when they leave the table        *)
(* (keyDeleter in _uhash_setElement, _uhash_put).                          *)
KeysOwned ==
  /\ scene = "map" => Dictionary!KeysOwned
  /\ scene = "iterate" => Iterating!KeysOwned

(* A complete iteration returns every element that stays in the table, and *)
(* none twice, although elements are removed by key, by element or by a    *)
(* put of NULL (uhash_nextElement).                                        *)
IterationComplete ==
  [][/\ pos # Dictionary!Idle /\ pos' = Dictionary!Idle => must \subseteq seen
     /\ ~repeated']_<<scene, vars, others>>

Map == INSTANCE MapSpec
  WITH Keys <- {a, b, c}, Vals <- {v, w},
       map <- IF scene = "map" THEN Dictionary!Contents
              ELSE [k \in {a, b, c} |-> Null]

(* The table behaves like a map from keys to values: put, remove, removal  *)
(* by iteration and rehashing change what uhash_get returns for one key at *)
(* most, and to what was put (uhash_get, uhash_put, uhash_remove).         *)
ImplementsMap == Map!Spec

Sizes == INSTANCE UHashResize
  WITH PRIMES <- SparsePRIMES, OpenIndexes <- {1, 3},
       Policies <- {"GROW_AND_SHRINK", "FIXED"}, AllocFails <- {"grow"},
       length <- IF scene = "map" THEN length ELSE 3,
       count <- IF scene = "map" THEN count ELSE 0,
       primeIndex <- IF scene = "map" THEN primeIndex ELSE 1,
       policy <- IF scene = "map" THEN policy ELSE "GROW"

(* The table with its elements changes its count, length and prime index   *)
(* as UHashResize says, and no other way (_uhash_rehash, _uhash_put).      *)
ImplementsSizes == Sizes!Spec
=============================================================================
