------------------------------ MODULE MapSpec -------------------------------
(***************************************************************************)
(* What a UHashtable promises its users: a finite map from keys to values, *)
(* changed by one operation at a time.  A put that fails changes nothing.  *)
(***************************************************************************)
CONSTANTS Keys, Vals, Null

VARIABLE map  \* [Keys -> Vals \cup {Null}]

Init == map = [k \in Keys |-> Null]

Put(k, v) == map' = [map EXCEPT ![k] = v]

Remove(k) == map' = [map EXCEPT ![k] = Null]

RemoveAll == map' = [k \in Keys |-> Null]

Next == RemoveAll \/ \E k \in Keys : Remove(k) \/ \E v \in Vals : Put(k, v)

Spec == Init /\ [][Next]_map
=============================================================================
