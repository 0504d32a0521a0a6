------------------------------- MODULE RBMap --------------------------------
(***************************************************************************)
(* What rbtree.cc promises: a finite map from keys to values, in which an  *)
(* insertion replaces the value of a key that is already there.            *)
(***************************************************************************)
CONSTANTS Keys, Values, Absent

VARIABLE map

Init == map = [k \in Keys |-> Absent]

rbtree_insert(k, v) == map' = [map EXCEPT ![k] = v]

rbtree_delete(k) == map' = [map EXCEPT ![k] = Absent]

Next == \E k \in Keys : rbtree_delete(k) \/ \E v \in Values : rbtree_insert(k, v)

Spec == Init /\ [][Next]_map
=============================================================================
