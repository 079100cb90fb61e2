------------------------------- MODULE KVMap -------------------------------
(***************************************************************************)
(* What the B-tree index of a table promises its caller (spec section      *)
(* 4.3): a finite map from row ids to value pointers with at most one      *)
(* value per key, an insert that overwrites the value of a present key,    *)
(* a delete that removes a present key and reports not_found otherwise,   *)
(* and a size that counts the keys present.                                *)
(***************************************************************************)
EXTENDS Integers

CONSTANTS
  Keys,   \* row ids
  Vals,   \* value pointers
  NULL    \* "no value": the key is absent

VARIABLES
  map,    \* map[k] is the value stored under k, or NULL
  size    \* the number of keys present

Init ==
  /\ map = [k \in Keys |-> NULL]
  /\ size = 0

\* insert: a new key grows the map, a present key is overwritten in place.
Put(k, v) ==
  /\ map' = [map EXCEPT ![k] = v]
  /\ size' = IF map[k] = NULL THEN size + 1 ELSE size

\* delete of a present key; deleting an absent key changes nothing.
Remove(k) ==
  /\ map[k] # NULL
  /\ map' = [map EXCEPT ![k] = NULL]
  /\ size' = size - 1

Next == \E k \in Keys : Remove(k) \/ \E v \in Vals : Put(k, v)

Spec == Init /\ [][Next]_<<map, size>>
=============================================================================
