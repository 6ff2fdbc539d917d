------------------------------- MODULE KeyMap -------------------------------
(***************************************************************************)
(* What a table of keys promises the component that uses it: one node per  *)
(* key, stored, replaced and erased one key at a time, or all at once.     *)
(***************************************************************************)
CONSTANTS Key, Node, None

VARIABLE map

Begin == map = [k \in Key |-> None]

Store(k, v) == map' = [map EXCEPT ![k] = v]

Erase(k) == map' = [map EXCEPT ![k] = None]

EraseAll == map' = [k \in Key |-> None]

Change == (\E k \in Key : Erase(k) \/ \E v \in Node : Store(k, v)) \/ EraseAll

Spec == Begin /\ [][Change]_map
=============================================================================
