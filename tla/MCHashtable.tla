---------------------------- MODULE MCHashtable ----------------------------
(* Finite values for the constants of Hashtable. *)
EXTENDS Hashtable, TLC

CONSTANTS k1, k2, k3, k4

Hash(a, b, c, d) == k1 :> a @@ k2 :> b @@ k3 :> c @@ k4 :> d

\* All keys in one chain, in pairs that a rehash separates, all apart.
MCHashes == {Hash(3, 3, 3, 3), Hash(0, 2, 1, 3), Hash(0, 1, 0, 2)}

MemorySymmetry == Permutations(Node) \cup Permutations(Entry)
=============================================================================
