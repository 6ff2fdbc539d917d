------------------------------ MODULE MCRotater ------------------------------
(* Finite values for the constants of Rotater. *)
EXTENDS Rotater, TLC

CONSTANTS p1, p2, w1, w2, w3

\* Two threads of one process and one of another.
TwoAndOne == w1 :> p1 @@ w2 :> p1 @@ w3 :> p2

\* The two threads of p1 are interchangeable.
Siblings == Permutations({w1, w2})

OneEach == w1 :> p1 @@ w3 :> p2
=============================================================================
