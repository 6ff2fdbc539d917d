---------------------------- MODULE MCStaticFile ----------------------------
(* StaticFile with a symmetric set of threads. *)
EXTENDS StaticFile, TLC

ThreadSymmetry == Permutations(Thread)
=============================================================================
