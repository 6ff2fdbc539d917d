----------------------------- MODULE MCCdlogEnv -----------------------------
(* Finite values for the constants of CdlogEnv. *)
EXTENDS CdlogEnv, TLC

Plain == [c \in Cat |-> Level]
Muted == [c \in Cat |-> {}]

\* The same buffers with another number of time caches, other buffers with
\* another period, rules that let nothing through.
MCContents == {
  [buf |-> 1, caches |-> 1, period |-> 1, levels |-> Plain],
  [buf |-> 1, caches |-> 2, period |-> 0, levels |-> Muted] }

OomContents == {
  [buf |-> 1, caches |-> 1, period |-> 1, levels |-> Plain],
  [buf |-> 2, caches |-> 2, period |-> 0, levels |-> Plain] }

ThreadSymmetry == Permutations(Thread)
=============================================================================
