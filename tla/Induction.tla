------------------------------ MODULE Induction ------------------------------
(***************************************************************************)
(* Induction as facts about sets.  The library's induction theorems take   *)
(* the statement to be proved as an operator; here it is the set of those  *)
(* it holds for, so that its two well-founded orders can be used for the   *)
(* algorithms whose loops walk over data of any size.                      *)
(***************************************************************************)
EXTENDS FiniteSetTheorems, TLAPS

\* Any numbers have a least among them.
LEMMA LeastElement ==
  ASSUME NEW N \in SUBSET Nat, N # {}
  PROVE  \E n \in N : \A m \in N : n <= m
<1> DEFINE T == {0..n : n \in N}
<1>1. T \subseteq FiniteSubsetsOf(Nat) /\ T # {}
  <2>1. \A n \in N : 0..n \in SUBSET Nat /\ IsFiniteSet(0..n)
    BY FS_Interval
  <2> QED BY <2>1 DEF FiniteSubsetsOf
<1>2. IsWellFoundedOn(StrictSubsetOrdering(Nat), FiniteSubsetsOf(Nat))
  BY FS_StrictSubsetOrderingWellFounded
<1> HIDE DEF T
<1>3. PICK s \in T : \A t \in T : <<t, s>> \notin StrictSubsetOrdering(Nat)
  BY <1>1, <1>2, WFMin
<1>4. PICK n \in N : s = 0..n
  BY <1>3 DEF T
<1>5. ASSUME NEW m \in N, m < n PROVE FALSE
  <2>1. 0..m \in T
    BY DEF T
  <2>2. 0..m \subseteq 0..n /\ 0..m # 0..n
    BY <1>5
  <2>3. 0..m \in SUBSET Nat /\ 0..n \in SUBSET Nat
    OBVIOUS
  <2>4. <<0..m, 0..n>> \in StrictSubsetOrdering(Nat)
    BY <2>2, <2>3 DEF StrictSubsetOrdering
  <2> QED BY <1>3, <1>4, <2>1, <2>4
<1> QED BY <1>5

\* What holds for 0 and for the next of each it holds for, holds for every number.
LEMMA SetInduction ==
  ASSUME NEW N, 0 \in N, \A n \in Nat : n \in N => n + 1 \in N
  PROVE  Nat \subseteq N
<1> SUFFICES ASSUME ~(Nat \subseteq N) PROVE FALSE
  OBVIOUS
<1>1. PICK n \in Nat \ N : \A m \in Nat \ N : n <= m
  BY LeastElement
<1>2. n - 1 \in Nat /\ n - 1 \notin Nat \ N
  BY <1>1
<1> QED BY <1>2

\* What holds for the empty set and for one more element each time, holds for a
\* finite set.
LEMMA GrowSet ==
  ASSUME NEW S, IsFiniteSet(S), NEW Q, {} \in Q,
         \A T \in SUBSET S : T \in Q => \A x \in S \ T : T \cup {x} \in Q
  PROVE  S \in Q
<1> SUFFICES ASSUME S \notin Q PROVE FALSE
  OBVIOUS
<1>1. IsWellFoundedOn(StrictSubsetOrdering(S), FiniteSubsetsOf(S))
  BY FS_StrictSubsetOrderingWellFounded
<1>2. FiniteSubsetsOf(S) = SUBSET S
  BY FS_FiniteSubsetsOfFinite
<1>3. PICK T \in (SUBSET S) \ Q : \A U \in (SUBSET S) \ Q : <<U, T>> \notin StrictSubsetOrdering(S)
  <2> DEFINE U == (SUBSET S) \ Q
  <2>1. U # {} /\ U \subseteq FiniteSubsetsOf(S)
    BY <1>2
  <2> HIDE DEF U
  <2>2. \E T \in U : \A V \in U : <<V, T>> \notin StrictSubsetOrdering(S)
    BY <1>1, <2>1, WFMin
  <2> QED BY <2>2 DEF U
<1>4. PICK x \in T : TRUE
  BY <1>3
<1>5. T \ {x} \in SUBSET S /\ T \ {x} # T /\ T \ {x} \subseteq T
  BY <1>4
<1>6. (T \ {x}) \cup {x} = T /\ x \in S \ (T \ {x})
  BY <1>4
<1>7. T \ {x} \in Q
  BY <1>3, <1>5 DEF StrictSubsetOrdering
<1> QED BY <1>3, <1>5, <1>6, <1>7
=============================================================================
