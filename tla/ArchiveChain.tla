---------------------------- MODULE ArchiveChain ----------------------------
(***************************************************************************)
(* What size-triggered rotation promises its user.  A log is a chain of    *)
(* files: the current one and the archives, numbered in the order they     *)
(* were created.  The current file is only ever put behind the archives,   *)
(* never lost.  As long as no archive has been overlooked, one only ever   *)
(* goes when it is the oldest and the chain is at its capacity; after      *)
(* that, still no more than one archive goes at a time.                    *)
(***************************************************************************)
EXTENDS Integers, FiniteSets

VARIABLES capacity, \* archives there may be
          current,  \* number of the current file, 0 if there is none
          kept,     \* numbers of the archives
          whole     \* no archive has been overlooked

chainVars == <<capacity, current, kept, whole>>

Begin ==
  /\ capacity > 0
  /\ current = 0
  /\ kept = {}
  /\ whole = TRUE

\* A new file starts, younger than every archive.
Start(n) ==
  /\ current = 0
  /\ n > 0
  /\ \A k \in kept : k < n
  /\ current' = n
  /\ UNCHANGED <<kept, whole>>

Archive ==
  /\ current # 0
  /\ whole => Cardinality(kept) < capacity
  /\ kept' = kept \cup {current}
  /\ current' = 0
  /\ UNCHANGED whole

DropOldest ==
  /\ Cardinality(kept) >= capacity
  /\ \E k \in kept : /\ \A other \in kept : k <= other
                     /\ kept' = kept \ {k}
  /\ UNCHANGED <<current, whole>>

Overlook ==
  /\ whole' = FALSE
  /\ UNCHANGED <<current, kept>>

\* One archive is removed or overwritten by another.
Lose ==
  /\ ~whole
  /\ \E k \in kept : kept' = kept \ {k}
  /\ UNCHANGED <<current, whole>>

\* One archive is overwritten by the current file.
ArchiveOver ==
  /\ ~whole
  /\ current # 0
  /\ \E k \in kept : kept' = (kept \ {k}) \cup {current}
  /\ current' = 0
  /\ UNCHANGED whole

Move ==
  /\ \/ \E n \in {current'} : Start(n)
     \/ Archive
     \/ DropOldest
     \/ Overlook
     \/ Lose
     \/ ArchiveOver
  /\ UNCHANGED capacity

Spec == Begin /\ [][Move]_chainVars
=============================================================================
