--------------------------- MODULE RotaterProofs ---------------------------
(***************************************************************************)
(* Proofs about Rotater, for every set of processes and threads, every     *)
(* limit, and crashes and failures at any step: what the locks are for,    *)
(* and, in the second half, that it keeps its archives in order and        *)
(* implements ArchiveChain.                                                *)
(***************************************************************************)
EXTENDS Rotater, FiniteSetTheorems, TLAPS

(***************************************************************************)
(* The inductive invariant: who is past a lock holds it, a list is kept    *)
(* only while moving, and between the second stat and the last move the    *)
(* log file is there and due for the message of the thread that rotates,   *)
(* since only the holder of the locks can take it away.                    *)
(***************************************************************************)
LockInv ==
  \A w \in Worker :
    /\ pc[w] \in Locked \cup {"flock", "munlock"} => mutex[ProcOf[w]] = w
    /\ pc[w] \in Locked => flock = ProcOf[w]

ListInv == \A w \in Worker : pc[w] # "move" => files[w] = {}

FullInv ==
  \A w \in Worker :
    /\ pc[w] \in {"mutex", "flock", "recheck", "list", "move"} => len[w] <= MaxSize
    /\ pc[w] \in {"list", "move"} => base # NoFile /\ FullUnderLock(w)

IInv == TypeOK /\ LockInv /\ ListInv /\ ListAccurate /\ FullInv

USE ProcOfAssumption, NullAssumption, SizeAssumption, BoundAssumption
USE DEF Goto, NoFile, Locked, callVars, listVars

-----------------------------------------------------------------------------
LEMMA Length ==
  ASSUME TypeOK, NEW w \in Worker
  PROVE  len[w] \in Nat
  BY DEF TypeOK

\* The locks exclude: a worker past both is alone there.
LEMMA LockInvExcludes ==
  ASSUME LockInv
  PROVE  RotationExclusive
  BY DEF LockInv, RotationExclusive

THEOREM InitIInv == Init => IInv
<1> SUFFICES ASSUME Init PROVE IInv
  OBVIOUS
<1>1. pc \in [Worker -> Pc] /\ skipped \in BOOLEAN
  BY DEF Init, Pc
<1>2. TypeOK
  BY <1>1 DEF Init, TypeOK
<1>3. LockInv /\ ListInv /\ ListAccurate /\ FullInv
  BY DEF Init, LockInv, ListInv, ListAccurate, FullInv
<1> QED
  BY <1>2, <1>3 DEF IInv

\* A worker that does not hold both locks leaves the archives alone; one that
\* writes makes a file longer.
LEMMA AppendStep ==
  ASSUME IInv, NEW w \in Worker, (\E n \in Lengths : Open(w, n)) \/ Write(w) \/ Stat(w)
  PROVE  IInv'
<1> USE DEF IInv, TypeOK, LockInv, ListInv, ListAccurate, FullInv, FullUnderLock, lockVars, fileVars
<1>1. ASSUME NEW n \in Lengths, Open(w, n) PROVE IInv'
  <2>1. /\ base' \in Inode /\ created' \in 0..MaxInode
        /\ base # NoFile => base' = base /\ size' = size
        /\ n \in Nat
    BY <1>1, LengthAssumption DEF Open, NewFile, Inode
  <2>2. TypeOK'
    <3>1. pc' \in [Worker -> Pc] /\ skipped' \in BOOLEAN
      BY <1>1 DEF Open, Pc
    <3>2. size' \in 0..MaxFile /\ len' \in [Worker -> Nat] /\ fd' \in [Worker -> Inode \cup {NoFile}]
      BY <1>1, <2>1 DEF Open
    <3>3. \A v \in Worker : pc'[v] = "write" => fd'[v] # NoFile
      BY <1>1, <2>1 DEF Open, Inode
    <3> QED
      BY <1>1, <2>1, <3>1, <3>2, <3>3 DEF Open
  <2>3. LockInv' /\ ListInv' /\ ListAccurate'
    BY <1>1, <2>1 DEF Open, Pc
  <2>4. FullInv'
    BY <1>1, <2>1 DEF Open, Pc
  <2> QED
    BY <2>2, <2>3, <2>4
<1>2. CASE Write(w)
  <2>1. size' \in 0..MaxFile /\ size' >= size
    BY <1>2, Length DEF Write, Size
  <2>2. TypeOK' /\ LockInv' /\ ListInv' /\ ListAccurate'
    BY <1>2, <2>1 DEF Write, Pc
  <2>3. FullInv'
    <3>1. \A v \in Worker : len[v] \in Nat
      BY Length
    <3> QED
      BY <1>2, <2>1, <3>1 DEF Write, Pc
  <2> QED
    BY <2>2, <2>3
<1>3. CASE Stat(w)
  BY <1>3 DEF Stat, Return, Pc
<1> QED
  BY <1>1, <1>2, <1>3

LEMMA LockStep ==
  ASSUME IInv, NEW w \in Worker,
         MutexTry(w) \/ FlockTry(w) \/ FlockRelease(w) \/ MutexRelease(w)
  PROVE  IInv'
<1> USE DEF IInv, TypeOK, LockInv, ListInv, ListAccurate, FullInv,
        FullUnderLock, fileVars, Pc
<1>1. CASE MutexTry(w)
  BY <1>1 DEF MutexTry, Return
<1>2. CASE FlockTry(w)
  BY <1>2 DEF FlockTry, FlockFree
<1>3. CASE FlockRelease(w)
  BY <1>3 DEF FlockRelease
<1>4. CASE MutexRelease(w)
  BY <1>4 DEF MutexRelease, Return
<1> QED
  BY <1>1, <1>2, <1>3, <1>4

LEMMA LookStep ==
  ASSUME IInv, NEW w \in Worker, Recheck(w) \/ List(w) \/ ListFails(w) \/ MoveFails(w)
  PROVE  IInv'
<1> USE DEF IInv, TypeOK, LockInv, ListInv, ListAccurate, FullInv,
        FullUnderLock, fileVars, lockVars, Pc
<1>1. CASE Recheck(w)
  BY <1>1 DEF Recheck
<1>2. CASE List(w)
  BY <1>2 DEF List, Existing
<1>3. CASE ListFails(w) \/ MoveFails(w)
  BY <1>3 DEF ListFails, MoveFails, Leave, AfterFailure
<1> QED
  BY <1>1, <1>2, <1>3

LEMMA MoveStep ==
  ASSUME IInv, NEW w \in Worker, RollStep(w) \/ SequenceStep(w)
  PROVE  IInv'
<1>1. /\ pc[w] = "move"
      /\ \A v \in Worker \ {w} : pc[v] \notin Locked /\ files[v] = {}
      /\ base \in Inode /\ len[w] \in Nat
  <2>1. pc[w] = "move"
    BY DEF RollStep, SequenceStep, RollUnlink, RollRename, RollBase, SequenceUnlink, SequenceBase
  <2>2. \A v \in Worker \ {w} : pc[v] \notin Locked
    BY <2>1, LockInvExcludes DEF IInv, RotationExclusive
  <2> QED
    BY <2>1, <2>2, Length DEF IInv, TypeOK, ListInv, FullInv
<1> USE DEF IInv, TypeOK, LockInv, ListInv, ListAccurate, FullInv,
        FullUnderLock, fileVars, lockVars, Pc
<1>2. ASSUME NEW i \in Index,
             RollUnlink(w, i) \/ SequenceUnlink(w, i)
      PROVE  IInv'
  <2>1. /\ archive' = [archive EXCEPT ![i] = NoFile]
        /\ files' = [files EXCEPT ![w] = @ \ {i}]
        /\ UNCHANGED <<mode, base, size, created, mutex, flock, pc, fd, len, skipped>>
    BY <1>2 DEF RollUnlink, SequenceUnlink
  <2>2. removed' \in [Worker -> Nat]
    BY <1>2 DEF RollUnlink, SequenceUnlink
  <2>3. TypeOK' /\ LockInv' /\ ListInv' /\ FullInv'
    BY <1>1, <2>1, <2>2
  <2>4. ListAccurate'
    BY <1>1, <2>1
  <2> QED
    BY <2>3, <2>4
<1>3. ASSUME NEW i \in Index, RollRename(w, i)
      PROVE  IInv'
  <2> DEFINE to == Cardinality(files[w])
  <2>1. /\ files' = [files EXCEPT ![w] = @ \ {i}]
        /\ UNCHANGED <<mode, base, size, created, mutex, flock, pc, fd, len, removed, skipped>>
        /\ archive[i] # NoFile
        /\ archive' = IF i = to THEN archive
                      ELSE [archive EXCEPT ![to] = archive[i], ![i] = NoFile]
    BY <1>3 DEF RollRename, RenameArchive
  <2>2. archive' \in [Index -> Inode \cup {NoFile}]
    BY <2>1
  <2>3. \A j \in Index : j # i /\ archive[j] # NoFile => archive'[j] # NoFile
    BY <2>1
  <2>4. TypeOK' /\ LockInv' /\ ListInv' /\ FullInv'
    BY <1>1, <2>1, <2>2
  <2>5. ListAccurate'
    BY <1>1, <2>1, <2>3
  <2> QED
    BY <2>4, <2>5
<1>4. ASSUME NEW j, RenameBase(j), Leave(w, "funlock"), UNCHANGED <<mode, created>>
      PROVE  IInv'
  <2>1. /\ base' = NoFile /\ size' = 0
        /\ archive' = [archive EXCEPT ![j] = base]
        /\ files' = [files EXCEPT ![w] = {}]
        /\ pc' = [pc EXCEPT ![w] = "funlock"]
        /\ removed' = [removed EXCEPT ![w] = 0]
        /\ UNCHANGED <<mode, created, mutex, flock, fd, len, skipped>>
    BY <1>4 DEF RenameBase, Leave
  <2>2. /\ archive' \in [Index -> Inode \cup {NoFile}]
        /\ pc' \in [Worker -> Pc]
        /\ size' \in 0..MaxFile
    <3>1. archive' \in [Index -> Inode \cup {NoFile}]
      BY <1>1, <2>1
    <3>2. pc' \in [Worker -> Pc]
      BY <2>1
    <3>3. size' \in 0..MaxFile
      BY <2>1
    <3> QED
      BY <3>1, <3>2, <3>3
  <2>3. TypeOK'
    <3>1. skipped' \in BOOLEAN
      BY <2>1
    <3>2. files' \in [Worker -> SUBSET Index] /\ removed' \in [Worker -> Nat]
      BY <2>1
    <3>3. \A v \in Worker : pc'[v] = "write" => fd'[v] # NoFile
      BY <1>1, <2>1
    <3> QED
      BY <2>1, <2>2, <3>1, <3>2, <3>3
  <2>4. LockInv' /\ ListInv' /\ ListAccurate'
    BY <1>1, <2>1
  <2>5. FullInv'
    BY <1>1, <2>1
  <2> QED
    BY <2>3, <2>4, <2>5
<1>5. CASE RollStep(w)
  BY <1>5, <1>2, <1>3, <1>4 DEF RollStep, RollBase
<1>6. CASE SequenceStep(w)
  BY <1>6, <1>2, <1>4 DEF SequenceStep, SequenceBase
<1> QED
  BY <1>5, <1>6

LEMMA CrashStep ==
  ASSUME IInv, NEW p \in Proc, Crash(p)
  PROVE  IInv'
<1> USE DEF IInv, TypeOK, LockInv, ListInv, ListAccurate, FullInv,
        FullUnderLock, fileVars, Pc, Crash
<1>1. TypeOK'
  OBVIOUS
<1>2. LockInv'
  OBVIOUS
<1>3. ListInv' /\ ListAccurate'
  OBVIOUS
<1>4. FullInv'
  OBVIOUS
<1> QED
  BY <1>1, <1>2, <1>3, <1>4

THEOREM NextIInv == IInv /\ [Next]_vars => IInv'
<1>1. ASSUME IInv, UNCHANGED vars
      PROVE  IInv'
  BY <1>1 DEF vars, fileVars, lockVars, IInv, TypeOK, LockInv, ListInv, ListAccurate, FullInv,
              FullUnderLock
<1> QED
  BY <1>1, AppendStep, LockStep, LookStep, MoveStep, CrashStep DEF Next, Step, Exhausted

THEOREM Invariance == Spec => []IInv
  BY InitIInv, NextIInv, PTL DEF Spec

\* Every variable keeps its type; a writer never writes without a file.
THEOREM TypeCorrect == Spec => []TypeOK
  BY Invariance, PTL DEF IInv

\* The mutex and the fcntl lock together leave at most one rotation in the
\* directory, whatever dies or fails (cdlog_rotater_trylock).
THEOREM RotationsExclude == Spec => []RotationExclusive
<1>1. IInv => RotationExclusive
  BY LockInvExcludes DEF IInv
<1> QED
  BY <1>1, Invariance, PTL

\* Whatever fails or dies, a lock that is held is held by a rotation under way
\* (cdlog_rotater_unlock on every path of cdlog_rotater_rotate).
THEOREM LocksComeBack == Spec => []LocksOwned
<1>1. LocksOwned /\ IInv /\ [Next]_vars => LocksOwned'
  <2> SUFFICES ASSUME LocksOwned, IInv, [Next]_vars
               PROVE  LocksOwned'
    OBVIOUS
  <2>1. \A v, w \in Worker : pc[v] \in Locked /\ pc[w] \in Locked => v = w
    BY LockInvExcludes DEF IInv, RotationExclusive
  <2> USE DEF LocksOwned, IInv, TypeOK, LockInv, lockVars
  <2>2. ASSUME UNCHANGED <<lockVars, pc>>
        PROVE  LocksOwned'
    BY <2>2
  <2>3. ASSUME NEW w \in Worker, UNCHANGED lockVars,
               \/ pc[w] \notin Locked \cup {"flock", "munlock"}
               \/ pc[w] \in Locked /\ pc'[w] \in Locked,
               \A v \in Worker \ {w} : pc'[v] = pc[v]
        PROVE  LocksOwned'
    BY <2>3
  <2>4. ASSUME NEW w \in Worker, (\E n \in Lengths : Open(w, n)) \/ Write(w) \/ Stat(w)
        PROVE  LocksOwned'
    BY <2>4, <2>3 DEF Open, Write, Stat, Return
  <2>5. ASSUME NEW w \in Worker, Recheck(w) \/ List(w) \/ ListFails(w) \/ MoveFails(w)
        PROVE  LocksOwned'
    <3>1. pc'[w] \in Locked
      BY <2>5 DEF Recheck, List, ListFails, MoveFails, Leave, AfterFailure
    <3> QED
      BY <2>5, <2>3, <3>1 DEF Recheck, List, ListFails, MoveFails, Leave, AfterFailure
  <2>6. ASSUME NEW w \in Worker, RollStep(w) \/ SequenceStep(w)
        PROVE  LocksOwned'
    <3>1. pc[w] = "move" /\ UNCHANGED lockVars
          /\ (UNCHANGED pc \/ pc' = [pc EXCEPT ![w] = "funlock"])
      BY <2>6 DEF RollStep, RollUnlink, RollRename, RollBase, SequenceStep, SequenceUnlink,
                  SequenceBase, Leave
    <3> QED
      BY <3>1, <2>2, <2>3
  <2>7. ASSUME NEW w \in Worker, MutexTry(w)
        PROVE  LocksOwned'
    BY <2>7 DEF MutexTry, Return
  <2>8. ASSUME NEW w \in Worker, FlockTry(w)
        PROVE  LocksOwned'
    BY <2>8, <2>1 DEF FlockTry, FlockFree
  <2>9. ASSUME NEW w \in Worker, FlockRelease(w)
        PROVE  LocksOwned'
    BY <2>9, <2>1 DEF FlockRelease
  <2>10. ASSUME NEW w \in Worker, MutexRelease(w)
         PROVE  LocksOwned'
    BY <2>10 DEF MutexRelease, Return
  <2>11. ASSUME NEW p \in Proc, Crash(p)
         PROVE  LocksOwned'
    BY <2>11 DEF Crash
  <2> QED
    BY <2>2, <2>4, <2>5, <2>6, <2>7, <2>8, <2>9, <2>10, <2>11 DEF Next, Step, Exhausted, vars
<1>2. Init => LocksOwned
  BY DEF Init, LocksOwned
<1> QED
  BY <1>1, <1>2, Invariance, PTL DEF Spec

\* A listed archive is still there when its turn comes (cdlog_rotater_lsmv).
THEOREM ListsAccurate == Spec => []ListAccurate
  BY Invariance, PTL DEF IInv

\* Whatever has been written or rotated between a writer's own look at the file
\* and its turn under the locks, what it archives is due: one more message of its
\* length no longer fits (the second stat of cdlog_rotater_rotate).
THEOREM RotatesWhenDue == Spec => ArchivedWhenDue
<1>1. ASSUME IInv, [Next]_vars, base # NoFile, base' = NoFile
      PROVE  \E w \in Worker : pc[w] = "move" /\ len[w] <= MaxSize /\ size + len[w] > MaxSize
  <2>1. \/ \E w \in Worker : RollBase(w) \/ \E j \in Index : SequenceBase(w, j)
        \/ base' = base \/ \E w \in Worker, n \in Lengths : Open(w, n)
    BY <1>1 DEF Next, Step, Exhausted, vars, fileVars, Write, Stat, MutexTry, FlockTry, Recheck,
                List, ListFails, MoveFails, FlockRelease, MutexRelease, Crash, RollStep,
                SequenceStep, RollUnlink, RollRename, SequenceUnlink
  <2>2. PICK w \in Worker : pc[w] = "move"
    BY <1>1, <2>1 DEF RollBase, SequenceBase, Open
  <2> QED
    BY <1>1, <2>2 DEF IInv, FullInv, FullUnderLock
<1>2. ASSUME IInv, [Next]_vars
      PROVE  [base # NoFile /\ base' = NoFile =>
                \E w \in Worker : /\ pc[w] = "move"
                                  /\ len[w] <= MaxSize
                                  /\ size + len[w] > MaxSize]_vars
  BY <1>1, <1>2
<1> QED
  BY <1>2, Invariance, PTL DEF Spec, ArchivedWhenDue

-----------------------------------------------------------------------------
(***************************************************************************)
(* The archives.                                                           *)
(*                                                                         *)
(* Files are numbered by creation, so what is archived is older than the   *)
(* log file.  A rolling rotation leaves at most one index free below the   *)
(* last, wherever it is cut short: the list it goes through from the end   *)
(* reaches down to some index m, and once it is below the free one, m is   *)
(* the free one.                                                           *)
(***************************************************************************)
BornInv ==
  /\ base <= created
  /\ \A i \in Existing : archive[i] <= created /\ (base # NoFile => archive[i] < base)

Gap(n, g) ==
  /\ g \in 0 .. n
  /\ Existing = (0 .. n) \ {g}
  /\ \A w \in Worker : pc[w] = "move" => \E m \in g .. n + 1 : files[w] = (0 .. m - 1) \ {g}

RollInv == mode = "rolling" => \E n \in Nat : \E g \in 0 .. n : Gap(n, g)

\* Archives are removed before any is moved.
RoomInv ==
  \A w \in Worker : pc[w] = "move" =>
    \/ files[w] = Existing
    \/ mode = "rolling" /\ (MaxCount > 0 => Cardinality(Existing) < MaxCount)

SoundInv == IInv /\ BornInv /\ InOrder /\ RollInv /\ RoomInv

\* A list that was short of an archive voids the rest for good.
ChainInv == IInv /\ BornInv /\ (~skipped => SoundInv)

\* No archive has been left out of a list, nor is in this step.
Complete == ~skipped /\ ~skipped'

-----------------------------------------------------------------------------
\* How many indexes below m are not g.
LEMMA Positions ==
  ASSUME NEW m \in Nat, NEW g \in Nat
  PROVE  /\ IsFiniteSet((0 .. m - 1) \ {g})
         /\ Cardinality((0 .. m - 1) \ {g}) = IF g < m THEN m - 1 ELSE m
<1>1. IsFiniteSet(0 .. m - 1) /\ Cardinality(0 .. m - 1) = m
  <2>1. m - 1 \in Int /\ 0 \in Int
    OBVIOUS
  <2>2. IsFiniteSet(0 .. m - 1) /\ Cardinality(0 .. m - 1) = IF 0 > m - 1 THEN 0 ELSE m - 1 - 0 + 1
    BY <2>1, FS_Interval
  <2> QED
    BY <2>2
<1>2. /\ IsFiniteSet((0 .. m - 1) \ {g})
      /\ Cardinality((0 .. m - 1) \ {g})
           = IF g \in 0 .. m - 1 THEN Cardinality(0 .. m - 1) - 1 ELSE Cardinality(0 .. m - 1)
  BY <1>1, FS_RemoveElement
<1> QED
  BY <1>1, <1>2

\* Every archive is another file.
LEMMA KeptCardinality ==
  ASSUME IInv, InOrder
  PROVE  /\ IsFiniteSet(Existing) /\ IsFiniteSet(Kept)
         /\ Cardinality(Kept) = Cardinality(Existing)
         /\ Cardinality(Existing) \in Nat /\ Cardinality(Existing) <= MaxInode
<1> DEFINE f == [i \in Existing |-> archive[i]]
<1>1. IsFiniteSet(Existing)
  <2>1. IsFiniteSet(0 .. MaxInode)
    <3>1. 0 \in Int /\ MaxInode \in Int
      OBVIOUS
    <3> QED
      BY <3>1, FS_Interval
  <2> QED
    BY <2>1, FS_Subset DEF Existing, Index
<1>2. \A i, j \in Existing : i # j => archive[i] # archive[j]
  <2> SUFFICES ASSUME NEW i \in Existing, NEW j \in Existing, i < j PROVE archive[i] # archive[j]
    BY DEF Existing, Index
  <2>1. archive[i] > archive[j] \/ archive[i] < archive[j]
    BY DEF InOrder
  <2>2. archive[i] \in Int /\ archive[j] \in Int
    BY DEF IInv, TypeOK, Existing, Inode
  <2> QED
    BY <2>1, <2>2
<1>3. f \in Bijection(Existing, Kept)
  <2>1. f \in [Existing -> Kept]
    BY DEF Kept
  <2>2. \A k \in Kept : \E i \in Existing : f[i] = k
    BY DEF Kept
  <2> QED
    BY <1>2, <2>1, <2>2, Zenon DEF Bijection, Injection, Surjection, IsInjective
<1>4. IsFiniteSet(Kept) /\ Cardinality(Kept) = Cardinality(Existing)
  BY <1>1, <1>3, FS_Bijection DEF ExistsBijection
<1>5. Cardinality(Kept) <= MaxInode
  <2>1. Kept \subseteq 1 .. MaxInode
    BY DEF IInv, TypeOK, Kept, Existing, Inode
  <2>2. IsFiniteSet(1 .. MaxInode) /\ Cardinality(1 .. MaxInode) = MaxInode
    <3>1. 1 \in Int /\ MaxInode \in Int
      OBVIOUS
    <3>2. IsFiniteSet(1 .. MaxInode)
          /\ Cardinality(1 .. MaxInode) = IF 1 > MaxInode THEN 0 ELSE MaxInode - 1 + 1
      BY <3>1, FS_Interval
    <3> QED
      BY <3>2
  <2> QED
    BY <2>1, <2>2, FS_Subset
<1> QED
  BY <1>1, <1>4, <1>5, FS_CardinalityType

-----------------------------------------------------------------------------
LEMMA ChainInvInit == Init => ChainInv
<1> SUFFICES ASSUME Init PROVE ChainInv
  OBVIOUS
<1>1. Existing = {}
  BY DEF Init, Existing
<1>2. RollInv
  <2>1. Gap(0, 0)
    BY <1>1 DEF Init, Gap
  <2> QED
    BY <2>1 DEF RollInv
<1> QED
  BY <1>1, <1>2, InitIInv DEF Init, ChainInv, SoundInv, BornInv, InOrder, RoomInv

\* What leaves the archives alone.
LEMMA SoundKept ==
  ASSUME SoundInv, Complete, IInv', BornInv', UNCHANGED <<mode, archive>>,
         \A w \in Worker : pc'[w] = "move" =>
           (pc[w] = "move" /\ files'[w] = files[w]) \/ files'[w] = Existing
  PROVE  SoundInv'
<1>1. Existing' = Existing
  BY DEF Existing
<1>2. InOrder' /\ RoomInv'
  BY <1>1 DEF SoundInv, InOrder, RoomInv
<1>3. RollInv'
  <2> SUFFICES ASSUME mode = "rolling" PROVE \E n \in Nat : \E g \in 0 .. n : Gap(n, g)'
    BY DEF RollInv
  <2>1. PICK n \in Nat : \E g \in 0 .. n : Gap(n, g)
    BY DEF SoundInv, RollInv
  <2>2. PICK g \in 0 .. n : Gap(n, g)
    BY <2>1
  <2>3. n + 1 \in g .. n + 1 /\ Existing = (0 .. (n + 1) - 1) \ {g}
    BY <2>2 DEF Gap
  <2>4. \A w \in Worker : pc'[w] = "move" => \E m \in g .. n + 1 : files'[w] = (0 .. m - 1) \ {g}
    BY <2>2, <2>3 DEF Gap
  <2> QED
    BY <1>1, <2>2, <2>4 DEF Gap
<1> QED
  BY <1>2, <1>3 DEF SoundInv

\* A step of the chain, or none.
Promised == [Chain!Move]_(Chain!chainVars)

\* The cardinality ArchiveChain speaks of is the one spoken of here.
LEMMA SameCardinality == ASSUME NEW S PROVE Chain!Cardinality(S) = Cardinality(S)
BY Zenon DEF Chain!Cardinality, Cardinality

LEMMA Unmoved ==
  ASSUME Complete, UNCHANGED <<mode, archive, base>>
  PROVE  Promised
BY DEF Promised, Complete, Chain!chainVars, Kept, Existing

LEMMA SoundOpen ==
  ASSUME SoundInv, Complete, IInv', NEW w \in Worker, NEW l \in Lengths, Open(w, l)
  PROVE  SoundInv' /\ Promised
<1>1. /\ UNCHANGED <<mode, archive, files>> /\ pc' = [pc EXCEPT ![w] = "write"]
      /\ \/ base = NoFile /\ created' = created + 1 /\ base' = created + 1
         \/ base # NoFile /\ UNCHANGED <<created, base>>
  BY DEF Open, NewFile, Goto, listVars
<1>2. Existing' = Existing /\ Kept' = Kept
  BY <1>1 DEF Existing, Kept
<1>3. created \in Nat /\ \A i \in Existing : archive[i] \in Int
  BY DEF SoundInv, IInv, TypeOK, Existing, Inode
<1>4. BornInv'
  BY <1>1, <1>2, <1>3 DEF SoundInv, BornInv
<1>5. SoundInv'
  BY <1>1, <1>4, SoundKept DEF SoundInv, IInv, TypeOK
<1>6. Promised
  <2>1. CASE base # NoFile
    BY <1>1, <2>1, Unmoved
  <2>2. CASE base = NoFile
    <3>1. base' = created + 1
      BY <1>1, <2>2
    <3>2. \A k \in Kept : k < created + 1
      BY <1>3 DEF SoundInv, BornInv, Kept
    <3>3. Chain!Start(base')
      BY <1>2, <1>3, <2>2, <3>1, <3>2 DEF Complete, Chain!Start
    <3>4. Chain!Move
      BY <1>1, <3>3 DEF Chain!Move
    <3> QED
      BY <3>4 DEF Promised
  <2> QED
    BY <2>1, <2>2
<1> QED
  BY <1>5, <1>6

\* What leaves the log file alone too.
LEMMA SoundQuiet ==
  ASSUME SoundInv, Complete, IInv', UNCHANGED <<mode, archive, base, created>>,
         \A w \in Worker : pc'[w] = "move" =>
           (pc[w] = "move" /\ files'[w] = files[w]) \/ files'[w] = Existing
  PROVE  SoundInv' /\ Promised
<1>1. BornInv'
  BY DEF SoundInv, BornInv, Existing
<1> QED
  BY <1>1, SoundKept, Unmoved

LEMMA SoundStep ==
  ASSUME SoundInv, Complete, IInv', NEW w \in Worker,
         \/ Write(w) \/ Stat(w) \/ MutexTry(w) \/ FlockTry(w) \/ Recheck(w) \/ List(w)
         \/ ListFails(w) \/ MoveFails(w) \/ FlockRelease(w) \/ MutexRelease(w)
  PROVE  SoundInv' /\ Promised
<1>1. UNCHANGED <<mode, archive, base, created>>
  BY DEF Write, Stat, MutexTry, FlockTry, Recheck, List, ListFails, MoveFails, FlockRelease,
         MutexRelease, fileVars
<1>2. pc \in [Worker -> Pc] /\ files \in [Worker -> SUBSET Index]
  BY DEF SoundInv, IInv, TypeOK
<1>3. CASE List(w)
  <2>1. \A v \in Worker : pc'[v] = "move" =>
          (pc[v] = "move" /\ files'[v] = files[v]) \/ files'[v] = Existing
    BY <1>2, <1>3 DEF Complete, List, Goto
  <2> QED
    BY <1>1, <2>1, SoundQuiet
<1>4. CASE MoveFails(w) \/ ListFails(w)
  <2>1. \A v \in Worker : pc'[v] = "move" => pc[v] = "move" /\ files'[v] = files[v]
    BY <1>2, <1>4 DEF MoveFails, ListFails, Leave, AfterFailure, Goto
  <2> QED
    BY <1>1, <2>1, SoundQuiet
<1>5. CASE ~List(w) /\ ~MoveFails(w) /\ ~ListFails(w)
  <2>1. files' = files /\ \E where \in {"write", "stat", "mutex", "idle", "flock", "munlock",
                                        "recheck", "list", "funlock"} : Goto(w, where)
    BY <1>5 DEF Write, Stat, MutexTry, FlockTry, Recheck, FlockRelease, MutexRelease, Return,
                listVars
  <2>2. \A v \in Worker : pc'[v] = "move" => pc[v] = "move" /\ files'[v] = files[v]
    BY <1>2, <2>1 DEF Goto
  <2> QED
    BY <1>1, <2>2, SoundQuiet
<1> QED
  BY <1>3, <1>4, <1>5

LEMMA SoundCrash ==
  ASSUME SoundInv, Complete, IInv', NEW p \in Proc, Crash(p)
  PROVE  SoundInv' /\ Promised
<1>1. UNCHANGED <<mode, archive, base, created>>
  BY DEF Crash, fileVars
<1>2. \A v \in Worker : pc'[v] = "move" => pc[v] = "move" /\ files'[v] = files[v]
  BY DEF Crash
<1> QED
  BY <1>1, <1>2, SoundQuiet

-----------------------------------------------------------------------------
(***************************************************************************)
(* The moves.                                                              *)
(***************************************************************************)
\* Who moves is alone, and has a log file to archive.
LEMMA MoverAlone ==
  ASSUME IInv, NEW w \in Worker, pc[w] = "move"
  PROVE  /\ \A v \in Worker : pc[v] = "move" => v = w
         /\ base \in Inode
<1>1. \A v \in Worker : pc[v] = "move" => v = w
  BY LockInvExcludes DEF IInv, RotationExclusive, Locked
<1> QED
  BY <1>1 DEF IInv, TypeOK, FullInv

\* An archive that goes is the oldest, and goes when the chain is full.
LEMMA Dropped ==
  ASSUME IInv, Complete, InOrder, NEW i \in Existing,
         archive' = [archive EXCEPT ![i] = NoFile], UNCHANGED <<mode, base>>,
         IF mode = "rolling" THEN IsLast(i, Existing) ELSE IsFirst(i, Existing),
         MaxCount > 0,
         Cardinality(Existing) >= IF mode = "rolling" THEN MaxCount ELSE MaxCount + 1
  PROVE  Promised
<1>1. archive \in [Index -> Inode \cup {NoFile}] /\ \A j \in Existing : archive[j] \in Inode
  BY DEF IInv, TypeOK, Existing
<1>2. \A j \in Existing : j # i => archive[i] < archive[j]
  BY <1>1 DEF InOrder, IsLast, IsFirst, Existing, Index, Inode
<1>3. Existing' = Existing \ {i} /\ \A j \in Existing \ {i} : archive'[j] = archive[j]
  BY <1>1 DEF Existing
<1>4. Kept' = Kept \ {archive[i]}
  BY <1>1, <1>2, <1>3 DEF Kept, Inode
<1>5. archive[i] \in Kept /\ \A k \in Kept : archive[i] <= k
  BY <1>1, <1>2 DEF Kept, Inode
<1>6. Cardinality(Kept) = Cardinality(Existing)
  BY KeptCardinality
<1>7. Chain!DropOldest
  BY <1>4, <1>5, <1>6, SameCardinality DEF Complete, Chain!DropOldest
<1>8. Chain!Move
  BY <1>7 DEF Chain!Move
<1> QED
  BY <1>8 DEF Promised

\* The log file goes behind the archives, which leave room for it.
LEMMA Archived ==
  ASSUME IInv, Complete, BornInv, InOrder, NEW j \in Index, j \notin Existing, base # NoFile,
         RenameBase(j), UNCHANGED <<mode, created>>,
         MaxCount > 0 => Cardinality(Existing) < IF mode = "rolling" THEN MaxCount ELSE MaxCount + 1,
         \A i \in Existing : IF mode = "rolling" THEN j < i ELSE i < j
  PROVE  /\ Promised /\ BornInv' /\ InOrder'
         /\ Existing' = Existing \cup {j}
<1>1. /\ archive \in [Index -> Inode \cup {NoFile}] /\ \A i \in Existing : archive[i] \in Inode
      /\ base \in Inode /\ created \in Nat
  BY DEF IInv, TypeOK, Existing
<1>2. archive' = [archive EXCEPT ![j] = base] /\ base' = NoFile
  BY DEF RenameBase
<1>3. /\ Existing' = Existing \cup {j} /\ archive'[j] = base
      /\ \A i \in Existing : archive'[i] = archive[i]
  BY <1>1, <1>2 DEF Existing, Inode
<1>4. Kept' = Kept \cup {base}
  BY <1>3 DEF Kept
<1>5. BornInv'
  BY <1>1, <1>2, <1>3 DEF BornInv, Inode
<1>6. InOrder'
  <2> SUFFICES ASSUME NEW i \in Existing', NEW k \in Existing', i < k
               PROVE  IF mode = "rolling" THEN archive'[i] > archive'[k]
                                          ELSE archive'[i] < archive'[k]
    BY DEF InOrder
  <2>1. \A h \in Existing : archive[h] < base
    BY DEF BornInv
  <2>2. CASE i = j
    <3>1. k \in Existing /\ mode = "rolling"
      BY <1>3, <2>2 DEF Existing, Index
    <3> QED
      BY <1>1, <1>3, <2>1, <2>2, <3>1 DEF Inode
  <2>3. CASE k = j
    <3>1. i \in Existing /\ mode # "rolling"
      BY <1>3, <2>3 DEF Existing, Index
    <3> QED
      BY <1>1, <1>3, <2>1, <2>3, <3>1
  <2>4. CASE i # j /\ k # j
    BY <1>3, <2>4 DEF InOrder
  <2> QED
    BY <2>2, <2>3, <2>4
<1>7. Cardinality(Kept) = Cardinality(Existing) /\ Cardinality(Existing) \in Nat
      /\ Cardinality(Existing) <= MaxInode
  BY KeptCardinality
<1>8. Chain!Archive
  BY <1>2, <1>4, <1>7, SameCardinality DEF Complete, Chain!Archive
<1>9. Chain!Move
  BY <1>8 DEF Chain!Move
<1> QED
  BY <1>3, <1>5, <1>6, <1>9 DEF Promised

LEMMA SoundRollUnlink ==
  ASSUME SoundInv, Complete, IInv', NEW w \in Worker, NEW i \in Index, RollUnlink(w, i)
  PROVE  SoundInv' /\ Promised
<1>1. /\ mode = "rolling" /\ pc[w] = "move" /\ IsLast(i, files[w]) /\ archive[i] # NoFile
      /\ MaxCount > 0 /\ Cardinality(files[w]) >= MaxCount
      /\ archive' = [archive EXCEPT ![i] = NoFile] /\ files' = [files EXCEPT ![w] = @ \ {i}]
      /\ UNCHANGED <<mode, base, created, pc>>
  BY DEF RollUnlink, InHand, ToUnlink
<1>2. archive \in [Index -> Inode \cup {NoFile}] /\ files \in [Worker -> SUBSET Index]
      /\ IsFiniteSet(Existing) /\ Cardinality(Existing) \in Nat
  BY KeptCardinality DEF SoundInv, IInv, TypeOK
<1>3. i \in Existing /\ Existing' = Existing \ {i}
      /\ \A j \in Existing \ {i} : archive'[j] = archive[j]
  BY <1>1, <1>2 DEF Existing
<1>4. files[w] = Existing
  <2>1. files[w] \subseteq Existing
    BY <1>2 DEF SoundInv, IInv, ListAccurate, Existing
  <2>2. Cardinality(files[w]) <= Cardinality(Existing) /\ Cardinality(files[w]) \in Nat
    BY <1>2, <2>1, FS_Subset, FS_CardinalityType
  <2>3. ~(Cardinality(Existing) < MaxCount)
    BY <1>1, <1>2, <2>2
  <2> QED
    BY <1>1, <2>3 DEF SoundInv, RoomInv
<1>5. Promised
  BY <1>1, <1>3, <1>4, Dropped DEF SoundInv
<1>6. BornInv' /\ InOrder'
  BY <1>1, <1>3 DEF SoundInv, BornInv, InOrder
<1>7. \A v \in Worker : pc[v] = "move" => v = w
  BY <1>1, MoverAlone DEF SoundInv
<1>8. files'[w] = Existing'
  BY <1>1, <1>2, <1>3, <1>4
<1>9. RoomInv'
  BY <1>1, <1>7, <1>8 DEF RoomInv
<1>10. RollInv'
  <2>1. PICK n \in Nat : \E g \in 0 .. n : Gap(n, g)
    BY <1>1 DEF SoundInv, RollInv
  <2>2. PICK g \in 0 .. n : Gap(n, g)
    BY <2>1
  <2>3. Existing = (0 .. n) \ {g} /\ i \in 0 .. n /\ i # g /\ \A j \in Existing : j <= i
    BY <1>1, <1>3, <1>4, <2>2 DEF Gap, IsLast
  <2>4. n - 1 \in Nat
    BY <2>3
  <2>5. PICK h \in 0 .. n - 1 : Existing' = (0 .. n - 1) \ {h}
    <3>1. CASE g = n
      <4>1. i = n - 1
        <5>1. n - 1 \in Existing
          BY <2>3, <2>4, <3>1
        <5> QED
          BY <2>3, <3>1, <5>1
      <4> QED
        BY <1>3, <2>3, <2>4, <3>1, <4>1
    <3>2. CASE g # n
      <4>1. i = n
        <5>1. n \in Existing
          BY <2>3, <3>2
        <5> QED
          BY <2>3, <5>1
      <4>2. g \in 0 .. n - 1 /\ Existing' = (0 .. n - 1) \ {g}
        BY <1>3, <2>3, <3>2, <4>1
      <4> QED
        BY <4>2
    <3> QED
      BY <3>1, <3>2
  <2>6. n \in h .. (n - 1) + 1 /\ files'[w] = (0 .. n - 1) \ {h}
    BY <1>8, <2>5
  <2>7. \A v \in Worker : pc'[v] = "move" =>
          \E m \in h .. (n - 1) + 1 : files'[v] = (0 .. m - 1) \ {h}
    BY <1>1, <1>7, <2>6
  <2>8. Gap(n - 1, h)'
    BY <2>5, <2>7 DEF Gap
  <2> QED
    BY <2>4, <2>8 DEF RollInv
<1> QED
  BY <1>5, <1>6, <1>9, <1>10 DEF SoundInv

LEMMA SoundRollRename ==
  ASSUME SoundInv, Complete, IInv', NEW w \in Worker, NEW i \in Index, RollRename(w, i)
  PROVE  SoundInv' /\ Promised
<1> DEFINE to == Cardinality(files[w])
<1>1. /\ mode = "rolling" /\ pc[w] = "move" /\ IsLast(i, files[w]) /\ archive[i] # NoFile
      /\ ~ToUnlink(w)
      /\ archive' = IF i = to THEN archive
                    ELSE [archive EXCEPT ![to] = archive[i], ![i] = NoFile]
      /\ files' = [files EXCEPT ![w] = @ \ {i}]
      /\ UNCHANGED <<mode, base, created, pc>>
  BY DEF RollRename, InHand, RenameArchive
<1>2. archive \in [Index -> Inode \cup {NoFile}] /\ files \in [Worker -> SUBSET Index]
      /\ \A j \in Existing : archive[j] \in Inode
  BY DEF SoundInv, IInv, TypeOK, Existing
<1>3. IsFiniteSet(Existing) /\ Cardinality(Existing) \in Nat /\ Cardinality(Existing) <= MaxInode
  BY KeptCardinality DEF SoundInv
<1>4. PICK n \in Nat : \E g \in 0 .. n : Gap(n, g)
  BY <1>1 DEF SoundInv, RollInv
<1>5. PICK g \in 0 .. n : Gap(n, g)
  BY <1>4
<1>6. PICK m \in g .. n + 1 : files[w] = (0 .. m - 1) \ {g}
  BY <1>1, <1>5 DEF Gap
<1>7. m \in Nat /\ Existing = (0 .. n) \ {g} /\ i \in 0 .. m - 1 /\ i # g /\ i \in Existing
      /\ \A j \in files[w] : j <= i
  BY <1>1, <1>5, <1>6 DEF Gap, IsLast
<1>8. to = IF g < m THEN m - 1 ELSE m
  <2>1. g \in Nat
    OBVIOUS
  <2>2. Cardinality((0 .. m - 1) \ {g}) = IF g < m THEN m - 1 ELSE m
    BY <1>7, <2>1, Positions, Zenon
  <2> QED
    BY <1>6, <2>2, Zenon
<1>9. \A v \in Worker : pc[v] = "move" => v = w
  BY <1>1, MoverAlone DEF SoundInv
<1>10. MaxCount > 0 => Cardinality(Existing) < MaxCount
  <2>1. MaxCount > 0 => to < MaxCount
    <3>1. to \in Nat
      BY <1>7, <1>8
    <3> QED
      BY <1>1, <3>1 DEF ToUnlink
  <2> QED
    BY <1>1, <2>1 DEF SoundInv, RoomInv
<1> HIDE DEF to
<1>11. CASE m > g + 1
  <2>1. m - 1 \in files[w]
    BY <1>6, <1>7, <1>11
  <2>2. i = m - 1 /\ i = to
    BY <1>7, <1>8, <1>11, <2>1
  <2>3. archive' = archive /\ Existing' = Existing
    BY <1>1, <2>2 DEF Existing
  <2>4. Promised
    BY <1>1, <2>3, Unmoved
  <2>5. BornInv' /\ InOrder' /\ RoomInv'
    BY <1>1, <1>10, <2>3 DEF SoundInv, BornInv, InOrder, RoomInv
  <2>6. m - 1 \in g .. n + 1 /\ files'[w] = (0 .. (m - 1) - 1) \ {g}
    BY <1>1, <1>2, <1>6, <1>7, <1>11, <2>2
  <2>7. Gap(n, g)'
    BY <1>1, <1>5, <1>9, <2>3, <2>6 DEF Gap
  <2>8. RollInv'
    BY <2>7 DEF RollInv
  <2> QED
    BY <2>4, <2>5, <2>8 DEF SoundInv
<1>12. CASE m <= g + 1
  <2>1. g >= 1 /\ files[w] = 0 .. g - 1
    BY <1>6, <1>7, <1>12
  <2>2. i = g - 1 /\ to = g
    <3>1. g - 1 \in files[w]
      BY <2>1
    <3>2. i = g - 1
      BY <1>7, <1>12, <3>1
    <3>3. to = g
      BY <1>7, <1>8, <1>12
    <3> QED
      BY <3>2, <3>3
  <2>3. g \in Index
    <3>1. CASE g < n
      <4>1. n \in Existing
        BY <1>7, <3>1
      <4> QED
        BY <3>1, <4>1 DEF Existing, Index
    <3>2. CASE g = n
      <4>1. PICK k \in Nat : k = n + 1
        OBVIOUS
      <4>2. g \in Nat /\ g < k /\ k - 1 = n
        BY <3>2, <4>1
      <4>3. Cardinality((0 .. k - 1) \ {g}) = IF g < k THEN k - 1 ELSE k
        BY <4>2, Positions, Zenon
      <4>4. Cardinality(Existing) = n
        BY <1>7, <4>2, <4>3, Zenon
      <4> QED
        BY <1>3, <3>2, <4>4 DEF Index
    <3> QED
      BY <3>1, <3>2
  <2>4. archive' = [archive EXCEPT ![g] = archive[i], ![i] = NoFile]
    BY <1>1, <2>2
  <2>5. g \notin Existing /\ Existing' = (0 .. n) \ {i}
    <3>1. g \notin Existing
      BY <1>7
    <3>2. Existing' = (Existing \cup {g}) \ {i}
      BY <1>2, <1>7, <2>3, <2>4, <3>1 DEF Existing, Inode
    <3> QED
      BY <1>7, <2>2, <3>1, <3>2
  <2>6. archive'[g] = archive[i] /\ \A j \in Existing \ {i} : archive'[j] = archive[j]
    BY <1>2, <1>7, <2>3, <2>4, <2>5 DEF Existing
  <2>7. \A j \in Existing' : j = g \/ j \in Existing \ {i}
    BY <1>7, <2>5
  <2>8. Kept' = Kept
    <3>1. Kept' \subseteq Kept
      BY <1>7, <2>6, <2>7 DEF Kept
    <3>2. \A j \in Existing : archive[j] \in Kept'
      BY <1>7, <2>2, <2>5, <2>6 DEF Kept
    <3> QED
      BY <3>1, <3>2 DEF Kept
  <2>9. Promised
    BY <1>1, <2>8 DEF Promised, Complete, Chain!chainVars
  <2>10. BornInv'
    BY <1>1, <1>7, <2>6, <2>7 DEF SoundInv, BornInv
  <2>11. InOrder'
    <3> SUFFICES ASSUME NEW j \in Existing', NEW k \in Existing', j < k
                 PROVE  archive'[j] > archive'[k]
      BY <1>1 DEF InOrder
    <3>1. \A a, b \in Existing : a < b => archive[a] > archive[b]
      BY <1>1 DEF SoundInv, InOrder
    <3>2. CASE j = g
      <4>1. k \in Existing /\ i < k
        BY <2>2, <2>7, <3>2
      <4> QED
        BY <1>7, <2>6, <2>7, <3>1, <3>2, <4>1
    <3>3. CASE k = g
      <4>1. j \in Existing /\ j < i
        BY <1>7, <2>2, <2>5, <2>7, <3>3
      <4> QED
        BY <1>7, <2>6, <2>7, <3>1, <3>3, <4>1
    <3>4. CASE j # g /\ k # g
      BY <2>6, <2>7, <3>1, <3>4
    <3> QED
      BY <3>2, <3>3, <3>4
  <2>12. RoomInv'
    <3>1. Existing' = (Existing \cup {g}) \ {i}
      BY <1>7, <2>2, <2>5
    <3>2. Cardinality(Existing') = Cardinality(Existing)
      <4>1. IsFiniteSet(Existing \cup {g}) /\ Cardinality(Existing \cup {g}) = Cardinality(Existing) + 1
        BY <1>3, <2>5, FS_AddElement
      <4>2. Cardinality((Existing \cup {g}) \ {i}) = Cardinality(Existing \cup {g}) - 1
        BY <1>7, <4>1, FS_RemoveElement
      <4> QED
        BY <1>3, <3>1, <4>1, <4>2
    <3> QED
      BY <1>1, <1>9, <1>10, <3>2 DEF RoomInv
  <2>13. i \in i .. n + 1 /\ files'[w] = (0 .. i - 1) \ {i}
    BY <1>1, <1>2, <1>7, <2>1, <2>2
  <2>14. i \in 0 .. n /\ Gap(n, i)'
    BY <1>1, <1>7, <1>9, <2>5, <2>13 DEF Gap
  <2>15. RollInv'
    BY <2>14 DEF RollInv
  <2> QED
    BY <2>9, <2>10, <2>11, <2>12, <2>15 DEF SoundInv
<1> QED
  BY <1>7, <1>11, <1>12

\* After the last move nobody is moving.
LEMMA SoundRollBase ==
  ASSUME SoundInv, Complete, IInv', NEW w \in Worker, RollBase(w)
  PROVE  SoundInv' /\ Promised
<1>1. /\ mode = "rolling" /\ pc[w] = "move" /\ files[w] = {} /\ base # NoFile /\ RenameBase(0)
      /\ pc' = [pc EXCEPT ![w] = "funlock"] /\ UNCHANGED <<mode, created>>
  BY DEF RollBase, Leave, Goto
<1>2. pc \in [Worker -> Pc] /\ \A v \in Worker : pc[v] = "move" => v = w
  BY <1>1, MoverAlone DEF SoundInv, IInv, TypeOK
<1>3. \A v \in Worker : pc'[v] # "move"
  BY <1>1, <1>2
<1>4. PICK n \in Nat : \E g \in 0 .. n : Gap(n, g)
  BY <1>1 DEF SoundInv, RollInv
<1>5. PICK g \in 0 .. n : Gap(n, g)
  BY <1>4
<1>6. PICK m \in g .. n + 1 : files[w] = (0 .. m - 1) \ {g}
  BY <1>1, <1>5 DEF Gap
<1>7. g = 0
  <2> SUFFICES ASSUME g # 0 PROVE FALSE
    OBVIOUS
  <2>1. 0 \in (0 .. m - 1) \ {g}
    OBVIOUS
  <2> QED
    BY <1>1, <1>6, <2>1
<1>8. Existing = (0 .. n) \ {0} /\ 0 \in Index /\ 0 \notin Existing
      /\ \A i \in Existing : 0 < i
  BY <1>5, <1>7 DEF Gap, Index
<1>9. MaxCount > 0 => Cardinality(Existing) < MaxCount
  <2>1. CASE files[w] = Existing
    BY <1>1, <2>1, FS_EmptySet
  <2>2. CASE files[w] # Existing
    BY <1>1, <2>2 DEF SoundInv, RoomInv
  <2> QED
    BY <2>1, <2>2
<1>10. Promised /\ BornInv' /\ InOrder' /\ Existing' = Existing \cup {0}
  BY <1>1, <1>8, <1>9, Archived DEF SoundInv
<1>11. Existing' = (0 .. n + 1) \ {n + 1}
  BY <1>8, <1>10
<1>12. n + 1 \in Nat /\ n + 1 \in 0 .. n + 1 /\ Gap(n + 1, n + 1)'
  BY <1>3, <1>11 DEF Gap
<1>13. RollInv' /\ RoomInv'
  BY <1>3, <1>12 DEF RollInv, RoomInv
<1> QED
  BY <1>10, <1>13 DEF SoundInv

LEMMA SoundSequenceUnlink ==
  ASSUME SoundInv, Complete, IInv', NEW w \in Worker, NEW i \in Index, SequenceUnlink(w, i)
  PROVE  SoundInv' /\ Promised
<1>1. /\ mode = "sequence" /\ pc[w] = "move" /\ IsFirst(i, files[w]) /\ archive[i] # NoFile
      /\ MaxCount > 0 /\ Cardinality(files[w]) > MaxCount
      /\ archive' = [archive EXCEPT ![i] = NoFile] /\ files' = [files EXCEPT ![w] = @ \ {i}]
      /\ UNCHANGED <<mode, base, created, pc>>
  BY DEF SequenceUnlink, SequenceUnlinks
<1>2. archive \in [Index -> Inode \cup {NoFile}] /\ files \in [Worker -> SUBSET Index]
      /\ IsFiniteSet(Existing) /\ Cardinality(Existing) \in Nat
  BY KeptCardinality DEF SoundInv, IInv, TypeOK
<1>3. i \in Existing /\ Existing' = Existing \ {i}
      /\ \A j \in Existing \ {i} : archive'[j] = archive[j]
  BY <1>1, <1>2 DEF Existing
<1>4. files[w] = Existing /\ mode # "rolling"
  BY <1>1 DEF SoundInv, RoomInv
<1>5. Cardinality(Existing) >= MaxCount + 1
  BY <1>1, <1>2, <1>4
<1>6. Promised
  BY <1>1, <1>3, <1>4, <1>5, Dropped DEF SoundInv
<1>7. BornInv' /\ InOrder'
  BY <1>1, <1>3 DEF SoundInv, BornInv, InOrder
<1>8. \A v \in Worker : pc[v] = "move" => v = w
  BY <1>1, MoverAlone DEF SoundInv
<1>9. files'[w] = Existing'
  BY <1>1, <1>2, <1>3, <1>4
<1>10. RoomInv' /\ RollInv'
  BY <1>1, <1>4, <1>8, <1>9 DEF RoomInv, RollInv
<1> QED
  BY <1>6, <1>7, <1>10 DEF SoundInv

LEMMA SoundSequenceBase ==
  ASSUME SoundInv, Complete, IInv', NEW w \in Worker, NEW j \in Index, SequenceBase(w, j)
  PROVE  SoundInv' /\ Promised
<1>1. /\ mode = "sequence" /\ pc[w] = "move" /\ ~SequenceUnlinks(w) /\ base # NoFile
      /\ IsEnd(w, j) /\ RenameBase(j)
      /\ pc' = [pc EXCEPT ![w] = "funlock"] /\ UNCHANGED <<mode, created>>
  BY DEF SequenceBase, Leave, Goto
<1>2. pc \in [Worker -> Pc] /\ \A v \in Worker : pc[v] = "move" => v = w
  BY <1>1, MoverAlone DEF SoundInv, IInv, TypeOK
<1>3. \A v \in Worker : pc'[v] # "move"
  BY <1>1, <1>2
<1>4. files[w] = Existing /\ mode # "rolling"
  BY <1>1 DEF SoundInv, RoomInv
<1>5. \A i \in Existing : i < j
  <2> SUFFICES ASSUME NEW h \in Existing PROVE h < j
    OBVIOUS
  <2>1. PICK i \in files[w] :
          IsLast(i, files[w])
            /\ IsLast(j - 1, {i, removed[w] + Cardinality(files[w]) - 1})
    BY <1>1, <1>4 DEF IsEnd
  <2>2. i \in Int /\ h \in Int /\ h <= i /\ i <= j - 1
    BY <1>4, <2>1 DEF IsLast, Existing, Index
  <2> QED
    BY <2>2 DEF Index
<1>6. MaxCount > 0 => Cardinality(Existing) < MaxCount + 1
  <2>1. Cardinality(Existing) \in Nat
    BY KeptCardinality DEF SoundInv
  <2> QED
    BY <1>1, <1>4, <2>1 DEF SequenceUnlinks
<1>7. j \notin Existing
  BY <1>5 DEF Index
<1>8. Promised /\ BornInv' /\ InOrder'
  BY <1>1, <1>4, <1>5, <1>6, <1>7, Archived DEF SoundInv
<1>9. RollInv' /\ RoomInv'
  BY <1>1, <1>3, <1>4 DEF RollInv, RoomInv
<1> QED
  BY <1>8, <1>9 DEF SoundInv

-----------------------------------------------------------------------------
(***************************************************************************)
(* Every step.  With an archive left out of a list, what is left is that   *)
(* no file is ever numbered wrongly and that archives go one at a time.    *)
(***************************************************************************)
LEMMA SkippedStays ==
  ASSUME IInv, [Next]_vars, skipped
  PROVE  skipped'
<1>1. skipped' = skipped \/ \E w \in Worker : List(w)
  BY DEF Next, Step, Exhausted, vars, Open, Write, Stat, MutexTry, FlockTry, Recheck, ListFails,
         MoveFails, FlockRelease, MutexRelease, Crash, RollStep, SequenceStep, RollUnlink,
         RollRename, RollBase, SequenceUnlink, SequenceBase, Leave
<1>2. CASE \E w \in Worker : List(w)
  BY <1>2 DEF List
<1> QED
  BY <1>1, <1>2

\* The steps that touch the files.
LEMMA FileStep ==
  ASSUME [Next]_vars
  PROVE  \/ UNCHANGED <<mode, base, archive, created>>
         \/ /\ base = NoFile /\ base' = created + 1 /\ created' = created + 1
            /\ UNCHANGED <<mode, archive, skipped>>
         \/ /\ \E w \in Worker : pc[w] = "move"
            /\ \/ \E i \in Index : /\ archive[i] # NoFile
                                   /\ archive' = [archive EXCEPT ![i] = NoFile]
                                   /\ base' = base
               \/ \E i \in Index : /\ archive[i] # NoFile
                                   /\ \E to : RenameArchive(i, to)
                                   /\ base' = base
               \/ \E j \in Index : base # NoFile /\ RenameBase(j)
            /\ UNCHANGED <<mode, created, skipped>>
<1>1. ASSUME NEW w \in Worker, RollStep(w) \/ SequenceStep(w)
      PROVE  /\ pc[w] = "move"
             /\ \/ \E i \in Index : /\ archive[i] # NoFile
                                    /\ archive' = [archive EXCEPT ![i] = NoFile]
                                    /\ base' = base
                \/ \E i \in Index : /\ archive[i] # NoFile
                                    /\ \E to : RenameArchive(i, to)
                                    /\ base' = base
                \/ \E j \in Index : base # NoFile /\ RenameBase(j)
             /\ UNCHANGED <<mode, created, skipped>>
  <2>1. CASE RollBase(w)
    <3>1. 0 \in Index
      BY DEF Index
    <3> QED
      BY <2>1, <3>1 DEF RollBase, Leave
  <2>2. ASSUME NEW i \in Index, RollUnlink(w, i) \/ SequenceUnlink(w, i)
        PROVE  /\ pc[w] = "move" /\ archive[i] # NoFile
               /\ archive' = [archive EXCEPT ![i] = NoFile]
               /\ UNCHANGED <<base, mode, created, skipped>>
    BY <2>2 DEF RollUnlink, SequenceUnlink
  <2>3. ASSUME NEW i \in Index, RollRename(w, i)
        PROVE  /\ pc[w] = "move" /\ archive[i] # NoFile
               /\ \E to : RenameArchive(i, to)
               /\ UNCHANGED <<base, mode, created, skipped>>
    BY <2>3 DEF RollRename
  <2>4. ASSUME NEW j \in Index, SequenceBase(w, j)
        PROVE  /\ pc[w] = "move" /\ base # NoFile /\ RenameBase(j)
               /\ UNCHANGED <<mode, created, skipped>>
    BY <2>4 DEF SequenceBase, Leave
  <2> QED
    BY <1>1, <2>1, <2>2, <2>3, <2>4 DEF RollStep, SequenceStep
<1>2. ASSUME NEW w \in Worker, NEW n \in Lengths, Open(w, n)
      PROVE  \/ UNCHANGED <<mode, base, archive, created>>
             \/ /\ base = NoFile /\ base' = created + 1 /\ created' = created + 1
                /\ UNCHANGED <<mode, archive, skipped>>
  BY <1>2 DEF Open, NewFile
<1>3. ASSUME NEW w \in Worker,
             \/ Write(w) \/ Stat(w) \/ MutexTry(w) \/ FlockTry(w) \/ Recheck(w) \/ List(w)
             \/ ListFails(w) \/ MoveFails(w) \/ FlockRelease(w) \/ MutexRelease(w)
      PROVE  UNCHANGED <<mode, base, archive, created>>
  BY <1>3 DEF Write, Stat, MutexTry, FlockTry, Recheck, List, ListFails, MoveFails, FlockRelease,
              MutexRelease, fileVars
<1>4. ASSUME (\E p \in Proc : Crash(p)) \/ Exhausted \/ UNCHANGED vars
      PROVE  UNCHANGED <<mode, base, archive, created>>
  BY <1>4 DEF Crash, Exhausted, vars, fileVars
<1> QED
  BY <1>1, <1>2, <1>3, <1>4 DEF Next, Step

\* Removing or renaming an archive takes at most one file away; archiving the log
\* file adds it and may replace one.
LEMMA KeptAfter ==
  ASSUME IInv
  PROVE  /\ \A i \in Index : archive[i] # NoFile /\ archive' = [archive EXCEPT ![i] = NoFile] =>
              Kept' = Kept \/ \E k \in Kept : Kept' = Kept \ {k}
         /\ \A i \in Index : \A to : archive[i] # NoFile /\ RenameArchive(i, to) =>
              Kept' = Kept \/ \E k \in Kept : Kept' = Kept \ {k}
         /\ \A j \in Index : base # NoFile /\ RenameBase(j) =>
              \/ Kept' = Kept \cup {base}
              \/ \E k \in Kept : Kept' = (Kept \ {k}) \cup {base}
<1>1. archive \in [Index -> Inode \cup {NoFile}] /\ base \in Inode \cup {NoFile} /\ NoFile \notin Inode
  BY DEF IInv, TypeOK, Inode
<1>2. Kept = {archive[i] : i \in Index} \ {NoFile}
  BY DEF Kept, Existing
<1>3. Kept' = {archive'[i] : i \in Index} \ {NoFile}
  BY DEF Kept, Existing
<1>4. ASSUME NEW i \in Index, archive[i] # NoFile, archive' = [archive EXCEPT ![i] = NoFile]
      PROVE  Kept' = Kept \/ \E k \in Kept : Kept' = Kept \ {k}
  <2>1. Kept' \subseteq Kept /\ \A k \in Kept : k # archive[i] => k \in Kept'
    BY <1>1, <1>2, <1>3, <1>4
  <2>2. Kept' = Kept \/ Kept' = Kept \ {archive[i]}
    BY <2>1
  <2> QED
    BY <1>2, <1>4, <2>2
<1>5. ASSUME NEW i \in Index, NEW to, archive[i] # NoFile, RenameArchive(i, to)
      PROVE  Kept' = Kept \/ \E k \in Kept : Kept' = Kept \ {k}
  <2>1. CASE i = to
    BY <1>2, <1>3, <1>5, <2>1 DEF RenameArchive
  <2>2. CASE i # to /\ to \in Index
    <3>1. archive' = [archive EXCEPT ![to] = archive[i], ![i] = NoFile]
      BY <1>5, <2>2 DEF RenameArchive
    <3>2. /\ archive'[to] = archive[i] /\ archive'[i] = NoFile
          /\ \A h \in Index : h # to /\ h # i => archive'[h] = archive[h]
      BY <1>1, <2>2, <3>1
    <3>3. Kept' \subseteq Kept /\ \A k \in Kept : k # archive[to] => k \in Kept'
      BY <1>2, <1>3, <1>5, <2>2, <3>2
    <3>4. CASE archive[to] \in Kept
      BY <3>3, <3>4
    <3>5. CASE archive[to] \notin Kept
      BY <3>3, <3>5
    <3> QED
      BY <3>4, <3>5
  <2>3. CASE to \notin Index
    <3>1. archive' = [archive EXCEPT ![i] = NoFile]
      BY <1>1, <1>5, <2>3 DEF RenameArchive
    <3> QED
      BY <1>4, <1>5, <3>1
  <2> QED
    BY <2>1, <2>2, <2>3
<1>6. ASSUME NEW j \in Index, base # NoFile, RenameBase(j)
      PROVE  \/ Kept' = Kept \cup {base}
             \/ \E k \in Kept : Kept' = (Kept \ {k}) \cup {base}
  <2>1. archive'[j] = base /\ \A h \in Index : h # j => archive'[h] = archive[h]
    BY <1>1, <1>6 DEF RenameBase
  <2>2. /\ Kept' \subseteq Kept \cup {base} /\ base \in Kept'
        /\ \A k \in Kept : k # archive[j] => k \in Kept'
    BY <1>2, <1>3, <1>6, <2>1
  <2>3. CASE archive[j] \in Kept'
    BY <2>2, <2>3
  <2>4. CASE archive[j] \notin Kept' /\ archive[j] \in Kept
    <3>1. Kept' = (Kept \ {archive[j]}) \cup {base}
      BY <2>2, <2>4
    <3> QED
      BY <2>4, <3>1
  <2>5. CASE archive[j] \notin Kept
    BY <2>2, <2>5
  <2> QED
    BY <2>3, <2>4, <2>5
<1> QED
  BY <1>4, <1>5, <1>6

LEMMA BornStep ==
  ASSUME IInv, BornInv, [Next]_vars
  PROVE  BornInv'
<1>1. /\ created \in Nat /\ base \in Nat /\ Kept \subseteq Nat
      /\ base <= created /\ \A k \in Kept : k <= created /\ (base # NoFile => k < base)
  BY DEF IInv, TypeOK, BornInv, Kept, Existing, Inode
<1>2. /\ Kept' \subseteq Kept \cup {base} /\ (base = NoFile => Kept' \subseteq Kept)
      /\ \/ created' = created /\ ((base' = base /\ Kept' \subseteq Kept) \/ base' = NoFile)
         \/ base' = created' /\ created' = created + 1 /\ Kept' = Kept
  <2>1. CASE UNCHANGED <<mode, base, archive, created>>
    BY <2>1 DEF Kept, Existing
  <2>2. CASE /\ base = NoFile /\ base' = created + 1 /\ created' = created + 1
             /\ UNCHANGED <<mode, archive, skipped>>
    BY <2>2 DEF Kept, Existing
  <2>3. ASSUME UNCHANGED <<mode, created, skipped>>, base' = base,
               Kept' = Kept \/ \E k \in Kept : Kept' = Kept \ {k}
        PROVE  Kept' \subseteq Kept
    BY <2>3
  <2> QED
    BY <2>1, <2>2, <2>3, FileStep, KeptAfter DEF RenameBase
<1>3. base' <= created' /\ \A k \in Kept' : k <= created' /\ (base' # NoFile => k < base')
  BY <1>1, <1>2
<1> QED
  BY <1>3 DEF BornInv, Kept

LEMMA DamagedStep ==
  ASSUME IInv, BornInv, [Next]_vars, skipped'
  PROVE  Promised
<1>1. CASE UNCHANGED <<mode, base, archive, created>>
  <2>1. Chain!Overlook
    BY <1>1 DEF Chain!Overlook, Kept, Existing
  <2> QED
    BY <1>1, <2>1 DEF Promised, Chain!Move
<1>2. CASE /\ base = NoFile /\ base' = created + 1 /\ created' = created + 1
           /\ UNCHANGED <<mode, archive, skipped>>
  <2>1. created \in Nat /\ Kept' = Kept /\ \A k \in Kept : k < created + 1
    BY <1>2 DEF IInv, TypeOK, BornInv, Kept, Existing, Inode
  <2>2. Chain!Start(base')
    BY <1>2, <2>1 DEF Chain!Start
  <2> QED
    BY <1>2, <2>2 DEF Promised, Chain!Move
<1>3. ASSUME UNCHANGED <<mode, skipped, base>>, Kept' = Kept \/ \E k \in Kept : Kept' = Kept \ {k}
      PROVE  Promised
  <2>1. UNCHANGED Chain!chainVars \/ Chain!Lose
    BY <1>3 DEF Chain!chainVars, Chain!Lose
  <2> QED
    BY <1>3, <2>1 DEF Promised, Chain!Move
<1>4. ASSUME UNCHANGED <<mode, skipped>>, base # NoFile, base' = NoFile,
             \/ Kept' = Kept \cup {base}
             \/ \E k \in Kept : Kept' = (Kept \ {k}) \cup {base}
      PROVE  Promised
  <2>1. Chain!Archive \/ Chain!ArchiveOver
    BY <1>4 DEF Chain!Archive, Chain!ArchiveOver
  <2> QED
    BY <1>4, <2>1 DEF Promised, Chain!Move
<1> QED
  BY <1>1, <1>2, <1>3, <1>4, FileStep, KeptAfter DEF RenameBase

LEMMA ChainInvNext == ChainInv /\ [Next]_vars => ChainInv' /\ Promised
<1> SUFFICES ASSUME ChainInv, [Next]_vars PROVE ChainInv' /\ Promised
  OBVIOUS
<1>1. IInv /\ BornInv /\ IInv' /\ BornInv'
  BY NextIInv, BornStep DEF ChainInv
<1>2. CASE skipped'
  BY <1>1, <1>2, DamagedStep DEF ChainInv
<1>3. CASE ~skipped'
  <2>1. SoundInv /\ Complete
    BY <1>1, <1>3, SkippedStays DEF ChainInv, Complete
  <2>2. ASSUME UNCHANGED vars PROVE SoundInv' /\ Promised
    <3>1. UNCHANGED <<mode, archive, base, created, pc, files>>
      BY <2>2 DEF vars, fileVars
    <3> QED
      BY <1>1, <2>1, <3>1, SoundQuiet
  <2>3. ASSUME NEW w \in Worker, RollStep(w) PROVE SoundInv' /\ Promised
    BY <1>1, <2>1, <2>3, SoundRollUnlink, SoundRollRename, SoundRollBase DEF RollStep
  <2>4. ASSUME NEW w \in Worker, SequenceStep(w) PROVE SoundInv' /\ Promised
    BY <1>1, <2>1, <2>4, SoundSequenceUnlink, SoundSequenceBase DEF SequenceStep
  <2>5. SoundInv' /\ Promised
    BY <1>1, <2>1, <2>2, <2>3, <2>4, SoundOpen, SoundStep, SoundCrash DEF Next, Step, Exhausted
  <2> QED
    BY <1>1, <2>5 DEF ChainInv
<1> QED
  BY <1>2, <1>3

\* The parts above hold together in every state.
THEOREM ChainInvariance == Spec => []ChainInv
BY ChainInvInit, ChainInvNext, PTL DEF Spec

\* Unless a list was short of an archive, the archives' indexes follow their age
\* in every state, in the middle of cdlog_rotater_roll_files and
\* cdlog_rotater_seq_files and after one that a failing call or the death of the
\* process cut short.
THEOREM ArchivesInOrder == Spec => []ArchivesOrdered
<1>1. ChainInv => ArchivesOrdered
  BY DEF ChainInv, SoundInv, ArchivesOrdered
<1> QED
  BY <1>1, ChainInvariance, PTL

\* The rotation is the chain its user is promised: the log file only ever goes
\* behind the archives, whole, and as long as no list was short of an archive when
\* there is room, and an archive only ever goes when it is the oldest and the
\* chain is full; after that, no more than one goes at a time.
THEOREM RotationImplementsChain == Spec => ImplementsChain
<1>1. Init => Chain!Begin
  <2> SUFFICES ASSUME Init PROVE Chain!Begin
    OBVIOUS
  <2>1. base = 0 /\ Kept = {} /\ skipped = FALSE
    BY DEF Init, Kept, Existing
  <2>2. (IF MaxCount = 0 THEN MaxInode + 1
         ELSE IF mode = "rolling" THEN MaxCount ELSE MaxCount + 1) > 0
    OBVIOUS
  <2> QED
    BY <2>1, <2>2 DEF Chain!Begin
<1> QED
  BY <1>1, ChainInvInit, ChainInvNext, PTL DEF Spec, ImplementsChain, Chain!Spec, Promised

\* The most archives there may be.
Capacity == IF MaxCount = 0 THEN MaxInode + 1
            ELSE IF mode = "rolling" THEN MaxCount ELSE MaxCount + 1

\* No archives in excess, in the middle of a rotation either.
WithinCapacity == ~skipped => Cardinality(Kept) <= Capacity

\* What a step that overlooks nothing does to the chain.
LEMMA CompleteStep ==
  ASSUME ChainInv, [Next]_vars, ~skipped'
  PROVE  /\ ~skipped
         /\ \/ UNCHANGED <<base, Kept>>
            \/ Chain!Start(base') \/ Chain!Archive \/ Chain!DropOldest
         /\ mode' = mode
<1>1. ~skipped /\ Promised
  BY SkippedStays, ChainInvNext DEF ChainInv
<1>2. mode' = mode
  BY FileStep
<1> QED
  BY <1>1, <1>2 DEF Promised, Chain!Move, Chain!chainVars, Chain!Overlook, Chain!Lose,
                    Chain!ArchiveOver

LEMMA NextWithinCapacity ==
  ChainInv /\ WithinCapacity /\ [Next]_vars => WithinCapacity'
<1> SUFFICES ASSUME ChainInv, WithinCapacity, [Next]_vars, ~skipped'
             PROVE  Cardinality(Kept') <= Capacity'
  BY DEF WithinCapacity
<1>1. ~skipped /\ IInv /\ InOrder
  BY CompleteStep DEF ChainInv, SoundInv
<1>2. IsFiniteSet(Kept) /\ Cardinality(Kept) \in Nat /\ Capacity \in Nat
  BY <1>1, KeptCardinality DEF Capacity
<1>3. Capacity' = Capacity /\ Cardinality(Kept) <= Capacity
  BY <1>1, CompleteStep DEF Capacity, WithinCapacity
<1>4. CASE Kept' = Kept
  BY <1>3, <1>4
<1>5. CASE Chain!Archive
  <2>1. Cardinality(Kept) < Capacity /\ Kept' = Kept \cup {base}
    BY <1>1, <1>5, SameCardinality DEF Chain!Archive, Capacity
  <2>2. Cardinality(Kept \cup {base}) =
          IF base \in Kept THEN Cardinality(Kept) ELSE Cardinality(Kept) + 1
    BY <1>2, FS_AddElement
  <2> QED
    BY <1>2, <1>3, <2>1, <2>2
<1>6. CASE Chain!DropOldest
  <2>1. PICK k \in Kept : Kept' = Kept \ {k}
    BY <1>6 DEF Chain!DropOldest
  <2>2. Cardinality(Kept \ {k}) = Cardinality(Kept) - 1
    BY <1>2, <2>1, FS_RemoveElement
  <2> QED
    BY <1>2, <1>3, <2>1, <2>2
<1> QED
  BY <1>4, <1>5, <1>6, CompleteStep DEF Chain!Start

\* Unless a list was short of an archive, a rule never has, rolling, more archives
\* than archive_max_count, and numbered in sequence never more than one above it:
\* cdlog_rotater_seq_files removes before it adds (rotater.c:242), and what was
\* cut short is made up for by the next.
THEOREM ArchivesLimited ==
  Spec => [](~skipped /\ MaxCount > 0 =>
               Cardinality(Existing) <= IF mode = "rolling" THEN MaxCount ELSE MaxCount + 1)
<1>1. Init => WithinCapacity
  <2> SUFFICES ASSUME Init PROVE WithinCapacity
    OBVIOUS
  <2>1. Kept = {}
    BY DEF Init, Kept, Existing
  <2>2. Cardinality({}) = 0
    BY FS_EmptySet
  <2> QED
    BY <2>1, <2>2 DEF WithinCapacity, Capacity
<1>2. ChainInv /\ WithinCapacity =>
        (~skipped /\ MaxCount > 0 =>
           Cardinality(Existing) <= IF mode = "rolling" THEN MaxCount ELSE MaxCount + 1)
  BY KeptCardinality DEF ChainInv, SoundInv, WithinCapacity, Capacity
<1> QED
  BY <1>1, <1>2, ChainInvariance, NextWithinCapacity, PTL DEF Spec

-----------------------------------------------------------------------------
\* An archive goes while the log file is there, so that there are, from the oldest
\* archive to the log file, at least MaxCount younger ones.
LEMMA DropLeavesYounger ==
  ASSUME ChainInv, ~skipped, base # NoFile, Chain!DropOldest, NEW k \in Kept, k \notin Kept'
  PROVE  MaxCount > 0 /\ created >= k + MaxCount
<1>1. /\ IsFiniteSet(Kept) /\ Cardinality(Kept) \in Nat /\ Cardinality(Kept) <= MaxInode
      /\ Kept \subseteq Nat /\ base \in Nat /\ created \in Nat
      /\ base <= created /\ \A other \in Kept : other < base
  BY KeptCardinality DEF ChainInv, SoundInv, IInv, TypeOK, BornInv, Kept, Existing, Inode
<1>2. Cardinality(Kept) >= Capacity /\ \A other \in Kept : k <= other
  BY SameCardinality DEF Chain!DropOldest, Capacity
<1>3. MaxCount > 0 /\ Cardinality(Kept) >= MaxCount
  BY <1>1, <1>2 DEF Capacity
<1>4. Cardinality(Kept) <= base - k
  <2>1. Kept \subseteq k .. base - 1
    BY <1>1, <1>2
  <2>2. k \in Int /\ base - 1 \in Int /\ k < base
    BY <1>1
  <2>3. IsFiniteSet(k .. base - 1)
        /\ Cardinality(k .. base - 1) = IF k > base - 1 THEN 0 ELSE base - 1 - k + 1
    BY <2>2, FS_Interval
  <2>4. Cardinality(Kept) <= Cardinality(k .. base - 1)
    BY <2>1, <2>3, FS_Subset
  <2> QED
    BY <1>1, <2>2, <2>3, <2>4
<1> QED
  BY <1>1, <1>3, <1>4

LEMMA NextLastFilesKept ==
  ChainInv /\ LastFilesKept /\ [Next]_vars => LastFilesKept'
<1> SUFFICES ASSUME ChainInv, LastFilesKept, [Next]_vars, ~skipped', NEW n \in 1 .. created'
             PROVE  n \in Kept' \cup {base'} \/ (MaxCount > 0 /\ created' >= n + MaxCount)
  BY DEF LastFilesKept
<1>1. ~skipped /\ created \in Nat
  BY CompleteStep DEF ChainInv, IInv, TypeOK
<1>2. \/ created' = created
      \/ base = NoFile /\ base' = created' /\ created' = created + 1 /\ Kept' = Kept
  BY FileStep DEF Kept, Existing
<1>3. CASE n = created + 1
  BY <1>1, <1>2, <1>3
<1>4. CASE n \in 1 .. created /\ MaxCount > 0 /\ created >= n + MaxCount
  BY <1>1, <1>2, <1>4
<1>5. CASE n \in 1 .. created /\ n \in Kept \cup {base} /\ n \notin Kept' \cup {base'}
  <2>1. n # NoFile
    BY <1>5
  <2>2. Chain!DropOldest /\ n \in Kept /\ base # NoFile
    <3>1. Chain!DropOldest /\ n \in Kept
      BY <1>1, <1>5, <2>1, CompleteStep DEF Chain!Start, Chain!Archive, Chain!DropOldest
    <3>2. \E w \in Worker : pc[w] = "move"
      BY <1>5, <3>1, FileStep DEF Kept, Existing
    <3> QED
      BY <3>1, <3>2, MoverAlone DEF ChainInv, Inode
  <2> QED
    BY <1>1, <1>2, <1>5, <2>2, DropLeavesYounger
<1> QED
  BY <1>1, <1>2, <1>3, <1>4, <1>5 DEF LastFilesKept

\* Unless a list was short of an archive, a log file is only lost when
\* archive_max_count younger ones have been created, whoever still has it open
\* (cdlog_rule_output_static_file_rotate) and whatever failed.
THEOREM LastFilesStay == Spec => []LastFilesKept
<1>1. Init => LastFilesKept
  BY DEF Init, LastFilesKept
<1> QED
  BY <1>1, ChainInvariance, NextLastFilesKept, PTL DEF Spec

=============================================================================
