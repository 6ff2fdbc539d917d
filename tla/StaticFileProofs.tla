-------------------------- MODULE StaticFileProofs --------------------------
(***************************************************************************)
(* Proofs about StaticFile: for any descriptors and any number of          *)
(* rotations, threads whose calls do not overlap never lose their log      *)
(* file.  When they do overlap, it is false (run static_race).             *)
(***************************************************************************)
EXTENDS StaticFile, TLAPS

OneThread == \A s, t \in Thread : s = t

\* What the lock that the threads share does not ensure.
Alone == \A s, t \in Thread : pc[s] # "idle" /\ pc[t] # "idle" => s = t

(***************************************************************************)
(* The inductive invariant.                                                *)
(***************************************************************************)
\* Only an inode that stat found is kept.
TypeInv == TypeOK /\ \A t \in Thread : pc[t] \in {"open", "save"} => stb[t] # NoFile

\* Files get younger: the log, what the rule and the thread remember, and the
\* file a call may still create.
AgeInv ==
  /\ path <= created
  /\ static_ino <= created
  /\ \A t \in Thread : stb[t] <= created
  /\ \A t \in Thread : pc[t] # "idle" =>
       IF path = NoFile THEN created + 1 >= first[t] ELSE path >= first[t]

\* Between the close and the open no descriptor is on a log file, else at most
\* static_fd is.
DescInv ==
  /\ \A f \in Fd : desc[f] \in Inode => f = static_fd
  /\ \A t \in Thread : pc[t] \in {"open", "reopen"} => \A f \in Fd : desc[f] \notin Inode

\* The file that is open.
OpenLog == static_fd \in Fd /\ desc[static_fd] \in Inode

\* An inode taken for the open file's is the open file's, or no longer the
\* log's: the next call notices.
Names(ino) == ino = path => OpenLog /\ desc[static_fd] = path

IdleInv == (\A t \in Thread : pc[t] = "idle") => Names(static_ino)

ThreadInv(t) ==
  /\ pc[t] \in {"close", "open", "reopen"} => static_ino # path
  /\ pc[t] = "restat" => (path = NoFile \/ path = desc[static_fd])
  /\ pc[t] = "save" => Names(stb[t])
  /\ pc[t] = "write" => Names(static_ino)
  /\ pc[t] \in {"restat", "save", "write"} => OpenLog /\ desc[static_fd] >= first[t]

IInv == TypeInv /\ AgeInv /\ DescInv /\ IdleInv /\ \A t \in Thread : ThreadInv(t)

USE FdAssumption, FileAssumption DEF NoFile, NoFd, Fd, Inode

-----------------------------------------------------------------------------
\* Types need no condition on the threads: an inode is saved after a stat that
\* found one.
LEMMA InitTypeInv == Init => TypeInv
BY DEF Init, TypeInv, TypeOK, Pc

LEMMA NextTypeInv == TypeInv /\ [Next]_vars => TypeInv'
<1> SUFFICES ASSUME TypeInv, [Next]_vars PROVE TypeInv'
  OBVIOUS
<1> USE DEF TypeInv, TypeOK, Pc, Goto, sysVars, ruleVars
<1>1. ASSUME NEW t \in Thread, Step(t)
      PROVE  TypeInv'
  <2>1. CASE Stat(t)
    BY <2>1 DEF Stat
  <2>2. CASE Close(t)
    BY <2>2 DEF Close, AfterClose
  <2>3. ASSUME NEW f \in Fd, Open(t, f)
        PROVE  TypeInv'
    BY <2>3 DEF Open, NewFile
  <2>4. CASE OpenFails(t)
    BY <2>4 DEF OpenFails
  <2>5. CASE Restat(t)
    BY <2>5 DEF Restat
  <2>6. CASE Save(t) \/ Write(t)
    BY <2>6 DEF Save, Write
  <2> QED
    BY <1>1, <2>1, <2>2, <2>3, <2>4, <2>5, <2>6 DEF Step
<1>2. CASE Rename \/ Create
  BY <1>2 DEF Rename, Create
<1>3. ASSUME NEW f \in Fd, AppOpen(f) \/ AppClose(f)
      PROVE  TypeInv'
  BY <1>3 DEF AppOpen, AppClose
<1>4. CASE UNCHANGED vars
  BY <1>4 DEF vars
<1> QED
  BY <1>1, <1>2, <1>3, <1>4 DEF Next

(***************************************************************************)
(* The log file, for calls that do not overlap.                            *)
(***************************************************************************)
LEMMA InitIInv == Init => IInv
  BY InitTypeInv DEF Init, IInv, AgeInv, DescInv, IdleInv, ThreadInv, OpenLog, Names

LEMMA StepIInv ==
  ASSUME IInv, TypeInv', Alone, Alone', NEW t \in Thread, Step(t)
  PROVE  IInv'
<1> USE DEF IInv, TypeInv, TypeOK, AgeInv, DescInv, IdleInv, ThreadInv, OpenLog, Names, Pc, Goto, sysVars, ruleVars
<1>1. \A s \in Thread \ {t} : pc[s] = "idle" /\ pc'[s] = "idle"
  BY DEF Alone, Step, Stat, Close, Open, OpenFails, Restat, Save, Write
<1>2. CASE Stat(t)
  BY <1>1, <1>2 DEF Stat, Changed
<1>3. CASE Close(t)
  BY <1>1, <1>3 DEF Close, AfterClose
<1>4. ASSUME NEW f \in Fd, Open(t, f)
      PROVE  IInv'
  <2>1. /\ path' \in Inode /\ created' \in Inode
        /\ path' = path \/ (path = NoFile /\ path' = created + 1)
        /\ path' <= created' /\ created <= created'
        /\ path' >= first[t]
        /\ path # NoFile => path' = path
        /\ static_ino # path'
    BY <1>1, <1>4 DEF Open, NewFile
  <2>2. /\ desc' = [desc EXCEPT ![f] = path']
        /\ static_fd' = f
        /\ pc' = [pc EXCEPT ![t] = IF pc[t] = "reopen" THEN "restat" ELSE "save"]
        /\ UNCHANGED <<static_ino, stb, first, tool>>
        /\ pc[t] \in {"open", "reopen"}
    BY <1>4 DEF Open
  <2>3. AgeInv' /\ DescInv'
    <3>1. AgeInv'
      <4>1. static_ino <= created /\ \A s \in Thread : stb[s] <= created
        OBVIOUS
      <4>2. path' <= created' /\ static_ino' <= created' /\ \A s \in Thread : stb'[s] <= created'
        BY <2>1, <2>2, <4>1
      <4>3. \A s \in Thread : pc'[s] # "idle" => path' # NoFile /\ path' >= first'[s]
        BY <1>1, <2>1, <2>2
      <4> QED
        BY <4>2, <4>3
    <3>2. \A g \in Fd : desc[g] \notin Inode
      BY <2>2
    <3>3. DescInv'
      BY <1>1, <2>2, <3>2
    <3> QED
      BY <3>1, <3>3
  <2>4. IdleInv'
    BY <2>2
  <2>5. \A s \in Thread : ThreadInv(s)'
    BY <1>1, <2>1, <2>2
  <2> QED
    BY <2>3, <2>4, <2>5
<1>5. CASE OpenFails(t)
  BY <1>1, <1>5 DEF OpenFails
<1>6. CASE Restat(t)
  BY <1>1, <1>6 DEF Restat
<1>7. CASE Save(t)
  BY <1>1, <1>7 DEF Save
<1>8. CASE Write(t)
  BY <1>1, <1>8 DEF Write
<1> QED
  BY <1>2, <1>3, <1>4, <1>5, <1>6, <1>7, <1>8 DEF Step

\* The tool and the application leave the rule's file alone.
LEMMA OutsideIInv ==
  ASSUME IInv, Rename \/ Create \/ \E f \in Fd : AppOpen(f) \/ AppClose(f)
  PROVE  IInv'
<1> USE DEF IInv, TypeInv, TypeOK, AgeInv, DescInv, IdleInv, ThreadInv, OpenLog, Names, Pc, ruleVars
<1>1. CASE Rename
  BY <1>1 DEF Rename
<1>2. CASE Create
  <2>1. UNCHANGED <<desc, ruleVars, pc, stb, first>>
    BY <1>2 DEF Create
  <2>2. CASE UNCHANGED <<path, created>>
    BY <1>2, <2>1, <2>2 DEF Create
  <2>3. CASE path = NoFile /\ created < MaxInode /\ created' = created + 1 /\ path' = created + 1
    <3>1. TypeInv' /\ AgeInv' /\ DescInv'
      BY <1>2, <2>1, <2>3 DEF Create
    <3>2. static_ino # path' /\ \A t \in Thread : stb[t] # path'
      BY <2>3
    <3>3. \A t \in Thread : pc[t] # "restat"
      BY <1>2, <2>3 DEF Create
    <3> QED
      BY <2>1, <2>3, <3>1, <3>2, <3>3
  <2> QED
    BY <1>2, <2>2, <2>3 DEF Create
<1>3. ASSUME NEW f \in Fd, AppOpen(f) \/ AppClose(f)
      PROVE  IInv'
  <2>1. /\ desc'[f] \in {Closed, Foreign}
        /\ desc' \in [Fd -> Inode \cup {Closed, Foreign}]
        /\ desc[f] \in {Closed, Foreign}
        /\ \A g \in Fd : g # f => desc'[g] = desc[g]
        /\ UNCHANGED <<path, created, ruleVars, pc, stb, first, tool>>
    BY <1>3 DEF AppOpen, AppClose, Lowest
  <2>2. desc[f] \notin Inode /\ desc'[f] \notin Inode
    BY <2>1
  <2>3. \A g \in Fd : desc[g] \in Inode \/ desc'[g] \in Inode => desc'[g] = desc[g]
    BY <2>1, <2>2
  <2> QED
    BY <2>1, <2>3
<1> QED
  BY <1>1, <1>2, <1>3

LEMMA NextIInv == IInv /\ Alone /\ Alone' /\ [Next]_vars => IInv'
<1> SUFFICES ASSUME IInv, Alone, Alone', [Next]_vars PROVE IInv'
  OBVIOUS
<1>1. CASE UNCHANGED vars
  BY <1>1 DEF vars, sysVars, ruleVars, IInv, TypeInv, TypeOK, AgeInv, DescInv, IdleInv, ThreadInv,
              OpenLog, Names
<1>2. TypeInv'
  BY NextTypeInv DEF IInv
<1> QED
  BY <1>1, <1>2, StepIInv, OutsideIInv DEF Next

\* The inductive invariant, as long as no two calls overlap.
THEOREM Invariance == Spec /\ []Alone => []IInv
BY InitIInv, NextIInv, PTL DEF Spec

\* Every variable keeps its type, for any number of threads whose calls overlap
\* in any way.
THEOREM TypeCorrect == Spec => []TypeOK
<1>1. TypeInv => TypeOK
  BY DEF TypeInv
<1> QED
  BY <1>1, InitTypeInv, NextTypeInv, PTL DEF Spec

\* Calls that do not overlap write into a file that was the log during the
\* call, whatever the tool renames and the application opens and closes.
THEOREM MessagesLand == Spec /\ []Alone => []LandsInLog
<1>1. IInv => LandsInLog
  BY DEF IInv, ThreadInv, OpenLog, LandsInLog
<1> QED
  BY <1>1, Invariance, PTL

\* Reopening, with opens that fail too, never leaves two descriptors on the
\* log's files.
THEOREM DescriptorsKept == Spec /\ []Alone => []OneDescriptor
<1>1. IInv => OneDescriptor
  BY DEF IInv, DescInv, OneDescriptor
<1> QED
  BY <1>1, Invariance, PTL

\* One thread's calls never overlap: a program that logs from one keeps both.
THEOREM OneThreadSuffices ==
  ASSUME OneThread
  PROVE  Spec => [](LandsInLog /\ OneDescriptor)
<1>1. Alone
  BY DEF OneThread, Alone
<1>2. []Alone
  BY <1>1, PTL
<1> QED
  BY <1>2, MessagesLand, DescriptorsKept, PTL
=============================================================================
