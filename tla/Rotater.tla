------------------------------ MODULE Rotater ------------------------------
(***************************************************************************)
(* Size-triggered rotation of one log file that several threads of several *)
(* processes write (src/rule.c: cdlog_rule_output_static_file_rotate,      *)
(* src/rotater.c).  Writers do not lock; a writer that finds the file full *)
(* tries a mutex of its process and an fcntl lock shared by the processes, *)
(* looks again, lists the archives and moves them, one file system call at *)
(* a time.  A process may be killed between any two calls.                 *)
(*                                                                         *)
(* Files are inodes, numbered by creation; an archive's name is its index  *)
(* (file names of the width the pattern asks for, which is what            *)
(* cdlog_file_check_new keeps).  Listing the archives may pass over some   *)
(* of them when memory is short; what that voids is said by the properties *)
(* with the history variable skipped.                                      *)
(***************************************************************************)
EXTENDS Integers, FiniteSets

CONSTANTS
  Proc,          \* processes
  Worker,        \* threads
  ProcOf,        \* [Worker -> Proc]
  Modes,         \* the numberings a rule may ask for: "rolling" (#r), "sequence" (#s)
  MaxCount,      \* archive_max_count; 0 keeps all
  MaxSize,       \* archive_max_size
  Lengths,       \* lengths messages may have
  MovesMayFail,  \* TRUE: unlink and rename may fail
  ListsMayFail,  \* TRUE: memory may run out while the archives are listed
  CrashMay,      \* TRUE: a process may be killed
  MaxInode,      \* bound: log files created in a behaviour
  MaxFile,       \* bound: sizes from here on, all above the limit, count as this
  NoProc, NoWorker

ASSUME ProcOfAssumption == ProcOf \in [Worker -> Proc]

ASSUME ModeAssumption == Modes \subseteq {"rolling", "sequence"}

ASSUME SizeAssumption == MaxSize \in Nat /\ MaxCount \in Nat

ASSUME LengthAssumption == Lengths \subseteq Nat

ASSUME BoundAssumption == MaxInode \in Nat /\ MaxFile \in Nat /\ MaxFile > MaxSize

ASSUME FaultAssumption == {MovesMayFail, ListsMayFail, CrashMay} \subseteq BOOLEAN

ASSUME NullAssumption == NoProc \notin Proc /\ NoWorker \notin Worker

VARIABLES
  mode,      \* of the rule's archive pattern
  \* the file system
  base,      \* inode of the log file, NoFile if there is none
  archive,   \* archive[i]: inode of the archive with index i
  size,      \* size of the log file
  created,   \* inodes created so far
  \* the locks
  mutex,     \* mutex[p]: the worker of p that holds lock_mutex
  flock,     \* the process that holds the fcntl lock
  \* the workers
  pc, fd,
  len,       \* length of the message of the call
  files,     \* the archives listed and not yet dealt with
  removed,   \* of them, how many the sequence mode has unlinked
  \* history
  skipped    \* some list was short of an archive

fileVars == <<mode, base, archive, size, created>>
lockVars == <<mutex, flock>>
callVars == <<fd, len>>
listVars == <<files, removed, skipped>>
vars == <<fileVars, lockVars, pc, callVars, listVars>>

-----------------------------------------------------------------------------
NoFile == 0

Inode == 1..MaxInode

Index == 0..MaxInode

\* Inside the locks.
Locked == {"recheck", "list", "move", "funlock"}

Pc == Locked \cup {"idle", "write", "stat", "mutex", "flock", "munlock"}

Existing == {i \in Index : archive[i] # NoFile}

Kept == {archive[i] : i \in Existing}

IsFirst(i, S) == i \in S /\ \A j \in S : i <= j

IsLast(i, S) == i \in S /\ \A j \in S : j <= i

Init ==
  /\ mode \in Modes
  /\ base = NoFile
  /\ archive = [i \in Index |-> NoFile]
  /\ size = 0
  /\ created = 0
  /\ mutex = [p \in Proc |-> NoWorker]
  /\ flock = NoProc
  /\ pc = [w \in Worker |-> "idle"]
  /\ fd = [w \in Worker |-> NoFile]
  /\ len = [w \in Worker |-> 0]
  /\ files = [w \in Worker |-> {}]
  /\ removed = [w \in Worker |-> 0]
  /\ skipped = FALSE

\* Mistakes a change of the code could make in one definition below; the runs'
\* properties notice each of them.
BugNewFile == NoFile                               \* no O_CREAT, result not tested
BugFullUnderLock(w) == len[w] = len[w]             \* not looked at again
BugFlockFree(p) == flock \in Proc \cup {NoProc}     \* result of fcntl ignored
BugAfterFailure == "idle"                          \* returns without unlocking
BugIsEnd(w, j) == j = Cardinality(Existing)        \* index taken from the count
BugToUnlink(w) ==                                  \* one too early
  MaxCount > 0 /\ Cardinality(files[w]) + 1 >= MaxCount

-----------------------------------------------------------------------------
\* The message just written is counted twice: the file is rotated when another
\* message of its length would fill it.
FullAfterWrite(w) == size + len[w] >= MaxSize

FullUnderLock(w) == size + len[w] > MaxSize

Goto(w, where) == pc' = [pc EXCEPT ![w] = where]

Return(w) ==
  /\ Goto(w, "idle")
  /\ len' = [len EXCEPT ![w] = 0]

NewFile == created + 1

\* A call with a message of length n: open(O_CREAT).
Open(w, n) ==
  /\ pc[w] = "idle"
  /\ \/ /\ base = NoFile
        /\ created < MaxInode
        /\ created' = created + 1
        /\ base' = NewFile
        /\ size' = 0
     \/ /\ base # NoFile
        /\ UNCHANGED <<created, base, size>>
  /\ fd' = [fd EXCEPT ![w] = base']
  /\ len' = [len EXCEPT ![w] = n]
  /\ Goto(w, "write")
  /\ UNCHANGED <<mode, archive, lockVars, listVars>>

Size(n) == IF n < MaxFile THEN n ELSE MaxFile

\* write() to wherever the file has been moved by now, close().
Write(w) ==
  /\ pc[w] = "write"
  /\ size' = IF fd[w] = base THEN Size(size + len[w]) ELSE size
  /\ fd' = [fd EXCEPT ![w] = NoFile]
  /\ Goto(w, "stat")
  /\ UNCHANGED <<mode, base, archive, created, lockVars, len, listVars>>

\* A message longer than the limit and a file that is gone or small end the call.
Stat(w) ==
  /\ pc[w] = "stat"
  /\ IF base # NoFile /\ len[w] <= MaxSize /\ FullAfterWrite(w)
       THEN Goto(w, "mutex") /\ len' = len
       ELSE Return(w)
  /\ UNCHANGED <<fileVars, lockVars, fd, listVars>>

-----------------------------------------------------------------------------
(***************************************************************************)
(* cdlog_rotater_trylock and cdlog_rotater_unlock.  A lock that is taken   *)
(* ends the call: whoever holds it rotates.                                *)
(***************************************************************************)
MutexTry(w) ==
  LET p == ProcOf[w] IN
  /\ pc[w] = "mutex"
  /\ IF mutex[p] = NoWorker
       THEN /\ mutex' = [mutex EXCEPT ![p] = w]
            /\ Goto(w, "flock")
            /\ len' = len
       ELSE /\ mutex' = mutex
            /\ Return(w)
  /\ UNCHANGED <<fileVars, flock, fd, listVars>>

\* fcntl locks belong to processes: a process does not exclude itself.
FlockFree(p) == flock \in {NoProc, p}

FlockTry(w) ==
  LET p == ProcOf[w] IN
  /\ pc[w] = "flock"
  /\ IF FlockFree(p)
       THEN /\ flock' = p
            /\ Goto(w, "recheck")
       ELSE /\ flock' = flock
            /\ Goto(w, "munlock")
  /\ UNCHANGED <<fileVars, mutex, callVars, listVars>>

FlockRelease(w) ==
  /\ pc[w] = "funlock"
  /\ flock' = IF flock = ProcOf[w] THEN NoProc ELSE flock
  /\ Goto(w, "munlock")
  /\ UNCHANGED <<fileVars, mutex, callVars, listVars>>

MutexRelease(w) ==
  /\ pc[w] = "munlock"
  /\ mutex' = [mutex EXCEPT ![ProcOf[w]] = NoWorker]
  /\ Return(w)
  /\ UNCHANGED <<fileVars, flock, fd, listVars>>

-----------------------------------------------------------------------------
(***************************************************************************)
(* cdlog_rotater_rotate, under the locks.                                  *)
(***************************************************************************)
\* Another thread or process may have rotated the file before the lock was had.
Recheck(w) ==
  /\ pc[w] = "recheck"
  /\ Goto(w, IF base # NoFile /\ FullUnderLock(w) THEN "list" ELSE "funlock")
  /\ UNCHANGED <<fileVars, lockVars, callVars, listVars>>

\* glob() and a list sorted by index.  An archive for which there is no memory is
\* passed over (cdlog_file_check_new), and the rotation goes on without it.
Listed(S) == S = Existing \/ ListsMayFail

List(w) ==
  /\ pc[w] = "list"
  /\ \E S \in SUBSET Existing :
       /\ Listed(S)
       /\ files' = [files EXCEPT ![w] = S]
       /\ skipped' = (skipped \/ S # Existing)
  /\ Goto(w, "move")
  /\ UNCHANGED <<fileVars, lockVars, callVars, removed>>

Leave(w, where) ==
  /\ Goto(w, where)
  /\ files' = [files EXCEPT ![w] = {}]
  /\ removed' = [removed EXCEPT ![w] = 0]
  /\ UNCHANGED <<lockVars, callVars, skipped>>

AfterFailure == "funlock"

\* glob() fails, or the list itself has no memory: nothing is moved.
ListFails(w) ==
  /\ pc[w] = "list"
  /\ ListsMayFail
  /\ Leave(w, AfterFailure)
  /\ UNCHANGED fileVars

\* rename() of a file that is there, over whatever has the new name.
RenameArchive(from, to) ==
  archive' = IF from = to THEN archive
             ELSE [archive EXCEPT ![to] = archive[from], ![from] = NoFile]

RenameBase(to) ==
  /\ archive' = [archive EXCEPT ![to] = base]
  /\ base' = NoFile
  /\ size' = 0

\* cdlog_rotater_roll_files goes through the list from its end; with k files
\* left, the one in hand has position k - 1.
InHand(w, i) == IsLast(i, files[w])

ToUnlink(w) == MaxCount > 0 /\ Cardinality(files[w]) >= MaxCount

RollUnlink(w, i) ==
  /\ mode = "rolling" /\ pc[w] = "move"
  /\ InHand(w, i)
  /\ ToUnlink(w)
  /\ archive[i] # NoFile
  /\ archive' = [archive EXCEPT ![i] = NoFile]
  /\ files' = [files EXCEPT ![w] = @ \ {i}]
  /\ UNCHANGED <<mode, base, size, created, lockVars, pc, callVars, removed, skipped>>

RollRename(w, i) ==
  /\ mode = "rolling" /\ pc[w] = "move"
  /\ InHand(w, i)
  /\ ~ToUnlink(w)
  /\ archive[i] # NoFile
  /\ RenameArchive(i, Cardinality(files[w]))
  /\ files' = [files EXCEPT ![w] = @ \ {i}]
  /\ UNCHANGED <<mode, base, size, created, lockVars, pc, callVars, removed, skipped>>

RollBase(w) ==
  /\ mode = "rolling" /\ pc[w] = "move" /\ files[w] = {}
  /\ base # NoFile
  /\ RenameBase(0)
  /\ Leave(w, "funlock")
  /\ UNCHANGED <<mode, created>>

\* cdlog_rotater_seq_files unlinks from the start all but the last MaxCount of
\* the list, and the log file takes the index after the last.
SequenceUnlinks(w) == MaxCount > 0 /\ Cardinality(files[w]) > MaxCount

SequenceUnlink(w, i) ==
  /\ mode = "sequence" /\ pc[w] = "move"
  /\ SequenceUnlinks(w)
  /\ IsFirst(i, files[w])
  /\ archive[i] # NoFile
  /\ archive' = [archive EXCEPT ![i] = NoFile]
  /\ files' = [files EXCEPT ![w] = @ \ {i}]
  /\ removed' = [removed EXCEPT ![w] = @ + 1]
  /\ UNCHANGED <<mode, base, size, created, lockVars, pc, callVars, skipped>>

\* One past the last index of the list or its last position, the later one.
IsEnd(w, j) ==
  IF files[w] = {} THEN j = 0
  ELSE \E i \in files[w] : IsLast(i, files[w]) /\ IsLast(j - 1, {i, removed[w] + Cardinality(files[w]) - 1})

SequenceBase(w, j) ==
  /\ mode = "sequence" /\ pc[w] = "move"
  /\ ~SequenceUnlinks(w)
  /\ base # NoFile
  /\ IsEnd(w, j)
  /\ RenameBase(j)
  /\ Leave(w, "funlock")
  /\ UNCHANGED <<mode, created>>

\* A failing call, on a file that is not there for one, abandons the rotation
\* where it is.
MoveFails(w) ==
  /\ pc[w] = "move"
  /\ MovesMayFail \/ base = NoFile \/ \E i \in files[w] : archive[i] = NoFile
  /\ Leave(w, AfterFailure)
  /\ UNCHANGED fileVars

-----------------------------------------------------------------------------
\* The process dies, killed or by an archive path that could not be made and is
\* NULL when cdlog_rotater_parse_archive_path looks into it; the system drops its
\* locks and descriptors.  It starts again with its mutex fresh.
Crash(p) ==
  LET mine == {w \in Worker : ProcOf[w] = p} IN
  /\ CrashMay
  /\ \E w \in mine : pc[w] # "idle"
  /\ pc' = [w \in Worker |-> IF w \in mine THEN "idle" ELSE pc[w]]
  /\ fd' = [w \in Worker |-> IF w \in mine THEN NoFile ELSE fd[w]]
  /\ len' = [w \in Worker |-> IF w \in mine THEN 0 ELSE len[w]]
  /\ files' = [w \in Worker |-> IF w \in mine THEN {} ELSE files[w]]
  /\ removed' = [w \in Worker |-> IF w \in mine THEN 0 ELSE removed[w]]
  /\ mutex' = [mutex EXCEPT ![p] = NoWorker]
  /\ flock' = IF flock = p THEN NoProc ELSE flock
  /\ UNCHANGED <<fileVars, skipped>>

RollStep(w) == (\E i \in Index : RollUnlink(w, i) \/ RollRename(w, i)) \/ RollBase(w)

SequenceStep(w) == \E i \in Index : SequenceUnlink(w, i) \/ SequenceBase(w, i)

Step(w) ==
  \/ Write(w) \/ Stat(w)
  \/ MutexTry(w) \/ FlockTry(w)
  \/ Recheck(w) \/ List(w) \/ ListFails(w)
  \/ RollStep(w) \/ SequenceStep(w)
  \/ MoveFails(w)
  \/ FlockRelease(w) \/ MutexRelease(w)

\* The bound is reached and every call has returned.
Exhausted ==
  /\ \A w \in Worker : pc[w] = "idle"
  /\ base = NoFile /\ created = MaxInode
  /\ UNCHANGED vars

Next ==
  \/ \E w \in Worker : Step(w) \/ \E n \in Lengths : Open(w, n)
  \/ \E p \in Proc : Crash(p)
  \/ Exhausted

Spec == Init /\ [][Next]_vars

-----------------------------------------------------------------------------
(***************************************************************************)
(* Properties.                                                             *)
(***************************************************************************)
\* Every variable has its type.
TypeOK ==
  /\ mode \in Modes
  /\ base \in Inode \cup {NoFile}
  /\ archive \in [Index -> Inode \cup {NoFile}]
  /\ size \in 0..MaxFile
  /\ created \in 0..MaxInode
  /\ mutex \in [Proc -> Worker \cup {NoWorker}]
  /\ flock \in Proc \cup {NoProc}
  /\ pc \in [Worker -> Pc]
  /\ fd \in [Worker -> Inode \cup {NoFile}]
  /\ \A w \in Worker : pc[w] = "write" => fd[w] # NoFile
  /\ len \in [Worker -> Nat]
  /\ files \in [Worker -> SUBSET Index]
  /\ removed \in [Worker -> Nat]
  /\ skipped \in BOOLEAN

\* Two rotations never run at once, in one process or in two: the lists and the
\* moves of cdlog_rotater_lsmv have the directory to themselves.
RotationExclusive ==
  \A v, w \in Worker : pc[v] \in Locked /\ pc[w] \in Locked => v = w

\* Nobody's list names an archive that somebody else has moved.
ListAccurate ==
  \A w \in Worker : \A i \in files[w] : archive[i] # NoFile

\* The log file becomes an archive only when one more message, as long as the one
\* the rotating thread has logged, no longer fits below the limit, however many
\* writers found it full at the same time and whatever they added since (the second
\* stat, rotater.c:544); a message longer than the limit rotates nothing
\* (rule.c:195).  The file itself may then be shorter than the limit, which the
\* guide's "When aa.log is larger than 10MB" (UsersGuide-EN.lyx:5526) rules out.
ArchivedWhenDue ==
  [][base # NoFile /\ base' = NoFile =>
       \E w \in Worker : /\ pc[w] = "move"
                         /\ len[w] <= MaxSize
                         /\ size + len[w] > MaxSize]_vars

\* The archives' indexes follow their age, in the middle of a rotation and after
\* one that a failed move or a death cut short too: rolling ones get older
\* upwards, sequence ones younger.  Only a list that was short of an archive can
\* mix them (rotater.c:209).
InOrder ==
  \A i, j \in Existing : i < j =>
    IF mode = "rolling" THEN archive[i] > archive[j] ELSE archive[i] < archive[j]

ArchivesOrdered == ~skipped => InOrder

\* A log file is there, under its own name or as an archive, until there have
\* been MaxCount younger ones: also the one a writer has opened and that is
\* rotated, over and over, before the message is written to it (rule.c:178).  Only
\* a list that was short of an archive can lose one earlier.
LastFilesKept ==
  ~skipped =>
    \A n \in 1 .. created :
      n \in Kept \cup {base} \/ (MaxCount > 0 /\ created >= n + MaxCount)

\* "How many archive files will be kept" (UsersGuide-EN.lyx:5560).
KeptCount ==
  MaxCount > 0 /\ (\A w \in Worker : pc[w] \notin Locked) => Cardinality(Existing) <= MaxCount

\* A lock that is held is held by a call that is on its way to release it: no
\* failed move, refused lock or death leaves one behind that shuts every later
\* rotation out.
LocksOwned ==
  /\ \A p \in Proc : flock = p =>
       \E w \in Worker : ProcOf[w] = p /\ pc[w] \in Locked
  /\ \A p \in Proc : \A w \in Worker : mutex[p] = w =>
       ProcOf[w] = p /\ pc[w] \in Locked \cup {"flock", "munlock"}

\* What the rotation promises: see ArchiveChain.
Chain == INSTANCE ArchiveChain WITH
  current <- base,
  kept <- Kept,
  whole <- ~skipped,
  capacity <- IF MaxCount = 0 THEN MaxInode + 1
              ELSE IF mode = "rolling" THEN MaxCount ELSE MaxCount + 1

ImplementsChain == Chain!Spec
=============================================================================
