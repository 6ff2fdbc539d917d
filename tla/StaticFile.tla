----------------------------- MODULE StaticFile -----------------------------
(***************************************************************************)
(* Output to one log file that is kept open and that an external tool may  *)
(* rename (src/rule.c: cdlog_rule_output_static_file_single).  Threads run *)
(* it under a lock they share, on the rule's own fields: before each       *)
(* message they stat the path and open it again when another file is       *)
(* there.  The rest of the process opens and closes descriptors of its     *)
(* own, and the system hands out the lowest that is free.                  *)
(*                                                                         *)
(* Files are inodes, numbered by creation; st_dev and st_ino are one value.*)
(***************************************************************************)
EXTENDS Integers, FiniteSets

CONSTANTS
  Thread,       \* threads that log through the rule
  MaxFd,        \* descriptors 0..MaxFd
  MaxInode,     \* bound: files created in a behaviour
  Closed,       \* no open file behind a descriptor
  Foreign       \* a file of the application's own

ASSUME FdAssumption == MaxFd \in Nat /\ MaxInode \in Nat \ {0}

ASSUME FileAssumption ==
  /\ Closed \notin 0..MaxInode
  /\ Foreign \notin 0..MaxInode
  /\ Closed # Foreign

VARIABLES
  \* the system
  path,        \* inode at file_path, NoFile if there is none
  created,     \* files created so far
  desc,        \* the process's descriptors
  \* the rule
  static_fd, static_ino,
  \* the threads
  pc,
  stb,         \* st_ino of the thread's stat
  first,       \* history: the oldest file a message of this call may go into
  tool         \* the external tool: about to "rename" or to "create"

sysVars == <<path, created, desc>>
ruleVars == <<static_fd, static_ino>>
vars == <<sysVars, ruleVars, pc, stb, first, tool>>

-----------------------------------------------------------------------------
NoFile == 0

NoFd == -1

Inode == 1..MaxInode

Fd == 0..MaxFd

Pc == {"idle", "close", "open", "reopen", "restat", "save", "write"}

\* What open(2) returns.
Lowest(f) == desc[f] = Closed /\ \A g \in Fd : g < f => desc[g] # Closed

\* cdlog_rule_new opened the file and took its inode from the descriptor.
Init ==
  /\ path = 1
  /\ created = 1
  /\ desc = [f \in Fd |-> IF f = 0 THEN 1 ELSE Closed]
  /\ static_fd = 0
  /\ static_ino = 1
  /\ pc = [t \in Thread |-> "idle"]
  /\ stb = [t \in Thread |-> NoFile]
  /\ first = [t \in Thread |-> NoFile]
  /\ tool = "rename"

\* Mistakes a change of the code could make in one definition below; the runs'
\* properties notice each of them.
BugChanged == path > static_ino /\ path < static_ino  \* inodes not compared
BugAfterClose == desc                                 \* descriptor not closed
BugNewFile == NoFile                                  \* no O_CREAT

-----------------------------------------------------------------------------
Goto(t, where) == pc' = [pc EXCEPT ![t] = where]

Changed == path # static_ino

\* stat(file_path): the file is gone, is another one, or is the one that is open.
Stat(t) ==
  /\ pc[t] = "idle"
  /\ first' = [first EXCEPT ![t] = IF path = NoFile THEN created + 1 ELSE path]
  /\ stb' = [stb EXCEPT ![t] = path]
  /\ \/ path = NoFile /\ Goto(t, "close")
     \/ path # NoFile /\ Changed /\ Goto(t, "close")
     \/ path # NoFile /\ ~Changed /\ Goto(t, "write")
  /\ UNCHANGED <<sysVars, ruleVars, tool>>

AfterClose == IF static_fd \in Fd THEN [desc EXCEPT ![static_fd] = Closed] ELSE desc

\* close(static_fd), whatever is behind that number by now; a stat that found
\* no file has to be done again.
Close(t) ==
  /\ pc[t] = "close"
  /\ desc' = AfterClose
  /\ Goto(t, IF stb[t] = NoFile THEN "reopen" ELSE "open")
  /\ UNCHANGED <<path, created, ruleVars, stb, first, tool>>

NewFile == created + 1

\* static_fd = open(O_CREAT).
Open(t, f) ==
  /\ pc[t] \in {"open", "reopen"}
  /\ Lowest(f)
  /\ \/ /\ path # NoFile
        /\ UNCHANGED <<path, created>>
     \/ /\ path = NoFile
        /\ created < MaxInode
        /\ created' = created + 1
        /\ path' = NewFile
  /\ desc' = [desc EXCEPT ![f] = path']
  /\ static_fd' = f
  /\ Goto(t, IF pc[t] = "reopen" THEN "restat" ELSE "save")
  /\ UNCHANGED <<static_ino, stb, first, tool>>

\* No descriptor, no permission, no space: the message is not written.
OpenFails(t) ==
  /\ pc[t] \in {"open", "reopen"}
  /\ static_fd' = NoFd
  /\ Goto(t, "idle")
  /\ UNCHANGED <<sysVars, static_ino, stb, first, tool>>

\* The second stat; the message is given up if the file has gone again.
Restat(t) ==
  /\ pc[t] = "restat"
  /\ stb' = [stb EXCEPT ![t] = path]
  /\ Goto(t, IF path = NoFile THEN "idle" ELSE "save")
  /\ UNCHANGED <<sysVars, ruleVars, first, tool>>

Save(t) ==
  /\ pc[t] = "save"
  /\ static_ino' = stb[t]
  /\ Goto(t, "write")
  /\ UNCHANGED <<sysVars, static_fd, stb, first, tool>>

\* write(static_fd).
Write(t) ==
  /\ pc[t] = "write"
  /\ Goto(t, "idle")
  /\ UNCHANGED <<sysVars, ruleVars, stb, first, tool>>

-----------------------------------------------------------------------------
(***************************************************************************)
(* The tool renames the log file and then creates an empty one unless the  *)
(* file is there again.  It is not so fast as to do both between the open  *)
(* of a file that was gone and the stat that follows.                      *)
(***************************************************************************)
Rename ==
  /\ tool = "rename"
  /\ path # NoFile
  /\ path' = NoFile
  /\ tool' = "create"
  /\ UNCHANGED <<created, desc, ruleVars, pc, stb, first>>

Create ==
  /\ tool = "create"
  /\ \/ path # NoFile /\ UNCHANGED <<path, created>>
     \/ /\ path = NoFile
        /\ \A t \in Thread : pc[t] # "restat"
        /\ created < MaxInode
        /\ created' = created + 1
        /\ path' = created + 1
  /\ tool' = "rename"
  /\ UNCHANGED <<desc, ruleVars, pc, stb, first>>

\* Other code of the process.
AppOpen(f) ==
  /\ Lowest(f)
  /\ desc' = [desc EXCEPT ![f] = Foreign]
  /\ UNCHANGED <<path, created, ruleVars, pc, stb, first, tool>>

AppClose(f) ==
  /\ desc[f] = Foreign
  /\ desc' = [desc EXCEPT ![f] = Closed]
  /\ UNCHANGED <<path, created, ruleVars, pc, stb, first, tool>>

Step(t) ==
  \/ Stat(t) \/ Close(t)
  \/ (\E f \in Fd : Open(t, f)) \/ OpenFails(t)
  \/ Restat(t) \/ Save(t) \/ Write(t)

Next ==
  \/ \E t \in Thread : Step(t)
  \/ Rename \/ Create
  \/ \E f \in Fd : AppOpen(f) \/ AppClose(f)

Spec == Init /\ [][Next]_vars

-----------------------------------------------------------------------------
(***************************************************************************)
(* Properties.                                                             *)
(***************************************************************************)
\* Every variable has its type.
TypeOK ==
  /\ path \in Inode \cup {NoFile}
  /\ created \in Inode
  /\ desc \in [Fd -> Inode \cup {Closed, Foreign}]
  /\ static_fd \in Fd \cup {NoFd}
  /\ static_ino \in Inode
  /\ pc \in [Thread -> Pc]
  /\ stb \in [Thread -> Inode \cup {NoFile}]
  /\ first \in [Thread -> Nat]
  /\ tool \in {"rename", "create"}

\* A message goes into a file that was the log during its call: never into one
\* renamed earlier, a file of the application's or a closed descriptor
\* (rule.c:88).
LandsInLog ==
  \A t \in Thread : pc[t] = "write" =>
    /\ static_fd \in Fd
    /\ desc[static_fd] \in Inode
    /\ desc[static_fd] >= first[t]

\* Reopening leaves no descriptor behind: at most one is open on the log and
\* its renamed files.
OneDescriptor ==
  \A f, g \in Fd : desc[f] \in Inode /\ desc[g] \in Inode => f = g
=============================================================================
