--------------------------- MODULE CdlogEnvProofs ---------------------------
(***************************************************************************)
(* Proofs about CdlogEnv, for every set of threads, categories,            *)
(* configurations and failures: the lock, the versions and the structures  *)
(* of the threads first, then the categories when anything may fail.       *)
(***************************************************************************)
EXTENDS CdlogEnv, TLAPS

(***************************************************************************)
(* The inductive invariant.  FreshThread relates a thread's structure to   *)
(* the installed configuration through nothing but a version number; it is *)
(* inductive only with what the version means (VersionInv), which in turn  *)
(* needs that nobody reads the environment while a writer is inside        *)
(* (LockInv) and that the environment is there when it is read (EnvInv).   *)
(***************************************************************************)
LockInv ==
  /\ writer # NoThread => readers = {}
  /\ \A t \in Thread : pc[t] \in ReaderPc => t \in readers
  /\ \A t \in Thread : pc[t] \in WriterPc <=> writer = t

EnvInv ==
  /\ is_init => env_conf # NoConf
  /\ \A t \in Thread : pc[t] \in WriterPc \cup {"emit", "count", "incr"} => is_init
  /\ \A t \in Thread : pc[t] \in {"update", "fill"} => new_conf # NoConf
  /\ \A t \in Thread : pc[t] \in {"update", "fill"} => todo \subseteq Table
  /\ \A t \in Thread : pc[t] = "fill" => call[t].cat \in Table

\* A structure of the current version was built for the installed
\* configuration; no structure is ahead of the environment.
VersionInv ==
  \A t \in Thread : tls[t] # NoTls =>
    /\ tls[t].ver <= init_version
    /\ is_init /\ tls[t].ver = init_version =>
         tls[t].buf = env_conf.buf /\ tls[t].caches = env_conf.caches

EmitInv ==
  \A t \in Thread : pc[t] = "emit" => tls[t] # NoTls /\ tls[t].ver = init_version

IInv == TypeOK /\ LockInv /\ EnvInv /\ VersionInv /\ EmitInv

USE ContentsAssumption, NullAssumption
USE DEF Goto, Return, NullGen

-----------------------------------------------------------------------------
LEMMA NewConfType ==
  ASSUME TypeOK, NEW content \in Contents, NEW bound \in SUBSET RName
  PROVE  NewConf(content, bound) \in Conf
  BY DEF TypeOK, NewConf, Conf, Content

LEMMA CategoryNewType ==
  ASSUME NEW conf \in Conf, NEW c \in Cat
  PROVE  CategoryNew(c, conf) \in Category
  BY DEF CategoryNew, Category, Conf

THEOREM InitIInv == Init => IInv
<1> SUFFICES ASSUME Init PROVE IInv
  OBVIOUS
<1>1. NoCall \in [op : OpSet, cat : Cat \cup {NoCat}, n : Nat]
  BY DEF NoCall, OpSet
<1>2. TypeOK
  BY <1>1 DEF Init, TypeOK, Pc
<1>3. LockInv
  BY DEF Init, LockInv, ReaderPc, WriterPc
<1>4. EnvInv /\ VersionInv /\ EmitInv
  BY DEF Init, EnvInv, VersionInv, EmitInv, WriterPc
<1> QED
  BY <1>2, <1>3, <1>4 DEF IInv

LEMMA StartType ==
  ASSUME IInv, NEW t \in Thread, Start(t)
  PROVE  TypeOK'
<1> USE DEF IInv, TypeOK, lockVars, envVars, catVars, reloadVars, countVars, OpSet, WriteCall,
        LogCall, DefaultCall, Pc, WriterPc, ReaderPc, NoCall
<1>1. CASE StartCategoryCall(t)
  BY <1>1 DEF StartCategoryCall, StartWrite
<1>2. CASE StartPlainCall(t)
  BY <1>2 DEF StartPlainCall, StartWrite
<1>3. CASE \E op \in {"dlog", "mdc"} : StartRead(t, op)
  <2>1. pc' \in [Thread -> Pc]
    BY <1>3 DEF StartRead, Goto
  <2>2. call' \in [Thread -> [op : OpSet, cat : Cat \cup {NoCat}, n : Nat]]
    <3>1. PICK op \in {"dlog", "mdc"} : call' = [call EXCEPT ![t].op = op]
      BY <1>3 DEF StartRead
    <3>2. op \in OpSet
      OBVIOUS
    <3> HIDE DEF OpSet
    <3> QED
      BY <3>1, <3>2
  <2>3. UNCHANGED <<lockVars, envVars, catVars, reloadVars, countVars, tls, gens, failed>>
    BY <1>3 DEF StartRead
  <2> QED
    BY <2>1, <2>2, <2>3
<1>4. CASE \E c \in Cat : LogCheck(t, c)
  BY <1>4 DEF LogCheck
<1>5. CASE VdlogCheck(t)
  BY <1>5 DEF VdlogCheck
<1>6. CASE ThreadExit(t)
  BY <1>6 DEF ThreadExit
<1> QED
  BY <1>1, <1>2, <1>3, <1>4, <1>5, <1>6 DEF Start

LEMMA WriteType ==
  ASSUME IInv, NEW t \in Thread, WriteStep(t)
  PROVE  TypeOK'
<1> USE DEF IInv, TypeOK, lockVars, envVars, catVars, reloadVars, countVars, OpSet, WriteCall,
        Pc, WriterPc, NoCall, Requests, VersionAfterInner
<1>1. CASE Refused(t)
  BY <1>1 DEF Refused
<1>2. ASSUME NEW content \in Contents, InitDone(t, content)
      PROVE  TypeOK'
  <2>1. NewConf(content, {}) \in Conf
    BY NewConfType
  <2>2. \A d \in Cat : CategoryNew(d, NewConf(content, {})) \in Category
    BY <2>1, CategoryNewType
  <2>3. categories' \in [Cat -> Category \cup {NoCat}]
    BY <1>2, <2>2 DEF InitDone
  <2>4. default_category' \in Cat \cup {NoCat} /\ failed' \subseteq {"reload", "default"}
    BY <1>2 DEF InitDone
  <2>5. init_version' \in Nat /\ env_conf' \in Conf /\ env_records' = {} /\ gens' \in Nat
        /\ is_init' \in BOOLEAN
    BY <1>2, <2>1 DEF InitDone, VersionAfterInit
  <2>6. pc' \in [Thread -> Pc] /\ call' \in [Thread -> [op : OpSet, cat : Cat \cup {NoCat}, n : Nat]]
    BY <1>2 DEF InitDone
  <2>7. UNCHANGED <<lockVars, reloadVars, countVars, tls>>
    BY <1>2 DEF InitDone
  <2> QED
    BY <2>3, <2>4, <2>5, <2>6, <2>7
<1>3. CASE InitFailed(t)
  BY <1>3 DEF InitFailed
<1>4. ASSUME NEW content \in Contents, DinitFailed(t, content)
      PROVE  TypeOK'
  <2>1. NewConf(content, {}) \in Conf
    BY NewConfType
  <2> QED
    BY <1>4, <2>1 DEF DinitFailed
<1>5. ASSUME NEW c \in Cat, Fetched(t, c)
      PROVE  TypeOK'
  <2>1. CategoryNew(c, env_conf) \in Category
    BY <1>5, CategoryNewType DEF Fetched, EnvInv
  <2>2. categories' \in [Cat -> Category \cup {NoCat}]
    BY <1>5, <2>1 DEF Fetched
  <2> QED
    BY <1>5, <2>2 DEF Fetched
<1>6. CASE FetchFailed(t)
  BY <1>6 DEF FetchFailed
<1>7. ASSUME NEW r \in RName, SetRecord(t, r)
      PROVE  TypeOK'
  <2>1. env_conf' \in Conf
    BY <1>7 DEF SetRecord, EnvInv, Conf
  <2> QED
    BY <1>7, <2>1 DEF SetRecord
<1>8. CASE SetRecordFailed(t)
  BY <1>8 DEF SetRecordFailed
<1>9. CASE FiniTable(t)
  BY <1>9 DEF FiniTable
<1>10. CASE FiniRest(t)
  BY <1>10 DEF FiniRest, DefaultAfterFini
<1> QED
  BY <1>1, <1>2, <1>3, <1>4, <1>5, <1>6, <1>7, <1>8, <1>9, <1>10 DEF WriteStep

LEMMA ReloadType ==
  ASSUME IInv, NEW t \in Thread, ReloadStep(t)
  PROVE  TypeOK'
<1> USE DEF IInv, TypeOK, lockVars, envVars, catVars, reloadVars, countVars, OpSet, WriteCall,
        Pc, WriterPc, NoCall, Requests, ReloadRequested, ResetCount
<1>1. CASE ReloadNotDue(t)
  BY <1>1 DEF ReloadNotDue
<1>2. ASSUME NEW content \in Contents, ReloadBegin(t, content)
      PROVE  TypeOK'
  <2>1. NewConf(content, env_records) \in Conf
    BY NewConfType
  <2> QED
    BY <1>2, <2>1 DEF ReloadBegin, ToUpdate, BoundOnReload, Table
<1>3. CASE ReloadConfFailed(t)
  BY <1>3 DEF ReloadConfFailed
<1>4. ASSUME NEW c \in Cat, UpdateClear(t, c)
      PROVE  TypeOK'
  <2>1. categories[c] \in Category
    BY <1>4 DEF UpdateClear, EnvInv, Table
  <2>2. Cleared(categories[c]) \in Category
    BY <2>1 DEF Cleared, Category
  <2>3. categories' \in [Cat -> Category \cup {NoCat}]
    BY <1>4, <2>2 DEF UpdateClear
  <2> QED
    BY <1>4, <2>3 DEF UpdateClear
<1>5. CASE UpdateFill(t)
  <2> DEFINE c == call[t].cat
  <2>1. c \in Cat /\ categories[c] \in Category /\ new_conf \in Conf
    BY <1>5 DEF UpdateFill, EnvInv, Table
  <2>2. categories' \in [Cat -> Category \cup {NoCat}]
    BY <1>5, <2>1 DEF UpdateFill, Category, Conf
  <2> QED
    BY <1>5, <2>2 DEF UpdateFill, Remaining
<1>6. ASSUME NEW some \in SUBSET Level, UpdateFailed(t, some)
      PROVE  TypeOK'
  <2> DEFINE c == call[t].cat
  <2>1. c \in Cat /\ categories[c] \in Category
    BY <1>6 DEF UpdateFailed, EnvInv, Table
  <2>2. categories' \in [Cat -> Category \cup {NoCat}]
    BY <1>6, <2>1 DEF UpdateFailed, Category
  <2> QED
    BY <1>6, <2>2 DEF UpdateFailed
<1>7. CASE ReloadCommit(t)
  <2>1. categories' \in [Cat -> Category \cup {NoCat}]
    BY <1>7 DEF ReloadCommit, Table, Category
  <2> QED
    BY <1>7, <2>1 DEF ReloadCommit, VersionAfterReload
<1> QED
  BY <1>1, <1>2, <1>3, <1>4, <1>5, <1>6, <1>7 DEF ReloadStep

LEMMA ReadType ==
  ASSUME IInv, NEW t \in Thread, ReadStep(t)
  PROVE  TypeOK'
<1> USE DEF IInv, TypeOK, lockVars, envVars, catVars, reloadVars, countVars, OpSet, WriteCall,
        Pc, ReaderPc, NoCall
<1>1. CASE RdLock(t)
  BY <1>1 DEF RdLock
<1>2. CASE NotAdmitted(t)
  BY <1>2 DEF NotAdmitted
<1>3. CASE FetchThread(t)
  <2>1. FreshTls \in Tls
    BY <1>3 DEF FetchThread, Admitted, EnvInv, FreshTls, Tls, Conf
  <2> QED
    BY <1>3, <2>1 DEF FetchThread
<1>4. CASE FetchFails(t)
  <2>1. tls[t] # NoTls => HalfRebuilt(tls[t]) \in Tls
    BY <1>4 DEF FetchFails, Admitted, EnvInv, HalfRebuilt, Tls, Conf
  <2> QED
    BY <1>4, <2>1 DEF FetchFails
<1>5. CASE Emit(t) \/ EmitFails(t) \/ EmitWild(t)
  BY <1>5 DEF Emit, EmitFails, EmitWild
<1>6. CASE CountRead(t)
  BY <1>6 DEF CountRead
<1>7. CASE CountWrite(t)
  BY <1>7 DEF CountWrite, Incremented
<1>8. CASE RdUnlock(t)
  BY <1>8 DEF RdUnlock
<1> QED
  BY <1>1, <1>2, <1>3, <1>4, <1>5, <1>6, <1>7, <1>8 DEF ReadStep

-----------------------------------------------------------------------------
(***************************************************************************)
(* The other parts of the invariant.                                       *)
(***************************************************************************)
LEMMA StartRest ==
  ASSUME IInv, NEW t \in Thread, Start(t)
  PROVE  LockInv' /\ EnvInv' /\ VersionInv' /\ EmitInv'
<1> USE DEF IInv, TypeOK, LockInv, EnvInv, VersionInv, EmitInv, lockVars, envVars, catVars,
        reloadVars, countVars, WriterPc, ReaderPc, Table, MayCall
<1>1. CASE StartCategoryCall(t)
  BY <1>1 DEF StartCategoryCall, StartWrite
<1>2. CASE StartPlainCall(t)
  BY <1>2 DEF StartPlainCall, StartWrite
<1>3. CASE \E op \in {"dlog", "mdc"} : StartRead(t, op)
  BY <1>3 DEF StartRead
<1>4. CASE \E c \in Cat : LogCheck(t, c)
  BY <1>4 DEF LogCheck
<1>5. CASE VdlogCheck(t)
  BY <1>5 DEF VdlogCheck
<1>6. CASE ThreadExit(t)
  BY <1>6 DEF ThreadExit
<1> QED
  BY <1>1, <1>2, <1>3, <1>4, <1>5, <1>6 DEF Start

LEMMA WriteRest ==
  ASSUME IInv, NEW t \in Thread, WriteStep(t)
  PROVE  LockInv' /\ EnvInv' /\ VersionInv' /\ EmitInv'
<1> USE DEF IInv, TypeOK, LockInv, EnvInv, VersionInv, EmitInv, lockVars, envVars, catVars,
        reloadVars, countVars, WriterPc, ReaderPc, Table, Requests, Free, VersionAfterInner
<1>1. CASE Refused(t)
  BY <1>1 DEF Refused
<1>2. ASSUME NEW content \in Contents, InitDone(t, content)
      PROVE  LockInv' /\ EnvInv' /\ VersionInv' /\ EmitInv'
  <2>1. NewConf(content, {}) \in Conf
    BY NewConfType
  <2>2. LockInv' /\ EnvInv' /\ EmitInv'
    BY <1>2, <2>1 DEF InitDone
  <2>3. VersionInv'
    BY <1>2 DEF InitDone, VersionAfterInit, Tls
  <2> QED
    BY <2>2, <2>3
<1>3. CASE InitFailed(t)
  BY <1>3 DEF InitFailed, Tls
<1>4. CASE \E content \in Contents : DinitFailed(t, content)
  BY <1>4 DEF DinitFailed, Tls
<1>5. CASE \E c \in Cat : Fetched(t, c)
  BY <1>5 DEF Fetched
<1>6. CASE FetchFailed(t)
  BY <1>6 DEF FetchFailed
<1>7. ASSUME NEW r \in RName, SetRecord(t, r)
      PROVE  LockInv' /\ EnvInv' /\ VersionInv' /\ EmitInv'
  <2>1. env_conf' \in Conf /\ env_conf'.buf = env_conf.buf /\ env_conf'.caches = env_conf.caches
    BY <1>7 DEF SetRecord, Conf
  <2> QED
    BY <1>7, <2>1 DEF SetRecord
<1>8. CASE SetRecordFailed(t)
  BY <1>8 DEF SetRecordFailed
<1>9. CASE FiniTable(t)
  BY <1>9 DEF FiniTable
<1>10. CASE FiniRest(t)
  BY <1>10 DEF FiniRest
<1> QED
  BY <1>1, <1>2, <1>3, <1>4, <1>5, <1>6, <1>7, <1>8, <1>9, <1>10 DEF WriteStep

LEMMA ReloadRest ==
  ASSUME IInv, NEW t \in Thread, ReloadStep(t)
  PROVE  LockInv' /\ EnvInv' /\ VersionInv' /\ EmitInv'
<1> USE DEF IInv, TypeOK, LockInv, EnvInv, VersionInv, EmitInv, lockVars, envVars, catVars,
        reloadVars, countVars, WriterPc, ReaderPc, Table, Requests, Free, ReloadRequested,
        ResetCount
<1>1. CASE ReloadNotDue(t)
  BY <1>1 DEF ReloadNotDue
<1>2. ASSUME NEW content \in Contents, ReloadBegin(t, content)
      PROVE  LockInv' /\ EnvInv' /\ VersionInv' /\ EmitInv'
  <2>1. NewConf(content, env_records) \in Conf
    BY NewConfType
  <2> QED
    BY <1>2, <2>1 DEF ReloadBegin, ToUpdate, BoundOnReload
<1>3. CASE ReloadConfFailed(t)
  BY <1>3 DEF ReloadConfFailed
<1>4. ASSUME NEW c \in Cat, UpdateClear(t, c)
      PROVE  LockInv' /\ EnvInv' /\ VersionInv' /\ EmitInv'
  <2>1. categories[c] \in Category
    BY <1>4 DEF UpdateClear
  <2>2. Cleared(categories[c]) \in Category
    BY <2>1 DEF Cleared, Category
  <2>3. Table' = Table
    BY <1>4, <2>2 DEF UpdateClear
  <2> QED
    BY <1>4, <2>3 DEF UpdateClear
<1>5. CASE UpdateFill(t)
  <2> DEFINE c == call[t].cat
  <2>1. c \in Cat /\ categories[c] \in Category /\ new_conf \in Conf
    BY <1>5 DEF UpdateFill
  <2>2. categories'[c] \in Category /\ \A d \in Cat : d # c => categories'[d] = categories[d]
    BY <1>5, <2>1 DEF UpdateFill, Category, Conf
  <2>3. Table' = Table
    BY <2>1, <2>2
  <2> QED
    BY <1>5, <2>3 DEF UpdateFill, Remaining
<1>6. CASE \E some \in SUBSET Level : UpdateFailed(t, some)
  BY <1>6 DEF UpdateFailed
<1>7. CASE ReloadCommit(t)
  <2>1. LockInv' /\ EnvInv' /\ EmitInv'
    BY <1>7 DEF ReloadCommit
  <2>2. VersionInv'
    BY <1>7 DEF ReloadCommit, VersionAfterReload, Tls
  <2> QED
    BY <2>1, <2>2
<1> QED
  BY <1>1, <1>2, <1>3, <1>4, <1>5, <1>6, <1>7 DEF ReloadStep

LEMMA ReadRest ==
  ASSUME IInv, NEW t \in Thread, ReadStep(t)
  PROVE  LockInv' /\ EnvInv' /\ VersionInv' /\ EmitInv'
<1> USE DEF IInv, TypeOK, LockInv, EnvInv, VersionInv, EmitInv, lockVars, envVars, catVars,
        reloadVars, countVars, WriterPc, ReaderPc, Table
<1>1. CASE RdLock(t)
  BY <1>1 DEF RdLock
<1>2. CASE NotAdmitted(t)
  BY <1>2 DEF NotAdmitted
<1>3. CASE FetchThread(t)
  <2>1. FreshTls \in Tls /\ FreshTls.ver = init_version
        /\ FreshTls.buf = env_conf.buf /\ FreshTls.caches = env_conf.caches
    BY <1>3 DEF FetchThread, Admitted, FreshTls, Tls, Conf
  <2>2. tls'[t] # NoTls /\ tls'[t].ver = init_version
        /\ tls'[t].buf = env_conf.buf /\ tls'[t].caches = env_conf.caches
    BY <1>3, <2>1 DEF FetchThread, Admitted
  <2>3. \A u \in Thread : u # t => tls'[u] = tls[u]
    BY <1>3 DEF FetchThread
  <2>4. LockInv' /\ EnvInv'
    BY <1>3 DEF FetchThread, Admitted
  <2>5. VersionInv'
    BY <1>3, <2>2, <2>3 DEF FetchThread
  <2>6. EmitInv'
    BY <1>3, <2>2, <2>3 DEF FetchThread
  <2> QED
    BY <2>4, <2>5, <2>6
<1>4. CASE FetchFails(t)
  <2>1. \/ tls' = tls
        \/ /\ tls[t] # NoTls /\ tls[t].ver # init_version
           /\ tls' = [tls EXCEPT ![t] = HalfRebuilt(@)]
    BY <1>4 DEF FetchFails
  <2>2. LockInv' /\ EnvInv'
    BY <1>4 DEF FetchFails
  <2>3. VersionInv' /\ EmitInv'
    BY <1>4, <2>1 DEF FetchFails, HalfRebuilt, Tls
  <2> QED
    BY <2>2, <2>3
<1>5. CASE Emit(t) \/ EmitFails(t) \/ EmitWild(t)
  BY <1>5 DEF Emit, EmitFails, EmitWild
<1>6. CASE CountRead(t)
  BY <1>6 DEF CountRead
<1>7. CASE CountWrite(t)
  BY <1>7 DEF CountWrite
<1>8. CASE RdUnlock(t)
  BY <1>8 DEF RdUnlock
<1> QED
  BY <1>1, <1>2, <1>3, <1>4, <1>5, <1>6, <1>7, <1>8 DEF ReadStep

THEOREM NextIInv == IInv /\ [Next]_vars => IInv'
<1> SUFFICES ASSUME IInv, [Next]_vars
             PROVE  IInv'
  OBVIOUS
<1>1. ASSUME NEW t \in Thread, Start(t)
      PROVE  IInv'
  BY <1>1, StartType, StartRest DEF IInv
<1>2. ASSUME NEW t \in Thread, Continue(t)
      PROVE  IInv'
  BY <1>2, WriteType, WriteRest, ReloadType, ReloadRest, ReadType, ReadRest DEF Continue, IInv
<1>3. CASE UNCHANGED vars
  BY <1>3 DEF vars, lockVars, envVars, catVars, reloadVars, countVars, IInv, TypeOK, LockInv,
              EnvInv, VersionInv, EmitInv, Table
<1> QED
  BY <1>1, <1>2, <1>3 DEF Next, Exhausted

THEOREM Invariance == Spec => []IInv
  BY InitIInv, NextIInv, PTL DEF Spec

\* Every variable of the environment and of the threads keeps its type.
THEOREM TypeCorrect == Spec => []TypeOK
  BY Invariance, PTL DEF IInv

\* A message is only ever formatted and written with buffers and time caches
\* made for the configuration in force (cdlog_fetch_thread).
THEOREM ThreadsFresh == Spec => []FreshThread
<1>1. IInv => FreshThread
  BY DEF IInv, TypeOK, EnvInv, VersionInv, EmitInv, FreshThread
<1> QED
  BY <1>1, Invariance, PTL

-----------------------------------------------------------------------------
(***************************************************************************)
(* The pace of automatic reloads.  The counter is incremented under a      *)
(* shared lock, so increments get lost; they are never invented.  A thread *)
(* between the read and the write of its increment holds the read lock, so *)
(* nobody resets the counter meanwhile.                                    *)
(***************************************************************************)
CountInv ==
  /\ reload_conf_count <= since
  /\ \A t \in Thread : pc[t] = "incr" => call[t].n <= since

\* What a write call, a reload or a read call does to the counters.
LEMMA CountersMove ==
  ASSUME IInv, NEW t \in Thread, Continue(t)
  PROVE  \/ /\ reload_conf_count' = reload_conf_count
            /\ since' = since
         \/ /\ readers = {}
            /\ reload_conf_count' = 0
            /\ since' = 0
         \/ CountWrite(t)
<1> USE DEF IInv, TypeOK, countVars, Requests, Free, ReloadRequested, ResetCount
<1>1. CASE WriteStep(t)
  <2>1. reload_conf_count' = reload_conf_count /\ since' = since
    BY <1>1 DEF WriteStep, Refused, InitDone, InitFailed, DinitFailed, Fetched, FetchFailed,
                SetRecord, SetRecordFailed, FiniTable, FiniRest
  <2> QED
    BY <2>1
<1>2. CASE ReloadStep(t)
  <2>1. CASE (\E content \in Contents : ReloadBegin(t, content)) \/ ReloadConfFailed(t)
    BY <2>1 DEF ReloadBegin, ReloadConfFailed
  <2>2. CASE \/ ReloadNotDue(t) \/ UpdateFill(t) \/ ReloadCommit(t)
             \/ \E c \in Cat : UpdateClear(t, c)
             \/ \E some \in SUBSET Level : UpdateFailed(t, some)
    <3>1. UNCHANGED countVars
      BY <2>2 DEF ReloadNotDue, UpdateFill, ReloadCommit, UpdateClear, UpdateFailed
    <3> QED
      BY <3>1
  <2> QED
    BY <1>2, <2>1, <2>2 DEF ReloadStep
<1>3. CASE ReadStep(t)
  BY <1>3 DEF ReadStep, RdLock, NotAdmitted, FetchThread, FetchFails, Emit, EmitFails, EmitWild,
              CountRead, RdUnlock
<1> QED
  BY <1>1, <1>2, <1>3 DEF Continue

\* No other step puts a thread between the read and the write of its increment.
LEMMA IncrStays ==
  ASSUME IInv, NEW t \in Thread, Start(t) \/ Continue(t), NEW u \in Thread, pc'[u] = "incr"
  PROVE  \/ pc[u] = "incr" /\ call'[u].n = call[u].n
         \/ u = t /\ CountRead(t)
<1> USE DEF IInv, TypeOK
<1>1. CASE Start(t)
  BY <1>1 DEF Start, StartCategoryCall, StartPlainCall, StartWrite, StartRead, LogCheck, VdlogCheck,
              ThreadExit
<1>2. CASE WriteStep(t)
  BY <1>2 DEF WriteStep, Refused, InitDone, InitFailed, DinitFailed, Fetched, FetchFailed,
              SetRecord, SetRecordFailed, FiniTable, FiniRest
<1>3. CASE ReloadStep(t)
  BY <1>3 DEF ReloadStep, ReloadNotDue, ReloadBegin, ReloadConfFailed, UpdateClear, UpdateFill,
              UpdateFailed, ReloadCommit
<1>4. CASE ReadStep(t)
  BY <1>4 DEF ReadStep, RdLock, NotAdmitted, FetchThread, FetchFails, Emit, EmitFails, EmitWild,
              CountWrite, CountRead, RdUnlock
<1> QED
  BY <1>1, <1>2, <1>3, <1>4 DEF Continue

THEOREM NextCountInv == IInv /\ CountInv /\ [Next]_vars => CountInv'
<1> SUFFICES ASSUME IInv, CountInv, [Next]_vars
             PROVE  CountInv'
  OBVIOUS
<1> USE DEF CountInv
<1>1. ASSUME NEW t \in Thread, Start(t)
      PROVE  CountInv'
  <2>1. reload_conf_count' = reload_conf_count /\ since' = since
    BY <1>1 DEF Start, StartCategoryCall, StartPlainCall, StartWrite, StartRead, LogCheck,
                VdlogCheck, ThreadExit, countVars
  <2>2. ~CountRead(t)
    BY <1>1 DEF Start, StartCategoryCall, StartPlainCall, StartWrite, StartRead, LogCheck,
                VdlogCheck, ThreadExit, MayCall, CountRead
  <2>3. \A u \in Thread : pc'[u] = "incr" => pc[u] = "incr" /\ call'[u].n = call[u].n
    BY <1>1, <2>2, IncrStays
  <2> QED
    BY <2>1, <2>3
<1>2. ASSUME NEW t \in Thread, Continue(t)
      PROVE  CountInv'
  <2>1. CASE CountWrite(t)
    BY <2>1 DEF CountWrite, Incremented, IInv, TypeOK
  <2>2. CASE CountRead(t)
    BY <2>2 DEF CountRead, countVars, IInv, TypeOK
  <2>3. ASSUME ~CountWrite(t), ~CountRead(t), readers = {},
               reload_conf_count' = 0, since' = 0
        PROVE  CountInv'
    <3>1. \A u \in Thread : pc'[u] = "incr" => pc[u] = "incr"
      BY <1>2, <2>3, IncrStays
    <3>2. \A u \in Thread : pc[u] # "incr"
      BY <2>3 DEF IInv, LockInv, ReaderPc
    <3> QED
      BY <2>3, <3>1, <3>2
  <2>4. ASSUME ~CountWrite(t), ~CountRead(t),
               reload_conf_count' = reload_conf_count, since' = since
        PROVE  CountInv'
    <3>1. \A u \in Thread : pc'[u] = "incr" => pc[u] = "incr" /\ call'[u].n = call[u].n
      BY <1>2, <2>4, IncrStays
    <3> QED
      BY <2>4, <3>1
  <2> QED
    BY <1>2, <2>1, <2>2, <2>3, <2>4, CountersMove
<1>3. CASE UNCHANGED vars
  BY <1>3 DEF vars, countVars
<1> QED
  BY <1>1, <1>2, <1>3 DEF Next, Exhausted

THEOREM CountInvariance == Spec => []CountInv
<1>1. Init => CountInv
  BY DEF Init, CountInv
<1> QED
  BY <1>1, Invariance, NextCountInv, PTL DEF Spec

\* A step moves one thread only.
LEMMA OthersStay ==
  ASSUME IInv, NEW u \in Thread, Start(u) \/ Continue(u), NEW t \in Thread, t # u
  PROVE  pc'[t] = pc[t]
<1> USE DEF IInv, TypeOK
<1>1. CASE Start(u)
  BY <1>1 DEF Start, StartCategoryCall, StartPlainCall, StartWrite, StartRead, LogCheck, VdlogCheck,
              ThreadExit
<1>2. CASE WriteStep(u)
  BY <1>2 DEF WriteStep, Refused, InitDone, InitFailed, DinitFailed, Fetched, FetchFailed,
              SetRecord, SetRecordFailed, FiniTable, FiniRest
<1>3. CASE ReloadStep(u)
  BY <1>3 DEF ReloadStep, ReloadNotDue, ReloadBegin, ReloadConfFailed, UpdateClear, UpdateFill,
              UpdateFailed, ReloadCommit
<1>4. CASE ReadStep(u)
  BY <1>4 DEF ReadStep, RdLock, NotAdmitted, FetchThread, FetchFails, Emit, EmitFails, EmitWild,
              CountWrite, CountRead, RdUnlock
<1> QED
  BY <1>1, <1>2, <1>3, <1>4 DEF Continue

\* Only the start of a reload takes a waiting thread to the update.
LEMMA UpdateEntry ==
  ASSUME IInv, NEW t \in Thread, Start(t) \/ Continue(t), pc[t] = "wrwait", pc'[t] = "update"
  PROVE  \E content \in Contents : ReloadBegin(t, content)
<1> USE DEF IInv, TypeOK
<1>1. ~Start(t)
  BY DEF Start, StartCategoryCall, StartPlainCall, StartWrite, StartRead, LogCheck, VdlogCheck,
         ThreadExit, MayCall
<1>2. ~ReadStep(t)
  BY DEF ReadStep, RdLock, NotAdmitted, FetchThread, FetchFails, Emit, EmitFails, EmitWild,
         CountWrite, CountRead, RdUnlock
<1>3. ~WriteStep(t)
  BY DEF WriteStep, Refused, InitDone, InitFailed, DinitFailed, Fetched, FetchFailed,
         SetRecord, SetRecordFailed, FiniTable, FiniRest
<1>4. ~ReloadNotDue(t) /\ ~ReloadConfFailed(t)
  BY DEF ReloadNotDue, ReloadConfFailed
<1>5. /\ \A c \in Cat : ~UpdateClear(t, c)
      /\ ~UpdateFill(t)
      /\ \A some \in SUBSET Level : ~UpdateFailed(t, some)
      /\ ~ReloadCommit(t)
  BY DEF UpdateClear, UpdateFill, UpdateFailed, ReloadCommit
<1> QED
  BY <1>1, <1>2, <1>3, <1>4, <1>5 DEF Continue, ReloadStep

\* An automatic reload starts past the period.
LEMMA PastPeriod ==
  ASSUME IInv, CountInv, [Next]_vars, NEW t \in Thread, AutoReloads(t)
  PROVE  since > env_conf.period /\ env_conf.period \in Nat
<1>1. pc[t] = "wrwait" /\ pc'[t] = "update" /\ call[t].op = "auto"
  BY DEF AutoReloads
<1>2. ~UNCHANGED vars
  BY <1>1 DEF vars
<1>3. PICK u \in Thread : Start(u) \/ Continue(u)
  BY <1>2 DEF Next, Exhausted
<1>4. u = t
  BY <1>1, <1>3, OthersStay
<1>5. PICK content \in Contents : ReloadBegin(t, content)
  BY <1>1, <1>3, <1>4, UpdateEntry
<1>6. reload_conf_count > env_conf.period /\ is_init
  BY <1>1, <1>5 DEF ReloadBegin, StillDue, ReloadRequested
<1>7. env_conf \in Conf
  BY <1>6 DEF IInv, TypeOK, EnvInv
<1> QED
  BY <1>6, <1>7 DEF CountInv, IInv, TypeOK, Conf

\* However many threads pass the period at once, the messages since the last reload
\* have reached it when the next automatic one comes (the second test of the
\* counter in cdlog_reload).
THEOREM ReloadsPaced == Spec => AutoReloadPaced
<1>1. IInv /\ CountInv /\ [Next]_vars =>
        [\A t \in Thread : AutoReloads(t) => since >= env_conf.period]_vars
  <2> SUFFICES ASSUME IInv, CountInv, [Next]_vars, NEW t \in Thread, AutoReloads(t)
               PROVE  since >= env_conf.period
    OBVIOUS
  <2>1. since > env_conf.period /\ env_conf.period \in Nat
    BY PastPeriod
  <2> QED
    BY <2>1 DEF IInv, TypeOK
<1> QED
  BY <1>1, Invariance, CountInvariance, PTL DEF Spec, AutoReloadPaced

\* They have even passed it: the code compares with > (zlog.c:664) where the guide
\* speaks of reaching (UsersGuide-EN.lyx:1417), so every automatic reload is one
\* message late.
THEOREM ReloadsComeLate ==
  Spec => [][\A t \in Thread : AutoReloads(t) => since > env_conf.period]_vars
<1>1. IInv /\ CountInv /\ [Next]_vars =>
        [\A t \in Thread : AutoReloads(t) => since > env_conf.period]_vars
  BY PastPeriod
<1> QED
  BY <1>1, Invariance, CountInvariance, PTL DEF Spec

-----------------------------------------------------------------------------
(***************************************************************************)
(* The categories and the records.  While nobody holds the write lock, and *)
(* the last reload did not fail part of the way, they agree with the       *)
(* installed configuration; during a reload the categories that are done   *)
(* agree with the new one, and the one in hand has lost its old bitmap.    *)
(***************************************************************************)
Done(c) == categories[c].fit = new_conf.gen /\ categories[c].bitmap = new_conf.levels[c]

SettledInv ==
  /\ "reload" \notin failed => Settled
  /\ \A t \in Thread : pc[t] \in {"update", "fill"} => \A c \in Table \ todo : Done(c)
  /\ \A t \in Thread : pc[t] = "fill" =>
       call[t].cat \in todo /\ categories[call[t].cat].bitmap = {}

RecordInv ==
  /\ RecordsBound
  /\ \A t \in Thread : pc[t] \in {"update", "fill"} => new_conf.bound = env_records

LEMMA WriteSettled ==
  ASSUME IInv, SettledInv, NEW t \in Thread, WriteStep(t)
  PROVE  SettledInv'
<1> USE DEF IInv, TypeOK, LockInv, SettledInv, Settled, Done, Table, WriterPc, Requests, Free,
        lockVars, envVars, catVars, reloadVars
<1>1. CASE Refused(t) \/ FetchFailed(t) \/ SetRecordFailed(t)
  BY <1>1 DEF Refused, FetchFailed, SetRecordFailed
<1>2. ASSUME NEW content \in Contents, InitDone(t, content)
      PROVE  SettledInv'
  <2>1. \A c \in Cat : categories'[c] # NoCat => categories'[c] = CategoryNew(c, env_conf')
    BY <1>2 DEF InitDone
  <2>2. \A u \in Thread : pc'[u] \notin {"update", "fill"}
    BY <1>2 DEF InitDone
  <2>3. (\A c \in Table : categories[c] = CategoryNew(c, env_conf))'
    BY <2>1 DEF CategoryNew
  <2> QED
    BY <2>2, <2>3
<1>3. CASE InitFailed(t) \/ \E content \in Contents : DinitFailed(t, content)
  BY <1>3 DEF InitFailed, DinitFailed
<1>4. ASSUME NEW c \in Cat, Fetched(t, c)
      PROVE  SettledInv'
  <2>1. "reload" \notin failed' => \A d \in Table : categories[d] = CategoryNew(d, env_conf)
    BY <1>4 DEF Fetched
  <2>2. env_conf' = env_conf
    BY <1>4 DEF Fetched
  <2>3. "reload" \notin failed' =>
          \A d \in Cat : categories'[d] # NoCat => categories'[d] = CategoryNew(d, env_conf)
    BY <1>4, <2>1 DEF Fetched
  <2>4. "reload" \notin failed' => (\A d \in Table : categories[d] = CategoryNew(d, env_conf))'
    BY <2>2, <2>3 DEF CategoryNew
  <2>5. \A u \in Thread : pc'[u] \notin {"update", "fill"}
    BY <1>4 DEF Fetched
  <2> QED
    BY <2>4, <2>5
<1>5. ASSUME NEW r \in RName, SetRecord(t, r)
      PROVE  SettledInv'
  <2>1. env_conf' \in Conf /\ env_conf'.gen = env_conf.gen /\ env_conf'.levels = env_conf.levels
    BY <1>5 DEF SetRecord, EnvInv, Conf
  <2>2. "reload" \notin failed => \A c \in Table : categories[c] = CategoryNew(c, env_conf)
    BY <1>5 DEF SetRecord
  <2>3. categories' = categories /\ failed' = failed
    BY <1>5 DEF SetRecord
  <2>4. "reload" \notin failed' => (\A c \in Table : categories[c] = CategoryNew(c, env_conf))'
    BY <2>1, <2>2, <2>3 DEF CategoryNew
  <2>5. \A u \in Thread : pc'[u] \notin {"update", "fill"}
    BY <1>5 DEF SetRecord
  <2> QED
    BY <2>4, <2>5
<1>6. CASE FiniTable(t)
  BY <1>6 DEF FiniTable
<1>7. CASE FiniRest(t)
  BY <1>7 DEF FiniRest
<1> QED
  BY <1>1, <1>2, <1>3, <1>4, <1>5, <1>6, <1>7 DEF WriteStep

LEMMA ReloadSettled ==
  ASSUME IInv, SettledInv, NEW t \in Thread, ReloadStep(t)
  PROVE  SettledInv'
<1> USE DEF IInv, TypeOK, LockInv, EnvInv, SettledInv, Settled, Done, Table, WriterPc, Requests,
        Free, ReloadRequested, lockVars, envVars, catVars, reloadVars
<1>1. CASE ReloadNotDue(t) \/ ReloadConfFailed(t)
  BY <1>1 DEF ReloadNotDue, ReloadConfFailed
<1>2. CASE \E content \in Contents : ReloadBegin(t, content)
  BY <1>2 DEF ReloadBegin, ToUpdate
<1>3. ASSUME NEW c \in Cat, UpdateClear(t, c)
      PROVE  SettledInv'
  <2>1. c \in todo /\ categories'[c].bitmap = {} /\ call'[t].cat = c
    BY <1>3 DEF UpdateClear, Cleared
  <2>2. \A d \in Cat : d # c => categories'[d] = categories[d]
    BY <1>3 DEF UpdateClear
  <2>3. \A u \in Thread : u # t => pc'[u] \notin {"update", "fill"}
    BY <1>3 DEF UpdateClear
  <2>4. writer' = t /\ t # NoThread /\ pc'[t] = "fill" /\ todo' = todo /\ new_conf' = new_conf
    BY <1>3 DEF UpdateClear
  <2>5. \A d \in Table \ todo : Done(d)
    BY <1>3 DEF UpdateClear
  <2>6. (\A d \in Table \ todo : Done(d))'
    BY <2>1, <2>2, <2>4, <2>5
  <2> QED
    BY <2>1, <2>3, <2>4, <2>6
<1>4. CASE UpdateFill(t)
  <2> DEFINE c == call[t].cat
  <2>1. c \in Cat /\ categories[c] \in Category /\ new_conf \in Conf /\ categories[c].bitmap = {}
    BY <1>4 DEF UpdateFill
  <2>2. categories'[c].fit = new_conf.gen /\ categories'[c].bitmap = new_conf.levels[c]
    BY <1>4, <2>1 DEF UpdateFill, Category, Conf
  <2>3. \A d \in Cat : d # c => categories'[d] = categories[d]
    BY <1>4, <2>1 DEF UpdateFill
  <2>4. /\ writer' = t /\ t # NoThread /\ pc'[t] = "update" /\ todo' = todo \ {c}
        /\ new_conf' = new_conf
    BY <1>4 DEF UpdateFill, Remaining
  <2>5. \A u \in Thread : u # t => pc'[u] \notin {"update", "fill"}
    BY <1>4 DEF UpdateFill
  <2>6. \A d \in Table \ todo : Done(d)
    BY <1>4 DEF UpdateFill
  <2>7. (\A d \in Table \ todo : Done(d))'
    BY <2>2, <2>3, <2>4, <2>6
  <2> QED
    BY <2>4, <2>5, <2>7
<1>5. CASE ReloadCommit(t)
  <2>1. \A c \in Table : Done(c)
    BY <1>5 DEF ReloadCommit
  <2>2. \A c \in Cat : categories'[c] # NoCat =>
          c \in Table /\ categories'[c] = [categories[c] EXCEPT !.backup = NullGen]
    BY <1>5 DEF ReloadCommit
  <2>3. ASSUME NEW c \in Cat, categories'[c] # NoCat
        PROVE  categories'[c] = CategoryNew(c, new_conf)
    <3>0. c \in Table
      BY <2>2, <2>3
    <3>1. c \in Table /\ categories[c] \in Category
      BY <3>0
    <3>2. categories'[c] = [categories[c] EXCEPT !.backup = NullGen]
      BY <2>2, <2>3
    <3>3. categories[c].fit = new_conf.gen /\ categories[c].bitmap = new_conf.levels[c]
      BY <2>1, <3>1
    <3> QED
      BY <3>1, <3>2, <3>3 DEF Category, CategoryNew
  <2>4. env_conf' = new_conf
    BY <1>5 DEF ReloadCommit
  <2>5. (\A c \in Table : categories[c] = CategoryNew(c, env_conf))'
    BY <2>3, <2>4 DEF CategoryNew
  <2>6. \A u \in Thread : pc'[u] \notin {"update", "fill"}
    BY <1>5 DEF ReloadCommit
  <2> QED
    BY <2>5, <2>6
<1>6. CASE \E some \in SUBSET Level : UpdateFailed(t, some)
  <2>1. "reload" \in failed' /\ \A u \in Thread : pc'[u] \notin {"update", "fill"}
    BY <1>6 DEF UpdateFailed
  <2> QED
    BY <2>1
<1> QED
  BY <1>1, <1>2, <1>3, <1>4, <1>5, <1>6 DEF ReloadStep

LEMMA OtherSettled ==
  ASSUME IInv, SettledInv, NEW t \in Thread, Start(t) \/ ReadStep(t)
  PROVE  SettledInv'
<1>1. UNCHANGED <<writer, envVars, catVars, reloadVars, failed>>
  BY DEF Start, StartCategoryCall, StartPlainCall, StartWrite, StartRead, LogCheck, VdlogCheck,
         ThreadExit, ReadStep, RdLock, NotAdmitted, FetchThread, FetchFails, Emit, EmitFails,
         EmitWild, CountWrite, CountRead, RdUnlock, lockVars
<1>2. \A u \in Thread : pc'[u] \in {"update", "fill"} => pc[u] = pc'[u] /\ call'[u] = call[u]
  <2> USE DEF IInv, TypeOK
  <2>1. CASE Start(t)
    BY <2>1 DEF Start, StartCategoryCall, StartPlainCall, StartWrite, StartRead, LogCheck,
                VdlogCheck, ThreadExit, MayCall
  <2>2. CASE ReadStep(t)
    BY <2>2 DEF ReadStep, RdLock, NotAdmitted, FetchThread, FetchFails, Emit, EmitFails, EmitWild,
                CountWrite, CountRead, RdUnlock
  <2> QED
    BY <2>1, <2>2
<1> QED
  BY <1>1, <1>2 DEF SettledInv, Settled, Done, Table, CategoryNew, envVars, catVars, reloadVars

LEMMA NextSettledInv == IInv /\ SettledInv /\ [Next]_vars => SettledInv'
<1> SUFFICES ASSUME IInv, SettledInv, [Next]_vars
             PROVE  SettledInv'
  OBVIOUS
<1>1. CASE UNCHANGED vars
  BY <1>1 DEF vars, lockVars, envVars, catVars, reloadVars, SettledInv, Settled, Done, Table,
              CategoryNew
<1>2. CASE \E t \in Thread : Start(t) \/ Continue(t)
  BY <1>2, WriteSettled, ReloadSettled, OtherSettled DEF Continue
<1> QED
  BY <1>1, <1>2 DEF Next, Exhausted

LEMMA InitSettledInv == Init => SettledInv
BY DEF Init, SettledInv, Settled, Table

\* Whatever fails, every category outputs through the rules of the installed
\* configuration and filters by them whenever no reload is under way, unless the
\* last reload failed part of the way (cdlog_category_update_rules and
\* cdlog_category_commit_rules under cdlog_reload).
THEOREM SettledUnlessFailed == Spec => []("reload" \notin failed => Settled)
<1>1. SettledInv => ("reload" \notin failed => Settled)
  BY DEF SettledInv
<1> QED
  BY <1>1, InitSettledInv, NextSettledInv, Invariance, PTL DEF Spec

\* Only an update that runs out of memory makes a reload fail part of the way.
LEMMA ReloadFails ==
  ASSUME "update" \notin Fails, IInv, "reload" \notin failed, [Next]_vars
  PROVE  "reload" \notin failed'
<1>1. ASSUME NEW t \in Thread, Start(t) \/ ReadStep(t)
      PROVE  failed' = failed
  BY <1>1 DEF Start, StartCategoryCall, StartPlainCall, StartWrite, StartRead, LogCheck, VdlogCheck,
     ThreadExit, ReadStep, RdLock, NotAdmitted, FetchThread, FetchFails, Emit, EmitFails,
     EmitWild, CountWrite, CountRead, RdUnlock
<1>2. ASSUME NEW t \in Thread, WriteStep(t)
      PROVE  failed' \subseteq failed \cup {"default"}
  BY <1>2 DEF WriteStep, Refused, InitDone, InitFailed, DinitFailed, Fetched, FetchFailed,
     SetRecord, SetRecordFailed, FiniTable, FiniRest
<1>3. ASSUME NEW t \in Thread, ReloadStep(t)
      PROVE  failed' \subseteq failed
  BY <1>3 DEF ReloadStep, ReloadNotDue, ReloadBegin, ReloadConfFailed, UpdateClear, UpdateFill,
     UpdateFailed, ReloadCommit
<1>4. CASE UNCHANGED vars
  BY <1>4 DEF vars
<1> QED
  BY <1>1, <1>2, <1>3, <1>4 DEF Next, Continue, Exhausted

\* ... so as long as none does, they always agree.
THEOREM CategoriesSettled ==
  ASSUME "update" \notin Fails
  PROVE  Spec => []Settled
<1> DEFINE Whole == "reload" \notin failed
<1>1. Init => Whole
  BY DEF Init
<1>2. IInv /\ Whole /\ [Next]_vars => Whole'
  BY ReloadFails
<1>3. SettledInv /\ Whole => Settled
  BY DEF SettledInv
<1> HIDE DEF Whole
<1> QED
  BY <1>1, <1>2, <1>3, InitSettledInv, NextSettledInv, Invariance, PTL DEF Spec

LEMMA NextRecordInv ==
  ASSUME IInv, RecordInv, NEW t \in Thread, Start(t) \/ Continue(t)
  PROVE  RecordInv'
<1> USE DEF IInv, TypeOK, LockInv, EnvInv, RecordInv, RecordsBound, WriterPc, Requests, Free,
        ReloadRequested, lockVars, envVars, catVars, reloadVars
<1>1. CASE Start(t) \/ ReadStep(t)
  <2>1. UNCHANGED <<writer, envVars, reloadVars>>
    BY <1>1 DEF Start, StartCategoryCall, StartPlainCall, StartWrite, StartRead, LogCheck,
         VdlogCheck, ThreadExit, ReadStep, RdLock, NotAdmitted, FetchThread, FetchFails, Emit,
         EmitFails, EmitWild, CountWrite, CountRead, RdUnlock
  <2>2. \A u \in Thread : pc'[u] \in {"update", "fill"} => pc[u] = pc'[u]
    <3>1. CASE Start(t)
      BY <3>1 DEF Start, StartCategoryCall, StartPlainCall, StartWrite, StartRead, LogCheck,
                  VdlogCheck, ThreadExit
    <3>2. CASE ReadStep(t)
      BY <3>2 DEF ReadStep, RdLock, NotAdmitted, FetchThread, FetchFails, Emit, EmitFails,
                  EmitWild, CountWrite, CountRead, RdUnlock
    <3> QED
      BY <1>1, <3>1, <3>2
  <2> QED
    BY <2>1, <2>2
<1>2. CASE WriteStep(t)
  <2>1. CASE Refused(t) \/ FetchFailed(t) \/ SetRecordFailed(t) \/ InitFailed(t)
    BY <2>1 DEF Refused, FetchFailed, SetRecordFailed, InitFailed
  <2>2. CASE \E content \in Contents : InitDone(t, content)
    BY <2>2 DEF InitDone, NewConf
  <2>3. CASE \E content \in Contents : DinitFailed(t, content)
    BY <2>3 DEF DinitFailed
  <2>4. CASE \E c \in Cat : Fetched(t, c)
    BY <2>4 DEF Fetched
  <2>5. ASSUME NEW r \in RName, SetRecord(t, r)
        PROVE  RecordInv'
    <3>1. env_conf' = [env_conf EXCEPT !.bound = env_records'] /\ env_conf \in Conf
      BY <2>5 DEF SetRecord
    <3>2. env_conf'.bound = env_records'
      BY <3>1 DEF Conf
    <3>3. \A u \in Thread : pc'[u] \notin {"update", "fill"}
      BY <2>5 DEF SetRecord
    <3> QED
      BY <3>2, <3>3
  <2>6. CASE FiniTable(t) \/ FiniRest(t)
    BY <2>6 DEF FiniTable, FiniRest
  <2> QED
    BY <1>2, <2>1, <2>2, <2>3, <2>4, <2>5, <2>6 DEF WriteStep
<1>3. CASE ReloadStep(t)
  <2>1. CASE ReloadNotDue(t) \/ ReloadConfFailed(t)
    BY <2>1 DEF ReloadNotDue, ReloadConfFailed
  <2>2. CASE \E content \in Contents : ReloadBegin(t, content)
    BY <2>2 DEF ReloadBegin, BoundOnReload, NewConf
  <2>3. CASE (\E c \in Cat : UpdateClear(t, c)) \/ UpdateFill(t)
    BY <2>3 DEF UpdateClear, UpdateFill
  <2>4. CASE \E some \in SUBSET Level : UpdateFailed(t, some)
    BY <2>4 DEF UpdateFailed
  <2>5. CASE ReloadCommit(t)
    BY <2>5 DEF ReloadCommit
  <2> QED
    BY <1>3, <2>1, <2>2, <2>3, <2>4, <2>5 DEF ReloadStep
<1> QED
  BY <1>1, <1>2, <1>3 DEF Continue

\* Every output function the application registered is bound in the rules in
\* force, after a reload too (cdlog_set_record, cdlog_reload).
THEOREM RecordsStayBound == Spec => []RecordsBound
<1>1. Init => RecordInv
  BY DEF Init, RecordInv, RecordsBound
<1>2. IInv /\ RecordInv /\ [Next]_vars => RecordInv'
  <2>1. ASSUME RecordInv, UNCHANGED vars
        PROVE  RecordInv'
    BY <2>1 DEF vars, lockVars, envVars, reloadVars, RecordInv, RecordsBound
  <2> QED
    BY <2>1, NextRecordInv DEF Next, Exhausted
<1>3. RecordInv => RecordsBound
  BY DEF RecordInv
<1> QED
  BY <1>1, <1>2, <1>3, Invariance, PTL DEF Spec

-----------------------------------------------------------------------------
\* What a step may do to the configuration in force: keep it but for its
\* bindings, take it away, or install one with a new version.
LEMMA ConfMoves ==
  ASSUME IInv, NEW t \in Thread, Start(t) \/ Continue(t)
  PROVE  \/ ~is_init'
         \/ is_init' = is_init /\ (env_conf' = env_conf \/ env_conf'.gen = env_conf.gen)
         \/ init_version' > init_version
<1> USE DEF IInv, TypeOK, envVars
<1>1. CASE Start(t) \/ ReadStep(t)
  BY <1>1 DEF Start, StartCategoryCall, StartPlainCall, StartWrite, StartRead, LogCheck,
     VdlogCheck, ThreadExit, ReadStep, RdLock, NotAdmitted, FetchThread, FetchFails, Emit,
     EmitFails, EmitWild, CountWrite, CountRead, RdUnlock
<1>2. CASE ReloadStep(t)
  <2>1. CASE ReloadCommit(t)
    BY <2>1 DEF ReloadCommit, VersionAfterReload
  <2>2. CASE ~ReloadCommit(t)
    <3>1. UNCHANGED envVars
      BY <1>2, <2>2 DEF ReloadStep, ReloadNotDue, ReloadBegin, ReloadConfFailed, UpdateClear,
         UpdateFill, UpdateFailed
    <3> QED
      BY <3>1
  <2> QED
    BY <2>1, <2>2
<1>3. CASE WriteStep(t)
  <2>1. ASSUME NEW content \in Contents, InitDone(t, content)
        PROVE  init_version' > init_version
    <3>1. init_version' = VersionAfterInner + 1
      BY <2>1 DEF InitDone, VersionAfterInit
    <3> QED
      BY <3>1 DEF VersionAfterInner
  <2>2. ASSUME NEW r \in RName, SetRecord(t, r)
        PROVE  is_init' = is_init /\ env_conf'.gen = env_conf.gen
    BY <2>2 DEF SetRecord, EnvInv, Conf
  <2>3. CASE InitFailed(t) \/ (\E content \in Contents : DinitFailed(t, content)) \/ FiniRest(t)
    BY <2>3 DEF InitFailed, DinitFailed, FiniRest
  <2>4. CASE Refused(t) \/ (\E c \in Cat : Fetched(t, c)) \/ FetchFailed(t)
             \/ SetRecordFailed(t) \/ FiniTable(t)
    BY <2>4 DEF Refused, Fetched, FetchFailed, SetRecordFailed, FiniTable
  <2> QED
    BY <1>3, <2>1, <2>2, <2>3, <2>4 DEF WriteStep
<1> QED
  BY <1>1, <1>2, <1>3 DEF Continue

\* Whatever configuration takes force, by an initialisation or by a reload, its
\* version is ahead of every thread's, so no thread mistakes its caches for
\* fitting ones.
THEOREM InstallsMoveVersion == Spec => InstallMovesVersion
<1>1. ASSUME IInv, [Next]_vars, is_init', ~is_init \/ env_conf.gen # env_conf'.gen,
             NEW t \in Thread, tls[t] # NoTls
      PROVE  tls[t].ver < init_version'
  <2>1. ~UNCHANGED vars
    BY <1>1 DEF vars, envVars
  <2>2. PICK u \in Thread : Start(u) \/ Continue(u)
    BY <1>1, <2>1 DEF Next, Exhausted
  <2>3. init_version' > init_version
    BY <1>1, <2>2, ConfMoves
  <2>4. tls[t].ver <= init_version
    BY <1>1 DEF IInv, VersionInv
  <2>5. init_version \in Nat /\ init_version' \in Nat /\ tls[t].ver \in Nat
    BY <1>1, NextIInv DEF IInv, TypeOK, Tls
  <2> QED
    BY <2>3, <2>4, <2>5
<1>2. IInv /\ [Next]_vars =>
        [is_init' /\ env_conf' # NoConf /\ (~is_init \/ env_conf.gen # env_conf'.gen) =>
           \A t \in Thread : tls[t] # NoTls => tls[t].ver < init_version']_vars
  BY <1>1
<1> QED
  BY <1>2, Invariance, PTL DEF Spec, InstallMovesVersion

-----------------------------------------------------------------------------
(***************************************************************************)
(* The categories: what a failed reload breaks the next one repairs, and   *)
(* nothing else breaks them.                                               *)
(*                                                                         *)
(* The inductive invariant, on top of IInv: how far a reload has come      *)
(* (UpdateInv), when the table and the default category are there          *)
(* (TableInv), what the application's contract about cdlog_fini keeps for  *)
(* a call made with a handle (HandleInv), and which call is where          *)
(* (CallInv).                                                              *)
(***************************************************************************)
UpdateInv ==
  /\ \A t \in Thread : pc[t] \in {"update", "fill"} => \A c \in Table \ todo : Done(c)
  /\ \A t \in Thread : pc[t] = "fill" =>
       call[t].cat \in todo /\ categories[call[t].cat].bitmap = {}

TableInv ==
  /\ ~is_init => Table = {} /\ default_category = NoCat
  /\ \A t \in Thread : pc[t] = "fini" => Table = {}
  /\ default_category # NoCat =>
       default_category \in Table \/ \E t \in Thread : pc[t] = "fini"

HandleInv ==
  /\ \A t \in Thread : call[t].op = "log" => call[t].cat \in Table
  /\ \A t, u \in Thread : call[t].op = "fini" => call[u].op # "log"

CallInv ==
  /\ \A t \in Thread : pc[t] = "fini" => call[t].op = "fini"
  /\ \A t \in Thread : pc[t] \in {"rdwait", "fetch"} => call[t].op \in LogCall \cup {"mdc"}
  /\ \A t \in Thread : pc[t] = "emit" =>
       /\ call[t].op \in LogCall
       /\ call[t].op \in DefaultCall => default_category # NoCat

UseInv == UpdateInv /\ TableInv /\ HandleInv /\ CallInv

-----------------------------------------------------------------------------
LEMMA UpdateKept ==
  ASSUME IInv, UpdateInv, NEW t \in Thread, Start(t) \/ Continue(t)
  PROVE  UpdateInv'
<1> USE DEF IInv, TypeOK, LockInv, EnvInv, UpdateInv, Done, Table, WriterPc, Requests, Free,
        ReloadRequested, lockVars, envVars, catVars, reloadVars
<1>1. CASE Start(t) \/ ReadStep(t)
  <2>1. UNCHANGED <<catVars, reloadVars>>
    BY <1>1 DEF Start, StartCategoryCall, StartPlainCall, StartWrite, StartRead, LogCheck,
       VdlogCheck, ThreadExit, ReadStep, RdLock, NotAdmitted, FetchThread, FetchFails, Emit,
       EmitFails, EmitWild, CountWrite, CountRead, RdUnlock
  <2>2. \A u \in Thread : pc'[u] \in {"update", "fill"} => pc[u] = pc'[u] /\ call'[u] = call[u]
    <3>1. CASE Start(t)
      BY <3>1 DEF Start, StartCategoryCall, StartPlainCall, StartWrite, StartRead, LogCheck,
                  VdlogCheck, ThreadExit, MayCall
    <3>2. CASE ReadStep(t)
      BY <3>2 DEF ReadStep, RdLock, NotAdmitted, FetchThread, FetchFails, Emit, EmitFails,
                  EmitWild, CountWrite, CountRead, RdUnlock
    <3> QED
      BY <1>1, <3>1, <3>2
  <2> QED
    BY <2>1, <2>2
<1>2. CASE WriteStep(t)
  <2>1. \A u \in Thread : pc'[u] \notin {"update", "fill"}
    BY <1>2 DEF WriteStep, Refused, InitDone, InitFailed, DinitFailed, Fetched, FetchFailed,
                SetRecord, SetRecordFailed, FiniTable, FiniRest
  <2> QED
    BY <2>1
<1>3. CASE ReloadNotDue(t) \/ ReloadConfFailed(t)
  BY <1>3 DEF ReloadNotDue, ReloadConfFailed
<1>4. CASE \E content \in Contents : ReloadBegin(t, content)
  <2>1. todo' = Table /\ pc'[t] = "update" /\ categories' = categories
    BY <1>4 DEF ReloadBegin, ToUpdate
  <2>2. \A u \in Thread : pc'[u] # "fill"
    BY <1>4 DEF ReloadBegin
  <2>3. (Table \ todo)' = {}
    BY <2>1
  <2> QED
    BY <2>2, <2>3
<1>5. ASSUME NEW c \in Cat, UpdateClear(t, c)
      PROVE  UpdateInv'
  <2>1. c \in todo /\ categories'[c].bitmap = {} /\ call'[t].cat = c
    BY <1>5 DEF UpdateClear, Cleared
  <2>2. \A d \in Cat : d # c => categories'[d] = categories[d]
    BY <1>5 DEF UpdateClear
  <2>3. \A u \in Thread : u # t => pc'[u] \notin {"update", "fill"}
    BY <1>5 DEF UpdateClear
  <2>4. pc'[t] = "fill" /\ todo' = todo /\ new_conf' = new_conf
    BY <1>5 DEF UpdateClear
  <2>5. \A d \in Table \ todo : Done(d)
    BY <1>5 DEF UpdateClear
  <2>6. (\A d \in Table \ todo : Done(d))'
    BY <2>1, <2>2, <2>4, <2>5
  <2> QED
    BY <2>1, <2>3, <2>4, <2>6
<1>6. CASE UpdateFill(t)
  <2> DEFINE c == call[t].cat
  <2>1. c \in Cat /\ categories[c] \in Category /\ new_conf \in Conf /\ categories[c].bitmap = {}
    BY <1>6 DEF UpdateFill
  <2>2. categories'[c].fit = new_conf.gen /\ categories'[c].bitmap = new_conf.levels[c]
    BY <1>6, <2>1 DEF UpdateFill, Category, Conf
  <2>3. \A d \in Cat : d # c => categories'[d] = categories[d]
    BY <1>6, <2>1 DEF UpdateFill
  <2>4. pc'[t] = "update" /\ todo' = todo \ {c} /\ new_conf' = new_conf
    BY <1>6 DEF UpdateFill, Remaining
  <2>5. \A u \in Thread : u # t => pc'[u] \notin {"update", "fill"}
    BY <1>6 DEF UpdateFill
  <2>6. \A d \in Table \ todo : Done(d)
    BY <1>6 DEF UpdateFill
  <2>7. (\A d \in Table \ todo : Done(d))'
    BY <2>2, <2>3, <2>4, <2>6
  <2> QED
    BY <2>4, <2>5, <2>7
<1>7. CASE (\E some \in SUBSET Level : UpdateFailed(t, some)) \/ ReloadCommit(t)
  <2>1. pc[t] \in {"update", "fill"} /\ pc' = [pc EXCEPT ![t] = "idle"]
    BY <1>7 DEF UpdateFailed, ReloadCommit
  <2>2. \A u \in Thread : u # t => pc[u] \notin {"update", "fill"}
    BY <2>1
  <2>3. \A u \in Thread : pc'[u] \notin {"update", "fill"}
    BY <2>1, <2>2
  <2> QED
    BY <2>3
<1> QED
  BY <1>1, <1>2, <1>3, <1>4, <1>5, <1>6, <1>7 DEF Continue, ReloadStep

\* Only an initialisation, a category fetched or cdlog_fini changes which
\* categories there are.
LEMMA TableMoves ==
  ASSUME IInv, NEW t \in Thread, ReloadStep(t)
  PROVE  Table' = Table
<1> USE DEF IInv, TypeOK, EnvInv, Table, catVars, reloadVars
<1>1. CASE ReloadNotDue(t) \/ ReloadConfFailed(t) \/ \E content \in Contents : ReloadBegin(t, content)
  BY <1>1 DEF ReloadNotDue, ReloadConfFailed, ReloadBegin
<1>2. ASSUME NEW c \in Cat, UpdateClear(t, c)
      PROVE  Table' = Table
  <2>1. c \in Table /\ Cleared(categories[c]) \in Category
    BY <1>2 DEF UpdateClear, Cleared, Category
  <2> QED
    BY <1>2, <2>1 DEF UpdateClear
<1>3. CASE UpdateFill(t)
  <2> DEFINE c == call[t].cat
  <2>1. c \in Table /\ categories[c] \in Category /\ new_conf \in Conf
    BY <1>3 DEF UpdateFill
  <2>2. categories'[c] \in Category /\ \A d \in Cat : d # c => categories'[d] = categories[d]
    BY <1>3, <2>1 DEF UpdateFill, Category, Conf
  <2> QED
    BY <2>1, <2>2
<1>4. ASSUME NEW some \in SUBSET Level, UpdateFailed(t, some)
      PROVE  Table' = Table
  <2> DEFINE c == call[t].cat
  <2>1. c \in Table /\ categories[c] \in Category
    BY <1>4 DEF UpdateFailed
  <2>2. categories'[c] \in Category /\ \A d \in Cat : d # c => categories'[d] = categories[d]
    BY <1>4, <2>1 DEF UpdateFailed, Category
  <2> QED
    BY <2>1, <2>2
<1>5. CASE ReloadCommit(t)
  <2>1. \A c \in Table : [categories[c] EXCEPT !.backup = NullGen] \in Category
    BY DEF Category
  <2> QED
    BY <1>5, <2>1 DEF ReloadCommit
<1> QED
  BY <1>1, <1>2, <1>3, <1>4, <1>5 DEF ReloadStep

LEMMA StartKept ==
  ASSUME IInv, UseInv, NEW t \in Thread, Start(t)
  PROVE  TableInv' /\ HandleInv' /\ CallInv'
<1> USE DEF IInv, TypeOK, UseInv, TableInv, HandleInv, CallInv, MayCall, LogCall, DefaultCall
<1>1. UNCHANGED <<is_init, categories, default_category>> /\ Table' = Table
  BY DEF Start, StartCategoryCall, StartPlainCall, StartWrite, StartRead, LogCheck,
         VdlogCheck, ThreadExit, envVars, catVars, Table
<1>2. \A u \in Thread : u # t => pc'[u] = pc[u] /\ call'[u] = call[u]
  BY DEF Start, StartCategoryCall, StartPlainCall, StartWrite, StartRead, LogCheck,
         VdlogCheck, ThreadExit
<1>3. pc[t] = "idle" /\ pc'[t] \in {"idle", "wrwait", "rdwait", "segv"}
  BY DEF Start, StartCategoryCall, StartPlainCall, StartWrite, StartRead, LogCheck,
         VdlogCheck, ThreadExit
<1>4. TableInv'
  BY <1>1, <1>2, <1>3
<1>5. CASE StartCategoryCall(t) \/ StartPlainCall(t)
  <2>1. PICK op \in {"dinit", "get", "setdef", "init", "fini", "record", "reload"},
             c \in Cat \cup {NoCat} : StartWrite(t, op, c)
    BY <1>5 DEF StartCategoryCall, StartPlainCall
  <2>2. pc'[t] = "wrwait" /\ call'[t].op = op
    BY <2>1 DEF StartWrite
  <2>3. op = "fini" => \A u \in Thread \ {t} : call[u].op # "log"
    BY <2>1 DEF StartWrite, MayFini
  <2> QED
    BY <1>1, <1>2, <1>4, <2>2, <2>3
<1>6. CASE (\E op \in {"dlog", "mdc"} : StartRead(t, op)) \/ VdlogCheck(t)
  <2>1. PICK op \in {"dlog", "mdc", "vdlog"} : call' = [call EXCEPT ![t].op = op]
    BY <1>6 DEF StartRead, VdlogCheck
  <2>2. call'[t].op = op
    BY <2>1
  <2> QED
    BY <1>1, <1>2, <1>3, <1>4, <2>2
<1>7. ASSUME NEW c \in Cat, LogCheck(t, c)
      PROVE  TableInv' /\ HandleInv' /\ CallInv'
  <2>1. call'[t].op = "log" /\ call'[t].cat = c /\ c \in Table /\ pc'[t] = "rdwait"
    BY <1>7 DEF LogCheck
  <2>2. \A u \in Thread : call[u].op # "fini"
    BY <1>7 DEF LogCheck, FiniPending
  <2> QED
    BY <1>1, <1>2, <1>4, <2>1, <2>2
<1>8. CASE ThreadExit(t)
  BY <1>1, <1>4, <1>8 DEF ThreadExit
<1> QED
  BY <1>5, <1>6, <1>7, <1>8 DEF Start

LEMMA ReadKept ==
  ASSUME IInv, UseInv, NEW t \in Thread, ReadStep(t)
  PROVE  TableInv' /\ HandleInv' /\ CallInv'
<1> USE DEF IInv, TypeOK, UseInv, TableInv, HandleInv, CallInv, LogCall, DefaultCall
<1>1. UNCHANGED <<is_init, categories, default_category>> /\ Table' = Table
  BY DEF ReadStep, RdLock, NotAdmitted, FetchThread, FetchFails, Emit, EmitFails, EmitWild,
         CountWrite, CountRead, RdUnlock, envVars, catVars, Table
<1>2. \A u \in Thread : u # t => pc'[u] = pc[u] /\ call'[u] = call[u]
  BY DEF ReadStep, RdLock, NotAdmitted, FetchThread, FetchFails, Emit, EmitFails, EmitWild,
         CountWrite, CountRead, RdUnlock
<1>3. pc[t] # "fini" /\ pc'[t] \notin {"fini", "rdwait"}
  BY DEF ReadStep, RdLock, NotAdmitted, FetchThread, FetchFails, Emit, EmitFails, EmitWild,
         CountWrite, CountRead, RdUnlock
<1>4. TableInv'
  BY <1>1, <1>2, <1>3
<1>5. \/ call'[t].op = call[t].op /\ call'[t].cat = call[t].cat
      \/ call'[t].op \in {"none", "auto"}
  <2>1. CASE CountWrite(t)
    BY <2>1 DEF CountWrite, NoCall
  <2>2. CASE ~CountWrite(t)
    BY <2>2 DEF ReadStep, RdLock, NotAdmitted, FetchThread, FetchFails, Emit, EmitFails, EmitWild,
       CountRead, RdUnlock, NoCall
  <2> QED
    BY <2>1, <2>2
<1>6. HandleInv'
  BY <1>1, <1>2, <1>5
<1>7. pc'[t] = "fetch" => call'[t].op \in LogCall \cup {"mdc"}
  BY DEF ReadStep, RdLock, NotAdmitted, FetchThread, FetchFails, Emit, EmitFails, EmitWild,
         CountWrite, CountRead, RdUnlock
<1>8. pc'[t] = "emit" => call'[t].op \in LogCall
                         /\ (call'[t].op \in DefaultCall => default_category # NoCat)
  BY DEF ReadStep, RdLock, NotAdmitted, FetchThread, FetchFails, Emit, EmitFails, EmitWild,
         CountWrite, CountRead, RdUnlock, Admitted
<1> QED
  BY <1>1, <1>2, <1>3, <1>4, <1>6, <1>7, <1>8

LEMMA ReloadKept ==
  ASSUME IInv, UseInv, NEW t \in Thread, ReloadStep(t)
  PROVE  TableInv' /\ HandleInv' /\ CallInv'
<1> USE DEF IInv, TypeOK, LockInv, EnvInv, UseInv, TableInv, HandleInv, CallInv, WriterPc, Requests
<1>1. UNCHANGED <<is_init, default_category>> /\ is_init
  BY DEF ReloadStep, ReloadNotDue, ReloadConfFailed, ReloadBegin, UpdateClear, UpdateFill,
         UpdateFailed, ReloadCommit, ReloadRequested, envVars, catVars
<1>2. Table' = Table
  BY TableMoves
<1>3. \A u \in Thread : u # t => pc'[u] = pc[u] /\ call'[u] = call[u]
  BY DEF ReloadStep, ReloadNotDue, ReloadConfFailed, ReloadBegin, UpdateClear, UpdateFill,
         UpdateFailed, ReloadCommit
<1>4. pc[t] # "fini" /\ pc'[t] \in {"idle", "update", "fill"}
  BY DEF ReloadStep, ReloadNotDue, ReloadConfFailed, ReloadBegin, UpdateClear, UpdateFill,
         UpdateFailed, ReloadCommit, ReloadRequested
<1>5. /\ call'[t].op = call[t].op \/ call'[t].op = "none"
      /\ call'[t].cat = call[t].cat \/ call'[t].cat \in Table \/ call'[t].op = "none"
  <2>1. ASSUME NEW c \in Cat, UpdateClear(t, c)
        PROVE  call'[t].op = call[t].op /\ call'[t].cat \in Table
    BY <2>1 DEF UpdateClear
  <2>2. CASE UpdateFill(t) \/ \E content \in Contents : ReloadBegin(t, content)
    BY <2>2 DEF UpdateFill, ReloadBegin
  <2>3. CASE \/ ReloadNotDue(t) \/ ReloadConfFailed(t) \/ ReloadCommit(t)
             \/ \E some \in SUBSET Level : UpdateFailed(t, some)
    <3>1. call' = [call EXCEPT ![t] = NoCall]
      BY <2>3 DEF ReloadNotDue, ReloadConfFailed, ReloadCommit, UpdateFailed
    <3> QED
      BY <3>1 DEF NoCall
  <2> QED
    BY <2>1, <2>2, <2>3 DEF ReloadStep
<1>6. TableInv' /\ CallInv'
  BY <1>1, <1>2, <1>3, <1>4
<1>7. HandleInv'
  <2>1. \A u \in Thread : call'[u].op = "log" => call[u].op = "log" /\ call'[u].cat \in Table
    BY <1>3, <1>5
  <2>2. \A u \in Thread : call'[u].op = "fini" => call[u].op = "fini"
    BY <1>3, <1>5
  <2> QED
    BY <1>2, <2>1, <2>2
<1> QED
  BY <1>6, <1>7

LEMMA WriteKept ==
  ASSUME IInv, UseInv, NEW t \in Thread, WriteStep(t)
  PROVE  TableInv' /\ HandleInv' /\ CallInv'
<1> USE DEF IInv, TypeOK, LockInv, EnvInv, UseInv, TableInv, HandleInv, CallInv, WriterPc, ReaderPc,
        Requests, Free, envVars, catVars, NoCall
<1>1. CASE Refused(t) \/ SetRecordFailed(t) \/ \E r \in RName : SetRecord(t, r)
  <2>1. UNCHANGED <<is_init, categories, default_category>> /\ Table' = Table
    BY <1>1 DEF Refused, SetRecordFailed, SetRecord, Table
  <2>2. pc[t] = "wrwait" /\ Return(t)
    BY <1>1 DEF Refused, SetRecordFailed, SetRecord
  <2> QED
    BY <2>1, <2>2
<1>2. ASSUME ~is_init, Free, pc[t] = "wrwait", Return(t),
             ~is_init' => Table' = {} /\ default_category' = NoCat,
             default_category' # NoCat => default_category' \in Table'
      PROVE  TableInv' /\ HandleInv' /\ CallInv'
  <2>1. \A u \in Thread : call[u].op # "log"
    BY <1>2
  <2>2. \A u \in Thread : pc[u] \notin {"fini", "emit"}
    BY <1>2
  <2> QED
    BY <1>2, <2>1, <2>2
<1>3. ASSUME NEW content \in Contents, InitDone(t, content)
      PROVE  TableInv' /\ HandleInv' /\ CallInv'
  <2>1. \A c \in Cat : CategoryNew(c, NewConf(content, {})) \in Category
    BY NewConfType, CategoryNewType
  <2>2. default_category' # NoCat => default_category' \in Table'
    BY <1>3, <2>1 DEF InitDone, Table
  <2> QED
    BY <1>2, <1>3, <2>2 DEF InitDone
<1>4. CASE InitFailed(t) \/ \E content \in Contents : DinitFailed(t, content)
  <2>1. Table' = {}
    BY <1>4 DEF InitFailed, DinitFailed, Table
  <2> QED
    BY <1>2, <1>4, <2>1 DEF InitFailed, DinitFailed
<1>5. ASSUME NEW c \in Cat, Fetched(t, c)
      PROVE  TableInv' /\ HandleInv' /\ CallInv'
  <2>1. CategoryNew(c, env_conf) \in Category
    BY <1>5, CategoryNewType DEF Fetched
  <2>2. Table' = Table \cup {c}
    BY <1>5, <2>1 DEF Fetched, Table
  <2>3. \A u \in Thread : pc[u] \notin {"fini", "emit"}
    BY <1>5 DEF Fetched
  <2> QED
    BY <1>5, <2>2, <2>3 DEF Fetched
<1>6. CASE FetchFailed(t)
  <2>1. \A u \in Thread : pc[u] \notin {"fini", "emit"}
    BY <1>6 DEF FetchFailed
  <2>2. Table' = Table
    BY <1>6 DEF FetchFailed, Table
  <2> QED
    BY <1>6, <2>1, <2>2 DEF FetchFailed
<1>7. CASE FiniTable(t)
  <2>1. Table' = {}
    BY <1>7 DEF FiniTable, Table
  <2>2. \A u \in Thread : call[u].op # "log"
    BY <1>7 DEF FiniTable
  <2>3. \A u \in Thread : pc[u] # "emit"
    BY <1>7 DEF FiniTable
  <2> QED
    BY <1>7, <2>1, <2>2, <2>3 DEF FiniTable
<1>8. CASE FiniRest(t)
  <2>1. Table' = {} /\ Table = {}
    BY <1>8 DEF FiniRest, Table
  <2>2. \A u \in Thread : call[u].op # "log" /\ pc[u] # "emit"
    BY <1>8, <2>1 DEF FiniRest
  <2>3. \A u \in Thread : pc'[u] # "fini"
    BY <1>8 DEF FiniRest
  <2> QED
    BY <1>8, <2>1, <2>2, <2>3 DEF FiniRest, DefaultAfterFini
<1> QED
  BY <1>1, <1>3, <1>4, <1>5, <1>6, <1>7, <1>8 DEF WriteStep

LEMMA NextUseInv == IInv /\ UseInv /\ [Next]_vars => UseInv'
<1> SUFFICES ASSUME IInv, UseInv, [Next]_vars
             PROVE  UseInv'
  OBVIOUS
<1>1. CASE UNCHANGED vars
  BY <1>1 DEF vars, envVars, catVars, reloadVars, UseInv, UpdateInv, TableInv, HandleInv, CallInv,
              Done, Table
<1>2. ASSUME NEW t \in Thread, Start(t) \/ Continue(t)
      PROVE  UseInv'
  <2>1. UpdateInv'
    BY <1>2, UpdateKept DEF UseInv
  <2>2. TableInv' /\ HandleInv' /\ CallInv'
    BY <1>2, StartKept, WriteKept, ReloadKept, ReadKept DEF Continue
  <2> QED
    BY <2>1, <2>2 DEF UseInv
<1> QED
  BY <1>1, <1>2 DEF Next, Exhausted

THEOREM UseInvariance == Spec => []UseInv
<1>1. Init => UseInv
  BY DEF Init, UseInv, UpdateInv, TableInv, HandleInv, CallInv, Table, NoCall, LogCall, DefaultCall
<1> QED
  BY <1>1, NextUseInv, Invariance, PTL DEF Spec

-----------------------------------------------------------------------------
\* Of an initialised library only a reload that succeeds moves the version.
LEMMA VersionMoves ==
  ASSUME IInv, NEW t \in Thread, Start(t) \/ Continue(t), is_init, init_version' # init_version
  PROVE  ReloadCommit(t)
<1>1. ~Start(t) /\ ~ReadStep(t)
  BY DEF Start, StartCategoryCall, StartPlainCall, StartWrite, StartRead, LogCheck,
     VdlogCheck, ThreadExit, ReadStep, RdLock, NotAdmitted, FetchThread, FetchFails, Emit,
     EmitFails, EmitWild, CountWrite, CountRead, RdUnlock, envVars
<1>2. ~WriteStep(t)
  BY DEF WriteStep, Refused, InitDone, InitFailed, DinitFailed, Fetched, FetchFailed,
     SetRecord, SetRecordFailed, FiniTable, FiniRest, envVars
<1> QED
  BY <1>1, <1>2 DEF Continue, ReloadStep, ReloadNotDue, ReloadBegin, ReloadConfFailed, UpdateClear,
     UpdateFill, UpdateFailed, envVars

\* Whatever an earlier reload left behind, the next one that succeeds gives
\* every category the rules and the filter of the new configuration
\* (cdlog_category_update_rules starts from nothing).
THEOREM ReloadsHeal == Spec => ReloadHeals
<1>1. ASSUME IInv, UseInv, [Next]_vars, is_init, init_version' # init_version
      PROVE  \A c \in Table : categories'[c] = CategoryNew(c, env_conf')
  <2>1. ~UNCHANGED vars
    BY <1>1 DEF vars, envVars
  <2>2. PICK t \in Thread : Start(t) \/ Continue(t)
    BY <1>1, <2>1 DEF Next, Exhausted
  <2>3. ReloadCommit(t)
    BY <1>1, <2>2, VersionMoves
  <2>4. \A c \in Table : Done(c)
    BY <1>1, <2>3 DEF ReloadCommit, UseInv, UpdateInv
  <2>5. ASSUME NEW c \in Table
        PROVE  categories'[c] = CategoryNew(c, env_conf')
    <3>1. c \in Cat /\ categories[c] \in Category
      BY <1>1 DEF Table, IInv, TypeOK
    <3>2. categories'[c] = [categories[c] EXCEPT !.backup = NullGen] /\ env_conf' = new_conf
      BY <2>3, <3>1 DEF ReloadCommit
    <3>3. categories[c].fit = new_conf.gen /\ categories[c].bitmap = new_conf.levels[c]
      BY <2>4 DEF Done
    <3> QED
      BY <3>1, <3>2, <3>3 DEF Category, CategoryNew
  <2> QED
    BY <2>5
<1>2. IInv /\ UseInv /\ [Next]_vars =>
        [is_init /\ init_version' # init_version =>
           \A c \in Table : categories'[c] = CategoryNew(c, env_conf')]_vars
  BY <1>1
<1> QED
  BY <1>2, Invariance, UseInvariance, PTL DEF Spec, ReloadHeals

\* The two places where a thread may go through memory that is not there.
LEMMA SegvEntry ==
  ASSUME IInv, NEW t \in Thread, NEW u \in Thread, Start(u) \/ Continue(u),
         pc[t] # "segv", pc'[t] = "segv"
  PROVE  VdlogCheck(t) \/ EmitWild(t)
<1> USE DEF IInv, TypeOK
<1>1. u = t
  BY OthersStay
<1>2. CASE Start(t)
  BY <1>2 DEF Start, StartCategoryCall, StartPlainCall, StartWrite, StartRead, LogCheck, ThreadExit
<1>3. CASE ReadStep(t)
  BY <1>3 DEF ReadStep, RdLock, NotAdmitted, FetchThread, FetchFails, Emit, EmitFails,
     CountWrite, CountRead, RdUnlock
<1>4. ~WriteStep(t)
  BY DEF WriteStep, Refused, InitDone, InitFailed, DinitFailed, Fetched, FetchFailed,
     SetRecord, SetRecordFailed, FiniTable, FiniRest
<1>5. ~ReloadStep(t)
  BY DEF ReloadStep, ReloadNotDue, ReloadBegin, ReloadConfFailed, UpdateClear, UpdateFill,
     UpdateFailed, ReloadCommit
<1> QED
  BY <1>1, <1>2, <1>3, <1>4, <1>5 DEF Continue

\* A thread that keeps the contract and goes through memory it must not is either
\* at the filter of vcdlog's default counterpart, with nothing to go through, or at
\* the output of its message, whose category has not the rules in force.
LEMMA CrashWhere ==
  ASSUME ~UnsetDlog, IInv, UseInv, [Next]_vars, NEW t \in Thread, pc[t] # "segv", pc'[t] = "segv"
  PROVE  \/ pc[t] = "idle" /\ "default" \in failed
         \/ /\ is_init /\ pc[t] = "emit"
            /\ \E c \in Table : categories[c].fit # env_conf.gen
<1>1. ~UNCHANGED vars
  BY DEF vars
<1>2. PICK u \in Thread : Start(u) \/ Continue(u)
  BY <1>1 DEF Next, Exhausted
<1>3. VdlogCheck(t) \/ EmitWild(t)
  BY <1>2, SegvEntry
<1>4. CASE VdlogCheck(t)
  <2>1. ~DefaultLive /\ pc[t] = "idle"
    BY <1>4 DEF VdlogCheck, MayCall, IInv, TypeOK
  <2>2. (default_category # NoCat \/ "default" \in failed) /\ ~FiniPending
    BY <1>4 DEF VdlogCheck
  <2>3. \A v \in Thread : pc[v] # "fini"
    BY <2>2 DEF FiniPending, UseInv, CallInv
  <2>4. default_category # NoCat => default_category \in Table
    BY <2>3 DEF UseInv, TableInv
  <2> QED
    BY <2>1, <2>2, <2>4 DEF DefaultLive, Table
<1>5. CASE EmitWild(t)
  <2>1. pc[t] = "emit" /\ categories[Target(t)].fit # env_conf.gen
    BY <1>5 DEF EmitWild
  <2>2. is_init /\ \A v \in Thread : pc[v] # "fini"
    BY <2>1 DEF IInv, EnvInv, LockInv, TypeOK, WriterPc, ReaderPc
  <2>3. Target(t) \in Table
    <3>1. CASE call[t].op \in DefaultCall
      BY <2>1, <2>2, <3>1 DEF UseInv, CallInv, TableInv, Target
    <3>2. CASE call[t].op = "log"
      BY <3>2 DEF UseInv, HandleInv, Target, DefaultCall
    <3> QED
      BY <2>1, <3>1, <3>2 DEF UseInv, CallInv, LogCall
  <2> QED
    BY <2>1, <2>2, <2>3
<1> QED
  BY <1>3, <1>4, <1>5

\* A message goes out through rules that are not in force only after a reload
\* that failed part of the way.
LEMMA WildNeedsFailure ==
  ASSUME IInv, SettledInv, NEW t \in Thread, pc[t] = "emit", is_init,
         NEW c \in Table, categories[c].fit # env_conf.gen
  PROVE  "reload" \in failed
<1>1. writer = NoThread
  BY DEF IInv, LockInv, ReaderPc
<1>2. CategoryNew(c, env_conf).fit = env_conf.gen
  BY DEF CategoryNew
<1> QED
  BY <1>1, <1>2 DEF SettledInv, Settled

\* An application that keeps the contract is let down only where the last call to
\* choose a default category or the last reload failed (zlog.c:188, 391, 279): nothing
\* else takes the default category, a category or its rules from under a call (the
\* unlocked filters of vcdlog and vdcdlog against the calls that hold the write
\* lock).
THEOREM CrashesNeedFailure ==
  ASSUME ~UnsetDlog
  PROVE  Spec => CrashNeedsFailure
<1>1. IInv /\ UseInv /\ SettledInv /\ [Next]_vars =>
        [\A t \in Thread : pc[t] # "segv" /\ pc'[t] = "segv" =>
           \/ pc[t] = "idle" /\ "default" \in failed
           \/ pc[t] = "emit" /\ "reload" \in failed]_vars
  BY CrashWhere, WildNeedsFailure
<1> QED
  BY <1>1, InitSettledInv, NextSettledInv, Invariance, UseInvariance, PTL
     DEF Spec, CrashNeedsFailure

\* An application makes only the calls it makes.
OpInv == \A t \in Thread : call[t].op \in {"dinit", "setdef"} => call[t].op \in Api

LEMMA NextOpInv == IInv /\ OpInv /\ [Next]_vars => OpInv'
<1> SUFFICES ASSUME IInv, OpInv, [Next]_vars PROVE OpInv'
  OBVIOUS
<1> USE DEF IInv, TypeOK, OpInv
<1>1. ASSUME NEW t \in Thread, Start(t)
      PROVE  OpInv'
  <2>1. CASE StartCategoryCall(t) \/ StartPlainCall(t)
    BY <2>1 DEF StartCategoryCall, StartPlainCall, StartWrite, MayCall
  <2>2. CASE (\E op \in {"dlog", "mdc"} : StartRead(t, op)) \/ VdlogCheck(t)
    BY <2>2 DEF StartRead, VdlogCheck
  <2>3. CASE (\E c \in Cat : LogCheck(t, c)) \/ ThreadExit(t)
    BY <2>3 DEF LogCheck, ThreadExit
  <2> QED
    BY <1>1, <2>1, <2>2, <2>3 DEF Start
<1>2. ASSUME NEW t \in Thread, WriteStep(t)
      PROVE  OpInv'
  BY <1>2 DEF WriteStep, Refused, InitDone, InitFailed, DinitFailed, Fetched, FetchFailed,
     SetRecord, SetRecordFailed, FiniTable, FiniRest, NoCall
<1>3. ASSUME NEW t \in Thread, ReloadStep(t)
      PROVE  OpInv'
  <2>1. \A u \in Thread : u # t => call'[u] = call[u]
    BY <1>3 DEF ReloadStep, ReloadNotDue, ReloadConfFailed, ReloadBegin, UpdateClear, UpdateFill,
           UpdateFailed, ReloadCommit
  <2>2. CASE \E c \in Cat : UpdateClear(t, c)
    <3>1. call'[t].op = call[t].op
      BY <2>2 DEF UpdateClear
    <3> QED
      BY <2>1, <3>1
  <2>3. CASE UpdateFill(t) \/ \E content \in Contents : ReloadBegin(t, content)
    BY <2>3 DEF UpdateFill, ReloadBegin
  <2>4. CASE \/ ReloadNotDue(t) \/ ReloadConfFailed(t) \/ ReloadCommit(t)
             \/ \E some \in SUBSET Level : UpdateFailed(t, some)
    <3>1. call' = [call EXCEPT ![t] = NoCall]
      BY <2>4 DEF ReloadNotDue, ReloadConfFailed, ReloadCommit, UpdateFailed
    <3> QED
      BY <3>1 DEF NoCall
  <2> QED
    BY <1>3, <2>2, <2>3, <2>4 DEF ReloadStep
<1>4. ASSUME NEW t \in Thread, ReadStep(t)
      PROVE  OpInv'
  <2>1. \A u \in Thread : u # t => call'[u] = call[u]
    BY <1>4 DEF ReadStep, RdLock, NotAdmitted, FetchThread, FetchFails, Emit, EmitFails, EmitWild,
           CountWrite, CountRead, RdUnlock
  <2>2. call'[t].op = call[t].op \/ call'[t].op \in {"none", "auto"}
    <3>1. CASE CountWrite(t)
      BY <3>1 DEF CountWrite, NoCall
    <3>2. CASE ~CountWrite(t)
      BY <1>4, <3>2 DEF ReadStep, RdLock, NotAdmitted, FetchThread, FetchFails, Emit, EmitFails,
         EmitWild, CountRead, RdUnlock, NoCall
    <3> QED
      BY <3>1, <3>2
  <2> QED
    BY <2>1, <2>2
<1>5. CASE UNCHANGED vars
  BY <1>5 DEF vars
<1> QED
  BY <1>1, <1>2, <1>3, <1>4, <1>5 DEF Next, Continue, Exhausted

\* The application makes a call that chooses a default category and that may find
\* no memory for it, or no configuration to go with it.
ChoiceMayFail ==
  \/ "category" \in Fails /\ Api \cap {"dinit", "setdef"} # {}
  \/ "conf" \in Fails /\ "dinit" \in Api

\* Nothing else leaves an application without the default it has asked for.
LEMMA ChoiceFails ==
  ASSUME ~ChoiceMayFail, IInv, OpInv, "default" \notin failed, [Next]_vars
  PROVE  "default" \notin failed'
<1>1. ASSUME NEW t \in Thread, Start(t) \/ ReadStep(t)
      PROVE  failed' = failed
  BY <1>1 DEF Start, StartCategoryCall, StartPlainCall, StartWrite, StartRead, LogCheck, VdlogCheck,
     ThreadExit, ReadStep, RdLock, NotAdmitted, FetchThread, FetchFails, Emit, EmitFails,
     EmitWild, CountWrite, CountRead, RdUnlock
<1>2. ASSUME NEW t \in Thread, WriteStep(t)
      PROVE  failed' \subseteq failed
  <2>1. /\ ~(FetchFailed(t) /\ call[t].op = "setdef")
        /\ ~(InitFailed(t) /\ call[t].op = "dinit")
        /\ ~\E content \in Contents : DinitFailed(t, content)
    BY DEF FetchFailed, InitFailed, DinitFailed, Requests, OpInv, ChoiceMayFail
  <2> QED
    BY <1>2, <2>1 DEF WriteStep, Refused, InitDone, InitFailed, Fetched, FetchFailed,
       SetRecord, SetRecordFailed, FiniTable, FiniRest
<1>3. ASSUME NEW t \in Thread, ReloadStep(t)
      PROVE  failed' \subseteq failed \cup {"reload"}
  BY <1>3 DEF ReloadStep, ReloadNotDue, ReloadBegin, ReloadConfFailed, UpdateClear, UpdateFill,
     UpdateFailed, ReloadCommit
<1>4. CASE UNCHANGED vars
  BY <1>4 DEF vars
<1> QED
  BY <1>1, <1>2, <1>3, <1>4 DEF Next, Continue, Exhausted

\* ... so as long as no update of a category runs out of memory, and no call that
\* chooses a default category may fail, no call goes through memory that is NULL or
\* freed, whatever else fails.
THEOREM NothingCrashes ==
  ASSUME ~UnsetDlog, "update" \notin Fails, ~ChoiceMayFail
  PROVE  Spec => []NoCrash
<1> DEFINE NeverFailed == "reload" \notin failed /\ "default" \notin failed
<1>1. Init => NoCrash /\ NeverFailed /\ OpInv
  BY DEF Init, NoCrash, OpInv, NoCall
<1>2. IInv /\ OpInv /\ NeverFailed /\ [Next]_vars => NeverFailed'
  BY ReloadFails, ChoiceFails
<1>3. IInv /\ UseInv /\ SettledInv /\ NeverFailed /\ NoCrash /\ [Next]_vars => NoCrash'
  BY CrashWhere, WildNeedsFailure DEF NoCrash
<1> HIDE DEF NeverFailed
<1> QED
  BY <1>1, <1>2, <1>3, NextOpInv, InitSettledInv, NextSettledInv, Invariance, UseInvariance, PTL
     DEF Spec

=============================================================================
