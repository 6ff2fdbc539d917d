------------------------------ MODULE CdlogEnv ------------------------------
(***************************************************************************)
(* The process-wide environment of cdlog (src/zlog.c) with the categories  *)
(* (src/category.c, src/category_table.c) and the per-thread structures    *)
(* (src/thread.c) it governs.  Threads call the public API; everything but *)
(* the fast-path filters of the logging calls runs under the read-write    *)
(* lock cdlog_env_lock.  A call that takes the write lock and changes      *)
(* nothing an unlocked reader can see half-done is one step; a reload is   *)
(* one step per category and per half of its bitmap rewrite, because the   *)
(* filter of vcdlog reads that bitmap outside the lock.                    *)
(***************************************************************************)
EXTENDS Integers, FiniteSets

CONSTANTS
  Thread,    \* threads of the process
  Cat,       \* category names
  Level,     \* log levels an application uses
  RName,     \* names of user-defined output functions
  Contents,  \* what a configuration file may say: a set of records with fields
             \* buf, caches, period and levels (levels[c]: what the rules that
             \* match c let through)
  Fails,     \* the allocations and checks that may fail, subset of FailPoint
  Api,       \* the calls this application makes, subset of ApiCall
  UnsetDlog, \* TRUE: vdcdlog may be called before a default category has been
             \* chosen, or while another thread is inside cdlog_fini
  MaxGen,    \* bound: configurations built in a behaviour
  NoThread, NoCat, NoConf, NoTls   \* the null values

FailPoint == {"conf", "update", "category", "record", "thread", "buf", "event", "write"}

\* Messages through the default category: dcdlog, and vdcdlog or hdcdlog.
DefaultCall == {"dlog", "vdlog"}

LogCall == {"log"} \cup DefaultCall

WriteCall == {"init", "dinit", "fini", "get", "setdef", "record", "reload", "auto"}

ApiCall == (WriteCall \ {"auto"}) \cup LogCall \cup {"mdc", "exit"}

Content == [buf : Nat, caches : Nat, period : Nat, levels : [Cat -> SUBSET Level]]

ASSUME ContentsAssumption == Contents \subseteq Content

ASSUME FailsAssumption == Fails \subseteq FailPoint

ASSUME ApiAssumption == Api \subseteq ApiCall

ASSUME BoundAssumption == MaxGen \in Nat

ASSUME UnsetDlogAssumption == UnsetDlog \in BOOLEAN

VARIABLES
  \* cdlog_env_lock
  writer,             \* the thread that holds the write lock
  readers,            \* the threads that hold the read lock
  \* the environment
  is_init, init_version,
  env_conf,           \* the installed configuration
  new_conf,           \* the one a reload is building
  categories,         \* the category table
  default_category,   \* a name, or NULL
  env_records,        \* names registered with cdlog_set_record
  reload_conf_count,
  \* the threads
  pc,                 \* where each thread is in its call
  call,               \* its call: [op, cat, n]
  tls,                \* its cdlog_thread_t
  todo,               \* categories the running reload has still to update
  \* history
  gens,               \* configurations built so far
  since,              \* messages counted since the last reload
  failed              \* "reload": the last one failed half-way; "default": so did
                      \* the last call that was to choose a default category

lockVars == <<writer, readers>>
envVars == <<is_init, init_version, env_conf, env_records>>
catVars == <<categories, default_category>>
reloadVars == <<new_conf, todo>>
countVars == <<reload_conf_count, since>>
vars == <<lockVars, envVars, catVars, reloadVars, countVars, pc, call, tls, gens, failed>>

-----------------------------------------------------------------------------
NullGen == 0    \* fit_rules or fit_rules_backup is NULL

Conf == [gen : Nat, buf : Nat, caches : Nat, period : Nat,
         levels : [Cat -> SUBSET Level], bound : SUBSET RName]

\* fit: the configuration whose rules fit_rules points into.
Category == [fit : Nat, bitmap : SUBSET Level, backup : Nat]

Tls == [ver : Nat, buf : Nat, caches : Nat]

ASSUME NullAssumption ==
  /\ NoThread \notin Thread
  /\ NoCat \notin Cat
  /\ NoCat \notin Category
  /\ NoConf \notin Conf
  /\ NoTls \notin Tls

NoCall == [op |-> "none", cat |-> NoCat, n |-> 0]

WriterPc == {"update", "fill", "fini"}

ReaderPc == {"fetch", "emit", "count", "incr", "unlock"}

Pc == WriterPc \cup ReaderPc \cup {"idle", "wrwait", "rdwait", "segv"}

Table == {c \in Cat : categories[c] # NoCat}

Busy == {t \in Thread : pc[t] # "idle"}

\* conf.c reads the file and parses it into rules, buffer sizes and the
\* number of time caches the rules' formats need.
NewConf(content, bound) ==
  [gen |-> gens + 1, buf |-> content.buf, caches |-> content.caches,
   period |-> content.period, levels |-> content.levels, bound |-> bound]

\* cdlog_category_new, for a configuration conf: collect the matching rules.
CategoryNew(c, conf) ==
  [fit |-> conf.gen, bitmap |-> conf.levels[c], backup |-> NullGen]

Free == writer = NoThread /\ readers = {}

Init ==
  /\ writer = NoThread
  /\ readers = {}
  /\ is_init = FALSE
  /\ init_version = 0
  /\ env_conf = NoConf
  /\ new_conf = NoConf
  /\ categories = [c \in Cat |-> NoCat]
  /\ default_category = NoCat
  /\ env_records = {}
  /\ reload_conf_count = 0
  /\ pc = [t \in Thread |-> "idle"]
  /\ call = [t \in Thread |-> NoCall]
  /\ tls = [t \in Thread |-> NoTls]
  /\ todo = {}
  /\ gens = 0
  /\ since = 0
  /\ failed = {}

-----------------------------------------------------------------------------
(***************************************************************************)
(* Mistakes a change of the code could make in one definition below; the   *)
(* runs' properties notice each of them.                                   *)
(***************************************************************************)
BugVersionAfterInit == IF init_version = 0 THEN 1 ELSE init_version  \* no ++
BugDefaultAfterFini == default_category                               \* not cleared
BugStillDue(t) == call[t] = call[t]                                   \* not tested again
BugBoundOnReload == {}                                                \* not bound again
BugToUpdate == {c \in Table : categories[c].fit # NullGen}            \* skips a broken one
BugCleared(category) ==                                               \* no memset
  [fit |-> NullGen, bitmap |-> category.bitmap, backup |-> category.fit]
BugRemaining(c) == todo                                               \* the loop starts over
BugHalfRebuilt(thread) ==                                             \* version set too early
  [thread EXCEPT !.buf = env_conf.buf, !.ver = init_version]
BugIncremented(count) == count - 1

-----------------------------------------------------------------------------
(***************************************************************************)
(* Entering and leaving a call.                                            *)
(***************************************************************************)
Goto(t, where) == pc' = [pc EXCEPT ![t] = where]

Return(t) ==
  /\ Goto(t, "idle")
  /\ call' = [call EXCEPT ![t] = NoCall]

\* Each call under way may still build a configuration, so a call starts only
\* while the bound leaves room for its own.
MayCall(t, op) ==
  /\ pc[t] = "idle"
  /\ op \in Api
  /\ gens + Cardinality(Busy) < MaxGen

FiniPending == \E t \in Thread : call[t].op = "fini"

\* The handles cdlog_fini releases are the application's to drop: it calls
\* cdlog_fini when no other thread is inside a call made with one.
MayFini(t) ==
  \A u \in Thread \ {t} :
    call[u].op # "log" /\ (call[u].op = "vdlog" => UnsetDlog)

StartWrite(t, op, c) ==
  /\ MayCall(t, op)
  /\ op = "fini" => MayFini(t)
  /\ Goto(t, "wrwait")
  /\ call' = [call EXCEPT ![t] = [op |-> op, cat |-> c, n |-> 0]]
  /\ UNCHANGED <<lockVars, envVars, catVars, reloadVars, countVars, tls, gens, failed>>

\* A call that names a category: dcdlog_init, cdlog_get_category and
\* dcdlog_set_category.
StartCategoryCall(t) ==
  \E op \in {"dinit", "get", "setdef"}, c \in Cat : StartWrite(t, op, c)

StartPlainCall(t) ==
  \E op \in {"init", "fini", "record", "reload"} : StartWrite(t, op, NoCat)

\* dcdlog and the calls on the diagnostic context take the read lock straight
\* away.
StartRead(t, op) ==
  /\ op \in {"dlog", "mdc"}
  /\ MayCall(t, op)
  /\ Goto(t, "rdwait")
  /\ call' = [call EXCEPT ![t].op = op]
  /\ UNCHANGED <<lockVars, envVars, catVars, reloadVars, countVars, tls, gens, failed>>

\* vcdlog and hcdlog, up to the lock: cdlog_category_needless_level reads the
\* bitmap without it.  A level whose bit is clear returns at once, changing
\* nothing; a level whose bit is set goes on to the read lock.
LogCheck(t, c) ==
  /\ MayCall(t, "log")
  /\ c \in Table /\ ~FiniPending
  /\ categories[c].bitmap # {}
  /\ Goto(t, "rdwait")
  /\ call' = [call EXCEPT ![t] = [op |-> "log", cat |-> c, n |-> 0]]
  /\ UNCHANGED <<lockVars, envVars, catVars, reloadVars, countVars, tls, gens, failed>>

\* vdcdlog and hdcdlog: the filter goes through cdlog_default_category, which
\* may be NULL or point into a table that cdlog_fini has freed.  The application
\* chooses a default category first, by a dcdlog_init or dcdlog_set_category that
\* may have failed.
DefaultLive == default_category # NoCat /\ categories[default_category] # NoCat

VdlogCheck(t) ==
  /\ MayCall(t, "vdlog")
  /\ \/ UnsetDlog
     \/ (default_category # NoCat \/ "default" \in failed) /\ ~FiniPending
  /\ DefaultLive => categories[default_category].bitmap # {}
  /\ Goto(t, IF DefaultLive THEN "rdwait" ELSE "segv")
  /\ call' = [call EXCEPT ![t].op = "vdlog"]
  /\ UNCHANGED <<lockVars, envVars, catVars, reloadVars, countVars, tls, gens, failed>>

\* The key's destructor runs cdlog_thread_del when a thread ends; a new thread
\* takes its place.
ThreadExit(t) ==
  /\ MayCall(t, "exit")
  /\ tls[t] # NoTls
  /\ tls' = [tls EXCEPT ![t] = NoTls]
  /\ UNCHANGED <<lockVars, envVars, catVars, reloadVars, countVars, pc, call, gens, failed>>

-----------------------------------------------------------------------------
(***************************************************************************)
(* Calls that hold the write lock for one step.                            *)
(***************************************************************************)
Requests(t, op) == pc[t] = "wrwait" /\ call[t].op = op /\ Free

\* A call that finds the library in the wrong state only logs an error.
Refused(t) ==
  /\ \/ \E op \in {"init", "dinit"} : Requests(t, op) /\ is_init
     \/ \E op \in {"fini", "get", "setdef", "record", "reload", "auto"} :
          Requests(t, op) /\ ~is_init
  /\ Return(t)
  /\ UNCHANGED <<lockVars, envVars, catVars, reloadVars, countVars, tls, gens, failed>>

\* cdlog_init_inner up to cdlog_conf_new: the first call of the process also
\* creates the thread key and moves the version on.
VersionAfterInner == IF init_version = 0 THEN 1 ELSE init_version

VersionAfterInit == VersionAfterInner + 1

\* cdlog_init, and dcdlog_init whose category c can be created.
InitDone(t, content) ==
  LET conf == NewConf(content, {})
      c == call[t].cat IN
  /\ Requests(t, "init") \/ Requests(t, "dinit")
  /\ ~is_init
  /\ is_init' = TRUE
  /\ init_version' = VersionAfterInit
  /\ env_conf' = conf
  /\ env_records' = {}
  /\ gens' = gens + 1
  /\ categories' = [d \in Cat |-> IF d = c THEN CategoryNew(d, conf) ELSE NoCat]
  /\ IF call[t].op = "dinit"
       THEN default_category' = c /\ failed' = failed \ {"default"}
       ELSE UNCHANGED <<default_category, failed>>
  /\ Return(t)
  /\ UNCHANGED <<lockVars, reloadVars, countVars, tls>>

\* cdlog_conf_new or a table fails: cdlog_fini_inner releases what there is.
InitFailed(t) ==
  /\ Requests(t, "init") \/ Requests(t, "dinit")
  /\ ~is_init
  /\ "conf" \in Fails
  /\ init_version' = VersionAfterInner
  /\ env_conf' = NoConf
  /\ env_records' = {}
  /\ categories' = [c \in Cat |-> NoCat]
  /\ default_category' = NoCat
  /\ failed' = IF call[t].op = "dinit" THEN failed \cup {"default"} ELSE failed
  /\ Return(t)
  /\ UNCHANGED <<lockVars, is_init, reloadVars, countVars, tls, gens>>

\* dcdlog_init whose category cannot be created: the configuration and the
\* tables stay, though the library is not initialised.
DinitFailed(t, content) ==
  /\ Requests(t, "dinit")
  /\ ~is_init
  /\ "category" \in Fails
  /\ init_version' = VersionAfterInner
  /\ env_conf' = NewConf(content, {})
  /\ env_records' = {}
  /\ gens' = gens + 1
  /\ categories' = [c \in Cat |-> NoCat]
  /\ default_category' = NoCat
  /\ failed' = failed \cup {"default"}
  /\ Return(t)
  /\ UNCHANGED <<lockVars, is_init, reloadVars, countVars, tls>>

\* cdlog_get_category and dcdlog_set_category: find or create.
Fetched(t, c) ==
  /\ Requests(t, "get") \/ Requests(t, "setdef")
  /\ is_init
  /\ c = call[t].cat
  /\ categories' = [categories EXCEPT ![c] = IF @ = NoCat THEN CategoryNew(c, env_conf) ELSE @]
  /\ IF call[t].op = "setdef"
       THEN default_category' = c /\ failed' = failed \ {"default"}
       ELSE UNCHANGED <<default_category, failed>>
  /\ Return(t)
  /\ UNCHANGED <<lockVars, envVars, reloadVars, countVars, tls, gens>>

\* The category cannot be created: a NULL result, which dcdlog_set_category
\* has already stored in cdlog_default_category.
FetchFailed(t) ==
  /\ Requests(t, "get") \/ Requests(t, "setdef")
  /\ is_init
  /\ "category" \in Fails
  /\ categories[call[t].cat] = NoCat
  /\ IF call[t].op = "setdef"
       THEN default_category' = NoCat /\ failed' = failed \cup {"default"}
       ELSE UNCHANGED <<default_category, failed>>
  /\ Return(t)
  /\ UNCHANGED <<lockVars, envVars, categories, reloadVars, countVars, tls, gens>>

\* cdlog_set_record: register the function, then bind it in every rule.
SetRecord(t, r) ==
  /\ Requests(t, "record")
  /\ is_init
  /\ env_records' = env_records \cup {r}
  /\ env_conf' = [env_conf EXCEPT !.bound = env_records']
  /\ Return(t)
  /\ UNCHANGED <<lockVars, is_init, init_version, catVars, reloadVars, countVars, tls, gens, failed>>

SetRecordFailed(t) ==
  /\ Requests(t, "record")
  /\ is_init
  /\ "record" \in Fails
  /\ Return(t)
  /\ UNCHANGED <<lockVars, envVars, catVars, reloadVars, countVars, tls, gens, failed>>

DefaultAfterFini == NoCat

\* cdlog_fini: the table goes first, then cdlog_default_category is cleared;
\* an unlocked dcdlog can run in between.
FiniTable(t) ==
  /\ Requests(t, "fini")
  /\ is_init
  /\ writer' = t
  /\ Goto(t, "fini")
  /\ categories' = [c \in Cat |-> NoCat]
  /\ UNCHANGED <<readers, envVars, default_category, reloadVars, countVars, call, tls, gens, failed>>

FiniRest(t) ==
  /\ pc[t] = "fini"
  /\ writer' = NoThread
  /\ is_init' = FALSE
  /\ default_category' = DefaultAfterFini
  /\ env_records' = {}
  /\ env_conf' = NoConf
  /\ failed' = {}
  /\ Return(t)
  /\ UNCHANGED <<readers, init_version, categories, reloadVars, countVars, tls, gens>>

-----------------------------------------------------------------------------
(***************************************************************************)
(* cdlog_reload.                                                           *)
(***************************************************************************)
\* An automatic reload tests the counter again: another thread may have
\* reloaded since this one left the read lock.
StillDue(t) == call[t].op = "auto" => reload_conf_count > env_conf.period

ReloadRequested(t) ==
  /\ Requests(t, "reload") \/ Requests(t, "auto")
  /\ is_init

ReloadNotDue(t) ==
  /\ ReloadRequested(t)
  /\ ~StillDue(t)
  /\ Return(t)
  /\ UNCHANGED <<lockVars, envVars, catVars, reloadVars, countVars, tls, gens, failed>>

ResetCount ==
  /\ reload_conf_count' = 0
  /\ since' = 0

\* The records the new rules are bound to, and the categories to update.
BoundOnReload == env_records

ToUpdate == Table

\* The new configuration is read and its rules are bound.
ReloadBegin(t, content) ==
  /\ ReloadRequested(t)
  /\ StillDue(t)
  /\ ResetCount
  /\ gens' = gens + 1
  /\ new_conf' = NewConf(content, BoundOnReload)
  /\ todo' = ToUpdate
  /\ writer' = t
  /\ Goto(t, "update")
  /\ UNCHANGED <<readers, envVars, catVars, call, tls, failed>>

ReloadConfFailed(t) ==
  /\ ReloadRequested(t)
  /\ StillDue(t)
  /\ "conf" \in Fails
  /\ ResetCount
  /\ Return(t)
  /\ UNCHANGED <<lockVars, envVars, catVars, reloadVars, tls, gens, failed>>

\* cdlog_category_update_rules, first half: the rules move to the backup and
\* the bitmap is cleared.
Cleared(category) == [fit |-> NullGen, bitmap |-> {}, backup |-> category.fit]

UpdateClear(t, c) ==
  /\ pc[t] = "update"
  /\ c \in todo
  /\ categories' = [categories EXCEPT ![c] = Cleared(@)]
  /\ call' = [call EXCEPT ![t].cat = c]
  /\ Goto(t, "fill")
  /\ UNCHANGED <<lockVars, envVars, default_category, reloadVars, countVars, tls, gens, failed>>

Remaining(c) == todo \ {c}

\* Second half: the matching rules are collected and their bitmaps merged.
UpdateFill(t) ==
  LET c == call[t].cat IN
  /\ pc[t] = "fill"
  /\ categories' = [categories EXCEPT ![c].fit = new_conf.gen,
                                      ![c].bitmap = @ \cup new_conf.levels[c]]
  /\ todo' = Remaining(c)
  /\ Goto(t, "update")
  /\ UNCHANGED <<lockVars, envVars, default_category, new_conf, countVars, call, tls, gens, failed>>

\* It runs out of memory part of the way: the rules merged so far stay in the
\* bitmap, the new configuration is freed and c_up = 0 skips the rollback.
UpdateFailed(t, some) ==
  LET c == call[t].cat IN
  /\ pc[t] = "fill"
  /\ "update" \in Fails
  /\ some \subseteq new_conf.levels[c]
  /\ categories' = [categories EXCEPT ![c].bitmap = @ \cup some]
  /\ todo' = {}
  /\ new_conf' = NoConf
  /\ writer' = NoThread
  /\ failed' = failed \cup {"reload"}
  /\ Return(t)
  /\ UNCHANGED <<readers, envVars, default_category, countVars, tls, gens>>

VersionAfterReload == init_version + 1

\* Every category is updated: commit, free the old configuration, install.
ReloadCommit(t) ==
  /\ pc[t] = "update"
  /\ todo = {}
  /\ init_version' = VersionAfterReload
  /\ categories' = [c \in Cat |-> IF c \in Table THEN [categories[c] EXCEPT !.backup = NullGen]
                                  ELSE NoCat]
  /\ env_conf' = new_conf
  /\ new_conf' = NoConf
  /\ writer' = NoThread
  /\ failed' = failed \ {"reload"}
  /\ Return(t)
  /\ UNCHANGED <<readers, is_init, env_records, default_category, todo, countVars, tls, gens>>

-----------------------------------------------------------------------------
(***************************************************************************)
(* Calls under the read lock.                                              *)
(***************************************************************************)
RdLock(t) ==
  /\ pc[t] = "rdwait"
  /\ writer = NoThread
  /\ readers' = readers \cup {t}
  /\ Goto(t, "fetch")
  /\ UNCHANGED <<writer, envVars, catVars, reloadVars, countVars, call, tls, gens, failed>>

\* The tests made once the lock is held.
Admitted(t) == is_init /\ (call[t].op \in DefaultCall => default_category # NoCat)

\* dcdlog reads the bitmap here, under the lock: levels whose bit is clear go no
\* further.
Stopped(t) == call[t].op = "dlog" /\ categories[default_category].bitmap # Level

LetThrough(t) == call[t].op = "dlog" => categories[default_category].bitmap # {}

\* cdlog_get_mdc, cdlog_remove_mdc and cdlog_clean_mdc leave the structure they
\* find, whatever its version.
NotAdmitted(t) ==
  /\ pc[t] = "fetch"
  /\ Admitted(t) => Stopped(t) \/ call[t].op = "mdc"
  /\ Goto(t, "unlock")
  /\ UNCHANGED <<lockVars, envVars, catVars, reloadVars, countVars, call, tls, gens, failed>>

FreshTls == [ver |-> init_version, buf |-> env_conf.buf, caches |-> env_conf.caches]

\* cdlog_fetch_thread: create the structure, or bring it up to the version of
\* the environment.
FetchThread(t) ==
  /\ pc[t] = "fetch"
  /\ Admitted(t)
  /\ LetThrough(t)
  /\ tls' = [tls EXCEPT ![t] = IF @ # NoTls /\ @.ver = init_version THEN @ ELSE FreshTls]
  /\ Goto(t, IF call[t].op = "mdc" THEN "unlock" ELSE "emit")
  /\ UNCHANGED <<lockVars, envVars, catVars, reloadVars, countVars, call, gens, failed>>

\* The buffers are replaced, the event is not.
HalfRebuilt(thread) == [thread EXCEPT !.buf = env_conf.buf]

\* It gives up: no structure at all, new buffers that cannot be had, or new
\* buffers in place but no new event.  The version stays behind.
FetchFails(t) ==
  /\ pc[t] = "fetch"
  /\ Admitted(t)
  /\ LetThrough(t)
  /\ \/ /\ tls[t] = NoTls
        /\ "thread" \in Fails
        /\ tls' = tls
     \/ /\ tls[t] # NoTls
        /\ tls[t].ver # init_version
        /\ tls[t].buf # env_conf.buf
        /\ "buf" \in Fails
        /\ tls' = tls
     \/ /\ tls[t] # NoTls
        /\ tls[t].ver # init_version
        /\ "event" \in Fails
        /\ tls' = [tls EXCEPT ![t] = HalfRebuilt(@)]
  /\ Goto(t, "unlock")
  /\ UNCHANGED <<lockVars, envVars, catVars, reloadVars, countVars, call, gens, failed>>

\* The category whose rules a logging call goes through.
Target(t) == IF call[t].op \in DefaultCall THEN default_category ELSE call[t].cat

\* cdlog_category_output: only with rules of a configuration that is still
\* there is the outcome the program's own.
Emit(t) ==
  /\ pc[t] = "emit"
  /\ categories[Target(t)].fit = env_conf.gen
  /\ Goto(t, IF env_conf.period = 0 THEN "unlock" ELSE "count")
  /\ UNCHANGED <<lockVars, envVars, catVars, reloadVars, countVars, call, tls, gens, failed>>

\* The last rule's output fails: the message is not counted.
EmitFails(t) ==
  /\ pc[t] = "emit"
  /\ categories[Target(t)].fit = env_conf.gen
  /\ "write" \in Fails
  /\ Goto(t, "unlock")
  /\ UNCHANGED <<lockVars, envVars, catVars, reloadVars, countVars, call, tls, gens, failed>>

\* fit_rules is NULL or holds rules that were freed.
EmitWild(t) ==
  /\ pc[t] = "emit"
  /\ categories[Target(t)].fit # env_conf.gen
  /\ Goto(t, "segv")
  /\ UNCHANGED <<lockVars, envVars, catVars, reloadVars, countVars, call, tls, gens, failed>>

\* ++cdlog_env_reload_conf_count under a shared lock: a read ...
CountRead(t) ==
  /\ pc[t] = "count"
  /\ call' = [call EXCEPT ![t].n = reload_conf_count]
  /\ Goto(t, "incr")
  /\ UNCHANGED <<lockVars, envVars, catVars, reloadVars, countVars, tls, gens, failed>>

Incremented(count) == count + 1

\* ... and a write.  Past the period, the call ends with an automatic reload.
CountWrite(t) ==
  LET n == Incremented(call[t].n) IN
  /\ pc[t] = "incr"
  /\ reload_conf_count' = n
  /\ since' = since + 1
  /\ call' = [call EXCEPT ![t] = IF n > env_conf.period THEN [NoCall EXCEPT !.op = "auto"] ELSE @]
  /\ Goto(t, "unlock")
  /\ UNCHANGED <<lockVars, envVars, catVars, reloadVars, tls, gens, failed>>

RdUnlock(t) ==
  /\ pc[t] = "unlock"
  /\ readers' = readers \ {t}
  /\ IF call[t].op = "auto" THEN Goto(t, "wrwait") /\ call' = call ELSE Return(t)
  /\ UNCHANGED <<writer, envVars, catVars, reloadVars, countVars, tls, gens, failed>>

-----------------------------------------------------------------------------
Start(t) ==
  \/ StartCategoryCall(t)
  \/ StartPlainCall(t)
  \/ (\E op \in {"dlog", "mdc"} : StartRead(t, op))
  \/ \E c \in Cat : LogCheck(t, c)
  \/ VdlogCheck(t)
  \/ ThreadExit(t)

WriteStep(t) ==
  \/ Refused(t)
  \/ \E content \in Contents : InitDone(t, content) \/ DinitFailed(t, content)
  \/ InitFailed(t)
  \/ \E c \in Cat : Fetched(t, c)
  \/ FetchFailed(t)
  \/ \E r \in RName : SetRecord(t, r)
  \/ SetRecordFailed(t)
  \/ FiniTable(t)
  \/ FiniRest(t)

ReloadStep(t) ==
  \/ ReloadNotDue(t)
  \/ \E content \in Contents : ReloadBegin(t, content)
  \/ ReloadConfFailed(t)
  \/ \E c \in Cat : UpdateClear(t, c)
  \/ UpdateFill(t)
  \/ \E some \in SUBSET Level : UpdateFailed(t, some)
  \/ ReloadCommit(t)

ReadStep(t) ==
  \/ RdLock(t)
  \/ NotAdmitted(t)
  \/ FetchThread(t)
  \/ FetchFails(t)
  \/ Emit(t)
  \/ EmitFails(t)
  \/ EmitWild(t)
  \/ CountRead(t)
  \/ CountWrite(t)
  \/ RdUnlock(t)

Continue(t) == WriteStep(t) \/ ReloadStep(t) \/ ReadStep(t)

\* The bound is reached and every call has returned.
Exhausted ==
  /\ gens >= MaxGen
  /\ Busy = {}
  /\ UNCHANGED vars

Next == Exhausted \/ \E t \in Thread : Start(t) \/ Continue(t)

Spec == Init /\ [][Next]_vars

\* A thread inside a call keeps running: the scheduler and the lock do not
\* leave it standing while its next step stays possible.
FairSpec == Spec /\ \A t \in Thread : WF_vars(Continue(t))

-----------------------------------------------------------------------------
(***************************************************************************)
(* Properties.                                                             *)
(***************************************************************************)
OpSet == WriteCall \cup LogCall \cup {"mdc", "none"}

\* Every variable has its type.
TypeOK ==
  /\ writer \in Thread \cup {NoThread}
  /\ readers \subseteq Thread
  /\ is_init \in BOOLEAN
  /\ init_version \in Nat
  /\ env_conf \in Conf \cup {NoConf}
  /\ new_conf \in Conf \cup {NoConf}
  /\ categories \in [Cat -> Category \cup {NoCat}]
  /\ default_category \in Cat \cup {NoCat}
  /\ env_records \subseteq RName
  /\ reload_conf_count \in Nat
  /\ pc \in [Thread -> Pc]
  /\ call \in [Thread -> [op : OpSet, cat : Cat \cup {NoCat}, n : Nat]]
  /\ tls \in [Thread -> Tls \cup {NoTls}]
  /\ todo \subseteq Cat
  /\ gens \in Nat
  /\ since \in Nat
  /\ failed \subseteq {"reload", "default"}

\* A thread formats and writes a message only with buffers and time caches made
\* for the configuration in force, whose formats index those caches
\* (cdlog_fetch_thread against cdlog_reload, cdlog_fini and cdlog_init).
FreshThread ==
  \A t \in Thread : pc[t] = "emit" =>
    /\ is_init
    /\ tls[t].ver = init_version
    /\ tls[t].buf = env_conf.buf
    /\ tls[t].caches = env_conf.caches

\* Outside a reload every category outputs through the rules of the installed
\* configuration and its unlocked filter lets through what those rules do
\* ("will be the right value after cdlog_reload()", zlog.c:632).
Settled ==
  writer = NoThread /\ is_init =>
    \A c \in Table : categories[c] = CategoryNew(c, env_conf)

\* No call goes through a NULL or freed default category or through freed
\* rules (vdcdlog, cdlog_category_output).
NoCrash == \A t \in Thread : pc[t] # "segv"

\* While the application keeps to its contract (UnsetDlog is FALSE), a thread
\* goes through memory that is NULL or freed in two places only: in the unlocked
\* filter of vdcdlog when the last dcdlog_init or dcdlog_set_category failed and
\* left NULL in cdlog_default_category (zlog.c:188, 391), and at its output when the
\* last reload failed part of the way (zlog.c:279).  Neither cdlog_fini nor a new
\* init, nor any call that failed and was made good since, pulls anything from
\* under a call.
CrashNeedsFailure ==
  [][\A t \in Thread : pc[t] # "segv" /\ pc'[t] = "segv" =>
       \/ pc[t] = "idle" /\ "default" \in failed
       \/ pc[t] = "emit" /\ "reload" \in failed]_vars

\* The rules in force are bound to every output function the application
\* registered, the ones registered before a reload included.
RecordsBound == is_init => env_conf.bound = env_records

AutoReloads(t) ==
  /\ call[t].op = "auto"
  /\ pc[t] = "wrwait"
  /\ pc'[t] = "update"

\* However many threads pass the period together, no automatic reload happens
\* before the number of messages since the previous reload "reaches the value"
\* (UsersGuide-EN.lyx:1417).  The code even waits for one message more, since it
\* compares with > (zlog.c:664), and starts counting at the last reload only, not,
\* as the guide goes on, at the last initialisation too.
AutoReloadPaced ==
  [][\A t \in Thread : AutoReloads(t) => since >= env_conf.period]_vars

\* A configuration takes force only with a version no thread has seen.
InstallMovesVersion ==
  [][is_init' /\ env_conf' # NoConf /\ (~is_init \/ env_conf.gen # env_conf'.gen) =>
       \A t \in Thread : tls[t] # NoTls => tls[t].ver < init_version']_vars

\* A reload that succeeds puts every category in order, the ones an earlier
\* failed reload left without rules included.
ReloadHeals ==
  [][is_init /\ init_version' # init_version =>
       \A c \in Table : categories'[c] = CategoryNew(c, env_conf')]_vars

\* A logging call, or one on the diagnostic context, returns.
ReaderReturns ==
  \A t \in Thread : (pc[t] = "rdwait" \/ pc[t] \in ReaderPc) ~> pc[t] \in {"idle", "wrwait"}

\* A call that needs the write lock returns, once the application pauses its
\* logging: the lock may prefer readers for as long as they come.
WriterReturns ==
  <>[](readers = {} /\ \A t \in Thread : pc[t] # "rdwait") =>
    \A t \in Thread : pc[t] \in WriterPc \cup {"wrwait"} ~> pc[t] = "idle"
=============================================================================
