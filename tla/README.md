# A verification project for CDLOG

CDLOG is a C logging library, a descendant of zlog. An application initialises
it with a configuration file, fetches a *category* by name, and logs messages
with a level; the *rules* of the configuration decide in which format and where
each message goes. The library is one process-wide environment that all threads
of the application share, with a structure of their own for each thread, and log
files that several processes may share.

This directory holds TLA+ models of that code, TLC configurations that check
them on small instances, and proofs of their main properties that the TLA+
proof system TLAPS checks for every value of the constants. Source
paths below are relative to the repository; `zlog.c` is `src/zlog.c`,
`UsersGuide-EN.lyx` is `doc/UsersGuide-EN.lyx`, and so on.

To check everything: `tlc -config <cfg> <module>` for each line of the table of
runs, and `tlapm <module>` for the modules `*Proofs`.

## 1. The system

### Components

| component | state | operations | in the models |
|---|---|---|---|
| environment, `zlog.c` | the read-write lock, `is_init`, the version, the configuration, the category table, the default category, the registered output functions, the count of messages since a reload | `cdlog_init`, `dcdlog_init`, `cdlog_fini`, `cdlog_reload`, `cdlog_get_category`, `dcdlog_set_category`, `cdlog_set_record`, the logging calls, the calls on the diagnostic context | `CdlogEnv` |
| categories, `category.c`, `category_table.c` | per category its rules, the backup of its rules, the bitmap of levels some rule lets through | creation, update in two halves, commit, rollback, output, `cdlog_level_switch` | `CdlogEnv`; the choice of rules and the bitmap in `Logging` |
| threads, `thread.c` | per thread the version it was made for, two message buffers, two path buffers, an event with its time caches, the diagnostic context | creation, rebuilding after a reload, deletion at thread exit | `CdlogEnv`, `Message` |
| rotation, `rotater.c` | a mutex per process, an fcntl lock between processes, a list of archives | locking, looking again, listing, rolling (`#r`), sequence (`#s`) | `Rotater`, `ArchiveChain` |
| output to files, `rule.c` | a descriptor and an inode kept per rule, or an open per message | the variants of `cdlog_rule_output_*` | `StaticFile`, `Rotater` |
| formatting, `format.c`, `spec.c`, `buf.c` | the text, size and limit of a growing buffer | conversions that write, reformat and copy | `Message`; times and processes in `Logging` |
| rules, `rule.c`; levels, `level.c`, `level_list.c` | level comparison and bitmap of each rule; the list of named levels | making a rule from its line, match of a category, filter | `Rules`, `Conf`, `Logging` |
| configuration, `conf.c` | defaults, levels, formats, rules, in the order of the file's sections | reading in sections, defaults, strictness | `Conf`; complete configurations are an input of `CdlogEnv` |
| event, `event.c` | what one message carries; caches of times, host and process number, kept from message to message | setting up per message, filling the caches | `Logging`; the number of caches in `CdlogEnv` |
| hash table, `zc_hashtable.c` | buckets, doubly linked entries | put, get, remove, clean, walk, rehash | `Hashtable`, `KeyMap` |
| array list, `zc_arraylist.c` | an array that grows | set, append, sorted insertion | `Arraylist`; the rotater's sorted list as a set |
| output functions, `record.c`, `record_table.c` | name and function | registration, binding | `CdlogEnv` |
| diagnostic context, `mdc.c` | a table per thread | put, get, remove, clean | under the lock in `CdlogEnv`; its table is `Hashtable` |
| self-diagnosis, utilities, checker program, `zc_profile.c`, `zc_util.c`, `zlog-chk-conf.c` | none that survives a call | | not modelled |

### How they interact

A public call takes the environment's lock: for writing if it changes the
environment, for reading if it logs. Only two things happen outside it. A
logging call first tests the category's bitmap, so that a filtered message costs
no lock; and an automatic reload is decided under the read lock and done after
it, under the write lock. A thread learns of a new configuration by comparing
the version in its own structure with the environment's, and rebuilds what
depends on the configuration. Under the read lock the message passes through the
category's rules; each rule formats it into the thread's buffers and calls its
output function, which may write to a file that other threads of the process
(under the same shared lock) and other processes (under none) write too. An
output that finds its file full calls the rotater, which is the one component
with locks of its own.

A configuration is read before all this, by one thread under the write lock, and
the order of its sections is what makes it consistent: a rule copies the
settings, finds its level and its format, and numbers the time conversions of
its paths when its line is read. Every event then has as many time caches as the
configuration has numbered, and a conversion finds its own by that number.

### What is hard

* readers that test before they lock, and writers that rewrite in several steps
  what those readers test;
* state kept across a release of the lock: a category handle, a thread's
  structure, the decision to reload;
* counters and descriptors that threads change under a *shared* lock;
* a reload that fails half way, or a thread's structure that is rebuilt half way;
* the rotation of a file by threads and processes at once, cut short by a
  failing call or by the death of the process;
* an external tool that renames a file the library keeps open;
* text kept from one message to the next, or to another process: the caches of
  an event against a clock that is set back and a fork;
* one question decided twice by different arithmetic: the bitmap of a category
  and the comparison in each of its rules;
* what a file says in parts, some of them wrong and left out, and has to mean as
  a whole;
* sizes: one byte for the seal, growth, limits, widths, lists of levels.

The list of these hazards, each at its line, is in `PROJECT.json` under
`hazards`, with the properties that would notice each of them.

### What makes each component correct

* environment: a message is written only with structures of the configuration in
  force; outside a reload every category follows that configuration, unless the
  last reload failed half-way (finding 1); threads that pass the
  reload period together reload once, and not before the period; no call goes
  through NULL or freed memory unless a call failed and was not made good; no
  call waits for ever;
* rotation: one rotation at a time over all threads and processes; a file is
  archived only when one more message as long as the rotating thread's does not
  fit; archives keep their order, only the oldest goes and the last `max_count`
  files stay, whatever failed or died before, unless a list of the archives was
  short of one; the locks are given back;
* kept-open output: a message lands in a file that was the log during its call;
  no descriptor leaks;
* formatting: no write past a buffer; what is sent is what the format means;
  what fits is not dropped;
* configuration: every rule of a ready configuration agrees with its final
  settings, levels and formats; a strict one lacks nothing its file asks for; no
  level is written outside its list; no two conversions share a time cache;
* rules and categories: a category's bitmap stops exactly the levels none of its
  rules wants, and a message is written, in order and by none twice, by exactly
  the rules that match its category in the guide's words and ask for its level,
  or, if none matches, by one of the rules for the rest;
* event: a message shows one time, one the clock had while it was logged, and
  the process that logs it;
* hash table: it is a map, whatever was rehashed and removed before; a walk
  visits every entry once; every node is freed once.

## 2. Modules

| module | code | what it is |
|---|---|---|
| `CdlogEnv` | environment, categories, threads, output functions | the process: threads, lock, configuration, reload |
| `Rotater` | `rotater.c` and the rotating output of `rule.c` | processes with threads that write and rotate one log |
| `ArchiveChain` | | the abstract promise of rotation, which `Rotater` implements |
| `StaticFile` | the kept-open output of `rule.c` | threads, one descriptor, an external tool |
| `Message` | `format.c`, `spec.c`, `buf.c` | one thread's buffers, message after message |
| `Arraylist`, `Rules` | `zc_arraylist.c`; the decisions of `rule.c`, `level_list.c`, `category.c` | operators only |
| `Conf` | `conf.c` with the lines of `rule.c`, `format.c`, `spec.c`, `level.c` | the reading of a configuration file |
| `Logging` | `category.c`, `event.c`, the conversions of `spec.c` | `Conf` composed with a category and a thread's event |
| `Hashtable` | `zc_hashtable.c` with its callers in `mdc.c` and `category_table.c` | one table and the nodes its callers put into it |
| `KeyMap` | | the map that `Hashtable` implements |
| `CdlogEnvProofs` | | theorems about `CdlogEnv` |
| `RotaterProofs` | | theorems about `Rotater`; the refinement of `ArchiveChain` |
| `ConfProofs`, `LoggingProofs` | | lemmas about `Conf` and its operators; theorems about `Logging` |
| `StaticFileProofs`, `MessageProofs` | | theorems about `StaticFile` and `Message` |
| `HashtableProofs` | | theorems about `Hashtable`; the refinement of `KeyMap` |
| `Induction` | | three lemmas on sets that stand for induction |
| `MC*` | | values of the constants for TLC |

`PROJECT.json`, under `map`, names the lines every definition stands for.

### CdlogEnv

A thread is at a place `pc[t]` of a call `call[t]`. A call that takes the write
lock and shows nothing half-done to an unlocked reader is one step: `InitDone`,
`InitFailed`, `DinitFailed`, `Fetched`, `SetRecord`, `Refused` and their
failures. `cdlog_fini` is two (`FiniTable`, `FiniRest`), because a test of the
default category can fall between the release of the table and the clearing of
the pointer. A reload is one step to read the configuration (`ReloadBegin`), two
per category (`UpdateClear`, `UpdateFill`, since `cdlog_category_update_rules`
clears the bitmap before it fills it again), and one to install
(`ReloadCommit`); `UpdateFailed` and `ReloadConfFailed` are its failures and
`ReloadNotDue` the second test of the counter.

A logging call is `LogCheck` (the unlocked filter of `vcdlog` and `hcdlog`;
`VdlogCheck` for `vdcdlog` and `hdcdlog`, `StartRead` for `dcdlog`, which
filters under the lock, and for the diagnostic context), `RdLock`, `FetchThread`
or `FetchFails` (`cdlog_fetch_thread`), `Emit` (or `EmitFails`, `EmitWild`),
`CountRead` and `CountWrite` (the two halves of `++` under a shared lock), and
`RdUnlock`, after which a call past the period goes on to the write lock. A
message the filter stops changes nothing and is no step.

Data are abstracted. A configuration is its number, its buffer size, the number
of time caches its formats use, its reload period and the levels its rules let
through for each category; rules are identified with the configuration they
belong to, so a category "points into freed rules" when its `fit` is not the
number of the installed configuration. `segv` is where a thread stands that went
through NULL or freed memory, one of the outcomes of undefined behaviour and
enough to refute `NoCrash`.

The application keeps a contract. It calls `cdlog_fini` only when no other
thread is inside a call made with a handle `cdlog_fini` releases (`MayFini`), and
it uses the default category only between a call that chooses one and its
release, unless `UnsetDlog` says otherwise. The guide states the first; the
second is what the run `env_unset` gives up. A call that chooses a default
category may fail and the application log all the same: `dcdlog_set_category`
and `dcdlog_init` then leave NULL behind (`zlog.c:391`, `188`), and `vdcdlog`
goes through it (`VdlogCheck`). The history variable `failed` holds "default"
from such a failure, and "reload" from a reload that failed half-way, until a
later call makes it good.

### Rotater and ArchiveChain

The file system is the log file's inode `base`, the inodes `archive[i]` behind
the archive names, and sizes in units of length. Each system call is a step:
`Open`, `Write`, `Stat`, `MutexTry`, `FlockTry`, `Recheck`, `List`, `RollUnlink`,
`RollRename`, `RollBase` or `SequenceUnlink`, `SequenceBase`, `FlockRelease`,
`MutexRelease`. Messages have the lengths `Lengths`: both looks at the file add
the length of the caller's own message to its size (`FullAfterWrite`,
`FullUnderLock`), and a message longer than the limit rotates nothing. `List`
takes all archives, or fewer (`ListsMayFail`): one for which `calloc` fails is
passed over and the rotation goes on (`rotater.c:209`). `ListFails` is a `glob`
or a list that fails altogether, `MoveFails` any failing `unlink` or `rename`;
`Crash(p)` kills a process between any two calls, by a NULL archive path
(`rotater.c:356`) for one. The history variable `skipped` remembers that some
list was short. That fcntl locks belong to processes and
do not exclude threads of the same process is in `FlockFree`. Numbering follows
the code: rolling renames to the *position* in the list, sequence takes the
index after the last.

`ArchiveChain` is what the user is promised: a chain of files in the order of
their creation, where the current one goes behind the archives and only the
oldest archive goes, when the chain is full. Once an archive has been overlooked
(`Overlook`) others may go before it, one at a time (`Lose`, `ArchiveOver`), but
the current file is still never lost. `Rotater` maps `current` to `base`, `kept`
to the set of archived inodes and `whole` to `~skipped`, so a rename between
archive names is a stutter and one that overwrites an archive is not.

### StaticFile

`cdlog_rule_output_static_file_single` one system call per step, over a table of
descriptors in which the system picks the lowest that is free and the rest of
the application opens and closes too. `Rename` and `Create` are the external
tool the comment at `rule.c:88` speaks of.

### Message

`Begin` to `Send` is one message, `NextSpec` one conversion, `Write` one call
of the conversion on its buffer, `Adjust` the copy of `pre_msg_buf` with width
and padding. The variants `...Overflows` and `...Fails` are the results 1 and -1
of the functions in `buf.c`, and both lead to `Drop`, except that a conversion
with a width passes over the 1. The texts of conversions are inputs. `Meaning`
says independently of the buffers what a format stands for. After a failed
`realloc` a buffer is `Lost`; `cdlog_buf_append` alone does not test for that and
revives it. If the text then passes the limit it copies more bytes than the text
has (`buf.c:527`), which are `Beyond` in the model. The path buffers of a thread
have a fixed size and never grow; they are the case `AtLimit` from the start.

### Arraylist, Rules and Conf

`Arraylist` keeps of a list its allocated size, its length and the indexes that
hold something. Growing follows `zc_arraylist_expand_inner`: to the double, or
to the index, which is one slot short if the index is more than the double
(`zc_arraylist.c:64`); nothing in the module keeps a write inside, so that
`InBounds` can fail.

`Rules` has the two decisions about levels side by side: `Bitmap`, bits set with
the shifts of `cdlog_rule_new` and C's division of a negative number, and
`LetsThrough`, the comparison of numbers in `cdlog_rule_output`. `Matches` is
`cdlog_rule_match_category` with its shortened copy; `ObtainRules` and `Overlap`
are a category's choice of rules and its bitmap.

`Conf` reads a file line by line: `OpenFile` or `WithoutFile`, `BeginSection`,
one action per kind of line (`Setting`, `Level`, `Format`, `Rule`), `Fail` and
`EndOfFile`. A line is a record of what it says; `ok` FALSE is a line the parser
refuses, after the conversions it lists were numbered, as in the code. A wrong
line stops the reading or is left out and remembered in `refused`
(`LeaveOut`). Beginning the rules builds the default format and cuts off an
fsync period that the reload period does not exceed. The strictness of the
environment is a constant: with it unset, files that switch strictness on and
off are read too.

### Logging

`Logging` EXTENDS `Conf` and goes on with the configuration it has built.
`GetCategory` takes the rules; `Log` is the filter and the setting up of the
event, `NextRule` one turn of the loop over a category's rules, with the rule's
own test, and `Convert` one conversion of the rule's path and format; `written`
is the sequence of the rules that wrote the message, so that a rule that wrote it
twice shows. The event
is what `event.c` keeps: per time conversion the second and the text, the stamp
of the message, the local time, the process and its text. A text is modelled by
what it was made from, so that an old text shown as new is seen as the wrong
value. `Tick` moves the clock, forwards or back, between any two steps; `Fork`
changes the process between messages; `LevelSwitch` is `cdlog_level_switch`
between messages.

### Hashtable and KeyMap

An entry is a cell of memory with a key, a node and two links. A put is
`PutReplace` if the key is there; otherwise `PutNew`, one `RehashEntry` for each
entry and one `RehashBucket` for each bucket when the table is crowded,
`RehashDone`, and `Insert` or `InsertFails`. `Remove`, `Clean` and `Renew` (the
table deleted and a new one made) are one step each, and a walk with
`zc_hashtable_foreach` is one step per entry. The caller's side is in the
variable `owned`: a node passes to the table when a put succeeds and is freed by
whoever owns it. `KeyMap` knows only which node each key has; `Hashtable` maps it
to the entries that are allocated, so that every step of a rehash is a stutter,
and `LookupFinds` says that between calls a lookup finds exactly those.

## 3. Runs

| run | properties | what it shows |
|---|---|---|
| `env_core` | `TypeOK`, `Settled`, `RecordsBound`, `InstallMovesVersion`, `ReaderReturns`, `WriterReturns` | init, log, output functions, reload and fini of two threads in every order, with configurations that cannot be read |
| `env_oom` | `FreshThread`, `CrashNeedsFailure`, `AutoReloadPaced`, `ReloadHeals` | calls through the default category against `dcdlog_init`, `dcdlog_set_category`, reload and fini, threads that lose each other's increments, and every allocation failing: no thread writes with buffers or caches that are half rebuilt or of an older configuration, a call goes through missing memory only where a reload or the choice of a default category has failed and was not made good, the next good reload repairs what it broke |
| `rotater` | `TypeOK`, `RotationExclusive`, `ListAccurate`, `ArchivesOrdered`, `LastFilesKept`, `LocksOwned`, `ArchivedWhenDue`, `ImplementsChain` | two threads of one process and one of another, messages shorter than the limit, of its length and longer, failures, short lists and deaths anywhere, archives numbered either way |
| `static_one` | `TypeOK`, `LandsInLog`, `OneDescriptor` | one thread, the tool, other descriptors, failing opens |
| `message_limits` | `TypeOK`, `InBounds`, `SentAsMeant`, `OnlyTexts`, `DroppedOnlyWhenTooLong` | messages of one and two conversions, unlimited and limited buffers, failures |
| `hashtable` | `TypeOK`, `WellLinked`, `LookupFinds`, `NodesOwned`, `VisitsEachOnce`, `ImplementsMap` | four keys in a table that starts with one bucket, colliding and not, failing allocations |
| `logging` | `TypeOK`, `RulesSettled`, `StrictMeansAll`, `CachesApart`, `FilterExact`, `Selected`, `OneMoment`, `PidCurrent` | files of up to three lines, right and wrong, strict or not, and a thread that logs through the category they give it, with a clock that is set, level switches and forks |
| `env_rollback`, `env_unset`, `rotater_kept`, `static_race`, `message_truncated` | one each | the findings of section 6, as counterexamples |

The comment before each property says what it states. Every property of a
passing run has a mutant: a definition that a plausible mistake in the code
would turn into the `Bug...` operator defined before it (no version change after
a reload, a lock whose result is ignored, a byte not kept for the seal), and with
which TLC finds the property violated.

### Bounds

* `CdlogEnv`: two threads, two categories (one in `env_unset`), one level, one
  output function, two contents of configurations that differ in what matters
  (buffers or caches, period, filter), and `MaxGen` configurations per behaviour
  (3 to 5). Two threads are a writer and a reader, or two readers that lose an
  increment; four configurations are enough for a thread made under one to
  see a failed reload, a second reload, and fini with a new init. A call starts
  only while the bound leaves room for the configuration it may build, so none is
  cut off in the middle; `Exhausted` is the stutter at the end. One level is
  enough because levels do not interact; the half written bitmap is the empty one
  against the full one.
* `Rotater`: `MaxCount` 2 and `MaxSize` 2, messages of lengths 1 to 3, so below,
  at and above the limit. `MaxFile` 3 leaves nothing out: a size is only ever
  compared with the limit after a length was added, and all sizes above it
  compare alike. `MaxInode` 4 log files are enough to fill the chain of either
  numbering and to remove its oldest; `rotater_kept` has 5, and messages of one
  length, since that is all it takes. Two threads of one process are
  interchangeable (symmetry).
* `StaticFile`: three descriptors, `MaxInode` 5 files: several renames around one
  call.
* `Hashtable`: four keys, with all hashes equal, in pairs that a rehash
  separates, and all different. From one bucket the third and the fourth key
  bring the two rehashes that four keys can. Entries and nodes are
  interchangeable memory (symmetry).
* `Message`: first size 3, limit 8 or none, texts up to 8 characters, a mark of
  two, so that a text meets the first size, growth and the limit from below, at
  and above. Messages repeat without a bound: the buffers make the states finite.
* `Logging`: `MaxLines` 3 lines besides those that begin a section, of 16 there
  are: three lines give two rules and a format, a setting before or after them,
  or a wrong line between right ones. The files set a level of their own,
  a second number for the name INFO, and one that is out of range, and one rule
  uses a name nobody defines; messages have INFO's default number, which the
  second one moves away from the rules, or one above every rule; of the three
  names one matches by its prefix and one only "*" and "!". One category per behaviour, since categories
  share nothing but the rules, which no longer change. Two values of the clock
  and of the process number are enough for "the same" and "another", and the
  clock goes back as often as forward.

### Deadlock

That a thread keeps the read lock when it goes on to wait for the write lock
(`zlog.c:877`) would be noticed here, in `env_core`, rather than by a liveness
property. It is checked except in `env_oom`, `env_rollback` and `env_unset`, where a thread
that went through freed memory stops for good, and may keep the read lock.

### Fairness

`CdlogEnv!FairSpec` is weak fairness of each thread's steps *inside* a call: a
thread is scheduled, and a lock that stays free is taken. Starting a call is the
application's choice and is not fair. Nothing is assumed about who gets the lock
first, because a read-write lock of POSIX may prefer readers: `WriterReturns`
therefore speaks of behaviours in which readers eventually pause, and
`ReaderReturns` needs no such condition since the number of configurations, and
so of writers, is bounded in the model and a reload is finite in the code.
`Rotater` states no liveness: that locks come back is the invariant `LocksOwned`
(a lock that is held is held by a call on its way to release it) together with
the absence of deadlock.

## 4. Proofs

TLAPS checks these theorems for all threads, categories, configurations,
processes, formats and bounds, under the named `ASSUME`s of the modules only.

**CdlogEnvProofs.** The inductive invariant is
`IInv == TypeOK /\ LockInv /\ EnvInv /\ VersionInv /\ EmitInv`. `FreshThread`
alone is not inductive: that a thread about to write has the structures of the
configuration in force follows only if a thread past the read lock *is* among
the readers and excludes writers (`LockInv`), if an initialised library has a
configuration (`EnvInv`), if equal versions mean equal configurations, for any
thread and across fini and init (`VersionInv`), and if what the thread found
equal it still holds (`EmitInv`). From it:

* `TypeCorrect`, `ThreadsFresh`: `[]TypeOK`, `[]FreshThread`;
* `ReloadsPaced`: `AutoReloadPaced`, with `CountInv`: the shared counter, and
  every value a thread has read of it, is at most the number of messages since
  the last reload, so lost increments only delay. `ReloadsComeLate` says more:
  every automatic reload comes when the number is *above* the period, one message
  later than the guide has it;
* `SettledUnlessFailed`: `Settled` always, unless the last reload failed
  half-way, with `SettledInv`, which says what the categories done and still to
  do look like in the middle of a reload; and `CategoriesSettled`: `[]Settled` if
  `"update" \notin Fails`. Without the assumption it is false (section 6);
* `RecordsStayBound`: `[]RecordsBound`, the rules a reload is building included;
* `InstallsMoveVersion`: the action property `InstallMovesVersion`.

The second half of the module lets any allocation fail. `UseInv` adds to
`IInv` how far a reload has come (`UpdateInv`, the part of `SettledInv` that
needs no assumption), when the table and the default category are there
(`TableInv`: only between the two halves of `cdlog_fini` does the default
category point at nothing), that no call made with a handle overlaps a
`cdlog_fini` (`HandleInv`, the application's contract carried along) and which
call is where (`CallInv`). From it:

* `ReloadsHeal`: `ReloadHeals`. A reload sets every category from nothing, so what
  it finds there does not matter;
* `CrashesNeedFailure`: `CrashNeedsFailure`, for an application that does not use
  a default category it never chose (`ASSUME ~UnsetDlog`). A thread reaches the
  rules of its category either under the read lock, where no writer is, or by
  the unlocked test, where the contract keeps `cdlog_fini` away; so the rules can
  only be missing if a reload failed half-way and none succeeded since, and the
  default category only if the last call to choose one failed (`CrashWhere`);
* `NothingCrashes`: `[]NoCrash` if, besides, no update of a category runs out of
  memory and no call that chooses a default category may fail (`ChoiceMayFail`),
  whatever else fails. Each of the conditions is needed: giving up the first is
  finding 1, `~UnsetDlog` finding 2, and the third the last of the remarks on
  `zlog.c` in section 6.

**RotaterProofs.** `IInv == TypeOK /\ LockInv /\ ListInv /\ ListAccurate /\
FullInv`: who is between the locks holds both, the fcntl lock by its process;
lists exist only there; and between the second `stat` and the last move the log
file stays there and due for the message of the thread that rotates, since
writers only append and only the holder moves. `RotationsExclude`,
`ListsAccurate`, `RotatesWhenDue` (`ArchivedWhenDue`, for messages of any lengths)
and `TypeCorrect` follow, crashes, failures and short lists included;
`LocksComeBack` proves `[]LocksOwned` on top of it.

The second half is about the archives. `ChainInv == IInv /\ BornInv /\ (~skipped
=> SoundInv)`, where `SoundInv` adds `InOrder`, `RollInv` and `RoomInv`. That
archives keep their order is not inductive: renaming archive `i` to its position
plus one could overwrite another if the indexes had several gaps. `RollInv` says
they have one at most, wherever a rotation was cut short, and how far down the
list the one rotation under way has come with respect to it; a list that is short
of an archive breaks just this, and that is why `skipped` voids it for good.
`BornInv`: files are numbered by creation, so the log file is younger than all
archives and belongs behind them. `RoomInv`: a rolling rotation moves only after
it has removed enough. From it, all until a list has been short of an archive:
`ArchivesInOrder` (`[]ArchivesOrdered`); `LastFilesStay` (`[]LastFilesKept`): a
file that was once the log is there until there have been `max_count` younger
ones; and `ArchivesLimited`: there are never more archives than the limit under
rolling numbering, nor more than one above it under sequence numbering, which is
all that finding 3 can do. `RotationImplementsChain` (`Spec => ImplementsChain`)
covers short lists too: each step keeps the archived inodes, drops the oldest of
a full chain, or puts the log file behind them, and once an archive was
overlooked loses one at most; a crash or failure is a stutter of the chain.

**StaticFileProofs.** For any threads, descriptors and renames. `TypeCorrect`
needs nothing else. `MessagesLand` and `DescriptorsKept` hold as long as no two
calls overlap (`[]Alone`), which the shared lock does not ensure and without
which `static_race` shows the contrary: the overlap is the only cause.
`OneThreadSuffices` draws the conclusion for a program that logs from one
thread. The invariant says at each step of a call what the saved inode, the
result of `stat` and the open file say of each other.

**MessageProofs.** `BuffersBounded` and `TypeCorrect`, for all formats, texts,
widths and limits. `IInv` adds `InHand` to `TypeOK /\ InBounds`: while a
conversion is written or copied there is one. The lemmas say what growth,
filling, marking and padding do to the length of a text. `TextsNotPassed` is
`OnlyTexts`: until something fails no byte beyond a text is copied, because a
copy fills a buffer to its largest size only when the text did not fit
(`FilledText`); after a failed `realloc` that is not so (`buf.c:527`).

`SentMeant` (`SentAsMeant`) and `DroppedTooLong` (`DroppedOnlyWhenTooLong`) need
to know what the buffers hold at every step, which is `MeantInv`: the message is
what has been `done` followed by `specs`, and the conversion in hand what has
been `made` followed by `writes`; `msg_buf` holds the meaning of `done`, with the
texts of `made` behind it or, under a width, in `pre_msg_buf`. The lemmas come in
two groups. `FlattenConcat` and what it rests on say that parts may be put
together in two halves (by induction on their number), so that one call, or one
conversion, more is one text more: `TextsAre`, `MeaningsAre`. The others compare
the functions of `buf.c` with the meaning, position by position:
`cdlog_buf_adjust_append` makes the field (`PaddedIsField`), and a buffer filled
to its limit holds the cut of what was to be written *whatever was to follow*
(`FilledIsCut`), which is why a conversion with a width may pass over the
overflow. What overflows `msg_buf` is longer than the limit with what is still
to come (`LongerMeaning`).

**HashtableProofs.** Every safety property of the run, and the refinement, for
any keys, hash function, memory and failing allocations. The difficulty is the
chains: that following `next` from a bucket ends is no property of single links.
`TableInv` therefore says, besides the types, that links agree in both
directions, that an entry is in the bucket of its hash and that keys differ, that
there is an ordering of the entries which `next` follows downwards (`Falling`),
so that chains have no circle. In the middle of a rehash it holds in two parts:
the entries moved, linked in the new buckets, and those `Waiting` in the old
chains, which the loop still reaches. Each step gives the ordering for the new
links: an entry inserted at the head of a chain goes above all others, one
unlinked leaves the rest in order. From `TableInv`: `TypeCorrect`, `LinksAgree`
(`WellLinked`), `NodesAreOwned` (`NodesOwned`); `LookupsFind` (`LookupFinds`),
where induction along the ordering shows that a bucket reaches every entry
hashed to it; and `TableIsMap` (`Spec => ImplementsMap`), since each step of a
rehash leaves the allocated entries as they are. `WalkInv` adds what a walk has
visited: the entries visited, the one in hand and those it still reaches are all
of them, each once; `EachVisitedOnce` is `VisitsEachOnce`. Besides the
types of the constants it assumes `MemoryAssumption`, that memory is finite: without it a chain could descend for
ever and a lookup need not return.

**Induction** proves what stands for induction in these two proofs, as facts on
sets and not on formulas, from the library's theorem that the finite subsets of
a set are well founded: `SetInduction` (a set with 0 and with `n + 1` for each
of its `n` holds every natural number), `LeastElement`, and `GrowSet` (a set of
subsets of a finite set that holds the empty one and can always be added one
element holds the whole). A proof by induction then names the set of those
numbers for which the claim holds.

**ConfProofs** proves `BitmapExact`, that the bits a rule sets are the levels its
comparison lets through, for every level and the -1 of an unknown name, and the
lemmas about lists, levels and conversions. Its invariant `ConfInv` is what
`Logging` rests on: the types, lists without holes (`ListsInv`), the level array
allocated up to 255 whatever was set (`LevelsInv`), nothing left of an abandoned
file (`NoneInv`), lines left out only while the settings were tolerant
(`RefusedInv`), and, from the rules' section on, settings that no longer change
and rules made from them (`RulesInv`). `CachesInv` adds `CachesApart`: the lemma
`ApartWith` shows that conversions numbered from the count on are apart from all
that were numbered below it.

**LoggingProofs**. `MatchesMeans`: for all patterns and names, the comparison in
`cdlog_rule_match_category` is what the guide says. `LogInv` is `CachesInv` with
what a category holds (`CategoryInv`: its rules are those the code chooses, by
`Chosen`, its bitmap is exact), what the event holds (`EventInv`: each cached text
is that of the second next to it, and the text of the process that of the last
process), and where the message is (`ConvsInv`, `FetchedInv`, `WrittenInv`; `OrderInv`: it was
written in the order of the rules, before those still to come).
From it `TypesKept`, `RulesAreSettled`, `StrictIsComplete`,
`CachesAreApart`, `FilterIsExact`, `RulesSelected`, `MomentIsOne` and
`PidIsCurrent`: every property of the run, for files of any length, any names,
levels, clocks and processes. The assumptions are `LinesAssumption` and
`SettingsAssumption` (the types of lines), `NamesAssumption` (the program's own
names are strings), `CategoriesAssumption`, `LevelsAssumption` (an application
logs and switches to levels from 0 to 255) and `ClockAssumption` (the clock and
the process number are never 0, which the event uses for "not fetched").

### Checked by TLC only

* liveness (`ReaderReturns`, `WriterReturns`): fairness and `ENABLED` are out of
  the prover's reach;
* the counterexamples of section 6, and the hypotheses under which a theorem
  excludes one of them (`Alone`, `~UnsetDlog`, no failing update) as
  necessary: the runs show that each is.

Everything else the passing runs check is also proved.

## 5. What is not modelled

* Characters: how a line is split, how a format or a pattern is cut into
  conversions, and archive patterns with archive names of another width. Lines
  and conversions are records.
* Of the configuration the buffers' sizes and the lock file, which are used when
  it is complete; of a rule the file limits and its syslog facility; of a level
  its facility and the lookup by number, one index.
* `cdlog_level_switch` while another thread logs or reloads, which its comment
  excludes, and `cdlog_profile`.
* Of an event the host name and the thread's numbers, which never change, and the
  arguments of the message.
* The sorted insertion of `zc_arraylist.c`: the rotater's list is a set of
  indexes. A failing allocation of a list abandons the configuration (`Fail`).
* Errors of `write` and `close` in a rotating output, and errors of `fcntl`
  other than a lock that is taken. A file name too long for the list, or of
  another width than the pattern's, is no archive (`cdlog_file_check_new`).
* In `StaticFile`: inode numbers used again, the fsync counter, and a tool so
  fast that it renames and creates between the open of a file that was gone and
  the `stat` after it (guard of `Create`); without that guard `LandsInLog` is
  false for one thread.
* Memory that leaks: `dcdlog_init` that cannot create its category keeps
  configuration and tables (`zlog.c:188`); the state is reached (`DinitFailed`),
  the leak is not counted.
* Output to pipes, syslog, the standard streams and the application's own
  functions, one call each that keeps nothing, and the dynamic paths, which
  format one more buffer and open a file per message.
* Self-diagnosis, utilities and the checker program, which keep no state.

## 6. Findings

Five places where the code does something else than its comments or guide say;
each has a run that finds a counterexample.

1. `env_rollback`: a reload that fails while it updates a category does not roll
   back. `c_up = 0` (`zlog.c:259`) skips the rollback that the comment "fail,
   roll back everything" (`zlog.c:279`) announces, and the categories point into
   a configuration that is then freed.
2. `env_unset`: `vdcdlog` and `hdcdlog` go through the default category before
   they lock and before they test it (`zlog.c:737`, `790`), though their comment
   says it "must" be judged "in lock" (`zlog.c:746`).
3. `rotater_kept`: sequence rotation keeps one archive more than configured
   (`rotater.c:242`, guide line 5560).
4. `static_race`: threads close and reopen a rule's descriptor between each
   other's `stat` and `write` (`rule.c:102`); the guide says the APIs are thread
   safe (line 5782).
5. `message_truncated`: a message longer than "buffer max" is dropped, not
   truncated (`format.c:159`, guide line 1444).

Smaller remarks without a run:

* an automatic reload comes one message late: the count has to be more than the
  period (`zlog.c:664`), while the guide says "When the number reaches the value"
  (1417). `AutoReloadPaced` states the guide's bound, which holds;
  `ReloadsComeLate` proves the code's;
* the count of messages survives a new initialisation (`zlog.c:39`, against the
  guide at 1418), so the first reload after one can come early with respect to
  that sentence; `since` counts from the last reload;
* a failed `dcdlog_set_category` or `dcdlog_init` leaves a NULL default category
  (`zlog.c:391`, `188`), and the next `vdcdlog` or `hdcdlog` goes through it
  (`zlog.c:737`, `790`), without another thread: `CrashNeedsFailure` admits it;
* a file that has not reached the limit is archived: both looks at its size add
  the length of the message (`rule.c:207`, where it has been written already, and
  `rotater.c:549`), while the guide archives "When aa.log is larger than" the limit
  (5526; 1475 to 1493). `ArchivedWhenDue` states what the code does; a single
  message longer than the limit, on the other hand, never rotates (`rule.c:195`);
* an archive for which `calloc` fails while they are listed is taken for another
  file (`rotater.c:147`, `209`), and the rotation moves files over it, or counts
  one less: archives get lost that the guide says are kept (5560), with a limit
  of 0 too. `ArchivesOrdered`, `LastFilesKept` and `ImplementsChain` say until
  when, and how much;
* `cdlog_rotater_parse_archive_path` looks into the result of
  `cdlog_rule_gen_archive_path` (`rotater.c:356`) without a test for NULL, with
  both locks held; `Crash` stands for it;
* a level name that a rule uses and nobody defined is accepted, strict or not,
  and becomes -1, though the guide says that under strict init "any error will
  cause zlog_init() to fail" (1389 to 1395). `BitmapExact` shows that both
  decisions then agree: with "." it means every level, with "=" none;
* a level may have a number from 0 to 255 (`level.c`), the guide says 1 to 253;
  `cdlog_level_list_set` replaces what was there, the two reserved ones too;
* an unknown syslog facility of a rule is not refused: a return at `rule.c:497`
  keeps `syslog_facility_atoi` from its error, for which `rule.c:852` tests;
* of several rules for "!" only the last is used (`category.c:88`), while the guide
  says that "!" matches a category that no rule matches (4616, 5991), which every
  such rule does. `Selected` only asks that one of them write the message;
* `cdlog_category_output` returns the result of the last rule only
  (`category.c:229`), so a message whose other outputs failed counts as written;
* the text of `%k` is made once per thread and stays the parent's after a fork
  (`spec.c:232`), unlike that of `%p`, of which `PidCurrent` speaks;
* `spec.c:153` searches the file name before it tests it for NULL;
* a list that starts smaller would be outgrown: the slot short of
  `zc_arraylist.c:64` never shows because the default levels are set in ascending
  order and 32 doubles up to 256;
* `buf.c:155` announces a `size_real` of -1 that no line sets; `buf.c:527` reads
  past a text after a failed `realloc`.

## 7. Plan

Done, in this order: `CdlogEnv` with its proofs; `Rotater`, `ArchiveChain` and
proofs; `StaticFile` and proofs; `Message` and proofs; `Hashtable` and `KeyMap`;
`Arraylist`, `Rules`, `Conf` and `Logging` with proofs; the refinement proof of
`ArchiveChain`; the categories under any failure; the proofs of `Hashtable`, with the refinement
of `KeyMap`; what a message says (`MeantInv`).

Left, in the order of what they would add:

1. `cdlog_level_switch` against reload and logging, as steps of `CdlogEnv`.
2. The archive pattern: which names of a directory `cdlog_rotater_add_archive_file`
   takes for archives, and a pattern that cannot be made.
3. The tool of `StaticFile` without the guard of `Create`, and the fsync counter.
4. The count of messages across `cdlog_fini` and `cdlog_init`.
