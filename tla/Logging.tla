------------------------------ MODULE Logging ------------------------------
(***************************************************************************)
(* From the configuration to what a message shows.  Conf reads the file;   *)
(* a category takes the rules that match its name (category.c); a thread   *)
(* logs messages through the category, each going through the rules it     *)
(* took, and each rule running the conversions of its path and format over *)
(* the thread's event (category.c, event.c, spec.c).                       *)
(*                                                                         *)
(* The event outlives the message: it keeps the text of every time         *)
(* conversion with the second it is for, the broken-down local time and    *)
(* the text of the process's number.  The clock is the system's and may be *)
(* set back; the process may fork between messages.                        *)
(***************************************************************************)
EXTENDS Conf

CONSTANTS
  Names,        \* of categories: sequences of characters
  Levels,       \* levels messages are logged at
  Switches,     \* levels the category is switched to
  Seconds,      \* values of the clock
  Pids          \* numbers of the process

ASSUME CategoriesAssumption == Names \subseteq Seq(STRING)

ASSUME LevelsAssumption == Levels \cup Switches \subseteq LevelRange

\* 0 means "not fetched yet" in the event.
ASSUME ClockAssumption == Seconds \subseteq Nat \ {0} /\ Pids \subseteq Nat \ {0}

VARIABLES
  category,     \* its name, fit_rules and level_bitmap, and the last level switch
  event,        \* the thread's event
  level,        \* of the message being logged or the last one; NoLevel if there is none
  todo,         \* rules it has still to go through
  convs,        \* conversions the rule it has reached has still to make
  now,          \* the clock
  pid,          \* the process
  written,      \* history: the rules that wrote the message, one after the other
  shown,        \* history: times and process numbers it shows
  seen          \* history: values of the clock since it was logged

appVars == <<category, event, level, todo, convs, now, pid, written, shown, seen>>
vars == <<confVars, appVars>>

NoName == <<>>

NoCategory == [name |-> NoName, fit |-> {}, bitmap |-> {}, floor |-> NoLevel]

NoEvent == [caches |-> <<>>, stamp |-> 0, local |-> 0, pid |-> 0, last_pid |-> 0, pid_str |-> 0]

-----------------------------------------------------------------------------
\* Mistakes a change of the code could make.
BugNewEvent(count) ==                                      \* one cache too many
  [NoEvent EXCEPT !.caches = [i \in 0 .. count |-> [sec |-> 0, str |-> 0]]]
BugOutdated(sec, s) == sec < s                             \* time only goes forward
BugCleared(e) == [e EXCEPT !.stamp = 0]                    \* the process stays

-----------------------------------------------------------------------------
\* The time caches of an event, by index: the second, and the text for it.
NewEvent(count) == [NoEvent EXCEPT !.caches = [i \in 0 .. count - 1 |-> [sec |-> 0, str |-> 0]]]

Nothing == [time |-> {}, pid |-> {}]

Init ==
  /\ ConfInit
  /\ category = NoCategory
  /\ event = NoEvent
  /\ level = NoLevel
  /\ todo = {}
  /\ convs = <<>>
  /\ now \in Seconds
  /\ pid \in Pids
  /\ written = <<>>
  /\ shown = Nothing
  /\ seen = {}

Configure == ConfNext /\ UNCHANGED appVars

Idle == status = "built" /\ todo = {} /\ convs = <<>>

\* cdlog_get_category: cdlog_category_new.  One category is enough: what the
\* others do, they do to themselves.
GetCategory(name) ==
  /\ Idle
  /\ category = NoCategory
  /\ LET fit == ObtainRules(rules, name) IN
     category' = [name |-> name, fit |-> fit, bitmap |-> Overlap(rules, fit), floor |-> NoLevel]
  /\ UNCHANGED <<confVars, event, level, todo, convs, now, pid, written, shown, seen>>

\* Nothing more is said of the last message.
Forget == level' = NoLevel /\ written' = <<>> /\ shown' = Nothing /\ seen' = {}

\* cdlog_level_switch
LevelSwitch(l) ==
  /\ Idle
  /\ category # NoCategory
  /\ category' = [category EXCEPT !.bitmap = Tail8(l), !.floor = l]
  /\ Forget
  /\ UNCHANGED <<confVars, event, todo, convs, now, pid>>

\* The event of the thread's first message is new; cdlog_event_set_fmt makes
\* the conversions fetch the time and the process again.
Cleared(e) == [e EXCEPT !.stamp = 0, !.pid = 0]

Fetched(e) == Cleared(IF e = NoEvent THEN NewEvent(time_cache_count) ELSE e)

\* cdlog_category_needless_level turns a message away before it has an event.
Log(l) ==
  /\ Idle
  /\ category # NoCategory
  /\ level' = l
  /\ IF l \in category.bitmap
     THEN todo' = category.fit /\ event' = Fetched(event)
     ELSE UNCHANGED <<todo, event>>
  /\ written' = <<>>
  /\ shown' = Nothing
  /\ seen' = {now}
  /\ UNCHANGED <<confVars, category, convs, now, pid>>

\* cdlog_category_output, cdlog_rule_output: the next rule in their order.  The
\* output functions make the path, if it has conversions, and then the message.
NextRule ==
  /\ convs = <<>>
  /\ \E i \in todo :
       /\ \A j \in todo : i <= j
       /\ todo' = todo \ {i}
       /\ IF LetsThrough(rules.slot[i], level)
          THEN /\ convs' = rules.slot[i].path \o rules.slot[i].format.specs
               /\ written' = Append(written, i)
          ELSE UNCHANGED <<convs, written>>
  /\ UNCHANGED <<confVars, category, event, level, now, pid, shown, seen>>

\* The time of a message is that of its first conversion that needs it.
Stamped(e) == [e EXCEPT !.stamp = IF @ = 0 THEN now ELSE @]

Outdated(sec, s) == sec # s

\* cdlog_spec_write_time
Timed(e, index) ==
  LET s == e.stamp
      local == IF Outdated(e.local, s) THEN s ELSE e.local IN
  [e EXCEPT !.local = local,
            !.caches[index] = IF Outdated(@.sec, s) THEN [sec |-> s, str |-> local] ELSE @]

\* cdlog_spec_write_pid
Identified(e) ==
  IF e.pid # 0 THEN e
  ELSE [e EXCEPT !.pid = pid, !.last_pid = pid,
                 !.pid_str = IF pid # e.last_pid THEN pid ELSE @]

\* The write_buf of one conversion.
Convert ==
  /\ convs # <<>>
  /\ LET spec == Head(convs) IN
     \/ /\ spec.conv = "d"
        /\ event' = Timed(Stamped(event), spec.index)
        /\ shown' = [shown EXCEPT !.time = @ \cup {event'.caches[spec.index].str}]
     \/ /\ spec.conv = "ms"
        /\ event' = Stamped(event)
        /\ shown' = [shown EXCEPT !.time = @ \cup {event'.stamp}]
     \/ /\ spec.conv = "p"
        /\ event' = Identified(event)
        /\ shown' = [shown EXCEPT !.pid = @ \cup {event'.pid_str}]
  /\ convs' = Tail(convs)
  /\ UNCHANGED <<confVars, category, level, todo, now, pid, written, seen>>

\* The clock moves on, or is set back.
Tick ==
  /\ status = "built"
  /\ now' \in Seconds \ {now}
  /\ \/ Idle /\ Forget
     \/ ~Idle /\ seen' = seen \cup {now'} /\ UNCHANGED <<level, written, shown>>
  /\ UNCHANGED <<confVars, category, event, todo, convs, pid>>

\* The program forks; the child goes on with a copy of everything.
Fork ==
  /\ Idle
  /\ pid' \in Pids \ {pid}
  /\ Forget
  /\ UNCHANGED <<confVars, category, event, todo, convs, now>>

Next ==
  \/ Configure
  \/ \E name \in Names : GetCategory(name)
  \/ \E l \in Switches : LevelSwitch(l)
  \/ \E l \in Levels : Log(l)
  \/ NextRule
  \/ Convert
  \/ Tick
  \/ Fork

Spec == Init /\ [][Next]_vars

-----------------------------------------------------------------------------
\* Properties.

\* Every variable keeps its type; an event has a time cache for every index the
\* configuration has given, a message only goes through rules there are, and no
\* level is written outside the array of levels or shown without a name.
TypeOK ==
  /\ ConfTypeOK
  /\ LevelsReady
  /\ todo \subseteq category.fit
  /\ category.fit \subseteq DOMAIN rules.slot
  /\ category.bitmap \subseteq LevelRange
  /\ event = NoEvent \/ DOMAIN event.caches = 0 .. time_cache_count - 1
  /\ level \in LevelOrNone
  /\ convs \in Seq(SpecType)
  /\ written \in Seq(DOMAIN rules.slot)
  /\ now \in Seconds
  /\ pid \in Pids

\* The bitmap of a category, filled bit by bit when a rule is made and tested
\* by shifting a byte, lets a message through exactly when one of its rules
\* does, which compares two numbers; after a level switch, exactly from that
\* level on.
FilterExact ==
  category # NoCategory =>
    category.bitmap =
      IF category.floor = NoLevel
      THEN {m \in LevelRange : \E i \in category.fit : LetsThrough(rules.slot[i], m)}
      ELSE {m \in LevelRange : m >= category.floor}

\* The guide's words for when a rule's category matches a name.
Means(pattern, name) ==
  \/ pattern = <<"*">>
  \/ pattern = name
  \/ Last(pattern) = "_" /\ (name = Front(pattern) \/ IsPrefix(pattern, name))

\* The rules that match a name, and those for whatever no rule matches.
Matching(name) == {i \in DOMAIN rules.slot : Means(rules.slot[i].category, name)}

Wastebins == {i \in DOMAIN rules.slot : rules.slot[i].category = <<"!">>}

\* Those of a set of rules that ask for the message being logged.
Asking(some) == {i \in some : LetsThrough(rules.slot[i], level)}

\* Through bitmaps, a level switch and the walk over the rules, a message is
\* written in the order of the rules and by none twice, and by exactly the rules
\* that match its category and ask for its level, whatever rules for the rest
\* there are.  If none matches, a rule for the rest writes it, provided it asks
\* for the level.  The guide has every rule for the rest match then
\* (UsersGuide-EN.lyx:4616, 5991); the code lets one of several decide, the last
\* (category.c:88), and the others are silent: all that is required here is that
\* it is one of them.
Selected ==
  Idle /\ level # NoLevel =>
    LET match == Matching(category.name)
        wrote == {written[k] : k \in DOMAIN written} IN
    /\ \A k, m \in DOMAIN written : k < m => written[k] < written[m]
    /\ IF level < category.floor THEN written = <<>>
       ELSE IF match # {} THEN wrote = Asking(match)
       ELSE IF Wastebins = {} THEN written = <<>>
       ELSE \E i \in Wastebins : wrote = Asking({i})

\* All the times a message shows, in its paths and in its text, whichever rule
\* and conversion shows them and whatever the clock does meanwhile, are one
\* time, and one the clock has shown since the message was logged.
OneMoment ==
  /\ shown.time \subseteq {event.stamp}
  /\ shown.time # {} => event.stamp \in seen

\* A message shows the number of the process that logs it, also after a fork.
PidCurrent == shown.pid \subseteq {pid}
=============================================================================
