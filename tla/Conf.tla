-------------------------------- MODULE Conf --------------------------------
(***************************************************************************)
(* Reading a configuration (src/conf.c: cdlog_conf_new; level_list.c,      *)
(* level.c, format.c, spec.c and rule.c for the lines).  A file is read    *)
(* line by line through the sections global, levels, formats and rules; a  *)
(* line that is wrong stops the reading or, without strict init, is left   *)
(* out.  What a later section makes holds what the earlier ones left: the  *)
(* rules take the settings, the levels and the formats as they are when    *)
(* the rule's line is read.                                                *)
(*                                                                         *)
(* Lines are records, each set of lines those a section may hold.  convs   *)
(* are the conversions of a format or of a path: "d" one that shows the    *)
(* time, "ms" the fraction of its second, "p" the process; the others, and *)
(* plain text, are left out.  A line with ok FALSE is wrong after the      *)
(* conversions it lists.                                                   *)
(***************************************************************************)
EXTENDS Rules, FiniteSets

CONSTANTS
  Settings,          \* lines of [global]: name, value
  LevelLines,        \* of [levels]: name, number, ok
  FormatLines,       \* of [formats]: name, convs, ok
  RuleLines,         \* of [rules]: category, compare, level, format, path, archive, sync, ok
  AlwaysStrict,      \* ZLOG_STRICT_INIT is set in the environment
  MaxLines           \* bound: lines of a file, those that begin a section apart

Text == Seq({"d", "ms", "p"})

FormatLine == [name : STRING, convs : Text, ok : BOOLEAN]

ASSUME LinesAssumption ==
  /\ LevelLines \subseteq [name : STRING, number : Int, ok : BOOLEAN]
  /\ FormatLines \subseteq FormatLine
  /\ RuleLines \subseteq [category : Seq(STRING) \ {<<>>}, compare : CompareChar, level : STRING,
                          format : STRING, path : Text, archive : Text, sync : BOOLEAN, ok : BOOLEAN]

\* A setting of any other name is wrong.
SettingType ==
  [strict : BOOLEAN, perms : Nat, fsync : Nat, reload : Nat, format : FormatLine]

ASSUME SettingsAssumption ==
  \A line \in Settings :
    \/ line.name \notin {"strict", "perms", "fsync", "reload", "format"}
    \/ line.name = "strict" /\ line.value \in BOOLEAN
    \/ line.name \in {"perms", "fsync", "reload"} /\ line.value \in Nat
    \/ line.name = "format" /\ line.value \in FormatLine

\* The names the program gives itself.
DefaultNames ==
  {"", "*", "DEBUG", "INFO", "NOTICE", "WARN", "ERROR", "FATAL", "UNKNOWN", "!", "default"}

ASSUME NamesAssumption == DefaultNames \subseteq STRING

ASSUME BoundAssumption == AlwaysStrict \in BOOLEAN /\ MaxLines \in Nat

VARIABLES
  status,            \* of cdlog_env_conf: "none", "reading" its file, or "built"
  section,           \* 1 to 4, 0 before the first
  lines,             \* lines read
  settings,
  levels, formats, rules,
  default_format,
  time_cache_count,
  refused            \* history: the sections of lines that were wrong and left out

fileVars == <<section, lines>>
partVars == <<settings, levels, formats, rules, default_format, time_cache_count>>
confVars == <<status, fileVars, partVars, refused>>

NoFormat == [name |-> "", specs |-> <<>>]   \* a pointer that is NULL

NoIndex == -1                               \* a conversion that shows no time

-----------------------------------------------------------------------------
\* Mistakes a change of the code could make.
BugOrdered(s) == s # section                          \* sections in any order
BugNumbered(convs, i, count) == IF convs[i] = "d" THEN count ELSE NoIndex
BugTolerant == ~settings.strict \/ section > 1         \* strict about the settings only

-----------------------------------------------------------------------------
\* The default configuration: ZLOG_CONF_DEFAULT_FORMAT, ZLOG_CONF_DEFAULT_RULE
\* and the others.  The buffers' sizes and the lock file are left out: they are
\* taken from the configuration when it is complete.
DefaultFormatLine == [name |-> "default", convs |-> <<"d", "p">>, ok |-> TRUE]

DefaultSettings ==
  [strict |-> TRUE, perms |-> 384, fsync |-> 0, reload |-> 0, format |-> DefaultFormatLine]

DefaultRule ==
  [category |-> <<"*">>, compare |-> "*", level |-> "*", format |-> "", path |-> <<>>,
   archive |-> <<>>, sync |-> FALSE, ok |-> TRUE]

-----------------------------------------------------------------------------
\* What the lines are turned into.

IsTime(conv) == conv = "d"

\* The index a conversion of the time takes in the caches of every event.
Numbered(convs, i, count) ==
  IF IsTime(convs[i]) THEN count + Cardinality({j \in 1 .. i - 1 : IsTime(convs[j])}) ELSE NoIndex

Specs(convs, count) ==
  [i \in DOMAIN convs |-> [conv |-> convs[i], index |-> Numbered(convs, i, count)]]

\* time_cache_count once these conversions are made.
Counted(convs, count) == count + Cardinality({i \in DOMAIN convs : IsTime(convs[i])})

NewFormat(line, count) == [name |-> line.name, specs |-> Specs(line.convs, count)]

\* cdlog_level_list_set_default
DefaultLevels ==
  LET star == ListSet(EmptyList, 0, "*")
      debug == ListSet(star, 20, "DEBUG")
      info == ListSet(debug, 40, "INFO")
      notice == ListSet(info, 60, "NOTICE")
      warn == ListSet(notice, 80, "WARN")
      error == ListSet(warn, 100, "ERROR")
      fatal == ListSet(error, 120, "FATAL")
      unknown == ListSet(fatal, 254, "UNKNOWN") IN
  ListSet(unknown, 255, "!")

LevelOk(line) == line.ok /\ line.number \in 0 .. 255

\* The format a rule names, the first of that name.
FormatNamed(name) ==
  LET found == {i \in DOMAIN formats.slot : formats.slot[i].name = name} IN
  IF name = "" THEN default_format
  ELSE IF found = {} THEN NoFormat
  ELSE formats.slot[CHOOSE i \in found : \A j \in found : i <= j]

FormatKnown(name) == name = "" \/ \E f \in Items(formats) : f.name = name

\* cdlog_rule_new.  The level is not checked: a name that is not in the list
\* gives NoLevel.
NewRule(line, count) ==
  [category |-> line.category,
   compare |-> line.compare,
   level |-> LevelNamed(levels, line.level),
   format |-> FormatNamed(line.format),
   path |-> Specs(line.path, count),
   archive |-> Specs(line.archive, Counted(line.path, count)),
   perms |-> settings.perms,
   fsync |-> IF line.sync THEN 0 ELSE settings.fsync]

-----------------------------------------------------------------------------
\* cdlog_conf_new with its defaults.
ConfInit ==
  /\ status = "none"
  /\ section = 0
  /\ lines = 0
  /\ settings = DefaultSettings
  /\ levels = DefaultLevels
  /\ formats = EmptyList
  /\ rules = EmptyList
  /\ default_format = NoFormat
  /\ time_cache_count = 0
  /\ refused = {}

\* cdlog_conf_del: cdlog_conf_new fails and so does cdlog_init; the next call
\* starts again.
Abandon ==
  /\ status' = "none"
  /\ section' = 0
  /\ lines' = 0
  /\ settings' = DefaultSettings
  /\ levels' = DefaultLevels
  /\ formats' = EmptyList
  /\ rules' = EmptyList
  /\ default_format' = NoFormat
  /\ time_cache_count' = 0
  /\ refused' = {}

\* A wrong line is left out only without strict init.
Tolerant == ~settings.strict

Reading(s) == status = "reading" /\ section = s /\ lines < MaxLines

Read == lines' = lines + 1 /\ UNCHANGED <<status, section, refused>>

LeaveOut ==
  /\ Tolerant
  /\ refused' = refused \cup {section}
  /\ lines' = lines + 1
  /\ UNCHANGED <<status, section>>

-----------------------------------------------------------------------------
\* The next section must come later than the last one.
Ordered(s) == s > section

OpenFile ==
  /\ status = "none"
  /\ status' = "reading"
  /\ UNCHANGED <<fileVars, partVars, refused>>

\* cdlog_conf_build_without_file
WithoutFile ==
  /\ status = "none"
  /\ status' = "built"
  /\ LET format == NewFormat(settings.format, time_cache_count)
         count == Counted(settings.format.convs, time_cache_count) IN
     /\ default_format' = format
     /\ rules' = ListAdd(rules, [NewRule(DefaultRule, count) EXCEPT !.format = format])
     /\ time_cache_count' = Counted(DefaultRule.archive, Counted(DefaultRule.path, count))
  /\ UNCHANGED <<fileVars, settings, levels, formats, refused>>

\* A line that begins a section; the rules need a default format first.
BeginSection(s) ==
  /\ status = "reading"
  /\ Ordered(s)
  /\ section' = s
  /\ IF s < 4
     THEN UNCHANGED <<settings, default_format, time_cache_count>>
     ELSE /\ settings.format.ok
          /\ settings' = IF settings.reload # 0 /\ settings.fsync >= settings.reload
                         THEN [settings EXCEPT !.fsync = 0] ELSE settings
          /\ default_format' = NewFormat(settings.format, time_cache_count)
          /\ time_cache_count' = Counted(settings.format.convs, time_cache_count)
  /\ UNCHANGED <<status, lines, levels, formats, rules, refused>>

\* What stops the reading: a wrong line under strict init and, whatever the
\* settings, a section that is not one or comes too late, a default format that
\* is wrong, a lock file that cannot be opened, a setting without value, a line
\* before every section, or memory that runs out.
Fail == status = "reading" /\ Abandon

\* [global]
Setting(line) ==
  /\ Reading(1)
  /\ \/ /\ line.name \in DOMAIN settings
        /\ settings' = [settings EXCEPT ![line.name] =
                          IF line.name = "strict" THEN line.value \/ AlwaysStrict ELSE line.value]
        /\ Read
     \/ line.name \notin DOMAIN settings /\ LeaveOut /\ UNCHANGED settings
  /\ UNCHANGED <<levels, formats, rules, default_format, time_cache_count>>

\* [levels]: cdlog_level_list_set
Level(line) ==
  /\ Reading(2)
  /\ \/ LevelOk(line) /\ levels' = ListSet(levels, line.number, line.name) /\ Read
     \/ ~LevelOk(line) /\ LeaveOut /\ UNCHANGED levels
  /\ UNCHANGED <<settings, formats, rules, default_format, time_cache_count>>

\* [formats]: cdlog_format_new.  The indexes a wrong format took stay taken.
Format(line) ==
  /\ Reading(3)
  /\ \/ line.ok /\ formats' = ListAdd(formats, NewFormat(line, time_cache_count)) /\ Read
     \/ ~line.ok /\ LeaveOut /\ UNCHANGED formats
  /\ time_cache_count' = Counted(line.convs, time_cache_count)
  /\ UNCHANGED <<settings, levels, rules, default_format>>

\* [rules]: cdlog_rule_new.  The format is looked for before the paths are read.
RuleOk(line) == FormatKnown(line.format) /\ line.ok

Rule(line) ==
  /\ Reading(4)
  /\ \/ RuleOk(line) /\ rules' = ListAdd(rules, NewRule(line, time_cache_count)) /\ Read
     \/ ~RuleOk(line) /\ LeaveOut /\ UNCHANGED rules
  /\ time_cache_count' = IF FormatKnown(line.format)
                         THEN Counted(line.archive, Counted(line.path, time_cache_count))
                         ELSE time_cache_count
  /\ UNCHANGED <<settings, levels, formats, default_format>>

\* The lines and the section are variables of the reading only.
EndOfFile ==
  /\ status = "reading"
  /\ status' = "built"
  /\ section' = 0
  /\ lines' = 0
  /\ UNCHANGED <<partVars, refused>>

ConfNext ==
  \/ OpenFile
  \/ WithoutFile
  \/ \E s \in 1..4 : BeginSection(s)
  \/ \E line \in Settings : Setting(line)
  \/ \E line \in LevelLines : Level(line)
  \/ \E line \in FormatLines : Format(line)
  \/ \E line \in RuleLines : Rule(line)
  \/ Fail
  \/ EndOfFile

-----------------------------------------------------------------------------
SpecType == [conv : {"d", "ms", "p"}, index : Nat \cup {NoIndex}]

FormatType == [name : STRING, specs : Seq(SpecType)]

RuleType == [category : Seq(STRING) \ {<<>>}, compare : CompareChar, level : LevelOrNone,
             format : FormatType, path : Seq(SpecType), archive : Seq(SpecType),
             perms : Nat, fsync : Nat]

ConfTypeOK ==
  /\ status \in {"none", "reading", "built"}
  /\ section \in 0..4
  /\ lines \in 0 .. MaxLines
  /\ settings \in SettingType
  /\ DOMAIN levels.slot \subseteq LevelRange /\ Items(levels) \subseteq STRING
  /\ Items(formats) \subseteq FormatType
  /\ Items(rules) \subseteq RuleType
  /\ default_format \in FormatType
  /\ time_cache_count \in Nat
  /\ refused \subseteq 1..4

-----------------------------------------------------------------------------
\* Properties.

\* Whatever [levels] defines, in whatever order, no level is written outside the
\* array, and level 254, shown for a level without a name, has one: spec.c
\* follows what cdlog_level_list_get returns without a test.
LevelsReady == InBounds(levels) /\ 254 \in DOMAIN levels.slot

\* When a configuration is ready, every rule has been made from what the file
\* says in the end: no setting has changed after a rule has copied it, its
\* format is one of the configuration's, and the default format is the last
\* one set.  Periods of fsync the next reload would cut off are not used.
RulesSettled ==
  status = "built" =>
    \A r \in Items(rules) :
      /\ r.perms = settings.perms
      /\ r.fsync \in {0, settings.fsync}
      /\ r.fsync # 0 /\ settings.reload # 0 => r.fsync < settings.reload
      /\ r.format \in Items(formats) \cup {default_format}
      /\ [i \in DOMAIN default_format.specs |-> default_format.specs[i].conv]
           = settings.format.convs

\* A configuration that is strict in the end has all the levels, formats and
\* rules its file asks for (guide: "any error will cause zlog_init() to fail").
StrictMeansAll == status = "built" /\ settings.strict => refused \subseteq {1}

\* The lists of conversions of a configuration, by what they belong to.
Owners ==
  ({"format"} \X DOMAIN formats.slot) \cup ({"path", "archive"} \X DOMAIN rules.slot)
    \cup {<<"default", 0>>}

ConvsOf(o) ==
  CASE o[1] = "default" -> default_format.specs
    [] o[1] = "format" -> formats.slot[o[2]].specs
    [] o[1] = "path" -> rules.slot[o[2]].path
    [] o[1] = "archive" -> rules.slot[o[2]].archive

\* No two conversions of the time in these lists share a cache, within a list
\* or between two, and each has one of the first count.
Apart(lists, count) ==
  \A o, o2 \in DOMAIN lists : \A i \in DOMAIN lists[o], j \in DOMAIN lists[o2] :
    LET a == lists[o][i]
        b == lists[o2][j] IN
    IsTime(a.conv) /\ IsTime(b.conv) =>
      /\ a.index \in 0 .. count - 1
      /\ a.index = b.index => o = o2 /\ i = j

ConvLists == [o \in Owners |-> ConvsOf(o)]

\* Every conversion of the time has a cache of its own, in whatever order the
\* file makes formats, paths and archive paths, also when it makes them in vain:
\* two conversions with one cache would show each other's text.
CachesApart == Apart(ConvLists, time_cache_count)
=============================================================================
