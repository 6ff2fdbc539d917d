--------------------------- MODULE LoggingProofs ---------------------------
(***************************************************************************)
(* Logging keeps its promises for every configuration file, every name and *)
(* level, and whatever the clock and the process do.                       *)
(***************************************************************************)
EXTENDS Logging, ConfProofs, SequenceTheorems

-----------------------------------------------------------------------------
(***************************************************************************)
(* The rules a category takes.                                             *)
(***************************************************************************)
\* What cdlog_rule_match_category does, with its copy of the pattern without the
\* last character, is what the guide says a pattern matches.
THEOREM MatchesMeans ==
  ASSUME NEW pattern \in Seq(STRING) \ {<<>>}, NEW name \in Seq(STRING)
  PROVE  Matches(pattern, name) <=> Means(pattern, name)
<1> DEFINE n == Len(pattern)
           len == IF Len(name) = n - 1 THEN n - 1 ELSE n
<1>1. n \in Nat /\ n >= 1 /\ Len(name) \in Nat
  OBVIOUS
<1>2. SubSeq(pattern, 1, n) = pattern
  OBVIOUS
<1>3. Front(pattern) = SubSeq(pattern, 1, n - 1) /\ Front(pattern) \in Seq(STRING)
      /\ Len(Front(pattern)) = n - 1
  <2>1. Front(pattern) = SubSeq(pattern, 1, n - 1)
    BY DEF Front
  <2>2. SubSeq(pattern, 1, n - 1) \in Seq(STRING) /\ Len(SubSeq(pattern, 1, n - 1)) = n - 1
    <3>1. \A i \in 1 .. n - 1 : pattern[i] \in STRING
      OBVIOUS
    <3>2. 1 \in Int /\ n - 1 \in Int
      BY <1>1
    <3>3. /\ SubSeq(pattern, 1, n - 1) \in Seq(STRING)
          /\ Len(SubSeq(pattern, 1, n - 1)) = IF 1 <= n - 1 THEN (n - 1) - 1 + 1 ELSE 0
      BY <3>1, <3>2, SubSeqProperties
    <3>4. \A k \in Nat : k >= 1 => (IF 1 <= k - 1 THEN (k - 1) - 1 + 1 ELSE 0) = k - 1
      OBVIOUS
    <3> QED
      BY <1>1, <3>3, <3>4, Zenon
  <2> QED
    BY <2>1, <2>2
<1>4. CASE Len(name) = n - 1
  <2>1. ~IsPrefix(pattern, name)
    BY <1>1, <1>4 DEF IsPrefix
  <2>2. SubSeq(Front(pattern), 1, n - 1) = Front(pattern) /\ SubSeq(name, 1, n - 1) = name
    BY <1>1, <1>3, <1>4
  <2>3. IsPrefix(Front(pattern), name) <=> name = Front(pattern)
    BY <1>1, <1>3, <1>4, <2>2 DEF IsPrefix
  <2>4. IsPrefix(SubSeq(pattern, 1, len), name) <=> name = Front(pattern)
    BY <1>3, <1>4, <2>3
  <2> QED
    BY <2>1, <2>4 DEF Matches, Means
<1>5. CASE Len(name) # n - 1
  <2>1. name # Front(pattern)
    BY <1>3, <1>5
  <2>2. IsPrefix(SubSeq(pattern, 1, len), name) <=> IsPrefix(pattern, name)
    BY <1>2, <1>5
  <2> QED
    BY <2>1, <2>2 DEF Matches, Means
<1> QED
  BY <1>4, <1>5

\* Natural numbers below a bound have a greatest one.
LEMMA GreatestBelow ==
  ASSUME NEW bound \in Nat, NEW S, S \subseteq 0 .. bound - 1, S # {}
  PROVE  \E i \in S : \A j \in S : j <= i
<1> DEFINE T == {bound - i : i \in S}
<1>1. T \subseteq Nat /\ T # {}
  OBVIOUS
<1> HIDE DEF T
<1>2. PICK t \in T : \A u \in T : t <= u
  BY <1>1, LeastNatural
<1>3. PICK i \in S : t = bound - i
  BY <1>2 DEF T
<1>4. \A j \in S : bound - j \in T
  BY DEF T
<1>5. \A j \in S : j <= i
  BY <1>2, <1>3, <1>4
<1> QED
  BY <1>3, <1>5

\* What the code settles on: the rules that match a name, or else the last of the
\* rules for the rest.
Chosen(name) ==
  IF Matching(name) # {} THEN Matching(name)
  ELSE {i \in Wastebins : \A j \in Wastebins : j <= i}

\* The rules a category obtains are those.
LEMMA ObtainedChosen ==
  ASSUME ConfInv, NEW name \in Seq(STRING)
  PROVE  ObtainRules(rules, name) = Chosen(name)
<1> DEFINE fit == {i \in DOMAIN rules.slot : Matches(rules.slot[i].category, name)}
           match == {i \in DOMAIN rules.slot : Means(rules.slot[i].category, name)}
           waste == {i \in DOMAIN rules.slot : IsWastebin(rules.slot[i].category)}
           last == CHOOSE i \in waste : \A j \in waste : j <= i
<1>1. \A i \in DOMAIN rules.slot : rules.slot[i].category \in Seq(STRING) \ {<<>>}
  BY DEF ConfInv, ConfTypeOK, Items, RuleType
<1>2. fit = match
  BY <1>1, MatchesMeans
<1>3. waste = {i \in DOMAIN rules.slot : rules.slot[i].category = <<"!">>}
  BY DEF IsWastebin
<1>4. waste \subseteq 0 .. rules.len - 1 /\ rules.len \in Nat
  BY DEF ConfInv, ListsInv
<1>5. ObtainRules(rules, name) = IF fit # {} \/ waste = {} THEN fit ELSE {last}
  BY Zenon DEF ObtainRules
<1>6. Chosen(name) = IF match # {} THEN match ELSE {i \in waste : \A j \in waste : j <= i}
  BY <1>3, Zenon DEF Chosen, Matching, Wastebins
<1> HIDE DEF fit, match, waste
<1>7. ASSUME waste # {} PROVE {i \in waste : \A j \in waste : j <= i} = {last}
  <2>1. \E i \in waste : \A j \in waste : j <= i
    BY <1>4, <1>7, GreatestBelow
  <2>2. last \in waste /\ \A j \in waste : j <= last
    BY <2>1, Zenon
  <2> HIDE DEF last
  <2>3. \A i \in waste : i \in Int
    BY <1>4
  <2> QED
    BY <2>2, <2>3
<1> QED
  BY <1>2, <1>5, <1>6, <1>7

-----------------------------------------------------------------------------
(***************************************************************************)
(* The inductive invariant.                                                *)
(***************************************************************************)
CacheType == [sec : Nat, str : Nat]

EventType ==
  [caches : [0 .. time_cache_count - 1 -> CacheType], stamp : Nat, local : Nat,
   pid : Nat, last_pid : Nat, pid_str : Nat]

\* Before the configuration is ready nothing is logged.
BuiltInv ==
  status # "built" =>
    category = NoCategory /\ event = NoEvent /\ level = NoLevel /\ todo = {} /\ convs = <<>>
      /\ shown = Nothing /\ written = <<>>

\* A category has the rules chosen for its name, and the bitmap to them.
CategoryType ==
  [name : Names \cup {NoName}, fit : SUBSET DOMAIN rules.slot, bitmap : SUBSET LevelRange,
   floor : LevelOrNone]

CategoryInv ==
  /\ category \in CategoryType
  /\ category # NoCategory => category.fit = Chosen(category.name)
  /\ FilterExact

\* The text of a time cache is that of its second, and the text of the process
\* that of its number.
EventInv ==
  \/ event = NoEvent /\ todo = {} /\ convs = <<>>
  \/ /\ event \in EventType
     /\ \A i \in DOMAIN event.caches : event.caches[i].str = event.caches[i].sec
     /\ event.pid_str = event.last_pid

\* The conversions under way have their caches.
ConvsInv ==
  /\ convs \in Seq(SpecType)
  /\ \A i \in DOMAIN convs : convs[i].conv = "d" => convs[i].index \in 0 .. time_cache_count - 1

\* What a message has fetched, and what it shows.
FetchedInv ==
  /\ shown \in [time : SUBSET Nat, pid : SUBSET Nat]
  /\ todo # {} \/ convs # <<>> =>
       /\ now \in seen
       /\ event.stamp # 0 => event.stamp \in seen
       /\ event.pid # 0 => event.pid_str = pid
  /\ shown.time \subseteq {event.stamp}
  /\ shown.time # {} => event.stamp # 0 /\ event.stamp \in seen
  /\ shown.pid \subseteq {pid}

\* The rules have written a message in their order, before those it has still to
\* go through.
OrderInv ==
  /\ written \in Seq(DOMAIN rules.slot)
  /\ \A k, m \in DOMAIN written : k < m => written[k] < written[m]
  /\ \A k \in DOMAIN written, j \in todo : written[k] < j

Wrote == {written[k] : k \in DOMAIN written}

\* A message has been, or will be, written by the rules of its category that let
\* it through.
WrittenInv ==
  level # NoLevel =>
    /\ category # NoCategory
    /\ Wrote \cup {i \in todo : LetsThrough(rules.slot[i], level)}
         = IF level \in category.bitmap
           THEN {i \in category.fit : LetsThrough(rules.slot[i], level)} ELSE {}

LogInv ==
  /\ CachesInv
  /\ BuiltInv /\ CategoryInv /\ EventInv /\ ConvsInv /\ FetchedInv /\ WrittenInv
  /\ OrderInv
  /\ todo \subseteq category.fit
  /\ level \in LevelOrNone
  /\ now \in Seconds /\ pid \in Pids

LEMMA NoCategoryInv == category = NoCategory => CategoryInv
<1> SUFFICES ASSUME category = NoCategory PROVE CategoryInv
  OBVIOUS
<1>1. NoLevel \in LevelOrNone
  BY DEF LevelOrNone
<1>2. category \in CategoryType
  BY <1>1 DEF CategoryType, NoCategory
<1> QED
  BY <1>2 DEF CategoryInv, FilterExact

\* Nothing is out of order before a rule writes, or while none does.
LEMMA OrderForgotten == written' = <<>> => OrderInv'
BY DEF OrderInv

LEMMA OrderStays ==
  OrderInv /\ written' = written /\ todo' \subseteq todo /\ rules' = rules => OrderInv'
BY DEF OrderInv

LEMMA LogInvInit == Init => LogInv
<1> SUFFICES ASSUME Init PROVE LogInv
  OBVIOUS
<1>1. CachesInv
  BY CachesInvInit DEF Init
<1>2. BuiltInv /\ CategoryInv
  BY NoCategoryInv DEF Init, BuiltInv
<1>3. EventInv /\ FetchedInv
  BY DEF Init, EventInv, FetchedInv, Nothing
<1>4. ConvsInv
  BY DEF Init, ConvsInv
<1>5. WrittenInv /\ OrderInv
  BY DEF Init, WrittenInv, OrderInv
<1> QED
  BY <1>1, <1>2, <1>3, <1>4, <1>5 DEF Init, LogInv, LevelOrNone, NoCategory

\* While the configuration is read nothing else happens, and once it is ready it
\* stays.
LEMMA LogInvConfigure == LogInv /\ Configure => LogInv'
<1> SUFFICES ASSUME LogInv, Configure PROVE LogInv'
  OBVIOUS
<1>1. status # "built"
  BY DEF Configure, ConfNext, OpenFile, WithoutFile, BeginSection, Setting, Level, Format, Rule,
         Reading, Fail, EndOfFile
<1>2. /\ category = NoCategory /\ event = NoEvent /\ level = NoLevel /\ todo = {} /\ convs = <<>>
      /\ shown = Nothing /\ written = <<>>
  BY <1>1 DEF LogInv, BuiltInv
<1>3. UNCHANGED <<category, event, level, todo, convs, now, pid, written, shown, seen>>
  BY DEF Configure, appVars
<1>4. CachesInv'
  BY CachesInvNext DEF Configure, LogInv
<1>5. BuiltInv' /\ CategoryInv'
  <2>1. (category = NoCategory)'
    BY <1>2, <1>3
  <2>2. CategoryInv'
    BY <2>1, NoCategoryInv, PTL
  <2> QED
    BY <1>2, <1>3, <2>2 DEF BuiltInv
<1>6. EventInv' /\ FetchedInv'
  BY <1>2, <1>3 DEF EventInv, FetchedInv, Nothing
<1>7. ConvsInv'
  BY <1>2, <1>3 DEF ConvsInv
<1>8. WrittenInv' /\ OrderInv'
  BY <1>2, <1>3, OrderForgotten DEF WrittenInv
<1> QED
  BY <1>2, <1>3, <1>4, <1>5, <1>6, <1>7, <1>8 DEF LogInv, NoCategory

\* What the rest of the invariant says of the rules.
LEMMA RuleFacts ==
  ASSUME CachesInv, NEW i \in DOMAIN rules.slot
  PROVE  /\ rules.slot[i] \in RuleType
         /\ rules.slot[i].path \in Seq(SpecType) /\ rules.slot[i].format.specs \in Seq(SpecType)
         /\ \A k \in DOMAIN rules.slot[i].path : rules.slot[i].path[k].conv = "d" =>
              rules.slot[i].path[k].index \in 0 .. time_cache_count - 1
         /\ \A k \in DOMAIN rules.slot[i].format.specs :
              rules.slot[i].format.specs[k].conv = "d" =>
                rules.slot[i].format.specs[k].index \in 0 .. time_cache_count - 1
<1>1. rules.slot[i] \in Items(rules) /\ rules.slot[i] \in RuleType
  BY DEF CachesInv, ConfInv, ConfTypeOK, Items
<1>2. rules.slot[i].path \in Seq(SpecType) /\ rules.slot[i].format.specs \in Seq(SpecType)
  BY <1>1 DEF RuleType, FormatType
<1>3. \A o \in Owners : \A k \in DOMAIN ConvLists[o] : ConvLists[o][k].conv = "d" =>
        ConvLists[o][k].index \in 0 .. time_cache_count - 1
  BY ConvListsListed DEF CachesInv, CachesApart, Apart, ListedNow, IsTime
<1>4. <<"path", i>> \in Owners /\ ConvLists[<<"path", i>>] = rules.slot[i].path
  <2>1. <<"path", i>> \in Owners
    BY DEF Owners
  <2> QED
    BY <2>1, ConvListsListed DEF ListedNow, Listed
<1>5. \E o \in Owners : ConvLists[o] = rules.slot[i].format.specs
  <2>1. rules.slot[i].format \in Items(formats) \cup {default_format}
    BY <1>1 DEF CachesInv, ConfInv, RulesInv
  <2>2. CASE rules.slot[i].format = default_format
    <3>1. <<"default", 0>> \in Owners
      BY DEF Owners
    <3> QED
      BY <2>2, <3>1, ConvListsListed DEF ListedNow, Listed
  <2>3. CASE rules.slot[i].format \in Items(formats)
    <3>1. PICK j \in DOMAIN formats.slot : rules.slot[i].format = formats.slot[j]
      BY <2>3 DEF Items
    <3>2. <<"format", j>> \in Owners
      BY DEF Owners
    <3> QED
      BY <3>1, <3>2, ConvListsListed DEF ListedNow, Listed
  <2> QED
    BY <2>1, <2>2, <2>3
<1> QED
  BY <1>1, <1>2, <1>3, <1>4, <1>5

LEMMA OverlapExact ==
  ASSUME CachesInv, NEW fit, fit \subseteq DOMAIN rules.slot
  PROVE  Overlap(rules, fit)
           = {m \in LevelRange : \E i \in fit : LetsThrough(rules.slot[i], m)}
<1>1. \A i \in fit : /\ rules.slot[i].compare \in CompareChar
                     /\ rules.slot[i].level \in LevelOrNone
  BY RuleFacts DEF RuleType
<1>2. \A i \in fit : \A m \in LevelRange :
        m \in Bitmap(rules.slot[i]) <=> LetsThrough(rules.slot[i], m)
  BY <1>1, BitmapExact
<1>3. \A i \in fit : Bitmap(rules.slot[i]) \subseteq LevelRange
  <2> SUFFICES ASSUME NEW i \in fit PROVE Bitmap(rules.slot[i]) \subseteq LevelRange
    OBVIOUS
  <2>1. PICK rule : rule = rules.slot[i]
    OBVIOUS
  <2>2. One(rule.level) \subseteq LevelRange /\ Tail8(rule.level) \subseteq LevelRange
    BY DEF One, Tail8
  <2>3. rule.compare \in {"=", "!", "*", "."}
    BY <1>1, <2>1 DEF CompareChar
  <2>4. Bitmap(rule) \subseteq LevelRange
    <3>1. CASE rule.compare = "="
      BY <2>2, <3>1, Zenon DEF Bitmap
    <3>2. CASE rule.compare = "!"
      <4>1. Bitmap(rule) = LevelRange \ One(rule.level)
        BY <3>2, Zenon DEF Bitmap
      <4> QED
        BY <4>1
    <3>3. CASE rule.compare = "*"
      <4>1. Bitmap(rule) = LevelRange
        BY <3>3, Zenon DEF Bitmap
      <4> QED
        BY <4>1
    <3>4. CASE rule.compare = "."
      BY <2>2, <3>4, Zenon DEF Bitmap
    <3> QED
      BY <2>3, <3>1, <3>2, <3>3, <3>4
  <2> QED
    BY <2>1, <2>4
<1> QED
  BY <1>2, <1>3 DEF Overlap

LEMMA LogInvGetCategory ==
  ASSUME NEW name \in Names PROVE LogInv /\ GetCategory(name) => LogInv'
<1> SUFFICES ASSUME LogInv, GetCategory(name) PROVE LogInv'
  OBVIOUS
<1> DEFINE fit == ObtainRules(rules, name)
<1>1. /\ status = "built" /\ todo = {} /\ convs = <<>> /\ category = NoCategory
      /\ category' = [name |-> name, fit |-> fit, bitmap |-> Overlap(rules, fit), floor |-> NoLevel]
      /\ UNCHANGED <<confVars, event, level, todo, convs, now, pid, written, shown, seen>>
  BY DEF GetCategory, Idle
<1>2. fit = Chosen(name) /\ fit \subseteq DOMAIN rules.slot
  <2>1. fit = Chosen(name)
    BY ObtainedChosen, CategoriesAssumption DEF LogInv, CachesInv
  <2> QED
    BY <2>1 DEF Chosen, Matching, Wastebins
<1>3. Overlap(rules, fit) = {m \in LevelRange : \E i \in fit : LetsThrough(rules.slot[i], m)}
  BY <1>2, OverlapExact DEF LogInv
<1> HIDE DEF fit
<1>4. /\ category'.name = name /\ category'.fit = fit /\ category'.floor = NoLevel
      /\ category'.bitmap = Overlap(rules, fit)
  BY <1>1
<1>5. level = NoLevel
  BY <1>1 DEF LogInv, WrittenInv
<1>6. CachesInv'
  BY <1>1, CachesInvNext DEF LogInv
<1>7. rules' = rules /\ status' = status /\ time_cache_count' = time_cache_count
  BY <1>1 DEF confVars, partVars
<1>8. CategoryInv'
  <2>1. Chosen(name)' = Chosen(name)
    BY <1>7 DEF Chosen, Matching, Wastebins
  <2> QED
    <3>1. category' \in CategoryType'
      <4>1. NoLevel \in LevelOrNone
        BY DEF LevelOrNone
      <4> QED
        BY <1>1, <1>2, <1>3, <1>7, <4>1 DEF CategoryType
    <3> QED
      BY <1>2, <1>3, <1>4, <1>7, <2>1, <3>1 DEF CategoryInv, FilterExact
<1>9. BuiltInv' /\ EventInv' /\ ConvsInv' /\ FetchedInv' /\ WrittenInv'
  BY <1>1, <1>5, <1>7
     DEF LogInv, BuiltInv, EventInv, EventType, ConvsInv, FetchedInv, WrittenInv
<1>10. OrderInv'
  BY <1>1, <1>7, OrderStays DEF LogInv
<1> QED
  BY <1>1, <1>6, <1>8, <1>9, <1>10 DEF LogInv

LEMMA Settled ==
  ASSUME LogInv, UNCHANGED confVars
  PROVE  /\ CachesInv' /\ status' = status /\ rules' = rules
         /\ time_cache_count' = time_cache_count
         /\ EventType' = EventType
         /\ \A name : Chosen(name)' = Chosen(name)
<1>1. CachesInv'
  BY CachesInvNext DEF LogInv
<1>2. status' = status /\ rules' = rules /\ time_cache_count' = time_cache_count
  BY DEF confVars, partVars
<1> QED
  BY <1>1, <1>2 DEF EventType, Chosen, Matching, Wastebins

LEMMA LogInvLevelSwitch ==
  ASSUME NEW l \in Switches PROVE LogInv /\ LevelSwitch(l) => LogInv'
<1> SUFFICES ASSUME LogInv, LevelSwitch(l) PROVE LogInv'
  OBVIOUS
<1>1. /\ status = "built" /\ todo = {} /\ convs = <<>> /\ category # NoCategory
      /\ category' = [category EXCEPT !.bitmap = Tail8(l), !.floor = l]
      /\ level' = NoLevel /\ written' = <<>> /\ shown' = Nothing
      /\ UNCHANGED <<confVars, event, todo, convs, now, pid>>
  BY DEF LevelSwitch, Idle, Forget
<1>2. l \in LevelRange /\ Tail8(l) = {m \in LevelRange : m >= l} /\ l # NoLevel
  BY LevelsAssumption, Tail8Exact DEF LevelRange, NoLevel
<1>3. CachesInv' /\ status' = status /\ rules' = rules /\ time_cache_count' = time_cache_count
      /\ EventType' = EventType /\ \A name : Chosen(name)' = Chosen(name)
  BY <1>1, Settled
<1>4. /\ category'.name = category.name /\ category'.fit = category.fit
      /\ category'.bitmap = Tail8(l) /\ category'.floor = l
      /\ category' \in CategoryType
  BY <1>1, <1>2 DEF LogInv, CategoryInv, CategoryType, LevelOrNone
<1>5. CategoryInv'
  BY <1>1, <1>2, <1>3, <1>4 DEF LogInv, CategoryInv, CategoryType, FilterExact
<1>6. BuiltInv' /\ EventInv' /\ ConvsInv' /\ FetchedInv' /\ WrittenInv'
  BY <1>1, <1>3
     DEF LogInv, BuiltInv, EventInv, ConvsInv, FetchedInv, WrittenInv, Nothing
<1>7. OrderInv'
  BY <1>1, OrderForgotten
<1> QED
  BY <1>1, <1>3, <1>5, <1>6, <1>7 DEF LogInv, LevelOrNone

\* The event a message starts with.
LEMMA FetchedType ==
  ASSUME EventInv, time_cache_count \in Nat, NEW e, e = Fetched(event)
  PROVE  /\ e \in EventType /\ e.stamp = 0 /\ e.pid = 0 /\ e.pid_str = e.last_pid
         /\ \A i \in DOMAIN e.caches : e.caches[i].str = e.caches[i].sec
<1> DEFINE old == IF event = NoEvent THEN NewEvent(time_cache_count) ELSE event
           caches == [i \in 0 .. time_cache_count - 1 |-> [sec |-> 0, str |-> 0]]
<1>1. /\ caches \in [0 .. time_cache_count - 1 -> CacheType]
      /\ \A i \in DOMAIN caches : caches[i].str = caches[i].sec
  BY DEF CacheType
<1>2. old \in EventType /\ old.pid_str = old.last_pid
      /\ \A i \in DOMAIN old.caches : old.caches[i].str = old.caches[i].sec
  <2>1. CASE event # NoEvent
    BY <2>1 DEF EventInv
  <2>2. CASE event = NoEvent
    <3>1. old = NewEvent(time_cache_count)
      BY <2>2
    <3>2. old = [NoEvent EXCEPT !.caches = caches]
      BY <3>1, Zenon DEF NewEvent
    <3> HIDE DEF caches, old
    <3>3. old = [caches |-> caches, stamp |-> 0, local |-> 0, pid |-> 0, last_pid |-> 0,
                 pid_str |-> 0]
      BY <3>2 DEF NoEvent
    <3> QED
      BY <1>1, <3>3 DEF EventType
  <2> QED
    BY <2>1, <2>2
<1>3. e = [old EXCEPT !.stamp = 0, !.pid = 0]
  BY Zenon DEF Fetched, Cleared
<1> HIDE DEF old
<1>4. /\ e \in EventType /\ e.stamp = 0 /\ e.pid = 0 /\ e.pid_str = old.pid_str
      /\ e.last_pid = old.last_pid /\ e.caches = old.caches
  <2>1. PICK a : a = [old EXCEPT !.stamp = 0]
    OBVIOUS
  <2>2. /\ a \in EventType /\ a.stamp = 0 /\ a.pid_str = old.pid_str
        /\ a.last_pid = old.last_pid /\ a.caches = old.caches
    BY <1>2, <2>1 DEF EventType
  <2>3. e = [a EXCEPT !.pid = 0]
    BY <1>3, <2>1
  <2> QED
    BY <2>2, <2>3 DEF EventType
<1> QED
  BY <1>2, <1>4

LEMMA LogInvLog ==
  ASSUME NEW l \in Levels PROVE LogInv /\ Log(l) => LogInv'
<1> SUFFICES ASSUME LogInv, Log(l) PROVE LogInv'
  OBVIOUS
<1>1. /\ status = "built" /\ todo = {} /\ convs = <<>> /\ category # NoCategory
      /\ level' = l /\ written' = <<>> /\ shown' = Nothing /\ seen' = {now}
      /\ UNCHANGED <<confVars, category, convs, now, pid>>
  BY DEF Log, Idle
<1>2. l \in LevelRange /\ l \in LevelOrNone
  BY LevelsAssumption DEF LevelOrNone
<1>3. CachesInv' /\ status' = status /\ rules' = rules /\ time_cache_count' = time_cache_count
      /\ EventType' = EventType /\ \A name : Chosen(name)' = Chosen(name)
  BY <1>1, Settled
<1>4. CategoryInv' /\ BuiltInv' /\ ConvsInv'
  BY <1>1, <1>3 DEF LogInv, CategoryInv, CategoryType, FilterExact, BuiltInv, ConvsInv
<1>7. OrderInv' /\ Wrote' = {}
  BY <1>1, OrderForgotten DEF Wrote
<1>5. CASE l \in category.bitmap
  <2>1. todo' = category.fit /\ event' = Fetched(event)
    BY <1>5 DEF Log
  <2>2. time_cache_count \in Nat
    BY DEF LogInv, CachesInv, ConfInv, ConfTypeOK
  <2>3. /\ event' \in EventType /\ event'.stamp = 0 /\ event'.pid = 0
        /\ event'.pid_str = event'.last_pid
        /\ \A i \in DOMAIN event'.caches : event'.caches[i].str = event'.caches[i].sec
    BY <2>1, <2>2, FetchedType DEF LogInv
  <2>4. EventInv' /\ FetchedInv'
    BY <1>1, <1>3, <2>3 DEF EventInv, FetchedInv, Nothing
  <2>5. WrittenInv'
    BY <1>1, <1>3, <1>5, <1>7, <2>1 DEF WrittenInv
  <2> QED
    BY <1>1, <1>2, <1>3, <1>4, <1>7, <2>1, <2>4, <2>5 DEF LogInv
<1>6. CASE l \notin category.bitmap
  <2>1. todo' = todo /\ event' = event
    BY <1>6 DEF Log
  <2>2. EventInv' /\ FetchedInv'
    BY <1>1, <1>3, <2>1 DEF LogInv, EventInv, FetchedInv, Nothing
  <2>3. WrittenInv'
    BY <1>1, <1>3, <1>6, <1>7, <2>1 DEF WrittenInv
  <2> QED
    BY <1>1, <1>2, <1>3, <1>4, <1>7, <2>1, <2>2, <2>3 DEF LogInv
<1> QED
  BY <1>5, <1>6

LEMMA ConcatSpecs ==
  ASSUME NEW a \in Seq(SpecType), NEW b \in Seq(SpecType), NEW count \in Nat,
         \A k \in DOMAIN a : a[k].conv = "d" => a[k].index \in 0 .. count - 1,
         \A k \in DOMAIN b : b[k].conv = "d" => b[k].index \in 0 .. count - 1
  PROVE  /\ a \o b \in Seq(SpecType)
         /\ \A k \in DOMAIN (a \o b) : (a \o b)[k].conv = "d" => (a \o b)[k].index \in 0 .. count - 1
<1>1. a \o b \in Seq(SpecType) /\ Len(a \o b) = Len(a) + Len(b)
  OBVIOUS
<1>2. ASSUME NEW k \in DOMAIN (a \o b)
      PROVE  \/ (a \o b)[k] = a[k] /\ k \in DOMAIN a
             \/ (a \o b)[k] = b[k - Len(a)] /\ k - Len(a) \in DOMAIN b
  BY <1>1
<1> QED
  BY <1>1, <1>2

LEMMA LogInvNextRule == LogInv /\ NextRule => LogInv'
<1> SUFFICES ASSUME LogInv, NextRule PROVE LogInv'
  OBVIOUS
<1>1. PICK i \in todo :
        /\ \A j \in todo : i <= j
        /\ todo' = todo \ {i}
        /\ IF LetsThrough(rules.slot[i], level)
           THEN /\ convs' = rules.slot[i].path \o rules.slot[i].format.specs
                /\ written' = Append(written, i)
           ELSE UNCHANGED <<convs, written>>
  BY DEF NextRule
<1>2. convs = <<>> /\ UNCHANGED <<confVars, category, event, level, now, pid, shown, seen>>
  BY DEF NextRule
<1>3. CachesInv' /\ status' = status /\ rules' = rules /\ time_cache_count' = time_cache_count
      /\ EventType' = EventType /\ \A name : Chosen(name)' = Chosen(name)
  BY <1>2, Settled
<1>4. status = "built" /\ i \in DOMAIN rules.slot /\ time_cache_count \in Nat /\ CachesInv
  BY DEF LogInv, BuiltInv, CategoryInv, CategoryType, CachesInv, ConfInv, ConfTypeOK
<1>5. ConvsInv'
  <2>1. CASE LetsThrough(rules.slot[i], level)
    <3>1. convs' = rules.slot[i].path \o rules.slot[i].format.specs
      BY <1>1, <2>1
    <3>2. /\ convs' \in Seq(SpecType)
          /\ \A k \in DOMAIN convs' : convs'[k].conv = "d" =>
               convs'[k].index \in 0 .. time_cache_count - 1
      BY <1>4, <3>1, RuleFacts, ConcatSpecs
    <3> QED
      BY <1>3, <3>2 DEF ConvsInv
  <2>2. CASE ~LetsThrough(rules.slot[i], level)
    BY <1>1, <1>3, <2>2 DEF LogInv, ConvsInv
  <2> QED
    BY <2>1, <2>2
<1>6. CategoryInv' /\ BuiltInv'
  BY <1>2, <1>3, <1>4 DEF LogInv, CategoryInv, CategoryType, FilterExact, BuiltInv
<1>7. EventInv' /\ FetchedInv'
  <2>1. todo # {} /\ event' = event
    BY <1>1, <1>2
  <2> QED
    BY <1>2, <1>3, <2>1 DEF LogInv, EventInv, FetchedInv
<1>8. WrittenInv' /\ OrderInv'
  <2>1. /\ written \in Seq(DOMAIN rules.slot) /\ OrderInv /\ WrittenInv
        /\ todo \subseteq DOMAIN rules.slot /\ DOMAIN rules.slot \subseteq Nat
    BY DEF LogInv, OrderInv, CategoryInv, CategoryType, CachesInv, ConfInv, ListsInv
  <2>2. \A j \in todo' : j \in todo /\ i < j
    BY <1>1, <2>1
  <2>3. CASE LetsThrough(rules.slot[i], level)
    <3>1. written' = Append(written, i)
      BY <1>1, <2>3
    <3>2. Wrote' = Wrote \cup {i}
      BY <1>4, <2>1, <3>1 DEF Wrote
    <3>3. OrderInv'
      BY <1>3, <1>4, <2>1, <2>2, <3>1 DEF OrderInv
    <3> QED
      BY <1>1, <1>2, <1>3, <2>1, <2>3, <3>2, <3>3 DEF WrittenInv
  <2>4. CASE ~LetsThrough(rules.slot[i], level)
    <3>1. written' = written /\ Wrote' = Wrote
      BY <1>1, <2>4 DEF Wrote
    <3>2. OrderInv'
      BY <1>1, <1>3, <2>1, <3>1, OrderStays
    <3> QED
      BY <1>1, <1>2, <1>3, <2>1, <2>4, <3>1, <3>2 DEF WrittenInv
  <2> QED
    BY <2>3, <2>4
<1>9. todo' \subseteq category'.fit
  BY <1>1, <1>2 DEF LogInv
<1> QED
  BY <1>2, <1>3, <1>5, <1>6, <1>7, <1>8, <1>9 DEF LogInv

\* Parts of an event after each conversion.
LEMMA StampedParts ==
  ASSUME NEW e \in EventType, now \in Nat \ {0}, NEW f, f = Stamped(e)
  PROVE  /\ f \in EventType
         /\ f.stamp = IF e.stamp = 0 THEN now ELSE e.stamp
         /\ f.stamp # 0
         /\ f.caches = e.caches /\ f.pid = e.pid /\ f.pid_str = e.pid_str /\ f.last_pid = e.last_pid
<1>1. PICK stamp \in Nat : stamp = (IF e.stamp = 0 THEN now ELSE e.stamp) /\ stamp # 0
  BY DEF EventType
<1>2. f = [e EXCEPT !.stamp = stamp]
  BY <1>1 DEF Stamped
<1> QED
  BY <1>1, <1>2 DEF EventType

LEMMA TimedParts ==
  ASSUME NEW e \in EventType, NEW index \in 0 .. time_cache_count - 1,
         \A i \in DOMAIN e.caches : e.caches[i].str = e.caches[i].sec,
         NEW f, f = Timed(e, index)
  PROVE  /\ f \in EventType
         /\ f.caches[index].str = e.stamp
         /\ \A i \in DOMAIN f.caches : f.caches[i].str = f.caches[i].sec
         /\ f.stamp = e.stamp /\ f.pid = e.pid /\ f.pid_str = e.pid_str /\ f.last_pid = e.last_pid
<1>1. /\ e.stamp \in Nat /\ e.local \in Nat /\ index \in DOMAIN e.caches
      /\ e.caches \in [0 .. time_cache_count - 1 -> CacheType]
  BY DEF EventType
<1>2. PICK local : local = e.stamp
  OBVIOUS
<1>3. (IF Outdated(e.local, e.stamp) THEN e.stamp ELSE e.local) = local
  BY <1>2 DEF Outdated
<1>4. PICK cache : cache = IF Outdated(e.caches[index].sec, e.stamp)
                           THEN [sec |-> e.stamp, str |-> local] ELSE e.caches[index]
  OBVIOUS
<1>5. cache \in CacheType /\ cache.sec = e.stamp /\ cache.str = e.stamp
  BY <1>1, <1>2, <1>4 DEF Outdated, CacheType
<1>6. f = [e EXCEPT !.local = local, !.caches[index] = cache]
  BY <1>3, <1>4 DEF Timed
<1>7. PICK caches : caches = [e.caches EXCEPT ![index] = cache]
  OBVIOUS
<1>8. /\ caches \in [0 .. time_cache_count - 1 -> CacheType] /\ caches[index] = cache
      /\ \A i \in DOMAIN caches : caches[i].str = caches[i].sec
  BY <1>1, <1>5, <1>7
<1>9. f = [[e EXCEPT !.local = local] EXCEPT !.caches = caches]
  BY <1>6, <1>7 DEF EventType
<1>10. PICK g : g = [e EXCEPT !.local = local]
  OBVIOUS
<1>11. /\ g \in EventType /\ g.stamp = e.stamp /\ g.pid = e.pid /\ g.pid_str = e.pid_str
       /\ g.last_pid = e.last_pid
  BY <1>1, <1>2, <1>10 DEF EventType
<1>12. f = [g EXCEPT !.caches = caches]
  BY <1>9, <1>10
<1>13. /\ f \in EventType /\ f.caches = caches /\ f.stamp = g.stamp /\ f.pid = g.pid
       /\ f.pid_str = g.pid_str /\ f.last_pid = g.last_pid
  BY <1>8, <1>11, <1>12 DEF EventType
<1> QED
  BY <1>5, <1>8, <1>11, <1>13

LEMMA IdentifiedParts ==
  ASSUME NEW e \in EventType, pid \in Nat \ {0}, e.pid # 0 => e.pid_str = pid,
         e.pid_str = e.last_pid, NEW f, f = Identified(e)
  PROVE  /\ f \in EventType /\ f.pid # 0 /\ f.pid_str = pid /\ f.pid_str = f.last_pid
         /\ f.stamp = e.stamp /\ f.caches = e.caches
<1>1. CASE e.pid # 0
  BY <1>1 DEF Identified
<1>2. CASE e.pid = 0
  <2>1. f = [e EXCEPT !.pid = pid, !.last_pid = pid, !.pid_str = IF pid # e.last_pid THEN pid ELSE @]
    BY <1>2 DEF Identified
  <2>2. f = [e EXCEPT !.pid = pid, !.last_pid = pid, !.pid_str = pid]
    BY <2>1 DEF EventType
  <2> QED
    BY <2>2 DEF EventType
<1> QED
  BY <1>1, <1>2

LEMMA LogInvConvert == LogInv /\ Convert => LogInv'
<1> SUFFICES ASSUME LogInv, Convert PROVE LogInv'
  OBVIOUS
<1>1. /\ convs # <<>> /\ convs' = Tail(convs)
      /\ UNCHANGED <<confVars, category, level, todo, now, pid, written, seen>>
  BY DEF Convert
<1>2. CachesInv' /\ status' = status /\ rules' = rules /\ time_cache_count' = time_cache_count
      /\ EventType' = EventType /\ \A name : Chosen(name)' = Chosen(name)
  BY <1>1, Settled
<1>3. /\ event \in EventType /\ event.pid_str = event.last_pid
      /\ \A i \in DOMAIN event.caches : event.caches[i].str = event.caches[i].sec
  BY <1>1 DEF LogInv, EventInv
<1>4. now \in Nat \ {0} /\ pid \in Nat \ {0}
  BY ClockAssumption DEF LogInv
<1>5. /\ now \in seen /\ (event.stamp # 0 => event.stamp \in seen)
      /\ (event.pid # 0 => event.pid_str = pid)
      /\ shown.time \subseteq {event.stamp} /\ shown.pid \subseteq {pid}
      /\ (shown.time # {} => event.stamp # 0)
      /\ shown \in [time : SUBSET Nat, pid : SUBSET Nat]
  BY <1>1 DEF LogInv, FetchedInv
<1>6. Head(convs) \in SpecType
      /\ (Head(convs).conv = "d" => Head(convs).index \in 0 .. time_cache_count - 1)
  BY <1>1 DEF LogInv, ConvsInv
<1>7. ConvsInv'
  <2>1. Tail(convs) \in Seq(SpecType) /\ \A k \in DOMAIN Tail(convs) :
          Tail(convs)[k] = convs[k + 1] /\ k + 1 \in DOMAIN convs
    BY <1>1 DEF LogInv, ConvsInv
  <2> QED
    BY <1>1, <1>2, <2>1 DEF LogInv, ConvsInv
<1>8. CategoryInv' /\ BuiltInv' /\ WrittenInv' /\ OrderInv'
  <2>1. status = "built"
    BY <1>1 DEF LogInv, BuiltInv
  <2>2. CategoryInv' /\ BuiltInv'
    BY <1>1, <1>2, <2>1 DEF LogInv, CategoryInv, CategoryType, FilterExact, BuiltInv
  <2>3. WrittenInv' /\ OrderInv'
    BY <1>1, <1>2, OrderStays DEF LogInv, WrittenInv, Wrote
  <2> QED
    BY <2>2, <2>3
<1>9. EventInv' /\ FetchedInv'
  <2> SUFFICES /\ event' \in EventType /\ event'.pid_str = event'.last_pid
               /\ \A i \in DOMAIN event'.caches : event'.caches[i].str = event'.caches[i].sec
               /\ (event'.stamp # 0 => event'.stamp \in seen)
               /\ (event'.pid # 0 => event'.pid_str = pid)
               /\ shown'.time \subseteq {event'.stamp} /\ shown'.pid \subseteq {pid}
               /\ (shown'.time # {} => event'.stamp # 0 /\ event'.stamp \in seen)
               /\ shown' \in [time : SUBSET Nat, pid : SUBSET Nat]
    BY <1>1, <1>2, <1>5 DEF EventInv, FetchedInv
  <2>1. PICK spec \in SpecType : spec = Head(convs)
    BY <1>6
  <2>2. \/ /\ spec.conv = "d" /\ event' = Timed(Stamped(event), spec.index)
           /\ shown' = [shown EXCEPT !.time = @ \cup {event'.caches[spec.index].str}]
        \/ /\ event' = Stamped(event)
           /\ shown' = [shown EXCEPT !.time = @ \cup {event'.stamp}]
        \/ /\ event' = Identified(event)
           /\ shown' = [shown EXCEPT !.pid = @ \cup {event'.pid_str}]
    BY <2>1, Zenon DEF Convert
  <2>3. PICK f : f = Stamped(event)
    OBVIOUS
  <2>4. /\ f \in EventType /\ f.stamp = (IF event.stamp = 0 THEN now ELSE event.stamp)
        /\ f.stamp # 0 /\ f.caches = event.caches /\ f.pid = event.pid
        /\ f.pid_str = event.pid_str /\ f.last_pid = event.last_pid
    BY <1>3, <1>4, <2>3, StampedParts
  <2>5. f.stamp \in seen /\ f.stamp \in Nat /\ (shown.time # {} => f.stamp = event.stamp)
    BY <1>5, <2>4 DEF EventType
  <2>6. \A s : s = f.stamp => shown.time \cup {s} \subseteq {s}
    BY <1>5, <2>5
  <2>7. CASE /\ spec.conv = "d" /\ event' = Timed(f, spec.index)
             /\ shown' = [shown EXCEPT !.time = @ \cup {event'.caches[spec.index].str}]
    <3>1. spec.index \in 0 .. time_cache_count - 1
      BY <1>6, <2>1, <2>7
    <3>2. \A i \in DOMAIN f.caches : f.caches[i].str = f.caches[i].sec
      BY <1>3, <2>4
    <3>3. /\ event' \in EventType /\ event'.caches[spec.index].str = f.stamp
          /\ \A i \in DOMAIN event'.caches : event'.caches[i].str = event'.caches[i].sec
          /\ event'.stamp = f.stamp /\ event'.pid = f.pid /\ event'.pid_str = f.pid_str
          /\ event'.last_pid = f.last_pid
      BY <2>4, <2>7, <3>1, <3>2, TimedParts
    <3>4. shown'.time = shown.time \cup {f.stamp} /\ shown'.pid = shown.pid
          /\ shown' \in [time : SUBSET Nat, pid : SUBSET Nat]
      BY <1>5, <2>5, <2>7, <3>3
    <3> QED
      BY <1>3, <1>5, <2>4, <2>5, <2>6, <3>3, <3>4
  <2>8. CASE event' = f /\ shown' = [shown EXCEPT !.time = @ \cup {event'.stamp}]
    <3>1. shown'.time = shown.time \cup {f.stamp} /\ shown'.pid = shown.pid
          /\ shown' \in [time : SUBSET Nat, pid : SUBSET Nat]
      BY <1>5, <2>5, <2>8
    <3> QED
      BY <1>3, <1>5, <2>4, <2>5, <2>6, <2>8, <3>1
  <2>9. CASE event' = Identified(event) /\ shown' = [shown EXCEPT !.pid = @ \cup {event'.pid_str}]
    <3>1. /\ event' \in EventType /\ event'.pid # 0 /\ event'.pid_str = pid
          /\ event'.pid_str = event'.last_pid
          /\ event'.stamp = event.stamp /\ event'.caches = event.caches
      BY <1>3, <1>4, <1>5, <2>9, IdentifiedParts
    <3>2. shown'.time = shown.time /\ shown'.pid = shown.pid \cup {pid}
          /\ shown' \in [time : SUBSET Nat, pid : SUBSET Nat]
      BY <1>4, <1>5, <2>9, <3>1
    <3> QED
      BY <1>3, <1>5, <3>1, <3>2
  <2> QED
    BY <2>2, <2>3, <2>7, <2>8, <2>9
<1> QED
  BY <1>1, <1>2, <1>7, <1>8, <1>9 DEF LogInv

\* What forgets the message under Idle keeps the rest.
LEMMA LogInvForgotten ==
  ASSUME LogInv, Idle, Forget, UNCHANGED <<confVars, category, event, todo, convs>>,
         now' \in Seconds, pid' \in Pids
  PROVE  LogInv'
<1>1. /\ status = "built" /\ todo = {} /\ convs = <<>>
      /\ level' = NoLevel /\ shown' = Nothing /\ written' = <<>>
  BY DEF Idle, Forget
<1>2. CachesInv' /\ status' = status /\ rules' = rules /\ time_cache_count' = time_cache_count
      /\ EventType' = EventType /\ \A name : Chosen(name)' = Chosen(name)
  BY Settled
<1>3. CategoryInv' /\ BuiltInv' /\ ConvsInv' /\ EventInv'
  BY <1>1, <1>2
     DEF LogInv, CategoryInv, CategoryType, FilterExact, BuiltInv, ConvsInv, EventInv
<1>4. FetchedInv' /\ WrittenInv' /\ OrderInv'
  BY <1>1, OrderForgotten DEF FetchedInv, WrittenInv, Nothing
<1> QED
  BY <1>1, <1>2, <1>3, <1>4 DEF LogInv, LevelOrNone

LEMMA LogInvTick == LogInv /\ Tick => LogInv'
<1> SUFFICES ASSUME LogInv, Tick PROVE LogInv'
  OBVIOUS
<1>1. /\ now' \in Seconds /\ status = "built"
      /\ UNCHANGED <<confVars, category, event, todo, convs, pid>>
      /\ \/ Idle /\ Forget
         \/ ~Idle /\ seen' = seen \cup {now'} /\ UNCHANGED <<level, written, shown>>
  BY DEF Tick
<1>2. CASE Idle /\ Forget
  BY <1>1, <1>2, LogInvForgotten DEF LogInv
<1>3. CASE ~Idle /\ seen' = seen \cup {now'} /\ UNCHANGED <<level, written, shown>>
  <2>1. CachesInv' /\ status' = status /\ rules' = rules /\ time_cache_count' = time_cache_count
        /\ EventType' = EventType /\ \A name : Chosen(name)' = Chosen(name)
    BY <1>1, Settled
  <2>2. CategoryInv' /\ BuiltInv' /\ ConvsInv' /\ EventInv'
    BY <1>1, <1>3, <2>1
       DEF LogInv, CategoryInv, CategoryType, FilterExact, BuiltInv, ConvsInv, EventInv
  <2>3. FetchedInv' /\ WrittenInv' /\ OrderInv'
    BY <1>1, <1>3, <2>1, OrderStays DEF LogInv, FetchedInv, WrittenInv, Wrote
  <2> QED
    BY <1>1, <1>3, <2>1, <2>2, <2>3 DEF LogInv
<1> QED
  BY <1>1, <1>2, <1>3

LEMMA LogInvFork == LogInv /\ Fork => LogInv'
BY LogInvForgotten DEF Fork, LogInv

LEMMA LogInvStutter == LogInv /\ UNCHANGED vars => LogInv'
<1> SUFFICES ASSUME LogInv, UNCHANGED vars PROVE LogInv'
  OBVIOUS
<1>1. UNCHANGED <<confVars, category, event, level, todo, convs, now, pid, written, shown, seen>>
  BY DEF vars, appVars
<1>2. CachesInv' /\ status' = status /\ rules' = rules /\ time_cache_count' = time_cache_count
      /\ EventType' = EventType /\ \A name : Chosen(name)' = Chosen(name)
  BY <1>1, Settled
<1>3. CategoryInv' /\ BuiltInv' /\ ConvsInv' /\ EventInv'
  BY <1>1, <1>2
     DEF LogInv, CategoryInv, CategoryType, FilterExact, BuiltInv, ConvsInv, EventInv
<1>4. FetchedInv' /\ WrittenInv' /\ OrderInv'
  BY <1>1, <1>2, OrderStays DEF LogInv, FetchedInv, WrittenInv, Wrote
<1> QED
  BY <1>1, <1>2, <1>3, <1>4 DEF LogInv

LEMMA LogInvNext == LogInv /\ [Next]_vars => LogInv'
BY LogInvConfigure, LogInvGetCategory, LogInvLevelSwitch, LogInvLog, LogInvNextRule, LogInvConvert,
   LogInvTick, LogInvFork, LogInvStutter DEF Next

-----------------------------------------------------------------------------
(***************************************************************************)
(* The promises of the configuration and of the log.                       *)
(***************************************************************************)
\* The parts above hold together in every state: what the properties below
\* follow from.
THEOREM LogInvariant == Spec => []LogInv
BY LogInvInit, LogInvNext, PTL DEF Spec

\* Reading any file and logging through any category keeps every variable in its
\* type, every index of a rule or of a time cache inside its list, and every level
\* inside the array of levels, where level 254 has a name.
THEOREM TypesKept == Spec => []TypeOK
<1>1. ASSUME LogInv PROVE TypeOK
  <2>1. ConfTypeOK
    BY <1>1 DEF LogInv, CachesInv, ConfInv
  <2>2. event = NoEvent \/ DOMAIN event.caches = 0 .. time_cache_count - 1
    BY <1>1 DEF LogInv, EventInv, EventType
  <2> QED
    BY <1>1, <2>1, <2>2, ConfInvMeans
       DEF TypeOK, LogInv, CachesInv, CategoryInv, CategoryType, ConvsInv, OrderInv
<1> QED
  BY <1>1, LogInvariant, PTL

\* The rules of a ready configuration copy settings that no longer change, and
\* refer to its own formats.
THEOREM RulesAreSettled == Spec => []RulesSettled
<1>1. LogInv => RulesSettled
  BY ConfInvMeans DEF LogInv, CachesInv
<1> QED
  BY <1>1, LogInvariant, PTL

\* A ready configuration that is strict has left out no level, format or rule.
THEOREM StrictIsComplete == Spec => []StrictMeansAll
<1>1. LogInv => StrictMeansAll
  BY ConfInvMeans DEF LogInv, CachesInv
<1> QED
  BY <1>1, LogInvariant, PTL

\* No two conversions of the time share a cache of the threads' events, however
\* many formats, paths and archive paths a file has.
THEOREM CachesAreApart == Spec => []CachesApart
<1>1. LogInv => CachesApart
  BY DEF LogInv, CachesInv
<1> QED
  BY <1>1, LogInvariant, PTL

\* The bitmap of every category lets through what its rules, or the last level
\* switch, let through: exact for all 256 levels.
THEOREM FilterIsExact == Spec => []FilterExact
<1>1. LogInv => FilterExact
  BY DEF LogInv, CategoryInv
<1> QED
  BY <1>1, LogInvariant, PTL

\* A message of any level is written by exactly the rules that match its category
\* in the guide's words and ask for the level, each once and in their order, or
\* else by one of the rules for the rest.
THEOREM RulesSelected == Spec => []Selected
<1>1. ASSUME LogInv PROVE Selected
  <2> DEFINE match == Matching(category.name)
  <2> SUFFICES ASSUME Idle, level # NoLevel
               PROVE  /\ \A k, m \in DOMAIN written : k < m => written[k] < written[m]
                      /\ IF level < category.floor THEN written = <<>>
                         ELSE IF match # {} THEN Wrote = Asking(match)
                         ELSE IF Wastebins = {} THEN written = <<>>
                         ELSE \E i \in Wastebins : Wrote = Asking({i})
    BY DEF Selected, Wrote
  <2>1. /\ category # NoCategory /\ level \in LevelRange
        /\ Wrote = IF level \in category.bitmap THEN Asking(category.fit) ELSE {}
    BY <1>1 DEF LogInv, WrittenInv, Idle, LevelOrNone, Asking
  <2>2. /\ category.fit = Chosen(category.name) /\ category.floor \in LevelOrNone
        /\ FilterExact /\ OrderInv
    BY <1>1, <2>1 DEF LogInv, CategoryInv, CategoryType
  <2>3. Wrote = {} => written = <<>>
    BY <2>2 DEF Wrote, OrderInv
  <2>4. /\ level < category.floor => Wrote = {}
        /\ ~(level < category.floor) => Wrote = Asking(category.fit)
    <3>1. CASE category.floor = NoLevel
      <4>1. level \in category.bitmap <=> \E i \in category.fit : LetsThrough(rules.slot[i], level)
        BY <2>1, <2>2, <3>1 DEF FilterExact
      <4>2. ~(level < category.floor)
        BY <2>1, <3>1 DEF NoLevel, LevelRange
      <4> QED
        BY <2>1, <4>1, <4>2 DEF Asking
    <3>2. CASE category.floor # NoLevel
      <4>1. level \in category.bitmap <=> level >= category.floor
        BY <2>1, <2>2, <3>2 DEF FilterExact
      <4>2. level \in Int /\ category.floor \in Int
        BY <2>1, <2>2 DEF LevelOrNone, LevelRange, NoLevel
      <4> QED
        BY <2>1, <4>1, <4>2
    <3> QED
      BY <3>1, <3>2
  <2>5. CASE match # {}
    <3>1. category.fit = match
      BY <2>2, <2>5, Zenon DEF Chosen
    <3> QED
      BY <2>2, <2>3, <2>4, <2>5, <3>1 DEF OrderInv
  <2>6. CASE match = {}
    <3>1. category.fit = {i \in Wastebins : \A j \in Wastebins : j <= i}
      BY <2>2, <2>6, Zenon DEF Chosen
    <3>2. CASE Wastebins = {}
      BY <2>2, <2>3, <2>4, <2>6, <3>1, <3>2 DEF OrderInv, Asking
    <3>3. CASE Wastebins # {}
      <4>1. Wastebins \subseteq 0 .. rules.len - 1 /\ rules.len \in Nat
        BY <1>1 DEF LogInv, CachesInv, ConfInv, ListsInv, Wastebins
      <4>2. PICK i \in Wastebins : \A j \in Wastebins : j <= i
        BY <3>3, <4>1, GreatestBelow
      <4>3. \A j \in Wastebins : j \in Int
        BY <4>1
      <4>4. category.fit = {i}
        BY <3>1, <4>2, <4>3
      <4> QED
        BY <2>2, <2>3, <2>4, <2>6, <3>3, <4>4 DEF OrderInv
    <3> QED
      BY <3>2, <3>3
  <2> QED
    BY <2>5, <2>6
<1> QED
  BY <1>1, LogInvariant, PTL

\* Whatever the clock does while a message is written, it shows one time, and one
\* the clock had since the message was logged.
THEOREM MomentIsOne == Spec => []OneMoment
<1>1. LogInv => OneMoment
  BY DEF LogInv, FetchedInv, OneMoment
<1> QED
  BY <1>1, LogInvariant, PTL

\* A message shows the process that logs it, before and after any fork.
THEOREM PidIsCurrent == Spec => []PidCurrent
<1>1. LogInv => PidCurrent
  BY DEF LogInv, FetchedInv, PidCurrent
<1> QED
  BY <1>1, LogInvariant, PTL
=============================================================================
