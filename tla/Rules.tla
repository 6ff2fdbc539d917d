------------------------------- MODULE Rules -------------------------------
(***************************************************************************)
(* How rule.c, level_list.c and category.c decide which rules a message    *)
(* goes through: the name of a level, the bitmap of the levels a rule lets *)
(* through, the test a rule makes itself when a message reaches it, and    *)
(* the match of a rule's category with a category's name.  Names are       *)
(* sequences of characters.                                                *)
(***************************************************************************)
EXTENDS Arraylist, Integers, Sequences, SequencesExt

LevelRange == 0..255   \* the bits of a bitmap of 32 bytes

CompareChar == {"=", "!", "*", "."}

NoLevel == -1   \* cdlog_level_list_atoi does not find the name

LevelOrNone == LevelRange \cup {NoLevel}

-----------------------------------------------------------------------------
\* Mistakes a change of the code could make.
BugTail(l) ==                                          \* 7 - level % 8
  {m \in LevelRange : (m \div 8) > (l \div 8) \/ ((m \div 8) = (l \div 8) /\ (m % 8) > (l % 8))}
BugMatches(pattern, name) == pattern = <<"*">> \/ IsPrefix(pattern, name)  \* a prefix will do

-----------------------------------------------------------------------------
\* / and % of C cut off towards zero: -1 / 8 is 0 and -1 % 8 is -1.
Quotient(l) == IF l >= 0 THEN l \div 8 ELSE -((-l) \div 8)

Remainder(l) == l - 8 * Quotient(l)

\* Level m is bit BitOf(m), counted from the lowest, of byte ByteOf(m).
ByteOf(m) == m \div 8

BitOf(m) == 7 - (m % 8)

\* 1 << (7 - level % 8): bit 8, for an unknown level, falls off the byte.
One(l) == {m \in LevelRange : ByteOf(m) = Quotient(l) /\ BitOf(m) = 7 - Remainder(l)}

\* ~(0xFF << (8 - level % 8)), and 0xFF in every byte that follows.
Tail8(l) ==
  {m \in LevelRange :
     \/ ByteOf(m) > Quotient(l)
     \/ ByteOf(m) = Quotient(l) /\ BitOf(m) < 8 - Remainder(l)}

\* The bitmap cdlog_rule_new makes.
Bitmap(rule) ==
  CASE rule.compare = "=" -> One(rule.level)
    [] rule.compare = "!" -> LevelRange \ One(rule.level)
    [] rule.compare = "*" -> LevelRange
    [] rule.compare = "." -> Tail8(rule.level)

\* The test cdlog_rule_output makes.
LetsThrough(rule, m) ==
  CASE rule.compare = "=" -> m = rule.level
    [] rule.compare = "!" -> m # rule.level
    [] rule.compare = "*" -> TRUE
    [] rule.compare = "." -> m >= rule.level

\* cdlog_level_list_atoi: the lowest level of that name.
LevelNamed(levels, name) ==
  LET found == {i \in DOMAIN levels.slot : levels.slot[i] = name} IN
  IF found = {} THEN NoLevel ELSE CHOOSE i \in found : \A j \in found : i <= j

\* cdlog_rule_match_category: "aa_" matches aa and all that begins with aa_.
Matches(pattern, name) ==
  \/ pattern = <<"*">>
  \/ pattern = name
  \/ /\ Last(pattern) = "_"
     /\ LET len == IF Len(name) = Len(pattern) - 1 THEN Len(pattern) - 1 ELSE Len(pattern)
        IN IsPrefix(SubSeq(pattern, 1, len), name)

\* cdlog_rule_is_wastebin
IsWastebin(pattern) == pattern = <<"!">>

\* cdlog_category_obtain_rules: the indexes of the rules that match, or of the
\* last wastebin rule if none does.
ObtainRules(rules, name) ==
  LET fit == {i \in DOMAIN rules.slot : Matches(rules.slot[i].category, name)}
      waste == {i \in DOMAIN rules.slot : IsWastebin(rules.slot[i].category)} IN
  IF fit # {} \/ waste = {} THEN fit ELSE {CHOOSE i \in waste : \A j \in waste : j <= i}

\* cdlog_cateogry_overlap_bitmap, rule by rule.
Overlap(rules, fit) == UNION {Bitmap(rules.slot[i]) : i \in fit}
=============================================================================
