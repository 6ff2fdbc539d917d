----------------------------- MODULE ConfProofs -----------------------------
(***************************************************************************)
(* Facts about the operators of Rules and Conf, and what reading a         *)
(* configuration keeps true, for any lines and any number of them.         *)
(***************************************************************************)
EXTENDS Conf, FiniteSetTheorems, WellFoundedInduction, TLAPS

-----------------------------------------------------------------------------
(***************************************************************************)
(* Levels and bitmaps.                                                     *)
(***************************************************************************)
\* The bitmap a rule is given agrees, level by level, with the comparison the
\* rule makes: the byte, the bit in it and the shifts for the bits that follow
\* are right, and for the level -1 of an unknown name they are harmless.
THEOREM BitmapExact ==
  ASSUME NEW rule, rule.compare \in CompareChar, rule.level \in LevelOrNone, NEW m \in LevelRange
  PROVE  m \in Bitmap(rule) <=> LetsThrough(rule, m)
<1> DEFINE l == rule.level
<1>1. /\ m \in LevelRange /\ m \in Int /\ m >= 0 /\ m <= 255
      /\ l \in Int /\ l <= 255 /\ (l >= 0 \/ l = -1)
  BY DEF LevelOrNone, LevelRange, NoLevel
<1>2. (m \in One(l) <=> m = l) /\ (m \in Tail8(l) <=> m >= l)
  <2>1. CASE l = -1
    <3>1. Quotient(l) = 0 /\ Remainder(l) = -1
      BY <2>1 DEF Quotient, Remainder
    <3>2. m \notin One(l) /\ m # l
      BY <1>1, <2>1, <3>1 DEF One, ByteOf, BitOf
    <3>3. m \in Tail8(l) /\ m >= l
      BY <1>1, <2>1, <3>1 DEF Tail8, ByteOf, BitOf
    <3> QED
      BY <3>2, <3>3
  <2>2. CASE l >= 0
    <3>1. Quotient(l) = l \div 8 /\ Remainder(l) = l - 8 * (l \div 8)
      BY <2>2 DEF Quotient, Remainder
    <3>2. m \in One(l) <=> m = l
      BY <1>1, <2>2, <3>1 DEF One, ByteOf, BitOf
    <3>3. m \in Tail8(l) <=> m >= l
      BY <1>1, <2>2, <3>1 DEF Tail8, ByteOf, BitOf
    <3> QED
      BY <3>2, <3>3
  <2> QED
    BY <1>1, <2>1, <2>2
<1>3. CASE rule.compare = "="
  BY <1>2, <1>3, Zenon DEF Bitmap, LetsThrough
<1>4. CASE rule.compare = "!"
  <2>1. Bitmap(rule) = LevelRange \ One(l) /\ (LetsThrough(rule, m) <=> m # l)
    BY <1>4, Zenon DEF Bitmap, LetsThrough
  <2> QED
    BY <1>1, <1>2, <2>1
<1>5. CASE rule.compare = "*"
  BY <1>1, <1>5, Zenon DEF Bitmap, LetsThrough
<1>6. CASE rule.compare = "."
  BY <1>2, <1>6, Zenon DEF Bitmap, LetsThrough
<1> QED
  BY <1>3, <1>4, <1>5, <1>6 DEF CompareChar

\* After cdlog_level_switch the bitmap holds the levels from that one on.
LEMMA Tail8Exact ==
  ASSUME NEW l \in LevelRange
  PROVE  Tail8(l) = {m \in LevelRange : m >= l}
<1> DEFINE rule == [compare |-> ".", level |-> l]
<1>1. \A m \in LevelRange : m \in Bitmap(rule) <=> LetsThrough(rule, m)
  BY BitmapExact DEF CompareChar, LevelOrNone
<1>2. rule.compare = "." /\ rule.level = l
  OBVIOUS
<1> HIDE DEF rule
<1>3. Bitmap(rule) = Tail8(l) /\ \A m : LetsThrough(rule, m) <=> m >= l
  BY <1>2, Zenon DEF Bitmap, LetsThrough
<1>4. Tail8(l) \subseteq LevelRange
  BY DEF Tail8
<1> QED
  BY <1>1, <1>3, <1>4

-----------------------------------------------------------------------------
(***************************************************************************)
(* Array lists.                                                            *)
(***************************************************************************)
\* The parts of a list one of whose slots was set.
LEMMA ListSetParts ==
  ASSUME NEW list, NEW idx, NEW data
  PROVE  /\ ListSet(list, idx, data).size = SizeFor(list, idx)
         /\ ListSet(list, idx, data).len = Larger(list.len, idx + 1)
         /\ DOMAIN ListSet(list, idx, data).slot = DOMAIN list.slot \cup {idx}
         /\ \A i \in DOMAIN list.slot \cup {idx} :
              ListSet(list, idx, data).slot[i] = IF i = idx THEN data ELSE list.slot[i]
<1>1. /\ ListSet(list, idx, data).size = SizeFor(list, idx)
      /\ ListSet(list, idx, data).len = Larger(list.len, idx + 1)
      /\ ListSet(list, idx, data).slot = SlotsWith(list, idx, data)
  BY DEF ListSet
<1>2. /\ DOMAIN SlotsWith(list, idx, data) = DOMAIN list.slot \cup {idx}
      /\ \A i \in DOMAIN list.slot \cup {idx} :
           SlotsWith(list, idx, data)[i] = IF i = idx THEN data ELSE list.slot[i]
  BY DEF SlotsWith
<1> QED
  BY <1>1, <1>2

\* A list of names of levels that has size slots, inside which all of it is.
Allocated(list, size) ==
  /\ list.size = size /\ list.len \in Nat /\ InBounds(list)
  /\ DOMAIN list.slot \subseteq LevelRange /\ Items(list) \subseteq STRING

\* An index below twice the size is written inside the array, whose size at most
\* doubles.
LEMMA SetAllocated ==
  ASSUME NEW list, NEW size \in Nat, Allocated(list, size),
         NEW idx \in LevelRange, idx < 2 * size, NEW data \in STRING
  PROVE  /\ Allocated(ListSet(list, idx, data), IF idx > size - 1 THEN 2 * size ELSE size)
         /\ DOMAIN ListSet(list, idx, data).slot = DOMAIN list.slot \cup {idx}
<1>1. PICK set : set = ListSet(list, idx, data)
  OBVIOUS
<1>2. /\ set.size = SizeFor(list, idx) /\ set.len = Larger(list.len, idx + 1)
      /\ DOMAIN set.slot = DOMAIN list.slot \cup {idx}
      /\ \A i \in DOMAIN set.slot : set.slot[i] = IF i = idx THEN data ELSE list.slot[i]
  BY <1>1, ListSetParts
<1>3. idx \in Nat /\ DOMAIN set.slot \subseteq LevelRange /\ DOMAIN list.slot \subseteq Nat
  BY <1>2 DEF LevelRange, Allocated
<1>4. set.size = IF idx > size - 1 THEN 2 * size ELSE size
  BY <1>2, <1>3 DEF SizeFor, ExpandedSize, Larger, Allocated
<1>5. set.len \in Nat /\ InBounds(set)
  BY <1>2, <1>3, <1>4 DEF Larger, InBounds, Allocated
<1>6. Items(set) \subseteq STRING
  BY <1>2 DEF Items, Allocated
<1> QED
  BY <1>1, <1>2, <1>3, <1>4, <1>5, <1>6 DEF Allocated

\* The two cases.
LEMMA SetWithin ==
  ASSUME NEW list, NEW size \in Nat, Allocated(list, size),
         NEW idx \in LevelRange, idx < size, NEW data \in STRING
  PROVE  /\ Allocated(ListSet(list, idx, data), size)
         /\ DOMAIN ListSet(list, idx, data).slot = DOMAIN list.slot \cup {idx}
<1>1. idx < 2 * size /\ ~(idx > size - 1)
  BY DEF LevelRange
<1> QED
  BY <1>1, SetAllocated

LEMMA SetBeyond ==
  ASSUME NEW list, NEW size \in Nat, Allocated(list, size),
         NEW idx \in LevelRange, idx < 2 * size, idx >= size, NEW data \in STRING
  PROVE  /\ Allocated(ListSet(list, idx, data), 2 * size)
         /\ DOMAIN ListSet(list, idx, data).slot = DOMAIN list.slot \cup {idx}
<1>1. idx > size - 1
  BY DEF LevelRange
<1> QED
  BY <1>1, SetAllocated

\* The nine levels come in ascending order, so that no growth falls short.
LEMMA DefaultLevelsReady ==
  Allocated(DefaultLevels, 256) /\ 254 \in DOMAIN DefaultLevels.slot
<1> DEFINE a0 == ListSet(EmptyList, 0, "*")
           a1 == ListSet(a0, 20, "DEBUG")
           a2 == ListSet(a1, 40, "INFO")
           a3 == ListSet(a2, 60, "NOTICE")
           a4 == ListSet(a3, 80, "WARN")
           a5 == ListSet(a4, 100, "ERROR")
           a6 == ListSet(a5, 120, "FATAL")
           a7 == ListSet(a6, 254, "UNKNOWN")
           a8 == ListSet(a7, 255, "!")
<1>1. DefaultLevels = a8
  BY Zenon DEF DefaultLevels
<1> HIDE DEF a0, a1, a2, a3, a4, a5, a6, a7, a8
<1>2. Allocated(EmptyList, 32)
  BY DEF Allocated, EmptyList, DefaultSize, InBounds, Items
<1>3. /\ 0 \in LevelRange /\ 20 \in LevelRange /\ 40 \in LevelRange /\ 60 \in LevelRange
      /\ 80 \in LevelRange /\ 100 \in LevelRange /\ 120 \in LevelRange
      /\ 254 \in LevelRange /\ 255 \in LevelRange
      /\ 32 \in Nat /\ 64 \in Nat /\ 128 \in Nat /\ 256 \in Nat
      /\ 2 * 32 = 64 /\ 2 * 64 = 128 /\ 2 * 128 = 256
      /\ 0 < 32 /\ 20 < 32 /\ 40 < 64 /\ 40 >= 32 /\ 60 < 64 /\ 80 < 128 /\ 80 >= 64
      /\ 100 < 128 /\ 120 < 128 /\ 254 < 256 /\ 254 >= 128 /\ 255 < 256
  BY DEF LevelRange
<1>4. /\ "*" \in STRING /\ "DEBUG" \in STRING /\ "INFO" \in STRING /\ "NOTICE" \in STRING
       /\ "WARN" \in STRING /\ "ERROR" \in STRING /\ "FATAL" \in STRING /\ "UNKNOWN" \in STRING
       /\ "!" \in STRING
  BY NamesAssumption, Zenon DEF DefaultNames
<1>5. Allocated(a0, 32)
  BY <1>2, <1>3, <1>4, SetWithin, SMTT(30) DEF a0
<1>6. Allocated(a1, 32)
  BY <1>3, <1>4, <1>5, SetWithin, SMTT(30) DEF a1
<1>7. Allocated(a2, 64)
  BY <1>3, <1>4, <1>6, SetBeyond, SMTT(30) DEF a2
<1>8. Allocated(a3, 64)
  BY <1>3, <1>4, <1>7, SetWithin, SMTT(30) DEF a3
<1>9. Allocated(a4, 128)
  BY <1>3, <1>4, <1>8, SetBeyond, SMTT(30) DEF a4
<1>10. Allocated(a5, 128)
  BY <1>3, <1>4, <1>9, SetWithin, SMTT(30) DEF a5
<1>11. Allocated(a6, 128)
  <2>1. 128 \in Nat /\ 120 \in LevelRange /\ 120 < 128 /\ "FATAL" \in STRING
    BY <1>3, <1>4
  <2> QED
    BY <1>10, <2>1, SetWithin DEF a6
<1>12. Allocated(a7, 256) /\ 254 \in DOMAIN a7.slot
  BY <1>3, <1>4, <1>11, SetBeyond, SMTT(30) DEF a7
<1>13. Allocated(a8, 256) /\ 254 \in DOMAIN a8.slot
  <2>1. 256 \in Nat /\ 255 \in LevelRange /\ 255 < 256 /\ "!" \in STRING
    BY <1>3, <1>4
  <2> QED
    BY <1>12, <2>1, SetWithin DEF a8
<1> QED
  BY <1>1, <1>13

-----------------------------------------------------------------------------
(***************************************************************************)
(* What the lines are turned into.                                         *)
(***************************************************************************)
LEMMA LeastNatural ==
  ASSUME NEW S, S \subseteq Nat, S # {}
  PROVE  \E i \in S : \A j \in S : i <= j
<1>1. PICK i \in S : \A j \in S : <<j, i>> \notin OpToRel(<, Nat)
  BY WFMin, NatLessThanWellFounded, Zenon
<1>2. \A j \in S : ~(j < i)
  BY <1>1, Zenon DEF OpToRel
<1> QED
  BY <1>2

\* The times among the first conversions of a list.
TimesBefore(convs, i) == {j \in 1 .. i - 1 : IsTime(convs[j])}

LEMMA TimesBeforeFinite ==
  ASSUME NEW convs, NEW i \in Int
  PROVE  IsFiniteSet(TimesBefore(convs, i)) /\ Cardinality(TimesBefore(convs, i)) \in Nat
<1>1. IsFiniteSet(1 .. i - 1)
  BY FS_Interval
<1>2. TimesBefore(convs, i) \subseteq 1 .. i - 1
  BY DEF TimesBefore
<1> QED
  BY <1>1, <1>2, FS_Subset, FS_CardinalityType

LEMMA CountedAll ==
  ASSUME NEW convs \in Text, NEW count \in Nat
  PROVE  /\ Counted(convs, count) = count + Cardinality(TimesBefore(convs, Len(convs) + 1))
         /\ Counted(convs, count) \in Nat
         /\ Counted(convs, count) >= count
<1>1. {i \in DOMAIN convs : IsTime(convs[i])} = TimesBefore(convs, Len(convs) + 1)
  BY DEF TimesBefore, Text
<1>2. Len(convs) + 1 \in Int
  BY DEF Text
<1>3. Counted(convs, count) = count + Cardinality(TimesBefore(convs, Len(convs) + 1))
  BY <1>1, Zenon DEF Counted
<1>4. Cardinality(TimesBefore(convs, Len(convs) + 1)) \in Nat
  BY <1>2, TimesBeforeFinite
<1> QED
  BY <1>3, <1>4

\* The conversions of a list take indexes of their own, one after the other.
LEMMA NumberedApart ==
  ASSUME NEW convs \in Text, NEW count \in Nat, NEW i \in DOMAIN convs, IsTime(convs[i])
  PROVE  /\ Numbered(convs, i, count) \in count .. Counted(convs, count) - 1
         /\ \A j \in DOMAIN convs :
              IsTime(convs[j]) /\ i # j => Numbered(convs, i, count) # Numbered(convs, j, count)
<1>1. ASSUME NEW a \in DOMAIN convs, NEW b \in Int, IsTime(convs[a]), a < b
      PROVE  Cardinality(TimesBefore(convs, a)) < Cardinality(TimesBefore(convs, b))
  <2> DEFINE A == TimesBefore(convs, a)
             B == TimesBefore(convs, b)
  <2>1. a \in Int /\ a >= 1
    BY DEF Text
  <2>2. A \cup {a} \subseteq B /\ a \notin A
    BY <1>1, <2>1 DEF TimesBefore
  <2>3. IsFiniteSet(A) /\ IsFiniteSet(B) /\ Cardinality(A) \in Nat /\ Cardinality(B) \in Nat
    BY <2>1, TimesBeforeFinite
  <2> HIDE DEF A, B
  <2>4. Cardinality(A \cup {a}) = Cardinality(A) + 1
    BY <2>2, <2>3, FS_AddElement
  <2>5. Cardinality(A \cup {a}) <= Cardinality(B)
    BY <2>2, <2>3, FS_Subset
  <2>6. Cardinality(A) < Cardinality(B)
    BY <2>3, <2>4, <2>5
  <2> QED
    BY <2>6 DEF A, B
<1>2. \A a \in DOMAIN convs : /\ a \in Int /\ a < Len(convs) + 1
                              /\ Cardinality(TimesBefore(convs, a)) \in Nat
  BY TimesBeforeFinite DEF Text
<1>3. Len(convs) + 1 \in Int /\ Cardinality(TimesBefore(convs, Len(convs) + 1)) \in Nat
  BY TimesBeforeFinite DEF Text
<1>4. \A a \in DOMAIN convs : IsTime(convs[a]) =>
        Numbered(convs, a, count) = count + Cardinality(TimesBefore(convs, a))
  BY DEF Numbered, TimesBefore
<1>5. Numbered(convs, i, count) \in count .. Counted(convs, count) - 1
  <2>1. i \in Int /\ i < Len(convs) + 1
    BY <1>2
  <2>2. Cardinality(TimesBefore(convs, i)) < Cardinality(TimesBefore(convs, Len(convs) + 1))
    BY <1>1, <1>3, <2>1
  <2>3. Cardinality(TimesBefore(convs, i)) \in Nat
    BY <1>2
  <2>4. Numbered(convs, i, count) = count + Cardinality(TimesBefore(convs, i))
    BY <1>4
  <2>5. Counted(convs, count) = count + Cardinality(TimesBefore(convs, Len(convs) + 1))
    BY CountedAll
  <2> QED
    BY <1>3, <2>2, <2>3, <2>4, <2>5
<1>6. ASSUME NEW j \in DOMAIN convs, IsTime(convs[j]), i # j
      PROVE  Numbered(convs, i, count) # Numbered(convs, j, count)
  <2>1. CASE i < j
    BY <1>1, <1>2, <1>4, <1>6, <2>1
  <2>2. CASE j < i
    BY <1>1, <1>2, <1>4, <1>6, <2>2
  <2> QED
    BY <1>2, <1>6, <2>1, <2>2
<1> QED
  BY <1>5, <1>6

\* Conversions keep their kind and are numbered from the count on.
LEMMA SpecsType ==
  ASSUME NEW convs \in Text, NEW count \in Nat
  PROVE  /\ Specs(convs, count) \in Seq(SpecType)
         /\ DOMAIN Specs(convs, count) = DOMAIN convs
         /\ \A i \in DOMAIN convs : /\ Specs(convs, count)[i].conv = convs[i]
                                    /\ Specs(convs, count)[i].index = Numbered(convs, i, count)
         /\ [i \in DOMAIN Specs(convs, count) |-> Specs(convs, count)[i].conv] = convs
<1>1. Len(convs) \in Nat /\ DOMAIN convs = 1 .. Len(convs)
  BY DEF Text
<1>2. \A i \in DOMAIN convs : convs[i] \in {"d", "ms", "p"}
  BY DEF Text
<1>3. \A i \in DOMAIN convs : Numbered(convs, i, count) \in Nat \cup {NoIndex}
  <2>1. \A i \in DOMAIN convs : i \in Int
    BY <1>1
  <2>2. \A i \in DOMAIN convs : count + Cardinality(TimesBefore(convs, i)) \in Nat
    BY <2>1, TimesBeforeFinite
  <2> QED
    BY <2>2, Zenon DEF Numbered, TimesBefore
<1>4. \A i \in DOMAIN convs :
        [conv |-> convs[i], index |-> Numbered(convs, i, count)] \in SpecType
  BY <1>2, <1>3 DEF SpecType
<1>5. Specs(convs, count) \in [1 .. Len(convs) -> SpecType]
  BY <1>1, <1>4 DEF Specs
<1>6. Specs(convs, count) \in Seq(SpecType)
  BY <1>1, <1>5
<1>7. \A i \in DOMAIN convs :
        Specs(convs, count)[i] = [conv |-> convs[i], index |-> Numbered(convs, i, count)]
  BY DEF Specs
<1>8. \A i \in DOMAIN convs : /\ Specs(convs, count)[i].conv = convs[i]
                              /\ Specs(convs, count)[i].index = Numbered(convs, i, count)
  <2> SUFFICES ASSUME NEW i \in DOMAIN convs
               PROVE  /\ Specs(convs, count)[i].conv = convs[i]
                      /\ Specs(convs, count)[i].index = Numbered(convs, i, count)
    OBVIOUS
  <2>1. Specs(convs, count)[i] = [conv |-> convs[i], index |-> Numbered(convs, i, count)]
    BY <1>7
  <2> QED
    BY <2>1
<1>9. [i \in DOMAIN Specs(convs, count) |-> Specs(convs, count)[i].conv] = convs
  <2>1. DOMAIN Specs(convs, count) = DOMAIN convs
    BY <1>1, <1>5
  <2>2. convs = [i \in DOMAIN convs |-> convs[i]]
    BY DEF Text
  <2> QED
    BY <1>8, <2>1, <2>2
<1> QED
  BY <1>1, <1>5, <1>6, <1>8, <1>9

LEMMA LevelNamedType ==
  ASSUME NEW list, DOMAIN list.slot \subseteq LevelRange, NEW name
  PROVE  LevelNamed(list, name) \in LevelOrNone
<1> DEFINE found == {i \in DOMAIN list.slot : list.slot[i] = name}
<1>1. CASE found = {}
  BY <1>1 DEF LevelNamed, LevelOrNone
<1>2. CASE found # {}
  <2>1. found \subseteq LevelRange /\ found \subseteq Nat
    BY DEF LevelRange
  <2> HIDE DEF found
  <2>2. \E i \in found : \A j \in found : i <= j
    BY <1>2, <2>1, LeastNatural
  <2>3. (CHOOSE i \in found : \A j \in found : i <= j) \in found
    BY <2>2, Zenon
  <2>4. LevelNamed(list, name) = CHOOSE i \in found : \A j \in found : i <= j
    BY <1>2, Zenon DEF LevelNamed, found
  <2> QED
    BY <2>1, <2>3, <2>4 DEF LevelOrNone
<1> QED
  BY <1>1, <1>2

\* A format that is known is one of the list, or the default one.
LEMMA FormatNamedKnown ==
  ASSUME NEW name, DOMAIN formats.slot \subseteq Nat, FormatKnown(name)
  PROVE  FormatNamed(name) \in Items(formats) \cup {default_format}
<1> DEFINE found == {i \in DOMAIN formats.slot : formats.slot[i].name = name}
<1>1. CASE name = ""
  BY <1>1 DEF FormatNamed
<1>2. CASE name # ""
  <2>1. found # {} /\ found \subseteq Nat /\ found \subseteq DOMAIN formats.slot
    BY <1>2 DEF FormatKnown, Items
  <2> HIDE DEF found
  <2>2. \E i \in found : \A j \in found : i <= j
    BY <2>1, LeastNatural
  <2>3. (CHOOSE i \in found : \A j \in found : i <= j) \in found
    BY <2>2, Zenon
  <2>4. FormatNamed(name) = formats.slot[CHOOSE i \in found : \A j \in found : i <= j]
    BY <1>2, <2>1, Zenon DEF FormatNamed, found
  <2> QED
    BY <2>1, <2>3, <2>4 DEF Items
<1> QED
  BY <1>1, <1>2

LEMMA ItemsAdded ==
  ASSUME NEW list, list.len \in Nat, DOMAIN list.slot \subseteq Nat,
         \A i \in DOMAIN list.slot : i < list.len, NEW data
  PROVE  LET more == ListAdd(list, data) IN
         /\ Items(more) = Items(list) \cup {data}
         /\ more.len = list.len + 1
         /\ DOMAIN more.slot = DOMAIN list.slot \cup {list.len}
         /\ DOMAIN more.slot \subseteq Nat
         /\ \A i \in DOMAIN more.slot : i < more.len
         /\ \A i \in DOMAIN list.slot : more.slot[i] = list.slot[i]
         /\ more.slot[list.len] = data
<1>1. PICK more : more = ListAdd(list, data)
  OBVIOUS
<1>2. more = ListSet(list, list.len, data)
  BY <1>1 DEF ListAdd
<1>3. /\ more.len = Larger(list.len, list.len + 1)
      /\ DOMAIN more.slot = DOMAIN list.slot \cup {list.len}
      /\ \A i \in DOMAIN list.slot \cup {list.len} :
           more.slot[i] = IF i = list.len THEN data ELSE list.slot[i]
  BY <1>2, ListSetParts
<1>4. list.len \notin DOMAIN list.slot
  OBVIOUS
<1>5. more.len = list.len + 1
  BY <1>3 DEF Larger
<1>6. /\ \A i \in DOMAIN list.slot : more.slot[i] = list.slot[i]
      /\ more.slot[list.len] = data
  BY <1>3, <1>4
<1>7. Items(more) = Items(list) \cup {data}
  BY <1>3, <1>6 DEF Items
<1>8. DOMAIN more.slot \subseteq Nat /\ \A i \in DOMAIN more.slot : i < more.len
  BY <1>3, <1>5
<1> QED
  BY <1>1, <1>3, <1>5, <1>6, <1>7, <1>8


LEMMA NewFormatType ==
  ASSUME NEW line \in FormatLine, NEW count \in Nat
  PROVE  /\ NewFormat(line, count) \in FormatType
         /\ NewFormat(line, count).specs = Specs(line.convs, count)
         /\ Counted(line.convs, count) \in Nat
<1>1. line.convs \in Text /\ line.name \in STRING
  BY DEF FormatLine
<1>2. Specs(line.convs, count) \in Seq(SpecType) /\ Counted(line.convs, count) \in Nat
  BY <1>1, SpecsType, CountedAll
<1> QED
  BY <1>1, <1>2 DEF NewFormat, FormatType

\* What is assumed of the lines of a file, and of the program's own.
RuleLine ==
  [category : Seq(STRING) \ {<<>>}, compare : CompareChar, level : STRING,
   format : STRING, path : Text, archive : Text, sync : BOOLEAN, ok : BOOLEAN]

LEMMA DefaultsType ==
  /\ DefaultFormatLine \in FormatLine
  /\ DefaultSettings \in SettingType
  /\ DefaultRule \in RuleLine
  /\ NoFormat \in FormatType
<1>1. "" \in STRING /\ "*" \in STRING /\ "default" \in STRING
  BY NamesAssumption, Zenon DEF DefaultNames
<1>2. <<"d", "p">> \in Text /\ <<>> \in Text /\ <<>> \in Seq(SpecType)
  BY DEF Text
<1>3. <<"*">> \in Seq(STRING) \ {<<>>}
  <2>1. \A S : \A a \in S : <<a>> \in Seq(S)
    OBVIOUS
  <2>2. <<"*">> # <<>>
    OBVIOUS
  <2> QED
    BY <1>1, <2>1, <2>2, Zenon
<1>4. DefaultFormatLine \in FormatLine
  BY <1>1, <1>2 DEF DefaultFormatLine, FormatLine
<1>5. DefaultSettings \in SettingType
  BY <1>4 DEF DefaultSettings, SettingType
<1>6. DefaultRule \in RuleLine
  BY <1>1, <1>2, <1>3 DEF DefaultRule, RuleLine, CompareChar
<1>7. NoFormat \in FormatType
  BY <1>1, <1>2 DEF NoFormat, FormatType
<1> QED
  BY <1>4, <1>5, <1>6, <1>7

-----------------------------------------------------------------------------
(***************************************************************************)
(* What reading a configuration keeps true.                                *)
(***************************************************************************)
\* The lists only hold what was added to them.
ListsInv ==
  /\ formats.len \in Nat /\ DOMAIN formats.slot \subseteq Nat
  /\ \A i \in DOMAIN formats.slot : i < formats.len
  /\ rules.len \in Nat /\ DOMAIN rules.slot \subseteq Nat
  /\ \A i \in DOMAIN rules.slot : i < rules.len

LevelsInv == Allocated(levels, 256) /\ 254 \in DOMAIN levels.slot

\* A configuration that is not there has its defaults and nothing else.
NoneInv ==
  status = "none" =>
    section = 0 /\ settings = DefaultSettings /\ refused = {} /\ Items(rules) = {}

\* Lines are left out only when init is not strict.
RefusedInv ==
  /\ settings.strict => refused \subseteq {1}
  /\ section <= 1 /\ status # "built" => refused \subseteq {1}

\* Rules are made in the last section, from settings that stay and from a
\* default format made of them.
RulesInv ==
  /\ Items(rules) # {} => section = 4 \/ status = "built"
  /\ section = 4 \/ Items(rules) # {} =>
       /\ [i \in DOMAIN default_format.specs |-> default_format.specs[i].conv]
            = settings.format.convs
       /\ settings.reload # 0 /\ settings.fsync # 0 => settings.fsync < settings.reload
  /\ \A r \in Items(rules) :
       /\ r.perms = settings.perms
       /\ r.fsync \in {0, settings.fsync}
       /\ r.format \in Items(formats) \cup {default_format}

ConfInv == ConfTypeOK /\ ListsInv /\ LevelsInv /\ NoneInv /\ RefusedInv /\ RulesInv

LEMMA EmptyListFacts ==
  /\ EmptyList.len = 0 /\ DOMAIN EmptyList.slot = {} /\ Items(EmptyList) = {}
  BY DEF EmptyList, Items

Untouched ==
  /\ settings = DefaultSettings /\ levels = DefaultLevels /\ formats = EmptyList
  /\ rules = EmptyList /\ default_format = NoFormat /\ time_cache_count = 0 /\ refused = {}
  /\ section = 0 /\ lines = 0 /\ status = "none"

LEMMA UntouchedInv == Untouched => ConfInv
<1> SUFFICES ASSUME Untouched PROVE ConfInv
  OBVIOUS
<1> USE DEF Untouched
<1>1. ConfTypeOK
  <2>1. DOMAIN levels.slot \subseteq LevelRange /\ Items(levels) \subseteq STRING
    BY DefaultLevelsReady DEF Allocated
  <2> QED
    BY <2>1, DefaultsType, EmptyListFacts, BoundAssumption DEF ConfTypeOK
<1>2. LevelsInv
  BY DefaultLevelsReady DEF LevelsInv
<1>3. ListsInv /\ NoneInv /\ RulesInv
  BY EmptyListFacts DEF ListsInv, NoneInv, RulesInv
<1>4. RefusedInv
  BY DEF RefusedInv
<1> QED
  BY <1>1, <1>2, <1>3, <1>4 DEF ConfInv

LEMMA ConfInvInit == ConfInit => ConfInv
  BY UntouchedInv DEF ConfInit, Untouched

LEMMA ConfInvAbandon == Abandon => ConfInv'
<1>1. Abandon => Untouched'
  BY DEF Abandon, Untouched
<1> QED
  BY <1>1, UntouchedInv, PTL


LEMMA ConfInvStutter == ConfInv /\ UNCHANGED confVars => ConfInv'
<1> SUFFICES ASSUME ConfInv, UNCHANGED confVars PROVE ConfInv'
  OBVIOUS
<1> USE DEF confVars, fileVars, partVars
<1>1. ConfTypeOK'
  BY DEF ConfInv, ConfTypeOK, Items
<1>2. ListsInv' /\ LevelsInv'
  BY DEF ConfInv, ListsInv, LevelsInv
<1>3. NoneInv' /\ RefusedInv' /\ RulesInv'
  BY DEF ConfInv, NoneInv, RefusedInv, RulesInv, Items
<1> QED
  BY <1>1, <1>2, <1>3 DEF ConfInv

LEMMA ConfInvOpenFile == ConfInv /\ OpenFile => ConfInv'
<1> SUFFICES ASSUME ConfInv, OpenFile PROVE ConfInv'
  OBVIOUS
<1> USE DEF OpenFile, fileVars, partVars
<1>1. ConfTypeOK'
  BY DEF ConfInv, ConfTypeOK, Items
<1>2. ListsInv' /\ LevelsInv'
  BY DEF ConfInv, ListsInv, LevelsInv
<1>3. NoneInv' /\ RefusedInv'
  BY DEF ConfInv, NoneInv, RefusedInv
<1>4. RulesInv'
  <2>1. Items(rules) = {} /\ Items(rules') = {} /\ section' = 0
    BY DEF ConfInv, NoneInv
  <2> QED
    BY <2>1 DEF RulesInv
<1> QED
  BY <1>1, <1>2, <1>3, <1>4 DEF ConfInv

LEMMA ConfInvEndOfFile == ConfInv /\ EndOfFile => ConfInv'
<1> SUFFICES ASSUME ConfInv, EndOfFile PROVE ConfInv'
  OBVIOUS
<1> USE DEF EndOfFile, partVars
<1>1. ConfTypeOK'
  BY BoundAssumption DEF ConfInv, ConfTypeOK, Items
<1>2. ListsInv' /\ LevelsInv'
  BY DEF ConfInv, ListsInv, LevelsInv
<1>3. NoneInv' /\ RefusedInv'
  BY DEF ConfInv, NoneInv, RefusedInv
<1>4. RulesInv'
  <2>1. Items(rules') = Items(rules) /\ Items(formats') = Items(formats) /\ section' = 0
    OBVIOUS
  <2> QED
    BY <2>1 DEF ConfInv, RulesInv
<1> QED
  BY <1>1, <1>2, <1>3, <1>4 DEF ConfInv

LEMMA ConfInvBeginSection == ASSUME NEW s \in 1..4 PROVE ConfInv /\ BeginSection(s) => ConfInv'
<1> SUFFICES ASSUME ConfInv, BeginSection(s) PROVE ConfInv'
  OBVIOUS
<1>1. /\ status = "reading" /\ status' = status /\ section' = s /\ s > section /\ lines' = lines
      /\ levels' = levels /\ formats' = formats /\ rules' = rules /\ refused' = refused
      /\ section \in 0..4
  BY DEF BeginSection, Ordered, ConfInv, ConfTypeOK
<1>2. /\ Items(rules) = {} /\ Items(rules') = {} /\ Items(levels') = Items(levels)
      /\ Items(formats') = Items(formats)
  BY <1>1 DEF ConfInv, RulesInv
<1>3. ListsInv' /\ LevelsInv'
  BY <1>1 DEF ConfInv, ListsInv, LevelsInv
<1>4. settings' \in SettingType /\ settings'.strict = settings.strict
  <2>1. CASE s < 4
    BY <2>1 DEF BeginSection, ConfInv, ConfTypeOK
  <2>2. CASE s = 4 /\ settings' = settings
    BY <2>2 DEF ConfInv, ConfTypeOK
  <2>3. CASE s = 4 /\ settings' = [settings EXCEPT !.fsync = 0]
    BY <2>3 DEF ConfInv, ConfTypeOK, SettingType
  <2> QED
    BY <1>1, <2>1, <2>2, <2>3 DEF BeginSection
<1>5. NoneInv' /\ RefusedInv'
  BY <1>1, <1>4 DEF ConfInv, NoneInv, RefusedInv
<1>6. CASE s < 4
  <2>1. UNCHANGED <<settings, default_format, time_cache_count>>
    BY <1>6 DEF BeginSection
  <2>2. ConfTypeOK'
    BY <1>1, <1>2, <2>1 DEF ConfInv, ConfTypeOK
  <2>3. RulesInv'
    BY <1>1, <1>2, <1>6 DEF RulesInv
  <2> QED
    BY <1>3, <1>5, <2>2, <2>3 DEF ConfInv
<1>7. CASE s = 4
  <2>1. /\ settings' = IF settings.reload # 0 /\ settings.fsync >= settings.reload
                       THEN [settings EXCEPT !.fsync = 0] ELSE settings
        /\ default_format' = NewFormat(settings.format, time_cache_count)
        /\ time_cache_count' = Counted(settings.format.convs, time_cache_count)
    BY <1>7 DEF BeginSection
  <2>2. settings \in SettingType /\ settings.format \in FormatLine /\ time_cache_count \in Nat
    BY DEF ConfInv, ConfTypeOK, SettingType
  <2>3. /\ default_format' \in FormatType /\ time_cache_count' \in Nat
        /\ default_format'.specs = Specs(settings.format.convs, time_cache_count)
    BY <2>1, <2>2, NewFormatType
  <2>4. ConfTypeOK'
    BY <1>1, <1>2, <1>4, <2>3 DEF ConfInv, ConfTypeOK
  <2>5. settings'.format = settings.format /\ settings.format.convs \in Text
    BY <2>1, <2>2 DEF SettingType, FormatLine
  <2>6. [i \in DOMAIN default_format'.specs |-> default_format'.specs[i].conv]
          = settings'.format.convs
    BY <2>2, <2>3, <2>5, SpecsType
  <2>7. settings'.reload # 0 /\ settings'.fsync # 0 => settings'.fsync < settings'.reload
    BY <2>1, <2>2 DEF SettingType
  <2>8. RulesInv'
    BY <1>2, <2>6, <2>7 DEF RulesInv
  <2> QED
    BY <1>3, <1>5, <2>4, <2>8 DEF ConfInv
<1> QED
  BY <1>6, <1>7


\* A rule takes its format and its settings from the configuration.
LEMMA NewRuleType ==
  ASSUME NEW line \in RuleLine, NEW count \in Nat, ConfInv, FormatKnown(line.format)
  PROVE  LET rule == NewRule(line, count) IN
         /\ rule \in RuleType
         /\ rule.perms = settings.perms
         /\ rule.fsync \in {0, settings.fsync}
         /\ rule.format \in Items(formats) \cup {default_format}
         /\ rule.path = Specs(line.path, count)
         /\ rule.archive = Specs(line.archive, Counted(line.path, count))
         /\ Counted(line.archive, Counted(line.path, count)) \in Nat
<1>1. /\ line.category \in Seq(STRING) \ {<<>>} /\ line.compare \in CompareChar
      /\ line.path \in Text /\ line.archive \in Text
  BY DEF RuleLine
<1>2. Counted(line.path, count) \in Nat
  BY <1>1, CountedAll
<1>3. /\ Specs(line.path, count) \in Seq(SpecType)
      /\ Specs(line.archive, Counted(line.path, count)) \in Seq(SpecType)
      /\ Counted(line.archive, Counted(line.path, count)) \in Nat
  BY <1>1, <1>2, SpecsType, CountedAll
<1>4. LevelNamed(levels, line.level) \in LevelOrNone
  BY LevelNamedType DEF ConfInv, ConfTypeOK
<1>5. FormatNamed(line.format) \in Items(formats) \cup {default_format}
  BY FormatNamedKnown DEF ConfInv, ListsInv
<1>6. FormatNamed(line.format) \in FormatType
  BY <1>5 DEF ConfInv, ConfTypeOK
<1>7. /\ settings.perms \in Nat /\ settings.fsync \in Nat
      /\ (IF line.sync THEN 0 ELSE settings.fsync) \in {0, settings.fsync}
  BY DEF ConfInv, ConfTypeOK, SettingType
<1> DEFINE level == LevelNamed(levels, line.level)
           format == FormatNamed(line.format)
           path == Specs(line.path, count)
           archive == Specs(line.archive, Counted(line.path, count))
           fsync == IF line.sync THEN 0 ELSE settings.fsync
<1>8. NewRule(line, count) =
        [category |-> line.category, compare |-> line.compare, level |-> level,
         format |-> format, path |-> path, archive |-> archive,
         perms |-> settings.perms, fsync |-> fsync]
  BY Zenon DEF NewRule
<1>9. /\ level \in LevelOrNone /\ format \in FormatType /\ path \in Seq(SpecType)
      /\ archive \in Seq(SpecType) /\ fsync \in Nat
  BY <1>3, <1>4, <1>6, <1>7
<1> HIDE DEF level, format, path, archive, fsync
<1>10. NewRule(line, count) \in RuleType
  BY <1>1, <1>7, <1>8, <1>9 DEF RuleType
<1>11. /\ NewRule(line, count).perms = settings.perms /\ NewRule(line, count).fsync = fsync
       /\ NewRule(line, count).format = format /\ NewRule(line, count).path = path
       /\ NewRule(line, count).archive = archive
  BY <1>8
<1> QED
  BY <1>3, <1>5, <1>7, <1>10, <1>11 DEF level, format, path, archive, fsync

LEMMA ConfInvWithoutFile == ConfInv /\ WithoutFile => ConfInv'
<1> SUFFICES ASSUME ConfInv, WithoutFile PROVE ConfInv'
  OBVIOUS
<1> DEFINE count == Counted(settings.format.convs, time_cache_count)
           made == NewRule(DefaultRule, count)
           rule == [made EXCEPT !.format = default_format']
<1>1. /\ status = "none" /\ status' = "built" /\ default_format' = NewFormat(settings.format, time_cache_count)
      /\ rules' = ListAdd(rules, rule)
      /\ time_cache_count' = Counted(DefaultRule.archive, Counted(DefaultRule.path, count))
      /\ section' = section /\ lines' = lines /\ settings' = settings /\ levels' = levels
      /\ formats' = formats /\ refused' = refused
  BY DEF WithoutFile, fileVars
<1>2. /\ section = 0 /\ settings = DefaultSettings /\ refused = {} /\ Items(rules) = {}
      /\ settings \in SettingType /\ settings.format \in FormatLine
      /\ settings.format.convs \in Text /\ time_cache_count \in Nat
  BY <1>1 DEF ConfInv, NoneInv, ConfTypeOK, SettingType, FormatLine
<1>3. /\ default_format' \in FormatType /\ count \in Nat
      /\ default_format'.specs = Specs(settings.format.convs, time_cache_count)
  BY <1>1, <1>2, NewFormatType
<1>4. DefaultRule \in RuleLine /\ DefaultRule.format = "" /\ DefaultRule.path \in Text
      /\ DefaultRule.archive \in Text
  BY DefaultsType DEF DefaultRule, RuleLine
<1>5. FormatKnown(DefaultRule.format)
  BY <1>4 DEF FormatKnown
<1> HIDE DEF count
<1>6. /\ made \in RuleType /\ made.perms = settings.perms /\ made.fsync \in {0, settings.fsync}
  BY <1>3, <1>4, <1>5, NewRuleType
<1> HIDE DEF made
<1>7. /\ rule \in RuleType /\ rule.perms = settings.perms /\ rule.fsync \in {0, settings.fsync}
      /\ rule.format = default_format'
  BY <1>3, <1>6 DEF RuleType
<1> HIDE DEF rule
<1>8. /\ Items(rules') = {rule} /\ rules'.len \in Nat /\ DOMAIN rules'.slot \subseteq Nat
      /\ \A i \in DOMAIN rules'.slot : i < rules'.len
  BY <1>1, <1>2, ItemsAdded DEF ConfInv, ListsInv
<1>9. ConfTypeOK'
  <2>1. time_cache_count' \in Nat
    <3>1. Counted(DefaultRule.path, count) \in Nat
      BY <1>3, <1>4, CountedAll
    <3> QED
      BY <1>1, <1>4, <3>1, CountedAll
  <2>2. Items(levels') = Items(levels) /\ Items(formats') = Items(formats)
    BY <1>1
  <2> QED
    BY <1>1, <1>3, <1>7, <1>8, <2>1, <2>2 DEF ConfInv, ConfTypeOK
<1>10. ListsInv' /\ LevelsInv'
  BY <1>1, <1>8 DEF ConfInv, ListsInv, LevelsInv
<1>11. NoneInv' /\ RefusedInv'
  BY <1>1, <1>2 DEF NoneInv, RefusedInv
<1>12. RulesInv'
  <2>1. [i \in DOMAIN default_format'.specs |-> default_format'.specs[i].conv]
          = settings'.format.convs
    <3>1. settings'.format.convs = settings.format.convs /\ settings.format.convs \in Text
      BY <1>1, <1>2
    <3> QED
      BY <1>2, <1>3, <3>1, SpecsType
  <2>2. settings'.fsync = 0
    BY <1>1, <1>2 DEF DefaultSettings
  <2> QED
    BY <1>1, <1>7, <1>8, <2>1, <2>2 DEF RulesInv
<1> QED
  BY <1>9, <1>10, <1>11, <1>12 DEF ConfInv

LEMMA ConfInvFail == Fail => ConfInv'
  BY ConfInvAbandon DEF Fail

\* A line that is read or left out moves the reading on by one line.
LEMMA LineRead ==
  ASSUME ConfInv, section \in 1..4, Reading(section), Read \/ LeaveOut
  PROVE  /\ status = "reading" /\ status' = "reading" /\ section' = section
         /\ lines' \in 0 .. MaxLines
         /\ refused' \subseteq 1..4
         /\ NoneInv'
         /\ settings' = settings \/ section = 1 => RefusedInv'
<1>1. status = "reading" /\ status' = "reading" /\ section' = section
  BY DEF Reading, Read, LeaveOut
<1>2. lines' \in 0 .. MaxLines
  BY BoundAssumption DEF Reading, Read, LeaveOut, ConfInv, ConfTypeOK
<1>3. /\ refused \subseteq 1..4
      /\ refused' = refused \/ (refused' = refused \cup {section} /\ ~settings.strict)
  BY <1>1 DEF Read, LeaveOut, Tolerant, ConfInv, ConfTypeOK
<1>4. ASSUME settings' = settings \/ section = 1 PROVE RefusedInv'
  <2>1. settings.strict => refused \subseteq {1}
    BY DEF ConfInv, RefusedInv
  <2>2. CASE section = 1
    <3>1. refused \subseteq {1}
      BY <1>1, <2>2 DEF ConfInv, RefusedInv
    <3>2. refused' \subseteq {1}
      BY <1>3, <2>2, <3>1
    <3> QED
      BY <3>2 DEF RefusedInv
  <2>3. CASE section # 1
    <3>1. ~(section' <= 1)
      BY <1>1, <2>3
    <3>2. settings'.strict => refused' \subseteq {1}
      BY <1>3, <1>4, <2>1, <2>3, Zenon
    <3> QED
      BY <3>1, <3>2 DEF RefusedInv
  <2> QED
    BY <2>2, <2>3
<1> QED
  BY <1>1, <1>2, <1>3, <1>4 DEF NoneInv


LEMMA ConfInvSetting ==
  ASSUME NEW line \in Settings PROVE ConfInv /\ Setting(line) => ConfInv'
<1> SUFFICES ASSUME ConfInv, Setting(line) PROVE ConfInv'
  OBVIOUS
<1>1. /\ Reading(1) /\ (Read \/ LeaveOut)
      /\ levels' = levels /\ formats' = formats /\ rules' = rules
      /\ default_format' = default_format /\ time_cache_count' = time_cache_count
  BY DEF Setting
<1>2. /\ status = "reading" /\ status' = "reading" /\ section = 1 /\ section' = 1
      /\ lines' \in 0 .. MaxLines /\ refused' \subseteq 1..4 /\ NoneInv' /\ RefusedInv'
  <2>1. section = 1 /\ section \in 1..4 /\ Reading(section)
    BY <1>1 DEF Reading
  <2> QED
    BY <1>1, <2>1, LineRead
<1>3. settings' \in SettingType
  <2>1. settings \in SettingType
    BY DEF ConfInv, ConfTypeOK
  <2>2. DOMAIN settings = {"strict", "perms", "fsync", "reload", "format"}
    BY <2>1 DEF SettingType
  <2>3. CASE line.name \in DOMAIN settings /\
              settings' = [settings EXCEPT ![line.name] =
                             IF line.name = "strict" THEN line.value \/ AlwaysStrict ELSE line.value]
    <3>1. CASE line.name = "strict"
      <4>1. (line.value \/ AlwaysStrict) \in BOOLEAN
        OBVIOUS
      <4>2. settings' = [settings EXCEPT !["strict"] = line.value \/ AlwaysStrict]
        BY <2>3, <3>1, Zenon
      <4> QED
        BY <2>1, <4>1, <4>2 DEF SettingType
    <3>2. CASE line.name \in {"perms", "fsync", "reload"}
      <4>1. settings' = [settings EXCEPT ![line.name] = line.value] /\ line.value \in Nat
        BY <2>3, <3>2, SettingsAssumption
      <4>2. CASE line.name = "perms"
        BY <2>1, <4>1, <4>2 DEF SettingType
      <4>3. CASE line.name = "fsync"
        BY <2>1, <4>1, <4>3 DEF SettingType
      <4>4. CASE line.name = "reload"
        BY <2>1, <4>1, <4>4 DEF SettingType
      <4> QED
        BY <3>2, <4>2, <4>3, <4>4
    <3>3. CASE line.name = "format"
      <4>1. settings' = [settings EXCEPT !["format"] = line.value] /\ line.value \in FormatLine
        BY <2>3, <3>3, SettingsAssumption
      <4> QED
        BY <2>1, <4>1 DEF SettingType
    <3> QED
      BY <2>2, <2>3, <3>1, <3>2, <3>3
  <2>4. CASE settings' = settings
    BY <2>1, <2>4
  <2> QED
    BY <2>3, <2>4 DEF Setting
<1>4. /\ Items(rules) = {} /\ Items(rules') = {}
      /\ Items(levels') = Items(levels) /\ Items(formats') = Items(formats)
  BY <1>1, <1>2 DEF ConfInv, RulesInv
<1>5. ConfTypeOK'
  BY <1>1, <1>2, <1>3, <1>4 DEF ConfInv, ConfTypeOK
<1>6. ListsInv' /\ LevelsInv'
  BY <1>1 DEF ConfInv, ListsInv, LevelsInv
<1>7. RulesInv'
  BY <1>2, <1>4 DEF RulesInv
<1> QED
  BY <1>2, <1>5, <1>6, <1>7 DEF ConfInv

LEMMA ConfInvLevel ==
  ASSUME NEW line \in LevelLines PROVE ConfInv /\ Level(line) => ConfInv'
<1> SUFFICES ASSUME ConfInv, Level(line) PROVE ConfInv'
  OBVIOUS
<1>1. /\ Reading(2) /\ (Read \/ LeaveOut)
      /\ settings' = settings /\ formats' = formats /\ rules' = rules
      /\ default_format' = default_format /\ time_cache_count' = time_cache_count
  BY DEF Level
<1>2. /\ status = "reading" /\ status' = "reading" /\ section = 2 /\ section' = 2
      /\ lines' \in 0 .. MaxLines /\ refused' \subseteq 1..4 /\ NoneInv' /\ RefusedInv'
  <2>1. section = 2 /\ section \in 1..4 /\ Reading(section)
    BY <1>1 DEF Reading
  <2> QED
    BY <1>1, <2>1, LineRead
<1>3. LevelsInv'
  <2>1. CASE levels' = levels
    BY <2>1 DEF ConfInv, LevelsInv
  <2>2. CASE LevelOk(line) /\ levels' = ListSet(levels, line.number, line.name)
    <3>1. line.number \in LevelRange /\ line.number < 256 /\ line.name \in STRING /\ 256 \in Nat
      <4>1. line.number \in 0 .. 255
        BY <2>2 DEF LevelOk
      <4>2. line.name \in STRING
        BY LinesAssumption
      <4> QED
        BY <4>1, <4>2 DEF LevelRange
    <3>2. Allocated(levels, 256) /\ 254 \in DOMAIN levels.slot
      BY DEF ConfInv, LevelsInv
    <3>3. /\ Allocated(levels', 256)
          /\ DOMAIN levels'.slot = DOMAIN levels.slot \cup {line.number}
      BY <2>2, <3>1, <3>2, SetWithin
    <3> QED
      BY <3>2, <3>3 DEF LevelsInv
  <2> QED
    BY <2>1, <2>2 DEF Level
<1>4. /\ Items(rules) = {} /\ Items(rules') = {} /\ Items(formats') = Items(formats)
  BY <1>1, <1>2 DEF ConfInv, RulesInv
<1>5. ConfTypeOK'
  BY <1>1, <1>2, <1>3, <1>4 DEF ConfInv, ConfTypeOK, LevelsInv, Allocated
<1>6. ListsInv'
  BY <1>1 DEF ConfInv, ListsInv
<1>7. RulesInv'
  BY <1>2, <1>4 DEF RulesInv
<1> QED
  BY <1>2, <1>3, <1>5, <1>6, <1>7 DEF ConfInv

LEMMA ConfInvFormat ==
  ASSUME NEW line \in FormatLines PROVE ConfInv /\ Format(line) => ConfInv'
<1> SUFFICES ASSUME ConfInv, Format(line) PROVE ConfInv'
  OBVIOUS
<1>1. /\ Reading(3) /\ (Read \/ LeaveOut)
      /\ settings' = settings /\ levels' = levels /\ rules' = rules
      /\ default_format' = default_format
      /\ time_cache_count' = Counted(line.convs, time_cache_count)
      /\ formats' = formats \/ formats' = ListAdd(formats, NewFormat(line, time_cache_count))
  BY DEF Format
<1>2. /\ status = "reading" /\ status' = "reading" /\ section = 3 /\ section' = 3
      /\ lines' \in 0 .. MaxLines /\ refused' \subseteq 1..4 /\ NoneInv' /\ RefusedInv'
  <2>1. section = 3 /\ section \in 1..4 /\ Reading(section)
    BY <1>1 DEF Reading
  <2> QED
    BY <1>1, <2>1, LineRead
<1>3. line \in FormatLine /\ time_cache_count \in Nat
  BY LinesAssumption DEF ConfInv, ConfTypeOK
<1>4. NewFormat(line, time_cache_count) \in FormatType /\ time_cache_count' \in Nat
  BY <1>1, <1>3, NewFormatType
<1>5. /\ Items(formats') \subseteq FormatType
      /\ formats'.len \in Nat /\ DOMAIN formats'.slot \subseteq Nat
      /\ \A i \in DOMAIN formats'.slot : i < formats'.len
  <2>1. CASE formats' = formats
    BY <2>1 DEF ConfInv, ConfTypeOK, ListsInv
  <2>2. CASE formats' = ListAdd(formats, NewFormat(line, time_cache_count))
    <3>1. /\ Items(formats') = Items(formats) \cup {NewFormat(line, time_cache_count)}
          /\ formats'.len = formats.len + 1 /\ DOMAIN formats'.slot \subseteq Nat
          /\ \A i \in DOMAIN formats'.slot : i < formats'.len
      BY <2>2, ItemsAdded DEF ConfInv, ListsInv
    <3> QED
      BY <1>4, <3>1 DEF ConfInv, ConfTypeOK, ListsInv
  <2> QED
    BY <1>1, <2>1, <2>2
<1>6. /\ Items(rules) = {} /\ Items(rules') = {} /\ Items(levels') = Items(levels)
  BY <1>1, <1>2 DEF ConfInv, RulesInv
<1>7. ConfTypeOK'
  BY <1>1, <1>2, <1>4, <1>5, <1>6 DEF ConfInv, ConfTypeOK
<1>8. ListsInv' /\ LevelsInv'
  BY <1>1, <1>5 DEF ConfInv, ListsInv, LevelsInv
<1>9. RulesInv'
  BY <1>2, <1>6 DEF RulesInv
<1> QED
  BY <1>2, <1>7, <1>8, <1>9 DEF ConfInv

LEMMA ConfInvRule ==
  ASSUME NEW line \in RuleLines PROVE ConfInv /\ Rule(line) => ConfInv'
<1> SUFFICES ASSUME ConfInv, Rule(line) PROVE ConfInv'
  OBVIOUS
<1> DEFINE rule == NewRule(line, time_cache_count)
<1>1. /\ Reading(4) /\ (Read \/ LeaveOut)
      /\ settings' = settings /\ levels' = levels /\ formats' = formats
      /\ default_format' = default_format
      /\ rules' = rules \/ (RuleOk(line) /\ rules' = ListAdd(rules, rule))
  BY DEF Rule
<1>2. /\ status = "reading" /\ status' = "reading" /\ section = 4 /\ section' = 4
      /\ lines' \in 0 .. MaxLines /\ refused' \subseteq 1..4 /\ NoneInv' /\ RefusedInv'
  <2>1. section = 4 /\ section \in 1..4 /\ Reading(section)
    BY <1>1 DEF Reading
  <2> QED
    BY <1>1, <2>1, LineRead
<1>3. line \in RuleLine /\ time_cache_count \in Nat /\ line.path \in Text /\ line.archive \in Text
  BY LinesAssumption DEF ConfInv, ConfTypeOK, RuleLine
<1>4. time_cache_count' \in Nat
  <2>1. Counted(line.path, time_cache_count) \in Nat
    BY <1>3, CountedAll
  <2>2. Counted(line.archive, Counted(line.path, time_cache_count)) \in Nat
    BY <1>3, <2>1, CountedAll
  <2> QED
    BY <1>3, <2>2 DEF Rule
<1>5. CASE rules' = rules
  <2>1. ConfTypeOK'
    BY <1>1, <1>2, <1>4, <1>5 DEF ConfInv, ConfTypeOK, Items
  <2>2. ListsInv' /\ LevelsInv'
    BY <1>1, <1>5 DEF ConfInv, ListsInv, LevelsInv
  <2>3. Items(rules') = Items(rules) /\ Items(formats') = Items(formats)
    BY <1>1, <1>5
  <2>4. RulesInv'
    BY <1>1, <1>2, <2>3 DEF ConfInv, RulesInv
  <2> QED
    BY <1>2, <2>1, <2>2, <2>4 DEF ConfInv
<1>6. CASE RuleOk(line) /\ rules' = ListAdd(rules, rule)
  <2>1. /\ rule \in RuleType /\ rule.perms = settings.perms /\ rule.fsync \in {0, settings.fsync}
        /\ rule.format \in Items(formats) \cup {default_format}
    BY <1>3, <1>6, NewRuleType DEF RuleOk
  <2> HIDE DEF rule
  <2>2. /\ Items(rules') = Items(rules) \cup {rule}
        /\ rules'.len = rules.len + 1 /\ DOMAIN rules'.slot \subseteq Nat
        /\ \A i \in DOMAIN rules'.slot : i < rules'.len
    BY <1>6, ItemsAdded DEF ConfInv, ListsInv
  <2>3. Items(formats') = Items(formats) /\ Items(levels') = Items(levels)
    BY <1>1
  <2>4. ConfTypeOK'
    BY <1>1, <1>2, <1>4, <2>1, <2>2, <2>3 DEF ConfInv, ConfTypeOK
  <2>5. ListsInv' /\ LevelsInv'
    BY <1>1, <2>2 DEF ConfInv, ListsInv, LevelsInv
  <2>6. RulesInv'
    BY <1>1, <1>2, <2>1, <2>2, <2>3 DEF ConfInv, RulesInv
  <2> QED
    BY <1>2, <2>4, <2>5, <2>6 DEF ConfInv
<1> QED
  BY <1>1, <1>5, <1>6

LEMMA ConfInvNext == ConfInv /\ [ConfNext]_confVars => ConfInv'
  BY ConfInvStutter, ConfInvOpenFile, ConfInvWithoutFile, ConfInvBeginSection, ConfInvSetting,
     ConfInvLevel, ConfInvFormat, ConfInvRule, ConfInvFail, ConfInvEndOfFile DEF ConfNext

\* What the invariant says of a configuration.
LEMMA ConfInvMeans == ConfInv => ConfTypeOK /\ LevelsReady /\ RulesSettled /\ StrictMeansAll
<1> SUFFICES ASSUME ConfInv PROVE ConfTypeOK /\ LevelsReady /\ RulesSettled /\ StrictMeansAll
  OBVIOUS
<1>1. ConfTypeOK
  BY DEF ConfInv
<1>2. LevelsReady
  BY DEF ConfInv, LevelsInv, Allocated, LevelsReady
<1>3. RulesSettled
  BY DEF ConfInv, RulesInv, RulesSettled
<1>4. StrictMeansAll
  BY DEF ConfInv, RefusedInv, StrictMeansAll
<1> QED
  BY <1>1, <1>2, <1>3, <1>4


-----------------------------------------------------------------------------
(***************************************************************************)
(* Every conversion of the time has a cache of its own.                    *)
(***************************************************************************)
With(lists, n, specs) == [o \in DOMAIN lists \cup {n} |-> IF o = n THEN specs ELSE lists[o]]

LEMMA ApartWith ==
  ASSUME NEW lists, NEW n, NEW convs \in Text, NEW count \in Nat, Apart(lists, count)
  PROVE  Apart(With(lists, n, Specs(convs, count)), Counted(convs, count))
<1> DEFINE more == With(lists, n, Specs(convs, count))
           counted == Counted(convs, count)
<1>1. counted \in Nat /\ counted >= count
  BY CountedAll
<1>2. /\ DOMAIN more = DOMAIN lists \cup {n} /\ more[n] = Specs(convs, count)
      /\ \A o \in DOMAIN lists : o # n => more[o] = lists[o]
  BY DEF With
<1>3. \A i \in DOMAIN more[n] : IsTime(more[n][i].conv) =>
        /\ more[n][i].index \in count .. counted - 1
        /\ \A j \in DOMAIN more[n] : IsTime(more[n][j].conv) /\ i # j =>
             more[n][i].index # more[n][j].index
  <2>1. /\ DOMAIN more[n] = DOMAIN convs
        /\ \A i \in DOMAIN convs : /\ more[n][i].conv = convs[i]
                                   /\ more[n][i].index = Numbered(convs, i, count)
    BY <1>2, SpecsType
  <2> HIDE DEF more, counted
  <2>2. \A i \in DOMAIN convs : IsTime(convs[i]) =>
          /\ Numbered(convs, i, count) \in count .. Counted(convs, count) - 1
          /\ \A j \in DOMAIN convs :
               IsTime(convs[j]) /\ i # j => Numbered(convs, i, count) # Numbered(convs, j, count)
    BY NumberedApart
  <2> QED
    BY <2>1, <2>2 DEF counted
<1>4. \A o \in DOMAIN more : o # n =>
        \A i \in DOMAIN more[o] : IsTime(more[o][i].conv) => more[o][i].index \in 0 .. count - 1
  BY <1>2 DEF Apart
<1> HIDE DEF more, counted
<1>5. SUFFICES ASSUME NEW o \in DOMAIN more, NEW o2 \in DOMAIN more,
                      NEW i \in DOMAIN more[o], NEW j \in DOMAIN more[o2],
                      IsTime(more[o][i].conv), IsTime(more[o2][j].conv)
               PROVE  /\ more[o][i].index \in 0 .. counted - 1
                      /\ more[o][i].index = more[o2][j].index => o = o2 /\ i = j
  BY DEF Apart, more, counted
<1>6. CASE o = n /\ o2 = n
  BY <1>1, <1>3, <1>5, <1>6
<1>7. CASE o = n /\ o2 # n
  BY <1>1, <1>3, <1>4, <1>5, <1>7
<1>8. CASE o # n /\ o2 = n
  BY <1>1, <1>3, <1>4, <1>5, <1>8
<1>9. CASE o # n /\ o2 # n
  <2>1. more[o] = lists[o] /\ more[o2] = lists[o2] /\ o \in DOMAIN lists /\ o2 \in DOMAIN lists
    BY <1>2, <1>9
  <2>2. /\ more[o][i].index \in 0 .. count - 1
        /\ more[o][i].index = more[o2][j].index => o = o2 /\ i = j
    BY <1>5, <2>1 DEF Apart
  <2> QED
    BY <1>1, <2>2
<1> QED
  BY <1>6, <1>7, <1>8, <1>9

LEMMA ApartPart ==
  ASSUME NEW lists, NEW count \in Nat, Apart(lists, count), NEW part, NEW counted \in Nat,
         counted >= count, DOMAIN part \subseteq DOMAIN lists,
         \A o \in DOMAIN part : part[o] = lists[o]
  PROVE  Apart(part, counted)
<1> SUFFICES ASSUME NEW o \in DOMAIN part, NEW o2 \in DOMAIN part,
                    NEW i \in DOMAIN part[o], NEW j \in DOMAIN part[o2],
                    IsTime(part[o][i].conv), IsTime(part[o2][j].conv)
             PROVE  /\ part[o][i].index \in 0 .. counted - 1
                    /\ part[o][i].index = part[o2][j].index => o = o2 /\ i = j
  BY DEF Apart
<1>1. o \in DOMAIN lists /\ o2 \in DOMAIN lists /\ part[o] = lists[o] /\ part[o2] = lists[o2]
  OBVIOUS
<1>2. /\ part[o][i].index \in 0 .. count - 1
      /\ part[o][i].index = part[o2][j].index => o = o2 /\ i = j
  BY <1>1 DEF Apart
<1> QED
  BY <1>2

\* The lists of conversions without their names.
Listed(lists, default, f, r) ==
  \A o \in DOMAIN lists :
    \/ o = <<"default", 0>> /\ lists[o] = default.specs
    \/ \E i \in DOMAIN f.slot : o = <<"format", i>> /\ lists[o] = f.slot[i].specs
    \/ \E i \in DOMAIN r.slot : o = <<"path", i>> /\ lists[o] = r.slot[i].path
    \/ \E i \in DOMAIN r.slot : o = <<"archive", i>> /\ lists[o] = r.slot[i].archive

ListedNow ==
  /\ DOMAIN ConvLists = Owners
  /\ Listed(ConvLists, default_format, formats, rules)

LEMMA ConvListsListed == ListedNow
<1>1. \A i : /\ ConvsOf(<<"default", i>>) = default_format.specs
             /\ ConvsOf(<<"format", i>>) = formats.slot[i].specs
             /\ ConvsOf(<<"path", i>>) = rules.slot[i].path
             /\ ConvsOf(<<"archive", i>>) = rules.slot[i].archive
  <2> SUFFICES ASSUME NEW i
               PROVE  /\ ConvsOf(<<"default", i>>) = default_format.specs
                      /\ ConvsOf(<<"format", i>>) = formats.slot[i].specs
                      /\ ConvsOf(<<"path", i>>) = rules.slot[i].path
                      /\ ConvsOf(<<"archive", i>>) = rules.slot[i].archive
    OBVIOUS
  <2>1. \A a, b : <<a, b>>[1] = a /\ <<a, b>>[2] = b
    OBVIOUS
  <2>2. ConvsOf(<<"default", i>>) = default_format.specs
    BY <2>1, Zenon DEF ConvsOf
  <2>3. ConvsOf(<<"format", i>>) = formats.slot[i].specs
    BY <2>1, Zenon DEF ConvsOf
  <2>4. ConvsOf(<<"path", i>>) = rules.slot[i].path
    BY <2>1, Zenon DEF ConvsOf
  <2>5. ConvsOf(<<"archive", i>>) = rules.slot[i].archive
    BY <2>1, Zenon DEF ConvsOf
  <2> QED
    BY <2>2, <2>3, <2>4, <2>5
<1>2. DOMAIN ConvLists = Owners /\ \A o \in Owners : ConvLists[o] = ConvsOf(o)
  BY DEF ConvLists
<1> QED
  BY <1>1, <1>2 DEF ListedNow, Listed, Owners

LEMMA ConvListsListedNext == ListedNow'
  BY ConvListsListed, PTL


CachesInv == ConfInv /\ CachesApart

LEMMA CachesInvSame ==
  ASSUME CachesInv, UNCHANGED <<formats, rules>>, default_format'.specs = default_format.specs,
         time_cache_count' \in Nat, time_cache_count' >= time_cache_count
  PROVE  CachesApart'
<1>1. Owners' = Owners
  BY DEF Owners
<1>2. DOMAIN ConvLists' = DOMAIN ConvLists /\ Listed(ConvLists', default_format', formats', rules')
      /\ Listed(ConvLists, default_format, formats, rules)
  BY <1>1, ConvListsListed, ConvListsListedNext DEF ListedNow
<1>3. \A o \in DOMAIN ConvLists' : ConvLists'[o] = ConvLists[o]
  BY <1>2 DEF Listed
<1>4. Apart(ConvLists', time_cache_count')
  BY <1>2, <1>3, ApartPart DEF CachesInv, CachesApart, ConfInv, ConfTypeOK
<1> QED
  BY <1>4 DEF CachesApart


LEMMA UntouchedApart == Untouched => CachesApart
<1> SUFFICES ASSUME Untouched PROVE CachesApart
  OBVIOUS
<1>1. \A o \in DOMAIN ConvLists : ConvLists[o] = <<>>
  <2>1. DOMAIN formats.slot = {} /\ DOMAIN rules.slot = {}
    BY EmptyListFacts DEF Untouched
  <2>2. default_format.specs = <<>>
    BY DEF Untouched, NoFormat
  <2> QED
    BY <2>1, <2>2, ConvListsListed DEF ListedNow, Listed
<1>2. \A o \in DOMAIN ConvLists : DOMAIN ConvLists[o] = {}
  BY <1>1
<1> QED
  BY <1>2 DEF CachesApart, Apart

LEMMA CachesInvInit == ConfInit => CachesInv
  BY UntouchedApart, ConfInvInit DEF ConfInit, Untouched, CachesInv

LEMMA CachesInvFail == Fail => CachesApart'
<1>1. Fail => Untouched'
  BY DEF Fail, Abandon, Untouched
<1> QED
  BY <1>1, UntouchedApart, PTL

LEMMA CachesInvBeginSection ==
  ASSUME NEW s \in 1..4 PROVE CachesInv /\ BeginSection(s) => CachesApart'
<1> SUFFICES ASSUME CachesInv, BeginSection(s) PROVE CachesApart'
  OBVIOUS
<1>1. UNCHANGED <<formats, rules>> /\ time_cache_count \in Nat /\ settings.format.convs \in Text
  BY DEF BeginSection, CachesInv, ConfInv, ConfTypeOK, SettingType, FormatLine
<1>2. CASE s < 4
  BY <1>1, <1>2, CachesInvSame DEF BeginSection
<1>3. CASE s = 4
  <2> DEFINE specs == Specs(settings.format.convs, time_cache_count)
             lists == With(ConvLists, <<"default", 0>>, specs)
  <2>1. /\ default_format'.specs = specs
        /\ time_cache_count' = Counted(settings.format.convs, time_cache_count)
    BY <1>3 DEF BeginSection, NewFormat
  <2>2. Apart(lists, time_cache_count') /\ time_cache_count' \in Nat
    BY <1>1, <2>1, ApartWith, CountedAll DEF CachesInv, CachesApart
  <2>3. /\ DOMAIN lists = DOMAIN ConvLists \cup {<<"default", 0>>} /\ lists[<<"default", 0>>] = specs
        /\ \A o \in DOMAIN ConvLists : o # <<"default", 0>> => lists[o] = ConvLists[o]
    BY DEF With
  <2> HIDE DEF specs, lists
  <2>4. DOMAIN ConvLists' = DOMAIN ConvLists
    BY <1>1, ConvListsListed, ConvListsListedNext DEF ListedNow, Owners
  <2>5. \A o \in DOMAIN ConvLists' : ConvLists'[o] = lists[o]
    BY <1>1, <2>1, <2>3, <2>4, ConvListsListed, ConvListsListedNext DEF ListedNow, Listed
  <2> QED
    BY <2>2, <2>3, <2>4, <2>5, ApartPart DEF CachesApart
<1> QED
  BY <1>2, <1>3

LEMMA CachesInvFormat ==
  ASSUME NEW line \in FormatLines PROVE CachesInv /\ Format(line) => CachesApart'
<1> SUFFICES ASSUME CachesInv, Format(line) PROVE CachesApart'
  OBVIOUS
<1>1. /\ rules' = rules /\ default_format' = default_format
      /\ time_cache_count' = Counted(line.convs, time_cache_count)
      /\ time_cache_count \in Nat /\ line.convs \in Text
  BY LinesAssumption DEF Format, CachesInv, ConfInv, ConfTypeOK, FormatLine
<1>2. time_cache_count' \in Nat /\ time_cache_count' >= time_cache_count
  BY <1>1, CountedAll
<1>3. CASE formats' = formats
  BY <1>1, <1>2, <1>3, CachesInvSame
<1>4. CASE formats' = ListAdd(formats, NewFormat(line, time_cache_count))
  <2> DEFINE specs == Specs(line.convs, time_cache_count)
             new == <<"format", formats.len>>
             lists == With(ConvLists, new, specs)
  <2>1. Apart(lists, time_cache_count')
    BY <1>1, ApartWith DEF CachesInv, CachesApart
  <2>2. /\ DOMAIN lists = DOMAIN ConvLists \cup {new} /\ lists[new] = specs
        /\ \A o \in DOMAIN ConvLists : o # new => lists[o] = ConvLists[o]
    BY DEF With
  <2>3. /\ DOMAIN formats'.slot = DOMAIN formats.slot \cup {formats.len}
        /\ \A i \in DOMAIN formats.slot : formats'.slot[i] = formats.slot[i]
        /\ formats'.slot[formats.len] = NewFormat(line, time_cache_count)
    BY <1>4, ItemsAdded DEF CachesInv, ConfInv, ListsInv
  <2>4. formats'.slot[formats.len].specs = specs
    BY <2>3 DEF NewFormat
  <2> HIDE DEF specs, lists
  <2>5. DOMAIN ConvLists' \subseteq DOMAIN lists
    BY <1>1, <2>2, <2>3, ConvListsListed, ConvListsListedNext DEF ListedNow, Owners
  <2>6. formats.len \notin DOMAIN formats.slot
    BY DEF CachesInv, ConfInv, ListsInv
  <2>7. \A o \in DOMAIN ConvLists' : ConvLists'[o] = lists[o]
    <3> SUFFICES ASSUME NEW o \in DOMAIN ConvLists' PROVE ConvLists'[o] = lists[o]
      OBVIOUS
    <3>1. CASE o = new
      BY <2>2, <2>4, <3>1, ConvListsListedNext DEF ListedNow, Listed
    <3>2. CASE o # new
      <4>1. o \in DOMAIN ConvLists /\ lists[o] = ConvLists[o]
        BY <2>2, <2>5, <3>2
      <4>2. ConvLists'[o] = ConvLists[o]
        BY <1>1, <2>3, <3>2, <4>1, ConvListsListed, ConvListsListedNext DEF ListedNow, Listed
      <4> QED
        BY <4>1, <4>2
    <3> QED
      BY <3>1, <3>2
  <2> QED
    BY <1>2, <2>1, <2>5, <2>7, ApartPart DEF CachesApart
<1> QED
  BY <1>3, <1>4 DEF Format


\* A rule is added, and the default format may be new.
LEMMA CachesInvAdded ==
  ASSUME CachesInv, NEW lists, NEW count \in Nat, Apart(lists, count), DOMAIN lists = DOMAIN ConvLists,
         \A o \in DOMAIN lists : o # <<"default", 0>> => lists[o] = ConvLists[o],
         lists[<<"default", 0>>] = default_format'.specs,
         formats' = formats, NEW line, line.path \in Text, line.archive \in Text,
         NEW rule, rule.path = Specs(line.path, count),
         rule.archive = Specs(line.archive, Counted(line.path, count)),
         rules' = ListAdd(rules, rule),
         time_cache_count' = Counted(line.archive, Counted(line.path, count))
  PROVE  CachesApart'
<1> DEFINE path == <<"path", rules.len>>
           archive == <<"archive", rules.len>>
           some == With(lists, path, rule.path)
           all == With(some, archive, rule.archive)
<1>1. Counted(line.path, count) \in Nat /\ time_cache_count' \in Nat
  BY CountedAll
<1>2. Apart(some, Counted(line.path, count))
  BY ApartWith
<1>3. Apart(all, time_cache_count')
  BY <1>1, <1>2, ApartWith
<1>4. path # archive
  OBVIOUS
<1>5. /\ DOMAIN all = DOMAIN lists \cup {path, archive}
      /\ all[path] = rule.path /\ all[archive] = rule.archive
      /\ \A o \in DOMAIN lists : o \notin {path, archive} => all[o] = lists[o]
  BY <1>4 DEF With
<1>6. /\ DOMAIN rules'.slot = DOMAIN rules.slot \cup {rules.len}
      /\ \A i \in DOMAIN rules.slot : rules'.slot[i] = rules.slot[i]
      /\ rules'.slot[rules.len] = rule
  BY ItemsAdded DEF CachesInv, ConfInv, ListsInv
<1>7. rules.len \notin DOMAIN rules.slot
  BY DEF CachesInv, ConfInv, ListsInv
<1> HIDE DEF some, all
<1>8. DOMAIN ConvLists' \subseteq DOMAIN all
  BY <1>5, <1>6, ConvListsListed, ConvListsListedNext DEF ListedNow, Owners
<1>9. \A o \in DOMAIN ConvLists' : ConvLists'[o] = all[o]
  <2> SUFFICES ASSUME NEW o \in DOMAIN ConvLists' PROVE ConvLists'[o] = all[o]
    OBVIOUS
  <2>1. CASE o = path
    BY <1>5, <1>6, <2>1, ConvListsListedNext DEF ListedNow, Listed
  <2>2. CASE o = archive
    BY <1>5, <1>6, <2>2, ConvListsListedNext DEF ListedNow, Listed
  <2>3. CASE o = <<"default", 0>>
    <3>1. ConvLists'[o] = default_format'.specs
      BY <2>3, ConvListsListedNext DEF ListedNow, Listed
    <3>2. o \in DOMAIN lists
      BY <2>3, ConvListsListed DEF ListedNow, Owners
    <3> QED
      BY <1>5, <2>3, <3>1, <3>2
  <2>4. CASE o # <<"default", 0>> /\ o # path /\ o # archive
    <3>1. o \in DOMAIN ConvLists /\ all[o] = ConvLists[o]
      BY <1>5, <1>8, <2>4
    <3>2. ConvLists'[o] = ConvLists[o]
      BY <1>6, <2>4, <3>1, ConvListsListed, ConvListsListedNext DEF ListedNow, Listed
    <3> QED
      BY <3>1, <3>2
  <2> QED
    BY <2>1, <2>2, <2>3, <2>4
<1> QED
  BY <1>1, <1>3, <1>8, <1>9, ApartPart DEF CachesApart

LEMMA CachesInvRule ==
  ASSUME NEW line \in RuleLines PROVE CachesInv /\ Rule(line) => CachesApart'
<1> SUFFICES ASSUME CachesInv, Rule(line) PROVE CachesApart'
  OBVIOUS
<1>1. /\ formats' = formats /\ default_format' = default_format /\ time_cache_count \in Nat
      /\ line \in RuleLine /\ line.path \in Text /\ line.archive \in Text
  BY LinesAssumption DEF Rule, CachesInv, ConfInv, ConfTypeOK, RuleLine
<1>2. CASE rules' = rules
  <2>1. time_cache_count' \in Nat /\ time_cache_count' >= time_cache_count
    <3>1. /\ Counted(line.path, time_cache_count) \in Nat
          /\ Counted(line.path, time_cache_count) >= time_cache_count
      BY <1>1, CountedAll
    <3>2. /\ Counted(line.archive, Counted(line.path, time_cache_count)) \in Nat
          /\ Counted(line.archive, Counted(line.path, time_cache_count))
               >= Counted(line.path, time_cache_count)
      BY <1>1, <3>1, CountedAll
    <3> QED
      BY <1>1, <3>1, <3>2 DEF Rule
  <2> QED
    BY <1>1, <1>2, <2>1, CachesInvSame
<1>3. CASE RuleOk(line) /\ rules' = ListAdd(rules, NewRule(line, time_cache_count))
  <2>1. time_cache_count' = Counted(line.archive, Counted(line.path, time_cache_count))
    BY <1>3 DEF Rule, RuleOk
  <2> DEFINE rule == NewRule(line, time_cache_count)
  <2>2. /\ rule.path = Specs(line.path, time_cache_count)
        /\ rule.archive = Specs(line.archive, Counted(line.path, time_cache_count))
    BY DEF NewRule
  <2> HIDE DEF rule
  <2>3. rules' = ListAdd(rules, rule)
    BY <1>3 DEF rule
  <2>4. <<"default", 0>> \in DOMAIN ConvLists
    BY ConvListsListed DEF ListedNow, Owners
  <2>5. ConvLists[<<"default", 0>>] = default_format'.specs
    BY <1>1, <2>4, ConvListsListed DEF ListedNow, Listed
  <2>6. Apart(ConvLists, time_cache_count)
    BY DEF CachesInv, CachesApart
  <2> QED
    BY <1>1, <2>1, <2>2, <2>3, <2>5, <2>6, CachesInvAdded
<1> QED
  BY <1>2, <1>3 DEF Rule

LEMMA CachesInvWithoutFile == CachesInv /\ WithoutFile => CachesApart'
<1> SUFFICES ASSUME CachesInv, WithoutFile PROVE CachesApart'
  OBVIOUS
<1> DEFINE count == Counted(settings.format.convs, time_cache_count)
           specs == Specs(settings.format.convs, time_cache_count)
           rule == [NewRule(DefaultRule, count) EXCEPT !.format = default_format']
           lists == With(ConvLists, <<"default", 0>>, specs)
<1>1. /\ default_format' = NewFormat(settings.format, time_cache_count)
      /\ rules' = ListAdd(rules, rule) /\ formats' = formats
      /\ time_cache_count' = Counted(DefaultRule.archive, Counted(DefaultRule.path, count))
  BY DEF WithoutFile
<1>2. /\ time_cache_count \in Nat /\ settings.format.convs \in Text
      /\ DefaultRule.path \in Text /\ DefaultRule.archive \in Text
  BY DefaultsType DEF CachesInv, ConfInv, ConfTypeOK, SettingType, FormatLine, RuleLine
<1>3. Apart(lists, count) /\ count \in Nat
  BY <1>2, ApartWith, CountedAll DEF CachesInv, CachesApart
<1>4. <<"default", 0>> \in DOMAIN ConvLists
  BY ConvListsListed DEF ListedNow, Owners
<1>5. /\ DOMAIN lists = DOMAIN ConvLists /\ lists[<<"default", 0>>] = specs
      /\ \A o \in DOMAIN lists : o # <<"default", 0>> => lists[o] = ConvLists[o]
  BY <1>4 DEF With
<1>6. default_format'.specs = specs
  BY <1>1 DEF NewFormat
<1>7. /\ rule.path = Specs(DefaultRule.path, count)
      /\ rule.archive = Specs(DefaultRule.archive, Counted(DefaultRule.path, count))
  BY DEF NewRule
<1> HIDE DEF count, specs, rule, lists
<1> QED
  BY <1>1, <1>2, <1>3, <1>5, <1>6, <1>7, CachesInvAdded

LEMMA CachesInvNext == CachesInv /\ [ConfNext]_confVars => CachesInv'
<1> SUFFICES ASSUME CachesInv, [ConfNext]_confVars PROVE CachesInv'
  OBVIOUS
<1>1. time_cache_count \in Nat /\ time_cache_count >= time_cache_count
  BY DEF CachesInv, ConfInv, ConfTypeOK
<1>2. ASSUME UNCHANGED <<formats, rules, default_format, time_cache_count>>
      PROVE  CachesApart'
  BY <1>1, <1>2, CachesInvSame
<1>3. CachesApart'
  <2>1. CASE UNCHANGED confVars
    BY <1>2, <2>1 DEF confVars, partVars
  <2>2. CASE OpenFile \/ EndOfFile
    BY <1>2, <2>2 DEF OpenFile, EndOfFile, partVars
  <2>3. ASSUME NEW line \in Settings, Setting(line) PROVE CachesApart'
    BY <1>2, <2>3 DEF Setting
  <2>4. ASSUME NEW line \in LevelLines, Level(line) PROVE CachesApart'
    BY <1>2, <2>4 DEF Level
  <2> QED
    BY <2>1, <2>2, <2>3, <2>4, CachesInvFail, CachesInvBeginSection, CachesInvFormat,
       CachesInvRule, CachesInvWithoutFile DEF ConfNext
<1>4. ConfInv'
  BY ConfInvNext DEF CachesInv
<1> QED
  BY <1>3, <1>4 DEF CachesInv

=============================================================================
