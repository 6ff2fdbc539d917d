---------------------------- MODULE MessageProofs ----------------------------
(***************************************************************************)
(* Proofs about Message: for any formats, texts, widths and limits, what   *)
(* the conversions write stays inside the buffers, failed reallocations    *)
(* included; and a message that is sent is what its format stands for, one *)
(* that is dropped is longer than the largest buffer.                      *)
(***************************************************************************)
EXTENDS Message, Induction, SequenceTheorems, TLAPS

(***************************************************************************)
(* Lemmas about texts.                                                     *)
(***************************************************************************)
\* memcpy gives as many bytes as it is asked for.
LEMMA CopiedLen ==
  ASSUME NEW text \in Seq(Byte), NEW n \in Nat
  PROVE  Copied(text, n) \in Seq(Byte) /\ Len(Copied(text, n)) = n
<1>1. \A i \in 1..n : (IF i <= Len(text) THEN text[i] ELSE Beyond) \in Byte
  BY DEF Byte
<1> QED BY <1>1 DEF Copied

\* A concatenation has the length of its parts.
LEMMA ConcatLen ==
  ASSUME NEW S, NEW s \in Seq(S), NEW t \in Seq(S)
  PROVE  s \o t \in Seq(S) /\ Len(s \o t) = Len(s) + Len(t)
OBVIOUS

\* A prefix has the length it is cut to.
LEMMA PrefixLen ==
  ASSUME NEW S, NEW s \in Seq(S), NEW n \in 0..Len(s)
  PROVE  SubSeq(s, 1, n) \in Seq(S) /\ Len(SubSeq(s, 1, n)) = n
OBVIOUS

\* cdlog_buf_truncate changes no length.
LEMMA MarkedLen ==
  ASSUME NEW S, Char \subseteq S, NEW text \in Seq(S)
  PROVE  Marked(text) \in Seq(S) /\ Len(Marked(text)) = Len(text)
<1> DEFINE n == IF Len(text) < Len(Truncate) THEN Len(text) ELSE Len(Truncate)
<1>1. Truncate \in Seq(S)
  BY CharAssumption
<1>2. n \in 0..Len(text) /\ n \in 0..Len(Truncate) /\ Len(text) - n \in 0..Len(text)
  BY <1>1
<1>3. /\ SubSeq(text, 1, Len(text) - n) \in Seq(S)
      /\ Len(SubSeq(text, 1, Len(text) - n)) = Len(text) - n
  <2> HIDE DEF n
  <2> QED BY <1>2, PrefixLen
<1>4. SubSeq(Truncate, 1, n) \in Seq(S) /\ Len(SubSeq(Truncate, 1, n)) = n
  <2> HIDE DEF n
  <2> QED BY <1>1, <1>2, PrefixLen
<1>5. Marked(text) = SubSeq(text, 1, Len(text) - n) \o SubSeq(Truncate, 1, n)
  BY DEF Marked
<1> HIDE DEF n
<1>6. Len(text) - n + n = Len(text)
  BY <1>2
<1> QED BY <1>3, <1>4, <1>5, <1>6, ConcatLen

\* cdlog_buf_adjust_append makes a text of a text.
LEMMA PaddedText ==
  ASSUME NEW S, Char \subseteq S, NEW c \in Conversions, NEW text \in Seq(S)
  PROVE  Padded(c, text) \in Seq(S)
<1> DEFINE k == IF c.max_width = 0 \/ Len(text) < c.max_width
                THEN Len(text) ELSE c.max_width
           source == SubSeq(text, 1, k)
           fill(s) == [i \in 1..(c.min_width - Len(source)) |-> s]
<1>1. c.max_width \in Nat /\ c.min_width \in Nat
  BY DEF Conversions
<1>2. k \in 0..Len(text)
  BY <1>1
<1>3. source \in Seq(S) /\ Len(source) \in Nat
  <2> HIDE DEF k
  <2> QED BY <1>2, PrefixLen
<1>4. ASSUME NEW s \in S PROVE fill(s) \in Seq(S)
  <2> HIDE DEF source
  <2>1. CASE c.min_width - Len(source) \in Nat
    BY <2>1
  <2>2. CASE c.min_width - Len(source) \notin Nat
    <3>1. 1..(c.min_width - Len(source)) = {}
      BY <1>1, <1>3, <2>2
    <3>2. fill(s) = <<>>
      BY <3>1
    <3> HIDE DEF fill
    <3> QED BY <3>2
  <2> QED BY <2>1, <2>2
<1>5. Space \in S /\ Zero \in S
  BY CharAssumption
<1>6. Padded(c, text) = IF c.left THEN source \o fill(Space)
                        ELSE fill(IF c.zeros THEN Zero ELSE Space) \o source
  BY DEF Padded
<1>7. fill(Space) \in Seq(S) /\ fill(IF c.zeros THEN Zero ELSE Space) \in Seq(S)
  BY <1>4, <1>5
<1> HIDE DEF source, fill
<1> QED BY <1>3, <1>6, <1>7, ConcatLen

(***************************************************************************)
(* Lemmas about one buffer: each result of writing into it keeps it within *)
(* its bounds.                                                             *)
(***************************************************************************)
LEMMA LimitType == TypeOK => size_max \in Nat /\ (size_max = 0 \/ size_max >= MinSize)
  BY SizeAssumption DEF TypeOK

\* The text fits.
LEMMA ExtendedBounded ==
  ASSUME size_max \in Nat, NEW b \in Buffer, Bounded(b),
         NEW text \in Seq(Byte), NEW fn, Fits(b, text, fn)
  PROVE  Extended(b, text) \in Buffer /\ Bounded(Extended(b, text))
<1>1. /\ b.text \in Seq(Byte) /\ b.size \in Nat \ {0} /\ b.live \in BOOLEAN
      /\ b = [text |-> b.text, size |-> b.size, live |-> b.live]
  BY DEF Buffer
<1>2. b.text \o text \in Seq(Byte) /\ Len(b.text \o text) = Len(b.text) + Len(text)
  BY <1>1, ConcatLen
<1>3. Extended(b, text) = [text |-> b.text \o text, size |-> b.size, live |-> b.live]
  <2> DEFINE longer == b.text \o text
  <2>1. Extended(b, text) = [b EXCEPT !.text = longer]
    BY DEF Extended
  <2> HIDE DEF longer
  <2>2. [b EXCEPT !.text = longer] = [text |-> longer, size |-> b.size, live |-> b.live]
    BY <1>1
  <2> QED BY <2>1, <2>2 DEF longer
<1>4. CASE b.live
  BY <1>1, <1>2, <1>3, <1>4 DEF Buffer, Bounded, Fits, Room, AtLimit
<1>5. CASE ~b.live
  <2>1. b.text = <<>> /\ text = <<>>
    BY <1>1, <1>5 DEF Bounded, Fits, Room
  <2>2. b.text \o text = <<>>
    BY <2>1
  <2> QED BY <1>1, <1>3, <1>5, <2>2 DEF Buffer, Bounded, AtLimit
<1> QED BY <1>1, <1>4, <1>5

\* The buffer grows below its limit.
LEMMA GrownBounded ==
  ASSUME size_max \in Nat, NEW b \in Buffer, Bounded(b),
         NEW text \in Seq(Byte), NEW fn, Grows(b, text, fn)
  PROVE  Grown(b, text) \in Buffer /\ Bounded(Grown(b, text))
<1>1. b.text \in Seq(Byte) /\ b.size \in Nat \ {0} /\ b.live \in BOOLEAN
  BY DEF Buffer
<1>2. b.text \o text \in Seq(Byte) /\ Len(b.text \o text) = Len(b.text) + Len(text)
  BY <1>1, ConcatLen
<1>3. Len(b.text) \in Nat /\ Len(text) \in Nat /\ (~b.live => Len(b.text) = 0)
  BY <1>1 DEF Bounded
<1>4. Short(b, text) \in Nat \ {0}
  BY <1>1, <1>3 DEF Grows, Short, Room
<1>5. /\ NewSize(b, Short(b, text)) \in Nat \ {0}
      /\ NewSize(b, Short(b, text)) >= b.size + Short(b, text)
      /\ size_max # 0 => NewSize(b, Short(b, text)) <= size_max
  BY <1>1, <1>4 DEF NewSize, Grows, Clamped
<1>6. b.size + Short(b, text) > Len(b.text) + Len(text)
  BY <1>1, <1>3 DEF Short, Room
<1>7. b.size >= MinSize
  BY DEF Bounded
<1> DEFINE n == NewSize(b, Short(b, text))
<1>8. Grown(b, text) = [text |-> b.text \o text, size |-> n, live |-> TRUE]
  BY DEF Grown
<1>9. n > Len(b.text \o text) /\ n >= MinSize /\ n \in Nat \ {0}
  <2> HIDE DEF n
  <2>1. n \in Nat /\ n >= b.size + Short(b, text)
    BY <1>5 DEF n
  <2> QED BY <1>1, <1>2, <1>3, <1>4, <1>6, <1>7, <2>1, SizeAssumption
<1>10. size_max # 0 => n <= size_max
  BY <1>5
<1> HIDE DEF n
<1> QED BY <1>2, <1>8, <1>9, <1>10 DEF Buffer, Bounded

\* The limit is reached.
LEMMA FilledBounded ==
  ASSUME size_max \in Nat, NEW b \in Buffer, Bounded(b),
         NEW text \in Seq(Byte), NEW fn, Overflows(b, text, fn)
  PROVE  Filled(b, text) \in Buffer /\ Bounded(Filled(b, text))
<1> DEFINE full == IF AtLimit(b) THEN b ELSE [b EXCEPT !.size = size_max, !.live = TRUE]
           more == Copied(text, Room(full))
<1>1. /\ b.text \in Seq(Byte) /\ b.size \in Nat \ {0} /\ b.live \in BOOLEAN
      /\ b = [text |-> b.text, size |-> b.size, live |-> b.live]
  BY DEF Buffer
<1>2. Len(b.text) \in Nat /\ (~b.live => Len(b.text) = 0 /\ ~AtLimit(b))
  BY <1>1 DEF Bounded
<1>3. size_max # 0
  BY DEF Overflows, AtLimit, Clamped
<1>4. full = [text |-> b.text, size |-> size_max, live |-> TRUE]
  <2>1. CASE AtLimit(b)
    <3>1. b.live = TRUE /\ b.size = size_max
      BY <1>1, <1>2, <1>3, <2>1 DEF Bounded, AtLimit
    <3> QED BY <1>1, <2>1, <3>1
  <2>2. CASE ~AtLimit(b)
    BY <1>1, <2>2
  <2> QED BY <2>1, <2>2
<1>5. Room(full) = size_max - 1 - Len(b.text) /\ Room(full) \in Nat
  <2>1. Room(full) = size_max - 1 - Len(b.text)
    <3> HIDE DEF full
    <3> QED BY <1>4 DEF Room
  <2>2. Len(b.text) < size_max
    BY <1>1, <1>2, <1>3 DEF Bounded, AtLimit
  <2> QED BY <1>2, <2>1, <2>2
<1>6. more \in Seq(Byte) /\ Len(more) = size_max - 1 - Len(b.text)
  <2> HIDE DEF full
  <2> QED BY <1>5, CopiedLen
<1> HIDE DEF more
<1>7. /\ b.text \o more \in Seq(Byte)
      /\ Len(b.text \o more) = Len(b.text) + Len(more)
  BY <1>1, <1>6, ConcatLen
<1>8. Len(b.text \o more) = size_max - 1
  BY <1>2, <1>6, <1>7
<1>9. /\ Marked(b.text \o more) \in Seq(Byte)
      /\ Len(Marked(b.text \o more)) = size_max - 1
  <2>1. Char \subseteq Byte
    BY DEF Byte
  <2> QED BY <1>7, <1>8, <2>1, MarkedLen
<1>10. Filled(b, text) = [text |-> Marked(b.text \o more), size |-> size_max, live |-> TRUE]
  <2>1. Filled(b, text) = [full EXCEPT !.text = Marked(@ \o more)]
    BY DEF Filled, more
  <2> HIDE DEF full
  <2> QED BY <1>4, <2>1
<1>11. size_max >= MinSize
  BY <1>1, <1>3, SizeAssumption DEF Bounded
<1> QED BY <1>3, <1>9, <1>10, <1>11, SizeAssumption DEF Buffer, Bounded

\* The realloc fails or the buffer is missing.
LEMMA LostBounded ==
  ASSUME size_max \in Nat, NEW b \in Buffer, Bounded(b),
         NEW text \in Seq(Byte), NEW fn, MayFail(b, text, fn)
  PROVE  Lost(b) \in Buffer /\ Bounded(Lost(b))
<1>1. /\ b.text \in Seq(Byte) /\ b.size \in Nat \ {0} /\ b.live \in BOOLEAN
      /\ b = [text |-> b.text, size |-> b.size, live |-> b.live]
  BY DEF Buffer
<1>2. CASE b.live
  <2>1. ~AtLimit(b)
    BY <1>2 DEF MayFail, Usable
  <2>2. Lost(b) = [text |-> <<>>, size |-> b.size, live |-> FALSE]
    BY <1>1, <1>2 DEF Lost
  <2>3. ~AtLimit(Lost(b))
    BY <2>1, <2>2 DEF AtLimit
  <2> QED BY <1>1, <2>2, <2>3 DEF Buffer, Bounded
<1>3. CASE ~b.live
  BY <1>3 DEF Lost
<1> QED BY <1>1, <1>2, <1>3

\* A buffer restarted.
LEMMA RestartedBounded ==
  ASSUME NEW b \in Buffer, Bounded(b)
  PROVE  [b EXCEPT !.text = <<>>] \in Buffer /\ Bounded([b EXCEPT !.text = <<>>])
<1>1. /\ b.text \in Seq(Byte) /\ b.size \in Nat \ {0} /\ b.live \in BOOLEAN
      /\ [b EXCEPT !.text = <<>>] = [text |-> <<>>, size |-> b.size, live |-> b.live]
  BY DEF Buffer
<1> DEFINE r == [b EXCEPT !.text = <<>>]
<1>2. r = [text |-> <<>>, size |-> b.size, live |-> b.live]
  BY <1>1
<1> HIDE DEF r
<1>3. /\ r.text = <<>> /\ r.size = b.size /\ r.live = b.live
      /\ r \in Buffer
  BY <1>1, <1>2 DEF Buffer
<1>4. Bounded(r)
  BY <1>1, <1>3 DEF Bounded, AtLimit
<1> QED BY <1>3, <1>4 DEF r

(***************************************************************************)
(* The inductive invariant.                                                *)
(***************************************************************************)
\* A conversion is in hand while its calls are made and its text is copied.
InHand == pc \in {"write", "adjust"} => specs # <<>>

IInv == TypeOK /\ InBounds /\ InHand

\* What a step may do to the buffers.
BuffersKept == buf' \in [Name -> Buffer] /\ InBounds'

\* The head of the conversions and of its calls, and what is left.
LEMMA HeadType ==
  ASSUME NEW S, NEW s \in Seq(S), s # <<>>
  PROVE  Head(s) \in S /\ Tail(s) \in Seq(S)
OBVIOUS

\* Where a conversion writes.
LEMMA TargetType ==
  ASSUME IInv, specs # <<>>
  PROVE  /\ Target \in Name
         /\ Head(specs) \in Conversions
         /\ buf[Target] \in Buffer /\ Bounded(buf[Target])
<1>1. Head(specs) \in Conversions
  BY HeadType DEF IInv, TypeOK
<1>2. Target \in Name
  BY DEF Target, Name
<1> QED BY <1>1, <1>2 DEF IInv, TypeOK, InBounds

\* The next call of a conversion.
LEMMA CallType ==
  ASSUME IInv, writes # <<>>
  PROVE  Head(writes).text \in Seq(Byte) /\ Tail(writes) \in Seq(Calls)
<1>1. Head(writes) \in Calls /\ Tail(writes) \in Seq(Calls)
  BY HeadType DEF IInv, TypeOK
<1>2. Head(writes).text \in Seq(Char)
  BY <1>1 DEF Calls
<1>3. Seq(Char) \subseteq Seq(Byte)
  BY DEF Byte
<1> QED BY <1>1, <1>2, <1>3

\* The text to be copied from pre_msg_buf.
LEMMA AdjustType ==
  ASSUME IInv, specs # <<>>
  PROVE  Padded(Head(specs), buf["pre"].text) \in Seq(Byte)
<1>1. buf["pre"].text \in Seq(Byte)
  BY DEF IInv, TypeOK, Buffer, Name
<1>2. Char \subseteq Byte
  BY DEF Byte
<1> QED BY <1>1, <1>2, TargetType, PaddedText

\* One buffer replaced by another that is within its bounds.
LEMMA OneReplaced ==
  ASSUME IInv, UNCHANGED size_max, NEW name \in Name, NEW b \in Buffer, Bounded(b),
         buf' = [buf EXCEPT ![name] = b]
  PROVE  BuffersKept
<1>1. buf \in [Name -> Buffer] /\ \A n \in Name : Bounded(buf[n])
  BY DEF IInv, TypeOK, InBounds
<1>2. buf' \in [Name -> Buffer]
  BY <1>1
<1>3. ASSUME NEW n \in Name PROVE Bounded(buf[n])'
  <2>1. buf'[n] = b \/ buf'[n] = buf[n]
    BY <1>1
  <2>2. ASSUME NEW c, c = buf'[n], Bounded(c) PROVE Bounded(buf[n])'
    BY <2>2 DEF Bounded, AtLimit
  <2> QED BY <1>1, <2>1, <2>2
<1> QED BY <1>2, <1>3 DEF BuffersKept, InBounds

\* No buffer replaced.
LEMMA NoneReplaced ==
  ASSUME IInv, UNCHANGED <<size_max, buf>>
  PROVE  BuffersKept
BY DEF IInv, TypeOK, InBounds, BuffersKept, Bounded, AtLimit

(***************************************************************************)
(* Every step keeps the invariant.                                         *)
(***************************************************************************)
LEMMA InitIInv == Init => IInv
<1> SUFFICES ASSUME Init PROVE IInv
  OBVIOUS
<1>1. NewBuf \in Buffer /\ Bounded(NewBuf)
  <2>1. NewBuf.text = <<>> /\ Len(NewBuf.text) = 0 /\ NewBuf.size = MinSize /\ NewBuf.live = TRUE
    BY DEF NewBuf
  <2>2. NewBuf \in Buffer
    BY SizeAssumption DEF NewBuf, Buffer
  <2> QED BY <2>1, <2>2, SizeAssumption DEF Init, Bounded
<1>2. TypeOK
  <2>1. buf \in [Name -> Buffer]
    BY <1>1 DEF Init
  <2>2. message \in Seq(Conversions) /\ specs \in Seq(Conversions) /\ writes \in Seq(Calls)
    BY DEF Init
  <2> QED BY <2>1, <2>2 DEF Init, TypeOK
<1>3. InBounds
  BY <1>1 DEF Init, InBounds
<1>4. InHand
  BY DEF Init, InHand
<1> QED BY <1>2, <1>3, <1>4 DEF IInv

\* Drop returns to idle.
LEMMA DropControl ==
  ASSUME IInv, Drop, UNCHANGED <<size_max, message>>, failed' \in BOOLEAN, BuffersKept
  PROVE  IInv'
BY DEF IInv, TypeOK, InHand, Drop, BuffersKept

LEMMA BeginIInv == ASSUME IInv, NEW m \in Messages, Begin(m) PROVE IInv'
<1>1. buf["msg"] \in Buffer /\ Bounded(buf["msg"])
  BY DEF IInv, TypeOK, InBounds, Name
<1> DEFINE r == [buf["msg"] EXCEPT !.text = <<>>]
<1>2. r \in Buffer /\ Bounded(r)
  BY <1>1, RestartedBounded
<1>3. buf' = [buf EXCEPT !["msg"] = r]
  BY DEF Begin, IInv, TypeOK
<1> HIDE DEF r
<1>4. BuffersKept
  BY <1>2, <1>3, OneReplaced DEF Begin, Name
<1> QED BY <1>4, MessageAssumption DEF Begin, IInv, TypeOK, InHand, BuffersKept

LEMMA NextSpecIInv == ASSUME IInv, NextSpec PROVE IInv'
<1>1. BuffersKept
  <2>1. CASE Target = "pre"
    <3>1. buf["pre"] \in Buffer /\ Bounded(buf["pre"])
      BY DEF IInv, TypeOK, InBounds, Name
    <3> DEFINE r == [buf["pre"] EXCEPT !.text = <<>>]
    <3>2. r \in Buffer /\ Bounded(r)
      BY <3>1, RestartedBounded
    <3>3. buf' = [buf EXCEPT !["pre"] = r]
      BY <2>1 DEF NextSpec, IInv, TypeOK
    <3> HIDE DEF r
    <3> QED BY <3>2, <3>3, OneReplaced DEF NextSpec, Name
  <2>2. CASE Target # "pre"
    BY <2>2, NoneReplaced DEF NextSpec
  <2> QED BY <2>1, <2>2
<1>2. Head(specs).writes \in Seq(Calls)
  BY TargetType DEF NextSpec, Conversions
<1> QED BY <1>1, <1>2 DEF NextSpec, IInv, TypeOK, InHand, BuffersKept

LEMMA SendIInv == ASSUME IInv, Send PROVE IInv'
<1>1. BuffersKept
  BY NoneReplaced DEF Send
<1> QED BY <1>1 DEF Send, IInv, TypeOK, InHand, BuffersKept

LEMMA WriteIInv == ASSUME IInv, Write PROVE IInv'
<1> DEFINE b == buf[Target]
           call == Head(writes)
<1>1. specs # <<>> /\ writes # <<>>
  BY DEF Write, IInv, InHand
<1>2. Target \in Name /\ b \in Buffer /\ Bounded(b)
  BY <1>1, TargetType
<1>3. call.text \in Seq(Byte) /\ Tail(writes) \in Seq(Calls)
  BY <1>1, CallType
<1>4. size_max \in Nat /\ UNCHANGED size_max
  BY LimitType DEF Write, IInv
<1>5. BuffersKept
  <2>1. CASE Fits(b, call.text, call.fn) /\ buf' = [buf EXCEPT ![Target] = Extended(b, call.text)]
    <3>1. Extended(b, call.text) \in Buffer /\ Bounded(Extended(b, call.text))
      BY <1>2, <1>3, <1>4, <2>1, ExtendedBounded
    <3> QED BY <1>2, <1>4, <2>1, <3>1, OneReplaced
  <2>2. CASE Grows(b, call.text, call.fn) /\ buf' = [buf EXCEPT ![Target] = Grown(b, call.text)]
    <3>1. Grown(b, call.text) \in Buffer /\ Bounded(Grown(b, call.text))
      BY <1>2, <1>3, <1>4, <2>2, GrownBounded
    <3> QED BY <1>2, <1>4, <2>2, <3>1, OneReplaced
  <2> QED BY <2>1, <2>2 DEF Write
<1> QED BY <1>1, <1>3, <1>5 DEF Write, IInv, TypeOK, InHand, BuffersKept

LEMMA WriteOverflowsIInv == ASSUME IInv, WriteOverflows PROVE IInv'
<1> DEFINE b == buf[Target]
           call == Head(writes)
<1>1. specs # <<>> /\ writes # <<>>
  BY DEF WriteOverflows, IInv, InHand
<1>2. Target \in Name /\ b \in Buffer /\ Bounded(b)
  BY <1>1, TargetType
<1>3. call.text \in Seq(Byte)
  BY <1>1, CallType
<1>4. size_max \in Nat /\ UNCHANGED size_max
  BY LimitType DEF WriteOverflows, IInv
<1>5. Overflows(b, call.text, call.fn) /\ buf' = [buf EXCEPT ![Target] = Filled(b, call.text)]
  BY DEF WriteOverflows
<1>6. Filled(b, call.text) \in Buffer /\ Bounded(Filled(b, call.text))
  BY <1>2, <1>3, <1>4, <1>5, FilledBounded
<1>7. BuffersKept
  BY <1>2, <1>4, <1>5, <1>6, OneReplaced
<1>8. CASE Drop
  BY <1>7, <1>8, DropControl DEF WriteOverflows, IInv, TypeOK
<1>9. CASE pc' = "adjust" /\ writes' = <<>> /\ UNCHANGED <<specs, outcome>>
  BY <1>1, <1>7, <1>9 DEF WriteOverflows, IInv, TypeOK, InHand, BuffersKept
<1> QED BY <1>8, <1>9 DEF WriteOverflows

LEMMA WriteFailsIInv == ASSUME IInv, WriteFails PROVE IInv'
<1> DEFINE b == buf[Target]
           call == Head(writes)
<1>1. specs # <<>> /\ writes # <<>>
  BY DEF WriteFails, IInv, InHand
<1>2. Target \in Name /\ b \in Buffer /\ Bounded(b)
  BY <1>1, TargetType
<1>3. call.text \in Seq(Byte)
  BY <1>1, CallType
<1>4. size_max \in Nat /\ UNCHANGED size_max
  BY LimitType DEF WriteFails, IInv
<1>5. MayFail(b, call.text, call.fn) /\ buf' = [buf EXCEPT ![Target] = Lost(b)]
  BY <1>2 DEF WriteFails, IInv, TypeOK
<1>6. Lost(b) \in Buffer /\ Bounded(Lost(b))
  BY <1>2, <1>3, <1>4, <1>5, LostBounded
<1>7. BuffersKept
  BY <1>2, <1>4, <1>5, <1>6, OneReplaced
<1> QED BY <1>7, DropControl DEF WriteFails

LEMMA ConversionFailsIInv == ASSUME IInv, ConversionFails PROVE IInv'
<1>1. BuffersKept
  BY NoneReplaced DEF ConversionFails
<1> QED BY <1>1, DropControl DEF ConversionFails

LEMMA WrittenIInv == ASSUME IInv, Written PROVE IInv'
<1>1. BuffersKept
  BY NoneReplaced DEF Written
<1>2. specs # <<>> /\ Tail(specs) \in Seq(Conversions)
  BY HeadType DEF Written, IInv, InHand, TypeOK
<1> QED BY <1>1, <1>2 DEF Written, IInv, TypeOK, InHand, BuffersKept

LEMMA AdjustIInv == ASSUME IInv, Adjust PROVE IInv'
<1> DEFINE b == buf["msg"]
           text == Padded(Head(specs), buf["pre"].text)
<1>1. specs # <<>> /\ Tail(specs) \in Seq(Conversions)
  BY HeadType DEF Adjust, IInv, InHand, TypeOK
<1>2. "msg" \in Name /\ b \in Buffer /\ Bounded(b)
  BY DEF IInv, TypeOK, InBounds, Name
<1>3. text \in Seq(Byte)
  BY <1>1, AdjustType
<1>4. size_max \in Nat /\ UNCHANGED size_max
  BY LimitType DEF Adjust, IInv
<1>5. \/ Fits(b, text, "convert") /\ buf' = [buf EXCEPT !["msg"] = Extended(b, text)]
      \/ Grows(b, text, "convert") /\ buf' = [buf EXCEPT !["msg"] = Grown(b, text)]
  BY DEF Adjust
<1> HIDE DEF text
<1>6. BuffersKept
  <2>1. CASE Fits(b, text, "convert") /\ buf' = [buf EXCEPT !["msg"] = Extended(b, text)]
    <3>1. Extended(b, text) \in Buffer /\ Bounded(Extended(b, text))
      BY <1>2, <1>3, <1>4, <2>1, ExtendedBounded
    <3> QED BY <1>2, <1>4, <2>1, <3>1, OneReplaced
  <2>2. CASE Grows(b, text, "convert") /\ buf' = [buf EXCEPT !["msg"] = Grown(b, text)]
    <3>1. Grown(b, text) \in Buffer /\ Bounded(Grown(b, text))
      BY <1>2, <1>3, <1>4, <2>2, GrownBounded
    <3> QED BY <1>2, <1>4, <2>2, <3>1, OneReplaced
  <2> QED BY <1>5, <2>1, <2>2
<1> QED BY <1>1, <1>6 DEF Adjust, IInv, TypeOK, InHand, BuffersKept

LEMMA AdjustOverflowsIInv == ASSUME IInv, AdjustOverflows PROVE IInv'
<1> DEFINE b == buf["msg"]
           text == Padded(Head(specs), buf["pre"].text)
<1>1. "msg" \in Name /\ b \in Buffer /\ Bounded(b)
  BY DEF IInv, TypeOK, InBounds, Name
<1>2. text \in Seq(Byte)
  BY AdjustType DEF AdjustOverflows, IInv, InHand
<1>3. size_max \in Nat /\ UNCHANGED size_max
  BY LimitType DEF AdjustOverflows, IInv
<1>4. Overflows(b, text, "convert") /\ buf' = [buf EXCEPT !["msg"] = Filled(b, text)]
  BY DEF AdjustOverflows
<1> HIDE DEF text
<1>5. Filled(b, text) \in Buffer /\ Bounded(Filled(b, text))
  BY <1>1, <1>2, <1>3, <1>4, FilledBounded
<1>6. BuffersKept
  BY <1>1, <1>3, <1>4, <1>5, OneReplaced
<1> QED BY <1>6, DropControl DEF AdjustOverflows, IInv, TypeOK

LEMMA AdjustFailsIInv == ASSUME IInv, AdjustFails PROVE IInv'
<1> DEFINE b == buf["msg"]
           text == Padded(Head(specs), buf["pre"].text)
<1>1. "msg" \in Name /\ b \in Buffer /\ Bounded(b)
  BY DEF IInv, TypeOK, InBounds, Name
<1>2. text \in Seq(Byte)
  BY AdjustType DEF AdjustFails, IInv, InHand
<1>3. size_max \in Nat /\ UNCHANGED size_max
  BY LimitType DEF AdjustFails, IInv
<1>4. MayFail(b, text, "convert") /\ buf' = [buf EXCEPT !["msg"] = Lost(b)]
  BY <1>1 DEF AdjustFails, IInv, TypeOK
<1> HIDE DEF text
<1>5. Lost(b) \in Buffer /\ Bounded(Lost(b))
  BY <1>1, <1>2, <1>3, <1>4, LostBounded
<1>6. BuffersKept
  BY <1>1, <1>3, <1>4, <1>5, OneReplaced
<1> QED BY <1>6, DropControl DEF AdjustFails

LEMMA NextIInv == IInv /\ [Next]_vars => IInv'
<1> SUFFICES ASSUME IInv, [Next]_vars PROVE IInv'
  OBVIOUS
<1>1. CASE UNCHANGED vars
  <2>1. BuffersKept
    BY <1>1, NoneReplaced DEF vars
  <2> QED BY <1>1, <2>1 DEF vars, IInv, TypeOK, InHand, BuffersKept
<1>2. CASE Next
  BY <1>2, BeginIInv, NextSpecIInv, SendIInv, WriteIInv, WriteOverflowsIInv, WriteFailsIInv,
     ConversionFailsIInv, WrittenIInv, AdjustIInv, AdjustOverflowsIInv, AdjustFailsIInv DEF Next
<1> QED BY <1>1, <1>2

(***************************************************************************)
(* The theorems.                                                           *)
(***************************************************************************)
\* The inductive invariant holds.
THEOREM Invariance == Spec => []IInv
BY InitIInv, NextIInv, PTL DEF Spec

\* Every variable keeps its type.
THEOREM TypeCorrect == Spec => []TypeOK
<1>1. IInv => TypeOK
  BY DEF IInv
<1> QED BY <1>1, Invariance, PTL

\* No conversion writes past the end of a buffer, whatever the format, the
\* texts, the limit and the reallocations that fail (buf.c:160-205).
THEOREM BuffersBounded == Spec => []InBounds
<1>1. IInv => InBounds
  BY DEF IInv
<1> QED BY <1>1, Invariance, PTL

(***************************************************************************)
(* What gets into the buffers while nothing fails.                         *)
(***************************************************************************)
TextBuffer == [text : Seq(Char), size : Nat \ {0}, live : {TRUE}]

TextsInv == ~failed => buf \in [Name -> TextBuffer]

\* memcpy of no more bytes than the text has.
LEMMA CopiedText ==
  ASSUME NEW text \in Seq(Char), NEW n \in 0..Len(text)
  PROVE  Copied(text, n) \in Seq(Char)
<1>1. \A i \in 1..n : (IF i <= Len(text) THEN text[i] ELSE Beyond) \in Char
  OBVIOUS
<1> QED BY <1>1 DEF Copied

\* A longer text leaves a buffer with texts.
LEMMA LongerText ==
  ASSUME NEW b \in TextBuffer, NEW text \in Seq(Char), Bounded(b), size_max \in Nat
  PROVE  /\ Extended(b, text) \in TextBuffer
         /\ \A fn : Grows(b, text, fn) => Grown(b, text) \in TextBuffer
<1>1. /\ b.text \in Seq(Char) /\ b.size \in Nat \ {0} /\ b.live = TRUE
      /\ b = [text |-> b.text, size |-> b.size, live |-> b.live]
  BY DEF TextBuffer
<1> DEFINE longer == b.text \o text
<1>2. longer \in Seq(Char)
  BY <1>1, ConcatLen
<1>3. Extended(b, text) = [b EXCEPT !.text = longer]
  BY DEF Extended
<1>4. Grown(b, text) = [text |-> longer, size |-> NewSize(b, Short(b, text)), live |-> TRUE]
  BY DEF Grown
<1> HIDE DEF longer
<1>5. ASSUME NEW fn, Grows(b, text, fn)
      PROVE  NewSize(b, Short(b, text)) \in Nat \ {0}
  <2>1. Short(b, text) \in Nat \ {0}
    BY <1>1, <1>5 DEF Grows, Short, Room
  <2> QED BY <1>1, <2>1 DEF NewSize
<1>6. b.size \in Nat \ {0} /\ b.live = TRUE
  BY <1>1
<1>7. Extended(b, text) \in TextBuffer
  <2>1. Extended(b, text) = [text |-> longer, size |-> b.size, live |-> TRUE]
    BY <1>1, <1>3
  <2> QED BY <1>2, <1>6, <2>1 DEF TextBuffer
<1>8. ASSUME NEW fn, Grows(b, text, fn) PROVE Grown(b, text) \in TextBuffer
  <2>1. NewSize(b, Short(b, text)) \in Nat \ {0}
    BY <1>5, <1>8
  <2> QED BY <1>2, <1>4, <2>1 DEF TextBuffer
<1> QED BY <1>7, <1>8

\* Filling a buffer to its largest size takes no more than the text has: it was
\* the text that did not fit.
LEMMA FilledText ==
  ASSUME size_max \in Nat, NEW b \in TextBuffer, Bounded(b),
         NEW text \in Seq(Char), NEW fn, Overflows(b, text, fn)
  PROVE  Filled(b, text) \in TextBuffer
<1> DEFINE full == IF AtLimit(b) THEN b ELSE [b EXCEPT !.size = size_max, !.live = TRUE]
           more == Copied(text, Room(full))
<1>1. /\ b.text \in Seq(Char) /\ b.size \in Nat \ {0} /\ b.live = TRUE
      /\ b = [text |-> b.text, size |-> b.size, live |-> b.live]
  BY DEF TextBuffer
<1>2. Len(b.text) \in Nat /\ Len(text) \in Nat /\ Len(b.text) < b.size
  BY <1>1 DEF Bounded
<1>3. size_max # 0 /\ b.size <= size_max
  BY DEF Overflows, AtLimit, Clamped, Bounded
<1>4. full = [text |-> b.text, size |-> size_max, live |-> TRUE]
  <2>1. CASE AtLimit(b)
    <3>1. b.size = size_max
      BY <1>1, <1>3, <2>1 DEF AtLimit
    <3> QED BY <1>1, <2>1, <3>1
  <2>2. CASE ~AtLimit(b)
    BY <1>1, <2>2
  <2> QED BY <2>1, <2>2
<1>5. Room(full) = size_max - 1 - Len(b.text)
  <2> HIDE DEF full
  <2> QED BY <1>4 DEF Room
<1>6. Room(full) \in 0..Len(text)
  <2>1. Short(b, text) = Len(text) - (b.size - 1 - Len(b.text)) /\ Short(b, text) > 0
    BY <1>1 DEF Overflows, Short, Room
  <2>2. b.size >= size_max \/ b.size + Short(b, text) > size_max
    BY DEF Overflows, AtLimit, Clamped
  <2> HIDE DEF full
  <2> QED BY <1>1, <1>2, <1>3, <1>5, <2>1, <2>2
<1>7. more \in Seq(Char)
  <2> HIDE DEF full
  <2> QED BY <1>6, CopiedText
<1> HIDE DEF more
<1>8. b.text \o more \in Seq(Char)
  BY <1>1, <1>7, ConcatLen
<1>9. Marked(b.text \o more) \in Seq(Char)
  BY <1>8, MarkedLen
<1>10. Filled(b, text) = [text |-> Marked(b.text \o more), size |-> size_max, live |-> TRUE]
  <2>1. Filled(b, text) = [full EXCEPT !.text = Marked(@ \o more)]
    BY DEF Filled, more
  <2> HIDE DEF full
  <2> QED BY <1>4, <2>1
<1> QED BY <1>3, <1>9, <1>10 DEF TextBuffer

\* What a call or a copy writes.
LEMMA TextWritten ==
  ASSUME IInv, buf \in [Name -> TextBuffer], specs # <<>>
  PROVE  /\ writes # <<>> => Head(writes).text \in Seq(Char)
         /\ Padded(Head(specs), buf["pre"].text) \in Seq(Char)
<1>1. writes # <<>> => Head(writes) \in Calls
  BY HeadType DEF IInv, TypeOK
<1>2. writes # <<>> => Head(writes).text \in Seq(Char)
  BY <1>1 DEF Calls
<1>3. buf["pre"].text \in Seq(Char)
  BY DEF TextBuffer, Name
<1> QED BY <1>2, <1>3, TargetType, PaddedText

LEMMA InitTexts == Init => TextsInv
<1>1. NewBuf \in TextBuffer
  BY SizeAssumption DEF NewBuf, TextBuffer
<1> QED BY <1>1 DEF Init, TextsInv

LEMMA NextTexts == IInv /\ TextsInv /\ [Next]_vars => TextsInv'
<1> SUFFICES ASSUME IInv, TextsInv, [Next]_vars, ~failed'
             PROVE  buf' \in [Name -> TextBuffer]
  BY DEF TextsInv
<1>1. ~failed
  BY DEF vars, Next, Begin, NextSpec, Send, Write, WriteOverflows, WriteFails, ConversionFails,
         Written, Adjust, AdjustOverflows, AdjustFails
<1>2. buf \in [Name -> TextBuffer]
  BY <1>1 DEF TextsInv
<1>3. size_max \in Nat /\ \A name \in Name : Bounded(buf[name])
  BY LimitType DEF IInv, InBounds
<1>4. ASSUME NEW name \in Name, NEW b \in TextBuffer, buf' = [buf EXCEPT ![name] = b]
      PROVE  buf' \in [Name -> TextBuffer]
  BY <1>2, <1>4
<1>5. ASSUME NEW name \in Name
      PROVE  [buf[name] EXCEPT !.text = <<>>] \in TextBuffer
  <2>1. PICK b \in TextBuffer : b = buf[name]
    BY <1>2
  <2>2. /\ b.size \in Nat \ {0} /\ b.live = TRUE
        /\ b = [text |-> b.text, size |-> b.size, live |-> b.live]
    BY DEF TextBuffer
  <2>3. [b EXCEPT !.text = <<>>] = [text |-> <<>>, size |-> b.size, live |-> b.live]
    BY <2>2
  <2>4. <<>> \in Seq(Char)
    OBVIOUS
  <2> QED BY <2>1, <2>2, <2>3, <2>4 DEF TextBuffer
<1>6. CASE UNCHANGED buf
  BY <1>2, <1>6
<1>7. CASE (\E m \in Messages : Begin(m)) \/ NextSpec
  <2>1. PICK name \in Name : buf' = buf \/ buf' = [buf EXCEPT ![name].text = <<>>]
    BY <1>7 DEF Begin, NextSpec, Name
  <2> DEFINE r == [buf[name] EXCEPT !.text = <<>>]
  <2>2. r \in TextBuffer
    BY <1>5
  <2>3. buf' = buf \/ buf' = [buf EXCEPT ![name] = r]
    BY <1>2, <2>1
  <2> HIDE DEF r
  <2> QED BY <1>2, <1>4, <2>2, <2>3
<1>8. CASE Write \/ WriteOverflows
  <2> DEFINE b == buf[Target]
             call == Head(writes)
  <2>1. specs # <<>> /\ writes # <<>>
    BY <1>8 DEF Write, WriteOverflows, IInv, InHand
  <2>2. Target \in Name /\ b \in TextBuffer /\ Bounded(b) /\ call.text \in Seq(Char)
    BY <1>2, <1>3, <2>1, TargetType, TextWritten
  <2>3. \/ buf' = [buf EXCEPT ![Target] = Extended(b, call.text)]
        \/ Grows(b, call.text, call.fn) /\ buf' = [buf EXCEPT ![Target] = Grown(b, call.text)]
        \/ Overflows(b, call.text, call.fn) /\ buf' = [buf EXCEPT ![Target] = Filled(b, call.text)]
    BY <1>8 DEF Write, WriteOverflows
  <2> HIDE DEF b, call
  <2> QED BY <1>3, <1>4, <2>2, <2>3, LongerText, FilledText
<1>9. CASE Adjust \/ AdjustOverflows
  <2> DEFINE b == buf["msg"]
             text == Padded(Head(specs), buf["pre"].text)
  <2>1. specs # <<>>
    BY <1>9 DEF Adjust, AdjustOverflows, IInv, InHand
  <2>2. "msg" \in Name /\ b \in TextBuffer /\ Bounded(b) /\ text \in Seq(Char)
    BY <1>2, <1>3, <2>1, TextWritten DEF Name
  <2>3. \/ buf' = [buf EXCEPT !["msg"] = Extended(b, text)]
        \/ Grows(b, text, "convert") /\ buf' = [buf EXCEPT !["msg"] = Grown(b, text)]
        \/ Overflows(b, text, "convert") /\ buf' = [buf EXCEPT !["msg"] = Filled(b, text)]
    BY <1>9 DEF Adjust, AdjustOverflows
  <2> HIDE DEF b, text
  <2> QED BY <1>3, <1>4, <2>2, <2>3, LongerText, FilledText
<1>10. CASE Send \/ Written \/ UNCHANGED vars
  BY <1>6, <1>10 DEF Send, Written, vars
<1> QED
  BY <1>7, <1>8, <1>9, <1>10 DEF Next, WriteFails, ConversionFails, AdjustFails

\* Until something fails, nothing but texts, padding and the mark gets into a
\* buffer, for any texts, widths and limits: the copies that fill a buffer stop
\* at its end, and the text always reaches that far (buf.c:518-528).
THEOREM TextsNotPassed == Spec => []OnlyTexts
<1>1. TextsInv => OnlyTexts
  BY DEF TextsInv, OnlyTexts, TextBuffer
<1> QED BY <1>1, InitTexts, NextTexts, Invariance, PTL DEF Spec

-----------------------------------------------------------------------------
(***************************************************************************)
(* Sequences put together from parts.                                      *)
(***************************************************************************)
\* FlattenSeq goes through the first n parts one by one.
Joins(f, parts, n) ==
  f = [i \in 1..n |-> IF i = 1 THEN parts[i] ELSE f[i - 1] \o parts[i]]

\* There is such a function for any number of parts.
LEMMA JoinExists ==
  ASSUME NEW parts, NEW m \in Nat
  PROVE  \E f : Joins(f, parts, m)
<1> DEFINE N == {n \in Nat : \E f : Joins(f, parts, n)}
<1>1. 0 \in N
  <2> DEFINE f == [i \in 1..0 |-> 0]
  <2>1. Joins(f, parts, 0)
    BY DEF Joins
  <2> QED BY <2>1
<1>2. ASSUME NEW n \in Nat, n \in N
      PROVE  n + 1 \in N
  <2>1. PICK f : Joins(f, parts, n)
    BY <1>2
  <2>2. PICK last : last = IF n = 0 THEN parts[1] ELSE f[n] \o parts[n + 1]
    OBVIOUS
  <2> DEFINE g == [i \in 1..(n + 1) |-> IF i <= n THEN f[i] ELSE last]
  <2>3. g[n + 1] = last /\ \A i \in 1..n : g[i] = f[i]
    OBVIOUS
  <2>4. g = [i \in 1..(n + 1) |-> g[i]]
    OBVIOUS
  <2> HIDE DEF g
  <2>5. ASSUME NEW i \in 1..(n + 1)
        PROVE  g[i] = IF i = 1 THEN parts[i] ELSE g[i - 1] \o parts[i]
    <3>1. CASE i <= n
      <4>1. i \in 1..n /\ (i # 1 => i - 1 \in 1..n)
        BY <3>1
      <4>2. f[i] = IF i = 1 THEN parts[i] ELSE f[i - 1] \o parts[i]
        BY <2>1, <4>1 DEF Joins
      <4> QED BY <2>3, <4>1, <4>2
    <3>2. CASE i = n + 1
      BY <2>2, <2>3, <3>2
    <3> QED BY <3>1, <3>2
  <2>6. Joins(g, parts, n + 1)
    BY <2>4, <2>5 DEF Joins
  <2> QED BY <2>6
<1> HIDE DEF N
<1>3. Nat \subseteq N
  BY <1>1, <1>2, SetInduction
<1> QED BY <1>3 DEF N

\* FlattenSeq is what it has after the last part.
LEMMA Flattens ==
  ASSUME NEW S, NEW parts \in Seq(Seq(S))
  PROVE  /\ Len(parts) = 0 => FlattenSeq(parts) = <<>>
         /\ \E f : /\ \A i \in 1..Len(parts) :
                        /\ f[i] \in Seq(S)
                        /\ f[i] = IF i = 1 THEN parts[i] ELSE f[i - 1] \o parts[i]
                   /\ Len(parts) # 0 => FlattenSeq(parts) = f[Len(parts)]
<1>1. Len(parts) = 0 => FlattenSeq(parts) = <<>>
  BY DEF FlattenSeq
<1> DEFINE f == CHOOSE g : Joins(g, parts, Len(parts))
<1>2. Joins(f, parts, Len(parts))
  <2>1. \E g : Joins(g, parts, Len(parts))
    <3>1. Len(parts) \in Nat
      OBVIOUS
    <3> QED BY <3>1, JoinExists
  <2> QED BY <2>1
<1>3. Len(parts) # 0 => FlattenSeq(parts) = f[Len(parts)]
  BY DEF FlattenSeq, Joins
<1> HIDE DEF f
<1>4. \A i \in 1..Len(parts) : f[i] = IF i = 1 THEN parts[i] ELSE f[i - 1] \o parts[i]
  BY <1>2 DEF Joins
<1> DEFINE N == {n \in Nat : n \in 1..Len(parts) => f[n] \in Seq(S)}
<1>5. 0 \in N
  OBVIOUS
<1>6. ASSUME NEW n \in Nat, n \in N
      PROVE  n + 1 \in N
  <2> SUFFICES ASSUME n + 1 \in 1..Len(parts) PROVE f[n + 1] \in Seq(S)
    OBVIOUS
  <2>1. parts[n + 1] \in Seq(S)
    OBVIOUS
  <2>2. CASE n = 0
    BY <1>4, <2>1, <2>2
  <2>3. CASE n # 0
    <3>1. n \in 1..Len(parts)
      BY <2>3
    <3>2. f[n] \in Seq(S)
      BY <1>6, <3>1
    <3>3. f[n + 1] = f[n] \o parts[n + 1]
      <4>1. f[n + 1] = IF n + 1 = 1 THEN parts[n + 1] ELSE f[n + 1 - 1] \o parts[n + 1]
        BY <1>4
      <4>2. n + 1 # 1 /\ n + 1 - 1 = n
        BY <2>3
      <4> QED BY <4>1, <4>2
    <3> QED BY <2>1, <3>2, <3>3, ConcatLen
  <2> QED BY <2>2, <2>3
<1> HIDE DEF N
<1>7. Nat \subseteq N
  BY <1>5, <1>6, SetInduction
<1>8. \A i \in 1..Len(parts) : f[i] \in Seq(S)
  BY <1>7 DEF N
<1> QED BY <1>1, <1>3, <1>4, <1>8

\* One part more.
LEMMA FlattenAppend ==
  ASSUME NEW S, NEW parts \in Seq(Seq(S)), NEW part \in Seq(S)
  PROVE  /\ FlattenSeq(parts) \in Seq(S)
         /\ FlattenSeq(Append(parts, part)) = FlattenSeq(parts) \o part
<1> DEFINE more == Append(parts, part)
           C == Len(parts)
<1>1. /\ more \in Seq(Seq(S)) /\ Len(more) = C + 1 /\ C \in Nat
      /\ more[C + 1] = part /\ \A i \in 1..C : more[i] = parts[i]
  OBVIOUS
<1> HIDE DEF more
<1>2. PICK f : /\ \A i \in 1..C : /\ f[i] \in Seq(S)
                                  /\ f[i] = IF i = 1 THEN parts[i] ELSE f[i - 1] \o parts[i]
               /\ C # 0 => FlattenSeq(parts) = f[C]
  BY Flattens
<1>3. PICK g : /\ \A i \in 1..(C + 1) : g[i] = IF i = 1 THEN more[i] ELSE g[i - 1] \o more[i]
               /\ FlattenSeq(more) = g[C + 1]
  <2>1. PICK g : /\ \A i \in 1..Len(more) :
                        /\ g[i] \in Seq(S)
                        /\ g[i] = IF i = 1 THEN more[i] ELSE g[i - 1] \o more[i]
                 /\ Len(more) # 0 => FlattenSeq(more) = g[Len(more)]
    BY <1>1, Flattens
  <2>2. Len(more) = C + 1 /\ C + 1 # 0
    BY <1>1
  <2>3. \A i \in 1..(C + 1) : g[i] = IF i = 1 THEN more[i] ELSE g[i - 1] \o more[i]
    BY <2>1, <2>2
  <2>4. FlattenSeq(more) = g[C + 1]
    BY <2>1, <2>2
  <2> QED BY <2>3, <2>4
<1>4. C = 0 => FlattenSeq(parts) = <<>>
  BY Flattens
<1> HIDE DEF C
<1> DEFINE N == {n \in Nat : n \in 1..C => f[n] = g[n]}
<1>5. 0 \in N
  OBVIOUS
<1>6. ASSUME NEW n \in Nat, n \in N
      PROVE  n + 1 \in N
  <2> SUFFICES ASSUME n + 1 \in 1..C PROVE f[n + 1] = g[n + 1]
    OBVIOUS
  <2>1. n + 1 \in 1..(C + 1)
    BY <1>1
  <2> QED BY <1>1, <1>2, <1>3, <1>6, <2>1
<1> HIDE DEF N
<1>7. Nat \subseteq N
  BY <1>5, <1>6, SetInduction
<1>8. C # 0 => C \in 1..C /\ f[C] = g[C]
  BY <1>1, <1>7 DEF N
<1>9. FlattenSeq(parts) \in Seq(S)
  <2>1. CASE C = 0
    BY <1>4, <2>1
  <2>2. CASE C # 0
    BY <1>2, <1>8, <2>2
  <2> QED BY <2>1, <2>2
<1>10. FlattenSeq(more) = FlattenSeq(parts) \o part
  <2>1. CASE C = 0
    <3>1. FlattenSeq(more) = part
      BY <1>1, <1>3, <2>1
    <3>2. <<>> \o part = part
      OBVIOUS
    <3> QED BY <1>4, <2>1, <3>1, <3>2
  <2>2. CASE C # 0
    <3>1. C + 1 \in 1..(C + 1) /\ C + 1 # 1 /\ C + 1 - 1 = C
      BY <1>1, <2>2
    <3>2. PICK j : j = C + 1
      OBVIOUS
    <3>3. j \in 1..(C + 1) /\ j # 1 /\ j - 1 = C
      BY <1>1, <3>1, <3>2
    <3>4. g[j] = IF j = 1 THEN more[j] ELSE g[j - 1] \o more[j]
      BY <1>3, <3>3
    <3>5. g[C + 1] = g[C] \o part
      BY <1>1, <3>2, <3>3, <3>4
    <3> QED BY <1>2, <1>3, <1>8, <2>2, <3>5
  <2> QED BY <2>1, <2>2
<1> QED BY <1>9, <1>10 DEF more

\* No parts make nothing.
LEMMA FlattenEmpty == FlattenSeq(<<>>) = <<>>
BY DEF FlattenSeq

\* Concatenation does not depend on where it begins.
LEMMA ConcatOrder ==
  ASSUME NEW S
  PROVE  \A a, b, c \in Seq(S) : (a \o b) \o c = a \o (b \o c)
<1> TAKE a, b, c \in Seq(S)
<1> QED BY ConcatAssociative

\* Parts put together in two halves.
LEMMA FlattenConcat ==
  ASSUME NEW S, NEW left \in Seq(Seq(S)), NEW right \in Seq(Seq(S))
  PROVE  /\ FlattenSeq(left) \in Seq(S) /\ FlattenSeq(right) \in Seq(S)
         /\ FlattenSeq(left \o right) = FlattenSeq(left) \o FlattenSeq(right)
<1> DEFINE P == Seq(S)
           N == {n \in Nat : \A t \in Seq(P) : Len(t) = n =>
                   FlattenSeq(left \o t) = FlattenSeq(left) \o FlattenSeq(t)}
<1>1. \A t \in Seq(P) : FlattenSeq(t) \in Seq(S)
  <2> TAKE t \in Seq(P)
  <2>1. <<>> \in Seq(S)
    OBVIOUS
  <2> QED BY <2>1, FlattenAppend
<1>2. 0 \in N
  <2> SUFFICES ASSUME NEW t \in Seq(P), Len(t) = 0
               PROVE  FlattenSeq(left \o t) = FlattenSeq(left) \o FlattenSeq(t)
    OBVIOUS
  <2>1. t = <<>> /\ left \o t = left
    OBVIOUS
  <2>2. FlattenSeq(left) \o <<>> = FlattenSeq(left)
    BY <1>1
  <2> QED BY <2>1, <2>2, FlattenEmpty
<1>3. ASSUME NEW n \in Nat, n \in N
      PROVE  n + 1 \in N
  <2> SUFFICES ASSUME NEW t \in Seq(P), Len(t) = n + 1
               PROVE  FlattenSeq(left \o t) = FlattenSeq(left) \o FlattenSeq(t)
    OBVIOUS
  <2>1. PICK u \in Seq(P), x \in P : t = Append(u, x)
    <3>1. t # <<>>
      OBVIOUS
    <3> HIDE DEF P
    <3> QED BY <3>1, SequenceEmptyOrAppend
  <2>2. Len(u) = n
    BY <2>1
  <2>3. left \o t = Append(left \o u, x) /\ left \o u \in Seq(P)
    BY <2>1
  <2>4. FlattenSeq(left \o t) = FlattenSeq(left \o u) \o x
    BY <2>3, FlattenAppend
  <2>5. FlattenSeq(t) = FlattenSeq(u) \o x
    BY <2>1, FlattenAppend
  <2>6. FlattenSeq(left \o u) = FlattenSeq(left) \o FlattenSeq(u)
    BY <1>3, <2>2
  <2>7. /\ FlattenSeq(left) \in Seq(S) /\ FlattenSeq(u) \in Seq(S) /\ x \in Seq(S)
    BY <1>1
  <2>8. (FlattenSeq(left) \o FlattenSeq(u)) \o x = FlattenSeq(left) \o (FlattenSeq(u) \o x)
    BY <2>7, ConcatOrder, SMTT(20)
  <2> QED BY <2>4, <2>5, <2>6, <2>8
<1> HIDE DEF N
<1>4. Nat \subseteq N
  BY <1>2, <1>3, SetInduction
<1>5. Len(right) \in N
  BY <1>4
<1> QED BY <1>1, <1>5 DEF N

(***************************************************************************)
(* What the functions make of a text, position by position.                *)
(***************************************************************************)
\* The texts of a conversion's calls.
Texts(calls) == FlattenSeq([i \in DOMAIN calls |-> calls[i].text])

\* cdlog_buf_adjust_append makes the field the format asks for.
LEMMA PaddedIsField ==
  ASSUME NEW c \in Conversions, NEW text \in Seq(Char)
  PROVE  Padded(c, text) = Field(c, text)
<1>1. PICK lo, hi \in Nat : lo = c.min_width /\ hi = c.max_width
  BY DEF Conversions
<1>2. PICK k \in 0..Len(text) :
        /\ k = IF hi = 0 \/ Len(text) < hi THEN Len(text) ELSE hi
        /\ k = IF hi = 0 THEN Len(text) ELSE Smaller(Len(text), hi)
  BY <1>1 DEF Smaller
<1>3. PICK source : source = SubSeq(text, 1, k)
  OBVIOUS
<1>4. source \in Seq(Char) /\ Len(source) = k /\ \A i \in 1..k : source[i] = text[i]
  BY <1>2, <1>3
<1>5. PICK pad : pad = IF ~c.left /\ c.zeros THEN Zero ELSE Space
  OBVIOUS
<1>6. pad \in Char
  BY <1>5, CharAssumption
<1>7. PICK rest \in Nat : rest = IF k < lo THEN lo - k ELSE 0
  BY <1>1, <1>2
<1>8. PICK fill : fill = [i \in 1..(lo - k) |-> pad]
  OBVIOUS
<1>9. 1..(lo - k) = 1..rest
  BY <1>1, <1>2, <1>7
<1>10. fill \in Seq(Char) /\ Len(fill) = rest /\ \A i \in 1..rest : fill[i] = pad
  <2>1. fill = [i \in 1..rest |-> pad]
    BY <1>8, <1>9
  <2> QED BY <1>6, <2>1
<1>11. Padded(c, text) = IF c.left THEN source \o fill ELSE fill \o source
  <2>1. Padded(c, text) =
          IF c.left THEN source \o [i \in 1..(lo - k) |-> Space]
          ELSE [i \in 1..(lo - k) |-> IF c.zeros THEN Zero ELSE Space] \o source
    BY <1>1, <1>2, <1>3, <1>4 DEF Padded
  <2> QED BY <1>5, <1>8, <2>1
<1>12. PICK width \in Nat : width = rest + k /\ width = IF k < lo THEN lo ELSE k
  BY <1>1, <1>2, <1>7
<1>13. PICK first \in Nat : first = (IF c.left THEN 0 ELSE rest)
                           /\ first = (IF c.left THEN 0 ELSE width - k)
  BY <1>2, <1>7, <1>12
<1>14. Field(c, text) = [i \in 1..width |-> IF i - first \in 1..k THEN text[i - first] ELSE pad]
  BY <1>1, <1>2, <1>5, <1>12, <1>13 DEF Field
<1>15. Len(Field(c, text)) = width /\ Field(c, text) \in Seq(Char)
  <2>1. \A i \in 1..width : (IF i - first \in 1..k THEN text[i - first] ELSE pad) \in Char
    BY <1>2, <1>6
  <2>2. PICK f : f = [i \in 1..width |-> IF i - first \in 1..k THEN text[i - first] ELSE pad]
    OBVIOUS
  <2>3. f \in [1..width -> Char]
    BY <2>1, <2>2
  <2>4. f \in Seq(Char) /\ Len(f) = width
    BY <1>12, <2>2, <2>3
  <2> QED BY <1>14, <2>2, <2>4
<1>16. CASE c.left
  <2>1. source \o fill \in Seq(Char) /\ Len(source \o fill) = width
    BY <1>4, <1>10, <1>12
  <2>2. \A i \in 1..width : (source \o fill)[i] = Field(c, text)[i]
    BY <1>4, <1>10, <1>12, <1>14, <1>16, <1>13
  <2> QED BY <1>11, <1>15, <1>16, <2>1, <2>2, SeqEqual
<1>17. CASE ~c.left
  <2>1. fill \o source \in Seq(Char) /\ Len(fill \o source) = width
    BY <1>4, <1>10, <1>12
  <2>2. \A i \in 1..width : (fill \o source)[i] = Field(c, text)[i]
    <3> TAKE i \in 1..width
    <3>1. (fill \o source)[i] = IF i <= rest THEN fill[i] ELSE source[i - rest]
      BY <1>4, <1>10, <1>12
    <3>2. Field(c, text)[i] = IF i - rest \in 1..k THEN text[i - rest] ELSE pad
      BY <1>14, <1>17, <1>13
    <3> QED BY <1>4, <1>10, <1>12, <3>1, <3>2
  <2> QED BY <1>11, <1>15, <1>17, <2>1, <2>2, SeqEqual
<1> QED BY <1>16, <1>17

\* What is where in a concatenation.
LEMMA ConcatAt ==
  ASSUME NEW S, NEW s \in Seq(S), NEW t \in Seq(S)
  PROVE  \A i \in 1..(Len(s) + Len(t)) : (s \o t)[i] = IF i <= Len(s) THEN s[i] ELSE t[i - Len(s)]
OBVIOUS

\* A text that does not fit fills the largest size, whatever was to follow, with
\* the mark at its end.
LEMMA FilledIsCut ==
  ASSUME size_max \in Nat, NEW b \in TextBuffer, Bounded(b),
         NEW text \in Seq(Char), NEW rest \in Seq(Char), NEW fn, Overflows(b, text, fn)
  PROVE  /\ size_max # 0 /\ Len(b.text) + Len(text) > Longest
         /\ Filled(b, text).text = Cut((b.text \o text) \o rest)
<1> DEFINE full == IF AtLimit(b) THEN b ELSE [b EXCEPT !.size = size_max, !.live = TRUE]
           more == Copied(text, Room(full))
<1>1. /\ b.text \in Seq(Char) /\ b.size \in Nat \ {0} /\ b.live = TRUE
      /\ b = [text |-> b.text, size |-> b.size, live |-> b.live]
  BY DEF TextBuffer
<1>2. Len(b.text) \in Nat /\ Len(text) \in Nat /\ Len(b.text) < b.size
  BY <1>1 DEF Bounded
<1>3. size_max # 0 /\ b.size <= size_max
  BY DEF Overflows, AtLimit, Clamped, Bounded
<1>4. full = [text |-> b.text, size |-> size_max, live |-> TRUE]
  <2>1. CASE AtLimit(b)
    <3>1. b.size = size_max
      BY <1>1, <1>3, <2>1 DEF AtLimit
    <3> QED BY <1>1, <2>1, <3>1
  <2>2. CASE ~AtLimit(b)
    BY <1>1, <2>2
  <2> QED BY <2>1, <2>2
<1>5. Room(full) = size_max - 1 - Len(b.text)
  <2> HIDE DEF full
  <2> QED BY <1>4 DEF Room
<1>6. Len(b.text) + Len(text) > size_max - 1
  <2>1. Short(b, text) = Len(text) - (b.size - 1 - Len(b.text)) /\ Short(b, text) > 0
    BY <1>1 DEF Overflows, Short, Room
  <2>2. b.size >= size_max \/ b.size + Short(b, text) > size_max
    BY DEF Overflows, AtLimit, Clamped
  <2> HIDE DEF full
  <2> QED BY <1>1, <1>2, <1>3, <2>1, <2>2
<1>7. PICK C \in Nat, r \in Nat : C = size_max - 1 /\ r = C - Len(b.text) /\ Room(full) = r
  <2> HIDE DEF full
  <2> QED BY <1>1, <1>2, <1>3, <1>5
<1>8. more = [i \in 1..r |-> text[i]]
  <2>1. \A i \in 1..r : i <= Len(text)
    BY <1>2, <1>6, <1>7
  <2> HIDE DEF full
  <2> QED BY <1>7, <2>1 DEF Copied
<1>9. more \in Seq(Char) /\ Len(more) = r /\ \A i \in 1..r : more[i] = text[i]
  <2>1. \A i \in 1..r : text[i] \in Char
    BY <1>2, <1>6, <1>7
  <2> HIDE DEF more
  <2>2. more \in [1..r -> Char]
    BY <1>8, <2>1
  <2>3. more \in Seq(Char) /\ Len(more) = r
    <3>1. PICK f \in [1..r -> Char] : f = more
      BY <2>2
    <3>2. f \in Seq(Char) /\ Len(f) = r
      BY <1>7
    <3> QED BY <3>1, <3>2
  <2>4. \A i \in 1..r : more[i] = text[i]
    BY <1>8
  <2> QED BY <2>3, <2>4
<1>10. Filled(b, text).text = Marked(b.text \o more)
  <2>1. Filled(b, text) = [full EXCEPT !.text = Marked(@ \o more)]
    BY DEF Filled
  <2> HIDE DEF full, more
  <2> QED BY <1>4, <2>1
<1> HIDE DEF full, more
<1>11. PICK t \in Seq(Char), w \in Seq(Char) : t = b.text \o more /\ w = (b.text \o text) \o rest
  BY <1>1, <1>9, ConcatLen
<1>12. /\ Len(t) = C /\ Len(w) > C
       /\ \A i \in 1..C : t[i] = w[i]
  <2>1. PICK v \in Seq(Char) : v = b.text \o text
    BY <1>1, ConcatLen
  <2>2. Len(v) = Len(b.text) + Len(text) /\ Len(v) > C /\ Len(t) = C
    <3>1. Len(v) = Len(b.text) + Len(text)
      BY <1>1, <2>1, ConcatLen
    <3>2. Len(t) = Len(b.text) + Len(more)
      BY <1>1, <1>9, <1>11, ConcatLen
    <3> QED BY <1>2, <1>6, <1>7, <1>9, <3>1, <3>2
  <2>3. Len(w) >= Len(v) /\ \A i \in 1..Len(v) : w[i] = v[i]
    BY <1>11, <2>1
  <2>4. ASSUME NEW i \in 1..C
        PROVE  t[i] = v[i]
    <3>1. CASE i <= Len(b.text)
      BY <1>1, <1>2, <1>7, <1>9, <1>11, <2>1, <2>2, <3>1
    <3>2. CASE i > Len(b.text)
      <4>1. t[i] = more[i - Len(b.text)] /\ v[i] = text[i - Len(b.text)]
        BY <1>1, <1>2, <1>7, <1>9, <1>11, <2>1, <2>2, <3>2
      <4>2. i - Len(b.text) \in 1..r
        BY <1>2, <1>7, <3>2
      <4> QED BY <1>9, <4>1, <4>2
    <3> QED BY <1>2, <3>1, <3>2
  <2>5. Len(v) \in Nat /\ Len(w) \in Nat /\ C < Len(v)
    BY <2>2
  <2>6. ASSUME NEW i \in 1..C
        PROVE  t[i] = w[i]
    <3>1. i \in 1..Len(v)
      BY <2>5
    <3> QED BY <2>3, <2>4, <3>1
  <2>7. Len(w) > C
    BY <2>3, <2>5
  <2> QED BY <2>2, <2>6, <2>7
<1>13. PICK n \in Nat : n = Smaller(C, Len(Truncate)) /\ n <= C /\ n <= Len(Truncate)
                       /\ n = IF C < Len(Truncate) THEN C ELSE Len(Truncate)
  BY CharAssumption DEF Smaller
<1>14. PICK m : m = SubSeq(t, 1, C - n) \o SubSeq(Truncate, 1, n)
  OBVIOUS
<1>15. Marked(t) = m
  BY <1>12, <1>13, <1>14 DEF Marked
<1>16. /\ m \in Seq(Char) /\ Len(m) = C
       /\ \A i \in 1..C : m[i] = IF i <= C - n THEN t[i] ELSE Truncate[i - (C - n)]
  <2>1. PICK d \in 0..Len(t) : d = C - n
    <3>1. C - n \in 0..C
      BY <1>13
    <3> QED BY <1>12, <3>1
  <2>2. PICK u : u = SubSeq(t, 1, d)
    OBVIOUS
  <2>3. u \in Seq(Char) /\ Len(u) = d /\ \A i \in 1..d : u[i] = t[i]
    BY <2>2
  <2>4. PICK v : v = SubSeq(Truncate, 1, n)
    OBVIOUS
  <2>5. n \in 0..Len(Truncate) /\ Truncate \in Seq(Char)
    BY <1>13, CharAssumption
  <2>6. v \in Seq(Char) /\ Len(v) = n /\ \A i \in 1..n : v[i] = Truncate[i]
    BY <2>4, <2>5
  <2>7. m = u \o v /\ d + n = C
    BY <1>13, <1>14, <2>1, <2>2, <2>4
  <2>8. /\ m \in Seq(Char) /\ Len(m) = C
        /\ \A i \in 1..C : m[i] = IF i <= d THEN u[i] ELSE v[i - d]
    <3>1. Len(u) + Len(v) = C
      BY <2>3, <2>6, <2>7
    <3>2. m \in Seq(Char) /\ Len(m) = C
      BY <2>3, <2>6, <2>7, <3>1, ConcatProperties
    <3>3. \A i \in 1..C : m[i] = IF i <= Len(u) THEN u[i] ELSE v[i - Len(u)]
      <4>1. \A i \in 1..(Len(u) + Len(v)) :
              (u \o v)[i] = IF i <= Len(u) THEN u[i] ELSE v[i - Len(u)]
        BY <2>3, <2>6, ConcatAt
      <4> QED BY <2>7, <3>1, <4>1
    <3> QED BY <2>3, <3>2, <3>3
  <2>9. ASSUME NEW i \in 1..C
        PROVE  m[i] = IF i <= d THEN t[i] ELSE Truncate[i - d]
    <3>1. CASE i <= d
      <4>1. i \in 1..d
        BY <2>1, <3>1
      <4> QED BY <2>3, <2>8, <3>1, <4>1
    <3>2. CASE i > d
      <4>1. i - d \in 1..n /\ ~(i <= d)
        BY <1>13, <2>1, <2>7, <3>2
      <4> QED BY <2>6, <2>8, <4>1
    <3>3. i <= d \/ i > d
      BY <2>1
    <3> QED BY <3>1, <3>2, <3>3
  <2> QED BY <2>1, <2>8, <2>9
<1>17. PICK f : f = [i \in 1..C |-> IF i <= C - n THEN w[i] ELSE Truncate[i - (C - n)]]
  OBVIOUS
<1>18. Cut(w) = f
  BY <1>3, <1>7, <1>12, <1>13, <1>17 DEF Cut, TooLong, Longest
<1>19. f = m
  <2>1. \A i \in 1..C : f[i] = m[i]
    BY <1>12, <1>13, <1>16, <1>17
  <2>2. m = [i \in 1..C |-> m[i]]
    BY <1>16
  <2> QED BY <1>17, <2>1, <2>2
<1> QED BY <1>3, <1>6, <1>7, <1>10, <1>11, <1>15, <1>18, <1>19 DEF Longest

\* One part alone.
LEMMA FlattenOne ==
  ASSUME NEW S, NEW part \in Seq(S)
  PROVE  FlattenSeq(<<part>>) = part
<1>1. <<>> \in Seq(Seq(S)) /\ <<part>> = Append(<<>>, part) /\ <<>> \o part = part
  OBVIOUS
<1>2. FlattenSeq(Append(<<>>, part)) = FlattenSeq(<<>>) \o part
  BY <1>1, FlattenAppend
<1> QED BY <1>1, <1>2, FlattenEmpty

\* What a function gives for each element of a sequence.
Each(g, s) == [i \in DOMAIN s |-> g[s[i]]]

\* It may be taken in two halves.
Splits(g, S, T) ==
  \A s, t \in Seq(S) : Each(g, s) \in Seq(T) /\ Each(g, s \o t) = Each(g, s) \o Each(g, t)

\* So it is for every function.
LEMMA EachSplits ==
  ASSUME NEW S, NEW T, NEW g \in [S -> T]
  PROVE  Splits(g, S, T)
<1> SUFFICES ASSUME NEW s \in Seq(S), NEW t \in Seq(S)
             PROVE  Each(g, s) \in Seq(T) /\ Each(g, s \o t) = Each(g, s) \o Each(g, t)
  BY DEF Splits
<1>1. /\ s \o t \in Seq(S) /\ Len(s \o t) = Len(s) + Len(t)
      /\ \A i \in 1..(Len(s) + Len(t)) : (s \o t)[i] = IF i <= Len(s) THEN s[i] ELSE t[i - Len(s)]
  BY ConcatLen, ConcatAt
<1>2. ASSUME NEW u \in Seq(S)
      PROVE  /\ Each(g, u) \in Seq(T) /\ Len(Each(g, u)) = Len(u)
             /\ \A i \in 1..Len(u) : Each(g, u)[i] = g[u[i]]
  <2>1. DOMAIN u = 1..Len(u) /\ Len(u) \in Nat /\ \A i \in 1..Len(u) : u[i] \in S
    OBVIOUS
  <2>2. PICK f : f = [i \in 1..Len(u) |-> g[u[i]]]
    OBVIOUS
  <2>3. f \in [1..Len(u) -> T]
    BY <2>1, <2>2
  <2>4. f \in Seq(T) /\ Len(f) = Len(u)
    BY <2>1, <2>3
  <2>5. Each(g, u) = f
    BY <2>1, <2>2 DEF Each
  <2> QED BY <2>2, <2>4, <2>5
<1>3. PICK a \in Seq(T), b \in Seq(T), c \in Seq(T) :
        a = Each(g, s) /\ b = Each(g, t) /\ c = Each(g, s \o t)
  BY <1>1, <1>2
<1>4. Len(a) = Len(s) /\ Len(b) = Len(t) /\ Len(c) = Len(s) + Len(t)
  BY <1>1, <1>2, <1>3
<1>5. /\ a \o b \in Seq(T) /\ Len(a \o b) = Len(s) + Len(t)
      /\ \A i \in 1..(Len(s) + Len(t)) : (a \o b)[i] = IF i <= Len(s) THEN a[i] ELSE b[i - Len(s)]
  <2>1. a \o b \in Seq(T) /\ Len(a \o b) = Len(a) + Len(b)
    BY ConcatLen
  <2>2. \A i \in 1..(Len(a) + Len(b)) : (a \o b)[i] = IF i <= Len(a) THEN a[i] ELSE b[i - Len(a)]
    BY ConcatAt
  <2> QED BY <1>4, <2>1, <2>2
<1>6. ASSUME NEW i \in 1..(Len(s) + Len(t))
      PROVE  c[i] = (a \o b)[i]
  <2>1. c[i] = g[(s \o t)[i]]
    BY <1>1, <1>2, <1>3
  <2>2. CASE i <= Len(s)
    <3>1. a[i] = g[s[i]] /\ (s \o t)[i] = s[i]
      BY <1>1, <1>2, <1>3, <2>2
    <3> QED BY <1>5, <2>1, <2>2, <3>1
  <2>3. CASE i > Len(s)
    <3>1. i - Len(s) \in 1..Len(t) /\ (s \o t)[i] = t[i - Len(s)]
      BY <1>1, <2>3
    <3>2. b[i - Len(s)] = g[t[i - Len(s)]]
      BY <1>2, <1>3, <3>1
    <3> QED BY <1>5, <2>1, <2>3, <3>1, <3>2
  <2>4. i <= Len(s) \/ i > Len(s)
    OBVIOUS
  <2> QED BY <2>2, <2>3, <2>4
<1>7. c = a \o b
  BY <1>4, <1>5, <1>6, SeqEqual
<1> QED BY <1>3, <1>4, <1>7

\* A conversion writes its calls' texts, one after another.
LEMMA TextsAre ==
  /\ Texts(<<>>) = <<>>
  /\ \A s, t \in Seq(Calls) :
       Texts(s) \in Seq(Char) /\ Texts(s \o t) = Texts(s) \o Texts(t)
  /\ \A call \in Calls : Texts(<<call>>) = call.text
<1>1. PICK g \in [Calls -> Seq(Char)] : g = [call \in Calls |-> call.text]
  BY DEF Calls
<1>2. ASSUME NEW s \in Seq(Calls)
      PROVE  Texts(s) = FlattenSeq(Each(g, s))
  <2>1. \A i \in DOMAIN s : g[s[i]] = s[i].text
    BY <1>1
  <2>2. Each(g, s) = [i \in DOMAIN s |-> s[i].text]
    BY <2>1 DEF Each
  <2> QED BY <2>2 DEF Texts
<1>3. ASSUME NEW s \in Seq(Calls), NEW t \in Seq(Calls)
      PROVE  Texts(s) \in Seq(Char) /\ Texts(s \o t) = Texts(s) \o Texts(t)
  <2>1. s \o t \in Seq(Calls)
    OBVIOUS
  <2>2. /\ Each(g, s) \in Seq(Seq(Char)) /\ Each(g, t) \in Seq(Seq(Char))
        /\ Each(g, s \o t) = Each(g, s) \o Each(g, t)
    <3>1. Splits(g, Calls, Seq(Char))
      BY EachSplits
    <3> QED BY <3>1 DEF Splits
  <2>3. /\ FlattenSeq(Each(g, s)) \in Seq(Char)
        /\ FlattenSeq(Each(g, s) \o Each(g, t)) = FlattenSeq(Each(g, s)) \o FlattenSeq(Each(g, t))
    BY <2>2, FlattenConcat
  <2> QED BY <1>2, <2>1, <2>2, <2>3
<1>4. ASSUME NEW call \in Calls
      PROVE  Texts(<<call>>) = call.text
  <2>1. <<call>> \in Seq(Calls) /\ call.text \in Seq(Char)
    BY DEF Calls
  <2>2. Each(g, <<call>>) = <<call.text>>
    BY <1>1 DEF Each
  <2> QED BY <1>2, <2>1, <2>2, FlattenOne
<1>5. Texts(<<>>) = <<>>
  <2>1. [i \in DOMAIN <<>> |-> <<>>[i].text] = <<>>
    OBVIOUS
  <2> QED BY <2>1, FlattenEmpty DEF Texts
<1> QED BY <1>3, <1>4, <1>5

\* A cut text is still a text.
LEMMA CutText ==
  ASSUME size_max \in Nat, NEW text \in Seq(Char)
  PROVE  Cut(text) \in Seq(Char)
<1>1. CASE ~TooLong(text)
  BY <1>1 DEF Cut
<1>2. CASE TooLong(text)
  <2>1. PICK C \in Nat : C = Longest /\ C < Len(text)
    BY <1>2 DEF TooLong, Longest
  <2>2. PICK n \in Nat : n = Smaller(C, Len(Truncate)) /\ n <= C /\ n <= Len(Truncate)
    BY CharAssumption DEF Smaller
  <2>3. PICK f : f = [i \in 1..C |-> IF i <= C - n THEN text[i] ELSE Truncate[i - (C - n)]]
    OBVIOUS
  <2>4. \A i \in 1..C : (IF i <= C - n THEN text[i] ELSE Truncate[i - (C - n)]) \in Char
    <3> TAKE i \in 1..C
    <3>1. i <= C - n => text[i] \in Char
      BY <2>1
    <3>2. i > C - n => i - (C - n) \in 1..Len(Truncate)
      BY <2>2
    <3>3. i > C - n => Truncate[i - (C - n)] \in Char
      BY <3>2, CharAssumption
    <3> QED BY <3>1, <3>3
  <2>5. f \in [1..C -> Char]
    BY <2>3, <2>4
  <2>6. f \in Seq(Char)
    BY <2>5
  <2>7. Cut(text) = f
    BY <1>2, <2>1, <2>2, <2>3 DEF Cut
  <2> QED BY <2>6, <2>7
<1> QED BY <1>1, <1>2

\* What a conversion stands for is what it leaves in msg_buf.
LEMMA ImageText ==
  ASSUME size_max \in Nat, NEW c \in Conversions
  PROVE  /\ Image(c) \in Seq(Char)
         /\ Image(c) = IF c.reformat THEN Padded(c, Cut(Texts(c.writes))) ELSE Texts(c.writes)
<1>1. Texts(c.writes) \in Seq(Char)
  BY TextsAre DEF Conversions
<1>2. Image(c) = IF c.reformat THEN Field(c, Cut(Texts(c.writes))) ELSE Texts(c.writes)
  BY DEF Image, Texts
<1>3. Field(c, Cut(Texts(c.writes))) = Padded(c, Cut(Texts(c.writes)))
      /\ Padded(c, Cut(Texts(c.writes))) \in Seq(Char)
  BY <1>1, CutText, PaddedIsField, PaddedText
<1> QED BY <1>1, <1>2, <1>3

\* A format stands for what its conversions stand for, one after another.
LEMMA MeaningsAre ==
  ASSUME size_max \in Nat
  PROVE  /\ Meaning(<<>>) = <<>>
         /\ \A s, t \in Seq(Conversions) :
              Meaning(s) \in Seq(Char) /\ Meaning(s \o t) = Meaning(s) \o Meaning(t)
         /\ \A c \in Conversions : Meaning(<<c>>) = Image(c)
<1>1. PICK g \in [Conversions -> Seq(Char)] : g = [c \in Conversions |-> Image(c)]
  BY ImageText
<1>2. ASSUME NEW s \in Seq(Conversions)
      PROVE  Meaning(s) = FlattenSeq(Each(g, s))
  <2>1. \A i \in DOMAIN s : g[s[i]] = Image(s[i])
    BY <1>1
  <2>2. Each(g, s) = [i \in DOMAIN s |-> Image(s[i])]
    BY <2>1 DEF Each
  <2> QED BY <2>2 DEF Meaning
<1>3. ASSUME NEW s \in Seq(Conversions), NEW t \in Seq(Conversions)
      PROVE  Meaning(s) \in Seq(Char) /\ Meaning(s \o t) = Meaning(s) \o Meaning(t)
  <2>1. s \o t \in Seq(Conversions)
    OBVIOUS
  <2>2. /\ Each(g, s) \in Seq(Seq(Char)) /\ Each(g, t) \in Seq(Seq(Char))
        /\ Each(g, s \o t) = Each(g, s) \o Each(g, t)
    <3>1. Splits(g, Conversions, Seq(Char))
      BY EachSplits
    <3> QED BY <3>1 DEF Splits
  <2>3. /\ FlattenSeq(Each(g, s)) \in Seq(Char)
        /\ FlattenSeq(Each(g, s) \o Each(g, t)) = FlattenSeq(Each(g, s)) \o FlattenSeq(Each(g, t))
    BY <2>2, FlattenConcat
  <2> QED BY <1>2, <2>1, <2>2, <2>3
<1>4. ASSUME NEW c \in Conversions
      PROVE  Meaning(<<c>>) = Image(c)
  <2>1. <<c>> \in Seq(Conversions) /\ Image(c) \in Seq(Char)
    BY ImageText
  <2>2. Each(g, <<c>>) = <<Image(c)>>
    BY <1>1 DEF Each
  <2> QED BY <1>2, <2>1, <2>2, FlattenOne
<1>5. Meaning(<<>>) = <<>>
  <2>1. [i \in DOMAIN <<>> |-> Image(<<>>[i])] = <<>>
    OBVIOUS
  <2> QED BY <2>1, FlattenEmpty DEF Meaning
<1> QED BY <1>3, <1>4, <1>5

\* The first of some conversions, or of some calls, done.
LEMMA OneDone ==
  ASSUME NEW S, NEW done \in Seq(S), NEW rest \in Seq(S), rest # <<>>
  PROVE  /\ <<Head(rest)>> \in Seq(S) /\ Tail(rest) \in Seq(S)
         /\ done \o <<Head(rest)>> \in Seq(S)
         /\ done \o rest = (done \o <<Head(rest)>>) \o Tail(rest)
         /\ done \o rest = done \o (<<Head(rest)>> \o Tail(rest))
<1>1. PICK x \in S, t \in Seq(S) : x = Head(rest) /\ t = Tail(rest)
  BY HeadType
<1>2. PICK one : one = <<x>>
  OBVIOUS
<1>3. one \in Seq(S) /\ one \o t \in Seq(S) /\ rest = one \o t
  <2>1. rest = <<x>> \o t /\ <<x>> \in Seq(S)
    BY <1>1
  <2>2. one \in Seq(S) /\ rest = one \o t
    BY <1>2, <2>1
  <2> QED BY <2>2
<1>4. done \o one \in Seq(S)
  BY <1>3, ConcatLen
<1>5. (done \o one) \o t = done \o (one \o t)
  BY <1>3, ConcatOrder
<1> QED BY <1>1, <1>2, <1>3, <1>4, <1>5

\* More of a message only makes it longer.
LEMMA LongerMeaning ==
  ASSUME size_max \in Nat, size_max # 0, NEW done \in Seq(Conversions),
         NEW rest \in Seq(Conversions), rest # <<>>,
         Len(Meaning(done)) + Len(Image(Head(rest))) > Longest
  PROVE  TooLong(Meaning(done \o rest))
<1>1. PICK c \in Conversions, t \in Seq(Conversions) : c = Head(rest) /\ t = Tail(rest)
  BY HeadType
<1>2. done \o rest = (done \o <<c>>) \o t /\ <<c>> \in Seq(Conversions)
      /\ done \o <<c>> \in Seq(Conversions)
  BY <1>1, OneDone
<1>3. PICK a \in Seq(Char), b \in Seq(Char), d \in Seq(Char) :
        /\ a = Meaning(done) /\ b = Image(c) /\ d = Meaning(t)
        /\ Meaning(done \o <<c>>) = a \o b
  BY <1>2, MeaningsAre, ImageText
<1>4. Meaning(done \o rest) = (a \o b) \o d
  BY <1>2, <1>3, MeaningsAre
<1>5. /\ a \o b \in Seq(Char) /\ Len(a \o b) = Len(a) + Len(b)
      /\ Len((a \o b) \o d) = Len(a \o b) + Len(d)
  BY ConcatLen
<1>6. Len(a) + Len(b) > Longest /\ Len(a) \in Nat /\ Len(b) \in Nat /\ Len(d) \in Nat
  BY <1>1, <1>3
<1> QED BY <1>4, <1>5, <1>6 DEF TooLong, Longest

-----------------------------------------------------------------------------
(***************************************************************************)
(* What a message says.                                                    *)
(***************************************************************************)
\* The conversions before specs are done, and so are the calls before writes.
Doing(done) ==
  /\ message = done \o specs
  /\ pc = "spec" => buf["msg"].text = Meaning(done)
  /\ pc = "write" => \E made \in Seq(Calls) :
       /\ Head(specs).writes = made \o writes
       /\ IF Head(specs).reformat
          THEN buf["msg"].text = Meaning(done) /\ buf["pre"].text = Texts(made)
          ELSE buf["msg"].text = Meaning(done) \o Texts(made)
  /\ pc = "adjust" =>
       /\ Head(specs).reformat
       /\ buf["msg"].text = Meaning(done)
       /\ buf["pre"].text = Cut(Texts(Head(specs).writes))

MeantInv ==
  ~failed =>
    /\ outcome = "making" <=> pc # "idle"
    /\ outcome = "sent" => buf["msg"].text = Meaning(message)
    /\ outcome = "dropped" => TooLong(Meaning(message))
    /\ pc # "idle" => \E done \in Seq(Conversions) : Doing(done)

\* What a format stands for does not change under way.
LEMMA MeaningKept ==
  ASSUME UNCHANGED size_max
  PROVE  /\ \A m : Meaning(m)' = Meaning(m)
         /\ \A text : TooLong(text)' = TooLong(text)
         /\ \A calls : Texts(calls)' = Texts(calls)
<1>1. \A m : Meaning(m)' = Meaning(m)
  BY DEF Meaning, Image, Cut, TooLong, Longest, Field
<1>3. \A text : TooLong(text)' = TooLong(text)
  BY DEF TooLong, Longest
<1>4. \A calls : Texts(calls)' = Texts(calls)
  BY DEF Texts
<1> QED BY <1>1, <1>3, <1>4

\* The invariant between conversions, during one, before its copy, and once the
\* message is dropped.
LEMMA MeantSpec ==
  ASSUME UNCHANGED size_max, pc' = "spec", outcome' = "making",
         NEW done \in Seq(Conversions), message' = done \o specs',
         buf'["msg"].text = Meaning(done)
  PROVE  MeantInv'
<1>1. Meaning(done)' = Meaning(done)
  BY MeaningKept
<1>2. Doing(done)'
  BY <1>1 DEF Doing
<1> QED BY <1>2 DEF MeantInv

LEMMA MeantWrite ==
  ASSUME UNCHANGED size_max, pc' = "write", outcome' = "making",
         NEW done \in Seq(Conversions), message' = done \o specs',
         NEW made \in Seq(Calls), Head(specs').writes = made \o writes',
         IF Head(specs').reformat
         THEN buf'["msg"].text = Meaning(done) /\ buf'["pre"].text = Texts(made)
         ELSE buf'["msg"].text = Meaning(done) \o Texts(made)
  PROVE  MeantInv'
<1>1. Meaning(done)' = Meaning(done) /\ Texts(made)' = Texts(made)
  BY MeaningKept
<1>2. Doing(done)'
  BY <1>1 DEF Doing
<1> QED BY <1>2 DEF MeantInv

LEMMA MeantAdjust ==
  ASSUME UNCHANGED size_max, pc' = "adjust", outcome' = "making",
         NEW done \in Seq(Conversions), message' = done \o specs',
         Head(specs').reformat, buf'["msg"].text = Meaning(done),
         buf'["pre"].text = Cut(Texts(Head(specs').writes))
  PROVE  MeantInv'
<1>1. Meaning(done)' = Meaning(done)
  BY MeaningKept
<1>2. Cut(Texts(Head(specs).writes))' = Cut(Texts(Head(specs').writes))
  BY DEF Cut, TooLong, Longest, Texts
<1>3. Doing(done)'
  BY <1>1, <1>2 DEF Doing
<1> QED BY <1>3 DEF MeantInv

LEMMA MeantDropped ==
  ASSUME UNCHANGED <<size_max, message>>, Drop, TooLong(Meaning(message))
  PROVE  MeantInv'
<1>1. TooLong(Meaning(message))'
  BY MeaningKept DEF TooLong, Longest
<1> QED BY <1>1 DEF Drop, MeantInv

\* What writing does to the buffers.
LEMMA LongerIs ==
  ASSUME buf \in [Name -> TextBuffer], NEW name \in Name, NEW text,
         \/ buf' = [buf EXCEPT ![name] = Extended(buf[name], text)]
         \/ buf' = [buf EXCEPT ![name] = Grown(buf[name], text)]
  PROVE  /\ buf'[name].text = buf[name].text \o text
         /\ \A other \in Name \ {name} : buf'[other] = buf[other]
<1>1. PICK b \in TextBuffer : b = buf[name]
  OBVIOUS
<1>2. PICK longer : longer = b.text \o text
  OBVIOUS
<1>3. Extended(b, text).text = longer /\ Grown(b, text).text = longer
  <2>1. Extended(b, text) = [b EXCEPT !.text = longer]
    BY <1>2 DEF Extended
  <2>2. Extended(b, text).text = longer
    BY <2>1 DEF TextBuffer
  <2>3. Grown(b, text).text = longer
    BY <1>2 DEF Grown
  <2> QED BY <2>2, <2>3
<1>4. buf'[name] = Extended(b, text) \/ buf'[name] = Grown(b, text)
  BY <1>1
<1>5. \A other \in Name \ {name} : buf'[other] = buf[other]
  OBVIOUS
<1> QED BY <1>1, <1>2, <1>3, <1>4, <1>5

\* A message in hand, while nothing has failed.
InMaking(done) ==
  /\ done \in Seq(Conversions)
  /\ Doing(done)
  /\ outcome = "making"
  /\ size_max \in Nat
  /\ buf \in [Name -> TextBuffer]
  /\ \A name \in Name : Bounded(buf[name])

\* There is one between Begin and the end of a message.
LEMMA Making ==
  ASSUME IInv, TextsInv, MeantInv, ~failed, pc # "idle"
  PROVE  \E done : InMaking(done)
<1>1. size_max \in Nat /\ \A name \in Name : Bounded(buf[name])
  BY LimitType DEF IInv, InBounds
<1>2. PICK done \in Seq(Conversions) : Doing(done)
  BY DEF MeantInv
<1>3. outcome = "making"
  BY DEF MeantInv
<1> QED BY <1>1, <1>2, <1>3 DEF InMaking, TextsInv

\* The first of the conversions.
LEMMA FirstSpec ==
  ASSUME IInv, specs # <<>>, size_max \in Nat, NEW done \in Seq(Conversions)
  PROVE  /\ Head(specs) \in Conversions /\ Head(specs).writes \in Seq(Calls)
         /\ done \o <<Head(specs)>> \in Seq(Conversions)
         /\ done \o specs = (done \o <<Head(specs)>>) \o Tail(specs)
         /\ Meaning(done \o <<Head(specs)>>) = Meaning(done) \o Image(Head(specs))
<1>1. specs \in Seq(Conversions)
  BY DEF IInv, TypeOK
<1>2. /\ <<Head(specs)>> \in Seq(Conversions)
      /\ done \o <<Head(specs)>> \in Seq(Conversions)
      /\ done \o specs = (done \o <<Head(specs)>>) \o Tail(specs)
  BY <1>1, OneDone
<1>3. PICK c \in Conversions : c = Head(specs)
  BY <1>1, HeadType
<1>4. Meaning(<<c>>) = Image(c) /\ Meaning(done \o <<c>>) = Meaning(done) \o Meaning(<<c>>)
  BY <1>2, <1>3, MeaningsAre
<1> QED BY <1>2, <1>3, <1>4 DEF Conversions

\* The first of the calls.
LEMMA FirstCall ==
  ASSUME IInv, writes # <<>>, NEW made \in Seq(Calls)
  PROVE  /\ Head(writes) \in Calls /\ Tail(writes) \in Seq(Calls)
         /\ Head(writes).text \in Seq(Char)
         /\ made \o <<Head(writes)>> \in Seq(Calls)
         /\ made \o writes = (made \o <<Head(writes)>>) \o Tail(writes)
         /\ Texts(made \o <<Head(writes)>>) = Texts(made) \o Head(writes).text
         /\ Texts(made \o writes) = (Texts(made) \o Head(writes).text) \o Texts(Tail(writes))
<1>1. writes \in Seq(Calls)
  BY DEF IInv, TypeOK
<1>2. /\ <<Head(writes)>> \in Seq(Calls)
      /\ made \o <<Head(writes)>> \in Seq(Calls)
      /\ made \o writes = (made \o <<Head(writes)>>) \o Tail(writes)
  BY <1>1, OneDone
<1>3. PICK call \in Calls, rest \in Seq(Calls) : call = Head(writes) /\ rest = Tail(writes)
  BY <1>1, HeadType
<1>4. Texts(made \o <<call>>) = Texts(made) \o call.text
  BY <1>2, <1>3, TextsAre
<1>5. Texts(made \o writes) = (Texts(made) \o call.text) \o Texts(rest)
  BY <1>2, <1>3, <1>4, TextsAre
<1> QED BY <1>2, <1>3, <1>4, <1>5 DEF Calls

(***************************************************************************)
(* Every step keeps what the message says.                                 *)
(***************************************************************************)
LEMMA BeginMeant ==
  ASSUME IInv, TextsInv, ~failed, NEW m \in Messages, Begin(m)
  PROVE  MeantInv'
<1>1. m \in Seq(Conversions) /\ <<>> \in Seq(Conversions)
  BY MessageAssumption
<1>2. m = <<>> \o m
  BY <1>1
<1>3. size_max \in Nat
  BY LimitType DEF IInv
<1>4. buf'["msg"].text = <<>>
  BY DEF Begin, TextsInv, TextBuffer, Name
<1>5. Meaning(<<>>) = <<>>
  BY <1>3, MeaningsAre
<1> QED BY <1>1, <1>2, <1>4, <1>5, MeantSpec DEF Begin

LEMMA NextSpecMeant ==
  ASSUME IInv, TextsInv, MeantInv, ~failed, NextSpec
  PROVE  MeantInv'
<1>1. PICK done : InMaking(done)
  BY Making DEF NextSpec
<1>2. Head(specs).writes \in Seq(Calls) /\ <<>> \in Seq(Calls)
  BY <1>1, FirstSpec DEF NextSpec, InMaking
<1>3. Head(specs).writes = <<>> \o Head(specs).writes
  BY <1>2
<1>4. Texts(<<>>) = <<>>
  BY TextsAre
<1>5. CASE Head(specs).reformat
  <2>1. buf'["pre"].text = <<>> /\ buf'["msg"] = buf["msg"]
    BY <1>1, <1>5 DEF NextSpec, Target, InMaking, TextBuffer, Name
  <2> QED BY <1>1, <1>2, <1>3, <1>4, <1>5, <2>1, MeantWrite DEF NextSpec, InMaking, Doing
<1>6. CASE ~Head(specs).reformat
  <2>1. buf' = buf
    BY <1>6 DEF NextSpec, Target
  <2>2. Meaning(done) \in Seq(Char)
    BY <1>1, MeaningsAre DEF InMaking
  <2>3. Meaning(done) = Meaning(done) \o <<>>
    BY <2>2
  <2> QED BY <1>1, <1>2, <1>3, <1>4, <1>6, <2>1, <2>3, MeantWrite DEF NextSpec, InMaking, Doing
<1> QED BY <1>5, <1>6

LEMMA SendMeant ==
  ASSUME IInv, TextsInv, MeantInv, ~failed, Send
  PROVE  MeantInv'
<1>1. PICK done : InMaking(done)
  BY Making DEF Send
<1>2. message = done
  BY <1>1 DEF InMaking, Doing, Send
<1>3. buf["msg"].text = Meaning(done)
  BY <1>1 DEF InMaking, Doing, Send
<1>4. (buf["msg"].text = Meaning(message))'
  BY <1>2, <1>3, MeaningKept DEF Send
<1> QED BY <1>4 DEF Send, MeantInv

LEMMA WriteMeant ==
  ASSUME IInv, TextsInv, MeantInv, ~failed, Write
  PROVE  MeantInv'
<1>1. PICK done : InMaking(done)
  BY Making DEF Write
<1>2. PICK made \in Seq(Calls) :
        /\ Head(specs).writes = made \o writes
        /\ IF Head(specs).reformat
           THEN buf["msg"].text = Meaning(done) /\ buf["pre"].text = Texts(made)
           ELSE buf["msg"].text = Meaning(done) \o Texts(made)
  BY <1>1 DEF InMaking, Doing, Write
<1>3. PICK more \in Seq(Calls) :
        /\ more = made \o <<Head(writes)>>
        /\ made \o writes = more \o Tail(writes)
        /\ Texts(more) = Texts(made) \o Head(writes).text
  BY <1>2, FirstCall DEF Write
<1>4. Target \in Name
  BY DEF Target, Name
<1>5. /\ buf'[Target].text = buf[Target].text \o Head(writes).text
      /\ \A other \in Name \ {Target} : buf'[other] = buf[other]
  BY <1>1, <1>4, LongerIs DEF Write, InMaking
<1>6. CASE Head(specs).reformat
  <2>1. buf'["pre"].text = Texts(more) /\ buf'["msg"].text = Meaning(done)
    BY <1>2, <1>3, <1>5, <1>6 DEF Target, Name
  <2> QED BY <1>1, <1>2, <1>3, <1>6, <2>1, MeantWrite DEF Write, InMaking, Doing
<1>7. CASE ~Head(specs).reformat
  <2>1. buf'["msg"].text = (Meaning(done) \o Texts(made)) \o Head(writes).text
    BY <1>2, <1>5, <1>7 DEF Target
  <2>2. /\ Meaning(done) \in Seq(Char) /\ Texts(made) \in Seq(Char)
        /\ Head(writes).text \in Seq(Char)
    BY <1>1, <1>2, MeaningsAre, TextsAre, FirstCall DEF InMaking, Write
  <2>3. buf'["msg"].text = Meaning(done) \o Texts(more)
    <3>1. PICK a \in Seq(Char), b \in Seq(Char), c \in Seq(Char) :
            a = Meaning(done) /\ b = Texts(made) /\ c = Head(writes).text
      BY <2>2
    <3>2. (a \o b) \o c = a \o (b \o c)
      BY ConcatOrder
    <3> QED BY <1>3, <2>1, <3>1, <3>2
  <2> QED BY <1>1, <1>2, <1>3, <1>7, <2>3, MeantWrite DEF Write, InMaking, Doing
<1> QED BY <1>6, <1>7

LEMMA WriteOverflowsMeant ==
  ASSUME IInv, TextsInv, MeantInv, ~failed, WriteOverflows
  PROVE  MeantInv'
<1>1. PICK done : InMaking(done)
  BY Making DEF WriteOverflows
<1>2. specs # <<>> /\ writes # <<>>
  BY DEF WriteOverflows, IInv, InHand
<1>3. PICK made \in Seq(Calls) :
        /\ Head(specs).writes = made \o writes
        /\ IF Head(specs).reformat
           THEN buf["msg"].text = Meaning(done) /\ buf["pre"].text = Texts(made)
           ELSE buf["msg"].text = Meaning(done) \o Texts(made)
  BY <1>1 DEF InMaking, Doing, WriteOverflows
<1>4. PICK so \in Seq(Char), text \in Seq(Char), rest \in Seq(Char) :
        /\ so = Texts(made) /\ text = Head(writes).text /\ rest = Texts(Tail(writes))
        /\ Texts(Head(specs).writes) = (so \o text) \o rest
  <2>1. /\ Head(writes).text \in Seq(Char) /\ Tail(writes) \in Seq(Calls)
        /\ Texts(made \o writes) = (Texts(made) \o Head(writes).text) \o Texts(Tail(writes))
    BY <1>2, <1>3, FirstCall
  <2>2. Texts(made) \in Seq(Char) /\ Texts(Tail(writes)) \in Seq(Char)
    BY <1>3, <2>1, TextsAre
  <2>3. Texts(Head(specs).writes) = Texts(made \o writes)
    BY <1>3
  <2> QED BY <2>1, <2>2, <2>3
<1>5. Target \in Name
  BY DEF Target, Name
<1>6. PICK b \in TextBuffer : b = buf[Target]
  BY <1>1, <1>5 DEF InMaking
<1>7. Overflows(b, text, Head(writes).fn) /\ buf' = [buf EXCEPT ![Target] = Filled(b, text)]
  BY <1>4, <1>6 DEF WriteOverflows
<1>8. /\ size_max # 0 /\ Len(b.text) + Len(text) > Longest
      /\ Filled(b, text).text = Cut((b.text \o text) \o rest)
  <2>1. size_max \in Nat /\ Bounded(b)
    BY <1>1, <1>5, <1>6 DEF InMaking
  <2> QED BY <1>7, <2>1, FilledIsCut
<1>9. CASE Head(specs).reformat
  <2>1. b.text = so
    BY <1>3, <1>4, <1>6, <1>9 DEF Target
  <2>2. buf'["pre"].text = Cut(Texts(Head(specs).writes)) /\ buf'["msg"].text = Meaning(done)
    <3>1. buf'["pre"] = Filled(b, text) /\ buf'["msg"] = buf["msg"]
      BY <1>1, <1>7, <1>9 DEF Target, InMaking, Name
    <3> QED BY <1>3, <1>4, <1>8, <1>9, <2>1, <3>1
  <2>3. message' = done \o specs' /\ outcome' = "making" /\ pc' = "adjust" /\ specs' = specs
    BY <1>1, <1>9 DEF WriteOverflows, InMaking, Doing
  <2> QED BY <1>1, <1>9, <2>2, <2>3, MeantAdjust DEF WriteOverflows, InMaking
<1>10. CASE ~Head(specs).reformat
  <2>1. PICK all \in Seq(Char) : all = Meaning(done)
    BY <1>1, MeaningsAre DEF InMaking
  <2>2. Len(b.text) = Len(all) + Len(so)
    <3>1. b.text = all \o so
      BY <1>3, <1>4, <1>6, <1>10, <2>1 DEF Target
    <3> QED BY <3>1, ConcatLen
  <2>3. Image(Head(specs)) = (so \o text) \o rest
    BY <1>1, <1>2, <1>4, <1>10, FirstSpec, ImageText DEF InMaking
  <2>4. Len((so \o text) \o rest) = (Len(so) + Len(text)) + Len(rest)
    <3>1. so \o text \in Seq(Char) /\ Len(so \o text) = Len(so) + Len(text)
      BY ConcatLen
    <3> QED BY <3>1, ConcatLen
  <2>5. Len(all) + Len(Image(Head(specs))) > Longest
    <3>1. /\ Len(all) \in Nat /\ Len(so) \in Nat /\ Len(text) \in Nat /\ Len(rest) \in Nat
          /\ Longest \in Int
      BY <1>1 DEF InMaking, Longest
    <3> QED BY <1>8, <2>2, <2>3, <2>4, <3>1
  <2>6. TooLong(Meaning(message))
    BY <1>1, <1>2, <1>8, <2>1, <2>5, LongerMeaning DEF InMaking, Doing, IInv, TypeOK
  <2>7. Drop /\ UNCHANGED <<size_max, message>>
    BY <1>10 DEF WriteOverflows
  <2> QED BY <2>6, <2>7, MeantDropped
<1> QED BY <1>9, <1>10

LEMMA WrittenMeant ==
  ASSUME IInv, TextsInv, MeantInv, ~failed, Written
  PROVE  MeantInv'
<1>1. PICK done : InMaking(done)
  BY Making DEF Written
<1>2. specs # <<>>
  BY DEF Written, IInv, InHand
<1>3. /\ Head(specs).reformat =>
           buf["msg"].text = Meaning(done) /\ buf["pre"].text = Texts(Head(specs).writes)
      /\ ~Head(specs).reformat =>
           buf["msg"].text = Meaning(done) \o Texts(Head(specs).writes)
  <2>1. PICK made \in Seq(Calls) :
          /\ Head(specs).writes = made \o writes
          /\ IF Head(specs).reformat
             THEN buf["msg"].text = Meaning(done) /\ buf["pre"].text = Texts(made)
             ELSE buf["msg"].text = Meaning(done) \o Texts(made)
    BY <1>1 DEF InMaking, Doing, Written
  <2>2. made \o writes = made
    BY DEF Written
  <2> QED BY <2>1, <2>2
<1>4. CASE Head(specs).reformat
  <2>1. PICK text \in Seq(Char) : text = Texts(Head(specs).writes)
    BY <1>1, <1>2, FirstSpec, TextsAre DEF InMaking
  <2>2. ~TooLong(text)
    <3>1. PICK b \in TextBuffer : b = buf["pre"] /\ Bounded(b) /\ b.text = text
      BY <1>1, <1>3, <1>4, <2>1 DEF InMaking, Name
    <3>2. b.size \in Nat /\ b.live
      BY DEF TextBuffer
    <3>3. Len(text) < b.size /\ (size_max # 0 => b.size <= size_max)
      BY <3>1, <3>2 DEF Bounded
    <3>4. size_max \in Nat /\ Len(text) \in Nat
      BY <1>1 DEF InMaking
    <3> QED BY <3>2, <3>3, <3>4 DEF TooLong, Longest
  <2>3. Cut(text) = text
    BY <2>2 DEF Cut
  <2>4. /\ pc' = "adjust" /\ outcome' = "making" /\ message' = done \o specs'
        /\ specs' = specs /\ buf' = buf /\ UNCHANGED size_max
    BY <1>1, <1>4 DEF Written, InMaking, Doing
  <2> QED BY <1>1, <1>3, <1>4, <2>1, <2>3, <2>4, MeantAdjust DEF InMaking
<1>5. CASE ~Head(specs).reformat
  <2>1. PICK more \in Seq(Conversions) :
          /\ done \o specs = more \o Tail(specs)
          /\ Meaning(more) = Meaning(done) \o Image(Head(specs))
    BY <1>1, <1>2, FirstSpec DEF InMaking
  <2>2. Image(Head(specs)) = Texts(Head(specs).writes)
    BY <1>1, <1>2, <1>5, FirstSpec, ImageText DEF InMaking
  <2>3. /\ pc' = "spec" /\ outcome' = "making" /\ message' = more \o specs'
        /\ buf' = buf /\ UNCHANGED size_max
    BY <1>1, <1>5, <2>1 DEF Written, InMaking, Doing
  <2> QED BY <1>3, <1>5, <2>1, <2>2, <2>3, MeantSpec
<1> QED BY <1>4, <1>5

\* What is copied from pre_msg_buf.
LEMMA CopiedIsImage ==
  ASSUME IInv, pc = "adjust", NEW done, InMaking(done)
  PROVE  /\ Padded(Head(specs), buf["pre"].text) = Image(Head(specs))
         /\ Image(Head(specs)) \in Seq(Char)
<1>1. specs # <<>>
  BY DEF IInv, InHand
<1>2. Head(specs) \in Conversions
  BY <1>1, TargetType
<1> QED BY <1>2, ImageText DEF InMaking, Doing

LEMMA AdjustMeant ==
  ASSUME IInv, TextsInv, MeantInv, ~failed, Adjust
  PROVE  MeantInv'
<1>1. PICK done : InMaking(done)
  BY Making DEF Adjust
<1>2. specs # <<>>
  BY DEF Adjust, IInv, InHand
<1>3. PICK more \in Seq(Conversions) :
        /\ done \o specs = more \o Tail(specs)
        /\ Meaning(more) = Meaning(done) \o Image(Head(specs))
  BY <1>1, <1>2, FirstSpec DEF InMaking
<1>4. buf'["msg"].text = Meaning(done) \o Image(Head(specs))
  <2>1. PICK text : text = Padded(Head(specs), buf["pre"].text)
    OBVIOUS
  <2>2. \/ buf' = [buf EXCEPT !["msg"] = Extended(buf["msg"], text)]
        \/ buf' = [buf EXCEPT !["msg"] = Grown(buf["msg"], text)]
    BY <2>1 DEF Adjust
  <2>3. buf'["msg"].text = buf["msg"].text \o text
    BY <1>1, <2>2, LongerIs DEF InMaking, Name
  <2>4. text = Image(Head(specs)) /\ buf["msg"].text = Meaning(done)
    BY <1>1, <2>1, CopiedIsImage DEF Adjust, InMaking, Doing
  <2> QED BY <2>3, <2>4
<1>5. pc' = "spec" /\ outcome' = "making" /\ message' = more \o specs' /\ UNCHANGED size_max
  BY <1>1, <1>3 DEF Adjust, InMaking, Doing
<1> QED BY <1>3, <1>4, <1>5, MeantSpec

LEMMA AdjustOverflowsMeant ==
  ASSUME IInv, TextsInv, MeantInv, ~failed, AdjustOverflows
  PROVE  MeantInv'
<1>1. PICK done : InMaking(done)
  BY Making DEF AdjustOverflows
<1>2. specs # <<>> /\ specs \in Seq(Conversions)
  BY DEF AdjustOverflows, IInv, InHand, TypeOK
<1>3. PICK text \in Seq(Char) :
        text = Padded(Head(specs), buf["pre"].text) /\ text = Image(Head(specs))
  BY <1>1, CopiedIsImage DEF AdjustOverflows
<1>4. PICK b \in TextBuffer : b = buf["msg"] /\ Bounded(b) /\ b.text = Meaning(done)
  BY <1>1 DEF InMaking, Doing, AdjustOverflows, Name
<1>5. Overflows(b, text, "convert")
  BY <1>3, <1>4 DEF AdjustOverflows
<1>6. size_max # 0 /\ Len(b.text) + Len(text) > Longest
  <2>1. <<>> \in Seq(Char) /\ size_max \in Nat
    BY <1>1 DEF InMaking
  <2> QED BY <1>4, <1>5, <2>1, FilledIsCut
<1>7. TooLong(Meaning(message))
  BY <1>1, <1>2, <1>3, <1>4, <1>6, LongerMeaning DEF InMaking, Doing
<1> QED BY <1>7, MeantDropped DEF AdjustOverflows

LEMMA NextMeant == IInv /\ TextsInv /\ MeantInv /\ [Next]_vars => MeantInv'
<1> SUFFICES ASSUME IInv, TextsInv, MeantInv, [Next]_vars PROVE MeantInv'
  OBVIOUS
<1>1. CASE failed'
  BY <1>1 DEF MeantInv
<1>2. CASE ~failed' /\ UNCHANGED vars
  <2>1. ~failed /\ UNCHANGED <<size_max, outcome, pc, buf, message, specs, writes>>
    BY <1>2 DEF vars
  <2>2. \A m : Meaning(m)' = Meaning(m)
    BY <2>1, MeaningKept
  <2>3. CASE pc = "idle"
    <3>1. /\ outcome # "making"
          /\ outcome = "sent" => buf["msg"].text = Meaning(message)
          /\ outcome = "dropped" => TooLong(Meaning(message))
      BY <2>1, <2>3 DEF MeantInv
    <3>2. PICK m : m = message /\ m = message'
      BY <2>1
    <3>3. (Meaning(message) = Meaning(m))' /\ (TooLong(Meaning(message)) <=> TooLong(Meaning(m)))'
      BY <3>2
    <3> QED BY <2>1, <2>2, <2>3, <3>1, <3>2, <3>3, MeaningKept DEF MeantInv, TooLong, Longest
  <2>4. CASE pc # "idle"
    <3>1. PICK done : InMaking(done)
      BY <2>1, <2>4, Making
    <3>2. /\ done \in Seq(Conversions) /\ message' = done \o specs' /\ outcome' = "making"
          /\ UNCHANGED size_max
      BY <2>1, <3>1 DEF InMaking, Doing
    <3>3. CASE pc = "spec"
      BY <2>1, <3>1, <3>2, <3>3, MeantSpec DEF InMaking, Doing
    <3>4. CASE pc = "write"
      <4>1. PICK made \in Seq(Calls) :
              /\ Head(specs').writes = made \o writes'
              /\ IF Head(specs').reformat
                 THEN buf'["msg"].text = Meaning(done) /\ buf'["pre"].text = Texts(made)
                 ELSE buf'["msg"].text = Meaning(done) \o Texts(made)
        BY <2>1, <3>1, <3>4 DEF InMaking, Doing
      <4> QED BY <2>1, <3>2, <3>4, <4>1, MeantWrite
    <3>5. CASE pc = "adjust"
      BY <2>1, <3>1, <3>2, <3>5, MeantAdjust DEF InMaking, Doing
    <3> QED BY <2>4, <3>3, <3>4, <3>5 DEF IInv, TypeOK
  <2> QED BY <2>3, <2>4
<1>3. CASE ~failed' /\ Next
  <2>1. ~failed
    BY <1>3 DEF Next, Begin, NextSpec, Send, Write, WriteOverflows, WriteFails, ConversionFails,
                Written, Adjust, AdjustOverflows, AdjustFails
  <2>2. ~WriteFails /\ ~ConversionFails /\ ~AdjustFails
    BY <1>3 DEF WriteFails, ConversionFails, AdjustFails
  <2> QED BY <1>3, <2>1, <2>2, BeginMeant, NextSpecMeant, SendMeant, WriteMeant,
             WriteOverflowsMeant, WrittenMeant, AdjustMeant, AdjustOverflowsMeant DEF Next
<1> QED BY <1>1, <1>2, <1>3

LEMMA InitMeant == Init => MeantInv
<1> SUFFICES ASSUME Init PROVE MeantInv
  OBVIOUS
<1>1. buf["msg"].text = <<>>
  BY DEF Init, NewBuf, Name
<1>2. size_max \in Nat
  BY SizeAssumption DEF Init
<1>3. Meaning(<<>>) = <<>>
  BY <1>2, MeaningsAre
<1> QED BY <1>1, <1>3 DEF Init, MeantInv

\* While nothing fails, what a buffer holds is what has been done of the message.
THEOREM MessagesInHand == Spec => []MeantInv
BY InitTexts, InitMeant, NextTexts, NextMeant, Invariance, PTL DEF Spec

\* Whatever the formats, texts, widths and limits, and however the buffers grew
\* over earlier messages, a message sent is what its format stands for
\* (buf.c:548-647, spec.c:358-375).
THEOREM SentMeant == Spec => []SentAsMeant
<1>1. MeantInv => SentAsMeant
  BY DEF MeantInv, SentAsMeant
<1> QED BY <1>1, MessagesInHand, PTL

\* ... and one is dropped only when what it stands for is longer than the
\* largest buffer holds (buf.c:169-180).
THEOREM DroppedTooLong == Spec => []DroppedOnlyWhenTooLong
<1>1. MeantInv => DroppedOnlyWhenTooLong
  BY DEF MeantInv, DroppedOnlyWhenTooLong
<1> QED BY <1>1, MessagesInHand, PTL

=============================================================================
