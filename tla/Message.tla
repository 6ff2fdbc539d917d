------------------------------ MODULE Message ------------------------------
(***************************************************************************)
(* How a thread formats a message (src/format.c: cdlog_format_gen_msg,     *)
(* src/spec.c: the gen_msg functions, src/buf.c).  The conversions of a    *)
(* format write one after another into the thread's msg_buf; one that has  *)
(* a width is first written into pre_msg_buf and copied from there.  Both  *)
(* buffers grow on demand up to size_max and keep their size between       *)
(* messages; a realloc may fail.                                           *)
(*                                                                         *)
(* A conversion is a record: reformat says whether it has a width, left,   *)
(* zeros, min_width and max_width are that width's, and writes are the     *)
(* calls it makes on the buffer, each with its text and the function:      *)
(* "append" for cdlog_buf_append, "convert" for cdlog_buf_vprintf and the  *)
(* printf_dec and printf_hex functions.                                    *)
(***************************************************************************)
EXTENDS Integers, Sequences, SequencesExt

CONSTANTS
  Messages,     \* the formats with their texts: sequences of conversions
  MinSize,      \* "buffer min"
  Limits,       \* values of "buffer max", 0 for no limit
  Truncate,     \* truncate_str
  Char,         \* what texts are made of
  Space, Zero,  \* padding
  Beyond        \* a byte past the end of the text that is copied

ASSUME SizeAssumption ==
  /\ MinSize \in Nat \ {0}
  /\ Limits \subseteq Nat
  /\ \A limit \in Limits : limit = 0 \/ limit >= MinSize

ASSUME CharAssumption ==
  /\ {Space, Zero} \subseteq Char
  /\ Beyond \notin Char
  /\ Truncate \in Seq(Char)

Calls == [fn : {"append", "convert"}, text : Seq(Char)]

Conversions == [reformat : BOOLEAN, left : BOOLEAN, zeros : BOOLEAN,
                min_width : Nat, max_width : Nat, writes : Seq(Calls)]

ASSUME MessageAssumption == Messages \subseteq Seq(Conversions)

VARIABLES
  size_max,     \* of both buffers, from the configuration
  buf,          \* "msg" and "pre": text up to tail, size_real, start # NULL
  message,      \* the message being made or the last one made
  specs,        \* its conversions still to do
  writes,       \* the calls still to make of the first of them
  pc,
  outcome,      \* "sent" to its output, "dropped", or "making"
  failed        \* history: a realloc or a conversion has failed

vars == <<size_max, buf, message, specs, writes, pc, outcome, failed>>

-----------------------------------------------------------------------------
\* What a buffer's memory can hold; a failed realloc leaves none.
Byte == Char \cup {Beyond}

Buffer == [text : Seq(Byte), size : Nat \ {0}, live : BOOLEAN]

Name == {"msg", "pre"}

\* cdlog_buf_new, twice (cdlog_thread_new, cdlog_thread_rebuild_msg_buf).
NewBuf == [text |-> <<>>, size |-> MinSize, live |-> TRUE]

Init ==
  /\ size_max \in Limits
  /\ buf = [b \in Name |-> NewBuf]
  /\ message = <<>>
  /\ specs = <<>>
  /\ writes = <<>>
  /\ pc = "idle"
  /\ outcome = "sent"
  /\ failed = FALSE

\* Mistakes a change of the code could make in one definition below; the runs'
\* properties notice each of them.
BugRoom(b) == IF b.live THEN b.size - Len(b.text) ELSE 0 \* no place for the \0
BugLost(b) == [text |-> <<>>, size |-> -1, live |-> FALSE] \* as buf.c:155 has it
BugClamped(b, inc) == size_max # 0 /\ b.size + inc >= size_max
BugReserved(b, inc) == size_max # 0 /\ b.size + 3 * inc > size_max \* not the half of it
BugPadded(c, text) ==                       \* the widths swapped
  LET source == SubSeq(text, 1, IF c.min_width = 0 \/ Len(text) < c.min_width
                                THEN Len(text) ELSE c.min_width)
  IN  source \o [i \in 1..(c.max_width - Len(source)) |-> Space]

-----------------------------------------------------------------------------
(***************************************************************************)
(* The buffer.                                                             *)
(***************************************************************************)
\* end - tail: one byte is kept for the seal; all pointers are NULL after a
\* failed realloc.
Room(b) == IF b.live THEN b.size - 1 - Len(b.text) ELSE 0

Short(b, text) == Len(text) - Room(b)

\* cdlog_buf_resize is asked for inc bytes more.
AtLimit(b) == size_max # 0 /\ b.size >= size_max

Clamped(b, inc) == size_max # 0 /\ b.size + inc > size_max

NewSize(b, inc) ==
  IF size_max = 0 THEN b.size + (3 * inc) \div 2 ELSE b.size + inc

\* memcpy of n bytes of text.
Copied(text, n) == [i \in 1..n |-> IF i <= Len(text) THEN text[i] ELSE Beyond]

\* cdlog_buf_truncate: the mark overwrites the end of what is there.
Marked(text) ==
  LET n == IF Len(text) < Len(Truncate) THEN Len(text) ELSE Len(Truncate)
  IN  SubSeq(text, 1, Len(text) - n) \o SubSeq(Truncate, 1, n)

\* The functions that write test start, cdlog_buf_append does not.
Usable(b, fn) == b.live \/ fn = "append"

Fits(b, text, fn) == Usable(b, fn) /\ Len(text) <= Room(b)

Grows(b, text, fn) ==
  /\ Usable(b, fn)
  /\ Short(b, text) > 0
  /\ ~AtLimit(b)
  /\ ~Clamped(b, Short(b, text))

Overflows(b, text, fn) ==
  /\ Usable(b, fn)
  /\ Short(b, text) > 0
  /\ AtLimit(b) \/ Clamped(b, Short(b, text))

\* The realloc of a buffer that is not at its limit may fail.
MayFail(b, text, fn) == ~Usable(b, fn) \/ (Short(b, text) > 0 /\ ~AtLimit(b))

Extended(b, text) == [b EXCEPT !.text = @ \o text]

Grown(b, text) ==
  [text |-> b.text \o text, size |-> NewSize(b, Short(b, text)), live |-> TRUE]

\* As much as fits into the largest size, marked as truncated.
Filled(b, text) ==
  LET full == IF AtLimit(b) THEN b ELSE [b EXCEPT !.size = size_max, !.live = TRUE]
  IN  [full EXCEPT !.text = Marked(@ \o Copied(text, Room(full)))]

Lost(b) == IF b.live THEN [b EXCEPT !.text = <<>>, !.live = FALSE] ELSE b

-----------------------------------------------------------------------------
(***************************************************************************)
(* A conversion.                                                           *)
(***************************************************************************)
\* cdlog_buf_adjust_append: at most max_width characters of the text, padded
\* to at least min_width.
Padded(c, text) ==
  LET source == SubSeq(text, 1, IF c.max_width = 0 \/ Len(text) < c.max_width
                                THEN Len(text) ELSE c.max_width)
      fill(s) == [i \in 1..(c.min_width - Len(source)) |-> s]
  IN  IF c.left THEN source \o fill(Space)
      ELSE fill(IF c.zeros THEN Zero ELSE Space) \o source

\* The buffer the conversion writes into.
Target == IF Head(specs).reformat THEN "pre" ELSE "msg"

Begin(m) ==
  /\ pc = "idle"
  /\ buf' = [buf EXCEPT !["msg"].text = <<>>]
  /\ message' = m
  /\ specs' = m
  /\ pc' = "spec"
  /\ outcome' = "making"
  /\ UNCHANGED <<size_max, writes, failed>>

NextSpec ==
  /\ pc = "spec"
  /\ specs # <<>>
  /\ buf' = IF Target = "pre" THEN [buf EXCEPT !["pre"].text = <<>>] ELSE buf
  /\ writes' = Head(specs).writes
  /\ pc' = "write"
  /\ UNCHANGED <<size_max, message, specs, outcome, failed>>

Send ==
  /\ pc = "spec"
  /\ specs = <<>>
  /\ pc' = "idle"
  /\ outcome' = "sent"
  /\ UNCHANGED <<size_max, buf, message, specs, writes, failed>>

\* cdlog_format_gen_msg returns -1 and nothing is written.
Drop ==
  /\ pc' = "idle"
  /\ outcome' = "dropped"
  /\ specs' = <<>>
  /\ writes' = <<>>

\* A call of the conversion's that has room, or finds it, returns 0 ...
Write ==
  /\ pc = "write"
  /\ writes # <<>>
  /\ LET b == buf[Target]
         call == Head(writes)
     IN  \/ /\ Fits(b, call.text, call.fn)
            /\ buf' = [buf EXCEPT ![Target] = Extended(b, call.text)]
         \/ /\ Grows(b, call.text, call.fn)
            /\ buf' = [buf EXCEPT ![Target] = Grown(b, call.text)]
  /\ writes' = Tail(writes)
  /\ UNCHANGED <<size_max, message, specs, pc, outcome, failed>>

\* ... one that has not returns 1, which ends the conversion; the 1 is passed
\* over only when the conversion has a width ...
WriteOverflows ==
  /\ pc = "write"
  /\ writes # <<>>
  /\ LET b == buf[Target]
         call == Head(writes)
     IN  /\ Overflows(b, call.text, call.fn)
         /\ buf' = [buf EXCEPT ![Target] = Filled(b, call.text)]
  /\ \/ /\ Head(specs).reformat
        /\ pc' = "adjust"
        /\ writes' = <<>>
        /\ UNCHANGED <<specs, outcome>>
     \/ /\ ~Head(specs).reformat
        /\ Drop
  /\ UNCHANGED <<size_max, message, failed>>

\* ... and one that lost the buffer returns -1, as it does without a buffer.
WriteFails ==
  /\ pc = "write"
  /\ writes # <<>>
  /\ MayFail(buf[Target], Head(writes).text, Head(writes).fn)
  /\ buf' = [buf EXCEPT ![Target] = Lost(@)]
  /\ failed' = TRUE
  /\ Drop
  /\ UNCHANGED <<size_max, message>>

\* vsnprintf returns -1.
ConversionFails ==
  /\ pc = "write"
  /\ writes # <<>>
  /\ Head(writes).fn = "convert"
  /\ failed' = TRUE
  /\ Drop
  /\ UNCHANGED <<size_max, buf, message>>

Written ==
  /\ pc = "write"
  /\ writes = <<>>
  /\ \/ /\ Head(specs).reformat
        /\ pc' = "adjust"
        /\ UNCHANGED specs
     \/ /\ ~Head(specs).reformat
        /\ pc' = "spec"
        /\ specs' = Tail(specs)
  /\ UNCHANGED <<size_max, buf, message, writes, outcome, failed>>

\* The copy from pre_msg_buf, with the same three results.
Adjust ==
  /\ pc = "adjust"
  /\ LET b == buf["msg"]
         text == Padded(Head(specs), buf["pre"].text)
     IN  \/ /\ Fits(b, text, "convert")
            /\ buf' = [buf EXCEPT !["msg"] = Extended(b, text)]
         \/ /\ Grows(b, text, "convert")
            /\ buf' = [buf EXCEPT !["msg"] = Grown(b, text)]
  /\ pc' = "spec"
  /\ specs' = Tail(specs)
  /\ UNCHANGED <<size_max, message, writes, outcome, failed>>

AdjustOverflows ==
  /\ pc = "adjust"
  /\ LET b == buf["msg"]
         text == Padded(Head(specs), buf["pre"].text)
     IN  /\ Overflows(b, text, "convert")
         /\ buf' = [buf EXCEPT !["msg"] = Filled(b, text)]
  /\ Drop
  /\ UNCHANGED <<size_max, message, failed>>

AdjustFails ==
  /\ pc = "adjust"
  /\ MayFail(buf["msg"], Padded(Head(specs), buf["pre"].text), "convert")
  /\ buf' = [buf EXCEPT !["msg"] = Lost(@)]
  /\ failed' = TRUE
  /\ Drop
  /\ UNCHANGED <<size_max, message>>

Next ==
  \/ \E m \in Messages : Begin(m)
  \/ NextSpec \/ Send
  \/ Write \/ WriteOverflows \/ WriteFails \/ ConversionFails \/ Written
  \/ Adjust \/ AdjustOverflows \/ AdjustFails

Spec == Init /\ [][Next]_vars

-----------------------------------------------------------------------------
(***************************************************************************)
(* What the format of a message stands for: each conversion's text, cut to *)
(* the largest buffer if it goes through pre_msg_buf, and put into a field *)
(* of its width.                                                           *)
(***************************************************************************)
Longest == size_max - 1

TooLong(text) == size_max # 0 /\ Len(text) > Longest

Smaller(m, n) == IF m < n THEN m ELSE n

Cut(text) ==
  LET mark == Smaller(Longest, Len(Truncate))
  IN  IF ~TooLong(text) THEN text
      ELSE [i \in 1..Longest |-> IF i <= Longest - mark THEN text[i]
                                 ELSE Truncate[i - (Longest - mark)]]

Field(c, text) ==
  LET kept == IF c.max_width = 0 THEN Len(text) ELSE Smaller(Len(text), c.max_width)
      width == IF kept < c.min_width THEN c.min_width ELSE kept
      first == IF c.left THEN 0 ELSE width - kept
  IN  [i \in 1..width |->
         IF i - first \in 1..kept THEN text[i - first]
         ELSE IF ~c.left /\ c.zeros THEN Zero ELSE Space]

Image(c) ==
  LET text == FlattenSeq([i \in DOMAIN c.writes |-> c.writes[i].text])
  IN  IF c.reformat THEN Field(c, Cut(text)) ELSE text

Meaning(m) == FlattenSeq([i \in DOMAIN m |-> Image(m[i])])

-----------------------------------------------------------------------------
(***************************************************************************)
(* Properties.                                                             *)
(***************************************************************************)
\* Every variable has its type.
TypeOK ==
  /\ size_max \in Limits
  /\ buf \in [Name -> Buffer]
  /\ message \in Seq(Conversions)
  /\ specs \in Seq(Conversions)
  /\ writes \in Seq(Calls)
  /\ pc \in {"idle", "spec", "write", "adjust"}
  /\ outcome \in {"sent", "dropped", "making"}
  /\ failed \in BOOLEAN

\* No text reaches past its buffer's end, the byte of the seal included; no
\* buffer exceeds its limit or shrinks below its first size; and one whose
\* memory is gone may still get it back (buf.c:164-165).
Bounded(b) ==
  /\ b.live => Len(b.text) < b.size
  /\ ~b.live => b.text = <<>> /\ ~AtLimit(b)
  /\ b.size >= MinSize
  /\ size_max # 0 => b.size <= size_max

InBounds == \A name \in Name : Bounded(buf[name])

\* However the buffers grew over earlier messages, a message sent is exactly
\* what its format stands for (buf.c:548-647, spec.c:358-375).
SentAsMeant ==
  outcome = "sent" /\ ~failed => buf["msg"].text = Meaning(message)

\* However full a buffer was, only bytes of the texts, the padding and the mark
\* get into it: a copy that fills the largest size never takes more than its
\* text has, until a failed realloc makes a buffer's room unknown (buf.c:518-528
\* and the like copy what is left of the buffer, not what is left of the text).
OnlyTexts ==
  ~failed => \A name \in Name : buf[name].text \in Seq(Char)

\* A message is dropped only when it does not fit the largest buffer
\* (buf.c:169-180).
DroppedOnlyWhenTooLong ==
  outcome = "dropped" /\ ~failed => TooLong(Meaning(message))

\* What the guide says of "buffer max": longer content is truncated
\* (UsersGuide-EN.lyx:1444-1445); the code's format_gen_msg drops it
\* (format.c:156-159).
TruncatedNotDropped == outcome = "dropped" => failed
=============================================================================
