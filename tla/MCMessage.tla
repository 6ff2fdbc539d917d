----------------------------- MODULE MCMessage -----------------------------
(***************************************************************************)
(* Message with texts of up to eight characters: every conversion alone,   *)
(* and pairs of one without and one with a width.                          *)
(***************************************************************************)
EXTENDS Message

MCTruncate == <<10, 11>>

MCChar == 0..20

Call(fn, n) == [fn |-> fn, text |-> [i \in 1..n |-> i]]

\* A hex dump makes several calls; a key the thread's mdc does not have none.
Hex == <<Call("append", 1), Call("convert", 3), Call("append", 2)>>

Direct(calls) ==
  [reformat |-> FALSE, left |-> FALSE, zeros |-> FALSE,
   min_width |-> 0, max_width |-> 0, writes |-> calls]

Adjusted(calls, sign, width) ==
  [reformat |-> TRUE, left |-> sign = "-", zeros |-> sign = "0",
   min_width |-> width[1], max_width |-> width[2], writes |-> calls]

Plain ==
  {Direct(calls) : calls \in {<<>>, Hex, <<Call("append", 3)>>, <<Call("convert", 5)>>}}

Wide ==
  {Adjusted(calls, sign, width) :
     calls \in {<<>>, Hex, <<Call("append", 4)>>, <<Call("convert", 8)>>},
     sign \in {"-", "0", ""}, width \in {<<0, 2>>, <<4, 0>>, <<6, 5>>}}

MCMessages ==
  {<<c>> : c \in Plain \cup Wide}
    \cup {<<c, d>> : c \in {c \in Plain : c.writes # <<>>}, d \in {d \in Wide : d.min_width # 0}}
=============================================================================
