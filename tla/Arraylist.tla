----------------------------- MODULE Arraylist -----------------------------
(***************************************************************************)
(* zc_arraylist.c: an array of pointers that grows.  A list has size       *)
(* allocated slots, of which the first len are in use; slot maps the       *)
(* indexes that hold a pointer to what it points to, the other slots are   *)
(* NULL.  Nothing here keeps a write inside the array: that is for the     *)
(* callers' indexes to bring about, and for InBounds to notice.            *)
(***************************************************************************)
EXTENDS Naturals

DefaultSize == 32   \* ARRAY_LIST_DEFAULT_SIZE

Larger(a, b) == IF a >= b THEN a ELSE b

EmptyList == [size |-> DefaultSize, len |-> 0, slot |-> << >>]

-----------------------------------------------------------------------------
\* Mistakes a change of the code could make.
BugExpandedSize(list, idx) == idx                         \* grown to the index only

-----------------------------------------------------------------------------
\* zc_arraylist_expand_inner: twice the size, or the index if that is more, and
\* then the index itself is one past the end.
ExpandedSize(list, idx) == Larger(2 * list.size, idx)

SizeFor(list, idx) == IF idx > list.size - 1 THEN ExpandedSize(list, idx) ELSE list.size

SlotsWith(list, idx, data) ==
  [i \in DOMAIN list.slot \cup {idx} |-> IF i = idx THEN data ELSE list.slot[i]]

\* zc_arraylist_set: what was in the slot is deleted.
ListSet(list, idx, data) ==
  [size |-> SizeFor(list, idx),
   len |-> Larger(list.len, idx + 1),
   slot |-> SlotsWith(list, idx, data)]

ListAdd(list, data) == ListSet(list, list.len, data)

Items(list) == {list.slot[i] : i \in DOMAIN list.slot}

\* No pointer was written outside the allocated slots.
InBounds(list) ==
  /\ list.len <= list.size
  /\ \A i \in DOMAIN list.slot : i < list.len
=============================================================================
