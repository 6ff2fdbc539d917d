----------------------------- MODULE Hashtable -----------------------------
(***************************************************************************)
(* The hash table (src/zc_hashtable.c) behind the category table, the      *)
(* table of output functions and a thread's diagnostic context, used the   *)
(* way they use it: the caller allocates a node, puts it under a key that  *)
(* is part of the node, and frees it itself if the put fails; the table    *)
(* frees a node it replaces, removes or cleans away.                       *)
(*                                                                         *)
(* Entries are doubly linked in the chain of their bucket.  Rehashing is   *)
(* one step per entry; so is a walk with zc_hashtable_foreach.             *)
(***************************************************************************)
EXTENDS Integers, FiniteSets

CONSTANTS
  Key,       \* keys that strcmp tells apart
  Node,      \* memory for the callers' nodes
  Entry,     \* memory for the table's entries
  Hashes,    \* hash functions, [Key -> Nat]
  InitSize,  \* buckets of a new table
  Null

ASSUME HashAssumption == Hashes \subseteq [Key -> Nat]

ASSUME SizeAssumption == InitSize \in Nat \ {0}

\* Memory is finite: a chain ends.
ASSUME MemoryAssumption == IsFiniteSet(Entry)

ASSUME NullAssumption == Null \notin Entry \cup Node \cup Key

VARIABLES
  hash,                   \* of this behaviour
  tab, tab_size, nelem,   \* the table
  live,                   \* the entries allocated
  key, value,             \* of each entry; its hash_key is its key's hash
  next, prev,             \* its neighbours
  owned,                  \* nodes passed to the table and not yet freed
  pc,
  arg,                    \* the put under way: [key, node]
  new_tab, i, p,          \* locals of zc_hashtable_rehash
  cursor, visited         \* of a foreach

tableVars == <<tab, tab_size, nelem>>
entryVars == <<live, key, value, owned>>
linkVars == <<next, prev>>
putVars == <<arg, new_tab, i, p>>
walkVars == <<cursor, visited>>
vars == <<hash, tableVars, entryVars, linkVars, putVars, walkVars, pc>>

-----------------------------------------------------------------------------
NoTable == <<>>

Empty(n) == [j \in 0..(n - 1) |-> Null]

NoEntries == [e \in Entry |-> Null]

NoArg == [key |-> Null, node |-> Null]

Init ==
  /\ hash \in Hashes
  /\ tab = Empty(InitSize)
  /\ tab_size = InitSize
  /\ nelem = 0
  /\ live = {}
  /\ key = NoEntries
  /\ value = NoEntries
  /\ next = NoEntries
  /\ prev = NoEntries
  /\ owned = {}
  /\ pc = "idle"
  /\ arg = NoArg
  /\ new_tab = NoTable
  /\ i = 0
  /\ p = Null
  /\ cursor = Null
  /\ visited = {}

\* The entries of a bucket, in the order of its chain.
Chain(j) ==
  LET at[n \in 0..Cardinality(Entry)] ==
        IF n = 0 THEN tab[j] ELSE IF at[n - 1] = Null THEN Null ELSE next[at[n - 1]]
  IN  {at[n] : n \in DOMAIN at} \ {Null}

Slot(k, size) == hash[k] % size

\* Mistakes a change of the code could make in one definition below; the runs'
\* properties notice each of them.
BugMatches(k, e) == hash[key[e]] = hash[k]          \* hashes compared, not keys
BugNewSlot(e) == Slot(key[e], tab_size)             \* the old number of buckets
BugPrevWithout(e) == prev                           \* the next entry not told
BugReplaced(e, v) == owned \cup {v}                 \* value_del forgotten
BugOneFewer == nelem - 2
BugFollowing(e) == Slot(key[e], tab_size)           \* the same bucket again

-----------------------------------------------------------------------------
(***************************************************************************)
(* zc_hashtable_put.                                                       *)
(***************************************************************************)
Matches(k, e) == key[e] = k

\* Where the walk along the key's chain stops.
Found(k) == {e \in Chain(Slot(k, tab_size)) : Matches(k, e)}

\* nelem > tab_size * 1.3
Crowded == 10 * nelem > 13 * tab_size

Replaced(e, v) == (owned \ {value[e]}) \cup {v}

\* The key is there: the old node goes, the new one takes its entry.
PutReplace(k, v) ==
  /\ pc = "idle"
  /\ v \notin owned
  /\ \E e \in Found(k) :
       /\ key' = [key EXCEPT ![e] = k]
       /\ value' = [value EXCEPT ![e] = v]
       /\ owned' = Replaced(e, v)
  /\ UNCHANGED <<hash, tableVars, live, linkVars, putVars, walkVars, pc>>

\* It is not: a crowded table is rehashed first, if there is memory for that.
PutNew(k, v) ==
  /\ pc = "idle"
  /\ v \notin owned
  /\ Found(k) = {}
  /\ arg' = [key |-> k, node |-> v]
  /\ \/ /\ ~Crowded
        /\ pc' = "insert"
        /\ UNCHANGED <<new_tab, i, p>>
     \/ /\ Crowded
        /\ pc' = "rehash"
        /\ new_tab' = Empty(2 * tab_size)
        /\ i' = 0
        /\ p' = tab[0]
  /\ UNCHANGED <<hash, tableVars, entryVars, linkVars, walkVars>>

\* Before and after the neighbours of e are told that it heads the chain of
\* bucket j of table t.
LinkFirst(t, j, e) ==
  /\ next' = [next EXCEPT ![e] = t[j]]
  /\ prev' = [f \in Entry |-> IF f = e THEN Null ELSE IF f = t[j] THEN e ELSE prev[f]]

NewSlot(e) == Slot(key[e], 2 * tab_size)

RehashEntry ==
  /\ pc = "rehash"
  /\ p # Null
  /\ LinkFirst(new_tab, NewSlot(p), p)
  /\ new_tab' = [new_tab EXCEPT ![NewSlot(p)] = p]
  /\ p' = next[p]
  /\ UNCHANGED <<hash, tableVars, entryVars, arg, i, walkVars, pc>>

RehashBucket ==
  /\ pc = "rehash"
  /\ p = Null
  /\ i + 1 < tab_size
  /\ i' = i + 1
  /\ p' = tab[i + 1]
  /\ UNCHANGED <<hash, tableVars, entryVars, linkVars, arg, new_tab, walkVars, pc>>

RehashDone ==
  /\ pc = "rehash"
  /\ p = Null
  /\ i + 1 = tab_size
  /\ tab' = new_tab
  /\ tab_size' = 2 * tab_size
  /\ new_tab' = NoTable
  /\ pc' = "insert"
  /\ UNCHANGED <<hash, nelem, entryVars, linkVars, arg, i, p, walkVars>>

Insert(e) ==
  /\ pc = "insert"
  /\ e \notin live
  /\ LET j == Slot(arg.key, tab_size)
     IN  /\ LinkFirst(tab, j, e)
         /\ tab' = [tab EXCEPT ![j] = e]
  /\ live' = live \cup {e}
  /\ key' = [key EXCEPT ![e] = arg.key]
  /\ value' = [value EXCEPT ![e] = arg.node]
  /\ owned' = owned \cup {arg.node}
  /\ nelem' = nelem + 1
  /\ arg' = NoArg
  /\ pc' = "idle"
  /\ UNCHANGED <<hash, tab_size, new_tab, i, p, walkVars>>

\* No memory for the entry; a table that was rehashed stays so.  (A rehash that
\* finds no memory is a put that changes nothing.)
InsertFails ==
  /\ pc = "insert"
  /\ arg' = NoArg
  /\ pc' = "idle"
  /\ UNCHANGED <<hash, tableVars, entryVars, linkVars, new_tab, i, p, walkVars>>

-----------------------------------------------------------------------------
(***************************************************************************)
(* zc_hashtable_remove, zc_hashtable_clean, zc_hashtable_del.              *)
(***************************************************************************)
NextWithout(e) == IF prev[e] = Null THEN next ELSE [next EXCEPT ![prev[e]] = next[e]]

PrevWithout(e) == IF next[e] = Null THEN prev ELSE [prev EXCEPT ![next[e]] = prev[e]]

OneFewer == nelem - 1

Remove(k) ==
  /\ pc = "idle"
  /\ \E e \in Found(k) :
       /\ next' = [NextWithout(e) EXCEPT ![e] = Null]
       /\ prev' = [PrevWithout(e) EXCEPT ![e] = Null]
       /\ tab' = IF prev[e] = Null THEN [tab EXCEPT ![Slot(key[e], tab_size)] = next[e]] ELSE tab
       /\ live' = live \ {e}
       /\ key' = [key EXCEPT ![e] = Null]
       /\ value' = [value EXCEPT ![e] = Null]
       /\ owned' = owned \ {value[e]}
  /\ nelem' = OneFewer
  /\ UNCHANGED <<hash, tab_size, putVars, walkVars, pc>>

\* Every chain is freed entry by entry; size is that of the table afterwards.
FreeAll(size) ==
  LET gone == UNION {Chain(j) : j \in DOMAIN tab}
      without(f) == [e \in Entry |-> IF e \in gone THEN Null ELSE f[e]]
  IN  /\ tab' = Empty(size)
      /\ tab_size' = size
      /\ nelem' = 0
      /\ live' = live \ gone
      /\ key' = without(key)
      /\ value' = without(value)
      /\ next' = without(next)
      /\ prev' = without(prev)
      /\ owned' = owned \ {value[e] : e \in gone}

Clean ==
  /\ pc = "idle"
  /\ live # {}
  /\ FreeAll(tab_size)
  /\ UNCHANGED <<hash, putVars, walkVars, pc>>

\* The table is deleted and its owner makes a new one.
Renew ==
  /\ pc = "idle"
  /\ FreeAll(InitSize)
  /\ UNCHANGED <<hash, putVars, walkVars, pc>>

-----------------------------------------------------------------------------
(***************************************************************************)
(* zc_hashtable_begin and zc_hashtable_next.                               *)
(***************************************************************************)
\* e heads the first chain from bucket n on.
Heads(n, e) ==
  \E j \in n..(tab_size - 1) :
    tab[j] = e /\ e # Null /\ \A h \in n..(j - 1) : tab[h] = Null

Visit(e) ==
  /\ cursor' = e
  /\ visited' = visited \cup {e}
  /\ UNCHANGED <<hash, tableVars, entryVars, linkVars, putVars>>

WalkBegin(e) ==
  /\ pc = "idle"
  /\ Heads(0, e)
  /\ Visit(e)
  /\ pc' = "walk"

Following(e) == Slot(key[e], tab_size) + 1

WalkNext(e) ==
  /\ pc = "walk"
  /\ \/ next[cursor] # Null /\ e = next[cursor]
     \/ next[cursor] = Null /\ Heads(Following(cursor), e)
  /\ Visit(e)
  /\ pc' = pc

WalkEnd ==
  /\ pc = "walk"
  /\ next[cursor] = Null
  /\ \A e \in Entry : ~Heads(Following(cursor), e)
  /\ cursor' = Null
  /\ visited' = {}
  /\ pc' = "idle"
  /\ UNCHANGED <<hash, tableVars, entryVars, linkVars, putVars>>

Next ==
  \/ \E k \in Key, v \in Node : PutReplace(k, v) \/ PutNew(k, v)
  \/ RehashEntry \/ RehashBucket \/ RehashDone
  \/ (\E e \in Entry : Insert(e)) \/ InsertFails
  \/ \E k \in Key : Remove(k)
  \/ Clean \/ Renew
  \/ (\E e \in Entry : WalkBegin(e) \/ WalkNext(e)) \/ WalkEnd

Spec == Init /\ [][Next]_vars

-----------------------------------------------------------------------------
(***************************************************************************)
(* Properties.                                                             *)
(***************************************************************************)
\* Every variable has its type.
TypeOK ==
  /\ hash \in Hashes
  /\ tab_size \in Nat \ {0}
  /\ tab \in [0..(tab_size - 1) -> Entry \cup {Null}]
  /\ nelem \in Nat
  /\ live \subseteq Entry
  /\ key \in [Entry -> Key \cup {Null}]
  /\ value \in [Entry -> Node \cup {Null}]
  /\ {next, prev} \subseteq [Entry -> Entry \cup {Null}]
  /\ owned \subseteq Node
  /\ pc \in {"idle", "insert", "rehash", "walk"}
  /\ arg \in [key : Key \cup {Null}, node : Node \cup {Null}]
  /\ new_tab \in {NoTable} \cup [0..(2 * tab_size - 1) -> Entry \cup {Null}]
  /\ i \in Nat
  /\ {p, cursor} \subseteq Entry \cup {Null}
  /\ visited \subseteq Entry

\* Both directions of the links agree between any two calls, and only the head
\* of a chain has no predecessor: what removal relies on.
WellLinked ==
  pc # "rehash" =>
    \A e \in live :
      /\ next[e] # Null => next[e] \in live /\ prev[next[e]] = e
      /\ IF prev[e] = Null THEN tab[Slot(key[e], tab_size)] = e
         ELSE prev[e] \in live /\ next[prev[e]] = e

\* Whatever was rehashed, replaced and removed before, looking a key up ends at
\* the one entry that has it, and the table counts its entries right.
LookupFinds ==
  pc # "rehash" =>
    /\ \A e \in live : Found(key[e]) = {e}
    /\ nelem = Cardinality(live)

\* A node belongs to exactly one entry or has been freed: none is freed twice,
\* none leaks (key_del and value_del against the callers' own frees).
NodesOwned ==
  /\ owned = {value[e] : e \in live}
  /\ \A e, f \in live : value[e] = value[f] => e = f

\* zc_hashtable_foreach visits every entry, and none twice.
VisitsEachOnce ==
  [][pc = "walk" =>
       IF pc' = "walk" THEN cursor' \notin visited ELSE visited = live]_vars

\* The table is a map from keys to nodes: see KeyMap.
Map == INSTANCE KeyMap WITH
  None <- Null,
  map <- [k \in Key |-> IF \E e \in live : key[e] = k
                        THEN value[CHOOSE e \in live : key[e] = k] ELSE Null]

ImplementsMap == Map!Spec
=============================================================================
