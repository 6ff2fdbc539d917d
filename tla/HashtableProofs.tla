-------------------------- MODULE HashtableProofs --------------------------
(***************************************************************************)
(* Proofs about Hashtable, for any keys, hash functions, first size and    *)
(* memory: it finds what was put, frees what it must, visits every entry   *)
(* once, and is a map.                                                     *)
(***************************************************************************)
EXTENDS Hashtable, Induction, TLAPS

(***************************************************************************)
(* The inductive invariant.                                                *)
(***************************************************************************)
SlotOf(e, size) == Slot(key[e], size)

Slots(size) == [e \in live |-> SlotOf(e, size)]

\* The entries E are doubly linked in the chains of table t.
Linked(E, t, nx, pv, slot) ==
  /\ \A e \in E : nx[e] # Null => nx[e] \in E /\ pv[nx[e]] = e /\ slot[nx[e]] = slot[e]
  /\ \A e \in E : IF pv[e] = Null THEN t[slot[e]] = e ELSE pv[e] \in E /\ nx[pv[e]] = e
  /\ \A j \in DOMAIN t : t[j] # Null => t[j] \in E /\ pv[t[j]] = Null /\ slot[t[j]] = j

Chained(E, t, size) == Linked(E, t, next, prev, Slots(size))

\* Some numbering falls along every chain: none comes back to itself.
Falling(E, nx) ==
  \E n \in Nat : \E order \in [Entry -> 0..n] :
    \A e \in E : nx[e] # Null => order[nx[e]] < order[e]

\* The entries E of the old table wait for zc_hashtable_rehash: those from p on
\* and those of later buckets.  The entry in front of p has moved, and p still
\* points back to it.
Waiting(E) ==
  /\ \A e \in E : next[e] # Null =>
       next[e] \in E /\ prev[next[e]] = e /\ SlotOf(next[e], tab_size) = SlotOf(e, tab_size)
  /\ \A e \in E : IF prev[e] \in E THEN next[prev[e]] = e
                  ELSE \/ e = p
                       \/ SlotOf(e, tab_size) > i /\ tab[SlotOf(e, tab_size)] = e
  /\ \A e \in E : SlotOf(e, tab_size) >= i
  /\ p # Null => p \in E /\ prev[p] \notin E /\ SlotOf(p, tab_size) = i
  /\ \A j \in (i + 1)..(tab_size - 1) : tab[j] # Null =>
       tab[j] \in E /\ prev[tab[j]] = Null /\ SlotOf(tab[j], tab_size) = j

EntryInv ==
  /\ \A e \in live : key[e] \in Key /\ value[e] \in Node
  /\ \A e, f \in live : key[e] = key[f] => e = f
  /\ nelem = Cardinality(live)

\* A node waits to be put under a key that is not there.
PutInv ==
  /\ pc \in {"insert", "rehash"} =>
       /\ arg.key \in Key /\ arg.node \in Node \ owned
       /\ \A e \in live : key[e] # arg.key
  /\ pc # "rehash" => new_tab = NoTable

ChainInv == pc # "rehash" => Chained(live, tab, tab_size)

RehashInv ==
  pc = "rehash" =>
    /\ new_tab \in [0..(2 * tab_size - 1) -> Entry \cup {Null}]
    /\ i \in 0..(tab_size - 1)
    /\ \E moved \in SUBSET live :
         Chained(moved, new_tab, 2 * tab_size) /\ Waiting(live \ moved)

TableInv == TypeOK /\ EntryInv /\ NodesOwned /\ PutInv /\ ChainInv /\ RehashInv /\ Falling(live, next)

\* A walk that stands at c has been to V: every entry of the buckets before c's,
\* and in its bucket all from the head to c.
Walked(c, V) ==
  /\ c \in V /\ V \subseteq live
  /\ \A e \in live : SlotOf(e, tab_size) < SlotOf(c, tab_size) => e \in V
  /\ \A e \in V :
       /\ SlotOf(e, tab_size) <= SlotOf(c, tab_size)
       /\ prev[e] # Null => prev[e] \in V
       /\ SlotOf(e, tab_size) = SlotOf(c, tab_size) /\ e # c => next[e] # Null /\ next[e] \in V

WalkInv == IF pc # "walk" THEN visited = {} ELSE Walked(cursor, visited)

-----------------------------------------------------------------------------
(***************************************************************************)
(* The chains.                                                             *)
(***************************************************************************)
\* A key's bucket is one of the table's.
LEMMA SlotType ==
  ASSUME TypeOK, NEW k \in Key, NEW size \in Nat \ {0}
  PROVE  Slot(k, size) \in 0..(size - 1)
<1>1. hash[k] \in Nat
  BY HashAssumption DEF TypeOK
<1> QED BY <1>1 DEF Slot

\* The walk of a chain that starts with head, as Chain defines it.
Walks(at, head, m) ==
  at = [n \in 0..m |-> IF n = 0 THEN head
                       ELSE IF at[n - 1] = Null THEN Null ELSE next[at[n - 1]]]

\* A chain can be followed for any number of steps.
LEMMA WalkExists ==
  ASSUME NEW head, NEW m \in Nat
  PROVE  \E at : Walks(at, head, m)
<1> DEFINE N == {l \in Nat : \E at : Walks(at, head, l)}
<1>1. 0 \in N
  <2> DEFINE at == [n \in 0..0 |-> head]
  <2>1. Walks(at, head, 0)
    BY DEF Walks
  <2> QED BY <2>1
<1>2. ASSUME NEW l \in Nat, l \in N
      PROVE  l + 1 \in N
  <2>1. PICK at : Walks(at, head, l)
    BY <1>2
  <2> DEFINE last == IF at[l] = Null THEN Null ELSE next[at[l]]
             more == [n \in 0..(l + 1) |-> IF n <= l THEN at[n] ELSE last]
  <2>2. \A n \in 0..l : more[n] = at[n]
    OBVIOUS
  <2>3. more[l + 1] = last
    OBVIOUS
  <2>4. ASSUME NEW n \in 0..(l + 1)
        PROVE  more[n] = IF n = 0 THEN head
                         ELSE IF more[n - 1] = Null THEN Null ELSE next[more[n - 1]]
    <3>1. CASE n <= l
      <4>1. at[n] = IF n = 0 THEN head ELSE IF at[n - 1] = Null THEN Null ELSE next[at[n - 1]]
        BY <2>1, <3>1 DEF Walks
      <4>2. n # 0 => n - 1 \in 0..l
        BY <3>1
      <4> HIDE DEF more
      <4> QED BY <2>2, <3>1, <4>1, <4>2
    <3>2. CASE n = l + 1
      <4> HIDE DEF more
      <4> QED BY <2>2, <2>3, <3>2
    <3> QED BY <3>1, <3>2
  <2>5. more = [n \in 0..(l + 1) |-> more[n]]
    OBVIOUS
  <2> HIDE DEF more
  <2>6. Walks(more, head, l + 1)
    BY <2>4, <2>5 DEF Walks
  <2> QED BY <2>6
<1> HIDE DEF N
<1>3. Nat \subseteq N
  BY <1>1, <1>2, SetInduction
<1> QED BY <1>3 DEF N

\* Chain is such a walk, one entry longer than there is memory for.
LEMMA ChainWalks ==
  ASSUME NEW j
  PROVE  /\ Cardinality(Entry) \in Nat
         /\ \E at : /\ Walks(at, tab[j], Cardinality(Entry))
                   /\ Chain(j) = {at[n] : n \in 0..Cardinality(Entry)} \ {Null}
<1>1. Cardinality(Entry) \in Nat
  BY MemoryAssumption, FS_CardinalityType
<1> DEFINE at == CHOOSE f : Walks(f, tab[j], Cardinality(Entry))
<1>2. Walks(at, tab[j], Cardinality(Entry))
  <2>1. \E f : Walks(f, tab[j], Cardinality(Entry))
    BY <1>1, WalkExists
  <2> QED BY <2>1
<1>3. Chain(j) = {at[n] : n \in DOMAIN at} \ {Null}
  BY DEF Chain, Walks
<1> HIDE DEF at
<1>4. DOMAIN at = 0..Cardinality(Entry)
  BY <1>2 DEF Walks
<1> QED BY <1>1, <1>2, <1>3, <1>4

Bucket(j, size) == {e \in live : SlotOf(e, size) = j}

\* The chain of a bucket has the entries of the bucket, each and only those: it
\* ends, because no entry comes twice, and no entry is left out, because each
\* has one before it until the head.
LEMMA ChainIsBucket ==
  ASSUME TypeOK, EntryInv, Falling(live, next), Chained(live, tab, tab_size),
         NEW j \in 0..(tab_size - 1)
  PROVE  Chain(j) = Bucket(j, tab_size)
<1> DEFINE C == Cardinality(Entry)
           B == Bucket(j, tab_size)
<1>1. PICK at : Walks(at, tab[j], C) /\ Chain(j) = {at[n] : n \in 0..C} \ {Null}
  BY ChainWalks
<1>2. PICK n \in Nat : \E order \in [Entry -> 0..n] :
        \A e \in live : next[e] # Null => order[next[e]] < order[e]
  BY DEF Falling
<1>3. PICK order \in [Entry -> 0..n] :
        \A e \in live : next[e] # Null => order[next[e]] < order[e]
  BY <1>2
<1>4. Linked(live, tab, next, prev, Slots(tab_size)) /\ DOMAIN tab = 0..(tab_size - 1)
  BY DEF Chained, TypeOK
<1>5. C \in Nat
  BY ChainWalks
<1> HIDE DEF C
<1>6. /\ at[0] = tab[j]
      /\ \A m \in 0..C : m + 1 <= C => at[m + 1] = IF at[m] = Null THEN Null ELSE next[at[m]]
  BY <1>1, <1>5 DEF Walks
<1>7. live \subseteq Entry /\ Null \notin live /\ B \subseteq live
  BY NullAssumption DEF TypeOK, Bucket
<1>8. \A m \in 0..C : at[m] \in B \cup {Null}
  <2> DEFINE N == {m \in Nat : m <= C => at[m] \in B \cup {Null}}
  <2>1. 0 \in N
    <3>1. tab[j] # Null => tab[j] \in B
      BY <1>4 DEF Linked, Bucket, Slots
    <3> QED BY <1>6, <3>1
  <2>2. ASSUME NEW m \in Nat, m \in N
        PROVE  m + 1 \in N
    <3>1. \A e \in B : next[e] # Null => next[e] \in B
      BY <1>4 DEF Linked, Bucket, Slots
    <3> HIDE DEF B
    <3> QED BY <1>5, <1>6, <2>2, <3>1
  <2> HIDE DEF N
  <2>3. Nat \subseteq N
    BY <2>1, <2>2, SetInduction
  <2> QED BY <1>5, <2>3 DEF N
<1>9. \A m \in 0..C : at[m] # Null =>
        \A l \in 0..(m - 1) : at[l] # Null /\ order[at[m]] < order[at[l]]
  <2> DEFINE N == {m \in Nat : m <= C /\ at[m] # Null =>
                      \A l \in 0..(m - 1) : at[l] # Null /\ order[at[m]] < order[at[l]]}
  <2>1. 0 \in N
    OBVIOUS
  <2>2. ASSUME NEW m \in Nat, m \in N
        PROVE  m + 1 \in N
    <3> SUFFICES ASSUME m + 1 <= C, at[m + 1] # Null, NEW l \in 0..m
                 PROVE  at[l] # Null /\ order[at[m + 1]] < order[at[l]]
      OBVIOUS
    <3>1. m \in 0..C /\ at[m] # Null /\ at[m + 1] = next[at[m]]
      BY <1>5, <1>6
    <3>2. at[m] \in live /\ at[m + 1] \in live
      BY <1>5, <1>7, <1>8, <3>1
    <3>3. order[at[m + 1]] < order[at[m]]
      BY <1>3, <3>1, <3>2
    <3>4. CASE l = m
      BY <3>1, <3>3, <3>4
    <3>5. CASE l # m
      <4>1. l \in 0..(m - 1)
        BY <3>5
      <4>2. at[l] # Null /\ order[at[m]] < order[at[l]]
        BY <2>2, <3>1, <4>1
      <4>3. at[l] \in live
        BY <1>5, <1>7, <1>8, <4>1, <4>2, <3>1
      <4>4. order[at[l]] \in Int /\ order[at[m]] \in Int /\ order[at[m + 1]] \in Int
        BY <1>3, <1>7, <3>2, <4>3
      <4> QED BY <3>3, <4>2, <4>4
    <3> QED BY <3>4, <3>5
  <2> HIDE DEF N
  <2>3. Nat \subseteq N
    BY <2>1, <2>2, SetInduction
  <2> QED BY <1>5, <2>3 DEF N
<1>10. at[C] = Null
  <2> SUFFICES ASSUME at[C] # Null PROVE FALSE
    OBVIOUS
  <2>1. \A m \in 0..C : at[m] # Null
    BY <1>5, <1>9
  <2> DEFINE f == [m \in 0..C |-> at[m]]
  <2>2. f \in [0..C -> Entry]
    BY <1>7, <1>8, <2>1
  <2>3. \A l, m \in 0..C : l < m => f[l] # f[m]
    <3> TAKE l, m \in 0..C
    <3> HAVE l < m
    <3>1. order[at[m]] < order[at[l]]
      BY <1>5, <1>9, <2>1
    <3>2. order[at[m]] \in Int
      BY <1>3, <1>7, <1>8, <2>1
    <3> QED BY <3>1, <3>2
  <2> HIDE DEF f
  <2>4. IsFiniteSet(0..C) /\ Cardinality(0..C) = C + 1
    BY <1>5, FS_Interval
  <2>5. IsFiniteSet(Entry) /\ Cardinality(Entry) < Cardinality(0..C)
    BY <1>5, <2>4, MemoryAssumption DEF C
  <2>6. \E l, m \in 0..C : l # m /\ f[l] = f[m]
    BY <2>2, <2>4, <2>5, FS_PigeonHole
  <2> QED BY <1>5, <2>3, <2>6
<1>11. \A e \in B : \E m \in 0..C : at[m] = e
  <2> DEFINE lost == {e \in B : \A m \in 0..C : at[m] # e}
             N == {n - order[e] : e \in lost}
  <2> SUFFICES ASSUME lost # {} PROVE FALSE
    OBVIOUS
  <2>1. N \in SUBSET Nat /\ N # {}
    BY <1>3, <1>7
  <2> HIDE DEF N
  <2>2. PICK least \in N : \A d \in N : least <= d
    BY <2>1, LeastElement
  <2>3. PICK e \in lost : least = n - order[e]
    BY <2>2 DEF N
  <2>4. e \in live /\ SlotOf(e, tab_size) = j /\ \A m \in 0..C : at[m] # e
    BY <2>3 DEF Bucket
  <2>5. CASE prev[e] = Null
    <3>1. at[0] = e
      BY <1>4, <1>6, <2>4, <2>5 DEF Linked, Slots
    <3> QED BY <1>5, <2>4, <3>1
  <2>6. CASE prev[e] # Null
    <3>1. prev[e] \in live /\ next[prev[e]] = e
      BY <1>4, <2>4, <2>6 DEF Linked
    <3>2. SlotOf(prev[e], tab_size) = j
      BY <1>4, <1>7, <2>4, <3>1 DEF Linked, Slots
    <3>3. order[e] < order[prev[e]] /\ order[e] \in Int /\ order[prev[e]] \in Int
      BY <1>3, <1>7, <2>4, <3>1
    <3>4. prev[e] \notin lost
      <4> SUFFICES ASSUME prev[e] \in lost PROVE FALSE
        OBVIOUS
      <4>1. n - order[prev[e]] \in N
        BY DEF N
      <4> QED BY <2>2, <2>3, <3>3, <4>1
    <3>5. PICK m \in 0..C : at[m] = prev[e]
      BY <3>1, <3>2, <3>4 DEF Bucket
    <3>6. m # C /\ at[m] # Null
      BY <1>7, <1>10, <3>1, <3>5
    <3>7. m + 1 \in 0..C /\ at[m + 1] = e
      BY <1>5, <1>6, <3>1, <3>5, <3>6
    <3> QED BY <2>4, <3>7
  <2> QED BY <2>5, <2>6
<1> HIDE DEF B
<1> QED BY <1>1, <1>7, <1>8, <1>11 DEF B

\* Looking a key up ends at the entries that have it; freeing every chain frees
\* every entry.
LEMMA FoundAre ==
  ASSUME TypeOK, EntryInv, Falling(live, next), Chained(live, tab, tab_size)
  PROVE  /\ \A k \in Key : Found(k) = {e \in live : key[e] = k}
         /\ UNION {Chain(j) : j \in DOMAIN tab} = live
<1>1. \A j \in 0..(tab_size - 1) : Chain(j) = Bucket(j, tab_size)
  BY ChainIsBucket
<1>2. \A k \in Key : Slot(k, tab_size) \in 0..(tab_size - 1)
  BY SlotType DEF TypeOK
<1>3. \A e \in live : key[e] \in Key
  BY DEF EntryInv
<1>4. DOMAIN tab = 0..(tab_size - 1)
  BY DEF TypeOK
<1>5. ASSUME NEW k \in Key
      PROVE  Found(k) = {e \in live : key[e] = k}
  <2>1. Found(k) = {e \in Bucket(Slot(k, tab_size), tab_size) : key[e] = k}
    BY <1>1, <1>2 DEF Found, Matches
  <2> QED BY <2>1 DEF Bucket, SlotOf
<1>6. ASSUME NEW e \in live
      PROVE  \E j \in DOMAIN tab : e \in Chain(j)
  <2>1. SlotOf(e, tab_size) \in DOMAIN tab
    BY <1>2, <1>3, <1>4 DEF SlotOf
  <2>2. e \in Bucket(SlotOf(e, tab_size), tab_size)
    BY DEF Bucket
  <2> QED BY <1>1, <1>4, <2>1, <2>2
<1>7. \A j \in DOMAIN tab : Chain(j) \subseteq live
  BY <1>1, <1>4 DEF Bucket
<1> QED BY <1>5, <1>6, <1>7

-----------------------------------------------------------------------------
(***************************************************************************)
(* What a step does to the links.                                          *)
(***************************************************************************)
Links == [Entry -> Entry \cup {Null}]

\* An entry gets in front of the chain of its bucket.
LEMMA LinkedFirst ==
  ASSUME NEW E \in SUBSET Entry, NEW t, NEW nx, NEW pv, NEW slot,
         Linked(E, t, nx, pv, slot), NEW e \in Entry \ E, NEW j \in DOMAIN t,
         NEW t2, NEW nx2, NEW pv2, NEW slot2,
         nx2[e] = t[j], \A f \in E : nx2[f] = nx[f],
         pv2[e] = Null, \A f \in E : pv2[f] = IF f = t[j] THEN e ELSE pv[f],
         DOMAIN t2 = DOMAIN t, t2[j] = e, \A h \in DOMAIN t : h # j => t2[h] = t[h],
         slot2[e] = j, \A f \in E : slot[f] \in DOMAIN t /\ slot2[f] = slot[f]
  PROVE  Linked(E \cup {e}, t2, nx2, pv2, slot2)
<1> DEFINE F == E \cup {e}
<1>1. Null \notin Entry
  BY NullAssumption
<1>2. /\ nx2[e] = t[j] /\ \A f \in E : nx2[f] = nx[f]
      /\ pv2[e] = Null /\ \A f \in E : pv2[f] = IF f = t[j] THEN e ELSE pv[f]
      /\ t2[j] = e /\ \A h \in DOMAIN t : h # j => t2[h] = t[h]
      /\ DOMAIN t2 = DOMAIN t
  OBVIOUS
<1>3. t[j] # Null => t[j] \in E /\ pv[t[j]] = Null /\ slot[t[j]] = j
  BY DEF Linked
<1>4. ASSUME NEW f \in F, nx2[f] # Null
      PROVE  nx2[f] \in F /\ pv2[nx2[f]] = f /\ slot2[nx2[f]] = slot2[f]
  <2>1. CASE f = e
    BY <1>2, <1>3, <1>4, <2>1
  <2>2. CASE f \in E
    <3>1. nx[f] \in E /\ pv[nx[f]] = f /\ slot[nx[f]] = slot[f]
      BY <1>2, <1>4, <2>2 DEF Linked
    <3>2. nx[f] # t[j]
      BY <1>1, <1>3, <2>2, <3>1
    <3> QED BY <1>2, <2>2, <3>1, <3>2
  <2> QED BY <2>1, <2>2
<1>5. ASSUME NEW f \in F
      PROVE  IF pv2[f] = Null THEN t2[slot2[f]] = f ELSE pv2[f] \in F /\ nx2[pv2[f]] = f
  <2>1. CASE f = e
    BY <1>2, <2>1
  <2>2. CASE f \in E /\ f = t[j]
    BY <1>1, <1>2, <2>2
  <2>3. CASE f \in E /\ f # t[j] /\ pv[f] = Null
    <3>1. t[slot[f]] = f /\ slot[f] # j
      BY <2>3 DEF Linked
    <3> QED BY <1>2, <2>3, <3>1
  <2>4. CASE f \in E /\ f # t[j] /\ pv[f] # Null
    <3>1. pv[f] \in E /\ nx[pv[f]] = f
      BY <2>4 DEF Linked
    <3> QED BY <1>2, <2>4, <3>1
  <2> QED BY <2>1, <2>2, <2>3, <2>4
<1>6. ASSUME NEW h \in DOMAIN t2, t2[h] # Null
      PROVE  t2[h] \in F /\ pv2[t2[h]] = Null /\ slot2[t2[h]] = h
  <2>1. CASE h = j
    BY <1>2, <2>1
  <2>2. CASE h # j
    <3>1. t[h] \in E /\ pv[t[h]] = Null /\ slot[t[h]] = h
      BY <1>2, <1>6, <2>2 DEF Linked
    <3>2. t[h] # t[j]
      BY <1>1, <1>3, <2>2, <3>1
    <3> QED BY <1>2, <2>2, <3>1, <3>2
  <2> QED BY <2>1, <2>2
<1> HIDE DEF F
<1>7. Linked(F, t2, nx2, pv2, slot2)
  BY <1>4, <1>5, <1>6 DEF Linked
<1> QED BY <1>7 DEF F

\* An entry leaves its chain.
LEMMA LinkedWithout ==
  ASSUME NEW E \in SUBSET Entry, NEW t, NEW nx \in Links, NEW pv \in Links,
         NEW slot, NEW slot2, Linked(E, t, nx, pv, slot), NEW e \in E,
         \A f \in E : slot[f] \in DOMAIN t, \A f \in E \ {e} : slot2[f] = slot[f],
         NEW t2, NEW nx2, NEW pv2,
         \A f \in E \ {e} : nx2[f] = IF f = pv[e] THEN nx[e] ELSE nx[f],
         \A f \in E \ {e} : pv2[f] = IF f = nx[e] THEN pv[e] ELSE pv[f],
         DOMAIN t2 = DOMAIN t,
         \A h \in DOMAIN t : t2[h] = IF pv[e] = Null /\ h = slot[e] THEN nx[e] ELSE t[h]
  PROVE  Linked(E \ {e}, t2, nx2, pv2, slot2)
<1> DEFINE F == E \ {e}
<1>1. Null \notin Entry
  BY NullAssumption
<1>2. /\ nx[e] # Null => nx[e] \in E /\ pv[nx[e]] = e /\ slot[nx[e]] = slot[e]
      /\ IF pv[e] = Null THEN t[slot[e]] = e ELSE pv[e] \in E /\ nx[pv[e]] = e
  BY DEF Linked
<1>3. /\ \A f \in F : nx2[f] = IF f = pv[e] THEN nx[e] ELSE nx[f]
      /\ \A f \in F : pv2[f] = IF f = nx[e] THEN pv[e] ELSE pv[f]
      /\ \A h \in DOMAIN t : t2[h] = IF pv[e] = Null /\ h = slot[e] THEN nx[e] ELSE t[h]
      /\ F \subseteq Entry /\ e \notin F
  OBVIOUS
<1>4. ASSUME NEW f \in F, nx2[f] # Null
      PROVE  nx2[f] \in F /\ pv2[nx2[f]] = f /\ slot2[nx2[f]] = slot2[f]
  <2>1. CASE f = pv[e]
    <3>1. nx[f] = e /\ slot[e] = slot[f]
      BY <1>1, <1>2, <2>1 DEF Linked
    <3>2. nx2[f] = nx[e] /\ nx[e] \in F
      BY <1>1, <1>2, <1>3, <1>4, <2>1
    <3> QED BY <1>1, <1>2, <1>3, <2>1, <3>1, <3>2
  <2>2. CASE f # pv[e]
    <3>1. nx2[f] = nx[f]
      BY <1>3, <2>2
    <3>2. nx[f] \in E /\ pv[nx[f]] = f /\ slot[nx[f]] = slot[f]
      BY <1>4, <3>1 DEF Linked
    <3>3. nx[f] # e /\ nx[f] # nx[e]
      BY <1>1, <1>3, <1>2, <2>2, <3>2
    <3> QED BY <1>3, <3>1, <3>2, <3>3
  <2> QED BY <2>1, <2>2
<1>5. ASSUME NEW f \in F
      PROVE  IF pv2[f] = Null THEN t2[slot2[f]] = f ELSE pv2[f] \in F /\ nx2[pv2[f]] = f
  <2>1. CASE f = nx[e] /\ pv[e] = Null
    BY <1>1, <1>2, <1>3, <2>1
  <2>2. CASE f = nx[e] /\ pv[e] # Null
    BY <1>1, <1>2, <1>3, <2>2
  <2>3. CASE f # nx[e] /\ pv[f] = Null
    <3>1. t[slot[f]] = f
      BY <2>3 DEF Linked
    <3>2. pv[e] = Null => slot[f] # slot[e]
      BY <1>2, <3>1
    <3> QED BY <1>3, <2>3, <3>1, <3>2
  <2>4. CASE f # nx[e] /\ pv[f] # Null
    <3>1. pv[f] \in E /\ nx[pv[f]] = f
      BY <2>4 DEF Linked
    <3>2. pv[f] # e /\ pv[f] # pv[e]
      BY <1>2, <2>4, <3>1
    <3> QED BY <1>3, <2>4, <3>1, <3>2
  <2> QED BY <2>1, <2>2, <2>3, <2>4
<1>6. ASSUME NEW h \in DOMAIN t2, t2[h] # Null
      PROVE  t2[h] \in F /\ pv2[t2[h]] = Null /\ slot2[t2[h]] = h
  <2>1. CASE pv[e] = Null /\ h = slot[e]
    BY <1>1, <1>2, <1>3, <1>6, <2>1
  <2>2. CASE ~(pv[e] = Null /\ h = slot[e])
    <3>1. t2[h] = t[h] /\ t[h] \in E /\ pv[t[h]] = Null /\ slot[t[h]] = h
      BY <1>3, <1>6, <2>2 DEF Linked
    <3>2. t[h] # e /\ t[h] # nx[e]
      BY <1>1, <1>2, <2>2, <3>1
    <3> QED BY <1>3, <3>1, <3>2
  <2> QED BY <2>1, <2>2
<1> HIDE DEF F
<1>7. Linked(F, t2, nx2, pv2, slot2)
  BY <1>4, <1>5, <1>6 DEF Linked
<1> QED BY <1>7 DEF F

\* An entry that nothing points to may point to any entry that is there: the chains
\* still end.
LEMMA FallingFirst ==
  ASSUME NEW E \in SUBSET Entry, NEW nx \in Links, Falling(E, nx),
         NEW e \in Entry, NEW h, h # e, h = Null \/ h \in E, \A f \in E \ {e} : nx[f] # e
  PROVE  Falling(E \cup {e}, [nx EXCEPT ![e] = h])
<1>1. PICK n \in Nat : \E order \in [Entry -> 0..n] :
        \A f \in E : nx[f] # Null => order[nx[f]] < order[f]
  BY DEF Falling
<1>2. PICK order \in [Entry -> 0..n] : \A f \in E : nx[f] # Null => order[nx[f]] < order[f]
  BY <1>1
<1> DEFINE order2 == [order EXCEPT ![e] = n + 1]
           nx2 == [nx EXCEPT ![e] = h]
<1>3. order2 \in [Entry -> 0..(n + 1)]
  OBVIOUS
<1>4. /\ order2[e] = n + 1 /\ \A f \in Entry : f # e => order2[f] = order[f]
      /\ nx2[e] = h /\ \A f \in Entry : f # e => nx2[f] = nx[f]
  BY DEF Links
<1> HIDE DEF order2, nx2
<1>5. ASSUME NEW f \in E \cup {e}, nx2[f] # Null
      PROVE  order2[nx2[f]] < order2[f]
  <2>1. CASE f = e
    <3>1. h \in Entry /\ order[h] \in 0..n
      BY <1>2, <1>4, <1>5, <2>1
    <3> QED BY <1>4, <2>1, <3>1
  <2>2. CASE f # e
    <3>1. f \in Entry /\ nx[f] \in Entry /\ nx[f] # e
      BY <1>4, <1>5, <2>2 DEF Links
    <3> QED BY <1>2, <1>4, <1>5, <2>2, <3>1
  <2> QED BY <2>1, <2>2
<1>6. Falling(E \cup {e}, nx2)
  BY <1>3, <1>5 DEF Falling
<1> QED BY <1>6 DEF nx2

\* Leaving an entry out, or letting its predecessor skip it, makes no circle.
LEMMA FallingWithout ==
  ASSUME NEW E \in SUBSET Entry, NEW nx \in Links, NEW pv \in Links, Falling(E, nx),
         NEW t, NEW slot, Linked(E, t, nx, pv, slot), NEW e \in E,
         NEW nx2, \A f \in E \ {e} : nx2[f] = IF f = pv[e] THEN nx[e] ELSE nx[f]
  PROVE  Falling(E \ {e}, nx2)
<1>1. PICK n \in Nat : \E order \in [Entry -> 0..n] :
        \A f \in E : nx[f] # Null => order[nx[f]] < order[f]
  BY DEF Falling
<1>2. PICK order \in [Entry -> 0..n] : \A f \in E : nx[f] # Null => order[nx[f]] < order[f]
  BY <1>1
<1>3. \A f \in E \ {e} : nx2[f] = IF f = pv[e] THEN nx[e] ELSE nx[f]
  OBVIOUS
<1>4. pv[e] # Null => nx[pv[e]] = e
  BY DEF Linked
<1>5. ASSUME NEW f \in E \ {e}, nx2[f] # Null
      PROVE  order[nx2[f]] < order[f]
  <2>1. CASE f = pv[e]
    <3>1. nx2[f] = nx[e] /\ nx[f] = e /\ nx[e] # Null /\ e # Null
      BY <1>3, <1>4, <1>5, <2>1, NullAssumption
    <3>2. order[nx[e]] < order[e] /\ order[e] < order[f]
      BY <1>2, <3>1
    <3>3. order[e] \in Int /\ order[f] \in Int /\ nx[e] \in Entry /\ order[nx[e]] \in Int
      BY <1>2, <3>1 DEF Links
    <3> QED BY <3>1, <3>2, <3>3
  <2>2. CASE f # pv[e]
    BY <1>2, <1>3, <1>5, <2>2
  <2> QED BY <2>1, <2>2
<1> QED BY <1>5 DEF Falling

-----------------------------------------------------------------------------
(***************************************************************************)
(* Every step keeps the invariant of the table.                            *)
(***************************************************************************)
\* No entry that is allocated is Null.
LEMMA Typed ==
  ASSUME TypeOK
  PROVE  next \in Links /\ prev \in Links /\ Null \notin live /\ live \subseteq Entry
BY NullAssumption DEF TypeOK, Links

\* Every entry's bucket is one of the table's.
LEMMA SlotsType ==
  ASSUME TypeOK, EntryInv, NEW size \in Nat \ {0}
  PROVE  \A e \in live : Slots(size)[e] = SlotOf(e, size) /\ SlotOf(e, size) \in 0..(size - 1)
<1>1. \A e \in live : key[e] \in Key
  BY DEF EntryInv
<1> QED BY <1>1, SlotType DEF Slots, SlotOf

\* A new table is empty.
LEMMA InitTable == Init => TableInv
<1> SUFFICES ASSUME Init PROVE TableInv
  OBVIOUS
<1>1. TypeOK
  BY SizeAssumption DEF Init, TypeOK, Empty, NoEntries, NoArg
<1>2. EntryInv /\ NodesOwned /\ PutInv /\ RehashInv
  BY FS_EmptySet DEF Init, EntryInv, NodesOwned, PutInv, RehashInv
<1>3. ChainInv
  BY SizeAssumption DEF Init, ChainInv, Chained, Linked, Empty
<1>4. Falling({}, next)
  <2>1. [e \in Entry |-> 0] \in [Entry -> 0..0]
    OBVIOUS
  <2> QED BY <2>1 DEF Falling
<1> QED BY <1>1, <1>2, <1>3, <1>4 DEF Init, TableInv

\* A replacement changes an entry's node and no link.
LEMMA PutReplaceTable ==
  ASSUME TableInv, NEW k \in Key, NEW v \in Node, PutReplace(k, v)
  PROVE  TableInv'
<1>1. PICK e \in Found(k) : /\ key' = [key EXCEPT ![e] = k]
                            /\ value' = [value EXCEPT ![e] = v]
                            /\ owned' = Replaced(e, v)
  BY DEF PutReplace
<1>2. e \in live /\ e \in Entry /\ key[e] = k
  BY FoundAre DEF TableInv, ChainInv, PutReplace, TypeOK
<1>3. key' = key
  BY <1>1, <1>2 DEF TableInv, TypeOK
<1>4. pc = "idle" /\ v \notin owned /\ UNCHANGED <<hash, tableVars, live, linkVars, putVars, walkVars, pc>>
  BY DEF PutReplace
<1>5. TypeOK'
  BY <1>1, <1>2, <1>3, <1>4 DEF TableInv, TypeOK, Replaced, tableVars, linkVars, putVars, walkVars
<1>6. value' \in [Entry -> Node \cup {Null}] /\ value'[e] = v
      /\ \A f \in live : f # e => value'[f] = value[f]
  BY <1>1, <1>2 DEF TableInv, TypeOK
<1>7. EntryInv'
  BY <1>2, <1>3, <1>4, <1>6 DEF TableInv, EntryInv, tableVars
<1>8. NodesOwned'
  <2>1. owned = {value[f] : f \in live} /\ \A f, g \in live : value[f] = value[g] => f = g
    BY DEF TableInv, NodesOwned
  <2>2. owned' = (owned \ {value[e]}) \cup {v} /\ live' = live
    BY <1>1, <1>4 DEF Replaced
  <2>3. \A f \in live : f # e => value'[f] \in owned \ {value[e]}
    BY <1>2, <1>6, <2>1
  <2>4. owned' = {value'[f] : f \in live}
    BY <1>2, <1>6, <2>1, <2>2, <2>3
  <2>5. \A f, g \in live : value'[f] = value'[g] => f = g
    BY <1>4, <1>6, <2>1, <2>3
  <2> QED BY <2>2, <2>4, <2>5 DEF NodesOwned
<1>9. PutInv' /\ RehashInv'
  BY <1>4 DEF TableInv, PutInv, RehashInv, putVars
<1>10. ChainInv' /\ Falling(live, next)'
  BY <1>3, <1>4 DEF TableInv, ChainInv, Chained, Slots, SlotOf, Slot, tableVars, linkVars
<1> QED BY <1>5, <1>7, <1>8, <1>9, <1>10 DEF TableInv

\* A rehash starts with every entry waiting.
LEMMA PutNewTable ==
  ASSUME TableInv, NEW k \in Key, NEW v \in Node, PutNew(k, v)
  PROVE  TableInv'
<1>1. /\ pc = "idle" /\ v \notin owned /\ arg' = [key |-> k, node |-> v]
      /\ UNCHANGED <<hash, tableVars, entryVars, linkVars, walkVars>>
      /\ \/ pc' = "insert" /\ UNCHANGED <<new_tab, i, p>>
         \/ pc' = "rehash" /\ new_tab' = Empty(2 * tab_size) /\ i' = 0 /\ p' = tab[0]
  BY DEF PutNew
<1>2. \A e \in live : key[e] # k
  BY FoundAre DEF TableInv, ChainInv, PutNew
<1>3. Chained(live, tab, tab_size)
  BY <1>1 DEF TableInv, ChainInv
<1>4. 0 \in 0..(tab_size - 1) /\ 2 * tab_size \in Nat \ {0}
  BY DEF TableInv, TypeOK
<1>5. TypeOK'
  BY <1>1, <1>4 DEF TableInv, TypeOK, Empty, tableVars, entryVars, linkVars, walkVars
<1>6. EntryInv' /\ NodesOwned'
  BY <1>1 DEF TableInv, EntryInv, NodesOwned, tableVars, entryVars
<1>7. PutInv'
  BY <1>1, <1>2 DEF TableInv, PutInv, entryVars
<1>8. ChainInv' /\ Falling(live, next)'
  BY <1>1, <1>3 DEF TableInv, ChainInv, Chained, Slots, SlotOf, Slot, tableVars, entryVars, linkVars
<1>9. RehashInv'
  <2> SUFFICES ASSUME pc' = "rehash" PROVE RehashInv'
    BY DEF RehashInv
  <2>1. new_tab' = Empty(2 * tab_size) /\ i' = 0 /\ p' = tab[0]
    BY <1>1
  <2>2. new_tab' \in [0..(2 * tab_size - 1) -> Entry \cup {Null}]
    BY <1>4, <2>1 DEF Empty
  <2>3. Chained({}, new_tab, 2 * tab_size)'
    BY <2>1 DEF Chained, Linked, Empty
  <2>4. Linked(live, tab, next, prev, Slots(tab_size)) /\ DOMAIN tab = 0..(tab_size - 1)
    BY <1>3 DEF Chained, TableInv, TypeOK
  <2>5. \A e \in live : Slots(tab_size)[e] = SlotOf(e, tab_size)
                        /\ SlotOf(e, tab_size) \in 0..(tab_size - 1)
    BY SlotsType DEF TableInv, TypeOK
  <2>6. Null \notin live
    BY Typed DEF TableInv
  <2> DEFINE wait ==
        /\ \A e \in live : next[e] # Null =>
             next[e] \in live /\ prev[next[e]] = e
             /\ SlotOf(next[e], tab_size) = SlotOf(e, tab_size)
        /\ \A e \in live : IF prev[e] \in live THEN next[prev[e]] = e
             ELSE \/ e = tab[0]
                  \/ SlotOf(e, tab_size) > 0 /\ tab[SlotOf(e, tab_size)] = e
        /\ \A e \in live : SlotOf(e, tab_size) >= 0
        /\ tab[0] # Null => tab[0] \in live /\ prev[tab[0]] \notin live
                            /\ SlotOf(tab[0], tab_size) = 0
        /\ \A j \in 1..(tab_size - 1) : tab[j] # Null =>
             tab[j] \in live /\ prev[tab[j]] = Null /\ SlotOf(tab[j], tab_size) = j
  <2>7. wait
    BY <1>4, <2>4, <2>5, <2>6 DEF Linked
  <2>8. Waiting(live)'
    BY <1>1, <2>1, <2>7 DEF Waiting, SlotOf, Slot, tableVars, entryVars, linkVars
  <2>9. {} \in SUBSET live' /\ live' \ {} = live'
    OBVIOUS
  <2>10. Waiting(live \ {})'
    BY <2>8, <2>9
  <2>11. i' \in 0..(tab_size' - 1) /\ tab_size' = tab_size
    BY <1>1, <1>4, <2>1 DEF tableVars
  <2> QED BY <2>2, <2>3, <2>10, <2>11 DEF RehashInv
<1> QED BY <1>5, <1>6, <1>7, <1>8, <1>9 DEF TableInv

\* One entry moves from the front of what waits to the front of its new chain.
LEMMA RehashEntryTable ==
  ASSUME TableInv, RehashEntry
  PROVE  TableInv'
<1>1. PICK q, size, j : q = p /\ size = 2 * tab_size /\ j = NewSlot(p)
  OBVIOUS
<1>2. /\ pc = "rehash" /\ p = q /\ q # Null /\ p' = next[q]
      /\ new_tab' = [new_tab EXCEPT ![j] = q]
      /\ UNCHANGED <<hash, tab, tab_size, nelem, live, key, value, owned, arg, i, walkVars, pc>>
  BY <1>1 DEF RehashEntry, tableVars, entryVars
<1>3. PICK moved \in SUBSET live : Chained(moved, new_tab, size) /\ Waiting(live \ moved)
  BY <1>1, <1>2 DEF TableInv, RehashInv
<1>4. PICK W, V : W = live \ moved /\ V = W \ {q}
  OBVIOUS
<1>5. /\ new_tab \in [0..(size - 1) -> Entry \cup {Null}] /\ i \in 0..(tab_size - 1)
      /\ size \in Nat \ {0}
  BY <1>1, <1>2 DEF TableInv, RehashInv, TypeOK
<1>6. q \in W /\ prev[q] \notin W /\ SlotOf(q, tab_size) = i /\ q \in Entry
  BY <1>4, <1>2, <1>3 DEF Waiting, TableInv, TypeOK
<1>7. next \in Links /\ prev \in Links /\ Null \notin live /\ live \subseteq Entry
  BY Typed DEF TableInv
<1>8. \A e \in live : Slots(size)[e] = SlotOf(e, size) /\ SlotOf(e, size) \in 0..(size - 1)
  BY <1>5, SlotsType DEF TableInv
<1>9. j \in DOMAIN new_tab /\ Slots(size)[q] = j
  BY <1>1, <1>4, <1>5, <1>6, <1>8 DEF NewSlot, SlotOf
<1>10. /\ next' = [next EXCEPT ![q] = new_tab[j]]
      /\ prev' = [f \in Entry |-> IF f = q THEN Null ELSE IF f = new_tab[j] THEN q ELSE prev[f]]
  BY <1>1 DEF RehashEntry, LinkFirst
<1>11. Linked(moved, new_tab, next, prev, Slots(size))
  BY <1>3 DEF Chained
<1>12. Slots(size)' = Slots(size)
  BY <1>2 DEF Slots, SlotOf, Slot
<1>13. Linked(moved \cup {q}, new_tab', next', prev', Slots(size)')
  <2>1. moved \in SUBSET Entry /\ q \in Entry \ moved
    BY <1>4, <1>6, <1>7
  <2>2. /\ next'[q] = new_tab[j] /\ \A f \in moved : next'[f] = next[f]
        /\ prev'[q] = Null /\ \A f \in moved : prev'[f] = IF f = new_tab[j] THEN q ELSE prev[f]
        /\ DOMAIN new_tab' = DOMAIN new_tab /\ new_tab'[j] = q
        /\ \A h \in DOMAIN new_tab : h # j => new_tab'[h] = new_tab[h]
    BY <1>2, <1>7, <1>9, <1>10, <2>1 DEF Links
  <2>3. \A f \in moved : Slots(size)[f] \in DOMAIN new_tab
    BY <1>5, <1>8
  <2> DEFINE slot == Slots(size)
  <2> HIDE DEF slot
  <2>4. Linked(moved \cup {q}, new_tab', next', prev', slot)
    BY <1>9, <1>11, <2>1, <2>2, <2>3, LinkedFirst DEF slot
  <2> QED BY <1>12, <2>4 DEF slot
<1>14. new_tab[j] # Null => new_tab[j] \in moved
  BY <1>9, <1>11 DEF Linked
<1>15. Chained(moved \cup {q}, new_tab, size)'
  BY <1>13 DEF Chained
<1>16. /\ next' \in Links /\ prev' \in Links
       /\ \A e \in V : next'[e] = next[e] /\ prev'[e] = prev[e]
  BY <1>4, <1>6, <1>7, <1>10, <1>14 DEF Links
<1>17. Waiting(V)'
  <2> DEFINE bucket(e) == SlotOf(e, tab_size)
  <2>2. \A e \in W : next[e] # Null =>
          next[e] \in W /\ prev[next[e]] = e /\ bucket(next[e]) = bucket(e)
    BY <1>4, <1>3 DEF Waiting
  <2>3. \A e \in W : IF prev[e] \in W THEN next[prev[e]] = e
                     ELSE e = p \/ (bucket(e) > i /\ tab[bucket(e)] = e)
    BY <1>4, <1>3 DEF Waiting
  <2>4. \A e \in W : bucket(e) >= i
    BY <1>4, <1>3 DEF Waiting
  <2>5. \A h \in (i + 1)..(tab_size - 1) : tab[h] # Null =>
          tab[h] \in W /\ prev[tab[h]] = Null /\ bucket(tab[h]) = h
    BY <1>4, <1>3 DEF Waiting
  <2> HIDE DEF bucket
  <2>6. \A e \in V : next[e] # q
    BY <1>4, <1>2, <1>6, <2>2
  <2>7. \A e \in V : next'[e] # Null =>
          next'[e] \in V /\ prev'[next'[e]] = e /\ bucket(next'[e]) = bucket(e)
    BY <1>4, <1>16, <2>2, <2>6
  <2>8. ASSUME NEW e \in V
        PROVE  IF prev'[e] \in V THEN next'[prev'[e]] = e
               ELSE \/ e = p'
                    \/ bucket(e) > i /\ tab[bucket(e)] = e
    BY <1>4, <1>2, <1>16, <2>3
  <2>9. p' # Null => p' \in V /\ prev'[p'] \notin V /\ bucket(p') = i
    <3> SUFFICES ASSUME next[q] # Null PROVE next[q] \in V /\ prev'[next[q]] \notin V /\ bucket(next[q]) = i
      BY <1>2
    <3>1. next[q] \in W /\ prev[next[q]] = q /\ bucket(next[q]) = i
      BY <1>6, <2>2 DEF bucket
    <3>2. next[q] # q
      BY <1>6, <3>1
    <3> QED BY <1>4, <1>16, <3>1, <3>2
  <2>10. \A h \in (i + 1)..(tab_size - 1) : tab[h] # Null =>
          tab[h] \in V /\ prev'[tab[h]] = Null /\ bucket(tab[h]) = h
    <3> TAKE h \in (i + 1)..(tab_size - 1)
    <3> HAVE tab[h] # Null
    <3>1. tab[h] \in W /\ prev[tab[h]] = Null /\ bucket(tab[h]) = h
      BY <2>5
    <3>2. bucket(q) = i /\ i \in Int /\ h # i
      BY <1>5, <1>6 DEF bucket
    <3> QED BY <1>4, <1>16, <3>1, <3>2
  <2>11. \A e \in V : bucket(e) >= i
    BY <1>4, <2>4
  <2> QED BY <1>2, <2>7, <2>8, <2>9, <2>10, <2>11 DEF Waiting, SlotOf, Slot, bucket
<1>18. RehashInv'
  <2>1. new_tab' \in [0..(size - 1) -> Entry \cup {Null}]
    BY <1>2, <1>5, <1>6
  <2>2. moved \cup {q} \in SUBSET live' /\ live' \ (moved \cup {q}) = V
    BY <1>4, <1>2, <1>6
  <2>3. size = 2 * tab_size' /\ i' \in 0..(tab_size' - 1)
    BY <1>1, <1>2, <1>5
  <2>4. Waiting(live \ (moved \cup {q}))'
    BY <1>17, <2>2
  <2>5. Chained(moved \cup {q}, new_tab, 2 * tab_size)'
    BY <1>15, <2>3
  <2> QED BY <2>1, <2>2, <2>3, <2>4, <2>5 DEF RehashInv
<1>19. Falling(live, next)'
  <2>1. \A f \in live \ {q} : next[f] # q
    <3> TAKE f \in live \ {q}
    <3>1. CASE f \in moved
      BY <1>4, <1>6, <1>7, <1>11, <3>1 DEF Linked
    <3>2. CASE f \notin moved
      BY <1>4, <1>2, <1>3, <1>6, <3>2 DEF Waiting
    <3> QED BY <3>1, <3>2
  <2>2. new_tab[j] = Null \/ new_tab[j] \in live
    BY <1>14
  <2>3. new_tab[j] # q
    BY <1>4, <1>2, <1>6, <1>14
  <2>4. Falling(live \cup {q}, next')
    BY <1>6, <1>7, <1>10, <2>1, <2>2, <2>3, FallingFirst DEF TableInv
  <2>5. live \cup {q} = live /\ live' = live
    BY <1>4, <1>2, <1>6
  <2> QED BY <2>4, <2>5
<1>20. TypeOK'
  <2>1. p' \in Entry \cup {Null}
    BY <1>2, <1>6, <1>7 DEF Links
  <2>2. new_tab' \in [0..(2 * tab_size' - 1) -> Entry \cup {Null}]
    BY <1>1, <1>2, <1>5, <1>6
  <2> QED BY <1>2, <1>16, <2>1, <2>2 DEF TableInv, TypeOK, Links, walkVars
<1>21. EntryInv' /\ NodesOwned' /\ PutInv' /\ ChainInv'
  BY <1>2 DEF TableInv, EntryInv, NodesOwned, PutInv, ChainInv
<1> QED BY <1>18, <1>19, <1>20, <1>21 DEF TableInv

\* When a chain has been moved to its end, nothing of its bucket waits.
LEMMA BucketDone ==
  ASSUME TypeOK, EntryInv, Falling(live, next), NEW W \in SUBSET live, Waiting(W), p = Null
  PROVE  \A e \in W : SlotOf(e, tab_size) > i
<1>1. PICK n \in Nat : \E order \in [Entry -> 0..n] :
        \A e \in live : next[e] # Null => order[next[e]] < order[e]
  BY DEF Falling
<1>2. PICK order \in [Entry -> 0..n] : \A e \in live : next[e] # Null => order[next[e]] < order[e]
  BY <1>1
<1> DEFINE left == {e \in W : ~(SlotOf(e, tab_size) > i)}
           N == {n - order[e] : e \in left}
<1> SUFFICES ASSUME left # {} PROVE FALSE
  OBVIOUS
<1>3. live \subseteq Entry /\ Null \notin live
  BY Typed
<1>4. N \in SUBSET Nat /\ N # {}
  BY <1>2, <1>3
<1> HIDE DEF N
<1>5. PICK least \in N : \A d \in N : least <= d
  BY <1>4, LeastElement
<1>6. PICK e \in left : least = n - order[e]
  BY <1>5 DEF N
<1>7. prev[e] \in W /\ next[prev[e]] = e
  BY <1>3, <1>6 DEF Waiting
<1>8. SlotOf(prev[e], tab_size) = SlotOf(e, tab_size)
  BY <1>3, <1>6, <1>7 DEF Waiting
<1>9. n - order[prev[e]] \in N
  BY <1>6, <1>7, <1>8 DEF N
<1>10. order[e] < order[prev[e]] /\ order[e] \in Int /\ order[prev[e]] \in Int
  BY <1>2, <1>3, <1>6, <1>7
<1> QED BY <1>5, <1>6, <1>9, <1>10

\* The next chain of the old table is taken up.
LEMMA RehashBucketTable ==
  ASSUME TableInv, RehashBucket
  PROVE  TableInv'
<1>1. /\ pc = "rehash" /\ p = Null /\ i + 1 < tab_size /\ i' = i + 1 /\ p' = tab[i + 1]
      /\ UNCHANGED <<hash, tableVars, entryVars, linkVars, arg, new_tab, walkVars, pc>>
  BY DEF RehashBucket
<1>2. PICK moved \in SUBSET live : Chained(moved, new_tab, 2 * tab_size) /\ Waiting(live \ moved)
  BY <1>1 DEF TableInv, RehashInv
<1>3. i \in Nat /\ tab_size \in Nat /\ i + 1 \in 0..(tab_size - 1)
  BY <1>1 DEF TableInv, TypeOK
<1>4. PICK W \in SUBSET live : W = live \ moved
  OBVIOUS
<1>5. \A e \in W : SlotOf(e, tab_size) > i
  BY <1>1, <1>2, <1>4, BucketDone DEF TableInv
<1>6. \A e \in W : SlotOf(e, tab_size) \in 0..(tab_size - 1)
  BY SlotsType DEF TableInv, TypeOK
<1>7. Null \notin live
  BY Typed DEF TableInv
<1>8. Waiting(W)'
  <2> DEFINE bucket(e) == SlotOf(e, tab_size)
  <2>1. \A e \in W : next[e] # Null =>
          next[e] \in W /\ prev[next[e]] = e /\ bucket(next[e]) = bucket(e)
    BY <1>2, <1>4 DEF Waiting
  <2>2. \A e \in W : IF prev[e] \in W THEN next[prev[e]] = e
                     ELSE \/ e = p'
                          \/ bucket(e) > i' /\ tab[bucket(e)] = e
    <3>1. \A e \in W : prev[e] \in W => next[prev[e]] = e
      BY <1>2, <1>4 DEF Waiting
    <3>2. \A e \in W : prev[e] \notin W => tab[bucket(e)] = e
      BY <1>1, <1>2, <1>4, <1>7 DEF Waiting
    <3> HIDE DEF bucket
    <3>3. \A e \in W : bucket(e) = i' \/ bucket(e) > i'
      BY <1>1, <1>3, <1>5, <1>6 DEF bucket
    <3> QED BY <1>1, <3>1, <3>2, <3>3
  <2>3. \A e \in W : bucket(e) >= i'
    BY <1>1, <1>3, <1>5, <1>6
  <2>4. \A h \in (i + 1)..(tab_size - 1) : tab[h] # Null =>
          tab[h] \in W /\ prev[tab[h]] = Null /\ bucket(tab[h]) = h
    BY <1>2, <1>4 DEF Waiting
  <2>5. p' # Null => p' \in W /\ prev[p'] \notin W /\ bucket(p') = i'
    BY <1>1, <1>3, <1>7, <2>4
  <2>6. \A h \in (i' + 1)..(tab_size - 1) : tab[h] # Null =>
          tab[h] \in W /\ prev[tab[h]] = Null /\ bucket(tab[h]) = h
    BY <1>1, <1>3, <2>4
  <2> QED BY <1>1, <2>1, <2>2, <2>3, <2>5, <2>6
          DEF Waiting, SlotOf, Slot, bucket, tableVars, entryVars, linkVars
<1>9. Chained(moved, new_tab, 2 * tab_size)'
  BY <1>1, <1>2 DEF Chained, Slots, SlotOf, Slot, tableVars, entryVars, linkVars
<1>10. RehashInv'
  <2>1. new_tab' \in [0..(2 * tab_size' - 1) -> Entry \cup {Null}] /\ i' \in 0..(tab_size' - 1)
    BY <1>1, <1>3 DEF TableInv, RehashInv, tableVars
  <2>2. moved \in SUBSET live' /\ live' \ moved = W
    BY <1>1, <1>4 DEF entryVars
  <2>3. Waiting(live \ moved)'
    BY <1>8, <2>2
  <2> QED BY <1>9, <2>1, <2>2, <2>3 DEF RehashInv
<1>11. TypeOK'
  BY <1>1, <1>3 DEF TableInv, TypeOK, tableVars, entryVars, linkVars, walkVars
<1>12. EntryInv' /\ NodesOwned' /\ PutInv' /\ ChainInv' /\ Falling(live, next)'
  BY <1>1 DEF TableInv, EntryInv, NodesOwned, PutInv, ChainInv, tableVars, entryVars, linkVars
<1> QED BY <1>10, <1>11, <1>12 DEF TableInv

\* After the last bucket every entry has moved.
LEMMA RehashDoneTable ==
  ASSUME TableInv, RehashDone
  PROVE  TableInv'
<1>1. /\ pc = "rehash" /\ p = Null /\ i + 1 = tab_size
      /\ tab' = new_tab /\ tab_size' = 2 * tab_size /\ new_tab' = NoTable /\ pc' = "insert"
      /\ UNCHANGED <<hash, nelem, entryVars, linkVars, arg, i, p, walkVars>>
  BY DEF RehashDone
<1>2. PICK moved \in SUBSET live : Chained(moved, new_tab, 2 * tab_size) /\ Waiting(live \ moved)
  BY <1>1 DEF TableInv, RehashInv
<1>3. live \ moved = {}
  <2>1. PICK W \in SUBSET live : W = live \ moved
    OBVIOUS
  <2>2. \A e \in W : SlotOf(e, tab_size) > i
    BY <1>1, <1>2, <2>1, BucketDone DEF TableInv
  <2>3. \A e \in W : SlotOf(e, tab_size) \in 0..(tab_size - 1)
    BY SlotsType DEF TableInv, TypeOK
  <2>4. i \in Int /\ tab_size \in Int
    BY DEF TableInv, TypeOK
  <2> QED BY <1>1, <2>1, <2>2, <2>3, <2>4
<1>4. Chained(live, new_tab, 2 * tab_size)
  <2>1. moved = live
    BY <1>3
  <2> QED BY <1>2, <2>1
<1>5. Chained(live, tab, tab_size)'
  BY <1>1, <1>4 DEF Chained, Slots, SlotOf, Slot, entryVars, linkVars
<1>6. TypeOK'
  BY <1>1 DEF TableInv, TypeOK, RehashInv, entryVars, linkVars, walkVars
<1>7. EntryInv' /\ NodesOwned' /\ PutInv' /\ Falling(live, next)'
  BY <1>1 DEF TableInv, EntryInv, NodesOwned, PutInv, entryVars, linkVars
<1> QED BY <1>1, <1>5, <1>6, <1>7 DEF TableInv, ChainInv, RehashInv

\* A new entry gets in front of the chain of its bucket.
LEMMA InsertTable ==
  ASSUME TableInv, NEW e \in Entry, Insert(e)
  PROVE  TableInv'
<1>1. PICK j : j = Slot(arg.key, tab_size)
  OBVIOUS
<1>2. /\ pc = "insert" /\ e \notin live
      /\ next' = [next EXCEPT ![e] = tab[j]]
      /\ prev' = [f \in Entry |-> IF f = e THEN Null ELSE IF f = tab[j] THEN e ELSE prev[f]]
      /\ tab' = [tab EXCEPT ![j] = e]
      /\ live' = live \cup {e} /\ key' = [key EXCEPT ![e] = arg.key]
      /\ value' = [value EXCEPT ![e] = arg.node] /\ owned' = owned \cup {arg.node}
      /\ nelem' = nelem + 1 /\ arg' = NoArg /\ pc' = "idle"
      /\ UNCHANGED <<hash, tab_size, new_tab, i, p, walkVars>>
  BY <1>1 DEF Insert, LinkFirst
<1>3. /\ arg.key \in Key /\ arg.node \in Node \ owned /\ \A f \in live : key[f] # arg.key
      /\ new_tab = NoTable
  BY <1>2 DEF TableInv, PutInv
<1>4. j \in 0..(tab_size - 1) /\ DOMAIN tab = 0..(tab_size - 1)
  BY <1>1, <1>3, SlotType DEF TableInv, TypeOK
<1>5. next \in Links /\ prev \in Links /\ Null \notin live /\ live \subseteq Entry
  BY Typed DEF TableInv
<1>6. Linked(live, tab, next, prev, Slots(tab_size))
  BY <1>2 DEF TableInv, ChainInv, Chained
<1>7. tab[j] # Null => tab[j] \in live
  BY <1>4, <1>6 DEF Linked
<1>8. key'[e] = arg.key /\ value'[e] = arg.node
      /\ \A f \in live : key'[f] = key[f] /\ value'[f] = value[f]
  BY <1>2, <1>5 DEF TableInv, TypeOK
<1>9. ChainInv'
  <2>1. /\ next'[e] = tab[j] /\ \A f \in live : next'[f] = next[f]
        /\ prev'[e] = Null /\ \A f \in live : prev'[f] = IF f = tab[j] THEN e ELSE prev[f]
        /\ DOMAIN tab' = DOMAIN tab /\ tab'[j] = e
        /\ \A h \in DOMAIN tab : h # j => tab'[h] = tab[h]
    BY <1>2, <1>4, <1>5 DEF Links
  <2>2. PICK slot, slot2 : slot = Slots(tab_size) /\ slot2 = Slots(tab_size)'
    OBVIOUS
  <2>3. \A f \in live : slot[f] \in DOMAIN tab
    BY <1>4, <2>2, SlotsType DEF TableInv, TypeOK
  <2>4. slot2[e] = j /\ \A f \in live : slot2[f] = slot[f]
    BY <1>1, <1>2, <1>8, <2>2 DEF Slots, SlotOf, Slot
  <2>5. Linked(live, tab, next, prev, slot)
    BY <1>6, <2>2
  <2>6. Linked(live \cup {e}, tab', next', prev', slot2)
    <3>1. live \in SUBSET Entry /\ e \in Entry \ live /\ j \in DOMAIN tab
      BY <1>2, <1>4, <1>5
    <3> QED BY <2>1, <2>3, <2>4, <2>5, <3>1, LinkedFirst
  <2> QED BY <1>2, <2>2, <2>6 DEF ChainInv, Chained
<1>10. Falling(live, next)'
  <2>1. \A f \in live \ {e} : next[f] # e
    BY <1>2, <1>5, <1>6, NullAssumption DEF Linked
  <2>2. tab[j] = Null \/ tab[j] \in live
    BY <1>7
  <2>3. tab[j] # e
    BY <1>2, <1>7, NullAssumption
  <2>4. Falling(live \cup {e}, next')
    BY <1>2, <1>5, <2>1, <2>2, <2>3, FallingFirst DEF TableInv
  <2> QED BY <1>2, <2>4
<1>11. TypeOK'
  BY <1>2, <1>3, <1>4, <1>7 DEF TableInv, TypeOK, NoArg, walkVars
<1>12. EntryInv'
  <2>1. nelem = Cardinality(live)
    BY DEF TableInv, EntryInv
  <2>2. IsFiniteSet(live)
    BY <1>5, MemoryAssumption, FS_Subset
  <2>3. nelem' = Cardinality(live')
    BY <1>2, <2>1, <2>2, FS_AddElement
  <2> QED BY <1>2, <1>3, <1>8, <2>3 DEF TableInv, EntryInv
<1>13. NodesOwned'
  BY <1>2, <1>3, <1>8 DEF TableInv, NodesOwned
<1> QED BY <1>2, <1>3, <1>9, <1>10, <1>11, <1>12, <1>13 DEF TableInv, PutInv, RehashInv

\* A put that finds no memory leaves the table as it is, rehashed or not.
LEMMA InsertFailsTable ==
  ASSUME TableInv, InsertFails
  PROVE  TableInv'
<1>1. /\ pc = "insert" /\ arg' = NoArg /\ pc' = "idle"
      /\ UNCHANGED <<hash, tableVars, entryVars, linkVars, new_tab, i, p, walkVars>>
  BY DEF InsertFails
<1>2. TypeOK'
  BY <1>1 DEF TableInv, TypeOK, NoArg, tableVars, entryVars, linkVars, walkVars
<1>3. ChainInv'
  BY <1>1 DEF TableInv, ChainInv, Chained, Slots, SlotOf, Slot, tableVars, entryVars, linkVars
<1>4. EntryInv' /\ NodesOwned' /\ PutInv' /\ RehashInv' /\ Falling(live, next)'
  BY <1>1 DEF TableInv, EntryInv, NodesOwned, PutInv, RehashInv, tableVars, entryVars, linkVars
<1> QED BY <1>2, <1>3, <1>4 DEF TableInv

\* An entry leaves its chain, and its node is freed with it.
LEMMA RemoveTable ==
  ASSUME TableInv, NEW k \in Key, Remove(k)
  PROVE  TableInv'
<1>1. PICK e \in Found(k) :
        /\ next' = [NextWithout(e) EXCEPT ![e] = Null]
        /\ prev' = [PrevWithout(e) EXCEPT ![e] = Null]
        /\ tab' = IF prev[e] = Null THEN [tab EXCEPT ![SlotOf(e, tab_size)] = next[e]] ELSE tab
        /\ live' = live \ {e} /\ key' = [key EXCEPT ![e] = Null]
        /\ value' = [value EXCEPT ![e] = Null] /\ owned' = owned \ {value[e]}
  BY DEF Remove, SlotOf
<1>2. pc = "idle" /\ nelem' = nelem - 1 /\ UNCHANGED <<hash, tab_size, putVars, walkVars, pc>>
  BY DEF Remove, OneFewer
<1>3. e \in live
  BY <1>2, FoundAre DEF TableInv, ChainInv
<1>4. next \in Links /\ prev \in Links /\ Null \notin live /\ live \subseteq Entry
  BY Typed DEF TableInv
<1>5. PICK slot, slot2 : slot = Slots(tab_size) /\ slot2 = Slots(tab_size)'
  OBVIOUS
<1>6. Linked(live, tab, next, prev, slot)
  BY <1>2, <1>5 DEF TableInv, ChainInv, Chained
<1>7. DOMAIN tab = 0..(tab_size - 1) /\ \A f \in live : slot[f] \in DOMAIN tab
  BY <1>5, SlotsType DEF TableInv, TypeOK
<1>8. prev[e] # Null => prev[e] \in live /\ prev[e] # Null /\ next[prev[e]] = e
  BY <1>3, <1>6 DEF Linked
<1>9. next[e] # Null => next[e] \in live /\ prev[next[e]] = e
  BY <1>3, <1>6 DEF Linked
<1>10. /\ \A f \in live \ {e} : next'[f] = IF f = prev[e] THEN next[e] ELSE next[f]
       /\ next' \in Links
  BY <1>1, <1>3, <1>4, <1>8 DEF NextWithout, Links
<1>11. /\ \A f \in live \ {e} : prev'[f] = IF f = next[e] THEN prev[e] ELSE prev[f]
       /\ prev' \in Links
  BY <1>1, <1>3, <1>4, <1>9 DEF PrevWithout, Links
<1>12. slot[e] = SlotOf(e, tab_size)
  BY <1>3, <1>5 DEF Slots
<1>13. /\ DOMAIN tab' = DOMAIN tab
       /\ \A h \in DOMAIN tab : tab'[h] = IF prev[e] = Null /\ h = slot[e] THEN next[e] ELSE tab[h]
       /\ tab' \in [0..(tab_size - 1) -> Entry \cup {Null}]
  BY <1>1, <1>3, <1>4, <1>7, <1>9, <1>12 DEF TableInv, TypeOK
<1>14. /\ \A f \in live \ {e} : key'[f] = key[f] /\ value'[f] = value[f]
       /\ key' \in [Entry -> Key \cup {Null}] /\ value' \in [Entry -> Node \cup {Null}]
  BY <1>1, <1>3, <1>4 DEF TableInv, TypeOK
<1>15. ChainInv'
  <2>1. \A f \in live \ {e} : slot2[f] = slot[f]
    BY <1>1, <1>2, <1>5, <1>14 DEF Slots, SlotOf, Slot
  <2>2. live \in SUBSET Entry /\ next \in Links /\ prev \in Links
    BY <1>4
  <2>3. PICK t2, nx2, pv2 : t2 = tab' /\ nx2 = next' /\ pv2 = prev'
    OBVIOUS
  <2>4. /\ DOMAIN t2 = DOMAIN tab
        /\ \A h \in DOMAIN tab : t2[h] = IF prev[e] = Null /\ h = slot[e] THEN next[e] ELSE tab[h]
    BY <1>13, <2>3
  <2>5. /\ \A f \in live \ {e} : nx2[f] = IF f = prev[e] THEN next[e] ELSE next[f]
        /\ \A f \in live \ {e} : pv2[f] = IF f = next[e] THEN prev[e] ELSE prev[f]
    BY <1>10, <1>11, <2>3
  <2>6. \A f \in live : slot[f] \in DOMAIN tab
    BY <1>7
  <2>7. Linked(live \ {e}, t2, nx2, pv2, slot2)
    BY <1>3, <1>6, <2>1, <2>2, <2>4, <2>5, <2>6, LinkedWithout
  <2> QED BY <1>1, <1>2, <1>5, <2>3, <2>7 DEF ChainInv, Chained
<1>16. Falling(live, next)'
  <2>1. live \in SUBSET Entry /\ next \in Links /\ prev \in Links
    BY <1>4
  <2>2. Falling(live \ {e}, next')
    BY <1>3, <1>6, <1>10, <2>1, FallingWithout DEF TableInv
  <2> QED BY <1>1, <2>2
<1>17. EntryInv'
  <2>1. IsFiniteSet(live) /\ nelem = Cardinality(live)
    BY <1>4, MemoryAssumption, FS_Subset DEF TableInv, EntryInv
  <2>2. nelem' = Cardinality(live')
    BY <1>1, <1>2, <1>3, <2>1, FS_RemoveElement
  <2> QED BY <1>1, <1>14, <2>2 DEF TableInv, EntryInv
<1>18. TypeOK'
  <2>1. nelem' \in Nat
    <3>1. IsFiniteSet(live')
      BY <1>1, <1>4, MemoryAssumption, FS_Subset
    <3> QED BY <1>17, <3>1, FS_CardinalityType DEF EntryInv
  <2>2. live' \subseteq Entry /\ owned' \subseteq Node
    BY <1>1, <1>4 DEF TableInv, TypeOK
  <2> QED BY <1>2, <1>10, <1>11, <1>13, <1>14, <2>1, <2>2
          DEF TableInv, TypeOK, Links, putVars, walkVars
<1>19. NodesOwned'
  BY <1>1, <1>3, <1>14 DEF TableInv, NodesOwned
<1>20. PutInv' /\ RehashInv'
  BY <1>2 DEF TableInv, PutInv, RehashInv, putVars
<1> QED BY <1>15, <1>16, <1>17, <1>18, <1>19, <1>20 DEF TableInv

\* Cleaning or deleting the table frees every entry and every node.
LEMMA FreeAllTable ==
  ASSUME TableInv, NEW size \in Nat \ {0}, pc = "idle", FreeAll(size),
         UNCHANGED <<hash, putVars, walkVars, pc>>
  PROVE  TableInv' /\ live' = {}
<1>1. UNION {Chain(j) : j \in DOMAIN tab} = live
  BY FoundAre DEF TableInv, ChainInv
<1> DEFINE without(f) == [e \in Entry |-> IF e \in live THEN Null ELSE f[e]]
<1>2. /\ tab' = Empty(size) /\ tab_size' = size /\ nelem' = 0
      /\ key' = without(key) /\ value' = without(value)
      /\ next' = without(next) /\ prev' = without(prev)
  BY <1>1 DEF FreeAll
<1>3. live' = {} /\ owned' = {}
  <2>1. live' = live \ live /\ owned' = owned \ {value[e] : e \in live}
    BY <1>1 DEF FreeAll
  <2> QED BY <2>1 DEF TableInv, NodesOwned
<1>4. TypeOK'
  BY <1>2, <1>3 DEF TableInv, TypeOK, PutInv, Empty, putVars, walkVars
<1>5. EntryInv' /\ NodesOwned' /\ PutInv' /\ RehashInv'
  BY <1>2, <1>3, FS_EmptySet DEF TableInv, EntryInv, NodesOwned, PutInv, RehashInv, putVars
<1>6. ChainInv'
  BY <1>2, <1>3 DEF ChainInv, Chained, Linked, Empty
<1>7. Falling(live, next)'
  <2>1. [e \in Entry |-> 0] \in [Entry -> 0..0]
    OBVIOUS
  <2>2. Falling({}, next')
    BY <2>1 DEF Falling
  <2> QED BY <1>3, <2>2
<1> QED BY <1>3, <1>4, <1>5, <1>6, <1>7 DEF TableInv

\* A walk changes nothing in the table.
LEMMA WalkTable ==
  ASSUME TableInv, pc \in {"idle", "walk"}, pc' \in {"idle", "walk"},
         cursor' \in Entry \cup {Null}, visited' \subseteq Entry,
         UNCHANGED <<hash, tableVars, entryVars, linkVars, putVars>>
  PROVE  TableInv'
<1>1. UNCHANGED <<hash, tab, tab_size, nelem, live, key, value, owned, next, prev,
                  arg, new_tab, i, p>>
  BY DEF tableVars, entryVars, linkVars, putVars
<1>2. TypeOK'
  BY <1>1 DEF TableInv, TypeOK
<1>3. ChainInv'
  BY <1>1 DEF TableInv, ChainInv, Chained, Slots, SlotOf, Slot
<1>4. EntryInv' /\ NodesOwned' /\ PutInv' /\ RehashInv' /\ Falling(live, next)'
  BY <1>1 DEF TableInv, EntryInv, NodesOwned, PutInv, RehashInv
<1> QED BY <1>2, <1>3, <1>4 DEF TableInv

\* Every step keeps the table's invariant.
LEMMA NextTable ==
  ASSUME TableInv, [Next]_vars
  PROVE  TableInv'
<1>1. ASSUME NEW k \in Key, NEW v \in Node, PutReplace(k, v)
      PROVE  TableInv'
  BY <1>1, PutReplaceTable
<1>2. ASSUME NEW k \in Key, NEW v \in Node, PutNew(k, v)
      PROVE  TableInv'
  BY <1>2, PutNewTable
<1>3. CASE RehashEntry
  BY <1>3, RehashEntryTable
<1>4. CASE RehashBucket
  BY <1>4, RehashBucketTable
<1>5. CASE RehashDone
  BY <1>5, RehashDoneTable
<1>6. ASSUME NEW e \in Entry, Insert(e)
      PROVE  TableInv'
  BY <1>6, InsertTable
<1>7. CASE InsertFails
  BY <1>7, InsertFailsTable
<1>8. ASSUME NEW k \in Key, Remove(k)
      PROVE  TableInv'
  BY <1>8, RemoveTable
<1>9. CASE Clean
  <2>1. tab_size \in Nat \ {0} /\ pc = "idle" /\ FreeAll(tab_size)
        /\ UNCHANGED <<hash, putVars, walkVars, pc>>
    BY <1>9 DEF Clean, TableInv, TypeOK
  <2> QED BY <2>1, FreeAllTable
<1>10. CASE Renew
  <2>1. InitSize \in Nat \ {0} /\ pc = "idle" /\ FreeAll(InitSize)
        /\ UNCHANGED <<hash, putVars, walkVars, pc>>
    BY <1>10, SizeAssumption DEF Renew
  <2> QED BY <2>1, FreeAllTable
<1>11. ASSUME NEW e \in Entry, WalkBegin(e) \/ WalkNext(e)
       PROVE  TableInv'
  BY <1>11, WalkTable DEF WalkBegin, WalkNext, Visit, TableInv, TypeOK
<1>12. CASE WalkEnd
  BY <1>12, WalkTable DEF WalkEnd
<1>13. CASE UNCHANGED vars
  <2>1. UNCHANGED <<hash, tableVars, entryVars, linkVars, putVars, walkVars, pc>>
    BY <1>13 DEF vars
  <2>2. UNCHANGED <<hash, tab, tab_size, nelem, live, key, value, owned, next, prev,
                    arg, new_tab, i, p, pc, cursor, visited>>
    BY <2>1 DEF tableVars, entryVars, linkVars, putVars, walkVars
  <2>3. TypeOK'
    BY <2>2 DEF TableInv, TypeOK
  <2>4. ChainInv'
    BY <2>2 DEF TableInv, ChainInv, Chained, Slots, SlotOf, Slot
  <2>5. RehashInv'
    <3> SUFFICES ASSUME pc = "rehash"
                 PROVE  \E moved \in SUBSET live :
                          Chained(moved, new_tab, 2 * tab_size)' /\ Waiting(live \ moved)'
      BY <2>2 DEF TableInv, RehashInv
    <3>1. PICK moved \in SUBSET live :
            Chained(moved, new_tab, 2 * tab_size) /\ Waiting(live \ moved)
      BY DEF TableInv, RehashInv
    <3>2. Chained(moved, new_tab, 2 * tab_size)'
      BY <2>2, <3>1 DEF Chained, Slots, SlotOf, Slot
    <3>3. Waiting(live \ moved)'
      BY <2>2, <3>1 DEF Waiting, SlotOf, Slot
    <3> QED BY <3>2, <3>3
  <2>6. EntryInv' /\ NodesOwned' /\ PutInv' /\ Falling(live, next)'
    BY <2>2 DEF TableInv, EntryInv, NodesOwned, PutInv
  <2> QED BY <2>3, <2>4, <2>5, <2>6 DEF TableInv
<1> QED BY <1>1, <1>2, <1>3, <1>4, <1>5, <1>6, <1>7, <1>8, <1>9, <1>10, <1>11, <1>12, <1>13 DEF Next

-----------------------------------------------------------------------------
(***************************************************************************)
(* A walk over the table.                                                  *)
(***************************************************************************)
\* Entries with whatever comes before them include the head of a chain, and
\* not whatever comes after them: no chain is a circle.
LEMMA ChainEnds ==
  ASSUME TypeOK, Falling(live, next), Chained(live, tab, tab_size),
         NEW E \in SUBSET live, E # {}
  PROVE  /\ (\A e \in E : prev[e] # Null => prev[e] \in E) => \E e \in E : prev[e] = Null
         /\ \E e \in E : next[e] \notin E
<1>1. PICK n \in Nat : \E order \in [Entry -> 0..n] :
        \A e \in live : next[e] # Null => order[next[e]] < order[e]
  BY DEF Falling
<1>2. PICK order \in [Entry -> 0..n] :
        \A e \in live : next[e] # Null => order[next[e]] < order[e]
  BY <1>1
<1>3. live \subseteq Entry /\ Null \notin live
  BY NullAssumption DEF TypeOK
<1>4. ASSUME \A e \in E : prev[e] # Null => prev[e] \in E
      PROVE  \E e \in E : prev[e] = Null
  <2> DEFINE N == {n - order[e] : e \in E}
  <2>1. N \in SUBSET Nat /\ N # {}
    BY <1>2, <1>3
  <2> HIDE DEF N
  <2>2. PICK least \in N : \A d \in N : least <= d
    BY <2>1, LeastElement
  <2>3. PICK e \in E : least = n - order[e]
    BY <2>2 DEF N
  <2>4. CASE prev[e] # Null
    <3>1. prev[e] \in E /\ next[prev[e]] = e
      BY <1>4, <2>4 DEF Chained, Linked
    <3>2. order[e] < order[prev[e]] /\ order[e] \in Int /\ order[prev[e]] \in Int
      BY <1>2, <1>3, <3>1
    <3>3. n - order[prev[e]] \in N
      BY <3>1 DEF N
    <3> QED BY <2>2, <2>3, <3>2, <3>3
  <2> QED BY <2>4
<1>5. \E e \in E : next[e] \notin E
  <2> DEFINE N == {order[e] : e \in E}
  <2>1. N \in SUBSET Nat /\ N # {}
    BY <1>2, <1>3
  <2> HIDE DEF N
  <2>2. PICK least \in N : \A d \in N : least <= d
    BY <2>1, LeastElement
  <2>3. PICK e \in E : least = order[e]
    BY <2>2 DEF N
  <2>4. CASE next[e] \in E
    <3>1. order[next[e]] < order[e] /\ order[e] \in Int /\ order[next[e]] \in Int
      BY <1>2, <1>3, <2>4
    <3>2. order[next[e]] \in N
      BY <2>4 DEF N
    <3> QED BY <2>2, <2>3, <3>1, <3>2
  <2> QED BY <2>4
<1> QED BY <1>4, <1>5

\* The entry before another is in the same bucket.
LEMMA Before ==
  ASSUME TypeOK, Chained(live, tab, tab_size), NEW e \in live, prev[e] # Null
  PROVE  /\ prev[e] \in live /\ next[prev[e]] = e
         /\ SlotOf(prev[e], tab_size) = SlotOf(e, tab_size)
<1>1. Linked(live, tab, next, prev, Slots(tab_size))
  BY DEF Chained
<1>2. e # Null
  BY NullAssumption DEF TypeOK
<1>3. prev[e] \in live /\ next[prev[e]] = e
  BY <1>1 DEF Linked
<1>4. Slots(tab_size)[e] = Slots(tab_size)[prev[e]]
  BY <1>1, <1>2, <1>3 DEF Linked
<1> QED BY <1>3, <1>4 DEF Slots

\* A bucket without a head has no entries.
LEMMA EmptyBucket ==
  ASSUME TypeOK, Falling(live, next), Chained(live, tab, tab_size),
         NEW j, tab[j] = Null, NEW e \in live
  PROVE  SlotOf(e, tab_size) # j
<1> SUFFICES ASSUME SlotOf(e, tab_size) = j PROVE FALSE
  OBVIOUS
<1> DEFINE B == {f \in live : SlotOf(f, tab_size) = j}
<1>1. Linked(live, tab, next, prev, Slots(tab_size))
  BY DEF Chained
<1>2. live \subseteq Entry /\ Null \notin live
  BY NullAssumption DEF TypeOK
<1>3. B \in SUBSET live /\ B # {}
  OBVIOUS
<1>4. \A f \in B : prev[f] # Null => prev[f] \in B
  BY Before
<1> HIDE DEF B
<1>5. PICK f \in B : prev[f] = Null
  BY <1>3, <1>4, ChainEnds
<1>6. tab[j] = f /\ f \in live
  BY <1>1, <1>5 DEF Linked, Slots, B
<1> QED BY <1>2, <1>6

\* At the end of its chain a walk has been to the whole bucket, and before that
\* the next entry is new to it.
LEMMA WalkedBucket ==
  ASSUME TypeOK, Falling(live, next), Chained(live, tab, tab_size), EntryInv,
         NEW c, NEW V, Walked(c, V)
  PROVE  /\ next[c] = Null =>
              \A e \in live : SlotOf(e, tab_size) <= SlotOf(c, tab_size) => e \in V
         /\ next[c] # Null =>
              next[c] \in live \ V /\ SlotOf(next[c], tab_size) = SlotOf(c, tab_size)
<1> DEFINE j == SlotOf(c, tab_size)
           Of(E) == {f \in E : SlotOf(f, tab_size) = j}
<1>1. Linked(live, tab, next, prev, Slots(tab_size))
  BY DEF Chained
<1>2. live \subseteq Entry /\ Null \notin live
  BY NullAssumption DEF TypeOK
<1>3. c \in V /\ V \subseteq live
  BY DEF Walked
<1>4. \A f \in live : SlotOf(f, tab_size) \in Int
  BY SlotType DEF EntryInv, SlotOf, TypeOK
<1>5. \A f \in live : prev[f] # Null => prev[f] \in live /\ next[prev[f]] = f
                                        /\ SlotOf(prev[f], tab_size) = SlotOf(f, tab_size)
  BY Before
<1>6. ASSUME next[c] = Null, NEW e \in live, SlotOf(e, tab_size) <= j, e \notin V
      PROVE  FALSE
  <2>1. SlotOf(e, tab_size) = j
    BY <1>3, <1>4, <1>6 DEF Walked
  <2>2. Of(live \ V) \in SUBSET live /\ Of(live \ V) # {}
    BY <1>6, <2>1
  <2>3. ASSUME NEW f \in Of(live \ V), prev[f] # Null
        PROVE  prev[f] \in Of(live \ V)
    <3>1. prev[f] \in live /\ next[prev[f]] = f /\ SlotOf(prev[f], tab_size) = j
      BY <1>5, <2>3
    <3>2. prev[f] \notin V
      BY <1>2, <1>6, <2>3, <3>1 DEF Walked
    <3> QED BY <3>1, <3>2
  <2>4. Of(V) \in SUBSET live /\ Of(V) # {}
    BY <1>3
  <2>5. \A f \in Of(V) : prev[f] # Null => prev[f] \in Of(V)
    BY <1>3, <1>5 DEF Walked
  <2> HIDE DEF Of
  <2>6. PICK f \in Of(live \ V) : prev[f] = Null
    BY <2>2, <2>3, ChainEnds
  <2>7. PICK g \in Of(V) : prev[g] = Null
    BY <2>4, <2>5, ChainEnds
  <2>8. f \in live \ V /\ g \in V /\ SlotOf(f, tab_size) = j /\ SlotOf(g, tab_size) = j
    BY DEF Of
  <2>9. tab[j] = f /\ tab[j] = g
    BY <1>1, <1>3, <2>6, <2>7, <2>8 DEF Linked, Slots
  <2> QED BY <2>8, <2>9
<1>7. next[c] # Null => next[c] \in live /\ SlotOf(next[c], tab_size) = j
  BY <1>1, <1>3 DEF Linked, Slots
<1>8. ASSUME next[c] # Null, next[c] \in V
      PROVE  FALSE
  <2>1. Of(V) \in SUBSET live /\ Of(V) # {}
    BY <1>3
  <2>2. ASSUME NEW f \in Of(V)
        PROVE  next[f] \in Of(V)
    <3>1. CASE f = c
      BY <1>7, <1>8, <3>1
    <3>2. CASE f # c
      <4>1. next[f] # Null /\ next[f] \in V
        BY <3>2 DEF Walked
      <4>2. SlotOf(next[f], tab_size) = j
        BY <1>1, <1>3, <4>1 DEF Linked, Slots
      <4> QED BY <4>1, <4>2
    <3> QED BY <3>1, <3>2
  <2> HIDE DEF Of
  <2> QED BY <2>1, <2>2, ChainEnds
<1> QED BY <1>6, <1>7, <1>8

\* The chain a walk goes on with is the next that has any entry.
LEMMA NextBucket ==
  ASSUME TypeOK, EntryInv, Falling(live, next), Chained(live, tab, tab_size),
         NEW m \in Nat, NEW e, Heads(m, e)
  PROVE  /\ e \in live /\ prev[e] = Null /\ SlotOf(e, tab_size) >= m
         /\ \A f \in live : SlotOf(f, tab_size) < SlotOf(e, tab_size) => SlotOf(f, tab_size) < m
<1>1. PICK j \in m..(tab_size - 1) : tab[j] = e /\ e # Null /\ \A h \in m..(j - 1) : tab[h] = Null
  BY DEF Heads
<1>2. j \in 0..(tab_size - 1) /\ DOMAIN tab = 0..(tab_size - 1)
  BY <1>1 DEF TypeOK
<1>3. e \in live /\ prev[e] = Null /\ SlotOf(e, tab_size) = j
  BY <1>1, <1>2 DEF Chained, Linked, Slots
<1>4. \A f \in live : SlotOf(f, tab_size) \in Nat /\ SlotOf(f, tab_size) \notin m..(j - 1)
  <2> TAKE f \in live
  <2>1. SlotOf(f, tab_size) \in Nat
    BY SlotType DEF EntryInv, SlotOf, TypeOK
  <2>2. tab[SlotOf(f, tab_size)] # Null
    BY EmptyBucket
  <2> QED BY <1>1, <2>1, <2>2
<1> QED BY <1>1, <1>3, <1>4

\* A walk that finds no further chain has been to every entry.
LEMMA NoBucket ==
  ASSUME TypeOK, EntryInv, Falling(live, next), Chained(live, tab, tab_size),
         NEW m \in Nat, \A e \in Entry : ~Heads(m, e), NEW f \in live
  PROVE  SlotOf(f, tab_size) < m
<1> DEFINE N == {j \in m..(tab_size - 1) : tab[j] # Null}
<1>1. SlotOf(f, tab_size) \in 0..(tab_size - 1)
  BY SlotType DEF EntryInv, SlotOf, TypeOK
<1>2. tab[SlotOf(f, tab_size)] # Null
  BY EmptyBucket
<1> SUFFICES ASSUME SlotOf(f, tab_size) >= m PROVE FALSE
  BY <1>1 DEF TypeOK
<1>3. SlotOf(f, tab_size) \in m..(tab_size - 1)
  BY <1>1 DEF TypeOK
<1>4. N \in SUBSET Nat /\ N # {}
  BY <1>2, <1>3 DEF TypeOK
<1>5. PICK j \in N : \A h \in N : j <= h
  <2> HIDE DEF N
  <2> QED BY <1>4, LeastElement
<1>6. j \in m..(tab_size - 1) /\ tab[j] # Null /\ \A h \in m..(j - 1) : tab[h] = Null
  BY <1>4, <1>5 DEF TypeOK
<1>7. tab[j] \in Entry
  BY <1>6 DEF TypeOK
<1>8. Heads(m, tab[j])
  BY <1>6 DEF Heads
<1> QED BY <1>7, <1>8

\* Where a walk stands after a step.
LEMMA WalkedOn ==
  ASSUME TypeOK, EntryInv, Falling(live, next), Chained(live, tab, tab_size),
         NEW c, NEW V, Walked(c, V), NEW e,
         \/ next[c] # Null /\ e = next[c]
         \/ next[c] = Null /\ Heads(Following(c), e)
  PROVE  Walked(e, V \cup {e}) /\ e \notin V
<1> DEFINE at(f) == SlotOf(f, tab_size)
           W == V \cup {e}
<1>1. c \in V /\ V \subseteq live
  BY DEF Walked
<1>2. \A f \in live : at(f) \in Nat
  BY SlotType DEF EntryInv, SlotOf, TypeOK
<1>3. Following(c) = at(c) + 1
  BY DEF Following, SlotOf
<1>4. \A f \in V : /\ at(f) <= at(c)
                   /\ prev[f] # Null => prev[f] \in V
                   /\ at(f) = at(c) /\ f # c => next[f] # Null /\ next[f] \in V
  BY DEF Walked
<1>5. \A f \in live : at(f) < at(c) => f \in V
  BY DEF Walked
<1>6. CASE next[c] # Null /\ e = next[c]
  <2>1. e \in live \ V /\ at(e) = at(c)
    BY <1>6, WalkedBucket
  <2>2. prev[e] = c
    BY <1>1, <1>6 DEF Chained, Linked
  <2> HIDE DEF at
  <2>3. /\ e \in W /\ W \subseteq live
        /\ \A f \in live : at(f) < at(e) => f \in W
        /\ \A f \in W : /\ at(f) <= at(e)
                        /\ prev[f] # Null => prev[f] \in W
                        /\ at(f) = at(e) /\ f # e => next[f] # Null /\ next[f] \in W
    BY <1>1, <1>2, <1>4, <1>5, <1>6, <2>1, <2>2
  <2> QED BY <2>1, <2>3 DEF Walked, at
<1>7. CASE next[c] = Null /\ Heads(Following(c), e)
  <2>1. \A f \in live : at(f) <= at(c) => f \in V
    BY <1>7, WalkedBucket
  <2>2. /\ e \in live /\ prev[e] = Null /\ at(e) >= at(c) + 1
        /\ \A f \in live : at(f) < at(e) => at(f) < at(c) + 1
    BY <1>1, <1>2, <1>3, <1>7, NextBucket
  <2> HIDE DEF at
  <2>3. e \notin V
    BY <1>1, <1>2, <1>4, <2>2
  <2>4. /\ e \in W /\ W \subseteq live
        /\ \A f \in live : at(f) < at(e) => f \in W
        /\ \A f \in W : /\ at(f) <= at(e)
                        /\ prev[f] # Null => prev[f] \in W
                        /\ at(f) = at(e) /\ f # e => next[f] # Null /\ next[f] \in W
    BY <1>1, <1>2, <1>4, <2>1, <2>2
  <2> QED BY <2>3, <2>4 DEF Walked, at
<1> QED BY <1>6, <1>7

\* A walk never comes back to an entry and ends when it has been to all.
WalkStep ==
  pc = "walk" => IF pc' = "walk" THEN cursor' \notin visited ELSE visited = live

\* Every step keeps the walk's invariant, and a step of a walk is what it promises.
LEMMA NextWalk ==
  ASSUME TableInv, WalkInv, [Next]_vars
  PROVE  WalkInv' /\ (vars' # vars => WalkStep)
<1>1. CASE pc = "walk" /\ UNCHANGED <<hash, tableVars, entryVars, linkVars>>
  <2>1. UNCHANGED <<hash, tab_size, live, key, next, prev>>
    BY <1>1 DEF tableVars, entryVars, linkVars
  <2>2. Walked(cursor, visited)
    BY <1>1 DEF WalkInv
  <2>3. /\ TypeOK /\ EntryInv /\ Falling(live, next) /\ Chained(live, tab, tab_size)
    BY <1>1 DEF TableInv, ChainInv
  <2>4. ASSUME pc' = "walk", Walked(cursor', visited')
        PROVE  WalkInv'
    BY <2>1, <2>4 DEF WalkInv, Walked, SlotOf, Slot
  <2>5. ASSUME NEW e \in Entry, WalkNext(e)
        PROVE  WalkInv' /\ WalkStep
    <3>1. Walked(e, visited \cup {e}) /\ e \notin visited
      BY <2>2, <2>3, <2>5, WalkedOn DEF WalkNext
    <3>2. cursor' = e /\ visited' = visited \cup {e} /\ pc' = "walk"
      BY <1>1, <2>5 DEF WalkNext, Visit
    <3>3. Walked(cursor', visited')
      BY <3>1, <3>2
    <3> QED BY <2>4, <3>1, <3>2, <3>3 DEF WalkStep
  <2>6. CASE WalkEnd
    <3>1. pc' = "idle" /\ visited' = {} /\ next[cursor] = Null
          /\ \A e \in Entry : ~Heads(Following(cursor), e)
      BY <2>6 DEF WalkEnd
    <3>2. Following(cursor) = SlotOf(cursor, tab_size) + 1
      BY DEF Following, SlotOf
    <3>3. \A f \in live : SlotOf(f, tab_size) \in Nat
      BY <2>3, SlotType DEF EntryInv, SlotOf, TypeOK
    <3>4. cursor \in live
      BY <2>2 DEF Walked
    <3>5. ASSUME NEW f \in live
          PROVE  f \in visited
      <4>1. SlotOf(f, tab_size) < SlotOf(cursor, tab_size) + 1
        BY <2>3, <3>1, <3>2, <3>3, <3>4, NoBucket
      <4>2. SlotOf(f, tab_size) <= SlotOf(cursor, tab_size)
        BY <3>3, <3>4, <4>1
      <4> QED BY <2>2, <2>3, <3>1, <4>2, WalkedBucket
    <3>6. visited = live
      BY <2>2, <3>5 DEF Walked
    <3> QED BY <3>1, <3>6 DEF WalkInv, WalkStep
  <2>7. CASE UNCHANGED vars
    <3>1. pc' = "walk" /\ cursor' = cursor /\ visited' = visited
      BY <1>1, <2>7 DEF vars, walkVars
    <3> QED BY <2>2, <2>4, <2>7, <3>1
  <2> QED BY <1>1, <2>5, <2>6, <2>7
          DEF Next, PutReplace, PutNew, RehashEntry, RehashBucket, RehashDone, Insert, InsertFails,
              Remove, Clean, Renew, WalkBegin
<1>2. CASE pc = "walk"
  <2>1. UNCHANGED <<hash, tableVars, entryVars, linkVars>>
    BY <1>2 DEF Next, vars, PutReplace, PutNew, RehashEntry, RehashBucket, RehashDone, Insert,
                InsertFails, Remove, Clean, Renew, WalkBegin, WalkNext, WalkEnd, Visit
  <2> QED BY <1>1, <1>2, <2>1
<1>3. CASE pc # "walk" /\ pc' # "walk"
  <2>1. UNCHANGED visited
    BY <1>3 DEF Next, vars, PutReplace, PutNew, RehashEntry, RehashBucket, RehashDone, Insert,
                InsertFails, Remove, Clean, Renew, WalkBegin, WalkNext, WalkEnd, walkVars
  <2> QED BY <1>3, <2>1 DEF WalkInv, WalkStep
<1>4. CASE pc # "walk" /\ pc' = "walk"
  <2>1. PICK e \in Entry : WalkBegin(e)
    BY <1>4 DEF Next, vars, PutReplace, PutNew, RehashEntry, RehashBucket, RehashDone, Insert,
                InsertFails, Remove, Clean, Renew, WalkNext, WalkEnd
  <2>2. /\ Heads(0, e) /\ cursor' = e /\ visited' = {e} /\ pc = "idle"
        /\ UNCHANGED <<hash, tab, tab_size, live, key, next, prev>>
    BY <1>4, <2>1 DEF WalkBegin, Visit, WalkInv, tableVars, entryVars, linkVars
  <2>3. /\ TypeOK /\ EntryInv /\ Falling(live, next) /\ Chained(live, tab, tab_size)
    BY <2>2 DEF TableInv, ChainInv
  <2>4. /\ e \in live /\ prev[e] = Null
        /\ \A f \in live : SlotOf(f, tab_size) < SlotOf(e, tab_size) => SlotOf(f, tab_size) < 0
    BY <2>2, <2>3, NextBucket
  <2>5. \A f \in live : SlotOf(f, tab_size) \in Nat
    BY <2>3, SlotType DEF EntryInv, SlotOf, TypeOK
  <2>6. Walked(e, {e})
    BY <2>4, <2>5 DEF Walked
  <2>7. Walked(e, {e})'
    BY <2>2, <2>6 DEF Walked, SlotOf, Slot
  <2> QED BY <1>4, <2>2, <2>7 DEF WalkInv, WalkStep
<1> QED BY <1>2, <1>3, <1>4

-----------------------------------------------------------------------------
(***************************************************************************)
(* What the table promises.                                                *)
(***************************************************************************)
\* The invariant holds: types, links, ownership, a rehash half done, a walk.
THEOREM Invariance == Spec => [](TableInv /\ WalkInv)
<1>1. Init => TableInv /\ WalkInv
  BY InitTable DEF Init, WalkInv
<1>2. TableInv /\ WalkInv /\ [Next]_vars => TableInv' /\ WalkInv'
  BY NextTable, NextWalk
<1> QED BY <1>1, <1>2, PTL DEF Spec

\* Every variable keeps its type, whatever the memory and the hash functions.
THEOREM TypeCorrect == Spec => []TypeOK
<1>1. TableInv => TypeOK
  BY DEF TableInv
<1> QED BY <1>1, Invariance, PTL

\* No node is freed twice or leaked: each belongs to exactly one entry or is
\* free (zc_hashtable_put, _remove and _clean).
THEOREM NodesAreOwned == Spec => []NodesOwned
<1>1. TableInv => NodesOwned
  BY DEF TableInv
<1> QED BY <1>1, Invariance, PTL

\* Between any two calls both directions of the links agree, after every rehash.
THEOREM LinksAgree == Spec => []WellLinked
<1>1. TableInv => WellLinked
  BY DEF TableInv, ChainInv, Chained, Linked, WellLinked, Slots, SlotOf
<1> QED BY <1>1, Invariance, PTL

\* Looking a key up ends at its one entry, after every rehash, replacement and
\* removal, and the count of the entries is right.
THEOREM LookupsFind == Spec => []LookupFinds
<1>1. ASSUME TableInv, pc # "rehash", NEW e \in live
      PROVE  Found(key[e]) = {e}
  <2>1. TypeOK /\ EntryInv /\ Falling(live, next) /\ Chained(live, tab, tab_size)
    BY <1>1 DEF TableInv, ChainInv
  <2>2. Found(key[e]) = {f \in live : key[f] = key[e]}
    BY <2>1, FoundAre DEF EntryInv
  <2> QED BY <2>1, <2>2 DEF EntryInv
<1>2. TableInv => LookupFinds
  BY <1>1 DEF LookupFinds, TableInv, EntryInv
<1> QED BY <1>2, Invariance, PTL

\* zc_hashtable_foreach visits every entry, and none twice.
THEOREM EachVisitedOnce == Spec => VisitsEachOnce
<1>1. TableInv /\ WalkInv /\ [Next]_vars => [WalkStep]_vars
  BY NextWalk
<1>2. Spec => [][WalkStep]_vars
  BY <1>1, Invariance, PTL DEF Spec
<1> QED BY <1>2, PTL DEF VisitsEachOnce, WalkStep

\* The nodes that the entries E hold, by key.
Nodes(E, ky, va) ==
  [k \in Key |-> IF \E e \in E : ky[e] = k THEN va[CHOOSE e \in E : ky[e] = k] ELSE Null]

\* With one entry per key, a key's node is that entry's.
LEMMA NodesAre ==
  ASSUME NEW E, NEW ky, NEW va, \A e, f \in E : ky[e] = ky[f] => e = f, NEW k \in Key
  PROVE  /\ \A e \in E : ky[e] = k => Nodes(E, ky, va)[k] = va[e]
         /\ (\A e \in E : ky[e] # k) => Nodes(E, ky, va)[k] = Null
<1>1. ASSUME NEW e \in E, ky[e] = k
      PROVE  Nodes(E, ky, va)[k] = va[e]
  <2>1. (CHOOSE f \in E : ky[f] = k) = e
    BY <1>1
  <2> QED BY <1>1, <2>1 DEF Nodes
<1> QED BY <1>1 DEF Nodes

\* The node under k becomes v; no other changes.
LEMMA NodesChange ==
  ASSUME NEW E, NEW ky, NEW va, \A e, f \in E : ky[e] = ky[f] => e = f,
         NEW E2, NEW ky2, NEW va2, \A e, f \in E2 : ky2[e] = ky2[f] => e = f,
         NEW k \in Key, NEW v, Nodes(E2, ky2, va2)[k] = v,
         \A e \in E : ky[e] # k => e \in E2 /\ ky2[e] = ky[e] /\ va2[e] = va[e],
         \A e \in E2 : ky2[e] # k => e \in E /\ ky[e] = ky2[e]
  PROVE  Nodes(E2, ky2, va2) = [Nodes(E, ky, va) EXCEPT ![k] = v]
<1> DEFINE old == Nodes(E, ky, va)
           new == Nodes(E2, ky2, va2)
<1>1. ASSUME NEW h \in Key, h # k
      PROVE  new[h] = old[h]
  <2>1. CASE \E e \in E : ky[e] = h
    <3>1. PICK e \in E : ky[e] = h
      BY <2>1
    <3>2. e \in E2 /\ ky2[e] = h /\ va2[e] = va[e]
      BY <1>1, <3>1
    <3>3. old[h] = va[e]
      BY <3>1, NodesAre
    <3>4. new[h] = va2[e]
      BY <3>2, NodesAre
    <3> QED BY <3>2, <3>3, <3>4
  <2>2. CASE \A e \in E : ky[e] # h
    <3>1. \A e \in E2 : ky2[e] # h
      BY <1>1, <2>2
    <3> QED BY <2>2, <3>1, NodesAre
  <2> QED BY <2>1, <2>2
<1>2. new[k] = v /\ old = [h \in Key |-> old[h]] /\ new = [h \in Key |-> new[h]]
  BY DEF Nodes
<1> HIDE DEF old, new
<1>3. new = [old EXCEPT ![k] = v]
  BY <1>1, <1>2
<1> QED BY <1>3 DEF old, new

\* Each step stores or erases one key, erases all, or changes nothing that a
\* caller can see.
LEMMA NextMap ==
  ASSUME TableInv, TableInv', [Next]_vars
  PROVE  \/ \E k \in Key, v \in Node :
              Nodes(live, key, value)' = [Nodes(live, key, value) EXCEPT ![k] = v]
         \/ \E k \in Key : Nodes(live, key, value)' = [Nodes(live, key, value) EXCEPT ![k] = Null]
         \/ Nodes(live, key, value)' = [k \in Key |-> Null]
         \/ Nodes(live, key, value)' = Nodes(live, key, value)
<1>1. PICK E2, ky2, va2 : E2 = live' /\ ky2 = key' /\ va2 = value'
  OBVIOUS
<1>2. Nodes(live, key, value)' = Nodes(E2, ky2, va2)
  BY <1>1 DEF Nodes
<1>3. /\ \A e, f \in live : key[e] = key[f] => e = f
      /\ \A e, f \in E2 : ky2[e] = ky2[f] => e = f
  BY <1>1 DEF TableInv, EntryInv
<1>4. /\ live \subseteq Entry /\ Null \notin live
      /\ key \in [Entry -> Key \cup {Null}] /\ value \in [Entry -> Node \cup {Null}]
  BY NullAssumption DEF TableInv, TypeOK
<1>5. ASSUME NEW k \in Key, NEW v \in Node, PutReplace(k, v)
      PROVE  Nodes(E2, ky2, va2) = [Nodes(live, key, value) EXCEPT ![k] = v]
  <2>1. pc = "idle" /\ UNCHANGED live
    BY <1>5 DEF PutReplace
  <2>2. PICK e \in Found(k) :
          key' = [key EXCEPT ![e] = k] /\ value' = [value EXCEPT ![e] = v]
    BY <1>5 DEF PutReplace
  <2>3. e \in live /\ key[e] = k
    BY <2>1, FoundAre DEF TableInv, ChainInv
  <2>4. /\ ky2[e] = k /\ va2[e] = v /\ E2 = live
        /\ \A f \in live : f # e => ky2[f] = key[f] /\ va2[f] = value[f]
    BY <1>1, <1>4, <2>1, <2>2, <2>3
  <2>5. /\ \A f \in live : key[f] # k => f \in E2 /\ ky2[f] = key[f] /\ va2[f] = value[f]
        /\ \A f \in E2 : ky2[f] # k => f \in live /\ key[f] = ky2[f]
    BY <2>3, <2>4
  <2>6. Nodes(E2, ky2, va2)[k] = v
    BY <1>3, <2>3, <2>4, NodesAre
  <2> QED BY <1>3, <2>5, <2>6, NodesChange
<1>6. ASSUME NEW e \in Entry, Insert(e)
      PROVE  /\ arg.key \in Key /\ arg.node \in Node
             /\ Nodes(E2, ky2, va2) = [Nodes(live, key, value) EXCEPT ![arg.key] = arg.node]
  <2>1. /\ pc = "insert" /\ e \notin live /\ live' = live \cup {e}
        /\ key' = [key EXCEPT ![e] = arg.key] /\ value' = [value EXCEPT ![e] = arg.node]
    BY <1>6 DEF Insert
  <2>2. arg.key \in Key /\ arg.node \in Node /\ \A f \in live : key[f] # arg.key
    BY <2>1 DEF TableInv, PutInv
  <2>3. /\ E2 = live \cup {e} /\ ky2[e] = arg.key /\ va2[e] = arg.node
        /\ \A f \in live : ky2[f] = key[f] /\ va2[f] = value[f]
    BY <1>1, <1>4, <2>1
  <2>4. Nodes(E2, ky2, va2)[arg.key] = arg.node
    BY <1>3, <2>2, <2>3, NodesAre
  <2> QED BY <1>3, <2>2, <2>3, <2>4, NodesChange
<1>7. ASSUME NEW k \in Key, Remove(k)
      PROVE  Nodes(E2, ky2, va2) = [Nodes(live, key, value) EXCEPT ![k] = Null]
  <2>1. pc = "idle"
    BY <1>7 DEF Remove
  <2>2. PICK e \in Found(k) :
          /\ live' = live \ {e}
          /\ key' = [key EXCEPT ![e] = Null] /\ value' = [value EXCEPT ![e] = Null]
    BY <1>7 DEF Remove
  <2>3. e \in live /\ key[e] = k
    BY <2>1, FoundAre DEF TableInv, ChainInv
  <2>4. E2 = live \ {e} /\ \A f \in E2 : ky2[f] = key[f] /\ va2[f] = value[f]
    BY <1>1, <1>4, <2>2
  <2>5. \A f \in E2 : ky2[f] # k
    BY <1>3, <2>3, <2>4
  <2>6. Nodes(E2, ky2, va2)[k] = Null
    BY <1>3, <2>5, NodesAre
  <2> QED BY <1>3, <2>3, <2>4, <2>5, <2>6, NodesChange
<1>8. CASE Clean \/ Renew
  <2>1. live' = {}
    <3>1. CASE Clean
      <4>1. tab_size \in Nat \ {0} /\ pc = "idle" /\ FreeAll(tab_size)
            /\ UNCHANGED <<hash, putVars, walkVars, pc>>
        BY <3>1 DEF Clean, TableInv, TypeOK
      <4> QED BY <4>1, FreeAllTable
    <3>2. CASE Renew
      <4>1. InitSize \in Nat \ {0} /\ pc = "idle" /\ FreeAll(InitSize)
            /\ UNCHANGED <<hash, putVars, walkVars, pc>>
        BY <3>2, SizeAssumption DEF Renew
      <4> QED BY <4>1, FreeAllTable
    <3> QED BY <1>8, <3>1, <3>2
  <2> QED BY <1>1, <1>2, <2>1 DEF Nodes
<1>9. CASE UNCHANGED entryVars
  BY <1>9 DEF entryVars
<1>10. CASE \/ RehashEntry \/ RehashBucket \/ RehashDone \/ InsertFails
            \/ (\E k \in Key, v \in Node : PutNew(k, v))
            \/ (\E e \in Entry : WalkBegin(e) \/ WalkNext(e)) \/ WalkEnd
            \/ UNCHANGED vars
  <2>1. UNCHANGED entryVars
    BY <1>10 DEF PutNew, RehashEntry, RehashBucket, RehashDone, InsertFails, WalkBegin, WalkNext,
                 WalkEnd, Visit, vars
  <2> QED BY <1>9, <2>1
<1> HIDE DEF Nodes
<1> QED BY <1>2, <1>5, <1>6, <1>7, <1>8, <1>10 DEF Next

\* For whoever uses it the table is a map from keys to nodes, with a put in one
\* step however many it takes to rehash.
THEOREM TableIsMap == Spec => ImplementsMap
<1>1. Init => Map!Begin
  BY DEF Init, Map!Begin
<1>2. TableInv /\ TableInv' /\ [Next]_vars => [Map!Change]_(Nodes(live, key, value))
  BY NextMap DEF Map!Change, Map!Store, Map!Erase, Map!EraseAll, Nodes
<1>3. Spec => Map!Begin /\ [][Map!Change]_(Nodes(live, key, value))
  BY <1>1, <1>2, Invariance, PTL DEF Spec
<1> QED BY <1>3, PTL DEF ImplementsMap, Map!Spec, Nodes

=============================================================================
