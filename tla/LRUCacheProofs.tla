--------------------------- MODULE LRUCacheProofs ---------------------------
(***************************************************************************)
(* Proofs about the cache server's LRU cache, for any keys, values,        *)
(* capacity, addresses and threads: the pointers of the list and the map   *)
(* hold the same nodes, the two implement the abstract least-recently-used *)
(* cache, and get() may read its node late for as long as LateReadIsSafe   *)
(* says.                                                                   *)
(*                                                                         *)
(* The list is described by the sequence L of its nodes from the head to   *)
(* the tail: the primitives on pointers are operations on L, and what      *)
(* happens to the keys of L is what happens to the abstract order.         *)
(***************************************************************************)
EXTENDS LRUCache, SequenceLemmas

(***************************************************************************)
(* The pointers.                                                           *)
(***************************************************************************)

\* The node i steps after the head of the list whose nodes are L.
Nd(L, i) == IF i = 0 THEN head ELSE IF i = Len(L) + 1 THEN tail ELSE L[i]

\* The pointers l lead through L in both directions.
Chained(l, L) ==
    /\ l \in [next : [Node -> Node], prev : [Node -> Node]]
    /\ \A i \in 0 .. Len(L) : /\ l.next[Nd(L, i)] = Nd(L, i + 1)
                              /\ l.prev[Nd(L, i + 1)] = Nd(L, i)

\* The nodes of a list are distinct.
LEMMA Nodes ==
    ASSUME NEW L \in Seq(Addr), NoRepeat(L)
    PROVE  /\ Len(L) \in Nat
           /\ Nd(L, 0) = head /\ Nd(L, Len(L) + 1) = tail
           /\ \A i \in 1 .. Len(L) : Nd(L, i) = L[i] /\ L[i] \in Addr
           /\ \A i \in 0 .. (Len(L) + 1) : Nd(L, i) \in Node
           /\ \A i, j \in 0 .. (Len(L) + 1) : Nd(L, i) = Nd(L, j) => i = j
<1>1. Len(L) \in Nat /\ \A i \in 1 .. Len(L) : L[i] \in Addr
  OBVIOUS
<1>2. head \notin Addr /\ tail \notin Addr /\ head # tail
  BY CacheAssumption
<1> QED
  BY <1>1, <1>2 DEF Nd, Node, NoRepeat

\* remove() takes the node out of the list.
LEMMA RemoveChain ==
    ASSUME NEW L \in Seq(Addr), NoRepeat(L), NEW l, Chained(l, L), NEW k \in 1 .. Len(L)
    PROVE  Chained(remove(l, L[k]), RemoveAt(L, k))
<1> DEFINE M == RemoveAt(L, k)
           n == Len(L)
           m == remove(l, L[k])
<1>1. /\ n \in Nat /\ k \in 1 .. n
      /\ \A i \in 1 .. n : Nd(L, i) = L[i]
      /\ \A i \in 0 .. (n + 1) : Nd(L, i) \in Node
      /\ \A i, j \in 0 .. (n + 1) : Nd(L, i) = Nd(L, j) => i = j
  BY Nodes
<1>2. /\ Len(M) = n - 1
      /\ \A j \in 1 .. (n - 1) : M[j] = L[IF j < k THEN j ELSE j + 1]
  BY RemoveAtProperties, RemoveAtIndex
<1> HIDE DEF M
<1>3. \A j \in 0 .. n : Nd(M, j) = IF j < k THEN Nd(L, j) ELSE Nd(L, j + 1)
  BY <1>1, <1>2 DEF Nd
<1>4. /\ l.next \in [Node -> Node] /\ l.prev \in [Node -> Node]
      /\ \A i \in 0 .. n : l.next[Nd(L, i)] = Nd(L, i + 1) /\ l.prev[Nd(L, i + 1)] = Nd(L, i)
  BY DEF Chained
<1>5. l.prev[L[k]] = Nd(L, k - 1) /\ l.next[L[k]] = Nd(L, k + 1)
  <2>1. k - 1 \in 0 .. n /\ k \in 0 .. n /\ (k - 1) + 1 = k
    BY <1>1
  <2> QED
    BY <1>1, <1>4, <2>1
<1>6. /\ m.next = [l.next EXCEPT ![Nd(L, k - 1)] = Nd(L, k + 1)]
      /\ m.prev = [l.prev EXCEPT ![Nd(L, k + 1)] = Nd(L, k - 1)]
      /\ m = [next |-> m.next, prev |-> m.prev]
  BY <1>5 DEF remove
<1>7. k - 1 \in 0 .. (n + 1) /\ k + 1 \in 0 .. (n + 1)
  BY <1>1
<1> HIDE DEF m, n
<1>8. m \in [next : [Node -> Node], prev : [Node -> Node]]
  <2>1. m.next \in [Node -> Node] /\ m.prev \in [Node -> Node]
    BY <1>1, <1>4, <1>6, <1>7
  <2> QED
    BY <1>6, <2>1
<1>9. \A i \in 0 .. (n + 1) :
         /\ m.next[Nd(L, i)] = IF i = k - 1 THEN Nd(L, k + 1) ELSE l.next[Nd(L, i)]
         /\ m.prev[Nd(L, i)] = IF i = k + 1 THEN Nd(L, k - 1) ELSE l.prev[Nd(L, i)]
  BY <1>1, <1>4, <1>6, <1>7
<1>10. ASSUME NEW j \in 0 .. (n - 1)
       PROVE  m.next[Nd(M, j)] = Nd(M, j + 1) /\ m.prev[Nd(M, j + 1)] = Nd(M, j)
  <2>1. CASE j < k - 1
    <3>1. Nd(M, j) = Nd(L, j) /\ Nd(M, j + 1) = Nd(L, j + 1)
      BY <1>1, <1>3, <2>1
    <3>2. j \in 0 .. n /\ j \in 0 .. (n + 1) /\ j + 1 \in 0 .. (n + 1)
      BY <1>1
    <3> QED
      BY <1>1, <1>4, <1>9, <2>1, <3>1, <3>2
  <2>2. CASE j = k - 1
    <3>1. Nd(M, j) = Nd(L, k - 1) /\ Nd(M, j + 1) = Nd(L, k + 1)
      BY <1>1, <1>3, <2>2
    <3> QED
      BY <1>7, <1>9, <3>1
  <2>3. CASE j >= k
    <3>1. Nd(M, j) = Nd(L, j + 1) /\ Nd(M, j + 1) = Nd(L, j + 2)
      BY <1>1, <1>3, <2>3
    <3>2. /\ j + 1 \in 0 .. n /\ j + 1 \in 0 .. (n + 1) /\ j + 2 \in 0 .. (n + 1)
          /\ (j + 1) + 1 = j + 2 /\ j + 1 # k - 1 /\ j + 2 # k + 1
      BY <1>1, <2>3
    <3> QED
      BY <1>4, <1>9, <3>1, <3>2
  <2> QED
    BY <1>1, <2>1, <2>2, <2>3
<1>11. Chained(m, M)
  BY <1>2, <1>8, <1>10 DEF Chained
<1> QED
  BY <1>11 DEF m, M

\* add2head() puts a node that is not in the list before the others.
LEMMA AddChain ==
    ASSUME NEW L \in Seq(Addr), NoRepeat(L), NEW l, Chained(l, L),
           NEW a \in Addr, a \notin ToSet(L)
    PROVE  Chained(add2head(l, a), <<a>> \o L)
<1> DEFINE M == <<a>> \o L
           n == Len(L)
           m == add2head(l, a)
<1>1. /\ n \in Nat
      /\ Nd(L, 0) = head /\ Nd(L, n + 1) = tail
      /\ \A i \in 1 .. n : Nd(L, i) = L[i]
      /\ \A i \in 0 .. (n + 1) : Nd(L, i) \in Node
      /\ \A i, j \in 0 .. (n + 1) : Nd(L, i) = Nd(L, j) => i = j
  BY Nodes
<1>2. /\ M \in Seq(Addr) /\ NoRepeat(M) /\ Len(M) = n + 1
      /\ M[1] = a /\ \A i \in 1 .. n : M[i + 1] = L[i]
  BY ConsElements
<1>3. \A i \in 0 .. (n + 1) : Nd(L, i) # a
  <2>1. \A i \in 1 .. n : L[i] # a
    BY Elements
  <2>2. a # head /\ a # tail
    BY CacheAssumption
  <2> QED
    BY <1>1, <2>1, <2>2 DEF Nd
<1> HIDE DEF M
<1>4. /\ Nd(M, 0) = head /\ Nd(M, 1) = a
      /\ \A j \in 1 .. (n + 1) : Nd(M, j + 1) = Nd(L, j)
  BY <1>1, <1>2 DEF Nd
<1>5. /\ l.next \in [Node -> Node] /\ l.prev \in [Node -> Node]
      /\ \A i \in 0 .. n : l.next[Nd(L, i)] = Nd(L, i + 1) /\ l.prev[Nd(L, i + 1)] = Nd(L, i)
  BY DEF Chained
<1>6. l.next[head] = Nd(L, 1)
  <2>1. 0 \in 0 .. n /\ 0 + 1 = 1
    BY <1>1
  <2> QED
    BY <1>1, <1>5, <2>1
<1>7. a \in Node /\ head \in Node /\ Nd(L, 1) \in Node /\ a # head /\ a # Nd(L, 1)
  <2>1. 1 \in 0 .. (n + 1) /\ 0 \in 0 .. (n + 1)
    BY <1>1
  <2> QED
    BY <1>1, <1>3, <2>1 DEF Node
<1>8. /\ m.next = [l.next EXCEPT ![a] = Nd(L, 1), ![head] = a]
      /\ m.prev = [l.prev EXCEPT ![a] = head, ![Nd(L, 1)] = a]
      /\ m = [next |-> m.next, prev |-> m.prev]
  BY <1>6 DEF add2head
<1> HIDE DEF m, n
<1>9. m \in [next : [Node -> Node], prev : [Node -> Node]]
  <2>1. m.next \in [Node -> Node] /\ m.prev \in [Node -> Node]
    BY <1>5, <1>7, <1>8
  <2> QED
    BY <1>8, <2>1
<1>10. /\ m.next[head] = a /\ m.next[a] = Nd(L, 1)
       /\ m.prev[a] = head /\ m.prev[Nd(L, 1)] = a
       /\ \A x \in Node : x # a /\ x # head => m.next[x] = l.next[x]
       /\ \A x \in Node : x # a /\ x # Nd(L, 1) => m.prev[x] = l.prev[x]
  BY <1>5, <1>7, <1>8
<1>11. ASSUME NEW j \in 0 .. (n + 1)
       PROVE  m.next[Nd(M, j)] = Nd(M, j + 1) /\ m.prev[Nd(M, j + 1)] = Nd(M, j)
  <2>1. CASE j = 0
    BY <1>4, <1>10, <2>1
  <2>2. CASE j = 1
    <3>1. Nd(M, 2) = Nd(L, 1)
      BY <1>1, <1>4
    <3> QED
      BY <1>4, <1>10, <2>2, <3>1
  <2>3. CASE j > 1
    <3>1. Nd(M, j) = Nd(L, j - 1) /\ Nd(M, j + 1) = Nd(L, j)
      BY <1>1, <1>4, <2>3
    <3>2. /\ j - 1 \in 0 .. n /\ j - 1 \in 0 .. (n + 1) /\ j \in 0 .. (n + 1)
          /\ (j - 1) + 1 = j /\ 0 \in 0 .. (n + 1) /\ 1 \in 0 .. (n + 1)
      BY <1>1, <2>3
    <3>3. Nd(L, j - 1) # head /\ Nd(L, j) # Nd(L, 1)
      BY <1>1, <2>3, <3>2
    <3> QED
      BY <1>1, <1>3, <1>5, <1>10, <3>1, <3>2, <3>3
  <2> QED
    BY <1>1, <2>1, <2>2, <2>3
<1>12. Chained(m, M)
  BY <1>2, <1>9, <1>11 DEF Chained
<1> QED
  BY <1>12 DEF m, M

\* The sequence s with the element e moved, or put, to its front.
Fronted(s, e) == <<e>> \o Dropped(s, e)

\* move2head() does that to the list.
LEMMA MoveChain ==
    ASSUME NEW L \in Seq(Addr), NoRepeat(L), NEW l, Chained(l, L), NEW a \in ToSet(L)
    PROVE  Chained(move2head(l, a), Fronted(L, a))
<1>1. PICK k \in 1 .. Len(L) : L[k] = a
  BY Elements
<1>2. a \in Addr
  BY Elements
<1>3. RemoveAt(L, k) = Dropped(L, a)
  BY <1>1, DroppedAt
<1>4. Chained(remove(l, a), Dropped(L, a))
  BY <1>1, <1>3, RemoveChain
<1>5. Dropped(L, a) \in Seq(Addr) /\ NoRepeat(Dropped(L, a)) /\ a \notin ToSet(Dropped(L, a))
  BY DroppedElements
<1>6. Chained(add2head(remove(l, a), a), <<a>> \o Dropped(L, a))
  BY <1>2, <1>4, <1>5, AddChain
<1> QED
  BY <1>6 DEF move2head, Fronted

-----------------------------------------------------------------------------
(***************************************************************************)
(* The walk from the head.                                                 *)
(***************************************************************************)

\* At of the pointers l and the size z.
AtOf(l, z) ==
    [i \in 0 .. (z + 1) |->
       LET walk[j \in 0 .. i] == IF j = 0 THEN head ELSE l.next[walk[j - 1]]
       IN  walk[i]]

\* The first n steps of f follow the pointers next.
Follows(f, next, n) == \A i \in 1 .. n : f[i] = next[f[i - 1]]

\* Two walks that start alike and follow the same pointers are the same: there
\* is no first place where they part.
LEMMA WalksAgree ==
    ASSUME NEW n \in Nat, NEW next, NEW f, NEW g, f[0] = g[0],
           Follows(f, next, n), Follows(g, next, n)
    PROVE  \A i \in 0 .. n : f[i] = g[i]
<1> DEFINE T == {i \in 0 .. n : f[i] # g[i]}
<1>1. SUFFICES ASSUME T # {} PROVE FALSE
  OBVIOUS
<1>2. PICK m \in T : \A y \in T : m <= y
  <2>1. T \subseteq Nat
    OBVIOUS
  <2> HIDE DEF T
  <2> QED
    BY <1>1, <2>1, LeastNatural
<1>3. m # 0
  OBVIOUS
<1>4. m - 1 \in 0 .. n /\ m - 1 \notin T
  BY <1>2, <1>3
<1> QED
  BY <1>3, <1>4 DEF Follows

\* The walk visits the nodes of the list.
LEMMA WalkList ==
    ASSUME NEW L \in Seq(Addr), NEW l, Chained(l, L)
    PROVE  \A i \in 0 .. (Len(L) + 1) : AtOf(l, Len(L))[i] = Nd(L, i)
<1> SUFFICES ASSUME NEW i \in 0 .. (Len(L) + 1)
             PROVE  AtOf(l, Len(L))[i] = Nd(L, i)
  OBVIOUS
<1> DEFINE P(f) == f = [j \in 0 .. i |-> IF j = 0 THEN head ELSE l.next[f[j - 1]]]
           g == CHOOSE f : P(f)
           v == [j \in 0 .. i |-> Nd(L, j)]
<1>1. Len(L) \in Nat /\ i \in Nat
  OBVIOUS
<1>2. v[0] = head /\ \A j \in 1 .. i : v[j] = l.next[v[j - 1]]
  <2>1. v[0] = head
    BY <1>1 DEF Nd
  <2>2. ASSUME NEW j \in 1 .. i
        PROVE  v[j] = l.next[v[j - 1]]
    <3>1. j - 1 \in 0 .. Len(L) /\ (j - 1) + 1 = j /\ j \in 0 .. i /\ j - 1 \in 0 .. i
      BY <1>1
    <3>2. v[j] = Nd(L, j) /\ v[j - 1] = Nd(L, j - 1)
      BY <3>1
    <3> QED
      BY <3>1, <3>2 DEF Chained
  <2> QED
    BY <2>1, <2>2
<1>3. P(v)
  <2>1. v = [j \in 0 .. i |-> v[j]]
    OBVIOUS
  <2>2. ASSUME NEW j \in 0 .. i
        PROVE  v[j] = IF j = 0 THEN head ELSE l.next[v[j - 1]]
    <3>1. j = 0 \/ j \in 1 .. i
      BY <1>1
    <3> HIDE DEF v
    <3> QED
      BY <1>2, <3>1
  <2> HIDE DEF v
  <2> QED
    BY <2>1, <2>2
<1>4. P(g)
  <2> HIDE DEF P
  <2> QED
    BY <1>3, Zenon
<1>5. g[0] = head /\ \A j \in 1 .. i : g[j] = l.next[g[j - 1]]
  <2> HIDE DEF g
  <2> QED
    BY <1>1, <1>4
<1>6. AtOf(l, Len(L))[i] = g[i]
  BY DEF AtOf
<1> HIDE DEF P, g, v
<1>7. \A j \in 0 .. i : g[j] = v[j]
  <2>1. g[0] = v[0] /\ Follows(g, l.next, i) /\ Follows(v, l.next, i)
    BY <1>2, <1>5 DEF Follows
  <2> QED
    BY <1>1, <2>1, WalksAgree
<1>8. g[i] = v[i]
  BY <1>1, <1>7
<1> QED
  BY <1>1, <1>6, <1>8 DEF v

-----------------------------------------------------------------------------
(***************************************************************************)
(* The keys of the list.                                                   *)
(***************************************************************************)

\* The keys of the nodes L, when their contents are c.
KeysOf(c, L) == [i \in 1 .. Len(L) |-> c[L[i]].key]

\* The abstract order is made of the keys of the list.
LEMMA OrderOfKeys ==
    ASSUME NEW L \in Seq(Addr), NoRepeat(L), NEW l, Chained(l, L), NEW c
    PROVE  [i \in 1 .. Len(L) |-> c[AtOf(l, Len(L))[i]].key] = KeysOf(c, L)
<1>1. \A i \in 1 .. Len(L) : AtOf(l, Len(L))[i] = L[i]
  BY WalkList, Nodes
<1> QED
  BY <1>1 DEF KeysOf

\* The list L and the map m hold the same nodes, each filed under its own key.
Filed(c, m, L) ==
    /\ L \in Seq(Addr) /\ NoRepeat(L) /\ c \in [Addr -> Content]
    /\ m \in [DOMAIN m -> Addr] /\ DOMAIN m \subseteq Key
    /\ \A k \in DOMAIN m : m[k] \in ToSet(L) /\ c[m[k]].key = k
    /\ \A n \in ToSet(L) : c[n].key \in DOMAIN m /\ m[c[n].key] = n

\* Then the keys of the list are those of the map, none twice.
LEMMA KeysListed ==
    ASSUME NEW c, NEW m, NEW L, Filed(c, m, L)
    PROVE  /\ KeysOf(c, L) \in Seq(Key) /\ NoRepeat(KeysOf(c, L))
           /\ Len(KeysOf(c, L)) = Len(L) /\ ToSet(KeysOf(c, L)) = DOMAIN m
           /\ Cardinality(DOMAIN m) = Len(L)
<1> DEFINE K == KeysOf(c, L)
<1>1. /\ L \in Seq(Addr) /\ NoRepeat(L) /\ c \in [Addr -> Content] /\ Len(L) \in Nat
      /\ \A i \in 1 .. Len(L) : L[i] \in Addr /\ L[i] \in ToSet(L) /\ c[L[i]].key \in Key
      /\ \A n : n \in ToSet(L) <=> \E i \in 1 .. Len(L) : L[i] = n
  <2>1. L \in Seq(Addr) /\ NoRepeat(L) /\ c \in [Addr -> Content] /\ Len(L) \in Nat
    BY DEF Filed
  <2> QED
    BY <2>1, Elements DEF Content
<1>2. K \in Seq(Key) /\ Len(K) = Len(L) /\ \A i \in 1 .. Len(L) : K[i] = c[L[i]].key
  BY <1>1 DEF KeysOf
<1> HIDE DEF K
<1>3. NoRepeat(K)
  <2> SUFFICES ASSUME NEW i \in 1 .. Len(L), NEW j \in 1 .. Len(L), K[i] = K[j]
               PROVE  i = j
    BY <1>2 DEF NoRepeat
  <2>1. L[i] = m[K[i]] /\ L[j] = m[K[j]]
    BY <1>1, <1>2 DEF Filed
  <2> QED
    BY <1>1, <2>1 DEF NoRepeat
<1>4. ToSet(K) = DOMAIN m
  <2>1. \A x : x \in ToSet(K) <=> \E i \in 1 .. Len(K) : K[i] = x
    BY <1>2, Elements
  <2>2. ASSUME NEW x \in ToSet(K)
        PROVE  x \in DOMAIN m
    <3>1. PICK i \in 1 .. Len(L) : K[i] = x
      BY <1>2, <2>1
    <3>2. L[i] \in ToSet(L) /\ x = c[L[i]].key
      BY <1>1, <1>2, <3>1
    <3> QED
      BY <3>2 DEF Filed
  <2>3. ASSUME NEW x \in DOMAIN m
        PROVE  x \in ToSet(K)
    <3>1. PICK i \in 1 .. Len(L) : L[i] = m[x]
      BY <1>1 DEF Filed
    <3>2. K[i] = x
      BY <1>2, <3>1 DEF Filed
    <3> QED
      BY <1>2, <2>1, <3>2
  <2> QED
    BY <2>2, <2>3
<1>5. Cardinality(ToSet(K)) = Len(K)
  BY <1>2, <1>3, NoRepeatCardinality
<1> QED
  BY <1>2, <1>3, <1>4, <1>5 DEF K

\* A node that moves to the front takes its key there.
LEMMA KeysFronted ==
    ASSUME NEW c, NEW m, NEW L, Filed(c, m, L), NEW a \in ToSet(L)
    PROVE  KeysOf(c, Fronted(L, a)) = Fronted(KeysOf(c, L), c[a].key)
<1> DEFINE K == KeysOf(c, L)
           n == Len(L)
           D == Dropped(L, a)
           E == Dropped(K, c[a].key)
<1>1. L \in Seq(Addr) /\ NoRepeat(L) /\ n \in Nat
  BY DEF Filed
<1>2. K \in Seq(Key) /\ NoRepeat(K) /\ Len(K) = n /\ \A i \in 1 .. n : K[i] = c[L[i]].key
  BY KeysListed DEF KeysOf
<1>3. PICK k \in 1 .. n : L[k] = a
  BY <1>1, Elements
<1>4. a \in Addr /\ c[a].key = K[k] /\ K[k] \in Key
  BY <1>1, <1>2, <1>3
<1> HIDE DEF K, n
<1>5. /\ D = RemoveAt(L, k) /\ D \in Seq(Addr) /\ Len(D) = n - 1
      /\ \A j \in 1 .. (n - 1) : D[j] = IF j < k THEN L[j] ELSE L[j + 1]
  BY <1>1, <1>3, DroppedAt, RemoveAtProperties DEF n
<1>6. /\ E = RemoveAt(K, k) /\ E \in Seq(Key) /\ Len(E) = n - 1
      /\ \A j \in 1 .. (n - 1) : E[j] = IF j < k THEN K[j] ELSE K[j + 1]
  <2>1. k \in 1 .. Len(K)
    BY <1>2, <1>3
  <2>2. E = RemoveAt(K, k)
    BY <1>2, <1>4, <2>1, DroppedAt
  <2>3. /\ RemoveAt(K, k) \in Seq(Key) /\ Len(RemoveAt(K, k)) = n - 1
    BY <1>2, <2>1, RemoveAtProperties
  <2>4. \A j \in 1 .. (n - 1) : RemoveAt(K, k)[j] = IF j < k THEN K[j] ELSE K[j + 1]
    BY <1>2, <2>1, DroppedAt
  <2> HIDE DEF E
  <2> QED
    BY <2>2, <2>3, <2>4
<1> HIDE DEF D, E
<1>7. /\ <<a>> \o D \in Seq(Addr) /\ Len(<<a>> \o D) = n
      /\ (<<a>> \o D)[1] = a /\ \A i \in 1 .. (n - 1) : (<<a>> \o D)[i + 1] = D[i]
  BY <1>1, <1>4, <1>5, ConsElements
<1>8. /\ <<c[a].key>> \o E \in Seq(Key) /\ Len(<<c[a].key>> \o E) = n
      /\ (<<c[a].key>> \o E)[1] = c[a].key
      /\ \A i \in 1 .. (n - 1) : (<<c[a].key>> \o E)[i + 1] = E[i]
  BY <1>1, <1>4, <1>6, ConsElements
<1> DEFINE F == <<a>> \o D
           G == <<c[a].key>> \o E
<1> HIDE DEF F, G
<1>9. ASSUME NEW i \in 1 .. n
      PROVE  c[F[i]].key = G[i]
  <2>1. CASE i = 1
    BY <1>7, <1>8, <2>1 DEF F, G
  <2>2. CASE i > 1
    <3>1. i - 1 \in 1 .. (n - 1) /\ (i - 1) + 1 = i
      BY <1>1, <2>2
    <3>2. F[i] = D[i - 1] /\ G[i] = E[i - 1]
      BY <1>7, <1>8, <3>1 DEF F, G
    <3>3. c[D[i - 1]].key = E[i - 1]
      <4>1. CASE i - 1 < k
        BY <1>1, <1>2, <1>5, <1>6, <3>1, <4>1
      <4>2. CASE ~(i - 1 < k)
        BY <1>1, <1>2, <1>5, <1>6, <3>1, <4>2
      <4> QED
        BY <4>1, <4>2
    <3> QED
      BY <3>2, <3>3
  <2> QED
    BY <1>1, <2>1, <2>2
<1>10. KeysOf(c, F) = G
  <2>1. KeysOf(c, F) = [i \in 1 .. n |-> G[i]]
    BY <1>7, <1>9 DEF KeysOf, F
  <2>2. G = [i \in 1 .. n |-> G[i]]
    BY <1>8 DEF G
  <2> QED
    BY <2>1, <2>2
<1> QED
  BY <1>10 DEF F, G, D, E, K, Fronted

\* The order K once k is used, without what is too much.
KeptOf(K, k) == IF Len(Fronted(K, k)) > Capacity THEN Front(Fronted(K, k)) ELSE Fronted(K, k)

\* A key comes to the front; one that is there already makes no order longer.
LEMMA FrontedElements ==
    ASSUME NEW S, NEW s \in Seq(S), NoRepeat(s), NEW e \in S
    PROVE  /\ Fronted(s, e) \in Seq(S) /\ NoRepeat(Fronted(s, e))
           /\ ToSet(Fronted(s, e)) = ToSet(s) \cup {e}
           /\ Fronted(s, e) # <<>> /\ Fronted(s, e)[1] = e
           /\ Len(Fronted(s, e)) = IF e \in ToSet(s) THEN Len(s) ELSE Len(s) + 1
<1> DEFINE d == Dropped(s, e)
<1>1. /\ d \in Seq(S) /\ ToSet(d) = ToSet(s) \ {e} /\ NoRepeat(d)
      /\ Len(d) = IF e \in ToSet(s) THEN Len(s) - 1 ELSE Len(s)
  BY DroppedElements
<1> HIDE DEF d
<1>2. /\ <<e>> \o d \in Seq(S) /\ NoRepeat(<<e>> \o d)
      /\ ToSet(<<e>> \o d) = ToSet(d) \cup {e}
      /\ <<e>> \o d # <<>> /\ (<<e>> \o d)[1] = e
      /\ Len(<<e>> \o d) = Len(d) + 1
  BY <1>1, ConsElements
<1>3. Fronted(s, e) = <<e>> \o d
  BY DEF Fronted, d
<1>4. Len(s) \in Nat
  OBVIOUS
<1> QED
  BY <1>1, <1>2, <1>3, <1>4

\* Nothing is too much when the key was there.
LEMMA KeptPresent ==
    ASSUME NEW K \in Seq(Key), NoRepeat(K), NEW k \in ToSet(K), Len(K) <= Capacity
    PROVE  KeptOf(K, k) = Fronted(K, k)
<1>1. k \in Key
  BY Elements
<1>2. Len(Fronted(K, k)) = Len(K)
  BY <1>1, FrontedElements
<1>3. Len(K) \in Nat /\ Capacity \in Nat
  BY CacheAssumption
<1> QED
  BY <1>2, <1>3 DEF KeptOf

-----------------------------------------------------------------------------
(***************************************************************************)
(* The window between the unlock and the read of get().                    *)
(***************************************************************************)

\* Only keys of S come before k in the order K.
Near(K, k, S) == \E i \in 1 .. Len(K) : K[i] = k /\ \A j \in 1 .. i : K[j] \in S

\* A thread that will read r, while the keys S were used: until S outgrows the
\* cache, the key is in the order, before the keys that are not in S.
Window(K, m, r, S) ==
    r # Idle /\ Cardinality(S) <= Capacity =>
        Near(K, r.key, S) /\ r.key \in DOMAIN m /\ m[r.key] = r.node

\* The use of a key puts only that key before others.
LEMMA NearFronted ==
    ASSUME NEW K \in Seq(Key), NoRepeat(K), NEW e, NEW S, Near(K, e, S), NEW k \in Key
    PROVE  Near(Fronted(K, k), e, S \cup {k})
<1> DEFINE F == Fronted(K, k)
           D == Dropped(K, k)
           n == Len(K)
<1>1. PICK i \in 1 .. n : K[i] = e /\ \A j \in 1 .. i : K[j] \in S
  BY DEF Near
<1>2. /\ D \in Seq(Key) /\ F \in Seq(Key) /\ F[1] = k /\ Len(F) = Len(D) + 1 /\ n \in Nat
      /\ \A j \in 1 .. Len(D) : F[j + 1] = D[j]
  BY DroppedElements, ConsElements DEF Fronted
<1>3. CASE e = k
  <2>1. 1 \in 1 .. Len(F) /\ F[1] = e /\ \A j \in 1 .. 1 : F[j] \in S \cup {k}
    BY <1>2, <1>3
  <2> HIDE DEF F
  <2>2. Near(F, e, S \cup {k})
    BY <2>1 DEF Near
  <2> QED
    BY <2>2 DEF F
<1>4. CASE e # k /\ k \notin ToSet(K)
  <2>1. D = K
    BY <1>4 DEF Dropped
  <2> HIDE DEF F, D
  <2>2. i + 1 \in 1 .. Len(F) /\ F[i + 1] = e
    BY <1>1, <1>2, <2>1
  <2>3. ASSUME NEW j \in 1 .. (i + 1)
        PROVE  F[j] \in S \cup {k}
    <3>1. CASE j = 1
      BY <1>2, <3>1
    <3>2. CASE j # 1
      <4>1. j - 1 \in 1 .. i /\ (j - 1) + 1 = j /\ j - 1 \in 1 .. Len(D)
        BY <1>1, <1>2, <2>1, <3>2
      <4>2. F[j] = K[j - 1]
        BY <1>2, <2>1, <4>1
      <4> QED
        BY <1>1, <4>1, <4>2
    <3> QED
      BY <3>1, <3>2
  <2>4. Near(F, e, S \cup {k})
    BY <2>2, <2>3 DEF Near
  <2> QED
    BY <2>4 DEF F
<1>5. CASE e # k /\ k \in ToSet(K)
  <2>1. PICK p \in 1 .. n : K[p] = k
    BY <1>5, Elements
  <2>2. /\ Len(D) = n - 1
        /\ \A j \in 1 .. (n - 1) : D[j] = IF j < p THEN K[j] ELSE K[j + 1]
    BY <2>1, DroppedAt, RemoveAtProperties
  <2> HIDE DEF F, D
  <2> DEFINE q == IF i < p THEN i + 1 ELSE i
  <2>3. i # p
    BY <1>1, <1>5, <2>1
  <2>4. q \in 2 .. Len(F) /\ F[q] = e
    <3>1. CASE i < p
      BY <1>1, <1>2, <2>1, <2>2, <3>1
    <3>2. CASE i > p
      <4>1. i - 1 \in 1 .. (n - 1) /\ (i - 1) + 1 = i /\ ~(i - 1 < p)
        BY <1>1, <1>2, <2>1, <3>2
      <4>2. D[i - 1] = K[i]
        BY <2>2, <4>1
      <4> QED
        BY <1>1, <1>2, <2>2, <3>2, <4>1, <4>2
    <3> QED
      BY <1>1, <2>1, <2>3, <3>1, <3>2
  <2>5. ASSUME NEW j \in 1 .. q
        PROVE  F[j] \in S \cup {k}
    <3>1. CASE j = 1
      BY <1>2, <3>1
    <3>2. CASE j # 1
      <4>1. j - 1 \in 1 .. (n - 1) /\ (j - 1) + 1 = j
        BY <1>2, <2>2, <2>4, <3>2
      <4>2. F[j] = D[j - 1]
        BY <1>2, <2>2, <4>1
      <4>3. CASE j - 1 < p
        <5>1. j - 1 \in 1 .. i
          BY <1>1, <2>1, <2>3, <4>1, <4>3
        <5> QED
          BY <1>1, <2>2, <4>1, <4>2, <4>3, <5>1
      <4>4. CASE ~(j - 1 < p)
        <5>1. D[j - 1] = K[j]
          BY <2>2, <4>1, <4>4
        <5>2. j \in 1 .. i
          BY <1>1, <2>1, <2>3, <4>1, <4>4
        <5> QED
          BY <1>1, <4>2, <5>1, <5>2
      <4> QED
        BY <4>3, <4>4
    <3> QED
      BY <3>1, <3>2
  <2> HIDE DEF q
  <2>6. q \in 1 .. Len(F)
    BY <2>4
  <2>7. Near(F, e, S \cup {k})
    BY <2>4, <2>5, <2>6 DEF Near
  <2> QED
    BY <2>7 DEF F
<1> QED
  BY <1>3, <1>4, <1>5

\* The last key goes only when S has as many keys as the order.
LEMMA NearFront ==
    ASSUME NEW K \in Seq(Key), NoRepeat(K), K # <<>>, NEW e, NEW S, IsFiniteSet(S),
           Near(K, e, S), Cardinality(S) < Len(K)
    PROVE  Near(Front(K), e, S)
<1> DEFINE n == Len(K)
<1>1. PICK i \in 1 .. n : K[i] = e /\ \A j \in 1 .. i : K[j] \in S
  BY DEF Near
<1>2. n \in Nat \ {0} /\ Len(Front(K)) = n - 1 /\ \A j \in 1 .. (n - 1) : Front(K)[j] = K[j]
  BY FrontLast DEF Front
<1>3. i # n
  <2> SUFFICES ASSUME i = n
               PROVE  FALSE
    OBVIOUS
  <2>1. ToSet(K) \subseteq S
    BY <1>1, Elements
  <2>2. Cardinality(ToSet(K)) <= Cardinality(S)
    BY <2>1, FS_Subset
  <2>3. Cardinality(ToSet(K)) = n
    BY NoRepeatCardinality
  <2>4. Cardinality(S) \in Nat
    BY FS_CardinalityType
  <2> QED
    BY <1>2, <2>2, <2>3, <2>4
<1>4. i \in 1 .. (n - 1) /\ \A j \in 1 .. i : j \in 1 .. (n - 1)
  BY <1>2, <1>3
<1>5. Front(K)[i] = e /\ \A j \in 1 .. i : Front(K)[j] \in S
  BY <1>1, <1>2, <1>4
<1> QED
  BY <1>2, <1>4, <1>5 DEF Near

\* The window of a thread when another uses a key.
LEMMA WindowStays ==
    ASSUME NEW K \in Seq(Key), NoRepeat(K), NEW m, NEW r, NEW S, IsFiniteSet(S),
           Window(K, m, r, S), NEW k \in Key, NEW m2,
           \A j \in ToSet(KeptOf(K, k)) \cap DOMAIN m : j \in DOMAIN m2 /\ m2[j] = m[j]
    PROVE  Window(KeptOf(K, k), m2, r, S \cup {k})
<1> SUFFICES ASSUME r # Idle, Cardinality(S \cup {k}) <= Capacity
             PROVE  /\ Near(KeptOf(K, k), r.key, S \cup {k})
                    /\ r.key \in DOMAIN m2 /\ m2[r.key] = r.node
  BY DEF Window
<1> DEFINE F == Fronted(K, k)
           G == KeptOf(K, k)
           U == S \cup {k}
<1>1. IsFiniteSet(U) /\ Cardinality(U) \in Nat /\ Capacity \in Nat /\ Cardinality(S) \in Nat
  BY FS_AddElement, FS_CardinalityType, CacheAssumption
<1>2. Cardinality(S) <= Cardinality(U)
  BY <1>1, FS_Subset
<1>3. Near(K, r.key, S) /\ r.key \in DOMAIN m /\ m[r.key] = r.node
  BY <1>1, <1>2 DEF Window
<1>4. F \in Seq(Key) /\ NoRepeat(F) /\ F # <<>> /\ Len(F) \in Nat
  BY FrontedElements
<1>5. Near(F, r.key, U)
  BY <1>3, NearFronted
<1>6. G \in Seq(Key) /\ Near(G, r.key, U)
  <2> HIDE DEF F, U
  <2>1. CASE Len(F) > Capacity
    <3>1. G = Front(F)
      BY <2>1 DEF KeptOf, F
    <3>2. Cardinality(U) < Len(F)
      BY <1>1, <1>4, <2>1 DEF U
    <3>3. Near(Front(F), r.key, U) /\ Front(F) \in Seq(Key)
      BY <1>1, <1>4, <1>5, <3>2, NearFront, FrontLast
    <3> QED
      BY <3>1, <3>3
  <2>2. CASE ~(Len(F) > Capacity)
    BY <1>4, <1>5, <2>2 DEF KeptOf, F
  <2> QED
    BY <2>1, <2>2
<1> HIDE DEF G
<1>7. r.key \in ToSet(G)
  BY <1>6, Elements DEF Near
<1> QED
  BY <1>3, <1>6, <1>7 DEF G

-----------------------------------------------------------------------------
(***************************************************************************)
(* What the operations do to the list, the map and the contents.           *)
(***************************************************************************)

\* A node moves to the front: the map holds the same nodes.
LEMMA FiledFronted ==
    ASSUME NEW c, NEW m, NEW L, Filed(c, m, L), NEW a \in ToSet(L)
    PROVE  Filed(c, m, Fronted(L, a)) /\ Len(Fronted(L, a)) = Len(L)
<1>1. L \in Seq(Addr) /\ NoRepeat(L)
  BY DEF Filed
<1>2. a \in Addr
  BY <1>1, Elements
<1>3. /\ Fronted(L, a) \in Seq(Addr) /\ NoRepeat(Fronted(L, a))
      /\ ToSet(Fronted(L, a)) = ToSet(L) \cup {a} /\ Len(Fronted(L, a)) = Len(L)
  BY <1>1, <1>2, FrontedElements
<1>4. ToSet(Fronted(L, a)) = ToSet(L)
  BY <1>3
<1> QED
  BY <1>3, <1>4 DEF Filed

\* The contents, once the node n has another value.
Revalued(c, n, v) == [c EXCEPT ![n].val = v]

\* A new value changes neither the map nor the keys.
LEMMA FiledRevalued ==
    ASSUME NEW c, NEW m, NEW L, Filed(c, m, L), NEW n \in Addr, NEW v \in Val
    PROVE  /\ Filed(Revalued(c, n, v), m, L)
           /\ KeysOf(Revalued(c, n, v), L) = KeysOf(c, L)
           /\ \A a \in Addr : Revalued(c, n, v)[a].val = IF a = n THEN v ELSE c[a].val
<1> DEFINE d == Revalued(c, n, v)
<1>1. c \in [Addr -> Content] /\ L \in Seq(Addr) /\ m \in [DOMAIN m -> Addr]
  BY DEF Filed
<1>2. /\ d \in [Addr -> Content]
      /\ \A a \in Addr : d[a].key = c[a].key /\ d[a].val = IF a = n THEN v ELSE c[a].val
  BY <1>1 DEF Revalued, Content
<1> HIDE DEF d
<1>3. ToSet(L) \subseteq Addr /\ \A i \in 1 .. Len(L) : L[i] \in Addr
  BY <1>1, Elements
<1>4. Filed(d, m, L)
  BY <1>1, <1>2, <1>3 DEF Filed
<1>5. KeysOf(d, L) = KeysOf(c, L)
  BY <1>2, <1>3 DEF KeysOf
<1> QED
  BY <1>2, <1>4, <1>5 DEF d

\* The contents and the map, once k is in the node n.
Stored(c, n, k, v) == [c EXCEPT ![n] = [key |-> k, val |-> v]]
Grown(m, k, n) == [j \in DOMAIN m \cup {k} |-> IF j = k THEN n ELSE m[j]]

\* A new key in a node that was not in use.
LEMMA FiledAdd ==
    ASSUME NEW c, NEW m, NEW L, Filed(c, m, L), NEW n \in Addr, n \notin ToSet(L),
           NEW k \in Key, k \notin DOMAIN m, NEW v \in Val
    PROVE  /\ Filed(Stored(c, n, k, v), Grown(m, k, n), <<n>> \o L)
           /\ Len(<<n>> \o L) = Len(L) + 1
           /\ KeysOf(Stored(c, n, k, v), <<n>> \o L) = Fronted(KeysOf(c, L), k)
<1> DEFINE d == Stored(c, n, k, v)
           g == Grown(m, k, n)
           M == <<n>> \o L
           K == KeysOf(c, L)
           z == Len(L)
<1>1. /\ c \in [Addr -> Content] /\ L \in Seq(Addr) /\ NoRepeat(L) /\ z \in Nat
      /\ m \in [DOMAIN m -> Addr] /\ DOMAIN m \subseteq Key
      /\ \A j \in DOMAIN m : m[j] \in ToSet(L) /\ c[m[j]].key = j
      /\ \A a \in ToSet(L) : c[a].key \in DOMAIN m /\ m[c[a].key] = a
  BY DEF Filed
<1>2. /\ d \in [Addr -> Content] /\ d[n].key = k
      /\ \A a \in Addr : a # n => d[a] = c[a]
  BY <1>1 DEF Stored, Content
<1>3. /\ g \in [DOMAIN g -> Addr] /\ DOMAIN g = DOMAIN m \cup {k} /\ g[k] = n
      /\ \A j \in DOMAIN m : g[j] = m[j]
  BY <1>1 DEF Grown
<1>4. /\ M \in Seq(Addr) /\ NoRepeat(M) /\ Len(M) = z + 1 /\ ToSet(M) = ToSet(L) \cup {n}
      /\ M[1] = n /\ \A i \in 1 .. z : M[i + 1] = L[i]
  BY <1>1, ConsElements
<1>5. ToSet(L) \subseteq Addr /\ \A i \in 1 .. z : L[i] \in Addr /\ L[i] \in ToSet(L)
  BY <1>1, Elements
<1>6. K \in Seq(Key) /\ Len(K) = z /\ ToSet(K) = DOMAIN m
  BY KeysListed
<1>7. \A i \in 1 .. z : K[i] = c[L[i]].key
  BY DEF KeysOf
<1> HIDE DEF d, g, M, K, z
<1>8. Filed(d, g, M)
  <2>1. \A j \in DOMAIN g : g[j] \in ToSet(M) /\ d[g[j]].key = j
    BY <1>1, <1>2, <1>3, <1>4, <1>5
  <2>2. \A a \in ToSet(M) : d[a].key \in DOMAIN g /\ g[d[a].key] = a
    BY <1>1, <1>2, <1>3, <1>4, <1>5
  <2> QED
    BY <1>1, <1>2, <1>3, <1>4, <2>1, <2>2 DEF Filed
<1>9. Fronted(K, k) = <<k>> \o K
  BY <1>6 DEF Fronted, Dropped
<1> DEFINE F == <<k>> \o K
<1>10. F \in Seq(Key) /\ Len(F) = z + 1 /\ F[1] = k /\ \A i \in 1 .. z : F[i + 1] = K[i]
  BY <1>6, ConsElements
<1> HIDE DEF F
<1>11. ASSUME NEW i \in 1 .. (z + 1)
       PROVE  d[M[i]].key = F[i]
  <2>1. CASE i = 1
    BY <1>2, <1>4, <1>10, <2>1
  <2>2. CASE i # 1
    <3>1. i - 1 \in 1 .. z /\ (i - 1) + 1 = i
      BY <1>1, <2>2
    <3>2. M[i] = L[i - 1] /\ F[i] = K[i - 1] /\ L[i - 1] \in Addr /\ L[i - 1] # n
      BY <1>4, <1>5, <1>10, <3>1
    <3> QED
      BY <1>2, <1>7, <3>1, <3>2
  <2> QED
    BY <2>1, <2>2
<1>12. KeysOf(d, M) = F
  <2>1. KeysOf(d, M) = [i \in 1 .. (z + 1) |-> F[i]]
    BY <1>4, <1>11 DEF KeysOf
  <2>2. F = [i \in 1 .. (z + 1) |-> F[i]]
    BY <1>10
  <2> QED
    BY <2>1, <2>2
<1>13. KeysOf(d, M) = Fronted(K, k)
  BY <1>9, <1>12 DEF F
<1> QED
  BY <1>4, <1>8, <1>13 DEF d, g, M, K, z

\* The map without the key k.
Shrunk(m, k) == [j \in DOMAIN m \ {k} |-> m[j]]

\* The last node leaves, and its key the map.
LEMMA FiledFront ==
    ASSUME NEW c, NEW m, NEW L, Filed(c, m, L), L # <<>>
    PROVE  /\ Filed(c, Shrunk(m, c[Last(L)].key), Front(L))
           /\ Len(Front(L)) = Len(L) - 1
           /\ KeysOf(c, Front(L)) = Front(KeysOf(c, L))
           /\ c[Last(L)].key = Last(KeysOf(c, L))
<1> DEFINE K == KeysOf(c, L)
           z == Len(L)
           b == Last(L)
           M == Front(L)
           s == Shrunk(m, c[b].key)
<1>1. /\ c \in [Addr -> Content] /\ L \in Seq(Addr) /\ NoRepeat(L)
      /\ m \in [DOMAIN m -> Addr] /\ DOMAIN m \subseteq Key
      /\ \A j \in DOMAIN m : m[j] \in ToSet(L) /\ c[m[j]].key = j
      /\ \A a \in ToSet(L) : c[a].key \in DOMAIN m /\ m[c[a].key] = a
  BY DEF Filed
<1>2. /\ M \in Seq(Addr) /\ NoRepeat(M) /\ Len(M) = z - 1 /\ ToSet(M) = ToSet(L) \ {b}
      /\ b \in ToSet(L) /\ z \in Nat \ {0}
  BY <1>1, FrontLast, FrontElements
<1>3. b = L[z] /\ \A i \in 1 .. (z - 1) : M[i] = L[i]
  BY <1>1, <1>2 DEF Front, Last
<1>4. K \in Seq(Key) /\ Len(K) = z /\ K # <<>>
  BY <1>2, KeysListed
<1>5. \A i \in 1 .. z : K[i] = c[L[i]].key
  BY DEF KeysOf
<1>6. /\ Front(K) \in Seq(Key) /\ Len(Front(K)) = z - 1 /\ Last(K) = K[z]
      /\ \A i \in 1 .. (z - 1) : Front(K)[i] = K[i]
  <2>1. Front(K) \in Seq(Key) /\ Len(Front(K)) = z - 1
    BY <1>4, FrontLast
  <2> QED
    BY <1>2, <1>4, <2>1 DEF Front, Last
<1>7. /\ s \in [DOMAIN s -> Addr] /\ DOMAIN s = DOMAIN m \ {c[b].key}
      /\ \A j \in DOMAIN s : s[j] = m[j]
  BY <1>1 DEF Shrunk
<1> HIDE DEF K, z, b, M, s
<1>8. Filed(c, s, M)
  <2>1. \A j \in DOMAIN s : s[j] \in ToSet(M) /\ c[s[j]].key = j
    BY <1>1, <1>2, <1>7
  <2>2. \A a \in ToSet(M) : c[a].key \in DOMAIN s /\ s[c[a].key] = a
    BY <1>1, <1>2, <1>7
  <2> QED
    BY <1>1, <1>2, <1>7, <2>1, <2>2 DEF Filed
<1>9. KeysOf(c, M) = Front(K)
  <2>1. KeysOf(c, M) = [i \in 1 .. (z - 1) |-> K[i]]
    BY <1>2, <1>3, <1>5 DEF KeysOf
  <2>2. Front(K) = [i \in 1 .. (z - 1) |-> K[i]]
    BY <1>6
  <2> QED
    BY <2>1, <2>2
<1>10. c[b].key = Last(K)
  BY <1>2, <1>3, <1>5, <1>6
<1> QED
  BY <1>2, <1>8, <1>9, <1>10 DEF K, z, b, M, s

\* The node before the tail is the last, and remove() leaves the others.
LEMMA FrontChain ==
    ASSUME NEW L \in Seq(Addr), NoRepeat(L), L # <<>>, NEW l, Chained(l, L)
    PROVE  l.prev[tail] = Last(L) /\ Chained(remove(l, Last(L)), Front(L))
<1> DEFINE z == Len(L)
<1>1. z \in Nat \ {0} /\ Front(L) \in Seq(Addr) /\ Len(Front(L)) = z - 1
  BY FrontLast
<1>2. Last(L) = L[z] /\ \A i \in 1 .. (z - 1) : Front(L)[i] = L[i]
  BY <1>1 DEF Front, Last
<1>3. l.prev[tail] = Last(L)
  <2>1. z \in 0 .. z /\ z \in 1 .. z
    BY <1>1
  <2>2. Nd(L, z + 1) = tail /\ Nd(L, z) = L[z]
    BY <2>1, Nodes
  <2> QED
    BY <1>2, <2>1, <2>2 DEF Chained
<1>4. RemoveAt(L, z) = Front(L)
  <2>1. z \in 1 .. z
    BY <1>1
  <2>2. /\ RemoveAt(L, z) \in Seq(Addr) /\ Len(RemoveAt(L, z)) = z - 1
        /\ \A i \in 1 .. (z - 1) : RemoveAt(L, z)[i] = L[IF i < z THEN i ELSE i + 1]
    BY <2>1, RemoveAtProperties, RemoveAtIndex
  <2>3. \A i \in 1 .. (z - 1) : RemoveAt(L, z)[i] = Front(L)[i]
    BY <1>1, <1>2, <2>2
  <2> QED
    BY <1>1, <2>2, <2>3, SeqEqual
<1>5. Chained(remove(l, L[z]), RemoveAt(L, z))
  BY <1>1, RemoveChain
<1> QED
  BY <1>2, <1>3, <1>4, <1>5

-----------------------------------------------------------------------------
(***************************************************************************)
(* The inductive invariant.                                                *)
(***************************************************************************)

\* The types of the rest; and every key has the value put last.
Kinds ==
    /\ size \in 0 .. Capacity
    /\ reading \in [Thread -> [key : Key, node : Addr] \cup {Idle}]
    /\ since \in [Thread -> SUBSET Key] /\ \A t \in Thread : IsFiniteSet(since[t])
    /\ latest \in [DOMAIN latest -> Val]
    /\ \A k \in DOMAIN map : k \in DOMAIN latest /\ content[map[k]].val = latest[k]

\* The list is L.
Listed(L) == Filed(content, map, L) /\ Len(L) = size /\ Chained(links, L)

Windows(L) == \A t \in Thread : Window(KeysOf(content, L), map, reading[t], since[t])

CacheInv == Kinds /\ \E L : Listed(L) /\ Windows(L)

\* The sets of keys used since stay finite.
LEMMA UsedKinds ==
    ASSUME Kinds, NEW k \in Key
    PROVE  /\ Used(k) \in [Thread -> SUBSET Key]
           /\ \A t \in Thread : /\ IsFiniteSet(Used(k)[t])
                                /\ reading[t] # Idle => Used(k)[t] = since[t] \cup {k}
<1>1. since \in [Thread -> SUBSET Key] /\ \A t \in Thread : IsFiniteSet(since[t])
  BY DEF Kinds
<1>2. \A t \in Thread : Used(k)[t] = IF reading[t] = Idle THEN {} ELSE since[t] \cup {k}
  BY DEF Used
<1>3. Used(k) \in [Thread -> SUBSET Key]
  BY <1>1 DEF Used
<1>4. ASSUME NEW t \in Thread
      PROVE  IsFiniteSet(Used(k)[t])
  <2>1. IsFiniteSet(since[t] \cup {k}) /\ IsFiniteSet({})
    BY <1>1, FS_AddElement, FS_EmptySet
  <2> QED
    BY <1>2, <2>1
<1> QED
  BY <1>2, <1>3, <1>4

\* The windows when k is used.
LEMMA UsedWindows ==
    ASSUME Kinds, NEW L, Listed(L), Windows(L), NEW k \in Key, NEW m2,
           \A j \in ToSet(KeptOf(KeysOf(content, L), k)) \cap DOMAIN map :
              j \in DOMAIN m2 /\ m2[j] = map[j],
           NEW t \in Thread
    PROVE  Window(KeptOf(KeysOf(content, L), k), m2, reading[t], Used(k)[t])
<1> DEFINE K == KeysOf(content, L)
<1>1. K \in Seq(Key) /\ NoRepeat(K)
  BY KeysListed DEF Listed
<1>2. Window(K, map, reading[t], since[t]) /\ IsFiniteSet(since[t])
  BY DEF Windows, Kinds
<1> HIDE DEF K
<1>3. Window(KeptOf(K, k), m2, reading[t], since[t] \cup {k})
  BY <1>1, <1>2, WindowStays DEF K
<1>4. CASE reading[t] = Idle
  BY <1>4 DEF Window
<1>5. CASE reading[t] # Idle
  <2>1. Used(k)[t] = since[t] \cup {k}
    BY <1>5, UsedKinds
  <2> QED
    BY <1>3, <2>1 DEF K
<1> QED
  BY <1>4, <1>5

\* The keys of the list are those of the map, and there is room for them.
LEMMA ListedKeys ==
    ASSUME Kinds, NEW L, Listed(L)
    PROVE  /\ KeysOf(content, L) \in Seq(Key) /\ NoRepeat(KeysOf(content, L))
           /\ Len(KeysOf(content, L)) = size /\ ToSet(KeysOf(content, L)) = DOMAIN map
           /\ size \in Nat /\ size <= Capacity /\ Capacity \in Nat \ {0}
           /\ \A k \in DOMAIN map : /\ k \in Key /\ map[k] \in ToSet(L) /\ map[k] \in Addr
                                    /\ content[map[k]].key = k
           /\ Allocated = ToSet(L)
<1>1. Filed(content, map, L) /\ Len(L) = size /\ size \in 0 .. Capacity
  BY DEF Listed, Kinds
<1>2. /\ KeysOf(content, L) \in Seq(Key) /\ NoRepeat(KeysOf(content, L))
      /\ Len(KeysOf(content, L)) = size /\ ToSet(KeysOf(content, L)) = DOMAIN map
  BY <1>1, KeysListed
<1>3. /\ \A k \in DOMAIN map : /\ k \in Key /\ map[k] \in ToSet(L) /\ map[k] \in Addr
                               /\ content[map[k]].key = k
      /\ \A n \in ToSet(L) : content[n].key \in DOMAIN map /\ map[content[n].key] = n
  BY <1>1 DEF Filed
<1>4. Allocated = ToSet(L)
  BY <1>3 DEF Allocated
<1> QED
  BY <1>1, <1>2, <1>3, <1>4, CacheAssumption

\* get(), up to the unlock.
LEMMA GetStep ==
    ASSUME Kinds, NEW L, Listed(L), Windows(L), NEW t \in Thread, NEW k \in Key, get(t, k)
    PROVE  /\ Kinds'
           /\ \E M : /\ Listed(M)' /\ Windows(M)'
                     /\ KeysOf(content', M) = Fronted(KeysOf(content, L), k)
<1> DEFINE K == KeysOf(content, L)
           a == map[k]
           M == Fronted(L, a)
<1>1. /\ k \in DOMAIN map /\ links' = move2head(links, a)
      /\ reading' = [reading EXCEPT ![t] = [key |-> k, node |-> a]]
      /\ since' = [Used(k) EXCEPT ![t] = {k}]
      /\ content' = content /\ map' = map /\ size' = size /\ latest' = latest
  BY DEF get
<1>2. /\ K \in Seq(Key) /\ NoRepeat(K) /\ k \in ToSet(K) /\ Len(K) <= Capacity
      /\ a \in ToSet(L) /\ a \in Addr /\ content[a].key = k
  BY <1>1, ListedKeys
<1>3. L \in Seq(Addr) /\ NoRepeat(L) /\ Filed(content, map, L) /\ Len(L) = size
      /\ Chained(links, L)
  BY DEF Listed, Filed
<1>4. Filed(content, map, M) /\ Len(M) = size
  BY <1>2, <1>3, FiledFronted
<1>5. Chained(links', M)
  BY <1>1, <1>2, <1>3, MoveChain
<1>6. KeysOf(content, M) = Fronted(K, k)
  BY <1>2, <1>3, KeysFronted
<1>7. KeptOf(K, k) = Fronted(K, k)
  BY <1>2, KeptPresent
<1>8. Kinds'
  <2>1. /\ Used(k) \in [Thread -> SUBSET Key] /\ \A u \in Thread : IsFiniteSet(Used(k)[u])
    BY UsedKinds
  <2>2. since' \in [Thread -> SUBSET Key] /\ \A u \in Thread : IsFiniteSet(since'[u])
    BY <1>1, <2>1, FS_Singleton
  <2>3. reading' \in [Thread -> [key : Key, node : Addr] \cup {Idle}]
    BY <1>1, <1>2 DEF Kinds
  <2> QED
    BY <1>1, <2>2, <2>3 DEF Kinds
<1>9. ASSUME NEW u \in Thread
      PROVE  Window(KeysOf(content', M), map', reading'[u], since'[u])
  <2>1. CASE u # t
    <3>1. reading'[u] = reading[u] /\ since'[u] = Used(k)[u]
      BY <1>1, <2>1, UsedKinds DEF Kinds
    <3>2. Window(KeptOf(K, k), map, reading[u], Used(k)[u])
      BY UsedWindows
    <3> QED
      BY <1>1, <1>6, <1>7, <3>1, <3>2
  <2>2. CASE u = t
    <3>1. reading'[u] = [key |-> k, node |-> a] /\ since'[u] = {k}
      BY <1>1, <2>2, UsedKinds DEF Kinds
    <3>2. Fronted(K, k) \in Seq(Key) /\ Fronted(K, k) # <<>> /\ Fronted(K, k)[1] = k
      BY <1>2, FrontedElements
    <3>3. 1 \in 1 .. Len(Fronted(K, k)) /\ \A j \in 1 .. 1 : Fronted(K, k)[j] \in {k}
      BY <3>2
    <3>4. Near(Fronted(K, k), k, {k})
      BY <3>2, <3>3 DEF Near
    <3> QED
      BY <1>1, <1>6, <3>1, <3>4 DEF Window
  <2> QED
    BY <2>1, <2>2
<1> HIDE DEF K, a, M
<1>10. PICK X : X = M
  OBVIOUS
<1>11. Listed(X)' /\ Windows(X)'
  BY <1>1, <1>4, <1>5, <1>9, <1>10 DEF Listed, Windows
<1> QED
  BY <1>1, <1>6, <1>8, <1>10, <1>11 DEF K

\* get(), after the unlock.
LEMMA ReturnStep ==
    ASSUME Kinds, NEW L, Listed(L), Windows(L), NEW t \in Thread, getReturn(t)
    PROVE  Kinds' /\ Listed(L)' /\ Windows(L)'
<1>1. /\ reading' = [reading EXCEPT ![t] = Idle] /\ since' = [since EXCEPT ![t] = {}]
      /\ UNCHANGED <<links, content, map, size, latest>>
  BY DEF getReturn
<1>2. Kinds'
  BY <1>1, FS_EmptySet DEF Kinds
<1>3. Windows(L)'
  <2> SUFFICES ASSUME NEW u \in Thread
               PROVE  Window(KeysOf(content, L), map, reading'[u], since'[u])
    BY <1>1 DEF Windows
  <2>1. CASE u = t
    BY <1>1, <2>1 DEF Window, Kinds
  <2>2. CASE u # t
    BY <1>1, <2>2 DEF Windows, Kinds
  <2> QED
    BY <2>1, <2>2
<1> QED
  BY <1>1, <1>2, <1>3 DEF Listed

\* put() of a key that is present.
LEMMA PutPresentStep ==
    ASSUME Kinds, NEW L, Listed(L), Windows(L), NEW k \in Key, NEW v \in Val,
           putPresent(k, v)
    PROVE  /\ Kinds'
           /\ \E M : /\ Listed(M)' /\ Windows(M)'
                     /\ KeysOf(content', M) = KeptOf(KeysOf(content, L), k)
<1> DEFINE K == KeysOf(content, L)
           a == map[k]
           M == Fronted(L, a)
<1>1. /\ k \in DOMAIN map /\ links' = move2head(links, a)
      /\ content' = Revalued(content, a, v)
      /\ since' = Used(k) /\ latest' = Latest(k, v)
      /\ map' = map /\ size' = size /\ reading' = reading
  BY DEF putPresent, Revalued
<1>2. /\ K \in Seq(Key) /\ NoRepeat(K) /\ k \in ToSet(K) /\ Len(K) <= Capacity
      /\ a \in ToSet(L) /\ a \in Addr /\ content[a].key = k
      /\ \A j \in DOMAIN map : map[j] \in Addr /\ content[map[j]].key = j
  BY <1>1, ListedKeys
<1>3. L \in Seq(Addr) /\ NoRepeat(L) /\ Filed(content, map, L) /\ Len(L) = size
      /\ Chained(links, L)
  BY DEF Listed, Filed
<1>4. Filed(content, map, M) /\ Len(M) = size
  BY <1>2, <1>3, FiledFronted
<1>5. /\ Filed(content', map, M) /\ KeysOf(content', M) = KeysOf(content, M)
      /\ \A n \in Addr : content'[n].val = IF n = a THEN v ELSE content[n].val
  BY <1>1, <1>2, <1>4, FiledRevalued
<1>6. Chained(links', M)
  BY <1>1, <1>2, <1>3, MoveChain
<1>7. KeysOf(content', M) = KeptOf(K, k)
  <2>1. KeysOf(content, M) = Fronted(K, k)
    BY <1>2, <1>3, KeysFronted
  <2>2. KeptOf(K, k) = Fronted(K, k)
    BY <1>2, KeptPresent
  <2> QED
    BY <1>5, <2>1, <2>2
<1>8. Kinds'
  <2>1. /\ since' \in [Thread -> SUBSET Key] /\ \A u \in Thread : IsFiniteSet(since'[u])
    BY <1>1, UsedKinds
  <2>2. /\ latest' \in [DOMAIN latest' -> Val] /\ DOMAIN latest' = DOMAIN latest \cup {k}
        /\ \A j \in DOMAIN latest' : latest'[j] = IF j = k THEN v ELSE latest[j]
    BY <1>1 DEF Latest, Kinds
  <2>3. ASSUME NEW j \in DOMAIN map
        PROVE  j \in DOMAIN latest' /\ content'[map[j]].val = latest'[j]
    <3>1. j \in DOMAIN latest /\ content[map[j]].val = latest[j]
      BY DEF Kinds
    <3>2. map[j] = a <=> j = k
      BY <1>2
    <3> QED
      BY <1>2, <1>5, <2>2, <3>1, <3>2
  <2> QED
    BY <1>1, <2>1, <2>2, <2>3 DEF Kinds
<1>9. ASSUME NEW u \in Thread
      PROVE  Window(KeysOf(content', M), map', reading'[u], since'[u])
  <2>1. Window(KeptOf(K, k), map, reading[u], Used(k)[u])
    BY UsedWindows
  <2> QED
    BY <1>1, <1>7, <2>1
<1> HIDE DEF K, a, M
<1>10. PICK X : X = M
  OBVIOUS
<1>11. Listed(X)' /\ Windows(X)'
  BY <1>1, <1>4, <1>5, <1>6, <1>9, <1>10 DEF Listed, Windows
<1> QED
  BY <1>7, <1>8, <1>10, <1>11 DEF K

\* put() of a new key.
LEMMA PutAbsentStep ==
    ASSUME Kinds, NEW L, Listed(L), Windows(L), NEW k \in Key, NEW v \in Val,
           NEW n \in Addr, putAbsent(k, v, n)
    PROVE  /\ Kinds'
           /\ \E M : /\ Listed(M)' /\ Windows(M)'
                     /\ KeysOf(content', M) = KeptOf(KeysOf(content, L), k)
<1> DEFINE K == KeysOf(content, L)
           N == <<n>> \o L
           longer == add2head(links, n)
           grown == Grown(map, k, n)
           last == longer.prev[tail]
<1>1. /\ k \notin DOMAIN map /\ n \notin Allocated
      /\ content' = Stored(content, n, k, v)
      /\ since' = Used(k) /\ latest' = Latest(k, v) /\ reading' = reading
      /\ IF TooMany(size + 1)
         THEN /\ links' = remove(longer, last)
              /\ map' = Shrunk(grown, content'[last].key)
              /\ size' = size
         ELSE links' = longer /\ map' = grown /\ size' = size + 1
  BY DEF putAbsent, Stored, Grown, Shrunk
<1>2. /\ K \in Seq(Key) /\ NoRepeat(K) /\ Len(K) = size /\ ToSet(K) = DOMAIN map
      /\ size \in Nat /\ size <= Capacity /\ Capacity \in Nat \ {0} /\ n \notin ToSet(L)
      /\ \A j \in DOMAIN map : map[j] \in ToSet(L) /\ map[j] \in Addr
  BY <1>1, ListedKeys
<1>3. L \in Seq(Addr) /\ NoRepeat(L) /\ Filed(content, map, L) /\ Len(L) = size
      /\ Chained(links, L)
  BY DEF Listed, Filed
<1>4. /\ Filed(content', grown, N) /\ Len(N) = size + 1
      /\ KeysOf(content', N) = Fronted(K, k)
  BY <1>1, <1>2, <1>3, FiledAdd
<1>5. N \in Seq(Addr) /\ NoRepeat(N) /\ N # <<>>
  BY <1>3, <1>4, <1>2, ConsElements DEF Filed
<1>6. Chained(longer, N)
  BY <1>2, <1>3, AddChain
<1>7. /\ Fronted(K, k) \in Seq(Key) /\ NoRepeat(Fronted(K, k)) /\ Fronted(K, k) # <<>>
      /\ Len(Fronted(K, k)) = size + 1
      /\ ToSet(Fronted(K, k)) = ToSet(K) \cup {k}
  BY <1>1, <1>2, FrontedElements
<1>8. /\ DOMAIN grown = DOMAIN map \cup {k} /\ grown[k] = n
      /\ \A j \in DOMAIN map : grown[j] = map[j] /\ j # k
  BY <1>1 DEF Grown
<1> HIDE DEF N, longer, grown
<1>9. PICK M : /\ Filed(content', map', M) /\ Len(M) = size' /\ Chained(links', M)
               /\ KeysOf(content', M) = KeptOf(K, k)
               /\ size' \in 0 .. Capacity
               /\ DOMAIN map' \subseteq DOMAIN grown
               /\ \A j \in DOMAIN map' : map'[j] = grown[j]
               /\ ToSet(KeptOf(K, k)) = DOMAIN map'
  <2>1. CASE TooMany(size + 1)
    <3>1. /\ links' = remove(longer, last) /\ map' = Shrunk(grown, content'[last].key)
          /\ size' = size /\ size + 1 > Capacity
      BY <1>1, <2>1 DEF TooMany
    <3>2. last = Last(N) /\ Chained(links', Front(N))
      BY <1>5, <1>6, <3>1, FrontChain
    <3>3. /\ Filed(content', map', Front(N)) /\ Len(Front(N)) = size
          /\ KeysOf(content', Front(N)) = Front(Fronted(K, k))
      BY <1>2, <1>4, <1>5, <3>1, <3>2, FiledFront
    <3>4. KeptOf(K, k) = Front(Fronted(K, k))
      BY <1>7, <3>1 DEF KeptOf
    <3>5. DOMAIN map' \subseteq DOMAIN grown /\ \A j \in DOMAIN map' : map'[j] = grown[j]
      BY <3>1 DEF Shrunk
    <3>6. ToSet(KeptOf(K, k)) = DOMAIN map'
      BY <3>3, <3>4, KeysListed
    <3> QED
      BY <1>2, <3>1, <3>2, <3>3, <3>4, <3>5, <3>6
  <2>2. CASE ~TooMany(size + 1)
    <3>1. links' = longer /\ map' = grown /\ size' = size + 1 /\ ~(size + 1 > Capacity)
      BY <1>1, <2>2 DEF TooMany
    <3>2. KeptOf(K, k) = Fronted(K, k)
      BY <1>7, <3>1 DEF KeptOf
    <3>3. ToSet(KeptOf(K, k)) = DOMAIN map'
      BY <1>2, <1>7, <1>8, <3>1, <3>2
    <3> QED
      BY <1>2, <1>4, <1>6, <3>1, <3>2, <3>3
  <2> QED
    BY <2>1, <2>2
<1>10. Kinds'
  <2>1. /\ since' \in [Thread -> SUBSET Key] /\ \A u \in Thread : IsFiniteSet(since'[u])
    BY <1>1, UsedKinds
  <2>2. /\ latest' \in [DOMAIN latest' -> Val] /\ DOMAIN latest' = DOMAIN latest \cup {k}
        /\ \A j \in DOMAIN latest' : latest'[j] = IF j = k THEN v ELSE latest[j]
    BY <1>1 DEF Latest, Kinds
  <2>3. /\ content'[n].val = v /\ \A a \in Addr : a # n => content'[a] = content[a]
    BY <1>1, <1>3 DEF Stored, Filed
  <2>4. ASSUME NEW j \in DOMAIN map'
        PROVE  j \in DOMAIN latest' /\ content'[map'[j]].val = latest'[j]
    <3>1. CASE j = k
      BY <1>8, <1>9, <2>2, <2>3, <3>1
    <3>2. CASE j # k
      <4>1. j \in DOMAIN map /\ map'[j] = map[j] /\ map[j] \in Addr /\ map[j] # n
        BY <1>2, <1>8, <1>9, <3>2
      <4>2. j \in DOMAIN latest /\ content[map[j]].val = latest[j]
        BY <4>1 DEF Kinds
      <4> QED
        BY <2>2, <2>3, <3>2, <4>1, <4>2
    <3> QED
      BY <3>1, <3>2
  <2>5. size' \in 0 .. Capacity
    BY <1>9
  <2> QED
    BY <1>1, <2>1, <2>2, <2>4, <2>5 DEF Kinds
<1>11. ASSUME NEW u \in Thread
       PROVE  Window(KeysOf(content', M), map', reading'[u], since'[u])
  <2>1. \A j \in ToSet(KeptOf(K, k)) \cap DOMAIN map : j \in DOMAIN map' /\ map'[j] = map[j]
    BY <1>8, <1>9
  <2>2. Window(KeptOf(K, k), map', reading[u], Used(k)[u])
    BY <2>1, UsedWindows
  <2> QED
    BY <1>1, <1>9, <2>2
<1> HIDE DEF K
<1>12. Listed(M)' /\ Windows(M)'
  BY <1>9, <1>11 DEF Listed, Windows
<1> QED
  BY <1>9, <1>10, <1>12 DEF K

-----------------------------------------------------------------------------
(***************************************************************************)
(* The theorems.                                                           *)
(***************************************************************************)

\* The cache starts empty: the sentinels point at each other.
LEMMA InitCache ==
    ASSUME Init
    PROVE  CacheInv
<1> DEFINE L == <<>>
<1>1. /\ links = [next |-> [n \in Node |-> IF n = head THEN tail ELSE head],
                  prev |-> [n \in Node |-> head]]
      /\ content = [n \in Addr |-> CHOOSE c \in Content : TRUE]
      /\ map = [k \in {} |-> head] /\ size = 0 /\ reading = [t \in Thread |-> Idle]
      /\ since = [t \in Thread |-> {}] /\ latest = [k \in {} |-> k]
  BY DEF Init
<1>2. content \in [Addr -> Content]
  <2>1. \E c : c \in Content
    <3>1. PICK k \in Key, v \in Val : TRUE
      BY CacheAssumption
    <3>2. [key |-> k, val |-> v] \in Content
      BY DEF Content
    <3> QED
      BY <3>2
  <2>2. (CHOOSE c \in Content : TRUE) \in Content
    BY <2>1
  <2> QED
    BY <1>1, <2>2
<1>3. L \in Seq(Addr) /\ Len(L) = 0 /\ ToSet(L) = {} /\ NoRepeat(L)
  BY DEF ToSet, NoRepeat
<1>4. Filed(content, map, L)
  BY <1>1, <1>2, <1>3 DEF Filed
<1>5. Chained(links, L)
  <2>1. Nd(L, 0) = head /\ Nd(L, 1) = tail /\ head \in Node /\ tail \in Node /\ head # tail
    BY <1>3, CacheAssumption DEF Nd, Node
  <2>2. /\ links.next \in [Node -> Node] /\ links.prev \in [Node -> Node]
        /\ links.next[head] = tail /\ links.prev[tail] = head
    BY <1>1, <2>1
  <2>3. links \in [next : [Node -> Node], prev : [Node -> Node]]
    BY <1>1, <2>1
  <2> QED
    BY <1>3, <2>1, <2>2, <2>3 DEF Chained
<1>6. Kinds
  BY <1>1, FS_EmptySet, CacheAssumption DEF Kinds
<1>7. Windows(L)
  BY <1>1 DEF Windows, Window
<1> QED
  BY <1>1, <1>3, <1>4, <1>5, <1>6, <1>7 DEF CacheInv, Listed

\* Every step keeps the invariant.
LEMMA NextCache ==
    ASSUME CacheInv, [Next]_vars
    PROVE  CacheInv'
<1>1. Kinds
  BY DEF CacheInv
<1>2. PICK L : Listed(L) /\ Windows(L)
  BY DEF CacheInv
<1>3. CASE \E t \in Thread, k \in Key : get(t, k)
  BY <1>1, <1>2, <1>3, GetStep DEF CacheInv
<1>4. CASE \E t \in Thread : getReturn(t)
  BY <1>1, <1>2, <1>4, ReturnStep DEF CacheInv
<1>5. CASE \E k \in Key, v \in Val : putPresent(k, v)
  BY <1>1, <1>2, <1>5, PutPresentStep DEF CacheInv
<1>6. CASE \E k \in Key, v \in Val, n \in Addr : putAbsent(k, v, n)
  BY <1>1, <1>2, <1>6, PutAbsentStep DEF CacheInv
<1>7. CASE UNCHANGED vars
  <2>1. Kinds' /\ Listed(L)' /\ Windows(L)'
    BY <1>1, <1>2, <1>7 DEF vars, Kinds, Listed, Windows
  <2> QED
    BY <2>1 DEF CacheInv
<1> QED
  BY <1>3, <1>4, <1>5, <1>6, <1>7 DEF Next

\* The invariant holds throughout.
LEMMA AlwaysCache == Spec => []CacheInv
BY InitCache, NextCache, PTL DEF Spec

\* The state of the cache has its type; in particular size never exceeds the
\* capacity.
THEOREM CacheTypeCorrect == Spec => []TypeOK
<1>1. ASSUME CacheInv
      PROVE  TypeOK
  <2>1. PICK L : Listed(L)
    BY <1>1 DEF CacheInv
  <2>2. /\ Kinds /\ Filed(content, map, L) /\ Chained(links, L)
    BY <1>1, <2>1 DEF CacheInv, Listed
  <2>3. DOMAIN map \subseteq DOMAIN latest
    BY <2>2 DEF Kinds
  <2> QED
    BY <2>2, <2>3 DEF Kinds, Filed, Chained, TypeOK
<1> QED
  BY <1>1, AlwaysCache, PTL

\* At is the walk of the pointers at hand.
LEMMA AtIsWalk == At = AtOf(links, size)
BY DEF At, AtOf

\* The list and the map of LRU_Cache hold the same nodes, and the pointers lead
\* through them in both directions, for any capacity and any number of threads.
THEOREM CacheListMatchesMap == Spec => []ListMatchesMap
<1>1. ASSUME CacheInv
      PROVE  ListMatchesMap
  <2>1. PICK L : Listed(L)
    BY <1>1 DEF CacheInv
  <2>2. /\ Filed(content, map, L) /\ Chained(links, L) /\ Len(L) = size
        /\ L \in Seq(Addr) /\ NoRepeat(L) /\ size \in Nat
    BY <2>1 DEF Listed, Filed
  <2>3. \A i \in 0 .. (size + 1) : At[i] = Nd(L, i)
    BY <2>2, AtIsWalk, WalkList
  <2>4. /\ Nd(L, size + 1) = tail
        /\ \A i \in 1 .. size : Nd(L, i) = L[i] /\ L[i] \in Addr /\ L[i] \in ToSet(L)
    BY <2>2, Nodes, Elements
  <2>5. size = Cardinality(DOMAIN map)
    BY <2>2, KeysListed
  <2>6. At[size + 1] = tail
    BY <2>2, <2>3, <2>4
  <2>7. ASSUME NEW i \in 1 .. (size + 1)
        PROVE  links.prev[At[i]] = At[i - 1]
    <3>1. i - 1 \in 0 .. size /\ (i - 1) + 1 = i /\ i \in 0 .. (size + 1)
          /\ i - 1 \in 0 .. (size + 1)
      BY <2>2
    <3>2. links.prev[Nd(L, i)] = Nd(L, i - 1)
      BY <2>2, <3>1 DEF Chained
    <3> QED
      BY <2>3, <3>1, <3>2
  <2>8. ASSUME NEW i \in 1 .. size
        PROVE  /\ At[i] \in Addr /\ content[At[i]].key \in DOMAIN map
               /\ map[content[At[i]].key] = At[i]
    <3>1. At[i] = L[i] /\ L[i] \in Addr /\ L[i] \in ToSet(L)
      BY <2>2, <2>3, <2>4
    <3> QED
      BY <2>2, <3>1 DEF Filed
  <2> QED
    BY <2>5, <2>6, <2>7, <2>8 DEF ListMatchesMap
<1> QED
  BY <1>1, AlwaysCache, PTL

\* The node that get() reads after the unlock is still that of its key, until
\* more keys have been used than the cache has room for.
THEOREM CacheLateReadIsSafe == Spec => []LateReadIsSafe
<1>1. CacheInv => LateReadIsSafe
  BY DEF CacheInv, Windows, Window, LateReadIsSafe
<1> QED
  BY <1>1, AlwaysCache, PTL

-----------------------------------------------------------------------------
(***************************************************************************)
(* The abstract cache.                                                     *)
(***************************************************************************)

\* What LRU's order and value are mapped to.
Order == [i \in 1 .. size |-> content[At[i]].key]
Value == [k \in DOMAIN map |-> content[map[k]].val]

\* The order is made of the keys of the list.
LEMMA OrderListed ==
    ASSUME NEW L, Listed(L)
    PROVE  Order = KeysOf(content, L)
<1>1. L \in Seq(Addr) /\ NoRepeat(L) /\ Chained(links, L) /\ Len(L) = size
  BY DEF Listed, Filed
<1>2. [i \in 1 .. Len(L) |-> content[AtOf(links, Len(L))[i]].key] = KeysOf(content, L)
  BY <1>1, OrderOfKeys
<1>3. Order = [i \in 1 .. size |-> content[AtOf(links, size)[i]].key]
  BY AtIsWalk DEF Order
<1> QED
  BY <1>1, <1>2, <1>3

\* So it is after a step.
LEMMA NextOrderListed ==
    ASSUME NEW L, Listed(L)'
    PROVE  Order' = KeysOf(content', L)
<1>1. L \in Seq(Addr) /\ NoRepeat(L) /\ Chained(links', L) /\ Len(L) = size'
  BY DEF Listed, Filed
<1>2. [i \in 1 .. Len(L) |-> content'[AtOf(links', Len(L))[i]].key] = KeysOf(content', L)
  BY <1>1, OrderOfKeys
<1>3. At' = AtOf(links', size')
  BY DEF At, AtOf
<1>4. Order' = [i \in 1 .. size' |-> content'[AtOf(links', size')[i]].key]
  BY <1>3 DEF Order
<1> QED
  BY <1>1, <1>2, <1>4

\* The abstract operators are the ones of the proofs above.
LEMMA AbstractOperators ==
    ASSUME NEW s, NEW k
    PROVE  Abstract!Touched(s, k) = Fronted(s, k) /\ Abstract!Kept(s, k) = KeptOf(s, k)
<1>1. Abstract!Touched(s, k) = Fronted(s, k)
  BY DEF Abstract!Touched, Fronted, Abstract!Dropped, Dropped, Abstract!RemoveAt, RemoveAt,
         Abstract!ToSet, ToSet
<1> QED
  BY <1>1 DEF Abstract!Kept, KeptOf, Abstract!Front, Front

\* The values of the keys are the ones put last.
LEMMA ValuesPut ==
    ASSUME Kinds', NEW L, Listed(L)', NEW k, NEW v, latest' = Latest(k, v),
           ToSet(Order') = DOMAIN map'
    PROVE  Value' = [j \in Abstract!ToSet(Order') |-> latest'[j]]
<1>1. Abstract!ToSet(Order') = DOMAIN map'
  BY DEF Abstract!ToSet, ToSet
<1>2. \A j \in DOMAIN map' : content'[map'[j]].val = latest'[j]
  BY DEF Kinds
<1> QED
  BY <1>1, <1>2 DEF Value

\* Every step is one of the abstract cache, or leaves it unchanged.
LEMMA AbstractStep ==
    ASSUME CacheInv, [Next]_vars
    PROVE  [Abstract!LRUNext]_(Abstract!lruVars)
<1>1. Kinds
  BY DEF CacheInv
<1>2. PICK L : Listed(L) /\ Windows(L)
  BY DEF CacheInv
<1>3. Order = KeysOf(content, L) /\ ToSet(Order) = DOMAIN map
  BY <1>1, <1>2, OrderListed, ListedKeys
<1>4. ASSUME NEW k \in Key, NEW v \in Val, Kinds', latest' = Latest(k, v),
             \E M : Listed(M)' /\ KeysOf(content', M) = KeptOf(KeysOf(content, L), k)
      PROVE  Abstract!LRUPut(k, v)
  <2>1. PICK M : Listed(M)' /\ KeysOf(content', M) = KeptOf(KeysOf(content, L), k)
    BY <1>4
  <2>2. Order' = Abstract!Kept(Order, k)
    BY <1>3, <2>1, NextOrderListed, AbstractOperators
  <2>3. ToSet(Order') = DOMAIN map'
    <3>1. Filed(content', map', M)
      BY <2>1 DEF Listed
    <3>2. ToSet(KeysOf(content', M)) = DOMAIN map'
      BY <3>1, KeysListed
    <3> QED
      BY <2>1, <3>2, NextOrderListed
  <2>4. Value' = [j \in Abstract!ToSet(Order') |-> latest'[j]]
    BY <1>4, <2>1, <2>3, ValuesPut
  <2>5. latest' = [j \in DOMAIN latest \cup {k} |-> IF j = k THEN v ELSE latest[j]]
    BY <1>4 DEF Latest
  <2> QED
    BY <2>2, <2>4, <2>5 DEF Abstract!LRUPut, Order, Value
<1>5. CASE \E t \in Thread, k \in Key : get(t, k)
  <2>1. PICK t \in Thread, k \in Key : get(t, k)
    BY <1>5
  <2>2. PICK M : Listed(M)' /\ KeysOf(content', M) = Fronted(KeysOf(content, L), k)
    BY <1>1, <1>2, <2>1, GetStep
  <2>3. Order' = Abstract!Touched(Order, k)
    BY <1>3, <2>2, NextOrderListed, AbstractOperators
  <2>4. k \in DOMAIN map /\ latest' = latest /\ content' = content /\ map' = map
    BY <2>1 DEF get
  <2>5. k \in Abstract!ToSet(Order) /\ Value' = Value
    BY <1>3, <2>4 DEF Value, Abstract!ToSet, ToSet
  <2>6. Abstract!LRUGet(k)
    BY <2>3, <2>4, <2>5 DEF Abstract!LRUGet, Order, Value
  <2> QED
    BY <2>6 DEF Abstract!LRUNext
<1>6. CASE \E t \in Thread : getReturn(t)
  BY <1>6 DEF getReturn, Abstract!lruVars, At
<1>7. CASE \E k \in Key, v \in Val : putPresent(k, v)
  <2>1. PICK k \in Key, v \in Val : putPresent(k, v)
    BY <1>7
  <2>2. latest' = Latest(k, v)
    BY <2>1 DEF putPresent
  <2>3. Abstract!LRUPut(k, v)
    BY <1>1, <1>2, <1>4, <2>1, <2>2, PutPresentStep
  <2> QED
    BY <2>3 DEF Abstract!LRUNext
<1>8. CASE \E k \in Key, v \in Val, n \in Addr : putAbsent(k, v, n)
  <2>1. PICK k \in Key, v \in Val, n \in Addr : putAbsent(k, v, n)
    BY <1>8
  <2>2. latest' = Latest(k, v)
    BY <2>1 DEF putAbsent
  <2>3. Abstract!LRUPut(k, v)
    BY <1>1, <1>2, <1>4, <2>1, <2>2, PutAbsentStep
  <2> QED
    BY <2>3 DEF Abstract!LRUNext
<1>9. CASE UNCHANGED vars
  BY <1>9 DEF vars, Abstract!lruVars, At
<1> QED
  BY <1>5, <1>6, <1>7, <1>8, <1>9 DEF Next

\* The pointers, the map and the counter of LRU_Cache implement the abstract
\* least-recently-used cache.
THEOREM CacheImplementsLRU == Spec => ImplementsLRU
<1>1. Init => Abstract!LRUInit
  <2> SUFFICES ASSUME Init
               PROVE  Abstract!LRUInit
    OBVIOUS
  <2>1. map = [k \in {} |-> head] /\ size = 0 /\ latest = [k \in {} |-> k]
    BY DEF Init
  <2>2. Order = <<>>
    BY <2>1 DEF Order
  <2>3. Value = [k \in {} |-> k]
    BY <2>1 DEF Value
  <2> QED
    BY <2>1, <2>2, <2>3 DEF Abstract!LRUInit, Order, Value
<1>2. CacheInv /\ [Next]_vars => [Abstract!LRUNext]_(Abstract!lruVars)
  BY AbstractStep
<1> QED
  BY <1>1, <1>2, AlwaysCache, PTL DEF Spec, ImplementsLRU, Abstract!LRUSpec
=============================================================================
