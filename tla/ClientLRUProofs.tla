--------------------------- MODULE ClientLRUProofs ---------------------------
(***************************************************************************)
(* Proofs about the client's local cache, for any keys, values, _max_size  *)
(* and number of erasures: no iterator dangles, how far the list and the   *)
(* map outgrow _max_size, and that the cache is a lossy map.               *)
(*                                                                         *)
(* put() passes through a list that is one longer than the one it leaves.  *)
(* What holds of it, of the lists before and after, and of their maps is   *)
(* stated once, for any list, pairs and map.                               *)
(***************************************************************************)
EXTENDS ClientLRU, SequenceLemmas, FunctionTheorems

\* The list l with pairs p and the map m fit together: no node is in the list
\* twice, and each key in the map leads to its own pair in the list.
Fits(l, p, m) ==
    /\ l \in Seq(Node) /\ NoRepeat(l)
    /\ p \in [ToSet(l) -> Pair]
    /\ DOMAIN m \subseteq Key /\ m \in [DOMAIN m -> Node]
    /\ \A k \in DOMAIN m : m[k] \in ToSet(l) /\ p[m[k]].key = k

\* The nodes of l that no key of m leads to.
Unfiled(l, m) == {n \in ToSet(l) : \A k \in DOMAIN m : m[k] # n}

\* The inductive invariant.  The list's length is bounded because a put that
\* does not evict leaves a map of _max_size keys at most, and every node that
\* is not filed in it is the trace of an erasure.
CacheInv ==
    /\ Fits(list, item, map)
    /\ erased \in 0 .. MaxErases
    /\ DOMAIN map \subseteq DOMAIN latest /\ latest \in [DOMAIN latest -> Val]
    /\ Len(list) <= MaxSize + erased
    /\ Cardinality(Unfiled(list, map)) <= erased

-----------------------------------------------------------------------------
\* Each node of the list is filed for exactly one key, or is unfiled.
LEMMA Counting ==
    ASSUME NEW l, NEW p, NEW m, Fits(l, p, m)
    PROVE  /\ IsFiniteSet(Unfiled(l, m)) /\ IsFiniteSet(DOMAIN m)
           /\ Cardinality(Unfiled(l, m)) \in Nat /\ Cardinality(DOMAIN m) \in Nat
           /\ Len(l) = Cardinality(DOMAIN m) + Cardinality(Unfiled(l, m))
<1> DEFINE filed == {m[k] : k \in DOMAIN m}
           free == Unfiled(l, m)
<1>1. IsFiniteSet(ToSet(l)) /\ Cardinality(ToSet(l)) = Len(l)
  BY NoRepeatCardinality DEF Fits
<1>2. filed \subseteq ToSet(l) /\ free \subseteq ToSet(l)
  BY DEF Fits, Unfiled
<1>3. ToSet(l) = filed \cup free /\ filed \cap free = {}
  BY <1>2 DEF Unfiled
<1>4. IsFiniteSet(filed) /\ IsFiniteSet(free)
  BY <1>1, <1>2, FS_Subset
<1>5. IsFiniteSet(DOMAIN m) /\ Cardinality(DOMAIN m) = Cardinality(filed)
  <2>1. \A j, k \in DOMAIN m : m[j] = m[k] => j = k
    BY DEF Fits
  <2>2. m \in [DOMAIN m -> filed]
    BY DEF Fits
  <2>3. m \in Bijection(DOMAIN m, filed)
    BY <2>1, <2>2 DEF Bijection, Injection, Surjection, IsInjective
  <2>4. ExistsBijection(filed, DOMAIN m)
    BY <2>3, Fun_ExistsBijSymmetric DEF ExistsBijection
  <2> HIDE DEF filed
  <2> QED
    BY <1>4, <2>4, FS_Bijection
<1>6. Cardinality(filed) \in Nat /\ Cardinality(free) \in Nat
  BY <1>4, FS_CardinalityType
<1>7. Cardinality(filed \cup free)
        = Cardinality(filed) + Cardinality(free) - Cardinality(filed \cap free)
  BY <1>4, FS_Union
<1>8. Cardinality(filed \cap free) = 0
  BY <1>3, FS_EmptySet
<1> HIDE DEF filed, free
<1>9. Len(l) = Cardinality(DOMAIN m) + Cardinality(free)
  BY <1>1, <1>3, <1>5, <1>6, <1>7, <1>8
<1> QED
  BY <1>4, <1>5, <1>6, <1>9 DEF free

\* Eviction of the pair at the back.  When it is an orphan whose key is back
\* in the map, that key's newer node becomes one in its place.
LEMMA EvictFits ==
    ASSUME NEW l, NEW p, NEW m, Fits(l, p, m), l # <<>>
    PROVE  LET e == Evict(l, p, m)
               q == Restrict(p, ToSet(e.list))
           IN  /\ Fits(e.list, q, e.map)
               /\ Len(e.list) = Len(l) - 1
               /\ Cardinality(Unfiled(e.list, e.map)) <= Cardinality(Unfiled(l, m))
               /\ \E j \in Key : DOMAIN e.map = DOMAIN m \ {j}
               /\ \A k \in DOMAIN e.map : e.map[k] = m[k] /\ q[m[k]] = p[m[k]]
<1> DEFINE last == Last(l)
           j == p[last].key
           d == Front(l)
           q == Restrict(p, ToSet(d))
           g == Restrict(m, DOMAIN m \ {j})
<1>1. /\ Evict(l, p, m).list = d /\ Evict(l, p, m).map = g
      /\ Restrict(p, ToSet(Evict(l, p, m).list)) = q
  BY DEF Evict
<1>2. /\ l \in Seq(Node) /\ NoRepeat(l) /\ p \in [ToSet(l) -> Pair]
      /\ DOMAIN m \subseteq Key /\ m \in [DOMAIN m -> Node]
      /\ \A k \in DOMAIN m : m[k] \in ToSet(l) /\ p[m[k]].key = k
  BY DEF Fits
<1>3. /\ d \in Seq(Node) /\ Len(d) = Len(l) - 1 /\ NoRepeat(d)
      /\ last \in ToSet(l) /\ ToSet(d) = ToSet(l) \ {last}
  BY <1>2, FrontLast, FrontElements
<1>4. j \in Key
  BY <1>2, <1>3 DEF Pair
<1>5. /\ q = [x \in ToSet(d) |-> p[x]]
      /\ g = [k \in DOMAIN m \ {j} |-> m[k]]
  BY DEF Restrict
<1> HIDE DEF last, d, q, g
<1>6. DOMAIN g = DOMAIN m \ {j} /\ \A k \in DOMAIN g : g[k] = m[k]
  BY <1>5
<1>7. \A k \in DOMAIN g : m[k] \in ToSet(d)
  BY <1>2, <1>3, <1>6
<1>8. q \in [ToSet(d) -> Pair] /\ \A x \in ToSet(d) : q[x] = p[x]
  BY <1>2, <1>3, <1>5
<1> HIDE DEF j
<1>9. Fits(d, q, g)
  <2>1. g \in [DOMAIN g -> Node] /\ DOMAIN g \subseteq Key
    BY <1>2, <1>5, <1>6
  <2>2. \A k \in DOMAIN g : g[k] \in ToSet(d) /\ q[g[k]].key = k
    BY <1>2, <1>6, <1>7, <1>8
  <2> QED
    BY <1>3, <1>8, <2>1, <2>2 DEF Fits
<1>10. Cardinality(Unfiled(d, g)) <= Cardinality(Unfiled(l, m))
  <2> DEFINE U == Unfiled(l, m)
             V == Unfiled(d, g)
  <2>1. IsFiniteSet(U) /\ Cardinality(U) \in Nat
    BY Counting
  <2>2. \A x \in V : x \in ToSet(l) /\ x # last
    BY <1>3 DEF Unfiled
  <2>3. CASE last \in U /\ j \in DOMAIN m
    <3>1. V \subseteq (U \ {last}) \cup {m[j]}
      BY <1>3, <1>6, <2>2 DEF Unfiled
    <3>2. m[j] \notin U
      BY <2>3 DEF Unfiled
    <3>3. IsFiniteSet(U \ {last}) /\ Cardinality(U \ {last}) = Cardinality(U) - 1
      BY <2>1, <2>3, FS_RemoveElement
    <3> DEFINE W == U \ {last}
    <3>4. m[j] \notin W
      BY <3>2
    <3>5. IsFiniteSet(W \cup {m[j]}) /\ Cardinality(W \cup {m[j]}) = Cardinality(W) + 1
      <4> HIDE DEF W
      <4> QED
        BY <3>3, <3>4, FS_AddElement DEF W
    <3>6. Cardinality(V) <= Cardinality(W \cup {m[j]})
      BY <3>1, <3>5, FS_Subset
    <3> HIDE DEF U, V
    <3>7. Cardinality(W \cup {m[j]}) = Cardinality(U)
      BY <2>1, <3>3, <3>5
    <3> HIDE DEF W
    <3> QED
      BY <3>6, <3>7 DEF U, V
  <2>4. CASE ~(last \in U /\ j \in DOMAIN m)
    <3>1. V \subseteq U
      <4> SUFFICES ASSUME NEW x \in V
                   PROVE  x \in U
        OBVIOUS
      <4>1. x \in ToSet(l) /\ x # last /\ \A k \in DOMAIN m : k # j => m[k] # x
        BY <1>6, <2>2 DEF Unfiled
      <4>2. CASE j \notin DOMAIN m
        BY <4>1, <4>2 DEF Unfiled
      <4>3. CASE j \in DOMAIN m
        <5>1. last \notin U
          BY <2>4, <4>3
        <5>2. PICK k \in DOMAIN m : m[k] = last
          BY <1>3, <5>1 DEF Unfiled
        <5>3. k = j
          BY <1>2, <5>2 DEF j
        <5> QED
          BY <4>1, <5>2, <5>3 DEF Unfiled
      <4> QED
        BY <4>2, <4>3
    <3> QED
      BY <2>1, <3>1, FS_Subset
  <2> QED
    BY <2>3, <2>4
<1>11. \A k \in DOMAIN g : g[k] = m[k] /\ q[m[k]] = p[m[k]]
  BY <1>6, <1>7, <1>8
<1> QED
  BY <1>1, <1>3, <1>4, <1>6, <1>9, <1>10, <1>11

\* The list, the pairs and the map that put() has before eviction.
Pushed(l, m, k, n) ==
    <<n>> \o (IF k \in DOMAIN m THEN Dropped(l, m[k]) ELSE l)

Paired(s, p, k, v, n) ==
    [x \in ToSet(s) |-> IF x = n THEN [key |-> k, val |-> v] ELSE p[x]]

FiledAt(m, k, n) == [j \in DOMAIN m \cup {k} |-> IF j = k THEN n ELSE m[j]]

\* With push_front() and the new entry in the map, nothing becomes an orphan.
LEMMA PushFits ==
    ASSUME NEW l, NEW p, NEW m, Fits(l, p, m),
           NEW k \in Key, NEW v \in Val, NEW n \in Node, n \notin ToSet(l)
    PROVE  LET s == Pushed(l, m, k, n)
               q == Paired(s, p, k, v, n)
               g == FiledAt(m, k, n)
           IN  /\ Fits(s, q, g) /\ s # <<>>
               /\ Len(s) <= Len(l) + 1
               /\ Unfiled(s, g) = Unfiled(l, m)
               /\ \A j \in DOMAIN m : j # k => g[j] = m[j] /\ q[m[j]] = p[m[j]]
               /\ q[g[k]].val = v
<1> DEFINE s == Pushed(l, m, k, n)
           q == Paired(s, p, k, v, n)
           g == FiledAt(m, k, n)
<1> DEFINE rest == IF k \in DOMAIN m THEN Dropped(l, m[k]) ELSE l
<1>1. /\ l \in Seq(Node) /\ NoRepeat(l) /\ p \in [ToSet(l) -> Pair]
      /\ DOMAIN m \subseteq Key /\ m \in [DOMAIN m -> Node]
      /\ \A j \in DOMAIN m : m[j] \in ToSet(l) /\ p[m[j]].key = j
  BY DEF Fits
<1>2. /\ rest \in Seq(Node) /\ NoRepeat(rest) /\ Len(rest) <= Len(l)
      /\ ToSet(rest) = IF k \in DOMAIN m THEN ToSet(l) \ {m[k]} ELSE ToSet(l)
  <2>1. Len(l) \in Nat
    BY <1>1
  <2>2. CASE k \in DOMAIN m
    <3>1. rest = Dropped(l, m[k]) /\ m[k] \in ToSet(l)
      BY <1>1, <2>2
    <3>2. /\ Dropped(l, m[k]) \in Seq(Node)
          /\ ToSet(Dropped(l, m[k])) = ToSet(l) \ {m[k]}
          /\ NoRepeat(Dropped(l, m[k]))
          /\ Len(Dropped(l, m[k])) = IF m[k] \in ToSet(l) THEN Len(l) - 1 ELSE Len(l)
      BY <1>1, DroppedElements
    <3> HIDE DEF rest
    <3>3. Len(rest) <= Len(l)
      BY <2>1, <3>1, <3>2
    <3> QED
      BY <2>2, <3>1, <3>2, <3>3
  <2>3. CASE k \notin DOMAIN m
    BY <1>1, <2>1, <2>3
  <2> QED
    BY <2>2, <2>3
<1>3. /\ s = <<n>> \o rest
      /\ q = [x \in ToSet(s) |-> IF x = n THEN [key |-> k, val |-> v] ELSE p[x]]
      /\ g = [j \in DOMAIN m \cup {k} |-> IF j = k THEN n ELSE m[j]]
  BY DEF Pushed, Paired, FiledAt
<1> HIDE DEF rest, s, q, g
<1>4. n \notin ToSet(rest)
  BY <1>2
<1>5. /\ s \in Seq(Node) /\ NoRepeat(s) /\ s # <<>> /\ Len(s) = Len(rest) + 1
      /\ ToSet(s) = ToSet(rest) \cup {n}
  <2> DEFINE t == <<n>> \o rest
  <2>1. /\ t \in Seq(Node) /\ Len(t) = Len(rest) + 1 /\ t # <<>>
        /\ ToSet(t) = ToSet(rest) \cup {n}
        /\ NoRepeat(rest) /\ n \notin ToSet(rest) => NoRepeat(t)
    BY <1>2, ConsElements
  <2>2. s = t
    BY <1>3
  <2> HIDE DEF t
  <2> QED
    BY <1>2, <1>4, <2>1, <2>2
<1>6. Len(s) <= Len(l) + 1
  BY <1>1, <1>2, <1>5
<1>7. /\ DOMAIN g = DOMAIN m \cup {k} /\ g[k] = n
      /\ \A j \in DOMAIN m : j # k => g[j] = m[j]
  BY <1>3
<1>8. /\ DOMAIN q = ToSet(s) /\ q[n] = [key |-> k, val |-> v]
      /\ \A x \in ToSet(rest) : q[x] = p[x]
  BY <1>3, <1>4, <1>5
<1>9. \A j \in DOMAIN m : j # k => m[j] \in ToSet(rest)
  BY <1>1, <1>2
<1>10. Fits(s, q, g)
  <2>1. q \in [ToSet(s) -> Pair]
    BY <1>1, <1>2, <1>3, <1>5 DEF Pair
  <2>2. g \in [DOMAIN g -> Node] /\ DOMAIN g \subseteq Key
    BY <1>1, <1>3, <1>7
  <2>3. ASSUME NEW j \in DOMAIN g
        PROVE  g[j] \in ToSet(s) /\ q[g[j]].key = j
    <3>1. CASE j = k
      BY <1>5, <1>7, <1>8, <3>1
    <3>2. CASE j # k
      BY <1>1, <1>5, <1>7, <1>8, <1>9, <3>2
    <3> QED
      BY <3>1, <3>2
  <2> QED
    BY <1>5, <2>1, <2>2, <2>3 DEF Fits
<1>11. Unfiled(s, g) = Unfiled(l, m)
  <2>1. ASSUME NEW x
        PROVE  x \in Unfiled(s, g) <=> x \in Unfiled(l, m)
    <3>1. x \in Unfiled(s, g) <=> x \in ToSet(rest) /\ \A j \in DOMAIN m : j # k => m[j] # x
      BY <1>4, <1>5, <1>7 DEF Unfiled
    <3> QED
      BY <1>2, <3>1 DEF Unfiled
  <2> QED
    BY <2>1
<1>12. \A j \in DOMAIN m : j # k => g[j] = m[j] /\ q[m[j]] = p[m[j]]
  BY <1>7, <1>8, <1>9
<1>13. q[g[k]].val = v
  BY <1>7, <1>8
<1> QED
  BY <1>5, <1>6, <1>10, <1>11, <1>12, <1>13 DEF s, q, g

-----------------------------------------------------------------------------
\* What put() does, with eviction and without: the three parts still fit, the
\* bounds hold, one key at most is gone, and each key has its latest value.
LEMMA PutEffect ==
    ASSUME CacheInv, NEW k \in Key, NEW v \in Val, NEW n \in Node, put(k, v, n)
    PROVE  /\ Fits(list', item', map')
           /\ Len(list') <= MaxSize + erased
           /\ Cardinality(Unfiled(list', map')) <= erased
           /\ \/ DOMAIN map' = DOMAIN map \cup {k}
              \/ \E j \in Key : DOMAIN map' = (DOMAIN map \cup {k}) \ {j}
           /\ \A j \in DOMAIN map' :
                 item'[map'[j]].val = IF j = k THEN v ELSE item[map[j]].val
<1> DEFINE s == Pushed(list, map, k, n)
           q == Paired(s, item, k, v, n)
           g == FiledAt(map, k, n)
           e == Evict(s, q, g)
<1>1. /\ n \notin ToSet(list)
      /\ item' = Restrict(q, ToSet(list'))
      /\ Cardinality(DOMAIN g) > MaxSize => list' = e.list /\ map' = e.map
      /\ ~(Cardinality(DOMAIN g) > MaxSize) => list' = s /\ map' = g
  BY DEF put, Put, Pushed, Paired, FiledAt
<1>2. /\ Fits(list, item, map) /\ erased \in Nat
      /\ Len(list) <= MaxSize + erased
      /\ Cardinality(Unfiled(list, map)) <= erased
      /\ MaxSize \in Nat
  BY ClientAssumption DEF CacheInv
<1>3. DOMAIN g = DOMAIN map \cup {k}
  BY DEF FiledAt
<1>4. /\ Fits(s, q, g) /\ s # <<>>
      /\ Len(s) <= Len(list) + 1
      /\ Unfiled(s, g) = Unfiled(list, map)
      /\ \A j \in DOMAIN map : j # k => g[j] = map[j] /\ q[map[j]] = item[map[j]]
      /\ q[g[k]].val = v
  BY <1>1, <1>2, PushFits
<1> HIDE DEF s, q, g, e
<1>5. \A j \in DOMAIN g : q[g[j]].val = IF j = k THEN v ELSE item[map[j]].val
  BY <1>3, <1>4
<1>6. Len(list) \in Nat /\ Len(s) \in Nat
  BY <1>2, <1>4 DEF Fits
<1>7. Cardinality(Unfiled(list, map)) \in Nat
  BY <1>2, Counting
<1>8. CASE Cardinality(DOMAIN g) > MaxSize
  <2> DEFINE r == Restrict(q, ToSet(e.list))
  <2>1. /\ Fits(e.list, r, e.map)
        /\ Len(e.list) = Len(s) - 1
        /\ Cardinality(Unfiled(e.list, e.map)) <= Cardinality(Unfiled(s, g))
        /\ \E j \in Key : DOMAIN e.map = DOMAIN g \ {j}
        /\ \A j \in DOMAIN e.map : e.map[j] = g[j] /\ r[g[j]] = q[g[j]]
    BY <1>4, EvictFits DEF e
  <2>2. list' = e.list /\ map' = e.map /\ item' = r
    BY <1>1, <1>8
  <2> HIDE DEF r
  <2>3. Len(list') <= MaxSize + erased
    BY <1>2, <1>4, <1>6, <2>1, <2>2
  <2>4. Cardinality(Unfiled(list', map')) <= erased
    <3>1. Cardinality(Unfiled(e.list, e.map)) \in Nat
      BY <2>1, Counting
    <3> QED
      BY <1>2, <1>4, <1>7, <2>1, <2>2, <3>1
  <2>5. \A j \in DOMAIN map' : j \in DOMAIN g /\ item'[map'[j]] = q[g[j]]
    BY <2>1, <2>2
  <2> QED
    BY <1>3, <1>5, <2>1, <2>2, <2>3, <2>4, <2>5
<1>9. CASE ~(Cardinality(DOMAIN g) > MaxSize)
  <2>1. list' = s /\ map' = g /\ item' = Restrict(q, ToSet(s))
    BY <1>1, <1>9
  <2>2. q \in [ToSet(s) -> Pair]
    BY <1>4 DEF Fits
  <2>3. item' = q
    BY <2>1, <2>2 DEF Restrict
  <2>4. Len(s) = Cardinality(DOMAIN g) + Cardinality(Unfiled(s, g)) /\ Cardinality(DOMAIN g) \in Nat
    BY <1>4, Counting
  <2>5. Len(s) <= MaxSize + erased
    BY <1>2, <1>4, <1>7, <1>9, <2>4
  <2> QED
    BY <1>2, <1>3, <1>4, <1>5, <2>1, <2>3, <2>5
<1> QED
  BY <1>8, <1>9

\* put() preserves the invariant.
LEMMA PutPreserves ==
    ASSUME CacheInv, NEW k \in Key, NEW v \in Val, NEW n \in Node, put(k, v, n)
    PROVE  CacheInv'
<1>1. /\ erased' = erased
      /\ latest' = [j \in DOMAIN latest \cup {k} |-> IF j = k THEN v ELSE latest[j]]
  BY DEF put, Put
<1>2. /\ erased \in 0 .. MaxErases
      /\ DOMAIN map \subseteq DOMAIN latest /\ latest \in [DOMAIN latest -> Val]
  BY DEF CacheInv
<1>3. DOMAIN latest' = DOMAIN latest \cup {k} /\ latest' \in [DOMAIN latest' -> Val]
  BY <1>1, <1>2
<1>4. /\ Fits(list', item', map')
      /\ Len(list') <= MaxSize + erased
      /\ Cardinality(Unfiled(list', map')) <= erased
      /\ DOMAIN map' \subseteq DOMAIN map \cup {k}
  BY PutEffect
<1> QED
  BY <1>1, <1>2, <1>3, <1>4 DEF CacheInv, Fits, Unfiled

\* erase() preserves the invariant: one more orphan, and one more erasure.
LEMMA ErasePreserves ==
    ASSUME CacheInv, NEW k \in Key, erase(k)
    PROVE  CacheInv' /\ Fits(list', item', map')
<1>1. /\ k \in DOMAIN map /\ erased < MaxErases
      /\ map' = [j \in DOMAIN map \ {k} |-> map[j]]
      /\ erased' = erased + 1
      /\ list' = list /\ item' = item /\ latest' = latest
  BY DEF erase, Restrict
<1>2. /\ Fits(list, item, map) /\ erased \in 0 .. MaxErases
      /\ DOMAIN map \subseteq DOMAIN latest /\ latest \in [DOMAIN latest -> Val]
      /\ Len(list) <= MaxSize + erased
      /\ Cardinality(Unfiled(list, map)) <= erased
      /\ MaxSize \in Nat /\ MaxErases \in Nat
  BY ClientAssumption DEF CacheInv
<1>3. DOMAIN map' = DOMAIN map \ {k} /\ \A j \in DOMAIN map' : map'[j] = map[j]
  BY <1>1
<1>4. Fits(list', item', map')
  <2>1. map' \in [DOMAIN map' -> Node] /\ DOMAIN map' \subseteq Key
    BY <1>1, <1>2 DEF Fits
  <2> QED
    BY <1>1, <1>2, <1>3, <2>1 DEF Fits
<1>5. Unfiled(list', map') \subseteq Unfiled(list, map) \cup {map[k]}
  BY <1>1, <1>3 DEF Unfiled
<1>6. IsFiniteSet(Unfiled(list, map)) /\ Cardinality(Unfiled(list, map)) \in Nat
  BY <1>2, Counting
<1>7. /\ IsFiniteSet(Unfiled(list, map) \cup {map[k]})
      /\ Cardinality(Unfiled(list, map) \cup {map[k]}) <= Cardinality(Unfiled(list, map)) + 1
  <2> DEFINE U == Unfiled(list, map)
  <2> HIDE DEF U
  <2>1. /\ IsFiniteSet(U \cup {map[k]})
        /\ Cardinality(U \cup {map[k]}) =
              IF map[k] \in U THEN Cardinality(U) ELSE Cardinality(U) + 1
    BY <1>6, FS_AddElement DEF U
  <2> QED
    BY <1>6, <2>1 DEF U
<1>8. Cardinality(Unfiled(list', map')) <= Cardinality(Unfiled(list, map) \cup {map[k]})
  BY <1>5, <1>7, FS_Subset
<1>9. /\ Cardinality(Unfiled(list', map')) \in Nat
      /\ Cardinality(Unfiled(list, map) \cup {map[k]}) \in Nat
  BY <1>4, <1>7, Counting, FS_CardinalityType
<1>10. Cardinality(Unfiled(list', map')) <= erased'
  BY <1>1, <1>2, <1>6, <1>7, <1>8, <1>9
<1>11. Len(list) \in Nat
  BY <1>2 DEF Fits
<1>12. erased' \in 0 .. MaxErases /\ Len(list') <= MaxSize + erased'
  BY <1>1, <1>2, <1>11
<1> QED
  BY <1>1, <1>2, <1>3, <1>4, <1>10, <1>12 DEF CacheInv, Fits, Unfiled

\* get() preserves the invariant: it moves a node.
LEMMA GetPreserves ==
    ASSUME CacheInv, NEW k \in Key, get(k)
    PROVE  CacheInv'
<1>1. /\ k \in DOMAIN map
      /\ list' = <<map[k]>> \o Dropped(list, map[k])
      /\ item' = item /\ map' = map /\ erased' = erased /\ latest' = latest
  BY DEF get
<1>2. Fits(list, item, map)
  BY DEF CacheInv
<1>3. /\ list \in Seq(Node) /\ NoRepeat(list) /\ map[k] \in Node /\ map[k] \in ToSet(list)
      /\ Len(list) \in Nat
  BY <1>1, <1>2 DEF Fits
<1> DEFINE d == Dropped(list, map[k])
<1>4. /\ d \in Seq(Node) /\ NoRepeat(d) /\ ToSet(d) = ToSet(list) \ {map[k]}
      /\ Len(d) = Len(list) - 1
  BY <1>3, DroppedElements
<1> HIDE DEF d
<1>5. /\ <<map[k]>> \o d \in Seq(Node) /\ Len(<<map[k]>> \o d) = Len(d) + 1
      /\ ToSet(<<map[k]>> \o d) = ToSet(d) \cup {map[k]}
      /\ NoRepeat(d) /\ map[k] \notin ToSet(d) => NoRepeat(<<map[k]>> \o d)
  BY <1>3, <1>4, ConsElements
<1>6. list' \in Seq(Node) /\ NoRepeat(list') /\ ToSet(list') = ToSet(list) /\ Len(list') = Len(list)
  <2>1. list' = <<map[k]>> \o d
    BY <1>1 DEF d
  <2>2. NoRepeat(list') /\ ToSet(list') = ToSet(list)
    BY <1>3, <1>4, <1>5, <2>1
  <2>3. Len(list') = Len(list)
    BY <1>3, <1>4, <1>5, <2>1
  <2> QED
    BY <1>5, <2>1, <2>2, <2>3
<1>7. Fits(list', item', map')
  BY <1>1, <1>2, <1>6 DEF Fits
<1>8. Unfiled(list', map') = Unfiled(list, map)
  BY <1>1, <1>6 DEF Unfiled
<1> QED
  BY <1>1, <1>6, <1>7, <1>8 DEF CacheInv, Fits, Unfiled

\* An empty cache satisfies the invariant.
LEMMA InitInv ==
    ASSUME Init
    PROVE  CacheInv
<1>1. list \in Seq(Node) /\ Len(list) = 0 /\ NoRepeat(list) /\ ToSet(list) = {}
  BY DEF Init, NoRepeat, ToSet
<1>2. item \in [{} -> Pair] /\ map \in [{} -> Node] /\ latest \in [{} -> Val]
  BY DEF Init
<1>3. DOMAIN map = {} /\ DOMAIN latest = {}
  BY DEF Init
<1>4. Fits(list, item, map)
  BY <1>1, <1>2, <1>3 DEF Fits
<1>5. Unfiled(list, map) = {}
  BY <1>1 DEF Unfiled
<1>6. erased = 0 /\ MaxSize \in Nat /\ MaxErases \in Nat
  BY ClientAssumption DEF Init
<1> QED
  BY <1>1, <1>2, <1>3, <1>4, <1>5, <1>6, FS_EmptySet DEF CacheInv

\* A step that changes nothing.
LEMMA StutterInv ==
    ASSUME CacheInv, UNCHANGED vars
    PROVE  CacheInv'
BY DEF vars, CacheInv, Fits, Unfiled

\* Every step keeps the invariant.
LEMMA NextInv ==
    ASSUME CacheInv, [Next]_vars
    PROVE  CacheInv'
BY PutPreserves, ErasePreserves, GetPreserves, StutterInv DEF Next

\* The invariant holds throughout.
LEMMA AlwaysInv == Spec => []CacheInv
BY InitInv, NextInv, PTL DEF Spec

-----------------------------------------------------------------------------
\* The cache's state has its type, whatever the calls.
THEOREM ClientCacheTypeCorrect == Spec => []TypeOK
<1>1. CacheInv => TypeOK
  BY DEF CacheInv, Fits, TypeOK
<1> QED
  BY AlwaysInv, <1>1, PTL

\* No iterator of the local cache dangles.
THEOREM ClientCacheIteratorsValid == Spec => []IteratorsValid
<1>1. CacheInv => IteratorsValid
  BY NoRepeatCardinality DEF CacheInv, Fits, IteratorsValid
<1> QED
  BY AlwaysInv, <1>1, PTL

\* The local cache outgrows _max_size by one entry per erasure at most.
THEOREM ClientCacheGrowthIsBounded == Spec => []GrowthIsBounded
<1>1. ASSUME CacheInv
      PROVE  GrowthIsBounded
  <2>1. /\ Cardinality(Unfiled(list, map)) \in Nat /\ Cardinality(DOMAIN map) \in Nat
        /\ Len(list) = Cardinality(DOMAIN map) + Cardinality(Unfiled(list, map))
    BY <1>1, Counting DEF CacheInv
  <2>2. Orphans = Unfiled(list, map)
    BY DEF Orphans, Unfiled
  <2>3. /\ Len(list) <= MaxSize + erased /\ Cardinality(Unfiled(list, map)) <= erased
        /\ MaxSize \in Nat /\ erased \in Nat
    BY <1>1, ClientAssumption DEF CacheInv
  <2>4. erased = 0 => Cardinality(DOMAIN map) <= MaxSize
    BY <2>1, <2>3
  <2> QED
    BY <2>2, <2>3, <2>4 DEF GrowthIsBounded
<1> QED
  BY AlwaysInv, <1>1, PTL

-----------------------------------------------------------------------------
(***************************************************************************)
(* The local cache implements the lossy map.                               *)
(***************************************************************************)

\* What get() returns for each key.
Known == [k \in DOMAIN map |-> item[map[k]].val]

\* put() is the lossy map's: the key evicted, if any, is the one forgotten.
LEMMA PutRefines ==
    ASSUME CacheInv, NEW k \in Key, NEW v \in Val, NEW n \in Node, put(k, v, n)
    PROVE  Abstract!MapPut(k, v)
<1>1. latest' = Abstract!With(latest, k, v)
  BY DEF put, Put, Abstract!With
<1>2. /\ \/ DOMAIN map' = DOMAIN map \cup {k}
         \/ \E j \in Key : DOMAIN map' = (DOMAIN map \cup {k}) \ {j}
      /\ \A j \in DOMAIN map' :
            item'[map'[j]].val = IF j = k THEN v ELSE item[map[j]].val
  BY PutEffect
<1> DEFINE W == Abstract!With(Known, k, v)
<1>3. /\ W = [j \in DOMAIN Known \cup {k} |-> IF j = k THEN v ELSE Known[j]]
      /\ DOMAIN Known = DOMAIN map
  BY DEF Abstract!With, Known
<1>4. DOMAIN W = DOMAIN map \cup {k}
  BY <1>3
<1>5. \A j \in DOMAIN W : W[j] = IF j = k THEN v ELSE item[map[j]].val
  BY <1>3 DEF Known
<1>6. Known' = [j \in DOMAIN map' |-> item'[map'[j]].val]
  BY DEF Known
<1> HIDE DEF W
<1>7. DOMAIN map' \subseteq DOMAIN W
  BY <1>2, <1>4
<1>8. Known' = [j \in DOMAIN map' |-> W[j]]
  BY <1>2, <1>5, <1>6, <1>7
<1>9. Known' \in {W} \cup {Abstract!Without(W, j) : j \in Key}
  <2>1. CASE DOMAIN map' = DOMAIN map \cup {k}
    <3>1. W = [j \in DOMAIN W |-> W[j]]
      BY <1>3 DEF W
    <3> QED
      BY <1>4, <1>8, <2>1, <3>1
  <2>2. ASSUME NEW j \in Key, DOMAIN map' = (DOMAIN map \cup {k}) \ {j}
        PROVE  Known' \in {Abstract!Without(W, i) : i \in Key}
    <3>1. Abstract!Without(W, j) = [i \in DOMAIN W \ {j} |-> W[i]]
      BY DEF Abstract!Without, Abstract!Restrict
    <3>2. Known' = Abstract!Without(W, j)
      BY <1>4, <1>8, <2>2, <3>1
    <3> QED
      BY <3>2
  <2> QED
    BY <1>2, <2>1, <2>2
<1>10. Known' \in Abstract!Puts(Known, k, v)
  BY <1>9 DEF Abstract!Puts, W
<1> QED
  BY <1>1, <1>10 DEF Abstract!MapPut, Known

\* erase() is the lossy map's.
LEMMA EraseRefines ==
    ASSUME CacheInv, NEW k \in Key, erase(k)
    PROVE  Abstract!MapErase(k)
<1>1. /\ map' = [j \in DOMAIN map \ {k} |-> map[j]] /\ item' = item
      /\ latest' = latest
  BY DEF erase, Restrict
<1>2. Abstract!Without(Known, k) = [j \in DOMAIN Known \ {k} |-> Known[j]]
  BY DEF Abstract!Without, Abstract!Restrict
<1>3. DOMAIN Known = DOMAIN map /\ \A j \in DOMAIN map : Known[j] = item[map[j]].val
  BY DEF Known
<1>4. Known' = [j \in DOMAIN map' |-> item'[map'[j]].val]
  BY DEF Known
<1>5. Known' = Abstract!Without(Known, k)
  BY <1>1, <1>2, <1>3, <1>4
<1> QED
  BY <1>1, <1>5 DEF Abstract!MapErase, Known

\* A location the client reads from its local cache is the one it put last
\* for that key and has not erased since: every step of the cache is one of
\* the lossy map or leaves that map as it is.
THEOREM ClientCacheImplementsLossyMap == Spec => ImplementsLossyMap
<1>1. Init => Abstract!MapInit
  BY DEF Init, Abstract!MapInit
<1>2. ASSUME CacheInv, [Next]_vars
      PROVE  [Abstract!MapNext]_(Abstract!mapVars)
  <2>1. ASSUME NEW k \in Key, NEW v \in Val, NEW n \in Node, put(k, v, n)
        PROVE  Abstract!MapNext
    BY <1>2, <2>1, PutRefines DEF Abstract!MapNext
  <2>2. ASSUME NEW k \in Key, erase(k)
        PROVE  Abstract!MapNext
    BY <1>2, <2>2, EraseRefines DEF Abstract!MapNext
  <2>3. ASSUME NEW k \in Key, get(k)
        PROVE  UNCHANGED Abstract!mapVars
    BY <2>3 DEF get, Abstract!mapVars
  <2>4. CASE UNCHANGED vars
    BY <2>4 DEF vars, Abstract!mapVars
  <2> QED
    BY <1>2, <2>1, <2>2, <2>3, <2>4 DEF Next
<1> QED
  BY <1>1, <1>2, AlwaysInv, PTL DEF Spec, ImplementsLossyMap, Abstract!MapSpec
=============================================================================
