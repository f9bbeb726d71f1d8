------------------------ MODULE ConsistentHashProofs ------------------------
(***************************************************************************)
(* Proofs about the hash ring, for every number of shards and virtual      *)
(* nodes and every hash function.                                          *)
(*                                                                         *)
(* The range of the indices needs no assumption on the hash function.      *)
(* History independence and minimal disruption need NoCollision.           *)
(***************************************************************************)
EXTENDS ConsistentHash, WellFoundedInduction, TLAPS

-----------------------------------------------------------------------------
(***************************************************************************)
(* Least and greatest elements exist.                                      *)
(***************************************************************************)

\* The order of the naturals is a well-founded relation.
LEMMA LessWellFounded ==
    \E R : IsWellFoundedOn(R, Nat) /\ \A x, y \in Nat : y < x => <<y, x>> \in R
<1>1. \A x, y \in Nat : y < x => <<y, x>> \in OpToRel(<, Nat)
  BY DEF OpToRel
<1> QED
  BY <1>1, NatLessThanWellFounded, Zenon

\* begin() and lower_bound() of a std::map find the least of its keys.
LEMMA LeastProperties ==
    ASSUME NEW S, S \subseteq Nat, S # {}
    PROVE  Least(S) \in S /\ \A y \in S : Least(S) <= y
<1>1. PICK R : /\ IsWellFoundedOn(R, Nat)
               /\ \A x, y \in Nat : y < x => <<y, x>> \in R
  BY LessWellFounded
<1>2. PICK x \in S : \A y \in S : ~ (<<y, x>> \in R)
  BY <1>1, WFMin
<1>3. \A y \in S : ~ (y < x)
  BY <1>1, <1>2, Zenon
<1>4. \A y \in S : x <= y
  BY <1>3
<1> QED
  BY <1>4 DEF Least

\* The last of a run of assignments in deleteNode is one of them.
LEMMA GreatestProperties ==
    ASSUME NEW S, S \subseteq Nat, S # {}, NEW n \in Nat, \A y \in S : y <= n
    PROVE  Greatest(S) \in S /\ \A y \in S : y <= Greatest(S)
<1> DEFINE T == {m \in Nat : n - m \in S}
<1>1. T \subseteq Nat /\ T # {}
  <2>1. PICK y \in S : TRUE
    OBVIOUS
  <2>2. n - y \in Nat /\ n - (n - y) = y
    OBVIOUS
  <2>3. n - y \in T
    BY <2>1, <2>2
  <2> QED
    BY <2>3
<1>2. PICK m \in T : \A k \in T : m <= k
  BY <1>1, LeastProperties
<1>3. n - m \in S
  BY <1>2
<1>4. ASSUME NEW y \in S
      PROVE  y <= n - m
  <2>1. y \in Nat /\ n - y \in Nat /\ n - (n - y) = y
    OBVIOUS
  <2>2. n - y \in T
    BY <2>1
  <2>3. m <= n - y
    BY <1>2, <2>2
  <2> QED
    BY <2>1, <2>3
<1> QED
  BY <1>3, <1>4 DEF Greatest

-----------------------------------------------------------------------------
(***************************************************************************)
(* The indices of the ring, for any hash function.                         *)
(***************************************************************************)

\* Every point is a hash.
LEMMA PointsAreHashes == \A i : Points(i) \subseteq HashSpace
BY RingAssumption DEF Points

\* RingTypeOK and IndexInRange together are inductive.
RingInv == RingTypeOK /\ IndexInRange

\* An addNode with the index that is next keeps the ring in range.
LEMMA AddNodeRange ==
    ASSUME RingInv, addNode(nodes)
    PROVE  RingInv'
<1> USE DEF RingInv, RingTypeOK, IndexInRange
<1>1. nodes' \in Nat /\ nodes' = nodes + 1
  BY DEF addNode
<1>2. DOMAIN key2Index' = DOMAIN key2Index \cup Points(nodes)
  BY DEF addNode
<1>3. ASSUME NEW p \in DOMAIN key2Index'
      PROVE  /\ key2Index'[p] \in Nat
             /\ key2Index'[p] < nodes'
             /\ p \in Points(key2Index'[p])
  <2>1. CASE p \in DOMAIN key2Index
    BY <1>1, <2>1 DEF addNode
  <2>2. CASE p \notin DOMAIN key2Index
    BY <1>1, <1>2, <2>2 DEF addNode
  <2> QED
    BY <2>1, <2>2
<1>4. DOMAIN key2Index' \subseteq HashSpace
  BY <1>2, PointsAreHashes
<1>5. key2Index' = [p \in DOMAIN key2Index' |-> key2Index'[p]]
  BY DEF addNode
<1> QED
  BY <1>1, <1>3, <1>4, <1>5

\* A deleteNode with any index keeps the ring in range: the points of the
\* last shard are the only ones that can carry the index that disappears.
LEMMA DeleteNodeRange ==
    ASSUME RingInv, NEW index \in 0 .. (nodes - 1), deleteNode(index)
    PROVE  RingInv'
<1> USE DEF RingInv, RingTypeOK, IndexInRange
<1> DEFINE kept == index .. (nodes - 2)
           again == UNION {Points(i) : i \in kept}
<1>1. nodes \in Nat /\ nodes' \in Nat /\ nodes' = nodes - 1
  BY DEF deleteNode
<1>2. DOMAIN key2Index' = (DOMAIN key2Index \ Points(nodes - 1)) \cup again
  BY DEF deleteNode
<1>3. ASSUME NEW p \in DOMAIN key2Index'
      PROVE  /\ key2Index'[p] \in Nat
             /\ key2Index'[p] < nodes'
             /\ p \in Points(key2Index'[p])
  <2>1. CASE p \in again
    <3> DEFINE S == {i \in kept : p \in Points(i)}
    <3>1. key2Index'[p] = Greatest(S)
      BY <1>2, <2>1 DEF deleteNode
    <3>2. S \subseteq Nat /\ S # {} /\ \A y \in S : y <= nodes
      BY <1>1, <2>1
    <3>3. Greatest(S) \in S
      <4> HIDE DEF S
      <4> QED
        BY <1>1, <3>2, GreatestProperties
    <3> QED
      BY <1>1, <3>1, <3>3
  <2>2. CASE p \notin again
    <3>1. p \in DOMAIN key2Index /\ p \notin Points(nodes - 1)
      BY <1>2, <2>2
    <3>2. key2Index'[p] = key2Index[p]
      BY <1>2, <2>2 DEF deleteNode
    <3>3. key2Index[p] # nodes - 1
      BY <3>1
    <3> QED
      BY <1>1, <3>1, <3>2, <3>3
  <2> QED
    BY <2>1, <2>2
<1>4. DOMAIN key2Index' \subseteq HashSpace
  BY <1>2, PointsAreHashes
<1>5. key2Index' = [p \in DOMAIN key2Index' |-> key2Index'[p]]
  BY DEF deleteNode
<1> QED
  BY <1>1, <1>3, <1>4, <1>5

\* Whatever the hash function, every index the ring hands out is that of a
\* primary: fd_node[index] in handleClientMessage stays inside the vector
\* for as long as fd_node has nodes entries.
THEOREM RingIndexInRange == RingSpec => [](RingTypeOK /\ IndexInRange)
<1>1. RingInit => RingInv
  BY DEF RingInit, RingInv, RingTypeOK, IndexInRange, RingOf
<1>2. RingInv /\ [RingNext]_ringVars => RingInv'
  <2> SUFFICES ASSUME RingInv, [RingNext]_ringVars
               PROVE  RingInv'
    OBVIOUS
  <2>1. CASE RingJoin
    BY <2>1, AddNodeRange DEF RingJoin
  <2>2. CASE RingLeave
    BY <2>2, DeleteNodeRange DEF RingLeave
  <2>3. CASE UNCHANGED ringVars
    BY <2>3 DEF ringVars, RingInv, RingTypeOK, IndexInRange
  <2> QED
    BY <2>1, <2>2, <2>3 DEF RingNext
<1> QED
  BY <1>1, <1>2, PTL DEF RingSpec, RingInv

\* Points stay in the space of hashes, and indices and the number of shards are
\* never negative, as the code's uint32_t and size_t demand.
THEOREM RingTypeCorrect == RingSpec => []RingTypeOK
BY RingIndexInRange, PTL

-----------------------------------------------------------------------------
(***************************************************************************)
(* The lookup.                                                             *)
(***************************************************************************)

\* The remainder of a difference of two hashes.
LEMMA ModSmall ==
    ASSUME NEW n \in Nat \ {0}, NEW d \in Int, -n <= d, d < n
    PROVE  d % n = IF d >= 0 THEN d ELSE d + n
<1> DEFINE q == d \div n
           r == d % n
<1>1. q \in Int /\ r \in Int /\ 0 <= r /\ r < n /\ d = n * q + r
  OBVIOUS
<1> HIDE DEF q, r
<1>2. q = 0 \/ q = -1
  <2>1. CASE q >= 1
    <3>1. n * q >= n
      BY <1>1, <2>1
    <3> QED
      BY <1>1, <3>1
  <2>2. CASE q <= -2
    <3>1. n * q <= n * (-2)
      BY <1>1, <2>2
    <3> QED
      BY <1>1, <3>1
  <2> QED
    BY <1>1, <2>1, <2>2
<1> QED
  BY <1>1, <1>2 DEF r

\* On a ring that is not empty the lookup finds a point, and none is nearer
\* clockwise.
LEMMA LookupNearest ==
    ASSUME RingTypeOK, key2Index # EmptyRing, NEW h \in HashSpace
    PROVE  LET found == GetServer(key2Index, h)
           IN  /\ found \in DOMAIN key2Index
               /\ \A p \in DOMAIN key2Index :
                     (found - h) % HashSize <= (p - h) % HashSize
<1> DEFINE D == DOMAIN key2Index
           found == GetServer(key2Index, h)
           bound == {p \in D : p >= h}
<1>1. HashSize \in Nat \ {0} /\ D \subseteq HashSpace /\ HashSpace \subseteq Nat
  BY RingAssumption DEF RingTypeOK, HashSpace
<1>2. D # {}
  <2>1. key2Index = [p \in D |-> key2Index[p]]
    BY DEF RingTypeOK
  <2> SUFFICES ASSUME D = {}
               PROVE  key2Index = EmptyRing
    OBVIOUS
  <2> QED
    BY <2>1 DEF EmptyRing
<1>3. /\ bound # {} => found = Least(bound)
      /\ bound = {} => found = Least(D)
  BY DEF GetServer
<1>4. /\ bound # {} => found \in bound /\ \A y \in bound : found <= y
      /\ bound = {} => found \in D /\ \A y \in D : found <= y
  <2>1. bound \subseteq Nat /\ D \subseteq Nat
    BY <1>1
  <2> HIDE DEF D, bound, found
  <2> QED
    BY <1>2, <1>3, <2>1, LeastProperties
<1>5. found \in D
  BY <1>4
<1>6. ASSUME NEW x \in D
      PROVE  (x - h) % HashSize = IF x >= h THEN x - h ELSE x - h + HashSize
  <2>1. x \in Nat /\ h \in Nat /\ x < HashSize /\ h < HashSize
    BY <1>1 DEF HashSpace
  <2>2. x - h \in Int /\ -HashSize <= x - h /\ x - h < HashSize
    BY <1>1, <2>1
  <2> QED
    BY <1>1, <2>1, <2>2, ModSmall
<1>7. ASSUME NEW p \in D
      PROVE  (found - h) % HashSize <= (p - h) % HashSize
  <2>1. /\ found \in Nat /\ p \in Nat /\ h \in Nat
        /\ found < HashSize /\ p < HashSize /\ h < HashSize
    BY <1>1, <1>5 DEF HashSpace
  <2>2. /\ found >= h => p < h \/ found <= p
        /\ found < h => p < h /\ found <= p
    BY <1>4, <2>1
  <2>3. /\ (found - h) % HashSize
             = IF found >= h THEN found - h ELSE found - h + HashSize
        /\ (p - h) % HashSize = IF p >= h THEN p - h ELSE p - h + HashSize
    BY <1>5, <1>6
  <2> HIDE DEF found
  <2> QED
    BY <1>1, <2>1, <2>2, <2>3
<1> QED
  BY <1>5, <1>7

\* lower_bound and the wrap-around to begin() are a walk clockwise, for every
\* hash function and every ring that joins and leaves can build.
THEOREM RingLookupIsClockwise == RingSpec => []LookupIsClockwise
<1>1. RingTypeOK => LookupIsClockwise
  BY LookupNearest DEF LookupIsClockwise
<1> QED
  BY <1>1, RingIndexInRange, PTL

-----------------------------------------------------------------------------
(***************************************************************************)
(* The ring as a function of the number of its shards, when no two shards  *)
(* share a point.                                                          *)
(***************************************************************************)

\* A point belongs to one shard.
LEMMA PointsDisjoint ==
    ASSUME NoCollision, NEW i, NEW k, NEW p \in Points(i), p \in Points(k)
    PROVE  i = k
<1>1. PICK j \in VNode : i \in Shard /\ p = Point[<<i, j>>]
  BY DEF Points
<1>2. PICK l \in VNode : k \in Shard /\ p = Point[<<k, l>>]
  BY DEF Points
<1>3. <<i, j>> \in Shard \X VNode /\ <<k, l>> \in Shard \X VNode
  BY <1>1, <1>2
<1>4. <<i, j>> = <<k, l>>
  BY <1>1, <1>2, <1>3, Zenon DEF NoCollision
<1> QED
  BY <1>4

\* RingOf(n) has the points of the shards below n, each with its shard.
LEMMA RingOfProperties ==
    ASSUME NoCollision, NEW n \in Nat
    PROVE  /\ DOMAIN RingOf(n) = {p \in HashSpace : \E i \in 0 .. (n - 1) : p \in Points(i)}
           /\ \A i \in 0 .. (n - 1) : \A p \in Points(i) : RingOf(n)[p] = i
           /\ RingOf(n) = [p \in DOMAIN RingOf(n) |-> RingOf(n)[p]]
<1>1. DOMAIN RingOf(n) = {p \in HashSpace : \E i \in 0 .. (n - 1) : p \in Points(i)}
  BY PointsAreHashes DEF RingOf
<1>2. ASSUME NEW i \in 0 .. (n - 1), NEW p \in Points(i)
      PROVE  RingOf(n)[p] = i
  <2> DEFINE S == {k \in 0 .. (n - 1) : p \in Points(k)}
  <2>1. S = {i}
    BY PointsDisjoint
  <2>2. RingOf(n)[p] = Least(S)
    BY DEF RingOf
  <2>3. Least(S) \in S
    <3> HIDE DEF S
    <3> QED
      BY <2>1, LeastProperties
  <2> QED
    BY <2>1, <2>2, <2>3
<1>3. RingOf(n) = [p \in DOMAIN RingOf(n) |-> RingOf(n)[p]]
  BY DEF RingOf
<1> QED
  BY <1>1, <1>2, <1>3

\* A join takes the ring of n shards to the ring of n + 1.
LEMMA AddNodeRing ==
    ASSUME NoCollision, nodes \in Nat, HistoryIndependent, addNode(nodes)
    PROVE  nodes' \in Nat /\ HistoryIndependent'
<1>0. PICK m \in Nat : m = nodes + 1
  OBVIOUS
<1> DEFINE old == RingOf(nodes)
           new == RingOf(m)
<1>1. nodes' = m /\ 0 .. (m - 1) = 0 .. nodes
  BY <1>0 DEF addNode
<1>2. DOMAIN key2Index' = DOMAIN old \cup Points(nodes)
  BY DEF addNode, HistoryIndependent
<1>3. DOMAIN new = DOMAIN old \cup Points(nodes)
  <2>1. DOMAIN new = {p \in HashSpace : \E i \in 0 .. nodes : p \in Points(i)}
    BY <1>1, RingOfProperties
  <2>2. DOMAIN old = {p \in HashSpace : \E i \in 0 .. (nodes - 1) : p \in Points(i)}
    BY RingOfProperties
  <2>3. \A i : i \in 0 .. nodes <=> i \in 0 .. (nodes - 1) \/ i = nodes
    OBVIOUS
  <2> QED
    BY <2>1, <2>2, <2>3, PointsAreHashes
<1>4. ASSUME NEW p \in DOMAIN new
      PROVE  key2Index'[p] = new[p]
  <2>1. CASE p \in DOMAIN old
    <3>1. PICK i \in 0 .. (nodes - 1) : p \in Points(i)
      BY <2>1, RingOfProperties
    <3>2. old[p] = i
      BY <3>1, RingOfProperties
    <3>3. i \in 0 .. (m - 1)
      BY <1>0
    <3>4. new[p] = i
      BY <3>1, <3>3, RingOfProperties
    <3> QED
      BY <1>2, <2>1, <3>2, <3>4 DEF addNode, HistoryIndependent
  <2>2. CASE p \notin DOMAIN old
    <3>1. p \in Points(nodes)
      BY <1>3, <2>2
    <3>2. nodes \in 0 .. (m - 1)
      BY <1>0
    <3>3. new[p] = nodes
      BY <3>1, <3>2, RingOfProperties
    <3> QED
      BY <1>2, <2>2, <3>1, <3>3 DEF addNode, HistoryIndependent
  <2> QED
    BY <2>1, <2>2
<1>5. key2Index' = [p \in DOMAIN key2Index' |-> key2Index'[p]]
  BY DEF addNode
<1>6. new = [p \in DOMAIN new |-> new[p]]
  BY <1>1, RingOfProperties
<1>7. key2Index' = new
  <2> HIDE DEF old, new
  <2> QED
    BY <1>2, <1>3, <1>4, <1>5, <1>6
<1> QED
  BY <1>1, <1>7 DEF HistoryIndependent

\* A leave, whichever index it names, takes the ring of n shards to the ring
\* of n - 1: the second loop of deleteNode assigns what is already there.
LEMMA DeleteNodeRing ==
    ASSUME NoCollision, nodes \in Nat, HistoryIndependent,
           NEW index \in 0 .. (nodes - 1), deleteNode(index)
    PROVE  nodes' \in Nat /\ HistoryIndependent'
<1>0. PICK m \in Nat : m = nodes - 1
  OBVIOUS
<1> DEFINE old == RingOf(nodes)
           new == RingOf(m)
           kept == index .. (nodes - 2)
           again == UNION {Points(i) : i \in kept}
<1>1. nodes' = m /\ 0 .. (m - 1) = 0 .. (nodes - 2)
  BY <1>0 DEF deleteNode
<1>2. DOMAIN key2Index' = (DOMAIN old \ Points(nodes - 1)) \cup again
  BY DEF deleteNode, HistoryIndependent
<1>3. DOMAIN new = (DOMAIN old \ Points(nodes - 1)) \cup again
  <2>1. DOMAIN new = {p \in HashSpace : \E i \in 0 .. (nodes - 2) : p \in Points(i)}
    BY <1>1, RingOfProperties
  <2>2. DOMAIN old = {p \in HashSpace : \E i \in 0 .. (nodes - 1) : p \in Points(i)}
    BY RingOfProperties
  <2>3. again \subseteq DOMAIN new
    BY <2>1, PointsAreHashes
  <2>4. DOMAIN old \ Points(nodes - 1) \subseteq DOMAIN new
    BY <2>1, <2>2
  <2>5. DOMAIN new \subseteq DOMAIN old \ Points(nodes - 1)
    BY <2>1, <2>2, PointsDisjoint
  <2> HIDE DEF again, old, new
  <2> QED
    BY <2>3, <2>4, <2>5
<1>4. ASSUME NEW p \in DOMAIN new
      PROVE  key2Index'[p] = new[p]
  <2>1. PICK i \in 0 .. (nodes - 2) : p \in Points(i)
    BY <1>1, RingOfProperties
  <2>2. new[p] = i
    BY <1>1, <2>1, RingOfProperties
  <2>3. CASE p \in again
    <3> DEFINE S == {k \in kept : p \in Points(k)}
    <3>1. key2Index'[p] = Greatest(S)
      BY <1>2, <2>3 DEF deleteNode
    <3>2. S # {} /\ S \subseteq Nat /\ \A y \in S : y <= nodes
      BY <2>3
    <3>3. Greatest(S) \in S
      <4> HIDE DEF S
      <4> QED
        BY <3>2, GreatestProperties
    <3>4. \A k \in S : k = i
      BY <2>1, PointsDisjoint
    <3> HIDE DEF S
    <3> QED
      BY <2>2, <3>1, <3>3, <3>4
  <2>4. CASE p \notin again
    <3>1. key2Index'[p] = old[p]
      BY <1>2, <1>3, <2>4 DEF deleteNode, HistoryIndependent
    <3>2. i \in 0 .. (nodes - 1)
      OBVIOUS
    <3>3. old[p] = i
      BY <2>1, <3>2, RingOfProperties
    <3> QED
      BY <2>2, <3>1, <3>3
  <2> QED
    BY <2>3, <2>4
<1>5. key2Index' = [p \in DOMAIN key2Index' |-> key2Index'[p]]
  BY DEF deleteNode
<1>6. new = [p \in DOMAIN new |-> new[p]]
  BY <1>1, RingOfProperties
<1>7. key2Index' = new
  <2> HIDE DEF old, new, again
  <2> QED
    BY <1>2, <1>3, <1>4, <1>5, <1>6
<1> QED
  BY <1>1, <1>7 DEF HistoryIndependent

\* The inductive form of history independence.
CanonicalInv == nodes \in Nat /\ HistoryIndependent

\* Joins and leaves keep the ring the one initialize() would build.
LEMMA CanonicalStep ==
    ASSUME NoCollision, CanonicalInv, [RingNext]_ringVars
    PROVE  CanonicalInv'
<1>1. CASE RingJoin
  BY <1>1, AddNodeRing DEF RingJoin, CanonicalInv
<1>2. CASE RingLeave
  BY <1>2, DeleteNodeRing DEF RingLeave, CanonicalInv
<1>3. CASE UNCHANGED ringVars
  BY <1>3 DEF ringVars, CanonicalInv, HistoryIndependent
<1> QED
  BY <1>1, <1>2, <1>3 DEF RingNext

\* After any joins and leaves the master's ring is the one a cache builds
\* from nothing in cal_hash_key for the same number of primaries.
THEOREM RingHistoryIndependent ==
    ASSUME NoCollision
    PROVE  RingSpec => []HistoryIndependent
<1>1. RingInit => CanonicalInv
  BY DEF RingInit, CanonicalInv, HistoryIndependent
<1>2. CanonicalInv /\ [RingNext]_ringVars => CanonicalInv'
  BY CanonicalStep
<1>3. CanonicalInv => HistoryIndependent
  BY DEF CanonicalInv
<1> QED
  BY <1>1, <1>2, <1>3, PTL DEF RingSpec

-----------------------------------------------------------------------------
(***************************************************************************)
(* Which keys move.                                                        *)
(***************************************************************************)

\* lower_bound with wrap-around finds a point of the ring, and finds the
\* same one in every smaller ring that has it.
LEMMA GetServerProperties ==
    ASSUME NEW ring, DOMAIN ring \subseteq Nat, DOMAIN ring # {}, NEW h \in Nat
    PROVE  /\ GetServer(ring, h) \in DOMAIN ring
           /\ \A less : /\ DOMAIN less \subseteq DOMAIN ring
                        /\ GetServer(ring, h) \in DOMAIN less
                        => GetServer(less, h) = GetServer(ring, h)
<1> DEFINE q == GetServer(ring, h)
           above == {p \in DOMAIN ring : p >= h}
<1>1. /\ above # {} => q \in above /\ \A y \in above : q <= y
      /\ above = {} => q \in DOMAIN ring /\ \A y \in DOMAIN ring : q <= y
  <2>1. above # {} => q = Least(above)
    BY DEF GetServer
  <2>2. above = {} => q = Least(DOMAIN ring)
    BY DEF GetServer
  <2>3. above \subseteq Nat
    OBVIOUS
  <2> HIDE DEF q, above
  <2> QED
    BY <2>1, <2>2, <2>3, LeastProperties
<1>2. q \in DOMAIN ring
  BY <1>1
<1>3. ASSUME NEW less, DOMAIN less \subseteq DOMAIN ring, q \in DOMAIN less
      PROVE  GetServer(less, h) = q
  <2> DEFINE l == GetServer(less, h)
             up == {p \in DOMAIN less : p >= h}
  <2>1. /\ up # {} => l \in up /\ \A y \in up : l <= y
        /\ up = {} => l \in DOMAIN less /\ \A y \in DOMAIN less : l <= y
    <3>1. up # {} => l = Least(up)
      BY DEF GetServer
    <3>2. up = {} => l = Least(DOMAIN less)
      BY DEF GetServer
    <3>3. up \subseteq Nat /\ DOMAIN less \subseteq Nat /\ DOMAIN less # {}
      BY <1>3
    <3> HIDE DEF l, up
    <3> QED
      BY <3>1, <3>2, <3>3, LeastProperties
  <2>2. up \subseteq above
    BY <1>3
  <2>3. CASE above # {}
    <3>1. q \in up /\ l \in above /\ l \in up
      BY <1>1, <1>3, <2>1, <2>3
    <3>2. q <= l /\ l <= q /\ q \in Nat /\ l \in Nat
      BY <1>1, <2>1, <2>3, <3>1
    <3>3. l = q
      <4> HIDE DEF q, l
      <4> QED
        BY <3>2
    <3> QED
      BY <3>3
  <2>4. CASE above = {}
    <3>1. up = {} /\ l \in DOMAIN less
      BY <2>1, <2>2, <2>4
    <3>2. q <= l /\ l <= q /\ q \in Nat /\ l \in Nat
      BY <1>1, <1>3, <2>1, <2>4, <3>1
    <3>3. l = q
      <4> HIDE DEF q, l
      <4> QED
        BY <3>2
    <3> QED
      BY <3>3
  <2> QED
    BY <2>3, <2>4
<1> QED
  BY <1>2, <1>3

\* Between the rings of n and n + 1 shards, only keys of shard n differ.
LEMMA OneMoreShard ==
    ASSUME NoCollision, NEW n \in Nat, NEW m \in Nat, m = n + 1,
           RingOf(n) # EmptyRing, NEW h \in HashSpace
    PROVE  \/ Owner(RingOf(n), h) = Owner(RingOf(m), h)
           \/ Owner(RingOf(m), h) = n
<1> DEFINE A == RingOf(n)
           B == RingOf(m)
           q == GetServer(B, h)
<1>1. h \in Nat /\ HashSpace \subseteq Nat
  BY RingAssumption DEF HashSpace
<1>2. DOMAIN A \subseteq HashSpace /\ DOMAIN A # {}
  <2>1. DOMAIN A \subseteq HashSpace
    BY RingOfProperties
  <2>2. A = [p \in DOMAIN A |-> A[p]]
    BY RingOfProperties
  <2>3. DOMAIN A # {}
    <3> SUFFICES ASSUME DOMAIN A = {}
                 PROVE  A = EmptyRing
      OBVIOUS
    <3> HIDE DEF A
    <3> QED
      BY <2>2 DEF EmptyRing
  <2> QED
    BY <2>1, <2>3
<1>3. DOMAIN B \subseteq HashSpace
  BY RingOfProperties
<1>4. DOMAIN A \subseteq DOMAIN B
  <2>1. \A i \in 0 .. (n - 1) : i \in 0 .. (m - 1)
    OBVIOUS
  <2> QED
    BY <2>1, RingOfProperties
<1>5. /\ q \in DOMAIN B
      /\ q \in DOMAIN A => GetServer(A, h) = q
  <2> HIDE DEF A, B
  <2> QED
    BY <1>1, <1>2, <1>3, <1>4, GetServerProperties
<1>6. PICK i \in 0 .. (m - 1) : q \in Points(i)
  BY <1>5, RingOfProperties
<1>7. Owner(B, h) = i
  BY <1>6, RingOfProperties DEF Owner
<1>8. CASE i = n
  BY <1>7, <1>8
<1>9. CASE i # n
  <2>1. i \in 0 .. (n - 1)
    BY <1>9
  <2>2. q \in DOMAIN A /\ A[q] = i
    BY <1>3, <1>5, <1>6, <2>1, RingOfProperties
  <2>3. Owner(A, h) = i
    BY <1>5, <2>2 DEF Owner
  <2> QED
    BY <1>7, <2>3
<1> QED
  BY <1>8, <1>9

\* A join of a primary moves keys to it only, and a leave moves only the
\* keys of the last index, however deleteNode was called.
THEOREM RingMinimalDisruption ==
    ASSUME NoCollision
    PROVE  RingSpec => MinimalDisruption
<1> DEFINE Gentle ==
        \A h \in HashSpace :
            \/ key2Index = EmptyRing \/ key2Index' = EmptyRing
            \/ Owner(key2Index, h) = Owner(key2Index', h)
            \/ Disrupts(h)
<1>1. RingInit => CanonicalInv
  BY DEF RingInit, CanonicalInv, HistoryIndependent
<1>2. CanonicalInv /\ [RingNext]_ringVars => CanonicalInv'
  BY CanonicalStep
<1>3. CanonicalInv /\ [RingNext]_ringVars => [Gentle]_ringVars
  <2> SUFFICES ASSUME CanonicalInv, RingNext, NEW h \in HashSpace,
                      key2Index # EmptyRing, key2Index' # EmptyRing
               PROVE  \/ Owner(key2Index, h) = Owner(key2Index', h)
                      \/ Disrupts(h)
    BY Zenon
  <2>1. /\ nodes \in Nat /\ key2Index = RingOf(nodes)
        /\ nodes' \in Nat /\ key2Index' = RingOf(nodes')
    BY <1>2, CanonicalStep DEF CanonicalInv, HistoryIndependent
  <2>2. CASE RingJoin
    <3>1. nodes' = nodes + 1
      BY <2>2 DEF RingJoin, addNode
    <3>2. \/ Owner(key2Index, h) = Owner(key2Index', h)
          \/ Owner(key2Index', h) = nodes
      BY <2>1, <3>1, OneMoreShard
    <3> QED
      BY <2>1, <3>1, <3>2 DEF Disrupts
  <2>3. CASE RingLeave
    <3>1. nodes' = nodes - 1
      BY <2>3 DEF RingLeave, deleteNode
    <3>2. nodes = nodes' + 1
      BY <2>1, <3>1
    <3>3. \/ Owner(key2Index, h) = Owner(key2Index', h)
          \/ Owner(key2Index, h) = nodes'
      BY <2>1, <3>2, OneMoreShard
    <3> QED
      BY <2>1, <3>1, <3>3 DEF Disrupts
  <2> QED
    BY <2>2, <2>3 DEF RingNext
<1> QED
  BY <1>1, <1>2, <1>3, PTL DEF RingSpec, MinimalDisruption
=============================================================================
