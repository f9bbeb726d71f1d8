--------------------------- MODULE ConsistentHash ---------------------------
(***************************************************************************)
(* The hash ring of master/mastertry/ConsistentHash.cpp, of which          *)
(* cache/src holds an identical copy.                                      *)
(*                                                                         *)
(* key2Index maps a point of the ring to the index of a primary cache in   *)
(* the master's vector fd_node.  The points of index i are the hashes of   *)
(* the strings "SHARD-iNODE-j", one for every virtual node j; the hash     *)
(* function itself is the constant Point.  The code numbers shards with an *)
(* int that the master can drive below zero, so Shard may hold negative    *)
(* numbers too.                                                            *)
(***************************************************************************)
EXTENDS Integers, FiniteSets

CONSTANTS
    HashSize,   \* hashes are 0..HashSize-1 (2^32 in the code)
    Shard,      \* the shard numbers that occur in point names
    VNode,      \* the virtual nodes of a shard (100 in the code)
    Point       \* Point[i, j]: the hash of "SHARD-iNODE-j"

HashSpace == 0 .. (HashSize - 1)

ASSUME RingAssumption ==
    /\ HashSize \in Nat \ {0}
    /\ Shard \subseteq Int
    /\ Point \in [Shard \X VNode -> HashSpace]

VARIABLES
    nodes,      \* the number of shards the ring believes it has
    key2Index   \* the ring: a function from the points in use to indices

ringVars == <<nodes, key2Index>>

-----------------------------------------------------------------------------
(***************************************************************************)
(* Operators.                                                              *)
(***************************************************************************)

\* The ring points of shard i.
Points(i) == {Point[s] : s \in (Shard \cap {i}) \X VNode}

\* The greatest and the least element of a nonempty finite set of integers.
Greatest(S) == CHOOSE x \in S : \A y \in S : y <= x
Least(S) == CHOOSE x \in S : \A y \in S : x <= y

EmptyRing == [p \in {} |-> 0]

\* The ring initialize(n, v_nodes) builds from nothing.  insert() never
\* overwrites, so of two shards that share a point the one
\* inserted first, the lower one, keeps it.
RingOf(n) ==
    [p \in UNION {Points(i) : i \in 0 .. (n - 1)} |->
        Least({i \in 0 .. (n - 1) : p \in Points(i)})]

addNode(index) ==
    /\ key2Index' = [p \in DOMAIN key2Index \cup Points(index) |->
                        IF p \in DOMAIN key2Index THEN key2Index[p] ELSE index]
    /\ nodes' = nodes + 1

\* A plausible bug: the points of the shard at index are erased, as in the
\* version of deleteNode that is commented out.
deleteNodeAtIndex(index) ==
    /\ nodes' = nodes - 1
    /\ key2Index' = [p \in DOMAIN key2Index \ Points(index) |-> key2Index[p]]

\* Whatever index is, the points erased are those of the LAST shard; the
\* shards from index on are then assigned again, later ones winning.
deleteNode(index) ==
    LET kept == index .. (nodes - 2)
        again == UNION {Points(i) : i \in kept}
    IN  /\ nodes' = nodes - 1
        /\ key2Index' =
              [p \in (DOMAIN key2Index \ Points(nodes - 1)) \cup again |->
                  IF p \in again
                  THEN Greatest({i \in kept : p \in Points(i)})
                  ELSE key2Index[p]]

\* A plausible bug: past the last point the lookup stays there instead of
\* wrapping to begin().
GetServerNoWrap(ring, h) ==
    LET bound == {p \in DOMAIN ring : p >= h}
    IN  IF bound # {} THEN Least(bound) ELSE Greatest(DOMAIN ring)

\* lower_bound(h), wrapping to begin(); ring must not be empty.
GetServer(ring, h) ==
    LET bound == {p \in DOMAIN ring : p >= h}
    IN  IF bound # {} THEN Least(bound) ELSE Least(DOMAIN ring)

\* The index a key that hashes to h is sent to.
Owner(ring, h) == ring[GetServer(ring, h)]

-----------------------------------------------------------------------------
(***************************************************************************)
(* The ring on its own, driven as the master drives it: a primary joins at *)
(* the end, and any primary may leave.                                     *)
(***************************************************************************)

RingInit ==
    /\ nodes = 0
    /\ key2Index = RingOf(0)

RingJoin == nodes \in Shard /\ addNode(nodes)

RingLeave == \E index \in 0 .. (nodes - 1) : deleteNode(index)

RingNext == RingJoin \/ RingLeave

RingSpec == RingInit /\ [][RingNext]_ringVars

-----------------------------------------------------------------------------
(***************************************************************************)
(* Properties.                                                             *)
(***************************************************************************)

\* No two shards share a ring point.  It holds of the code's hash function
\* for the first 200 shards with 100 virtual nodes each.
NoCollision ==
    \A s, t \in Shard \X VNode : Point[s] = Point[t] => s = t

\* No shard has a point at 0, where the request that finds the ring empty leaves
\* one.  It holds of the code's hash function for the same shards.
NoPointAtZero == \A s \in Shard \X VNode : Point[s] # 0

\* The type of the ring.
RingTypeOK ==
    /\ nodes \in Nat
    /\ DOMAIN key2Index \subseteq HashSpace
    /\ key2Index \in [DOMAIN key2Index -> Nat]

\* The ring depends on the number of primaries only, not on the joins and
\* leaves that led to it.  cal_hash_key in cache.cpp relies on it: a dying
\* cache builds a ring from nothing and expects the owners the master sees.
HistoryIndependent == key2Index = RingOf(nodes)

\* Every point carries the index of a shard it belongs to, and that index is
\* below nodes: handleClientMessage uses it unchecked in fd_node[index].
IndexInRange ==
    \A p \in DOMAIN key2Index :
        key2Index[p] < nodes /\ p \in Points(key2Index[p])

\* The lookup of lower_bound and wrap-around finds the point that is first
\* clockwise from h, for every hash.
LookupIsClockwise ==
    key2Index # EmptyRing =>
        \A h \in HashSpace :
            LET found == GetServer(key2Index, h)
            IN  /\ found \in DOMAIN key2Index
                /\ \A p \in DOMAIN key2Index :
                      (found - h) % HashSize <= (p - h) % HashSize

\* What consistent hashing is for.  A join takes keys for the new index only,
\* and a leave, whichever index it names, moves only the keys of the last.
Disrupts(h) ==
    \/ nodes' > nodes /\ Owner(key2Index', h) = nodes
    \/ nodes' < nodes /\ Owner(key2Index, h) = nodes - 1

MinimalDisruption ==
    [][ \A h \in HashSpace :
          \/ key2Index = EmptyRing \/ key2Index' = EmptyRing
          \/ Owner(key2Index, h) = Owner(key2Index', h)
          \/ Disrupts(h) ]_ringVars
=============================================================================
