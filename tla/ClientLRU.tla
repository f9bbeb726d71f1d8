------------------------------ MODULE ClientLRU ------------------------------
(***************************************************************************)
(* lru_cache of Client/include/lru.hpp, in which a client keeps the cache  *)
(* server of each key it used: a std::list of key-value pairs, most        *)
(* recently used first, and a map from keys to iterators into the list.    *)
(* Only the client's main loop calls it.                                   *)
(*                                                                         *)
(* erase() takes a key out of the map and leaves its pair in the list: an  *)
(* orphan, which eviction meets again later.                               *)
(***************************************************************************)
EXTENDS Naturals, FiniteSets, Lists

CONSTANTS
    Key, Val,
    MaxSize,    \* _max_size; client_main leaves it 0 without an option
    Node,       \* identities of list nodes: what an iterator denotes
    MaxErases   \* bound: calls of erase() that find their key

ASSUME ClientAssumption ==
    /\ IsFiniteSet(Key)
    /\ MaxSize \in Nat
    /\ MaxErases \in Nat

VARIABLES
    list,     \* _cache_items_list, as a sequence of nodes
    item,     \* node -> the pair in it
    map,      \* _cache_items_map: key -> node
    erased,   \* history: how many calls of erase() found their key
    latest    \* history: key -> the value put last

vars == <<list, item, map, erased, latest>>

Pair == [key : Key, val : Val]

-----------------------------------------------------------------------------
(***************************************************************************)
(* Operations.  exists() and size() only read; a get() that misses throws  *)
(* and changes nothing.                                                    *)
(***************************************************************************)

\* Plausible bugs: eviction drops the pair and leaves the key in the map; it
\* drops the key and leaves the pair in the list.
EvictPairOnly(l, i, m) == [list |-> Front(l), map |-> m]

EvictKeyOnly(l, i, m) ==
    [list |-> l, map |-> Restrict(m, DOMAIN m \ {i[Last(l)].key})]

\* The pair at the back goes, and with it whatever the map has for its key.
Evict(l, i, m) ==
    [list |-> Front(l), map |-> Restrict(m, DOMAIN m \ {i[Last(l)].key})]

\* The list, its pairs and the map after a put of k in a new node n that has
\* left the nodes rest and filed the key as given.
Put(k, v, n, rest, filed) ==
    LET pushed == <<n>> \o rest
        pairs == [m \in ToSet(pushed) |->
                    IF m = n THEN [key |-> k, val |-> v] ELSE item[m]]
        final == IF Cardinality(DOMAIN filed) > MaxSize
                 THEN Evict(pushed, pairs, filed)
                 ELSE [list |-> pushed, map |-> filed]
    IN  /\ n \notin ToSet(list)
        /\ list' = final.list
        /\ map' = final.map
        /\ item' = Restrict(pairs, ToSet(list'))
        /\ latest' = [j \in DOMAIN latest \cup {k} |->
                        IF j = k THEN v ELSE latest[j]]
        /\ UNCHANGED erased

\* A plausible bug: insert() in place of operator[], which keeps the old
\* iterator, and with it the old pair, of a key that is present.
putKeepsIterator(k, v, n) ==
    Put(k, v, n, list, [j \in DOMAIN map \cup {k} |->
                        IF j \in DOMAIN map THEN map[j] ELSE n])

\* put(), with n the node that push_front allocates.
put(k, v, n) ==
    Put(k, v, n, IF k \in DOMAIN map THEN Dropped(list, map[k]) ELSE list,
        [j \in DOMAIN map \cup {k} |-> IF j = k THEN n ELSE map[j]])

\* A plausible bug: the entry stays, with an iterator that denotes no node.
eraseToEnd(k) ==
    /\ k \in DOMAIN map /\ erased < MaxErases
    /\ map' = [map EXCEPT ![k] = 0]
    /\ erased' = erased + 1
    /\ UNCHANGED <<list, item, latest>>

\* erase() of a key that is present.
erase(k) ==
    /\ k \in DOMAIN map /\ erased < MaxErases
    /\ map' = Restrict(map, DOMAIN map \ {k})
    /\ erased' = erased + 1
    /\ UNCHANGED <<list, item, latest>>

\* get() of a key that is present: its pair moves to the front.
get(k) ==
    /\ k \in DOMAIN map
    /\ list' = <<map[k]>> \o Dropped(list, map[k])
    /\ UNCHANGED <<item, map, erased, latest>>

Init ==
    /\ list = <<>>
    /\ item = [n \in {} |-> n]
    /\ map = [k \in {} |-> k]
    /\ erased = 0
    /\ latest = [k \in {} |-> k]

Next ==
    \/ \E k \in Key, v \in Val, n \in Node : put(k, v, n)
    \/ \E k \in Key : erase(k)
    \/ \E k \in Key : get(k)

Spec == Init /\ [][Next]_vars

-----------------------------------------------------------------------------
(***************************************************************************)
(* Properties.                                                             *)
(***************************************************************************)

\* The type of the state.
TypeOK ==
    /\ list \in Seq(Node)
    /\ item \in [ToSet(list) -> Pair]
    /\ DOMAIN map \subseteq Key /\ map \in [DOMAIN map -> Node]
    /\ erased \in 0 .. MaxErases
    /\ DOMAIN map \subseteq DOMAIN latest /\ latest \in [DOMAIN latest -> Val]

\* No iterator in the map dangles: although eviction looks at the back of the
\* list only and erases by key, every key in the map leads to a pair that is
\* in the list and is the pair of that key; no pair is in the list twice.
IteratorsValid ==
    /\ \A k \in DOMAIN map : map[k] \in ToSet(list) /\ item[map[k]].key = k
    /\ Cardinality(ToSet(list)) = Len(list)

\* The pairs that no key leads to.
Orphans == {n \in ToSet(list) : \A k \in DOMAIN map : map[k] # n}

\* What _max_size bounds: the map and the list hold at most as many entries
\* more than it as there have been erasures.  (They do reach that bound: an
\* orphan at the back saves a key from eviction for good.)
GrowthIsBounded ==
    /\ Len(list) <= MaxSize + erased
    /\ Cardinality(Orphans) <= erased
    /\ erased = 0 => Cardinality(DOMAIN map) <= MaxSize

\* What get() would return for each key in the map.
Abstract == INSTANCE LossyMap WITH
    known <- [k \in DOMAIN map |-> item[map[k]].val]

\* The local cache never returns a location other than the one put last: it
\* implements the lossy map.
ImplementsLossyMap == Abstract!MapSpec
=============================================================================
