------------------------------ MODULE LRUCache ------------------------------
(***************************************************************************)
(* LRU_Cache of cache/src/LRU_cache.hpp: a doubly linked list between two  *)
(* sentinels, a hash map from keys to its nodes, and a counter.  The task  *)
(* that serves a client and the threads that send and receive migrated     *)
(* keys share it.  put() runs under the mutex; get() frees the mutex       *)
(* before it reads the value from the node it found.                       *)
(***************************************************************************)
EXTENDS Naturals, FiniteSets

CONSTANTS
    Key, Val,
    Capacity,    \* 10 in the code
    Addr,        \* addresses a node may be allocated at
    head, tail,  \* the sentinels
    Thread,      \* the threads that call it
    Idle         \* a thread that is not inside get()

ASSUME CacheAssumption ==
    /\ Key # {} /\ Val # {}
    /\ Capacity \in Nat \ {0}
    /\ Cardinality(Addr) > Capacity
    /\ head \notin Addr /\ tail \notin Addr /\ head # tail
    /\ Idle \notin Addr

VARIABLES
    links,    \* the next and prev pointers of all nodes, freed ones too
    content,  \* the key and value of the nodes, freed ones too
    map,      \* key -> node
    size,
    reading,  \* thread -> the key it asked for and the node it will read
    since,    \* history: the keys used since the thread gave up the mutex
    latest    \* history: key -> the value put last

vars == <<links, content, map, size, reading, since, latest>>

Node == Addr \cup {head, tail}
Content == [key : Key, val : Val]

\* The nodes in use.
Allocated == {map[k] : k \in DOMAIN map}

-----------------------------------------------------------------------------
(***************************************************************************)
(* The list primitives, as functions from links to links.                  *)
(***************************************************************************)

remove(l, n) ==
    [next |-> [l.next EXCEPT ![l.prev[n]] = l.next[n]],
     prev |-> [l.prev EXCEPT ![l.next[n]] = l.prev[n]]]

\* A plausible bug: the prev pointer of the old first node is not updated.
add2headForward(l, n) ==
    [next |-> [l.next EXCEPT ![n] = l.next[head], ![head] = n],
     prev |-> [l.prev EXCEPT ![n] = head]]

add2head(l, n) ==
    [next |-> [l.next EXCEPT ![n] = l.next[head], ![head] = n],
     prev |-> [l.prev EXCEPT ![n] = head, ![l.next[head]] = n]]

move2head(l, n) == add2head(remove(l, n), n)

\* Every thread that is between unlock and read notes that k was used.
Used(k) ==
    [t \in Thread |-> IF reading[t] = Idle THEN {} ELSE since[t] \cup {k}]

Latest(k, v) ==
    [j \in DOMAIN latest \cup {k} |-> IF j = k THEN v ELSE latest[j]]

-----------------------------------------------------------------------------
(***************************************************************************)
(* Operations.  check() and all_key() only read.                           *)
(***************************************************************************)

\* A plausible bug: a hit does not count as a use.
getInPlace(t, k) ==
    /\ reading[t] = Idle /\ k \in DOMAIN map
    /\ reading' = [reading EXCEPT ![t] = [key |-> k, node |-> map[k]]]
    /\ since' = [Used(k) EXCEPT ![t] = {k}]
    /\ UNCHANGED <<links, content, map, size, latest>>

\* get(), up to the unlock, when the key is present; a miss changes nothing.
get(t, k) ==
    /\ reading[t] = Idle /\ k \in DOMAIN map
    /\ links' = move2head(links, map[k])
    /\ reading' = [reading EXCEPT ![t] = [key |-> k, node |-> map[k]]]
    /\ since' = [Used(k) EXCEPT ![t] = {k}]
    /\ UNCHANGED <<content, map, size, latest>>

\* get(), after the unlock: the value is read and returned.
getReturn(t) ==
    /\ reading[t] # Idle
    /\ reading' = [reading EXCEPT ![t] = Idle]
    /\ since' = [since EXCEPT ![t] = {}]
    /\ UNCHANGED <<links, content, map, size, latest>>

\* A plausible bug: the node is moved and keeps its old value.
putPresentKeepValue(k, v) ==
    /\ k \in DOMAIN map
    /\ links' = move2head(links, map[k])
    /\ since' = Used(k)
    /\ latest' = Latest(k, v)
    /\ UNCHANGED <<content, map, size, reading>>

\* put() of a key that is present.
putPresent(k, v) ==
    /\ k \in DOMAIN map
    /\ links' = move2head(links, map[k])
    /\ content' = [content EXCEPT ![map[k]].val = v]
    /\ since' = Used(k)
    /\ latest' = Latest(k, v)
    /\ UNCHANGED <<map, size, reading>>

\* A plausible bug: the tail is evicted one entry late.
TooManyLate(n) == n >= Capacity + 2

\* size > capacity
TooMany(n) == n > Capacity

\* put() of a new key, in a node allocated at n.
putAbsent(k, v, n) ==
    LET grown == [j \in DOMAIN map \cup {k} |-> IF j = k THEN n ELSE map[j]]
        longer == add2head(links, n)
        last == longer.prev[tail]
    IN  /\ k \notin DOMAIN map /\ n \notin Allocated
        /\ content' = [content EXCEPT ![n] = [key |-> k, val |-> v]]
        /\ IF TooMany(size + 1)
           THEN /\ links' = remove(longer, last)
                /\ map' = [j \in DOMAIN grown \ {content'[last].key} |-> grown[j]]
                /\ UNCHANGED size
           ELSE links' = longer /\ map' = grown /\ size' = size + 1
        /\ since' = Used(k)
        /\ latest' = Latest(k, v)
        /\ UNCHANGED reading

\* The contents of memory that was never allocated do not matter; one
\* arbitrary choice stands for all.
Init ==
    /\ links = [next |-> [n \in Node |-> IF n = head THEN tail ELSE head],
                prev |-> [n \in Node |-> head]]
    /\ content = [n \in Addr |-> CHOOSE c \in Content : TRUE]
    /\ map = [k \in {} |-> head]
    /\ size = 0
    /\ reading = [t \in Thread |-> Idle]
    /\ since = [t \in Thread |-> {}]
    /\ latest = [k \in {} |-> k]

Next ==
    \/ \E t \in Thread, k \in Key : get(t, k)
    \/ \E t \in Thread : getReturn(t)
    \/ \E k \in Key, v \in Val : putPresent(k, v)
    \/ \E k \in Key, v \in Val, n \in Addr : putAbsent(k, v, n)

Spec == Init /\ [][Next]_vars

-----------------------------------------------------------------------------
(***************************************************************************)
(* Properties.                                                             *)
(***************************************************************************)

\* The type of the state.
TypeOK ==
    /\ links \in [next : [Node -> Node], prev : [Node -> Node]]
    /\ content \in [Addr -> Content]
    /\ map \in [DOMAIN map -> Addr] /\ DOMAIN map \subseteq Key
    /\ size \in 0 .. Capacity
    /\ reading \in [Thread -> [key : Key, node : Addr] \cup {Idle}]
    /\ since \in [Thread -> SUBSET Key]
    /\ DOMAIN map \subseteq DOMAIN latest /\ latest \in [DOMAIN latest -> Val]

\* The node n steps after the head.
At == [i \in 0 .. (size + 1) |->
         LET walk[j \in 0 .. i] == IF j = 0 THEN head ELSE links.next[walk[j - 1]]
         IN  walk[i]]

\* The list and the map hold the same nodes: walking from the head visits
\* size nodes, each filed in the map under its own key, and ends at the tail;
\* the prev pointers lead back the same way.
ListMatchesMap ==
    /\ size = Cardinality(DOMAIN map)
    /\ At[size + 1] = tail
    /\ \A i \in 1 .. (size + 1) : links.prev[At[i]] = At[i - 1]
    /\ \A i \in 1 .. size :
          /\ At[i] \in Addr
          /\ content[At[i]].key \in DOMAIN map
          /\ map[content[At[i]].key] = At[i]

\* The list with the map is the abstract least-recently-used cache.
Abstract == INSTANCE LRU WITH
    order <- [i \in 1 .. size |-> content[At[i]].key],
    value <- [k \in DOMAIN map |-> content[map[k]].val]

ImplementsLRU == Abstract!LRUSpec

\* How wide the window is that get() leaves between unlock and read: the node
\* it is about to read is still that of the key it asked for, at least until
\* more keys have been used, that one included, than the cache has room for.
\* (From then on the node may have been deleted.)
LateReadIsSafe ==
    \A t \in Thread :
        reading[t] # Idle /\ Cardinality(since[t]) <= Capacity =>
            /\ reading[t].key \in DOMAIN map
            /\ map[reading[t].key] = reading[t].node
=============================================================================
