-------------------------------- MODULE LRU --------------------------------
(***************************************************************************)
(* What a cache server promises about the keys it keeps: the ones used     *)
(* most recently, up to the capacity, each with the value last put.  This  *)
(* is the abstract specification that LRUCache implements.                 *)
(***************************************************************************)
EXTENDS Naturals, Lists

CONSTANTS Key, Val, Capacity

VARIABLES
    latest,  \* key -> the value put last, for the keys ever put
    order,   \* the keys present, most recently used first
    value    \* the value of each of them

lruVars == <<latest, order, value>>

\* The keys in order s after k has been used, and without what is too much.
Touched(s, k) == <<k>> \o Dropped(s, k)

Kept(s, k) == IF Len(Touched(s, k)) > Capacity THEN Front(Touched(s, k)) ELSE Touched(s, k)

LRUInit == order = <<>> /\ value = [k \in {} |-> k] /\ latest = value

\* A key in the cache is used again.
LRUGet(k) ==
    /\ k \in ToSet(order)
    /\ order' = Touched(order, k)
    /\ UNCHANGED <<latest, value>>

\* A key gets a value; if it is new and the cache is full, the key that has
\* not been used for longest goes.
LRUPut(k, v) ==
    /\ order' = Kept(order, k)
    /\ latest' = [j \in DOMAIN latest \cup {k} |-> IF j = k THEN v ELSE latest[j]]
    /\ value' = [j \in ToSet(order') |-> latest'[j]]

LRUNext == \E k \in Key : LRUGet(k) \/ \E v \in Val : LRUPut(k, v)

LRUSpec == LRUInit /\ [][LRUNext]_lruVars
=============================================================================
