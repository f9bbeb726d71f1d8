------------------------------ MODULE LossyMap ------------------------------
(***************************************************************************)
(* What a client may rely on from its local cache of key locations: it may *)
(* forget a key whenever another is put, one at a time, but what it does   *)
(* remember of a key is what was put last and not erased since.  This is   *)
(* the abstract specification that ClientLRU implements.                   *)
(***************************************************************************)
EXTENDS Functions

CONSTANTS Key, Val

VARIABLES
    latest,   \* key -> the value put last, for the keys ever put
    known     \* key -> value, for the keys remembered

mapVars == <<latest, known>>

With(f, k, v) == [j \in DOMAIN f \cup {k} |-> IF j = k THEN v ELSE f[j]]

Without(f, k) == Restrict(f, DOMAIN f \ {k})

MapInit == latest = [k \in {} |-> k] /\ known = latest

\* What a map f may be after v has been put for k: one key may be forgotten.
Puts(f, k, v) ==
    {With(f, k, v)} \cup {Without(With(f, k, v), j) : j \in Key}

MapPut(k, v) ==
    /\ latest' = With(latest, k, v)
    /\ known' \in Puts(known, k, v)

MapErase(k) == known' = Without(known, k) /\ UNCHANGED latest

MapNext == \E k \in Key : MapErase(k) \/ \E v \in Val : MapPut(k, v)

MapSpec == MapInit /\ [][MapNext]_mapVars
=============================================================================
