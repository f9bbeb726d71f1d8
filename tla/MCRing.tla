------------------------------- MODULE MCRing -------------------------------
(***************************************************************************)
(* TLC instance of the ring on its own.  The ring is a function of the     *)
(* number of primaries, so the instance takes many primaries rather than   *)
(* few; the point layout interleaves the shards, so that most points have  *)
(* neighbours that belong to other shards.                                 *)
(***************************************************************************)
EXTENDS ConsistentHash

CONSTANT MaxNodes   \* bound on the number of primaries

MCShard == 0 .. (MaxNodes - 1)
MCVNode == {0, 1}

\* Two points per shard in a scattered order, none at 0 and none at the top.
Slot(s) == 2 * s[1] + s[2]
MCPoint == [s \in MCShard \X MCVNode |-> 1 + ((Slot(s) * 88 + 3) % (HashSize - 2))]

\* The layout has the property the code's hash function was found to have.
ASSUME LayoutAssumption == NoCollision
=============================================================================
