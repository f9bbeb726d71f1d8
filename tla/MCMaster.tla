------------------------------ MODULE MCMaster ------------------------------
(***************************************************************************)
(* TLC instances of the master.  One virtual node per shard is enough to   *)
(* tell the owners apart; the points of neighbouring shards are not        *)
(* neighbours, and none is at 0, as in the code's hash function.           *)
(***************************************************************************)
EXTENDS Master

MCShard == -1 .. MaxStarts
MCVNode == {0}
MCPoint == [s \in MCShard \X MCVNode |-> 1 + ((2 * (s[1] + 1)) % (HashSize - 1))]

\* Descriptors are interchangeable, and so are primaries.
MCSymmetry == Permutations(Fd) \cup Permutations(PCache)

ASSUME LayoutAssumption == NoCollision /\ NoPointAtZero
=============================================================================
