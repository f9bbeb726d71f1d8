---------------------------- MODULE MCCacheServer ----------------------------
(***************************************************************************)
(* TLC instances of the cache servers.  The points of the first three      *)
(* shards are out of order, so that the first key, which the last of two   *)
(* or of three servers owns, moves to a different place each time that one *)
(* goes.  The second one is its companion in a ring of two, the third one  *)
(* in a ring of three.                                                     *)
(***************************************************************************)
EXTENDS CacheServer

MCShard == -1 .. 4
MCVNode == {0}
MCPoint == [s \in MCShard \X MCVNode |-> <<1, 2, 6, 4, 7, 3>>[s[1] + 2]]

MCHash == [k \in Key |-> <<3, 5, 4>>[k]]

\* Primaries are interchangeable.
MCSymmetry == Permutations(PCache)

ASSUME LayoutAssumption == NoCollision
=============================================================================
