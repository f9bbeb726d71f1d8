----------------------------- MODULE MCLRUCache -----------------------------
(***************************************************************************)
(* TLC instance of the cache server's LRU cache.                           *)
(***************************************************************************)
EXTENDS LRUCache, TLC

\* Threads are interchangeable, and so are addresses.
MCSymmetry == Permutations(Thread) \cup Permutations(Addr)
=============================================================================
