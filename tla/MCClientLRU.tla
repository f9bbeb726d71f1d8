---------------------------- MODULE MCClientLRU ----------------------------
(***************************************************************************)
(* TLC instances of the client's local cache.                              *)
(***************************************************************************)
EXTENDS ClientLRU

\* List nodes are interchangeable.
MCSymmetry == Permutations(Node)
=============================================================================
