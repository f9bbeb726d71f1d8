------------------------------ MODULE MCClient ------------------------------
(***************************************************************************)
(* TLC instances of the client.                                            *)
(***************************************************************************)
EXTENDS Client, TLC

CONSTANTS h1, h2, q1, q2

\* The hosts and ports of two primaries.
Two == {[host |-> h1, port |-> q1], [host |-> h2, port |-> q2]}

\* A backup listens at each of their crossings.
Four == [host : Host, port : Port]

\* Keys are interchangeable, and so are the two hosts with their ports: no
\* definition of Client chooses one of them.
Symmetry ==
    Permutations(Key)
      \cup {(h1 :> h2) @@ (h2 :> h1) @@ (q1 :> q2) @@ (q2 :> q1)}
=============================================================================
