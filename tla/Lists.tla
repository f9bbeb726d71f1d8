-------------------------------- MODULE Lists --------------------------------
(***************************************************************************)
(* What the program's lists, vectors and stacks do that the library has no *)
(* operator for: an element is erased at the place where it is.            *)
(***************************************************************************)
EXTENDS SequencesExt

\* The sequence s without the element e, which is in it once at most.
Dropped(s, e) ==
    IF e \in ToSet(s) THEN RemoveAt(s, CHOOSE i \in DOMAIN s : s[i] = e) ELSE s
=============================================================================
