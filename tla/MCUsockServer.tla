--------------------------- MODULE MCUsockServer ---------------------------
(* UsockServer with a few connections.                                     *)
EXTENDS UsockServer

\* Addresses are interchangeable.
Symmetry == Permutations(Slots)
=============================================================================
