--------------------------- MODULE MCCsrfRotation ---------------------------
(* Small instances of CsrfRotation: tabs and requests are interchangeable. *)
EXTENDS CsrfRotation, TLC

Symmetry == Permutations(Tabs) \cup Permutations(Reqs)
=============================================================================
