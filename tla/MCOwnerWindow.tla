--------------------------- MODULE MCOwnerWindow ---------------------------
(* OwnerWindow for TLC: the Devices are interchangeable. *)
EXTENDS OwnerWindow, TLC

Symmetry == Permutations(Devices)
=============================================================================
