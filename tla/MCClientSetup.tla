--------------------------- MODULE MCClientSetup ---------------------------
(* An instance of ClientSetup for TLC. *)
EXTENDS ClientSetup, TLC

\* The callers differ in nothing but their names.
Symmetry == Permutations(Callers)
=============================================================================
