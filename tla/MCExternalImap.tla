--------------------------- MODULE MCExternalImap ---------------------------
(* A small instance of ExternalImap for TLC. *)
EXTENDS ExternalImap, TLC

\* The runs by hand may be exchanged for one another in a safety run.
Symmetry == Permutations(Runs)
=============================================================================
