-------------------------- MODULE MCIdempotentSend --------------------------
(* Instances of IdempotentSend for TLC. *)
EXTENDS IdempotentSend, TLC

Symmetry == Permutations(Requests) \cup Permutations(Bodies)
=============================================================================
