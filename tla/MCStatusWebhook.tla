-------------------------- MODULE MCStatusWebhook --------------------------
(* A small instance of StatusWebhook for TLC. *)
EXTENDS StatusWebhook

CONSTANTS a1, c1, c2, s1, s2

MCSendOf == [e \in {a1, c1, c2} |-> IF e = c2 THEN s2 ELSE s1]
=============================================================================
