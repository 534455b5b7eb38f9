----------------------------- MODULE MCSendQueue -----------------------------
(* Instances of SendQueue for TLC. *)
EXTENDS SendQueue
=============================================================================
