--------------------------- MODULE MCScheduledSend ---------------------------
(* Instances of ScheduledSend for TLC. *)
EXTENDS ScheduledSend
=============================================================================
