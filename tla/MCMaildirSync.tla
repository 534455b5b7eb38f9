--------------------------- MODULE MCMaildirSync ---------------------------
(* A small instance of MaildirSync for TLC. *)
EXTENDS MaildirSync
=============================================================================
