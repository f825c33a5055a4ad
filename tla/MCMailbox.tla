----------------------------- MODULE MCMailbox -----------------------------
(* Mailbox with few requests and notifications, for TLC. *)
EXTENDS Mailbox
=============================================================================
