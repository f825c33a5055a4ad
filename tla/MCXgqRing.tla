----------------------------- MODULE MCXgqRing -----------------------------
(* The XGQ ring, for TLC. *)
EXTENDS XgqRing
=============================================================================
