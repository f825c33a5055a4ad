----------------------------- MODULE MCXgqClient -----------------------------
(* Two CUs on one XGQ, the first a soft kernel that asks for results. *)
EXTENDS XgqClient, TLC

CONSTANTS u1, u2, m1, m2, m3

MCCuOf == (m1 :> u1) @@ (m2 :> u1) @@ (m3 :> u2)
=============================================================================
