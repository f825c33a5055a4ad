------------------------------ MODULE MCXrtCu ------------------------------
(* One CU, small enough for TLC.  The counters sem and comp grow with every  *)
(* submission; as each command is submitted once, the state space is finite. *)
EXTENDS XrtCu, TLC

CONSTANTS c1, c2, x1, x2, x3, a1

MCOwner == x1 :> c1 @@ x2 :> c2 @@ x3 :> c1
MCTarget == a1 :> x1

=============================================================================
