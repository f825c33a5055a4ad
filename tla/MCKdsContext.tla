---------------------------- MODULE MCKdsContext ----------------------------
(* KdsContext for TLC.  Clients and hardware contexts are interchangeable.  *)
EXTENDS KdsContext, TLC

Symmetry == Permutations(Client) \cup Permutations(HwCtx)
=============================================================================
