----------------------------- MODULE MCHwContext -----------------------------
(* HwContext with two clients, for TLC.  Clients, xclbins and hardware context *)
(* ids are interchangeable; symmetry is used where no liveness is checked.     *)
EXTENDS HwContext, TLC

Symmetry == Permutations(Client) \cup Permutations(Xclbin) \cup Permutations(HwId)
=============================================================================
