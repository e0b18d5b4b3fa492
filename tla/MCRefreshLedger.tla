--------------------------- MODULE MCRefreshLedger ---------------------------
(* A small instance of RefreshLedger for TLC.                              *)
EXTENDS RefreshLedger, TLC

Symmetry == Permutations(Caller) \cup Permutations(Request)
                \cup Permutations(Principal)
=============================================================================
