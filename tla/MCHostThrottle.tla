--------------------------- MODULE MCHostThrottle ----------------------------
(* A small instance of HostThrottle for TLC.                               *)
EXTENDS HostThrottle, TLC

Symmetry == Permutations(Acquirer)
=============================================================================
