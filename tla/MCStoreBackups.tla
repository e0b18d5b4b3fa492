--------------------------- MODULE MCStoreBackups ---------------------------
(* Small instances of StoreBackups for TLC.                                *)
EXTENDS StoreBackups, TLC

CONSTANTS p1, p2, c1, c2, d1, d2, d3

Symmetry == Permutations({p1, p2}) \cup Permutations({c1, c2})
                \cup Permutations({d1, d2})
=============================================================================
