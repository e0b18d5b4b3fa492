------------------------- MODULE MCCanonicalStream -------------------------
(* A small instance of CanonicalStream for TLC.                            *)
EXTENDS CanonicalStream, TLC

CONSTANTS Discovery, v0, v1, v2

(* Full snapshots of two lanes, promoted automatically; and an incremental *)
(* source whose runs are promoted by review.                               *)
Definitions ==
    {[mode |-> "full_snapshot", policy |-> "automatic",
      lanes |-> {Production, Discovery}, values |-> {v0}],
     [mode |-> "incremental", policy |-> "manual_review",
      lanes |-> {Production}, values |-> {v1, v2}]}

Symmetry == Permutations(Run) \cup Permutations(Scope)
                \cup Permutations({v1, v2})
============================================================================
