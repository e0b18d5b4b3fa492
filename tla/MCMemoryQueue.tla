---------------------------- MODULE MCMemoryQueue ----------------------------
(* A small instance of MemoryQueue for TLC.                                *)
EXTENDS MemoryQueue, TLC

CONSTANTS j1, j2, t1, t2

(* A request with one retry and a more urgent one without.                 *)
Requests == {[attempts |-> 2, priority |-> 2], [attempts |-> 1, priority |-> 1]}

Symmetry == Permutations({j1, j2}) \cup Permutations({t1, t2})
==============================================================================
