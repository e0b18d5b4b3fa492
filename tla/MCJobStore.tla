---------------------------- MODULE MCJobStore ----------------------------
(* Instances of JobStore for TLC.                                          *)
EXTENDS JobStore, TLC

CONSTANTS j1, j2, w1, w2

Ingestion(trigger, slot, attempts) ==
    [kind |-> "ingestion", trigger |-> trigger, slot |-> slot,
     priority |-> 100, attempts |-> attempts, base |-> 1, maximum |-> 2,
     promotion |-> "automatic"]

Projection ==
    [kind |-> "projection", trigger |-> "manual", slot |-> 0,
     priority |-> 50, attempts |-> 2, base |-> 1, maximum |-> 0,
     promotion |-> "none"]

(* Every way to create a job, with budgets of one and two attempts.        *)
MixedRequests == {Ingestion("manual", 0, 2), Ingestion("backfill", 1, 1),
                  Projection}

Symmetry == Permutations(JobId) \cup Permutations(Worker)
===========================================================================
