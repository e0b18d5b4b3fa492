---------------------------- MODULE MCIngestion -----------------------------
(* A small instance of Ingestion for TLC.                                  *)
EXTENDS Ingestion, TLC

CONSTANTS j1, j2, j3, j4, j5, j6, j7, j8, c0, c1, c2, c3, r1, r2

(* c1 has two records, c2 cannot be parsed, c0 has none and c3 has one.    *)
Parsers == c0 :> {} @@ c1 :> {r1, r2} @@ c2 :> {} @@ c3 :> {r1}

(* What the sources serve.                                                 *)
Sources == [f \in Families |->
              CASE f = "macro"     -> {c2, c3}
                [] f = "bank_rate" -> {c1}
                [] f = "pld"       -> {c0, c1}
                [] OTHER           -> {c0, c3}]

JobFamilies == j1 :> "macro" @@ j2 :> "macro"
               @@ j3 :> "file_selected" @@ j4 :> "onspd" @@ j5 :> "onspd"
               @@ j6 :> "pld" @@ j7 :> "bank_rate" @@ j8 :> "file"
JobKinds    == j1 :> "scheduled" @@ j2 :> "reparse"
               @@ j3 :> "scheduled" @@ j4 :> "scheduled" @@ j5 :> "reparse"
               @@ j6 :> "backfill" @@ j7 :> "fixture" @@ j8 :> "backfill"

Attempts == [j \in Job |-> IF j \in {j6, j7} THEN 1 ELSE 2]

(* A series and the replay of its evidence; a release found through two    *)
(* pages and a backfill of one, which there is not; a lookup and its       *)
(* replay; a backfill with a window and a fixture.                         *)
JobPlans == {{j1, j2}, {j3, j8}, {j4, j5}, {j6, j7}}
=============================================================================
