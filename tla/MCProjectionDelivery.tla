------------------------ MODULE MCProjectionDelivery ------------------------
(* A small instance of ProjectionDelivery for TLC.                         *)
EXTENDS ProjectionDelivery, TLC

CONSTANT r1

(* Two metrics, which may become available together, and an event.         *)
KindsOfKeys == 1 :> "metrics" @@ 2 :> "metrics" @@ 3 :> "events"
OneRuleBroken == {<<r1, 2>>}

(* A queued delivery while an operator publishes that or a later anchor;   *)
(* and a publication of several rows.                                      *)
DemandsToMeet ==
    {[promoted |-> {<<2, 1>>, <<2, 2>>}, queued |-> {1}, published |-> {1, 2}],
     [promoted |-> {<<1, 1>>, <<1, 2>>, <<2, 1>>, <<3, 1>>}, queued |-> {},
      published |-> {1}]}
=============================================================================
