-------------------------- MODULE MCRetransmitter --------------------------
(* Four payloads of two xgresses, so that the list holds three while the     *)
(* ingester holds one, and an ingest channel with room for one.              *)
EXTENDS Retransmitter, TLC

CONSTANTS p1, p2, p3, p4, g1, g2

MCPayloads == {p1, p2, p3, p4}
MCXgresses == {g1, g2}
MCx == p1 :> g1 @@ p2 :> g1 @@ p3 :> g1 @@ p4 :> g2
=============================================================================
