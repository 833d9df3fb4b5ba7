------------------------- MODULE MCRawMeasurements -------------------------
(* Instances of RawMeasurements for TLC: subscriptions to one kit. *)
EXTENDS RawMeasurements, TLC

CONSTANTS s1, s2, k1

TwoSubs == s1 :> k1 @@ s2 :> k1
=============================================================================
