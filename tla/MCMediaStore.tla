---------------------------- MODULE MCMediaStore ----------------------------
(* Instances of MediaStore for TLC: two media of two configurations, *)
(* one of which is delivered twice. *)
EXTENDS MediaStore, TLC

CONSTANTS m1, m2, a, b, r1, r2

TwoConfigs == m1 :> a @@ m2 :> b
Deliveries == m1 :> 2 @@ m2 :> 1
=============================================================================
