------------------------------ MODULE MCIngest ------------------------------
(* Instances of Ingest for TLC: three measurements of the peripheral of one *)
(* kit, one of them sent by another kit.                                   *)
EXTENDS Ingest, TLC

CONSTANTS m1, m2, m3, p1, k1, k2, r1, r2

OnePeripheral == m1 :> p1 @@ m2 :> p1 @@ m3 :> p1
Senders == m1 :> k1 @@ m2 :> k1 @@ m3 :> k2
Owner == p1 :> k1
=============================================================================
