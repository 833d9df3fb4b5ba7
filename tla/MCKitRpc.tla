------------------------------ MODULE MCKitRpc ------------------------------
(* Instance of KitRpc for TLC: two calls, to one kit or to two.            *)
EXTENDS KitRpc, TLC

CONSTANTS c1, c2, c3, k1, k2

TwoKits == c1 :> k1 @@ c2 :> k1 @@ c3 :> k2
Symmetry == Permutations({c1, c2})
=============================================================================
