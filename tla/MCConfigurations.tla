-------------------------- MODULE MCConfigurations --------------------------
(* Instances of Configurations for TLC: two kits, one with two             *)
(* configurations.                                                         *)
EXTENDS Configurations, TLC

CONSTANTS r1, r2, k1, k2, a1, a2, b1, p1, p2

TwoKits == a1 :> k1 @@ a2 :> k1 @@ b1 :> k2
OneKit == a1 :> k1
Symmetry == Permutations(Requests) \cup Permutations(Peripherals) \cup Permutations({a1, a2})
=============================================================================
