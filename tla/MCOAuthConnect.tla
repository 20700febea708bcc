--------------------------- MODULE MCOAuthConnect ---------------------------
(* Two exchanges of one code, two gateway calls and a revoke, over two     *)
(* instances.                                                              *)
EXTENDS OAuthConnect, TLC

CONSTANTS a, x1, x2, r1, r2, v1, i1, i2, k1, k2

OneCode == [x \in {x1, x2} |-> a]
Placement == x1 :> i1 @@ x2 :> i2 @@ r1 :> i2 @@ r2 :> i2 @@ v1 :> i1

KeySymmetry == Permutations({k1, k2})
=============================================================================
