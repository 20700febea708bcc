------------------------- MODULE MCRouterFailover -------------------------
(* Two requests over two candidates: p1 on the caller's own key with one   *)
(* model, p2 shared with two, one of them above the ceiling.               *)
EXTENDS RouterFailover, TLC

CONSTANTS p1, p2, d1, d2, d3

RequestSymmetry == Permutations(Requests)

OnePerCandidate == d1 :> p1 @@ d2 :> p2

TwoCandidates == d1 :> p1 @@ d2 :> p2 @@ d3 :> p2
=============================================================================
