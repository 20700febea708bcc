------------------------ MODULE MCConnectionBudget ------------------------
(* Instances of ConnectionBudget for TLC: calls racing on one connection.  *)
EXTENDS ConnectionBudget, TLC

CONSTANTS k1, c1, c2

OneKey == [c \in Calls |-> k1]

CallSymmetry == Permutations(Calls)
=============================================================================
