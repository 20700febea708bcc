------------------------------ MODULE MCBudgets ------------------------------
(* The budget of a connection, the paying client, the payments with a      *)
(* signed transfer and the meters that spend is gated by share no state: a *)
(* behaviour is one of one part, and the others stay at their initial      *)
(* states.                                                                 *)
EXTENDS MCConnectionBudget, PayingFetch, X402Exact, SpendGates

CONSTANTS f1, f2, h1, h2, h3, d1, d2, d3, d4, p1, p2, l1, l2, g1, i1

VARIABLE part

Asked == h1 :> 1 @@ h2 :> 2 @@ h3 :> 2

Proofs == d1 :> p1 @@ d2 :> p1 @@ d3 :> p1 @@ d4 :> p2
Treasured == p1 :> 2 @@ p2 :> 1
AskedFor == d1 :> 1 @@ d2 :> 2 @@ d3 :> 2 @@ d4 :> 2

LaneHomes == l1 :> i1 @@ l2 :> i1
LaneKeys  == l1 :> g1 @@ l2 :> g1

BudgetsInit ==
  /\ part \in {"calls", "pay", "exact", "spend"}
  /\ Init
  /\ PayInit
  /\ ExactInit
  /\ SpendInit
  /\ part # "calls" => mode = [c \in Calls |-> "json"]
  /\ part # "pay" => provider = "solana"

BudgetsNext ==
  /\ UNCHANGED part
  /\ \/ part = "calls" /\ Next /\ UNCHANGED <<payVars, exactVars, spendVars>>
     \/ part = "pay" /\ PayNext /\ UNCHANGED <<vars, exactVars, spendVars>>
     \/ part = "exact" /\ ExactNext /\ UNCHANGED <<vars, payVars, spendVars>>
     \/ part = "spend" /\ SpendNext /\ UNCHANGED <<vars, payVars, exactVars>>

BudgetsSpec == BudgetsInit /\ [][BudgetsNext]_<<vars, payVars, exactVars, spendVars, part>>
=============================================================================
