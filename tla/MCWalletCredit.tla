--------------------------- MODULE MCWalletCredit ---------------------------
(* Two channels; the payment of the first may be sent twice.               *)
EXTENDS WalletCredit, TLC

CONSTANTS t1, t2, t3, k1, k2, q1, a, b

OpenChannels == t1 :> a @@ t2 :> a @@ t3 :> b
Ceilings == a :> 3 @@ b :> 2

CloseSymmetry == Permutations({k1, k2}) \cup Permutations({t1, t2})
=============================================================================
