------------------------------ MODULE MCLedgers ------------------------------
(* The ledgers that wallets and campaigns are settled on share no state    *)
(* here: a behaviour is one of one of them.                                *)
EXTENDS MCWalletCredit, MCTender

VARIABLE part

TenderVars == <<campaignVars, sweepVars, active>>

LedgersInit ==
  /\ part \in {"credit", "tender"}
  /\ Init
  /\ TenderInit
  /\ part # "tender" => active = {}

LedgersNext ==
  /\ UNCHANGED part
  /\ \/ part = "credit" /\ Next /\ UNCHANGED TenderVars
     \/ part = "tender" /\ TenderNext /\ UNCHANGED vars

LedgersSpec == LedgersInit /\ [][LedgersNext]_<<vars, TenderVars, part>>
=============================================================================
