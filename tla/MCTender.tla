------------------------------ MODULE MCTender ------------------------------
(* The campaigns of Tender and its sweep ledger, which share no state: a   *)
(* behaviour is one of the one or of the other.  Of the handlers of the    *)
(* campaigns three take part in a behaviour, and the others stay idle.     *)
EXTENDS TenderCampaigns, TenderSweep, TLC

CONSTANTS i1, house, ad, r1, r2, m1, m2, v1, v2, w1, w2, c1, c2, c3, s1, s2, s3, n1

VARIABLE active

Prices == house :> 1 @@ ad :> 2
Blocks == house :> 2 @@ ad :> 1
Homes  == [h \in {r1, r2, m1, m2, v1, v2} |-> i1]
Verified == v1 :> ad @@ v2 :> ad

Owners == c1 :> w1 @@ c2 :> w1 @@ c3 :> w2 @@ s1 :> w1 @@ s2 :> w1 @@ s3 :> w1 @@ n1 :> w1
Amounts == c1 :> 2 @@ c2 :> 3 @@ c3 :> 3

TenderInit ==
  /\ CampaignInit
  /\ SweepInit
  /\ active \in {{r1, r2, v1}, {m1, m2, v1}, {r1, m1, v1}, {r1, v1, v2}, {}}

TenderNext ==
  \/ /\ active # {}
     /\ CampaignNext
     /\ \A h \in CampaignHandlers \ active : handlerPc'[h] = handlerPc[h]
     /\ UNCHANGED <<sweepVars, active>>
  \/ /\ active = {}
     /\ SweepNext
     /\ UNCHANGED <<campaignVars, active>>

TenderSpec == TenderInit /\ [][TenderNext]_<<campaignVars, sweepVars, active>>
=============================================================================
