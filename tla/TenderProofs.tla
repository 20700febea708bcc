---------------------------- MODULE TenderProofs ----------------------------
(***************************************************************************)
(* Proofs about Tender.  A campaign serves only once it is funded: what    *)
(* stands between the deposit and the auction are the copies of its row    *)
(* that instances and verifies hold.  What is paid for it is earned, and   *)
(* came out of its stock.  A credit is in one place, in the ledger, netted *)
(* or reserved by one sweep; and a sweep whose outcome is unknown is not   *)
(* retried: the wallet's hold outlives it.                                 *)
(***************************************************************************)
EXTENDS TenderCampaigns, TenderSweep, SumTheorems

USE DEF Campaigns, Earners, CampaignHandlers

(* No copy of an unfunded campaign is live.                                *)
NoCopyIsLive ==
  \A c \in Advertised \ deposited :
    /\ status[c] # "active"
    /\ \A i \in Instances : auction[i][c] = -1 /\ loaded[i][c] = -1

(* A verify goes on only after it has seen the deposit.                    *)
VerifiedIsFunded ==
  \A v \in Verifies : handlerPc[v] \in {"paid", "activated"} => CampaignOf[v] \in deposited

ChosenIsFunded ==
  \A h \in Earners : choice[h] \in Advertised => choice[h] \in deposited

(* Who credits has chosen, and an impression draws on stock it has seen.   *)
ChoiceIsMade ==
  \A h \in Earners :
    /\ handlerPc[h] \in {"crediting", "drawing"} => choice[h] \in Campaigns
    /\ h \in Impressions /\ handlerPc[h] \in {"crediting", "drawing"} => seen[h] > 0

FundedInv == CampaignTypeOK /\ NoCopyIsLive /\ VerifiedIsFunded /\ ChosenIsFunded /\ ChoiceIsMade

LEMMA FundedInit == CampaignInit => FundedInv
  <1> SUFFICES ASSUME CampaignInit PROVE FundedInv
    OBVIOUS
  <1>1. CampaignTypeOK
    <2>1. campaignFaulted \in BOOLEAN /\ overlapped \in BOOLEAN
      BY Zenon DEF CampaignInit
    <2>2. QED
      BY <2>1, TenderAssumption DEF CampaignInit, CampaignTypeOK, Unlisted
  <1>2. NoCopyIsLive
    BY TenderAssumption DEF CampaignInit, NoCopyIsLive, Unlisted
  <1>3. VerifiedIsFunded /\ ChosenIsFunded /\ ChoiceIsMade
    BY TenderAssumption DEF CampaignInit, VerifiedIsFunded, ChosenIsFunded, ChoiceIsMade
  <1>4. QED
    BY <1>1, <1>2, <1>3 DEF FundedInv

-----------------------------------------------------------------------------
(* Each action keeps the copies.                                            *)

LEMMA CreateCampaignKeeps ==
  ASSUME NEW c \in Advertised, FundedInv, CreateCampaign(c)
  PROVE  FundedInv'
  <1> USE TenderAssumption DEF FundedInv
  <1>1. CampaignTypeOK'
    BY DEF CampaignTypeOK, CreateCampaign, Advance, storeVars, auctionVars, handlerVars, ghostVars
  <1>2. NoCopyIsLive'
    BY DEF CampaignTypeOK, NoCopyIsLive, VerifiedIsFunded, CreateCampaign, Advance, storeVars,
       auctionVars, handlerVars, ghostVars
  <1>3. VerifiedIsFunded'
    BY DEF CampaignTypeOK, VerifiedIsFunded, CreateCampaign, Advance, storeVars, auctionVars,
       handlerVars, ghostVars
  <1>4. ChosenIsFunded'
    BY DEF CampaignTypeOK, NoCopyIsLive, ChosenIsFunded, CreateCampaign, Advance, storeVars,
       auctionVars, handlerVars, ghostVars
  <1>5. ChoiceIsMade'
    BY DEF CampaignTypeOK, ChoiceIsMade, CreateCampaign, Advance, storeVars, auctionVars,
       handlerVars, ghostVars
  <1>6. QED
    BY <1>1, <1>2, <1>3, <1>4, <1>5

LEMMA DepositKeeps ==
  ASSUME NEW c \in Advertised, FundedInv, Deposit(c)
  PROVE  FundedInv'
  <1> USE TenderAssumption DEF FundedInv
  <1>1. CampaignTypeOK'
    BY DEF CampaignTypeOK, Deposit, Advance, storeVars, auctionVars, handlerVars, ghostVars
  <1>2. NoCopyIsLive'
    BY DEF CampaignTypeOK, NoCopyIsLive, VerifiedIsFunded, Deposit, Advance, storeVars,
       auctionVars, handlerVars, ghostVars
  <1>3. VerifiedIsFunded'
    BY DEF CampaignTypeOK, VerifiedIsFunded, Deposit, Advance, storeVars, auctionVars,
       handlerVars, ghostVars
  <1>4. ChosenIsFunded'
    BY DEF CampaignTypeOK, NoCopyIsLive, ChosenIsFunded, Deposit, Advance, storeVars,
       auctionVars, handlerVars, ghostVars
  <1>5. ChoiceIsMade'
    BY DEF CampaignTypeOK, ChoiceIsMade, Deposit, Advance, storeVars, auctionVars, handlerVars,
       ghostVars
  <1>6. QED
    BY <1>1, <1>2, <1>3, <1>4, <1>5

LEMMA ReadCampaignKeeps ==
  ASSUME NEW v \in Verifies, FundedInv, ReadCampaign(v)
  PROVE  FundedInv'
  <1> USE TenderAssumption DEF FundedInv
  <1>1. remaining[CampaignOf[v]] \in Nat
    BY DEF CampaignTypeOK
  <1>2. PICK p \in {"checking", "done"}, n \in Nat :
          handlerPc' = [handlerPc EXCEPT ![v] = p] /\ seen' = [seen EXCEPT ![v] = n]
    <2>1. seen = [seen EXCEPT ![v] = seen[v]] /\ seen[v] \in Nat
      BY DEF CampaignTypeOK
    <2>2. CASE status[CampaignOf[v]] = "pending"
      BY <1>1, <2>2 DEF ReadCampaign, Advance
    <2>3. CASE status[CampaignOf[v]] # "pending"
      BY <2>1, <2>3 DEF ReadCampaign, Advance
    <2>4. QED
      BY <2>2, <2>3
  <1>3. UNCHANGED <<storeVars, auctionVars, recent, choice, billed, creditRow, ghostVars>>
    BY DEF ReadCampaign
  <1>4. CampaignTypeOK'
    BY <1>2, <1>3 DEF CampaignTypeOK, storeVars, auctionVars, ghostVars
  <1>5. NoCopyIsLive' /\ VerifiedIsFunded' /\ ChosenIsFunded' /\ ChoiceIsMade'
    BY <1>2, <1>3 DEF CampaignTypeOK, NoCopyIsLive, VerifiedIsFunded, ChosenIsFunded,
       ChoiceIsMade, storeVars,
                      auctionVars, ghostVars
  <1>6. QED
    BY <1>4, <1>5

LEMMA VerifyDepositKeeps ==
  ASSUME NEW v \in Verifies, FundedInv, VerifyDeposit(v)
  PROVE  FundedInv'
  <1> USE TenderAssumption DEF FundedInv
  <1>1. CampaignTypeOK'
    BY DEF CampaignTypeOK, VerifyDeposit, Advance, storeVars, auctionVars, handlerVars, ghostVars
  <1>2. NoCopyIsLive'
    BY DEF CampaignTypeOK, NoCopyIsLive, VerifiedIsFunded, VerifyDeposit, Advance, storeVars,
       auctionVars, handlerVars, ghostVars
  <1>3. VerifiedIsFunded'
    BY DEF CampaignTypeOK, VerifiedIsFunded, VerifyDeposit, Advance, storeVars, auctionVars,
       handlerVars, ghostVars
  <1>4. ChosenIsFunded'
    BY DEF CampaignTypeOK, NoCopyIsLive, ChosenIsFunded, VerifyDeposit, Advance, storeVars,
       auctionVars, handlerVars, ghostVars
  <1>5. ChoiceIsMade'
    BY DEF CampaignTypeOK, ChoiceIsMade, VerifyDeposit, Advance, storeVars, auctionVars,
       handlerVars, ghostVars
  <1>6. QED
    BY <1>1, <1>2, <1>3, <1>4, <1>5

LEMMA ActivateKeeps ==
  ASSUME NEW v \in Verifies, FundedInv, Activate(v)
  PROVE  FundedInv'
  <1> USE TenderAssumption DEF FundedInv
  <1>1. CampaignTypeOK'
    BY DEF CampaignTypeOK, Activate, Advance, storeVars, auctionVars, handlerVars, ghostVars
  <1>2. NoCopyIsLive'
    BY DEF CampaignTypeOK, NoCopyIsLive, VerifiedIsFunded, Activate, Advance, storeVars,
       auctionVars, handlerVars, ghostVars
  <1>3. VerifiedIsFunded'
    BY DEF CampaignTypeOK, VerifiedIsFunded, Activate, Advance, storeVars, auctionVars,
       handlerVars, ghostVars
  <1>4. ChosenIsFunded'
    BY DEF CampaignTypeOK, NoCopyIsLive, ChosenIsFunded, Activate, Advance, storeVars,
       auctionVars, handlerVars, ghostVars
  <1>5. ChoiceIsMade'
    BY DEF CampaignTypeOK, ChoiceIsMade, Activate, Advance, storeVars, auctionVars, handlerVars,
       ghostVars
  <1>6. QED
    BY <1>1, <1>2, <1>3, <1>4, <1>5

LEMMA ActivateThrowsKeeps ==
  ASSUME NEW v \in Verifies, FundedInv, ActivateThrows(v)
  PROVE  FundedInv'
  <1> USE TenderAssumption DEF FundedInv
  <1>1. CampaignTypeOK'
    BY DEF CampaignTypeOK, ActivateThrows, Advance, storeVars, auctionVars, handlerVars, ghostVars
  <1>2. NoCopyIsLive'
    BY DEF CampaignTypeOK, NoCopyIsLive, VerifiedIsFunded, ActivateThrows, Advance, storeVars,
       auctionVars, handlerVars, ghostVars
  <1>3. VerifiedIsFunded'
    BY DEF CampaignTypeOK, VerifiedIsFunded, ActivateThrows, Advance, storeVars, auctionVars,
       handlerVars, ghostVars
  <1>4. ChosenIsFunded'
    BY DEF CampaignTypeOK, NoCopyIsLive, ChosenIsFunded, ActivateThrows, Advance, storeVars,
       auctionVars, handlerVars, ghostVars
  <1>5. ChoiceIsMade'
    BY DEF CampaignTypeOK, ChoiceIsMade, ActivateThrows, Advance, storeVars, auctionVars,
       handlerVars, ghostVars
  <1>6. QED
    BY <1>1, <1>2, <1>3, <1>4, <1>5

LEMMA GoLiveKeeps ==
  ASSUME NEW v \in Verifies, FundedInv, GoLive(v)
  PROVE  FundedInv'
  <1> USE TenderAssumption DEF FundedInv
  <1>1. CampaignTypeOK'
    BY DEF CampaignTypeOK, GoLive, Advance, storeVars, auctionVars, handlerVars, ghostVars
  <1>2. NoCopyIsLive'
    BY DEF CampaignTypeOK, NoCopyIsLive, VerifiedIsFunded, GoLive, Advance, storeVars,
       auctionVars, handlerVars, ghostVars
  <1>3. VerifiedIsFunded'
    BY DEF CampaignTypeOK, VerifiedIsFunded, GoLive, Advance, storeVars, auctionVars,
       handlerVars, ghostVars
  <1>4. ChosenIsFunded'
    BY DEF CampaignTypeOK, NoCopyIsLive, ChosenIsFunded, GoLive, Advance, storeVars,
       auctionVars, handlerVars, ghostVars
  <1>5. ChoiceIsMade'
    BY DEF CampaignTypeOK, ChoiceIsMade, GoLive, Advance, storeVars, auctionVars, handlerVars,
       ghostVars
  <1>6. QED
    BY <1>1, <1>2, <1>3, <1>4, <1>5

LEMMA ListRowsKeeps ==
  ASSUME NEW i \in Instances, FundedInv, ListRows(i)
  PROVE  FundedInv'
  <1> USE TenderAssumption DEF FundedInv
  <1>1. CampaignTypeOK'
    BY DEF CampaignTypeOK, ListRows, Advance, storeVars, auctionVars, handlerVars, ghostVars,
       Live, IsActive
  <1>2. NoCopyIsLive'
    BY DEF CampaignTypeOK, NoCopyIsLive, VerifiedIsFunded, ListRows, Advance, storeVars,
       auctionVars, handlerVars, ghostVars, Live, IsActive
  <1>3. VerifiedIsFunded'
    BY DEF CampaignTypeOK, VerifiedIsFunded, ListRows, Advance, storeVars, auctionVars,
       handlerVars, ghostVars, Live, IsActive
  <1>4. ChosenIsFunded'
    BY DEF CampaignTypeOK, NoCopyIsLive, ChosenIsFunded, ListRows, Advance, storeVars,
       auctionVars, handlerVars, ghostVars, Live, IsActive
  <1>5. ChoiceIsMade'
    BY DEF CampaignTypeOK, ChoiceIsMade, ListRows, Advance, storeVars, auctionVars, handlerVars,
       ghostVars, Live, IsActive
  <1>6. QED
    BY <1>1, <1>2, <1>3, <1>4, <1>5

LEMMA FoldRowsKeeps ==
  ASSUME NEW i \in Instances, FundedInv, FoldRows(i)
  PROVE  FundedInv'
  <1> USE TenderAssumption DEF FundedInv
  <1>1. CampaignTypeOK'
    BY ZenonT(60)
    DEF CampaignTypeOK, FoldRows, Advance, storeVars, auctionVars, handlerVars, ghostVars,
        Unlisted
  <1>2. NoCopyIsLive'
    BY DEF CampaignTypeOK, NoCopyIsLive, VerifiedIsFunded, FoldRows, Advance, storeVars,
       auctionVars, handlerVars, ghostVars, Unlisted
  <1>3. VerifiedIsFunded'
    BY DEF CampaignTypeOK, VerifiedIsFunded, FoldRows, Advance, storeVars, auctionVars,
       handlerVars, ghostVars, Unlisted
  <1>4. ChosenIsFunded'
    BY DEF CampaignTypeOK, NoCopyIsLive, ChosenIsFunded, FoldRows, Advance, storeVars,
       auctionVars, handlerVars, ghostVars, Unlisted
  <1>5. ChoiceIsMade'
    BY DEF CampaignTypeOK, ChoiceIsMade, FoldRows, Advance, storeVars, auctionVars, handlerVars,
       ghostVars, Unlisted
  <1>6. QED
    BY <1>1, <1>2, <1>3, <1>4, <1>5

LEMMA ListThrowsKeeps ==
  ASSUME NEW i \in Instances, FundedInv, ListThrows(i)
  PROVE  FundedInv'
  <1> USE TenderAssumption DEF FundedInv
  <1>1. CampaignTypeOK'
    BY DEF CampaignTypeOK, ListThrows, Advance, storeVars, auctionVars, handlerVars, ghostVars,
       Unlisted
  <1>2. NoCopyIsLive'
    BY DEF CampaignTypeOK, NoCopyIsLive, VerifiedIsFunded, ListThrows, Advance, storeVars,
       auctionVars, handlerVars, ghostVars, Unlisted
  <1>3. VerifiedIsFunded'
    BY DEF CampaignTypeOK, VerifiedIsFunded, ListThrows, Advance, storeVars, auctionVars,
       handlerVars, ghostVars, Unlisted
  <1>4. ChosenIsFunded'
    BY DEF CampaignTypeOK, NoCopyIsLive, ChosenIsFunded, ListThrows, Advance, storeVars,
       auctionVars, handlerVars, ghostVars, Unlisted
  <1>5. ChoiceIsMade'
    BY DEF CampaignTypeOK, ChoiceIsMade, ListThrows, Advance, storeVars, auctionVars,
       handlerVars, ghostVars, Unlisted
  <1>6. QED
    BY <1>1, <1>2, <1>3, <1>4, <1>5

LEMMA ElapseKeeps ==
  ASSUME NEW i \in Instances, FundedInv, Elapse(i)
  PROVE  FundedInv'
  <1> USE TenderAssumption DEF FundedInv
  <1>1. CampaignTypeOK'
    BY DEF CampaignTypeOK, Elapse, Advance, storeVars, auctionVars, handlerVars, ghostVars
  <1>2. NoCopyIsLive'
    BY DEF CampaignTypeOK, NoCopyIsLive, VerifiedIsFunded, Elapse, Advance, storeVars,
       auctionVars, handlerVars, ghostVars
  <1>3. VerifiedIsFunded'
    BY DEF CampaignTypeOK, VerifiedIsFunded, Elapse, Advance, storeVars, auctionVars,
       handlerVars, ghostVars
  <1>4. ChosenIsFunded'
    BY DEF CampaignTypeOK, NoCopyIsLive, ChosenIsFunded, Elapse, Advance, storeVars,
       auctionVars, handlerVars, ghostVars
  <1>5. ChoiceIsMade'
    BY DEF CampaignTypeOK, ChoiceIsMade, Elapse, Advance, storeVars, auctionVars, handlerVars,
       ghostVars
  <1>6. QED
    BY <1>1, <1>2, <1>3, <1>4, <1>5

LEMMA ColdStartKeeps ==
  ASSUME NEW i \in Instances, FundedInv, ColdStart(i)
  PROVE  FundedInv'
  <1> USE TenderAssumption DEF FundedInv
  <1>1. CampaignTypeOK'
    BY DEF CampaignTypeOK, ColdStart, Advance, storeVars, auctionVars, handlerVars, ghostVars,
       Unlisted
  <1>2. NoCopyIsLive'
    BY DEF CampaignTypeOK, NoCopyIsLive, VerifiedIsFunded, ColdStart, Advance, storeVars,
       auctionVars, handlerVars, ghostVars, Unlisted
  <1>3. VerifiedIsFunded'
    BY DEF CampaignTypeOK, VerifiedIsFunded, ColdStart, Advance, storeVars, auctionVars,
       handlerVars, ghostVars, Unlisted
  <1>4. ChosenIsFunded'
    BY DEF CampaignTypeOK, NoCopyIsLive, ChosenIsFunded, ColdStart, Advance, storeVars,
       auctionVars, handlerVars, ghostVars, Unlisted
  <1>5. ChoiceIsMade'
    BY DEF CampaignTypeOK, ChoiceIsMade, ColdStart, Advance, storeVars, auctionVars,
       handlerVars, ghostVars, Unlisted
  <1>6. QED
    BY <1>1, <1>2, <1>3, <1>4, <1>5

LEMMA StreamKeeps ==
  ASSUME NEW r \in Requests, FundedInv, Stream(r)
  PROVE  FundedInv'
  <1> USE TenderAssumption DEF FundedInv
  <1>1. CampaignTypeOK'
    BY DEF CampaignTypeOK, Stream, Advance, storeVars, auctionVars, handlerVars, ghostVars
  <1>2. NoCopyIsLive'
    BY DEF CampaignTypeOK, NoCopyIsLive, VerifiedIsFunded, Stream, Advance, storeVars,
       auctionVars, handlerVars, ghostVars
  <1>3. VerifiedIsFunded'
    BY DEF CampaignTypeOK, VerifiedIsFunded, Stream, Advance, storeVars, auctionVars,
       handlerVars, ghostVars
  <1>4. ChosenIsFunded'
    BY DEF CampaignTypeOK, NoCopyIsLive, ChosenIsFunded, Stream, Advance, storeVars,
       auctionVars, handlerVars, ghostVars
  <1>5. ChoiceIsMade'
    BY DEF CampaignTypeOK, ChoiceIsMade, Stream, Advance, storeVars, auctionVars, handlerVars,
       ghostVars
  <1>6. QED
    BY <1>1, <1>2, <1>3, <1>4, <1>5

LEMMA WaitedKeeps ==
  ASSUME NEW r \in Requests, FundedInv, Waited(r)
  PROVE  FundedInv'
  <1> USE TenderAssumption DEF FundedInv
  <1>1. /\ handlerPc' = [handlerPc EXCEPT ![r] = "waited"]
        /\ UNCHANGED <<storeVars, loading, loaded, recent, seen, billed, creditRow, ghostVars>>
    BY DEF Waited, Advance
  <1>2. CASE UNCHANGED <<auction, choice>>
    <2>1. CampaignTypeOK'
      BY <1>1, <1>2 DEF CampaignTypeOK, storeVars, ghostVars
    <2>2. NoCopyIsLive' /\ VerifiedIsFunded' /\ ChosenIsFunded' /\ ChoiceIsMade'
      BY <1>1, <1>2 DEF CampaignTypeOK, NoCopyIsLive, VerifiedIsFunded, ChosenIsFunded,
         ChoiceIsMade, storeVars
    <2>3. QED
      BY <2>1, <2>2
  <1>3. CASE \E c \in Winners(At[r]) : Select(r, c)
    <2>1. PICK c \in Winners(At[r]) : Select(r, c)
      BY <1>3
    <2>2. c \in Campaigns /\ auction[At[r]][c] > 0 /\ At[r] \in Instances
      BY DEF Winners
    <2>3. auction[At[r]][c] - 1 \in Nat
      <3>1. auction[At[r]] \in [Campaigns -> Nat \cup {-1}]
        BY <2>2 DEF CampaignTypeOK
      <3>2. auction[At[r]][c] \in Nat \cup {-1}
        BY <3>1, <2>2
      <3>3. QED
        BY <3>2, <2>2
    <2>4. c \in Advertised => c \in deposited
      BY <2>2 DEF NoCopyIsLive
    <2>5. /\ choice' = [choice EXCEPT ![r] = c]
          /\ auction' = [auction EXCEPT ![At[r]][c] = auction[At[r]][c] - 1]
      BY <2>1 DEF Select
    <2>6. CampaignTypeOK'
      BY <1>1, <2>2, <2>3, <2>5 DEF CampaignTypeOK, storeVars, ghostVars
    <2>7. NoCopyIsLive'
      BY <1>1, <2>2, <2>4, <2>5 DEF CampaignTypeOK, NoCopyIsLive, storeVars
    <2>8. VerifiedIsFunded' /\ ChosenIsFunded' /\ ChoiceIsMade'
      BY <1>1, <2>2, <2>4, <2>5 DEF CampaignTypeOK, VerifiedIsFunded, ChosenIsFunded,
         ChoiceIsMade, storeVars
    <2>9. QED
      BY <2>6, <2>7, <2>8
  <1>4. QED
    BY <1>2, <1>3 DEF Waited

LEMMA FinishKeeps ==
  ASSUME NEW r \in Requests, FundedInv, Finish(r)
  PROVE  FundedInv'
  <1> USE TenderAssumption DEF FundedInv
  <1>1. CampaignTypeOK'
    BY DEF CampaignTypeOK, Finish, Advance, storeVars, auctionVars, handlerVars, ghostVars, Passes
  <1>2. NoCopyIsLive'
    BY DEF CampaignTypeOK, NoCopyIsLive, VerifiedIsFunded, Finish, Advance, storeVars,
       auctionVars, handlerVars, ghostVars, Passes
  <1>3. VerifiedIsFunded'
    BY DEF CampaignTypeOK, VerifiedIsFunded, Finish, Advance, storeVars, auctionVars,
       handlerVars, ghostVars, Passes
  <1>4. ChosenIsFunded'
    BY DEF CampaignTypeOK, NoCopyIsLive, ChosenIsFunded, Finish, Advance, storeVars,
       auctionVars, handlerVars, ghostVars, Passes
  <1>5. ChoiceIsMade'
    BY DEF CampaignTypeOK, ChoiceIsMade, Finish, Advance, storeVars, auctionVars, handlerVars,
       ghostVars, Passes
  <1>6. QED
    BY <1>1, <1>2, <1>3, <1>4, <1>5

LEMMA StreamFailsKeeps ==
  ASSUME NEW r \in Requests, FundedInv, StreamFails(r)
  PROVE  FundedInv'
  <1> USE TenderAssumption DEF FundedInv
  <1>1. CampaignTypeOK'
    BY DEF CampaignTypeOK, StreamFails, Advance, storeVars, auctionVars, handlerVars, ghostVars
  <1>2. NoCopyIsLive'
    BY DEF CampaignTypeOK, NoCopyIsLive, VerifiedIsFunded, StreamFails, Advance, storeVars,
       auctionVars, handlerVars, ghostVars
  <1>3. VerifiedIsFunded'
    BY DEF CampaignTypeOK, VerifiedIsFunded, StreamFails, Advance, storeVars, auctionVars,
       handlerVars, ghostVars
  <1>4. ChosenIsFunded'
    BY DEF CampaignTypeOK, NoCopyIsLive, ChosenIsFunded, StreamFails, Advance, storeVars,
       auctionVars, handlerVars, ghostVars
  <1>5. ChoiceIsMade'
    BY DEF CampaignTypeOK, ChoiceIsMade, StreamFails, Advance, storeVars, auctionVars,
       handlerVars, ghostVars
  <1>6. QED
    BY <1>1, <1>2, <1>3, <1>4, <1>5

LEMMA AskKeeps ==
  ASSUME NEW m \in Impressions, FundedInv, Ask(m)
  PROVE  FundedInv'
  <1> USE TenderAssumption DEF FundedInv
  <1>1. CampaignTypeOK'
    BY DEF CampaignTypeOK, Ask, Advance, storeVars, auctionVars, handlerVars, ghostVars
  <1>2. NoCopyIsLive'
    BY DEF CampaignTypeOK, NoCopyIsLive, VerifiedIsFunded, Ask, Advance, storeVars, auctionVars,
       handlerVars, ghostVars
  <1>3. VerifiedIsFunded'
    BY DEF CampaignTypeOK, VerifiedIsFunded, Ask, Advance, storeVars, auctionVars, handlerVars,
       ghostVars
  <1>4. ChosenIsFunded'
    BY DEF CampaignTypeOK, NoCopyIsLive, ChosenIsFunded, Ask, Advance, storeVars, auctionVars,
       handlerVars, ghostVars
  <1>5. ChoiceIsMade'
    BY DEF CampaignTypeOK, ChoiceIsMade, Ask, Advance, storeVars, auctionVars, handlerVars,
       ghostVars
  <1>6. QED
    BY <1>1, <1>2, <1>3, <1>4, <1>5

LEMMA PickKeeps ==
  ASSUME NEW m \in Impressions, FundedInv, Pick(m)
  PROVE  FundedInv'
  <1> USE TenderAssumption DEF FundedInv
  <1>1. UNCHANGED <<storeVars, auctionVars, billed, creditRow, ghostVars>>
    BY DEF Pick
  <1>2. CASE Inventory = {}
    <2>1. /\ handlerPc' = [handlerPc EXCEPT ![m] = "done"]
          /\ UNCHANGED <<choice, seen, recent>>
      BY <1>2 DEF Pick, Advance
    <2>2. CampaignTypeOK'
      BY <1>1, <2>1 DEF CampaignTypeOK, storeVars, auctionVars, ghostVars
    <2>3. NoCopyIsLive' /\ VerifiedIsFunded' /\ ChosenIsFunded' /\ ChoiceIsMade'
      BY <1>1, <2>1 DEF CampaignTypeOK, NoCopyIsLive, VerifiedIsFunded, ChosenIsFunded,
         ChoiceIsMade, storeVars,
                        auctionVars
    <2>4. QED
      BY <2>2, <2>3
  <1>3. CASE Inventory # {}
    <2>1. PICK c \in Inventory : /\ choice' = [choice EXCEPT ![m] = c]
                                 /\ seen' = [seen EXCEPT ![m] = remaining[c]]
      BY <1>3 DEF Pick
    <2>2. handlerPc' = [handlerPc EXCEPT ![m] = "crediting"] /\ recent' = recent \cup {At[m]}
      BY <1>3 DEF Pick, Advance
    <2>3. c \in Campaigns /\ status[c] = "active" /\ remaining[c] > 0 /\ remaining[c] \in Nat
      BY DEF Inventory, IsActive, CampaignTypeOK
    <2>4. c \in Advertised => c \in deposited
      BY <2>3 DEF NoCopyIsLive
    <2>5. CampaignTypeOK'
      BY <1>1, <2>1, <2>2, <2>3 DEF CampaignTypeOK, storeVars, auctionVars, ghostVars
    <2>6. NoCopyIsLive' /\ VerifiedIsFunded' /\ ChosenIsFunded' /\ ChoiceIsMade'
      BY <1>1, <2>1, <2>2, <2>3, <2>4 DEF CampaignTypeOK, NoCopyIsLive, VerifiedIsFunded,
         ChosenIsFunded,
                                          ChoiceIsMade, storeVars, auctionVars
    <2>7. QED
      BY <2>5, <2>6
  <1>4. QED
    BY <1>2, <1>3

LEMMA PickThrowsKeeps ==
  ASSUME NEW m \in Impressions, FundedInv, PickThrows(m)
  PROVE  FundedInv'
  <1> USE TenderAssumption DEF FundedInv
  <1>1. CampaignTypeOK'
    BY DEF CampaignTypeOK, PickThrows, Advance, storeVars, auctionVars, handlerVars, ghostVars
  <1>2. NoCopyIsLive'
    BY DEF CampaignTypeOK, NoCopyIsLive, VerifiedIsFunded, PickThrows, Advance, storeVars,
       auctionVars, handlerVars, ghostVars
  <1>3. VerifiedIsFunded'
    BY DEF CampaignTypeOK, VerifiedIsFunded, PickThrows, Advance, storeVars, auctionVars,
       handlerVars, ghostVars
  <1>4. ChosenIsFunded'
    BY DEF CampaignTypeOK, NoCopyIsLive, ChosenIsFunded, PickThrows, Advance, storeVars,
       auctionVars, handlerVars, ghostVars
  <1>5. ChoiceIsMade'
    BY DEF CampaignTypeOK, ChoiceIsMade, PickThrows, Advance, storeVars, auctionVars,
       handlerVars, ghostVars
  <1>6. QED
    BY <1>1, <1>2, <1>3, <1>4, <1>5

LEMMA DrawDownKeeps ==
  ASSUME NEW m \in Impressions, FundedInv, DrawDown(m)
  PROVE  FundedInv'
  <1> USE TenderAssumption DEF FundedInv
  <1>1. CampaignTypeOK'
    <2>1. m \in Earners /\ handlerPc[m] = "drawing"
      BY DEF DrawDown
    <2>2. seen[m] \in Nat /\ seen[m] > 0 /\ choice[m] \in Campaigns
      BY <2>1 DEF CampaignTypeOK, ChoiceIsMade
    <2>3. Drawn(m) \in Nat
      BY <2>2 DEF Drawn
    <2>4. QED
      BY <2>2, <2>3 DEF CampaignTypeOK, DrawDown, Advance, storeVars, auctionVars, handlerVars,
         ghostVars
  <1>2. NoCopyIsLive'
    BY DEF CampaignTypeOK, NoCopyIsLive, VerifiedIsFunded, DrawDown, Advance, storeVars,
       auctionVars, handlerVars, ghostVars, Drawn
  <1>3. VerifiedIsFunded'
    BY DEF CampaignTypeOK, VerifiedIsFunded, DrawDown, Advance, storeVars, auctionVars,
       handlerVars, ghostVars, Drawn
  <1>4. ChosenIsFunded'
    BY DEF CampaignTypeOK, NoCopyIsLive, ChosenIsFunded, DrawDown, Advance, storeVars,
       auctionVars, handlerVars, ghostVars, Drawn
  <1>5. ChoiceIsMade'
    BY DEF CampaignTypeOK, ChoiceIsMade, DrawDown, Advance, storeVars, auctionVars, handlerVars,
       ghostVars, Drawn
  <1>6. QED
    BY <1>1, <1>2, <1>3, <1>4, <1>5

LEMMA DrawDownThrowsKeeps ==
  ASSUME NEW m \in Impressions, FundedInv, DrawDownThrows(m)
  PROVE  FundedInv'
  <1> USE TenderAssumption DEF FundedInv
  <1>1. CampaignTypeOK'
    BY DEF CampaignTypeOK, DrawDownThrows, Advance, storeVars, auctionVars, handlerVars, ghostVars
  <1>2. NoCopyIsLive'
    BY DEF CampaignTypeOK, NoCopyIsLive, VerifiedIsFunded, DrawDownThrows, Advance, storeVars,
       auctionVars, handlerVars, ghostVars
  <1>3. VerifiedIsFunded'
    BY DEF CampaignTypeOK, VerifiedIsFunded, DrawDownThrows, Advance, storeVars, auctionVars,
       handlerVars, ghostVars
  <1>4. ChosenIsFunded'
    BY DEF CampaignTypeOK, NoCopyIsLive, ChosenIsFunded, DrawDownThrows, Advance, storeVars,
       auctionVars, handlerVars, ghostVars
  <1>5. ChoiceIsMade'
    BY DEF CampaignTypeOK, ChoiceIsMade, DrawDownThrows, Advance, storeVars, auctionVars,
       handlerVars, ghostVars
  <1>6. QED
    BY <1>1, <1>2, <1>3, <1>4, <1>5

LEMMA CreditKeeps ==
  ASSUME NEW h \in Earners, FundedInv, AccrueKickback(h)
  PROVE  FundedInv'
  <1> USE TenderAssumption DEF FundedInv
  <1>1. CampaignTypeOK'
    BY DEF CampaignTypeOK, ChoiceIsMade, AccrueKickback, Advance, storeVars, auctionVars,
       handlerVars, ghostVars, Credited
  <1>2. NoCopyIsLive'
    BY DEF CampaignTypeOK, NoCopyIsLive, VerifiedIsFunded, AccrueKickback, Advance, storeVars,
       auctionVars, handlerVars, ghostVars, Credited
  <1>3. VerifiedIsFunded'
    BY DEF CampaignTypeOK, VerifiedIsFunded, AccrueKickback, Advance, storeVars, auctionVars,
       handlerVars, ghostVars, Credited
  <1>4. ChosenIsFunded'
    BY DEF CampaignTypeOK, NoCopyIsLive, ChosenIsFunded, AccrueKickback, Advance, storeVars,
       auctionVars, handlerVars, ghostVars, Credited
  <1>5. ChoiceIsMade'
    BY DEF CampaignTypeOK, ChoiceIsMade, AccrueKickback, Advance, storeVars, auctionVars,
       handlerVars, ghostVars, Credited
  <1>6. QED
    BY <1>1, <1>2, <1>3, <1>4, <1>5

LEMMA CreditThrowsKeeps ==
  ASSUME NEW h \in Earners, FundedInv, AccrueThrows(h)
  PROVE  FundedInv'
  <1> USE TenderAssumption DEF FundedInv
  <1>1. CampaignTypeOK'
    BY DEF CampaignTypeOK, ChoiceIsMade, AccrueThrows, Advance, storeVars, auctionVars,
       handlerVars, ghostVars
  <1>2. NoCopyIsLive'
    BY DEF CampaignTypeOK, NoCopyIsLive, VerifiedIsFunded, AccrueThrows, Advance, storeVars,
       auctionVars, handlerVars, ghostVars
  <1>3. VerifiedIsFunded'
    BY DEF CampaignTypeOK, VerifiedIsFunded, AccrueThrows, Advance, storeVars, auctionVars,
       handlerVars, ghostVars
  <1>4. ChosenIsFunded'
    BY DEF CampaignTypeOK, NoCopyIsLive, ChosenIsFunded, AccrueThrows, Advance, storeVars,
       auctionVars, handlerVars, ghostVars
  <1>5. ChoiceIsMade'
    BY DEF CampaignTypeOK, ChoiceIsMade, AccrueThrows, Advance, storeVars, auctionVars,
       handlerVars, ghostVars
  <1>6. QED
    BY <1>1, <1>2, <1>3, <1>4, <1>5

-----------------------------------------------------------------------------
(* Theorems about the campaigns.                                           *)

(* What the funding of campaigns rests on holds in every reachable state.  *)
THEOREM FundedInductive == CampaignSpec => []FundedInv
  <1>1. CampaignInit => FundedInv
    BY FundedInit
  <1>2. FundedInv /\ [CampaignNext]_campaignVars => FundedInv'
    <2> SUFFICES ASSUME FundedInv, [CampaignNext]_campaignVars PROVE FundedInv'
      OBVIOUS
    <2>1. ASSUME NEW c \in Advertised, CreateCampaign(c) PROVE FundedInv'
      BY <2>1, CreateCampaignKeeps
    <2>2. ASSUME NEW c \in Advertised, Deposit(c) PROVE FundedInv'
      BY <2>2, DepositKeeps
    <2>3. ASSUME NEW v \in Verifies, ReadCampaign(v) PROVE FundedInv'
      BY <2>3, ReadCampaignKeeps
    <2>4. ASSUME NEW v \in Verifies, VerifyDeposit(v) PROVE FundedInv'
      BY <2>4, VerifyDepositKeeps
    <2>5. ASSUME NEW v \in Verifies, Activate(v) PROVE FundedInv'
      BY <2>5, ActivateKeeps
    <2>6. ASSUME NEW v \in Verifies, ActivateThrows(v) PROVE FundedInv'
      BY <2>6, ActivateThrowsKeeps
    <2>7. ASSUME NEW v \in Verifies, GoLive(v) PROVE FundedInv'
      BY <2>7, GoLiveKeeps
    <2>8. ASSUME NEW i \in Instances, ListRows(i) PROVE FundedInv'
      BY <2>8, ListRowsKeeps
    <2>9. ASSUME NEW i \in Instances, FoldRows(i) PROVE FundedInv'
      BY <2>9, FoldRowsKeeps
    <2>10. ASSUME NEW i \in Instances, ListThrows(i) PROVE FundedInv'
      BY <2>10, ListThrowsKeeps
    <2>11. ASSUME NEW i \in Instances, Elapse(i) PROVE FundedInv'
      BY <2>11, ElapseKeeps
    <2>12. ASSUME NEW i \in Instances, ColdStart(i) PROVE FundedInv'
      BY <2>12, ColdStartKeeps
    <2>13. ASSUME NEW r \in Requests, Stream(r) PROVE FundedInv'
      BY <2>13, StreamKeeps
    <2>14. ASSUME NEW r \in Requests, Waited(r) PROVE FundedInv'
      BY <2>14, WaitedKeeps
    <2>15. ASSUME NEW r \in Requests, Finish(r) PROVE FundedInv'
      BY <2>15, FinishKeeps
    <2>16. ASSUME NEW r \in Requests, StreamFails(r) PROVE FundedInv'
      BY <2>16, StreamFailsKeeps
    <2>17. ASSUME NEW m \in Impressions, Ask(m) PROVE FundedInv'
      BY <2>17, AskKeeps
    <2>18. ASSUME NEW m \in Impressions, Pick(m) PROVE FundedInv'
      BY <2>18, PickKeeps
    <2>19. ASSUME NEW m \in Impressions, PickThrows(m) PROVE FundedInv'
      BY <2>19, PickThrowsKeeps
    <2>20. ASSUME NEW m \in Impressions, DrawDown(m) PROVE FundedInv'
      BY <2>20, DrawDownKeeps
    <2>21. ASSUME NEW m \in Impressions, DrawDownThrows(m) PROVE FundedInv'
      BY <2>21, DrawDownThrowsKeeps
    <2>22. ASSUME NEW h \in Earners, AccrueKickback(h) PROVE FundedInv'
      BY <2>22, CreditKeeps
    <2>23. ASSUME NEW h \in Earners, AccrueThrows(h) PROVE FundedInv'
      BY <2>23, CreditThrowsKeeps
    <2>24. CASE UNCHANGED campaignVars
      BY <2>24 DEF campaignVars, storeVars, auctionVars, handlerVars, ghostVars, FundedInv,
         CampaignTypeOK, NoCopyIsLive,
                  VerifiedIsFunded, ChosenIsFunded, ChoiceIsMade
    <2>25. QED
      BY <2>1, <2>2, <2>3, <2>4, <2>5, <2>6, <2>7, <2>8, <2>9, <2>10, <2>11, <2>12, <2>13,
         <2>14, <2>15, <2>16, <2>17, <2>18, <2>19, <2>20, <2>21, <2>22, <2>23, <2>24
         DEF CampaignNext, VerifyStep, HydrateStep, RoutedStep, ImpressionStep
  <1>3. QED
    BY <1>1, <1>2, PTL DEF CampaignSpec

(* No auction sells, no row is active and no one is credited for a         *)
(* campaign before its deposit is on chain, for any number of instances,   *)
(* campaigns and handlers.                                                 *)
THEOREM AlwaysOnlyFundedServes == CampaignSpec => []OnlyFundedServes
  <1>1. FundedInv => OnlyFundedServes
    BY DEF FundedInv, NoCopyIsLive, ChosenIsFunded, OnlyFundedServes, IsActive
  <1>2. QED
    BY <1>1, FundedInductive, PTL

(* No auction and no row is drawn below nothing.                           *)
THEOREM TypeCorrect == CampaignSpec => []CampaignTypeOK
  <1>1. FundedInv => CampaignTypeOK
    BY DEF FundedInv
  <1>2. QED
    BY <1>1, FundedInductive, PTL

-----------------------------------------------------------------------------
(* A routed kickback is for a request that was billed.                     *)

BilledFirst ==
  \A r \in Requests : handlerPc[r] = "crediting" \/ creditRow[r] # 0 => r \in billed

LEMMA BilledStep ==
  ASSUME FundedInv, BilledFirst, [CampaignNext]_campaignVars
  PROVE  BilledFirst'
  <1> USE TenderAssumption DEF BilledFirst
  <1>1. /\ CampaignTypeOK /\ Requests \subseteq Earners /\ Requests \cap Verifies = {}
        /\ Requests \cap Impressions = {}
    BY DEF FundedInv
  <1>2. ASSUME \A r \in Requests :
                 /\ handlerPc'[r] = "crediting" => r \in billed' \/ handlerPc[r] = "crediting"
                 /\ creditRow'[r] # 0 => creditRow[r] # 0 \/ handlerPc[r] = "crediting",
               billed \subseteq billed'
        PROVE  BilledFirst'
    BY <1>2
  <1>3. ASSUME NEW h \in CampaignHandlers, NEW p \in STRING, h \in Requests => p # "crediting",
               handlerPc' = [handlerPc EXCEPT ![h] = p], UNCHANGED <<creditRow, billed>>
        PROVE  BilledFirst'
    BY <1>1, <1>2, <1>3 DEF CampaignTypeOK
  <1>4. ASSUME UNCHANGED <<creditRow, billed, handlerPc>> PROVE BilledFirst'
    BY <1>4
  <1>5. ASSUME NEW c \in Advertised, CreateCampaign(c) \/ Deposit(c) PROVE BilledFirst'
    BY <1>4, <1>5 DEF CreateCampaign, Deposit, handlerVars
  <1>6. ASSUME NEW v \in Verifies, VerifyStep(v) PROVE BilledFirst'
    <2>1. UNCHANGED <<creditRow, billed>> /\ \E p \in {"checking", "done", "paid",
                      "activated"} : handlerPc' = [handlerPc EXCEPT ![v] = p]
      BY <1>6 DEF VerifyStep, ReadCampaign, VerifyDeposit, Activate, ActivateThrows, GoLive, Advance
    <2>2. QED
      BY <1>1, <1>3, <2>1
  <1>7. ASSUME NEW i \in Instances, HydrateStep(i) \/ Elapse(i) PROVE BilledFirst'
    BY <1>4, <1>7 DEF HydrateStep, ListRows, FoldRows, ListThrows, Elapse, handlerVars
  <1>8. ASSUME NEW i \in Instances, ColdStart(i) PROVE BilledFirst'
    BY <1>1, <1>2, <1>8 DEF ColdStart, CampaignTypeOK
  <1>9. ASSUME NEW r \in Requests, Stream(r) \/ Waited(r) \/ StreamFails(r) PROVE BilledFirst'
    <2>1. UNCHANGED <<creditRow, billed>> /\ \E p \in {"streaming", "waited",
                      "failed"} : handlerPc' = [handlerPc EXCEPT ![r] = p]
      BY <1>9 DEF Stream, Waited, StreamFails, Advance
    <2>2. QED
      BY <1>1, <1>3, <2>1
  <1>10. ASSUME NEW r \in Requests, Finish(r) PROVE BilledFirst'
    BY <1>1, <1>2, <1>10 DEF Finish, Advance, Passes, CampaignTypeOK
  <1>11. ASSUME NEW m \in Impressions, ImpressionStep(m) PROVE BilledFirst'
    <2>1. UNCHANGED <<creditRow, billed>> /\ \E p \in {"listed", "crediting",
                      "done"} : handlerPc' = [handlerPc EXCEPT ![m] = p]
      BY <1>11 DEF ImpressionStep, Ask, Pick, PickThrows, DrawDown, DrawDownThrows, Advance
    <2>2. QED
      BY <1>1, <1>3, <2>1
  <1>12. ASSUME NEW h \in Earners, AccrueKickback(h) PROVE BilledFirst'
    BY <1>1, <1>2, <1>12 DEF AccrueKickback, Advance, Credited, CampaignTypeOK
  <1>13. ASSUME NEW h \in Earners, AccrueThrows(h) PROVE BilledFirst'
    BY <1>1, <1>2, <1>13 DEF AccrueThrows, Advance, CampaignTypeOK
  <1>14. CASE UNCHANGED campaignVars
    BY <1>4, <1>14 DEF campaignVars, handlerVars
  <1>15. QED
    BY <1>5, <1>6, <1>7, <1>8, <1>9, <1>10, <1>11, <1>12, <1>13, <1>14 DEF CampaignNext, RoutedStep

-----------------------------------------------------------------------------
(* What an auction serves came out of stock.  No copy of a campaign's      *)
(* row, whoever holds it, has more than was bought; and what an auction    *)
(* has left, with what it has served, is no more than that, as long as it  *)
(* was given the campaign once.                                            *)

Served(i, c) == {r \in Requests : At[r] = i /\ choice[r] = c}

Drawing(m) == handlerPc[m] \in {"crediting", "drawing"}

CopiesInStock ==
  /\ \A c \in Campaigns : remaining[c] <= Bought[c]
  /\ \A v \in Verifies : seen[v] <= Bought[CampaignOf[v]]
  /\ \A m \in Impressions : Drawing(m) => seen[m] <= Bought[choice[m]]
  /\ \A i \in Instances : \A c \in Campaigns : loaded[i][c] <= Bought[c]

NotYetPlaced ==
  \A r \in Requests : handlerPc[r] \in {"idle", "streaming"} => choice[r] = None

InStock(i, c) ==
  IF auction[i][c] = -1 THEN Served(i, c) = {}
  ELSE Cardinality(Served(i, c)) + auction[i][c] <= Bought[c]

AuctionsInStock ==
  \A i \in Instances \ refilled : \A c \in Campaigns : InStock(i, c)

StockInv == CopiesInStock /\ NotYetPlaced /\ AuctionsInStock

LEMMA HandlersApart ==
  /\ Requests \subseteq CampaignHandlers /\ Impressions \subseteq CampaignHandlers
  /\ Verifies \subseteq CampaignHandlers /\ Requests \subseteq Earners
  /\ Impressions \subseteq Earners
  /\ Requests \cap Verifies = {} /\ Requests \cap Impressions = {} /\ Impressions \cap Verifies = {}
  BY TenderAssumption

LEMMA ServedTyped ==
  ASSUME NEW i, NEW c
  PROVE  IsFiniteSet(Served(i, c)) /\ Cardinality(Served(i, c)) \in Nat
  <1>1. Served(i, c) \subseteq Requests
    BY DEF Served
  <1>2. QED
    BY <1>1, TenderAssumption, FS_Subset, FS_CardinalityType

LEMMA StockInit == CampaignInit => StockInv
  <1> SUFFICES ASSUME CampaignInit PROVE StockInv
    OBVIOUS
  <1>1. \A i : \A c \in Campaigns : Served(i, c) = {}
    BY TenderAssumption DEF CampaignInit, Served
  <1>2. QED
    BY <1>1, TenderAssumption DEF CampaignInit, StockInv, CopiesInStock, Drawing, NotYetPlaced,
                                  AuctionsInStock, InStock, Unlisted

(* A step of a handler that leaves every copy alone keeps the stock.       *)
LEMMA StockFrame ==
  ASSUME StockInv,
         UNCHANGED <<remaining, seen, loaded, auction, choice, refilled>>,
         \A m \in Impressions : Drawing(m)' => Drawing(m),
         \A r \in Requests : handlerPc'[r] \in {"idle", "streaming"}
                               => handlerPc[r] \in {"idle", "streaming"}
  PROVE  StockInv'
  <1>1. CopiesInStock' /\ NotYetPlaced'
    BY DEF StockInv, CopiesInStock, NotYetPlaced
  <1>2. \A i, c : Served(i, c)' = Served(i, c)
    BY DEF Served
  <1>3. AuctionsInStock'
    BY <1>2 DEF StockInv, AuctionsInStock, InStock
  <1>4. QED
    BY <1>1, <1>3 DEF StockInv

LEMMA StoreKeepsStock ==
  ASSUME NEW c \in Advertised, FundedInv, StockInv, CreateCampaign(c) \/ Deposit(c)
  PROVE  StockInv'
  <1>1. CASE Deposit(c)
    BY <1>1, StockFrame DEF Deposit, auctionVars, handlerVars, ghostVars, Drawing
  <1>2. CASE CreateCampaign(c)
    <2>1. /\ remaining' = [remaining EXCEPT ![c] = Bought[c]]
          /\ UNCHANGED <<auction, loaded, handlerPc, choice, seen, refilled>>
      BY <1>2 DEF CreateCampaign, auctionVars, handlerVars, ghostVars
    <2>2. CopiesInStock' /\ NotYetPlaced'
      BY <2>1, TenderAssumption DEF FundedInv, CampaignTypeOK, StockInv, CopiesInStock,
         NotYetPlaced, Drawing
    <2>3. \A i, d : Served(i, d)' = Served(i, d)
      BY <2>1 DEF Served
    <2>4. QED
      BY <2>1, <2>2, <2>3 DEF StockInv, AuctionsInStock, InStock
  <1>3. QED
    BY <1>1, <1>2

LEMMA VerifyKeepsStock ==
  ASSUME NEW v \in Verifies, FundedInv, StockInv, VerifyStep(v)
  PROVE  StockInv'
  <1> DEFINE c == CampaignOf[v]
             i == At[v]
  <1>1. /\ CampaignTypeOK /\ c \in Campaigns /\ i \in Instances /\ v \in CampaignHandlers
        /\ v \notin Requests /\ v \notin Impressions
    BY TenderAssumption, HandlersApart DEF FundedInv
  <1>2. /\ \E p \in {"checking", "done", "paid",
                     "activated"} : handlerPc' = [handlerPc EXCEPT ![v] = p]
        /\ UNCHANGED <<remaining, loaded, choice>>
    BY DEF VerifyStep, ReadCampaign, VerifyDeposit, Activate, ActivateThrows, GoLive, Advance,
           storeVars, auctionVars
  <1>3. /\ \A m \in Impressions : Drawing(m)' = Drawing(m)
        /\ \A r \in Requests : handlerPc'[r] = handlerPc[r]
    BY <1>1, <1>2 DEF CampaignTypeOK, Drawing
  <1>4. \A j, d : Served(j, d)' = Served(j, d)
    BY <1>2 DEF Served
  <1>5. NotYetPlaced'
    BY <1>2, <1>3 DEF StockInv, NotYetPlaced
  <1>6. CASE seen' = [seen EXCEPT ![v] = remaining[c]] /\ UNCHANGED <<auction, refilled>>
    <2>1. CopiesInStock'
      BY <1>1, <1>2, <1>3, <1>6 DEF CampaignTypeOK, StockInv, CopiesInStock
    <2>2. QED
      BY <1>4, <1>5, <1>6, <2>1 DEF StockInv, AuctionsInStock, InStock
  <1>7. CASE UNCHANGED <<seen, auction, refilled>>
    BY <1>2, <1>3, <1>7, StockFrame
  <1>8. CASE GoLive(v)
    <2>1. /\ auction' = [auction EXCEPT ![i][c] = seen[v]]
          /\ refilled' = IF auction[i][c] = -1 THEN refilled ELSE refilled \cup {i}
          /\ UNCHANGED seen
      BY <1>8 DEF GoLive
    <2>2. CopiesInStock'
      BY <1>2, <1>3, <2>1 DEF StockInv, CopiesInStock
    <2>3. ASSUME NEW j \in Instances \ refilled', NEW d \in Campaigns PROVE InStock(j, d)'
      <3>1. InStock(j, d) /\ j \in Instances
        BY <2>1, <2>3 DEF StockInv, AuctionsInStock
      <3>2. CASE j = i /\ d = c
        <4>1. auction[i][c] = -1 /\ Served(j, d) = {}
          BY <2>1, <2>3, <3>1, <3>2 DEF InStock
        <4>2. Cardinality(Served(j, d)') = 0
          BY <1>4, <4>1, FS_EmptySet
        <4>3. auction'[j][d] = seen[v] /\ seen[v] \in Nat /\ seen[v] <= Bought[d]
          BY <1>1, <2>1, <3>2 DEF CampaignTypeOK, StockInv, CopiesInStock
        <4>4. QED
          BY <4>2, <4>3 DEF InStock
      <3>3. CASE j # i \/ d # c
        <4>1. auction'[j][d] = auction[j][d]
          BY <1>1, <2>1, <3>1, <3>3 DEF CampaignTypeOK
        <4>2. QED
          BY <1>4, <3>1, <4>1 DEF InStock
      <3>4. QED
        BY <3>2, <3>3
    <2>4. QED
      BY <1>5, <2>2, <2>3 DEF StockInv, AuctionsInStock
  <1>9. QED
    BY <1>6, <1>7, <1>8 DEF VerifyStep, ReadCampaign, VerifyDeposit, Activate, ActivateThrows,
                            auctionVars, ghostVars

LEMMA LoadKeepsStock ==
  ASSUME NEW i \in Instances, FundedInv, StockInv, HydrateStep(i) \/ ColdStart(i)
  PROVE  StockInv'
  <1>1. CampaignTypeOK
    BY DEF FundedInv
  <1>2. /\ UNCHANGED <<remaining, seen, choice>>
        /\ \A h \in CampaignHandlers : handlerPc'[h] \in {handlerPc[h], "failed"}
    BY DEF HydrateStep, ListRows, FoldRows, ListThrows, ColdStart, storeVars, handlerVars
  <1>3. \A j, d : Served(j, d)' = Served(j, d)
    BY <1>2 DEF Served
  <1>4. /\ \A m \in Impressions : Drawing(m)' => Drawing(m)
        /\ NotYetPlaced'
    BY <1>2, HandlersApart DEF Drawing, StockInv, NotYetPlaced
  <1>5. loaded' = [loaded EXCEPT ![i] = Live] \/ loaded' = [loaded EXCEPT ![i] = Unlisted]
    BY DEF HydrateStep, ListRows, FoldRows, ListThrows, ColdStart
  <1>6. CopiesInStock'
    <2>1. \A c \in Campaigns : Live[c] <= Bought[c] /\ Unlisted[c] <= Bought[c]
      BY TenderAssumption DEF Live, Unlisted, StockInv, CopiesInStock
    <2>2. \A j \in Instances : \A c \in Campaigns : loaded'[j][c] <= Bought[c]
      <3>1. \A j \in Instances : loaded'[j] \in {loaded[j], Live, Unlisted}
        BY <1>1, <1>5 DEF CampaignTypeOK
      <3>2. QED
        BY <2>1, <3>1 DEF StockInv, CopiesInStock
    <2>3. QED
      BY <1>2, <1>4, <2>2 DEF StockInv, CopiesInStock
  <1>7. ASSUME NEW j \in Instances \ refilled', NEW d \in Campaigns PROVE InStock(j, d)'
    <2>1. refilled \subseteq refilled'
      BY DEF HydrateStep, ListRows, FoldRows, ListThrows, ColdStart, ghostVars
    <2>2. InStock(j, d) /\ j \in Instances
      BY <1>7, <2>1 DEF StockInv, AuctionsInStock
    <2>3. CASE auction'[j][d] = auction[j][d]
      BY <1>3, <2>2, <2>3 DEF InStock
    <2>4. CASE auction'[j][d] # auction[j][d]
      <3>1. FoldRows(i) /\ j = i
        <4>1. ~ColdStart(i)
          BY <1>1, <1>7, <2>4 DEF ColdStart, CampaignTypeOK
        <4>2. FoldRows(i)
          BY <2>4, <4>1 DEF HydrateStep, ListRows, ListThrows
        <4>3. QED
          BY <1>1, <2>4, <4>2 DEF FoldRows, CampaignTypeOK
      <3>2. auction'[i][d] = IF loaded[i][d] # -1 THEN loaded[i][d] ELSE auction[i][d]
        BY <1>1, <3>1 DEF FoldRows, CampaignTypeOK
      <3>3. auction[i][d] = -1 /\ loaded[i][d] # -1 /\ auction'[i][d] = loaded[i][d]
        BY <1>7, <2>4, <3>1, <3>2 DEF FoldRows
      <3>4. Cardinality(Served(j, d)') = 0
        BY <1>3, <2>2, <3>1, <3>3, FS_EmptySet DEF InStock
      <3>5. loaded[i][d] \in Int /\ loaded[i][d] <= Bought[d]
        <4>1. loaded[i] \in [Campaigns -> Nat \cup {-1}]
          BY <1>1 DEF CampaignTypeOK
        <4>2. QED
          BY <4>1 DEF StockInv, CopiesInStock
      <3>6. QED
        BY <3>1, <3>3, <3>4, <3>5 DEF InStock
    <2>5. QED
      BY <2>3, <2>4
  <1>8. QED
    BY <1>4, <1>6, <1>7 DEF StockInv, AuctionsInStock

(* A placement that is served has left the auction.                        *)
LEMMA WaitedKeepsStock ==
  ASSUME NEW r \in Requests, FundedInv, StockInv, Waited(r)
  PROVE  StockInv'
  <1> DEFINE i == At[r]
  <1>1. /\ CampaignTypeOK /\ r \in CampaignHandlers /\ i \in Instances /\ handlerPc[r] = "streaming"
        /\ choice[r] = None /\ \A m \in Impressions : m # r
    BY TenderAssumption, HandlersApart DEF FundedInv, Waited, StockInv, NotYetPlaced
  <1>2. /\ handlerPc' = [handlerPc EXCEPT ![r] = "waited"]
        /\ UNCHANGED <<remaining, seen, loaded, refilled>>
    BY DEF Waited, Advance, storeVars, ghostVars
  <1>3. \A m \in Impressions : Drawing(m)' = Drawing(m)
    BY <1>1, <1>2, HandlersApart DEF CampaignTypeOK, Drawing
  <1>4. CASE UNCHANGED <<auction, choice>>
    <2>1. \A q \in Requests :
             handlerPc'[q] \in {"idle", "streaming"} => handlerPc[q] \in {"idle", "streaming"}
      BY <1>1, <1>2, HandlersApart DEF CampaignTypeOK
    <2>2. QED
      BY <1>2, <1>3, <1>4, <2>1, StockFrame
  <1>5. ASSUME NEW c \in Winners(i), Select(r, c) PROVE StockInv'
    <2>1. /\ c \in Campaigns /\ auction[i][c] > 0 /\ c # None
          /\ choice' = [choice EXCEPT ![r] = c]
          /\ auction' = [auction EXCEPT ![i][c] = auction[i][c] - 1]
      BY <1>5, TenderAssumption DEF Winners, Select
    <2>2. /\ choice'[r] = c /\ \A h \in CampaignHandlers : h # r => choice'[h] = choice[h]
          /\ \A h \in CampaignHandlers : h # r => handlerPc'[h] = handlerPc[h]
          /\ handlerPc'[r] = "waited"
      BY <1>1, <1>2, <2>1 DEF CampaignTypeOK
    <2>3. CopiesInStock'
      BY <1>1, <1>2, <1>3, <2>2, HandlersApart DEF StockInv, CopiesInStock
    <2>4. NotYetPlaced'
      BY <2>2, HandlersApart DEF StockInv, NotYetPlaced
    <2>5. ASSUME NEW j \in Instances \ refilled', NEW d \in Campaigns PROVE InStock(j, d)'
      <3>1. /\ InStock(j, d) /\ j \in Instances /\ IsFiniteSet(Served(j, d))
            /\ Cardinality(Served(j, d)) \in Nat
        BY <1>2, <2>5, ServedTyped DEF StockInv, AuctionsInStock
      <3>2. CASE j = i /\ d = c
        <4>1. Served(j, d)' = Served(j, d) \cup {r} /\ r \notin Served(j, d)
          BY <1>1, <2>1, <2>2, <3>2, HandlersApart DEF Served
        <4>2. Cardinality(Served(j, d)') = Cardinality(Served(j, d)) + 1
          BY <3>1, <4>1, FS_AddElement
        <4>3. auction[i][c] \in Nat /\ auction'[i][c] = auction[i][c] - 1
          <5>1. auction[i] \in [Campaigns -> Nat \cup {-1}]
            BY <1>1 DEF CampaignTypeOK
          <5>2. auction[i][c] \in Nat \cup {-1}
            BY <2>1, <5>1
          <5>3. auction[i][c] \in Nat
            BY <2>1, <5>2
          <5>4. auction'[i][c] = auction[i][c] - 1
            BY <1>1, <2>1 DEF CampaignTypeOK
          <5>5. QED
            BY <5>3, <5>4
        <4>4. Cardinality(Served(j, d)) + auction[i][c] <= Bought[c] /\ Bought[c] \in Nat
          BY <2>1, <3>1, <3>2, <4>3, TenderAssumption DEF InStock
        <4>5. QED
          BY <2>1, <3>1, <3>2, <4>2, <4>3, <4>4 DEF InStock
      <3>3. CASE j # i \/ d # c
        <4>1. auction'[j][d] = auction[j][d]
          BY <1>1, <2>1, <3>1, <3>3 DEF CampaignTypeOK
        <4>2. Served(j, d)' = Served(j, d)
          <5>1. r \notin Served(j, d) /\ r \notin Served(j, d)'
            BY <1>1, <2>2, <3>3, TenderAssumption DEF Served
          <5>2. QED
            BY <2>2, <5>1, HandlersApart DEF Served
        <4>3. QED
          BY <3>1, <4>1, <4>2 DEF InStock
      <3>4. QED
        BY <3>2, <3>3
    <2>6. QED
      BY <2>3, <2>4, <2>5 DEF StockInv, AuctionsInStock
  <1>6. QED
    BY <1>4, <1>5 DEF Waited

LEMMA RoutedKeepsStock ==
  ASSUME NEW r \in Requests, FundedInv, StockInv, Stream(r) \/ Finish(r) \/ StreamFails(r)
  PROVE  StockInv'
  <1>1. CampaignTypeOK /\ r \in CampaignHandlers /\ \A m \in Impressions : m # r
    BY HandlersApart DEF FundedInv
  <1>2. /\ UNCHANGED <<remaining, seen, loaded, auction, choice, refilled>>
        /\ \E p \in {"streaming", "crediting", "done", "failed"} :
             /\ handlerPc' = [handlerPc EXCEPT ![r] = p]
             /\ p = "streaming" => handlerPc[r] = "idle"
    BY DEF Stream, Finish, StreamFails, Advance, storeVars, auctionVars, ghostVars
  <1>3. /\ \A m \in Impressions : Drawing(m)' = Drawing(m)
        /\ \A q \in Requests :
              handlerPc'[q] \in {"idle", "streaming"} => handlerPc[q] \in {"idle", "streaming"}
    BY <1>1, <1>2, HandlersApart DEF CampaignTypeOK, Drawing
  <1>4. QED
    BY <1>2, <1>3, StockFrame

LEMMA ImpressionKeepsStock ==
  ASSUME NEW m \in Impressions, FundedInv, StockInv, ImpressionStep(m)
  PROVE  StockInv'
  <1>1. /\ CampaignTypeOK /\ m \in CampaignHandlers /\ m \notin Requests /\ m \notin Verifies
        /\ m \in Earners
    BY HandlersApart DEF FundedInv
  <1>2. /\ \E p \in {"listed", "crediting", "done"} : handlerPc' = [handlerPc EXCEPT ![m] = p]
        /\ UNCHANGED <<auction, loaded, refilled>>
    BY DEF ImpressionStep, Ask, Pick, PickThrows, DrawDown, DrawDownThrows, Advance,
       auctionVars, ghostVars
  <1>3. \A h \in CampaignHandlers : h # m => handlerPc'[h] = handlerPc[h]
    BY <1>1, <1>2 DEF CampaignTypeOK
  <1>4. CASE handlerPc'[m] # "crediting" /\ UNCHANGED <<remaining, seen, choice>>
    <2>1. /\ \A n \in Impressions : Drawing(n)' => Drawing(n)
          /\ \A q \in Requests : handlerPc'[q] = handlerPc[q]
      BY <1>1, <1>2, <1>3, <1>4, HandlersApart DEF CampaignTypeOK, Drawing
    <2>2. QED
      BY <1>2, <1>4, <2>1, StockFrame
  <1>5. CASE Pick(m) /\ Inventory # {}
    <2>1. PICK c \in Inventory : /\ choice' = [choice EXCEPT ![m] = c]
                                 /\ seen' = [seen EXCEPT ![m] = remaining[c]]
      BY <1>5 DEF Pick
    <2>2. UNCHANGED remaining
      BY <1>5 DEF Pick, storeVars
    <2>3. /\ c \in Campaigns /\ choice'[m] = c /\ seen'[m] = remaining[c]
          /\ \A h \in CampaignHandlers : h # m => choice'[h] = choice[h] /\ seen'[h] = seen[h]
      BY <1>1, <2>1 DEF CampaignTypeOK, Inventory
    <2>4. CopiesInStock' /\ NotYetPlaced'
      BY <1>1, <1>2, <1>3, <2>2, <2>3, HandlersApart DEF StockInv, CopiesInStock, NotYetPlaced,
         Drawing
    <2>5. \A j, d : Served(j, d)' = Served(j, d)
      BY <1>1, <2>3, HandlersApart DEF Served
    <2>6. QED
      BY <1>2, <2>4, <2>5 DEF StockInv, AuctionsInStock, InStock
  <1>6. CASE DrawDown(m)
    <2>1. /\ remaining' = [remaining EXCEPT ![choice[m]] = seen[m] - 1]
          /\ handlerPc' = [handlerPc EXCEPT ![m] = "done"]
          /\ UNCHANGED <<seen, choice>> /\ Drawing(m)
      BY <1>6 DEF DrawDown, Advance, Drawn, Drawing
    <2>2. /\ choice[m] \in Campaigns /\ seen[m] \in Nat /\ seen[m] <= Bought[choice[m]]
          /\ Bought[choice[m]] \in Nat
      BY <1>1, <2>1, TenderAssumption DEF CampaignTypeOK, FundedInv, ChoiceIsMade, Drawing,
         StockInv, CopiesInStock
    <2>3. \A c \in Campaigns : remaining'[c] <= Bought[c]
      BY <1>1, <2>1, <2>2 DEF CampaignTypeOK, StockInv, CopiesInStock
    <2>4. CopiesInStock' /\ NotYetPlaced'
      BY <1>1, <1>2, <1>3, <2>1, <2>3, HandlersApart DEF CampaignTypeOK, StockInv,
         CopiesInStock, NotYetPlaced, Drawing
    <2>5. \A j, d : Served(j, d)' = Served(j, d)
      BY <2>1 DEF Served
    <2>6. QED
      BY <1>2, <2>4, <2>5 DEF StockInv, AuctionsInStock, InStock
  <1>7. CASE Ask(m) \/ PickThrows(m) \/ DrawDownThrows(m) \/ (Pick(m) /\ Inventory = {})
    <2>1. UNCHANGED <<remaining, seen, choice>>
      BY <1>7 DEF Ask, Pick, PickThrows, DrawDownThrows, storeVars
    <2>2. handlerPc'[m] # "crediting"
      BY <1>1, <1>7 DEF CampaignTypeOK, Ask, Pick, PickThrows, DrawDownThrows, Advance
    <2>3. QED
      BY <1>4, <2>1, <2>2
  <1>8. QED
    BY <1>5, <1>6, <1>7 DEF ImpressionStep

LEMMA AccrueKeepsStock ==
  ASSUME NEW h \in Earners, FundedInv, StockInv, AccrueKickback(h) \/ AccrueThrows(h)
  PROVE  StockInv'
  <1>1. CampaignTypeOK /\ h \in CampaignHandlers /\ handlerPc[h] = "crediting"
    BY DEF FundedInv, AccrueKickback, AccrueThrows
  <1>2. /\ UNCHANGED <<remaining, seen, loaded, auction, choice, refilled>>
        /\ \E p \in {"drawing", "done", "failed"} : handlerPc' = [handlerPc EXCEPT ![h] = p]
    BY DEF AccrueKickback, AccrueThrows, Credited, Advance, storeVars, auctionVars, ghostVars
  <1>3. /\ \A m \in Impressions : Drawing(m)' => Drawing(m)
        /\ \A q \in Requests :
              handlerPc'[q] \in {"idle", "streaming"} => handlerPc[q] \in {"idle", "streaming"}
    BY <1>1, <1>2, HandlersApart DEF CampaignTypeOK, Drawing
  <1>4. QED
    BY <1>2, <1>3, StockFrame

LEMMA StockStep ==
  ASSUME FundedInv, StockInv, [CampaignNext]_campaignVars
  PROVE  StockInv'
  <1>1. ASSUME NEW i \in Instances, Elapse(i) PROVE StockInv'
    BY <1>1, StockFrame DEF Elapse, storeVars, auctionVars, handlerVars, ghostVars, Drawing
  <1>2. CASE UNCHANGED campaignVars
    BY <1>2, StockFrame DEF campaignVars, storeVars, auctionVars, handlerVars, ghostVars, Drawing
  <1>3. QED
    BY <1>1, <1>2, StoreKeepsStock, VerifyKeepsStock, LoadKeepsStock, WaitedKeepsStock,
       RoutedKeepsStock,
       ImpressionKeepsStock, AccrueKeepsStock DEF CampaignNext, RoutedStep

-----------------------------------------------------------------------------
(* What impressions draw down.  While nothing failed and no two of them    *)
(* were under way at once, the one that is under way has read what the row *)
(* still has, and the row has lost one for each that is done and credited. *)

Quiet == ~campaignFaulted /\ ~overlapped

InHand(m) == handlerPc[m] \in Underway

Settled(c) == {m \in Impressions : choice[m] = c /\ creditRow[m] # 0 /\ handlerPc[m] = "done"}

OneByOne ==
  /\ \A m, n \in Impressions : InHand(m) /\ InHand(n) => m = n
  /\ \A m \in Impressions : Drawing(m) => seen[m] = remaining[choice[m]]

(* Who is credited chose a row; the row is credited before it is drawn on. *)
CreditedInOrder ==
  \A m \in Impressions :
    /\ handlerPc[m] \in {"idle", "listed", "crediting"} => creditRow[m] = 0
    /\ handlerPc[m] = "drawing" => creditRow[m] # 0
    /\ Drawing(m) \/ creditRow[m] # 0 => choice[m] \in Campaigns /\ status[choice[m]] # "none"

DrawnIsSettled ==
  \A c \in Campaigns : status[c] # "none" => remaining[c] + Cardinality(Settled(c)) = Bought[c]

ReadRowsExist ==
  \A v \in Verifies :
    handlerPc[v] \in {"checking", "paid", "activated"} => status[CampaignOf[v]] # "none"

DrawdownInv == ReadRowsExist /\ (Quiet => OneByOne /\ CreditedInOrder /\ DrawnIsSettled)

LEMMA SettledTyped ==
  ASSUME NEW c
  PROVE  IsFiniteSet(Settled(c)) /\ Cardinality(Settled(c)) \in Nat
  <1>1. Settled(c) \subseteq Impressions
    BY DEF Settled
  <1>2. QED
    BY <1>1, TenderAssumption, FS_Subset, FS_CardinalityType

LEMMA DrawdownInit == CampaignInit => DrawdownInv
  <1> SUFFICES ASSUME CampaignInit PROVE DrawdownInv
    OBVIOUS
  <1>1. \A c : Settled(c) = {}
    BY HandlersApart DEF CampaignInit, Settled
  <1>2. DrawnIsSettled
    <2>1. \A c : Cardinality(Settled(c)) = 0
      BY <1>1, FS_EmptySet
    <2>2. QED
      BY <2>1, TenderAssumption DEF CampaignInit, DrawnIsSettled
  <1>3. ReadRowsExist /\ OneByOne /\ CreditedInOrder
    BY HandlersApart DEF CampaignInit, ReadRowsExist, OneByOne, InHand, Underway, Drawing,
       CreditedInOrder
  <1>4. QED
    BY <1>2, <1>3 DEF DrawdownInv

(* A step of another handler, which leaves the rows as they are.           *)
LEMMA DrawdownFrame ==
  ASSUME DrawdownInv, ReadRowsExist',
         Quiet' => Quiet,
         \A m \in Impressions : /\ handlerPc'[m] = handlerPc[m] /\ choice'[m] = choice[m]
                                /\ seen'[m] = seen[m] /\ creditRow'[m] = creditRow[m],
         UNCHANGED remaining,
         \A c \in Campaigns : status'[c] = "none" <=> status[c] = "none"
  PROVE  DrawdownInv'
  <1> SUFFICES ASSUME Quiet PROVE OneByOne' /\ CreditedInOrder' /\ DrawnIsSettled'
    BY DEF DrawdownInv
  <1>1. OneByOne' /\ CreditedInOrder'
    BY DEF DrawdownInv, OneByOne, InHand, Drawing, CreditedInOrder
  <1>2. \A c : Settled(c)' = Settled(c)
    BY DEF Settled
  <1>3. QED
    BY <1>1, <1>2 DEF DrawdownInv, DrawnIsSettled

LEMMA StoreKeepsDrawdown ==
  ASSUME NEW c \in Advertised, FundedInv, DrawdownInv, CreateCampaign(c) \/ Deposit(c)
  PROVE  DrawdownInv'
  <1>1. CampaignTypeOK /\ c \in Campaigns
    BY DEF FundedInv
  <1>2. UNCHANGED <<handlerPc, choice, seen, creditRow, campaignFaulted, overlapped>>
    BY DEF CreateCampaign, Deposit, handlerVars, ghostVars
  <1>3. CASE Deposit(c)
    BY <1>2, <1>3, DrawdownFrame DEF Deposit, DrawdownInv, ReadRowsExist, Quiet
  <1>4. CASE CreateCampaign(c)
    <2>1. /\ status[c] = "none"
          /\ status' = [status EXCEPT ![c] = "pending"]
          /\ remaining' = [remaining EXCEPT ![c] = Bought[c]]
      BY <1>4 DEF CreateCampaign
    <2>2. \A d \in Campaigns : status[d] # "none" =>
            d # c /\ status'[d] = status[d] /\ remaining'[d] = remaining[d]
      BY <1>1, <2>1 DEF CampaignTypeOK
    <2>3. ReadRowsExist'
      BY <1>2, <2>2, TenderAssumption DEF DrawdownInv, ReadRowsExist
    <2>4. ASSUME Quiet PROVE OneByOne' /\ CreditedInOrder' /\ DrawnIsSettled'
      <3>1. OneByOne /\ CreditedInOrder /\ DrawnIsSettled
        BY <2>4 DEF DrawdownInv
      <3>2. OneByOne' /\ CreditedInOrder'
        BY <1>2, <2>2, <3>1 DEF OneByOne, InHand, Drawing, CreditedInOrder
      <3>3. \A d : Settled(d)' = Settled(d)
        BY <1>2 DEF Settled
      <3>4. Settled(c) = {} /\ Cardinality(Settled(c)) = 0
        <4>1. \A m \in Settled(c) : FALSE
          BY <2>1, <3>1 DEF Settled, CreditedInOrder
        <4>2. Settled(c) = {}
          BY <4>1
        <4>3. QED
          BY <4>2, FS_EmptySet
      <3>5. DrawnIsSettled'
        <4> SUFFICES ASSUME NEW d \in Campaigns, status'[d] # "none"
                     PROVE  remaining'[d] + Cardinality(Settled(d)') = Bought[d]
          BY DEF DrawnIsSettled
        <4>1. CASE d = c
          <5>1. remaining'[d] = Bought[d] /\ Bought[d] \in Nat /\ Cardinality(Settled(d)') = 0
            BY <1>1, <2>1, <3>3, <3>4, <4>1, TenderAssumption DEF CampaignTypeOK
          <5>2. QED
            BY <5>1
        <4>2. CASE d # c
          <5>1. status'[d] = status[d]
            BY <2>1, <4>2
          <5>2. QED
            BY <2>2, <3>1, <3>3, <5>1 DEF DrawnIsSettled
        <4>3. QED
          BY <4>1, <4>2
      <3>6. QED
        BY <3>2, <3>5
    <2>5. QED
      BY <1>2, <2>3, <2>4 DEF DrawdownInv, Quiet
  <1>5. QED
    BY <1>3, <1>4

LEMMA VerifyKeepsDrawdown ==
  ASSUME NEW v \in Verifies, FundedInv, DrawdownInv, VerifyStep(v)
  PROVE  DrawdownInv'
  <1> DEFINE c == CampaignOf[v]
  <1>1. CampaignTypeOK /\ c \in Campaigns /\ v \in CampaignHandlers /\ v \notin Impressions
    BY TenderAssumption, HandlersApart DEF FundedInv
  <1>2. /\ UNCHANGED <<remaining, choice, creditRow, overlapped>>
        /\ \A h \in CampaignHandlers : h # v => handlerPc'[h] = handlerPc[h] /\ seen'[h] = seen[h]
        /\ status' = status \/ status' = [status EXCEPT ![c] = "active"]
        /\ status' # status => handlerPc[v] = "paid"
    BY <1>1 DEF VerifyStep, ReadCampaign, VerifyDeposit, Activate, ActivateThrows, GoLive, Advance,
           storeVars, auctionVars, ghostVars, CampaignTypeOK
  <1>3. campaignFaulted => campaignFaulted'
    BY Zenon DEF VerifyStep, ReadCampaign, VerifyDeposit, Activate, ActivateThrows, GoLive,
       ghostVars
  <1>4. handlerPc'[v] \in {"checking", "paid", "activated"} =>
          handlerPc[v] \in {"checking", "paid"} \/ status[c] # "none"
    BY <1>1 DEF VerifyStep, ReadCampaign, VerifyDeposit, Activate, ActivateThrows, GoLive,
       Advance, CampaignTypeOK
  <1>5. \A d \in Campaigns : status'[d] = "none" <=> status[d] = "none"
    BY <1>1, <1>2 DEF CampaignTypeOK, DrawdownInv, ReadRowsExist
  <1>6. ReadRowsExist'
    BY <1>1, <1>2, <1>4, <1>5, TenderAssumption, HandlersApart DEF DrawdownInv, ReadRowsExist
  <1>7. Quiet' => Quiet
    BY <1>2, <1>3 DEF Quiet
  <1>8. \A m \in Impressions : m # v /\ m \in CampaignHandlers
    BY <1>1, HandlersApart
  <1>9. QED
    BY <1>2, <1>5, <1>6, <1>7, <1>8, DrawdownFrame

LEMMA InstanceKeepsDrawdown ==
  ASSUME NEW i \in Instances, FundedInv, DrawdownInv, HydrateStep(i) \/ Elapse(i) \/ ColdStart(i)
  PROVE  DrawdownInv'
  <1>1. CASE ColdStart(i)
    <2>1. ~Quiet'
      BY <1>1 DEF ColdStart, Quiet
    <2>2. ReadRowsExist'
      BY <1>1, HandlersApart DEF ColdStart, storeVars, DrawdownInv, ReadRowsExist
    <2>3. QED
      BY <2>1, <2>2 DEF DrawdownInv
  <1>2. CASE HydrateStep(i) \/ Elapse(i)
    <2>1. UNCHANGED <<status, remaining, handlerPc, choice, seen, creditRow, overlapped>>
      BY <1>2 DEF HydrateStep, ListRows, FoldRows, ListThrows, Elapse, storeVars, handlerVars,
         ghostVars
    <2>2. campaignFaulted => campaignFaulted'
      BY Zenon, <1>2 DEF HydrateStep, ListRows, FoldRows, ListThrows, Elapse, ghostVars
    <2>3. ReadRowsExist' /\ (Quiet' => Quiet)
      BY <2>1, <2>2 DEF DrawdownInv, ReadRowsExist, Quiet
    <2>4. QED
      BY <2>1, <2>3, DrawdownFrame
  <1>3. QED
    BY <1>1, <1>2

LEMMA RoutedKeepsDrawdown ==
  ASSUME NEW r \in Requests, FundedInv, DrawdownInv, RoutedStep(r)
  PROVE  DrawdownInv'
  <1>1. CampaignTypeOK /\ r \in CampaignHandlers /\ r \notin Impressions /\ r \notin Verifies
    BY HandlersApart DEF FundedInv
  <1>2. /\ UNCHANGED <<status, remaining, seen, creditRow, campaignFaulted, overlapped>>
        /\ \A h \in CampaignHandlers : h # r => handlerPc'[h] = handlerPc[h]
    BY <1>1 DEF RoutedStep, Stream, Waited, Finish, StreamFails, Advance, storeVars, ghostVars,
       CampaignTypeOK
  <1>3. \A h \in CampaignHandlers : h # r => choice'[h] = choice[h]
    BY <1>1 DEF RoutedStep, Stream, Waited, Select, Finish, StreamFails, CampaignTypeOK
  <1>4. ReadRowsExist'
    BY <1>1, <1>2, HandlersApart DEF DrawdownInv, ReadRowsExist
  <1>5. \A m \in Impressions : m # r /\ m \in CampaignHandlers
    BY <1>1, HandlersApart
  <1>6. Quiet' => Quiet
    BY <1>2 DEF Quiet
  <1>7. QED
    BY <1>2, <1>3, <1>4, <1>5, <1>6, DrawdownFrame

(* An impression that is under way alone draws on what the row still has.  *)
LEMMA ImpressionKeepsDrawdown ==
  ASSUME NEW m \in Impressions, FundedInv, DrawdownInv, ImpressionStep(m)
  PROVE  DrawdownInv'
  <1>1. CampaignTypeOK /\ m \in CampaignHandlers /\ m \in Earners /\ m \notin Verifies
    BY HandlersApart DEF FundedInv
  <1>2. /\ UNCHANGED <<status, creditRow>>
        /\ \E p \in {"listed", "crediting", "done"} : handlerPc' = [handlerPc EXCEPT ![m] = p]
    BY DEF ImpressionStep, Ask, Pick, PickThrows, DrawDown, DrawDownThrows, Advance, storeVars
  <1>3. \A h \in CampaignHandlers : h # m => handlerPc'[h] = handlerPc[h]
    BY <1>1, <1>2 DEF CampaignTypeOK
  <1>4. ReadRowsExist'
    BY <1>1, <1>2, <1>3, HandlersApart DEF DrawdownInv, ReadRowsExist
  <1>5. SUFFICES ASSUME Quiet' PROVE OneByOne' /\ CreditedInOrder' /\ DrawnIsSettled'
    BY <1>4 DEF DrawdownInv
  <1>6. ~PickThrows(m) /\ ~DrawDownThrows(m)
    BY <1>5 DEF PickThrows, DrawDownThrows, Quiet
  <1>7. CASE Ask(m)
    <2>1. ~overlapped /\ \A n \in Impressions : ~InHand(n)
      BY Zenon, <1>5, <1>7 DEF Ask, Quiet, InHand
    <2>2. /\ handlerPc[m] = "idle" /\ handlerPc'[m] = "listed"
          /\ UNCHANGED <<remaining, choice, seen, campaignFaulted>>
      BY <1>1, <1>7 DEF Ask, Advance, storeVars, CampaignTypeOK
    <2>3. OneByOne /\ CreditedInOrder /\ DrawnIsSettled
      BY <1>5, <2>1, <2>2 DEF DrawdownInv, Quiet
    <2>4. OneByOne' /\ CreditedInOrder'
      BY <1>2, <1>3, <2>1, <2>2, <2>3, HandlersApart DEF OneByOne, InHand, Underway, Drawing,
         CreditedInOrder
    <2>5. \A c : Settled(c)' = Settled(c)
      BY <1>2, <1>3, <2>2, HandlersApart DEF Settled
    <2>6. QED
      BY <1>2, <2>2, <2>3, <2>4, <2>5 DEF DrawnIsSettled
  <1>8. CASE Pick(m)
    <2>1. /\ handlerPc[m] = "listed"
          /\ UNCHANGED <<remaining, campaignFaulted, overlapped>>
      BY <1>8 DEF Pick, storeVars, ghostVars
    <2>2. OneByOne /\ CreditedInOrder /\ DrawnIsSettled
      BY <1>5, <2>1 DEF DrawdownInv, Quiet
    <2>3. InHand(m) /\ creditRow[m] = 0 /\ \A n \in Impressions : n # m => ~InHand(n)
      BY <2>1, <2>2 DEF OneByOne, InHand, Underway, CreditedInOrder
    <2>4. \A n \in Impressions : n # m => ~InHand(n)' /\ ~Drawing(n)'
      BY <1>3, <2>3, HandlersApart DEF InHand, Underway, Drawing
    <2>5. \A h \in CampaignHandlers : h # m => choice'[h] = choice[h]
      BY <1>1, <1>8 DEF Pick, CampaignTypeOK
    <2>6. \A c : Settled(c)' = Settled(c)
      BY <1>2, <1>3, <2>3, <2>5, HandlersApart DEF Settled
    <2>7. Drawing(m)' => choice'[m] \in Campaigns /\ status[choice'[m]] # "none" /\ seen'[m] = remaining[choice'[m]]
      <3>1. CASE Inventory = {}
        BY <1>1, <1>8, <3>1 DEF Pick, Advance, Drawing, CampaignTypeOK
      <3>2. CASE Inventory # {}
        <4>1. PICK c \in Inventory : /\ choice' = [choice EXCEPT ![m] = c]
                                     /\ seen' = [seen EXCEPT ![m] = remaining[c]]
          BY <1>8, <3>2 DEF Pick
        <4>2. QED
          BY <1>1, <4>1 DEF CampaignTypeOK, Inventory, IsActive
      <3>3. QED
        BY <3>1, <3>2
    <2>8. OneByOne'
      BY <2>1, <2>4, <2>7 DEF OneByOne
    <2>9. handlerPc'[m] \in {"crediting", "done"}
      BY <1>1, <1>8 DEF Pick, Advance, CampaignTypeOK
    <2>10. CreditedInOrder'
      BY <1>2, <1>3, <2>2, <2>3, <2>4, <2>5, <2>7, <2>9, HandlersApart DEF CreditedInOrder, Drawing
    <2>11. QED
      BY <1>2, <2>1, <2>2, <2>6, <2>8, <2>10 DEF DrawnIsSettled
  <1>9. CASE DrawDown(m)
    <2>1. /\ handlerPc[m] = "drawing" /\ handlerPc'[m] = "done" /\ Drawing(m) /\ InHand(m)
          /\ remaining' = [remaining EXCEPT ![choice[m]] = seen[m] - 1]
          /\ UNCHANGED <<choice, seen, campaignFaulted, overlapped>>
      BY <1>1, <1>9 DEF DrawDown, Advance, Drawn, Drawing, InHand, Underway, ghostVars,
         CampaignTypeOK
    <2>2. OneByOne /\ CreditedInOrder /\ DrawnIsSettled
      BY <1>5, <2>1 DEF DrawdownInv, Quiet
    <2>3. /\ creditRow[m] # 0 /\ choice[m] \in Campaigns /\ status[choice[m]] # "none"
          /\ seen[m] = remaining[choice[m]]
          /\ \A n \in Impressions : n # m => ~InHand(n)
      BY <2>1, <2>2 DEF OneByOne, CreditedInOrder
    <2>4. \A n \in Impressions : ~InHand(n)' /\ ~Drawing(n)'
      BY <1>3, <2>1, <2>3, HandlersApart DEF InHand, Underway, Drawing
    <2>5. OneByOne'
      BY <2>4 DEF OneByOne
    <2>6. CreditedInOrder'
      BY <1>2, <1>3, <2>1, <2>2, <2>3, <2>4, HandlersApart DEF CreditedInOrder
    <2>7. ASSUME NEW c \in Campaigns, status'[c] # "none"
          PROVE  remaining'[c] + Cardinality(Settled(c)') = Bought[c]
      <3>1. /\ remaining[c] + Cardinality(Settled(c)) = Bought[c] /\ remaining[c] \in Nat
            /\ IsFiniteSet(Settled(c)) /\ Cardinality(Settled(c)) \in Nat
        BY <1>1, <1>2, <2>2, <2>7, SettledTyped DEF DrawnIsSettled, CampaignTypeOK
      <3>2. CASE c = choice[m]
        <4>1. Settled(c)' = Settled(c) \cup {m} /\ m \notin Settled(c)
          BY <1>2, <1>3, <2>1, <2>3, <3>2, HandlersApart DEF Settled
        <4>2. Cardinality(Settled(c)') = Cardinality(Settled(c)) + 1
          BY <3>1, <4>1, FS_AddElement
        <4>3. remaining'[c] = remaining[c] - 1
          BY <1>1, <2>1, <2>3, <3>2 DEF CampaignTypeOK
        <4>4. QED
          BY <3>1, <4>2, <4>3
      <3>3. CASE c # choice[m]
        <4>1. Settled(c)' = Settled(c)
          BY <1>2, <1>3, <2>1, <3>3, HandlersApart DEF Settled
        <4>2. remaining'[c] = remaining[c]
          BY <1>1, <2>1, <3>3 DEF CampaignTypeOK
        <4>3. QED
          BY <3>1, <4>1, <4>2
      <3>4. QED
        BY <3>2, <3>3
    <2>8. QED
      BY <2>5, <2>6, <2>7 DEF DrawnIsSettled
  <1>10. QED
    BY <1>6, <1>7, <1>8, <1>9 DEF ImpressionStep

LEMMA AccrueKeepsDrawdown ==
  ASSUME NEW h \in Earners, FundedInv, DrawdownInv, AccrueKickback(h) \/ AccrueThrows(h)
  PROVE  DrawdownInv'
  <1>1. /\ CampaignTypeOK /\ h \in CampaignHandlers /\ h \notin Verifies
        /\ h \notin Requests => h \in Impressions
    BY HandlersApart DEF FundedInv
  <1>2. /\ UNCHANGED <<status, remaining, choice, seen, overlapped>>
        /\ handlerPc[h] = "crediting"
        /\ \A g \in CampaignHandlers : g # h => handlerPc'[g] = handlerPc[g]
        /\ \A g \in Earners : g # h => creditRow'[g] = creditRow[g]
    BY <1>1 DEF AccrueKickback, AccrueThrows, Advance, storeVars, ghostVars, CampaignTypeOK
  <1>3. ReadRowsExist'
    BY <1>1, <1>2, HandlersApart DEF DrawdownInv, ReadRowsExist
  <1>4. CASE AccrueThrows(h)
    <2>1. ~Quiet'
      BY <1>4 DEF AccrueThrows, Quiet
    <2>2. QED
      BY <1>3, <2>1 DEF DrawdownInv
  <1>5. CASE AccrueKickback(h) /\ h \in Requests
    <2>1. \A m \in Impressions : m # h /\ m \in CampaignHandlers /\ m \in Earners
      BY <1>5, HandlersApart
    <2>2. Quiet' => Quiet
      BY <1>2, <1>5 DEF AccrueKickback, Quiet, ghostVars
    <2>3. QED
      BY <1>2, <1>3, <2>1, <2>2, DrawdownFrame
  <1>6. CASE AccrueKickback(h) /\ h \in Impressions
    <2>1. SUFFICES ASSUME Quiet' PROVE OneByOne' /\ CreditedInOrder' /\ DrawnIsSettled'
      BY <1>3 DEF DrawdownInv
    <2>2. OneByOne /\ CreditedInOrder /\ DrawnIsSettled
      BY <1>6, <2>1 DEF AccrueKickback, ghostVars, DrawdownInv, Quiet
    <2>3. /\ choice[h] \in Campaigns /\ status[choice[h]] # "none"
          /\ handlerPc'[h] = "drawing" /\ creditRow'[h] # 0
      <3>1. choice[h] \in Campaigns /\ status[choice[h]] # "none"
        BY <1>2, <1>6, <2>2 DEF CreditedInOrder, Drawing
      <3>2. Price[choice[h]] # 0
        BY <3>1, TenderAssumption
      <3>3. QED
        BY <1>1, <1>6, <3>1, <3>2 DEF AccrueKickback, Advance, Credited, CampaignTypeOK
    <2>4. \A m \in Impressions : (InHand(m)' <=> InHand(m)) /\ (Drawing(m)' <=> Drawing(m))
      BY <1>2, <2>3, HandlersApart DEF InHand, Underway, Drawing
    <2>5. OneByOne'
      BY <1>2, <2>2, <2>4 DEF OneByOne
    <2>6. CreditedInOrder'
      BY <1>2, <2>2, <2>3, <2>4, HandlersApart DEF CreditedInOrder
    <2>7. \A c : Settled(c)' = Settled(c)
      BY <1>2, <2>3, HandlersApart DEF Settled
    <2>8. QED
      BY <1>2, <2>2, <2>5, <2>6, <2>7 DEF DrawnIsSettled
  <1>7. QED
    BY <1>1, <1>4, <1>5, <1>6

LEMMA DrawdownStep ==
  ASSUME FundedInv, DrawdownInv, [CampaignNext]_campaignVars
  PROVE  DrawdownInv'
  <1>1. CASE UNCHANGED campaignVars
    <2>1. UNCHANGED <<status, remaining, handlerPc, choice, seen, creditRow, campaignFaulted,
                      overlapped>>
      BY <1>1 DEF campaignVars, storeVars, handlerVars, ghostVars
    <2>2. ReadRowsExist' /\ (Quiet' => Quiet)
      BY <2>1 DEF DrawdownInv, ReadRowsExist, Quiet
    <2>3. QED
      BY <2>1, <2>2, DrawdownFrame
  <1>2. QED
    BY <1>1, StoreKeepsDrawdown, VerifyKeepsDrawdown, InstanceKeepsDrawdown, RoutedKeepsDrawdown,
       ImpressionKeepsDrawdown, AccrueKeepsDrawdown DEF CampaignNext

EarnedInv == FundedInv /\ BilledFirst /\ StockInv /\ DrawdownInv

(* And so does what the earnings of a kickback rest on.                    *)
THEOREM EarnedInductive == CampaignSpec => []EarnedInv
  <1>1. CampaignInit => EarnedInv
    <2>1. CampaignInit => BilledFirst
      BY HandlersApart DEF CampaignInit, BilledFirst
    <2>2. QED
      BY <2>1, FundedInit, StockInit, DrawdownInit DEF EarnedInv
  <1>2. EarnedInv /\ [CampaignNext]_campaignVars /\ FundedInv' => EarnedInv'
    BY BilledStep, StockStep, DrawdownStep DEF EarnedInv
  <1>3. QED
    BY <1>1, <1>2, FundedInductive, PTL DEF CampaignSpec

(* A kickback is earned, for any number of instances, campaigns, requests, *)
(* impressions and verifies.                                               *)
THEOREM AlwaysKickbackIsEarned == CampaignSpec => []KickbackIsEarned
  <1>1. EarnedInv => KickbackIsEarned
    <2> SUFFICES ASSUME EarnedInv PROVE KickbackIsEarned
      OBVIOUS
    <2>1. CampaignTypeOK
      BY DEF EarnedInv, FundedInv
    <2>2. \A r \in Requests : creditRow[r] # 0 => r \in billed
      BY DEF EarnedInv, BilledFirst
    <2>3. ASSUME NEW i \in Instances \ refilled, NEW c \in Campaigns, Served(i, c) # {}
          PROVE  Cardinality(Served(i, c)) + auction[i][c] <= Bought[c]
      BY <2>3 DEF EarnedInv, StockInv, AuctionsInStock, InStock
    <2>4. ASSUME Quiet, \A m \in Impressions : handlerPc[m] \in {"idle", "done"},
                 NEW c \in Campaigns, status[c] # "none"
          PROVE  Bought[c] - remaining[c] = Cardinality({m \in Impressions : choice[m] = c /\ creditRow[m] # 0})
      <3>1. CreditedInOrder /\ DrawnIsSettled
        BY <2>4 DEF EarnedInv, DrawdownInv
      <3>2. {m \in Impressions : choice[m] = c /\ creditRow[m] # 0} = Settled(c)
        BY <2>4, <3>1 DEF Settled, CreditedInOrder
      <3>3. /\ remaining[c] + Cardinality(Settled(c)) = Bought[c] /\ remaining[c] \in Nat
            /\ Cardinality(Settled(c)) \in Nat
        BY <2>1, <2>4, <3>1, SettledTyped DEF DrawnIsSettled, CampaignTypeOK
      <3>4. Bought[c] \in Nat
        BY <2>4, TenderAssumption
      <3>5. Bought[c] - remaining[c] = Cardinality(Settled(c))
        BY <3>3, <3>4
      <3>6. QED
        BY <3>2, <3>5
    <2>5. QED
      BY <2>2, <2>3, <2>4 DEF KickbackIsEarned, Served, Quiet
  <1>2. QED
    BY <1>1, EarnedInductive, PTL

-----------------------------------------------------------------------------
(* The sweep ledger.  The argument is the wallet's hold: it is pending     *)
(* from the reservation on, and only the sweep that made it can end it.    *)

OnRail(s) == sweep[s] \in {"settling", "failed"}

HoldInv ==
  /\ hold \in [Wallets -> {"none", "pending", "paid"}]
  /\ sweep \in [Sweeps -> {"idle", "settling", "swept", "nothing", "failed"}]
  /\ \A s \in Sweeps : OnRail(s) => hold[WalletOf[s]] = "pending"
  /\ UnknownIsNotRetried

LEMMA HoldInit == SweepInit => HoldInv
  BY SweepAssumption DEF SweepInit, HoldInv, OnRail, UnknownIsNotRetried

LEMMA StartSweepKeeps ==
  ASSUME NEW s \in Sweeps, HoldInv, StartSweep(s)
  PROVE  HoldInv'
  <1> DEFINE w == WalletOf[s]
  <1>1. w \in Wallets
    BY SweepAssumption
  <1>2. CASE Reserve(s)
    <2>1. /\ sweep[s] = "idle" /\ hold[w] # "pending"
          /\ hold' = [hold EXCEPT ![w] = "pending"]
          /\ sweep' = [sweep EXCEPT ![s] = "settling"]
      BY <1>2 DEF Reserve, StartSweep
    <2>2. \A t \in Sweeps : OnRail(t) => WalletOf[t] # w
      BY <2>1 DEF HoldInv
    <2>3. QED
      BY <1>1, <2>1, <2>2, SweepAssumption DEF HoldInv, OnRail, UnknownIsNotRetried
  <1>3. CASE NothingToSweep(s)
    <2>1. sweep[s] = "idle" /\ hold' = hold /\ sweep' = [sweep EXCEPT ![s] = "nothing"]
      BY <1>3 DEF NothingToSweep, StartSweep
    <2>2. QED
      BY <2>1, SweepAssumption DEF HoldInv, OnRail, UnknownIsNotRetried
  <1>4. QED
    BY <1>2, <1>3 DEF StartSweep

LEMMA ConfirmKeeps ==
  ASSUME NEW s \in Sweeps, HoldInv, Confirm(s)
  PROVE  HoldInv'
  <1> DEFINE w == WalletOf[s]
  <1>1. /\ sweep[s] = "settling"
        /\ hold' = [hold EXCEPT ![w] = "paid"]
        /\ sweep' = [sweep EXCEPT ![s] = "swept"]
    BY DEF Confirm
  <1>2. \A t \in Sweeps \ {s} : OnRail(t) => WalletOf[t] # w
    BY <1>1 DEF HoldInv, OnRail, UnknownIsNotRetried
  <1>3. w \in Wallets /\ \A t \in Sweeps : WalletOf[t] \in Wallets
    BY SweepAssumption
  <1>4. QED
    BY <1>1, <1>2, <1>3 DEF HoldInv, OnRail, UnknownIsNotRetried

LEMMA RailThrowsKeeps ==
  ASSUME NEW s \in Sweeps, HoldInv, RailThrows(s)
  PROVE  HoldInv'
  BY SweepAssumption DEF RailThrows, HoldInv, OnRail, UnknownIsNotRetried

(* A wallet's hold is owned by one sweep at most (sweepCredits).           *)
THEOREM HoldInductive == SweepSpec => []HoldInv
  <1>1. HoldInv /\ [SweepNext]_sweepVars => HoldInv'
    <2> SUFFICES ASSUME HoldInv, [SweepNext]_sweepVars PROVE HoldInv'
      OBVIOUS
    <2>1. ASSUME UNCHANGED <<hold, sweep>> PROVE HoldInv'
      BY <2>1 DEF HoldInv, OnRail, UnknownIsNotRetried
    <2>2. ASSUME NEW c \in Credits, Book(c) PROVE HoldInv'
      BY <2>1, <2>2 DEF Book
    <2>3. ASSUME NEW p \in Spends, Spend(p) PROVE HoldInv'
      BY <2>1, <2>3 DEF Spend
    <2>4. ASSUME NEW s \in Sweeps, Transfer(s) PROVE HoldInv'
      BY <2>1, <2>4 DEF Transfer
    <2>5. CASE UNCHANGED sweepVars
      BY <2>1, <2>5 DEF sweepVars
    <2>6. QED
      BY <2>2, <2>3, <2>4, <2>5, StartSweepKeeps, ConfirmKeeps, RailThrowsKeeps DEF SweepNext
  <1>2. QED
    BY <1>1, HoldInit, PTL DEF SweepSpec

(* A wallet's transfer whose outcome is unknown is never followed by       *)
(* another, for any number of wallets, sweeps, spends and credits.         *)
THEOREM NeverRetried == SweepSpec => []UnknownIsNotRetried
  <1>1. HoldInv => UnknownIsNotRetried
    BY DEF HoldInv
  <1>2. QED
    BY <1>1, HoldInductive, PTL

-----------------------------------------------------------------------------
(* Credits are conserved.  What an entry loses depends on all those before *)
(* it, and the sum of what they lose is what was asked for: that is shown  *)
(* entry by entry, in the order in which consume takes them.               *)

Smaller(a, b) == IF a <= b THEN a ELSE b
Larger(a, b)  == IF a <= b THEN b ELSE a
Older(E, i)   == {j \in E : j < i}

LEMMA LeastOfTwo ==
  ASSUME NEW a \in Int, NEW b \in Int
  PROVE  Min({a, b}) = Smaller(a, b) /\ Max({a, b}) = Larger(a, b)
  <1>1. Smaller(a, b) \in {a, b} /\ \A y \in {a, b} : Smaller(a, b) <= y
    BY DEF Smaller
  <1>2. Larger(a, b) \in {a, b} /\ \A y \in {a, b} : Larger(a, b) >= y
    BY DEF Larger
  <1>3. \A x \in {a, b} : (\A y \in {a, b} : x <= y) => x = Smaller(a, b)
    BY DEF Smaller
  <1>4. \A x \in {a, b} : (\A y \in {a, b} : x >= y) => x = Larger(a, b)
    BY DEF Larger
  <1>5. Min({a, b}) = Smaller(a, b)
    BY <1>1, <1>3 DEF Min
  <1>6. QED
    BY <1>2, <1>4, <1>5 DEF Max

(* Takers that come one after the other, each of what those before it have *)
(* left to take, take together what is asked for, or all there is.         *)
LEMMA OldestFirst ==
  ASSUME NEW k \in Nat, NEW E \in SUBSET (1 .. k), NEW u, NEW t, NEW usd \in Nat,
         \A i \in E : u[i] \in Nat,
         \A i \in E : t[i] = Smaller(u[i], Larger(usd - SumFunctionOnSet(u, Older(E, i)), 0))
  PROVE  /\ \A i \in E : t[i] \in Nat /\ t[i] <= u[i]
         /\ SumFunctionOnSet(t, E) = Smaller(usd, SumFunctionOnSet(u, E))
  <1> DEFINE Before(n) == Older(E, n)
             T == {n \in Nat : SumFunctionOnSet(t, Before(n))
                                 = Smaller(usd, SumFunctionOnSet(u, Before(n)))}
  <1>1. IsFiniteSet(E) /\ \A n \in Nat : IsFiniteSet(Before(n)) /\ Before(n) \subseteq E
    <2>1. IsFiniteSet(1 .. k)
      BY FS_Interval
    <2>2. IsFiniteSet(E) /\ \A n \in Nat : Before(n) \subseteq E
      BY <2>1, FS_Subset DEF Older
    <2> HIDE DEF Before
    <2>3. QED
      BY <2>2, FS_Subset
  <1>2. \A n \in Nat : SumFunctionOnSet(u, Before(n)) \in Nat
    <2> SUFFICES ASSUME NEW n \in Nat PROVE SumFunctionOnSet(u, Before(n)) \in Nat
      OBVIOUS
    <2>1. IsFiniteSet(Before(n)) /\ \A i \in Before(n) : u[i] \in Nat
      BY <1>1
    <2> HIDE DEF Before
    <2>2. QED
      BY <2>1, SumOfNats
  <1>3. \A i \in E : t[i] = Smaller(u[i], Larger(usd - SumFunctionOnSet(u, Before(i)), 0))
    OBVIOUS
  <1>4. \A i \in E : i \in Nat
    OBVIOUS
  <1>5. Before(0) = {} /\ Before(k + 1) = E
    <2>1. \A j \in E : ~(j < 0) /\ j < k + 1
      OBVIOUS
    <2>2. QED
      BY <2>1 DEF Older
  <1>6. \A n \in Nat : Before(n + 1) = IF n \in E THEN Before(n) \cup {n} ELSE Before(n)
    <2> SUFFICES ASSUME NEW n \in Nat
                 PROVE  Before(n + 1) = IF n \in E THEN Before(n) \cup {n} ELSE Before(n)
      OBVIOUS
    <2>1. \A j \in E : j < n + 1 <=> (j < n \/ j = n)
      OBVIOUS
    <2>2. QED
      BY <2>1 DEF Older
  <1>7. \A n \in Nat : n \notin Before(n)
    BY DEF Older
  <1> HIDE DEF Before
  <1>8. \A i \in E : t[i] \in Nat /\ t[i] <= u[i]
    BY <1>2, <1>3, <1>4 DEF Smaller, Larger
  <1>9. 0 \in T
    <2>1. SumFunctionOnSet(t, Before(0)) = 0 /\ SumFunctionOnSet(u, Before(0)) = 0
      BY <1>5, SumOfNone
    <2>2. QED
      BY <2>1 DEF Smaller
  <1>10. ASSUME NEW n \in Nat, n \in T PROVE n + 1 \in T
    <2>1. CASE n \notin E
      <3>1. Before(n + 1) = Before(n)
        BY <1>6, <2>1
      <3>2. SumFunctionOnSet(t, Before(n)) = Smaller(usd, SumFunctionOnSet(u, Before(n)))
        BY <1>10
      <3>3. QED
        BY <3>1, <3>2
    <2>2. CASE n \in E
      <3> DEFINE U == SumFunctionOnSet(u, Before(n))
                 V == SumFunctionOnSet(t, Before(n))
                 U1 == SumFunctionOnSet(u, Before(n + 1))
                 V1 == SumFunctionOnSet(t, Before(n + 1))
                 a == u[n]
                 b == t[n]
      <3>1. IsFiniteSet(Before(n)) /\ n \notin Before(n) /\ Before(n + 1) = Before(n) \cup {n}
        BY <1>1, <1>6, <1>7, <2>2
      <3>2. /\ \A i \in Before(n) : u[i] \in Int /\ t[i] \in Int
            /\ u[n] \in Int /\ t[n] \in Int
        <4>1. \A i \in E : u[i] \in Int /\ t[i] \in Int
          BY <1>8
        <4>2. Before(n) \subseteq E
          BY <1>1
        <4>3. QED
          BY <2>2, <4>1, <4>2
      <3>3. U1 = U + a
        BY <3>1, <3>2, SumWith
      <3>4. V1 = V + b
        BY <3>1, <3>2, SumWith
      <3>5. a \in Nat /\ b = Smaller(a, Larger(usd - U, 0)) /\ U \in Nat /\ V = Smaller(usd, U)
        BY <1>2, <1>3, <1>10, <2>2
      <3> HIDE DEF U, V, U1, V1, a, b
      <3>6. V1 = Smaller(usd, U1)
        BY <3>3, <3>4, <3>5 DEF Smaller, Larger
      <3>7. QED
        BY <3>6 DEF U1, V1
    <2>3. QED
      BY <2>1, <2>2
  <1>11. k + 1 \in T
    <2> HIDE DEF T
    <2> QED
      BY <1>9, <1>10, NatSetInduction
  <1>12. QED
    BY <1>5, <1>8, <1>11
-----------------------------------------------------------------------------

Rows == Seq([wallet : Wallets, usd : Nat])

LEMMA SeqMembers ==
  ASSUME NEW S, NEW q \in Seq(S)
  PROVE  Len(q) \in Nat /\ DOMAIN q = 1 .. Len(q) /\ \A i \in DOMAIN q : q[i] \in S
  OBVIOUS

LEMMA SeqOfMembers ==
  ASSUME NEW S, NEW k \in Nat, NEW q, q = [i \in 1 .. k |-> q[i]], \A i \in 1 .. k : q[i] \in S
  PROVE  q \in Seq(S)
  OBVIOUS

LEMMA LedgerTyped ==
  ASSUME ledger \in Rows
  PROVE  /\ Len(ledger) \in Nat /\ DOMAIN ledger = 1 .. Len(ledger)
         /\ \A i \in DOMAIN ledger : ledger[i] \in [wallet : Wallets, usd : Nat]
         /\ \A w : /\ Entries(w) \in SUBSET (1 .. Len(ledger))
                   /\ IsFiniteSet(Entries(w))
                   /\ \A i \in Entries(w) : ledger[i].usd \in Nat
                   /\ LedgerBalance(w) \in Nat
  <1>1. Len(ledger) \in Nat /\ DOMAIN ledger = 1 .. Len(ledger)
    BY SeqMembers DEF Rows
  <1>2. \A i \in DOMAIN ledger : ledger[i] \in [wallet : Wallets, usd : Nat]
    BY Zenon, SeqMembers DEF Rows
  <1>3. ASSUME NEW w
        PROVE  /\ Entries(w) \in SUBSET (1 .. Len(ledger))
               /\ IsFiniteSet(Entries(w))
               /\ \A i \in Entries(w) : ledger[i].usd \in Nat
               /\ LedgerBalance(w) \in Nat
    <2>1. Entries(w) \in SUBSET (1 .. Len(ledger)) /\ \A i \in Entries(w) : ledger[i].usd \in Nat
      BY <1>1, <1>2 DEF Entries
    <2>2. IsFiniteSet(1 .. Len(ledger))
      BY <1>1, FS_Interval
    <2>3. IsFiniteSet(Entries(w))
      BY <2>1, <2>2, FS_Subset
    <2> DEFINE u == [i \in DOMAIN ledger |-> ledger[i].usd]
    <2>4. \A i \in Entries(w) : u[i] \in Nat
      BY <1>1, <2>1
    <2> HIDE DEF u
    <2>5. SumFunctionOnSet(u, Entries(w)) \in Nat
      BY <2>3, <2>4, SumOfNats
    <2>6. QED
      BY <2>1, <2>3, <2>5 DEF LedgerBalance, Unswept, u
  <1>4. QED
    BY <1>1, <1>2, <1>3

(* What is consumed of a wallet is what is asked for, or all it has.       *)
LEMMA ConsumeTakes ==
  ASSUME ledger \in Rows, NEW w, NEW usd \in Nat, Consume(w, usd)
  PROVE  /\ ledger' \in Rows
         /\ LedgerBalance(w)' = LedgerBalance(w) - Smaller(usd, LedgerBalance(w))
         /\ \A v \in Wallets : v # w => LedgerBalance(v)' = LedgerBalance(v)
  <1> DEFINE E == Entries(w)
             u == [i \in DOMAIN ledger |-> ledger[i].usd]
             n == [i \in DOMAIN ledger' |-> ledger'[i].usd]
             t == [i \in E |-> Taken(i, w, usd)]
             less == [i \in E |-> 0 - t[i]]
  <1>1. /\ Len(ledger) \in Nat /\ DOMAIN ledger = 1 .. Len(ledger)
        /\ E \in SUBSET (1 .. Len(ledger)) /\ IsFiniteSet(E)
        /\ \A i \in DOMAIN ledger : ledger[i] \in [wallet : Wallets, usd : Nat]
    BY LedgerTyped
  <1>2. \A i \in DOMAIN ledger : u[i] \in Nat
    BY <1>1
  <1>3. \A i \in E :
          t[i] = Smaller(u[i], Larger(usd - SumFunctionOnSet(u, Older(E, i)), 0))
    <2> SUFFICES ASSUME NEW i \in E
                 PROVE  t[i] = Smaller(u[i], Larger(usd - SumFunctionOnSet(u, Older(E, i)), 0))
      OBVIOUS
    <2> DEFINE B == Older(E, i)
               d == usd - SumFunctionOnSet(u, B)
    <2>1. IsFiniteSet(B) /\ \A j \in B : u[j] \in Nat
      BY <1>1, <1>2, FS_Subset DEF Older
    <2>2. SumFunctionOnSet(u, B) \in Nat
      <3> HIDE DEF B, u
      <3> QED
        BY <2>1, SumOfNats
    <2>3. d \in Int /\ u[i] \in Int
      BY <1>1, <1>2, <2>2
    <2>4. t[i] = Min({u[i], Max({d, 0})})
      BY <1>1 DEF Taken, Unswept, Older
    <2> HIDE DEF d, u, t
    <2>5. Max({d, 0}) = Larger(d, 0) /\ Larger(d, 0) \in Int
      BY <2>3, LeastOfTwo DEF Larger
    <2>6. t[i] = Smaller(u[i], Larger(d, 0))
      BY <2>3, <2>4, <2>5, LeastOfTwo
    <2>7. QED
      BY <2>6 DEF d
  <1>4. /\ \A i \in E : t[i] \in Nat /\ t[i] <= u[i]
        /\ SumFunctionOnSet(t, E) = Smaller(usd, SumFunctionOnSet(u, E))
    <2>1. \A i \in E : u[i] \in Nat
      BY <1>1, <1>2
    <2> DEFINE k == Len(ledger)
    <2>2. k \in Nat /\ E \in SUBSET (1 .. k)
      BY <1>1
    <2> HIDE DEF u, t, E, k
    <2>3. QED
      BY <1>3, <2>1, <2>2, OldestFirst, ZenonT(60)
  <1>5. /\ DOMAIN ledger' = DOMAIN ledger
        /\ \A i \in DOMAIN ledger :
             /\ ledger'[i].wallet = ledger[i].wallet
             /\ i \in E => ledger'[i] = [ledger[i] EXCEPT !.usd = ledger[i].usd - t[i]]
             /\ i \notin E => ledger'[i] = ledger[i]
    BY <1>1 DEF Consume
  <1>6. \A i \in DOMAIN ledger :
          /\ ledger'[i] \in [wallet : Wallets, usd : Nat]
          /\ i \in E => ledger'[i].usd = u[i] - t[i]
          /\ i \notin E => ledger'[i].usd = u[i]
    <2> SUFFICES ASSUME NEW i \in DOMAIN ledger
                 PROVE  /\ ledger'[i] \in [wallet : Wallets, usd : Nat]
                        /\ i \in E => ledger'[i].usd = u[i] - t[i]
                        /\ i \notin E => ledger'[i].usd = u[i]
      OBVIOUS
    <2>1. ledger[i] \in [wallet : Wallets, usd : Nat] /\ u[i] = ledger[i].usd
      BY <1>1
    <2> HIDE DEF u, t
    <2>2. CASE i \in E
      <3>1. t[i] \in Nat /\ t[i] <= u[i] /\ u[i] \in Nat
        BY <1>4, <2>1, <2>2
      <3>2. u[i] - t[i] \in Nat
        BY <3>1
      <3>3. QED
        BY <1>5, <2>1, <2>2, <3>2
    <2>3. CASE i \notin E
      BY <1>5, <2>1, <2>3
    <2>4. QED
      BY <2>2, <2>3
  <1>7. ledger' \in Rows
    <2>1. ledger' = [i \in 1 .. Len(ledger) |-> ledger'[i]]
      BY <1>1 DEF Consume
    <2>2. QED
      BY Zenon, <1>1, <1>6, <2>1, SeqOfMembers DEF Rows
  <1>8. \A v : Entries(v)' = Entries(v)
    BY <1>5 DEF Entries
  <1>9. LedgerBalance(w) = SumFunctionOnSet(u, E) /\ LedgerBalance(w)' = SumFunctionOnSet(n, E)
    BY <1>8 DEF LedgerBalance, Unswept
  <1>10. SumFunctionOnSet(n, E) = SumFunctionOnSet(u, E) - SumFunctionOnSet(t, E)
    <2>1. \A i \in E : u[i] \in Int /\ t[i] \in Int /\ n[i] \in Int /\ u[i] = n[i] + t[i]
      <3>1. \A i \in E : u[i] \in Nat /\ t[i] \in Nat /\ n[i] = u[i] - t[i]
        <4>1. \A i \in E : i \in DOMAIN ledger /\ n[i] = ledger'[i].usd
          BY <1>1, <1>5
        <4> HIDE DEF u, t, n, E
        <4>2. QED
          BY <1>2, <1>4, <1>6, <4>1
      <3> HIDE DEF u, t, n, E
      <3>2. QED
        BY <3>1
    <2>f. IsFiniteSet(E)
      BY <1>1
    <2> HIDE DEF u, t, n, E
    <2>2. SumFunctionOnSet(u, E) = SumFunctionOnSet(n, E) + SumFunctionOnSet(t, E)
      BY <2>f, <2>1, SumOfBoth
    <2>3. SumFunctionOnSet(n, E) \in Int /\ SumFunctionOnSet(t, E) \in Int
      BY <1>1, <2>1, SumOfIntegers
    <2>4. QED
      BY <2>2, <2>3
  <1>11. LedgerBalance(w)' = LedgerBalance(w) - Smaller(usd, LedgerBalance(w))
    BY <1>4, <1>9, <1>10
  <1>12. ASSUME NEW v \in Wallets, v # w PROVE LedgerBalance(v)' = LedgerBalance(v)
    <2>1. IsFiniteSet(Entries(v)) /\ \A i \in Entries(v) : i \in DOMAIN ledger /\ i \notin E
      BY <1>12, LedgerTyped DEF Entries
    <2>2. \A i \in Entries(v) : u[i] = n[i]
      BY <1>5, <2>1
    <2>3. SumFunctionOnSet(u, Entries(v)) = SumFunctionOnSet(n, Entries(v))
      <3> HIDE DEF u, n
      <3> QED
        BY <2>1, <2>2, SumSame
    <2>4. QED
      BY <1>8, <2>3 DEF LedgerBalance, Unswept
  <1>13. QED
    BY <1>7, <1>11, <1>12
-----------------------------------------------------------------------------

(* What a wallet was credited, what its sweeps reserved and what its       *)
(* spends netted.                                                          *)
CreditedTo(w) == SumFunctionOnSet(CreditUsd, {c \in booked : WalletOf[c] = w})
SweptFrom(w)  == SumFunctionOnSet(reserved, {s \in Sweeps : WalletOf[s] = w})
NettedBy(w)   == SumFunctionOnSet(netted, {p \in Spends : WalletOf[p] = w /\ netted[p] # -1})

(* A sweep that has not started has nothing reserved.                      *)
SweepInv ==
  /\ SweepTypeOK
  /\ \A s \in Sweeps : sweep[s] = "idle" => reserved[s] = 0
  /\ CreditsConserved

LEMMA SweepSumsTyped ==
  ASSUME SweepTypeOK, NEW w \in Wallets
  PROVE  /\ CreditedTo(w) \in Nat /\ SweptFrom(w) \in Nat /\ NettedBy(w) \in Nat
         /\ LedgerBalance(w) \in Nat
  <1> DEFINE C == {c \in booked : WalletOf[c] = w}
             S == {s \in Sweeps : WalletOf[s] = w}
             P == {p \in Spends : WalletOf[p] = w /\ netted[p] # -1}
  <1>1. IsFiniteSet(C) /\ IsFiniteSet(S) /\ IsFiniteSet(P)
    BY SweepAssumption, FS_Subset DEF SweepTypeOK
  <1>2. /\ \A c \in C : CreditUsd[c] \in Nat
        /\ \A s \in S : reserved[s] \in Nat
        /\ \A p \in P : netted[p] \in Nat
    BY SweepAssumption DEF SweepTypeOK
  <1>3. ledger \in Rows
    BY DEF SweepTypeOK, Rows
  <1> HIDE DEF C, S, P
  <1>4. /\ SumFunctionOnSet(CreditUsd, C) \in Nat
        /\ SumFunctionOnSet(reserved, S) \in Nat
        /\ SumFunctionOnSet(netted, P) \in Nat
    BY <1>1, <1>2, SumOfNats
  <1>5. QED
    BY <1>3, <1>4, LedgerTyped DEF C, S, P, CreditedTo, SweptFrom, NettedBy

LEMMA SweepInvInit == SweepInit => SweepInv
  <1> SUFFICES ASSUME SweepInit PROVE SweepInv
    OBVIOUS
  <1>1. SweepTypeOK
    BY SweepAssumption DEF SweepInit, SweepTypeOK
  <1>2. ASSUME NEW w \in Wallets
        PROVE  CreditedTo(w) = LedgerBalance(w) + SweptFrom(w) + NettedBy(w)
    <2> DEFINE S == {s \in Sweeps : WalletOf[s] = w}
    <2>1. /\ {c \in booked : WalletOf[c] = w} = {}
          /\ Entries(w) = {}
          /\ {p \in Spends : WalletOf[p] = w /\ netted[p] # -1} = {}
      BY DEF SweepInit, Entries
    <2>2. IsFiniteSet(S) /\ \A s \in S : reserved[s] = 0
      BY SweepAssumption, FS_Subset DEF SweepInit
    <2>3. SumFunctionOnSet(reserved, S) = 0
      <3> HIDE DEF S
      <3> QED
        BY <2>2, SumOfZeros
    <2>4. CreditedTo(w) = 0 /\ LedgerBalance(w) = 0 /\ SweptFrom(w) = 0 /\ NettedBy(w) = 0
      BY <2>1, <2>3, SumOfNone DEF CreditedTo, LedgerBalance, Unswept, SweptFrom, NettedBy
    <2>5. QED
      BY <2>4
  <1>3. CreditsConserved
    BY <1>2 DEF CreditsConserved, CreditedTo, SweptFrom, NettedBy
  <1>4. \A s \in Sweeps : sweep[s] = "idle" => reserved[s] = 0
    BY DEF SweepInit
  <1>5. QED
    BY <1>1, <1>3, <1>4 DEF SweepInv

(* A credit that accrues is in its wallet's balance.                       *)
LEMMA BookKeeps ==
  ASSUME NEW c \in Credits, SweepInv, Book(c)
  PROVE  SweepInv'
  <1> DEFINE w == WalletOf[c]
             k == Len(ledger) + 1
             u == [i \in DOMAIN ledger |-> ledger[i].usd]
             n == [i \in DOMAIN ledger' |-> ledger'[i].usd]
             row == [wallet |-> WalletOf[c], usd |-> CreditUsd[c]]
  <1>1. /\ SweepTypeOK /\ ledger \in Rows /\ w \in Wallets /\ CreditUsd[c] \in Nat
        /\ row \in [wallet : Wallets, usd : Nat]
    BY SweepAssumption DEF SweepInv, SweepTypeOK, Rows
  <1>2. ledger' \in Rows
    <2>1. ledger' = Append(ledger, row)
      BY DEF Book
    <2> HIDE DEF row
    <2>2. QED
      BY <1>1, <2>1 DEF Rows
  <1>3. /\ DOMAIN ledger = 1 .. Len(ledger) /\ Len(ledger) \in Nat
        /\ DOMAIN ledger' = 1 .. k
        /\ \A i \in DOMAIN ledger : ledger'[i] = ledger[i]
        /\ ledger'[k] = row
    <2>1. ledger' = Append(ledger, row) /\ DOMAIN ledger = 1 .. Len(ledger) /\ Len(ledger) \in Nat
      BY <1>1, LedgerTyped DEF Book
    <2> HIDE DEF row
    <2>2. QED
      BY <2>1
  <1>4. UNCHANGED <<sweep, reserved, netted>> /\ booked' = booked \cup {c} /\ c \notin booked
    BY DEF Book
  <1>5. SweepTypeOK'
    BY <1>1, <1>2, <1>4 DEF SweepTypeOK, Rows, Book
  <1>6. ASSUME NEW v \in Wallets
        PROVE  CreditedTo(v)' = LedgerBalance(v)' + SweptFrom(v)' + NettedBy(v)'
    <2> DEFINE B == {b \in booked : WalletOf[b] = v}
    <2>1. SweptFrom(v)' = SweptFrom(v) /\ NettedBy(v)' = NettedBy(v)
      BY <1>4 DEF SweptFrom, NettedBy
    <2>2. CreditedTo(v) = LedgerBalance(v) + SweptFrom(v) + NettedBy(v)
      BY DEF SweepInv, CreditsConserved, CreditedTo, SweptFrom, NettedBy
    <2>3. /\ CreditedTo(v) \in Nat /\ SweptFrom(v) \in Nat /\ NettedBy(v) \in Nat
          /\ LedgerBalance(v) \in Nat
      BY <1>1, SweepSumsTyped
    <2>4. /\ IsFiniteSet(B) /\ \A b \in B : CreditUsd[b] \in Int
          /\ IsFiniteSet(Entries(v)) /\ \A i \in Entries(v) : u[i] \in Int
          /\ \A i \in Entries(v) : u[i] = n[i] /\ n[i] \in Int
      <3>1. B \subseteq Credits
        BY <1>1 DEF SweepTypeOK
      <3>2. IsFiniteSet(B) /\ \A b \in B : CreditUsd[b] \in Int
        BY <3>1, SweepAssumption, FS_Subset
      <3>3. IsFiniteSet(Entries(v)) /\ \A i \in Entries(v) : i \in DOMAIN ledger /\ ledger[i].usd \in Nat
        BY <1>1, LedgerTyped DEF Entries
      <3>4. \A i \in DOMAIN ledger : i \in DOMAIN ledger' /\ n[i] = ledger[i].usd
        BY <1>3
      <3> HIDE DEF n
      <3>5. QED
        BY <3>2, <3>3, <3>4
    <2>5. /\ LedgerBalance(v) = SumFunctionOnSet(u, Entries(v))
          /\ LedgerBalance(v)' = SumFunctionOnSet(n, Entries(v)')
          /\ CreditedTo(v) = SumFunctionOnSet(CreditUsd, B)
      BY DEF LedgerBalance, Unswept, CreditedTo
    <2>6. SumFunctionOnSet(n, Entries(v)) = SumFunctionOnSet(u, Entries(v))
      <3> HIDE DEF u, n
      <3> QED
        BY <2>4, SumSame
    <2>7. CASE v = w
      <3>1. Entries(v)' = Entries(v) \cup {k} /\ k \notin Entries(v) /\ n[k] = CreditUsd[c]
        <4>1. /\ k \in DOMAIN ledger' /\ DOMAIN ledger' = DOMAIN ledger \cup {k}
              /\ k \notin DOMAIN ledger
          BY <1>3
        <4>2. row.wallet = v /\ row.usd = CreditUsd[c]
          BY <2>7
        <4> HIDE DEF k, row
        <4>3. QED
          BY <1>3, <4>1, <4>2 DEF Entries
      <3>2. CreditedTo(v)' = SumFunctionOnSet(CreditUsd, B \cup {c}) /\ c \notin B
        <4>1. {b \in booked' : WalletOf[b] = v} = B \cup {c} /\ c \notin B
          BY <1>4, <2>7
        <4>2. QED
          BY <4>1 DEF CreditedTo
      <3> HIDE DEF u, n, B, k, w
      <3>3. CreditedTo(v)' = CreditedTo(v) + CreditUsd[c]
        BY <1>1, <2>4, <2>5, <3>2, SumWith
      <3>4. LedgerBalance(v)' = LedgerBalance(v) + CreditUsd[c]
        BY <1>1, <2>4, <2>5, <2>6, <3>1, SumWith
      <3>5. QED
        BY <1>1, <2>1, <2>2, <2>3, <3>3, <3>4
    <2>8. CASE v # w
      <3>1. Entries(v)' = Entries(v)
        <4>1. DOMAIN ledger' = DOMAIN ledger \cup {k} /\ row.wallet # v
          BY <1>3, <2>8
        <4> HIDE DEF k, row
        <4>2. QED
          BY <1>3, <4>1 DEF Entries
      <3>2. {b \in booked' : WalletOf[b] = v} = B
        BY <1>4, <2>8
      <3>3. CreditedTo(v)' = CreditedTo(v) /\ LedgerBalance(v)' = LedgerBalance(v)
        BY <2>5, <2>6, <3>1, <3>2 DEF CreditedTo
      <3>4. QED
        BY <2>1, <2>2, <3>3
    <2>9. QED
      BY <2>7, <2>8
  <1>7. CreditsConserved'
    BY <1>6 DEF CreditsConserved, CreditedTo, SweptFrom, NettedBy
  <1>8. QED
    BY <1>4, <1>5, <1>7 DEF SweepInv

(* What a spend nets has left its wallet's balance.                        *)
LEMMA SpendKeeps ==
  ASSUME NEW p \in Spends, SweepInv, Spend(p)
  PROVE  SweepInv'
  <1> DEFINE w == WalletOf[p]
             least == Smaller(SpendUsd, LedgerBalance(w))
  <1>1. SweepTypeOK /\ ledger \in Rows /\ w \in Wallets /\ SpendUsd \in Nat
    BY SweepAssumption DEF SweepInv, SweepTypeOK, Rows
  <1>2. LedgerBalance(w) \in Nat /\ least \in Nat
    BY <1>1, LedgerTyped DEF Smaller
  <1>3. /\ ledger' \in Rows
        /\ LedgerBalance(w)' = LedgerBalance(w) - least
        /\ \A v \in Wallets : v # w => LedgerBalance(v)' = LedgerBalance(v)
    BY <1>1, ConsumeTakes DEF Spend
  <1>4. netted[p] = -1 /\ netted' = [netted EXCEPT ![p] = least]
    <2>1. Min({SpendUsd, LedgerBalance(w)}) = least
      BY <1>1, <1>2, LeastOfTwo
    <2>2. QED
      BY <2>1 DEF Spend
  <1>5. UNCHANGED <<hold, sweep, reserved, paidOut, booked>>
    BY DEF Spend
  <1> HIDE DEF least
  <1>6. SweepTypeOK'
    BY <1>1, <1>2, <1>3, <1>4, <1>5 DEF SweepTypeOK, Rows
  <1>7. ASSUME NEW v \in Wallets
        PROVE  CreditedTo(v)' = LedgerBalance(v)' + SweptFrom(v)' + NettedBy(v)'
    <2> DEFINE P == {q \in Spends : WalletOf[q] = v /\ netted[q] # -1}
               now == netted'
    <2>1. CreditedTo(v)' = CreditedTo(v) /\ SweptFrom(v)' = SweptFrom(v)
      BY <1>5 DEF CreditedTo, SweptFrom
    <2>2. CreditedTo(v) = LedgerBalance(v) + SweptFrom(v) + NettedBy(v)
      BY DEF SweepInv, CreditsConserved, CreditedTo, SweptFrom, NettedBy
    <2>3. /\ CreditedTo(v) \in Nat /\ SweptFrom(v) \in Nat /\ NettedBy(v) \in Nat
          /\ LedgerBalance(v) \in Nat
      BY <1>1, SweepSumsTyped
    <2>4. IsFiniteSet(P) /\ p \notin P /\ \A q \in P : netted[q] \in Nat /\ now[q] = netted[q]
      <3>1. IsFiniteSet(P)
        BY SweepAssumption, FS_Subset
      <3>2. QED
        BY <1>1, <1>4, <3>1 DEF SweepTypeOK
    <2>5. now[p] = least
      BY <1>1, <1>4 DEF SweepTypeOK
    <2>6. SumFunctionOnSet(now, P) = NettedBy(v)
      <3>1. NettedBy(v) = SumFunctionOnSet(netted, P)
        BY DEF NettedBy
      <3> HIDE DEF P, now
      <3>2. QED
        BY <2>4, <3>1, SumSame
    <2>7. CASE v = w
      <3>1. NettedBy(v)' = SumFunctionOnSet(now, P \cup {p})
        <4>1. {q \in Spends : WalletOf[q] = v /\ netted'[q] # -1} = P \cup {p}
          BY <1>1, <1>2, <1>4, <2>7 DEF SweepTypeOK
        <4>2. QED
          BY <4>1 DEF NettedBy
      <3>2. \A q \in P : now[q] \in Int
        BY <2>4
      <3> HIDE DEF P, now, w
      <3>3. NettedBy(v)' = NettedBy(v) + least
        BY <1>2, <2>4, <2>5, <2>6, <3>1, <3>2, SumWith
      <3>4. LedgerBalance(v)' = LedgerBalance(v) - least
        BY <1>3, <2>7
      <3>5. QED
        BY <1>2, <2>1, <2>2, <2>3, <3>3, <3>4
    <2>8. CASE v # w
      <3>1. {q \in Spends : WalletOf[q] = v /\ netted'[q] # -1} = P
        BY <1>1, <1>4, <2>8 DEF SweepTypeOK
      <3>2. NettedBy(v)' = NettedBy(v)
        BY <2>6, <3>1 DEF NettedBy
      <3>3. QED
        BY <1>3, <2>1, <2>2, <2>8, <3>2
    <2>9. QED
      BY <2>7, <2>8
  <1>8. CreditsConserved'
    BY <1>7 DEF CreditsConserved, CreditedTo, SweptFrom, NettedBy
  <1>9. QED
    BY <1>5, <1>6, <1>8 DEF SweepInv

(* A reservation is all its wallet has: the balance is empty after it.     *)
LEMMA ReserveKeeps ==
  ASSUME NEW s \in Sweeps, SweepInv, sweep[s] = "idle", Reserve(s),
         UNCHANGED <<paidOut, booked, netted>>
  PROVE  SweepInv'
  <1> DEFINE w == WalletOf[s]
             had == LedgerBalance(w)
  <1>1. SweepTypeOK /\ ledger \in Rows /\ w \in Wallets /\ reserved[s] = 0
    BY SweepAssumption DEF SweepInv, SweepTypeOK, Rows
  <1>2. had \in Nat
    BY <1>1, LedgerTyped
  <1>3. /\ ledger' \in Rows
        /\ LedgerBalance(w)' = 0
        /\ \A v \in Wallets : v # w => LedgerBalance(v)' = LedgerBalance(v)
    <2>1. Consume(w, had)
      BY DEF Reserve
    <2>2. /\ ledger' \in Rows
          /\ LedgerBalance(w)' = had - Smaller(had, had)
          /\ \A v \in Wallets : v # w => LedgerBalance(v)' = LedgerBalance(v)
      BY <1>1, <1>2, <2>1, ConsumeTakes
    <2> HIDE DEF had
    <2>3. QED
      BY <1>2, <2>2 DEF Smaller
  <1>4. /\ hold' = [hold EXCEPT ![w] = "pending"]
        /\ sweep' = [sweep EXCEPT ![s] = "settling"]
        /\ reserved' = [reserved EXCEPT ![s] = had]
    BY DEF Reserve
  <1> HIDE DEF had
  <1>5. SweepTypeOK'
    BY <1>1, <1>2, <1>3, <1>4 DEF SweepTypeOK, Rows
  <1>6. ASSUME NEW v \in Wallets
        PROVE  CreditedTo(v)' = LedgerBalance(v)' + SweptFrom(v)' + NettedBy(v)'
    <2> DEFINE S == {t \in Sweeps : WalletOf[t] = v}
               now == reserved'
    <2>1. CreditedTo(v)' = CreditedTo(v) /\ NettedBy(v)' = NettedBy(v)
      BY DEF CreditedTo, NettedBy
    <2>2. CreditedTo(v) = LedgerBalance(v) + SweptFrom(v) + NettedBy(v)
      BY DEF SweepInv, CreditsConserved, CreditedTo, SweptFrom, NettedBy
    <2>3. /\ CreditedTo(v) \in Nat /\ SweptFrom(v) \in Nat /\ NettedBy(v) \in Nat
          /\ LedgerBalance(v) \in Nat
      BY <1>1, SweepSumsTyped
    <2>4. SweptFrom(v) = SumFunctionOnSet(reserved, S) /\ SweptFrom(v)' = SumFunctionOnSet(now, S)
      BY DEF SweptFrom
    <2>5. /\ IsFiniteSet(S) /\ \A t \in S : reserved[t] \in Int /\ now[t] \in Int
          /\ \A t \in S \ {s} : now[t] = reserved[t]
      <3>1. IsFiniteSet(S)
        BY SweepAssumption, FS_Subset
      <3>2. QED
        BY <1>1, <1>2, <1>4, <3>1 DEF SweepTypeOK
    <2>6. CASE v = w
      <3>1. s \in S /\ now[s] = had
        BY <1>1, <1>4, <2>6 DEF SweepTypeOK
      <3> HIDE DEF S, now, w
      <3>2. SweptFrom(v)' = SweptFrom(v) - reserved[s] + now[s]
        BY <2>4, <2>5, <3>1, SumChanged
      <3>3. LedgerBalance(v)' = 0 /\ LedgerBalance(v) = had
        BY <1>3, <2>6 DEF had, w
      <3>4. QED
        BY <1>1, <1>2, <2>1, <2>2, <2>3, <3>1, <3>2, <3>3
    <2>7. CASE v # w
      <3>1. \A t \in S : now[t] = reserved[t]
        BY <2>5, <2>7
      <3> HIDE DEF S, now
      <3>2. SweptFrom(v)' = SweptFrom(v)
        BY <2>4, <2>5, <3>1, SumSame
      <3>3. QED
        BY <1>3, <2>1, <2>2, <2>7, <3>2
    <2>8. QED
      BY <2>6, <2>7
  <1>7. CreditsConserved'
    BY <1>6 DEF CreditsConserved, CreditedTo, SweptFrom, NettedBy
  <1>8. \A t \in Sweeps : sweep'[t] = "idle" => reserved'[t] = 0
    BY <1>1, <1>4 DEF SweepInv, SweepTypeOK
  <1>9. QED
    BY <1>5, <1>7, <1>8 DEF SweepInv

(* The other steps of a sweep leave what is owed where it is.              *)
LEMMA OthersKeepCredits ==
  ASSUME SweepInv, SweepTypeOK', UNCHANGED <<ledger, reserved, booked, netted>>,
         \A s \in Sweeps : sweep'[s] = "idle" => sweep[s] = "idle"
  PROVE  SweepInv'
  <1>1. CreditsConserved'
    BY DEF SweepInv, CreditsConserved, LedgerBalance, Unswept, Entries
  <1>2. QED
    BY <1>1 DEF SweepInv

(* The sums of a wallet's credits, spends and sweeps agree at all times.   *)
THEOREM SweepInductive == SweepSpec => []SweepInv
  <1>1. SweepInv /\ [SweepNext]_sweepVars => SweepInv'
    <2> SUFFICES ASSUME SweepInv, [SweepNext]_sweepVars PROVE SweepInv'
      OBVIOUS
    <2> USE SweepAssumption
    <2>1. SweepTypeOK
      BY DEF SweepInv
    <2>2. ASSUME NEW s \in Sweeps, StartSweep(s) PROVE SweepInv'
      <3>1. CASE Reserve(s)
        BY <2>2, <3>1, ReserveKeeps DEF StartSweep
      <3>2. CASE NothingToSweep(s)
        <4>1. /\ sweep' = [sweep EXCEPT ![s] = "nothing"]
              /\ UNCHANGED <<ledger, hold, reserved, paidOut, booked, netted>>
          BY <2>2, <3>2 DEF StartSweep, NothingToSweep
        <4>2. SweepTypeOK'
          BY <2>1, <4>1 DEF SweepTypeOK
        <4>3. QED
          BY <2>1, <4>1, <4>2, OthersKeepCredits DEF SweepTypeOK
      <3>3. QED
        BY <2>2, <3>1, <3>2 DEF StartSweep
    <2>3. ASSUME NEW s \in Sweeps, Transfer(s) PROVE SweepInv'
      <3>1. SweepTypeOK'
        BY <2>1, <2>3 DEF SweepTypeOK, Transfer
      <3>2. QED
        BY <2>3, <3>1, OthersKeepCredits DEF Transfer
    <2>4. ASSUME NEW s \in Sweeps, Confirm(s) PROVE SweepInv'
      <3>1. SweepTypeOK'
        BY <2>1, <2>4 DEF SweepTypeOK, Confirm
      <3>2. QED
        BY <2>1, <2>4, <3>1, OthersKeepCredits DEF SweepTypeOK, Confirm
    <2>5. ASSUME NEW s \in Sweeps, RailThrows(s) PROVE SweepInv'
      <3>1. SweepTypeOK'
        BY <2>1, <2>5 DEF SweepTypeOK, RailThrows
      <3>2. QED
        BY <2>1, <2>5, <3>1, OthersKeepCredits DEF SweepTypeOK, RailThrows
    <2>6. CASE UNCHANGED sweepVars
      <3>1. SweepTypeOK'
        BY <2>1, <2>6 DEF SweepTypeOK, sweepVars
      <3>2. QED
        BY <2>6, <3>1, OthersKeepCredits DEF sweepVars
    <2>7. QED
      BY <2>2, <2>3, <2>4, <2>5, <2>6, BookKeeps, SpendKeeps DEF SweepNext
  <1>2. QED
    BY <1>1, SweepInvInit, PTL DEF SweepSpec

(* Every credit is in one place at any time, for any number of wallets,    *)
(* credits, spends and sweeps: the wallet has it, a spend has netted it or *)
(* one sweep has reserved it.                                              *)
THEOREM AlwaysCreditsConserved == SweepSpec => []CreditsConserved
  <1>1. SweepInv => CreditsConserved
    BY DEF SweepInv
  <1>2. QED
    BY <1>1, SweepInductive, PTL

(* Type correctness of the sweep ledger.                                  *)
THEOREM SweepTypeCorrect == SweepSpec => []SweepTypeOK
  <1>1. SweepInv => SweepTypeOK
    BY DEF SweepInv
  <1>2. QED
    BY <1>1, SweepInductive, PTL
=============================================================================
