-------------------------- MODULE TenderCampaigns --------------------------
(***************************************************************************)
(* Advertisers fund campaigns by a deposit on chain; developers earn part  *)
(* of the price of every impression.  A campaign is a row of the campaign  *)
(* store and, on each instance of the gateway, an entry of the auction     *)
(* that was copied from the row.  Impressions are served in two ways: by   *)
(* the auction in the wait of a routed request, and by the impression      *)
(* endpoint, which reads and draws down the row.                           *)
(*                                                                         *)
(* The deployment has a treasury and a shared store.  Between two awaits a *)
(* handler is a single step; an await may throw, and then what was sent    *)
(* has happened by then or never does.  One account earns.                 *)
(***************************************************************************)
EXTENDS Integers, FiniteSetsExt

CONSTANTS
  Instances,
  House,        (* campaigns seeded into an empty store, active at once    *)
  Advertised,   (* campaigns created at /api/campaigns                     *)
  Price,        (* usdcPerImpression, in units in which its share is whole *)
  Bought,       (* the impressions a campaign is funded for                *)
  Requests,     (* routed, streaming requests                              *)
  Impressions,  (* calls of POST /api/tender/impression                    *)
  Verifies,     (* calls of POST /api/campaigns/:id/verify                 *)
  At,           (* the instance that handles a call                        *)
  CampaignOf,   (* the campaign a verify is for                            *)
  None

Campaigns == House \cup Advertised
Earners   == Requests \cup Impressions
CampaignHandlers  == Earners \cup Verifies

ASSUME TenderAssumption ==
  /\ House \cap Advertised = {}
  /\ Requests \cap Impressions = {}
  /\ Earners \cap Verifies = {}
  /\ Price \in [Campaigns -> Nat \ {0}]
  /\ Bought \in [Campaigns -> Nat \ {0}]
  /\ At \in [CampaignHandlers -> Instances]
  /\ CampaignOf \in [Verifies -> Advertised]
  /\ None \notin Campaigns
  /\ IsFiniteSet(Requests) /\ IsFiniteSet(Impressions)

VARIABLES
  status,       (* of each row of the store, "none" when there is no row   *)
  remaining,    (* remainingImpressions of each row                        *)
  deposited,    (* campaigns whose deposit is on chain                     *)
  auction,      (* remainingImpressions per instance and campaign, -1 when
                   the auction does not have it                            *)
  loading,      (* campaignsLoaded of each instance                        *)
  loaded,       (* the rows its list() returned: -1 for one left out       *)
  recent,       (* instances where lastImpressionAt bars the account       *)
  handlerPc,    (* where a handler is                                      *)
  choice,       (* the placement or campaign it works on                   *)
  seen,         (* remainingImpressions of that campaign as it read it     *)
  billed,       (* requests that ended with a cost                         *)
  creditRow,    (* the credit row it wrote, 0 before                       *)
  campaignFaulted, (* an await threw or an instance stopped                *)
  overlapped,   (* two impressions were under way at once                  *)
  refilled      (* instances whose auction was given a campaign again or
                   was lost; only properties read these three              *)

storeVars   == <<status, remaining, deposited>>
auctionVars == <<auction, loading, loaded>>
handlerVars == <<handlerPc, choice, seen, billed>>
ghostVars   == <<campaignFaulted, overlapped, refilled>>
campaignVars == <<storeVars, auctionVars, recent, handlerVars, creditRow, ghostVars>>

CampaignTypeOK ==
  /\ status \in [Campaigns -> {"none", "pending", "active"}]
  /\ remaining \in [Campaigns -> Nat]
  /\ deposited \subseteq Advertised
  /\ auction \in [Instances -> [Campaigns -> Nat \cup {-1}]]
  /\ loading \in [Instances -> {"no", "listing", "failed", "done"}]
  /\ loaded \in [Instances -> [Campaigns -> Nat \cup {-1}]]
  /\ recent \subseteq Instances
  /\ handlerPc \in [CampaignHandlers -> {"idle", "streaming", "waited", "listed", "crediting",
                                         "drawing",
                          "checking", "paid", "activated", "done", "failed"}]
  /\ choice \in [CampaignHandlers -> Campaigns \cup {None}]
  /\ seen \in [CampaignHandlers -> Nat]
  /\ billed \subseteq Requests
  /\ creditRow \in [Earners -> Nat]
  /\ campaignFaulted \in BOOLEAN
  /\ overlapped \in BOOLEAN
  /\ refilled \subseteq Instances

Unlisted == [c \in Campaigns |-> -1]

(* A store that is empty is seeded before it is read.                      *)
CampaignInit ==
  /\ status = [c \in Campaigns |-> IF c \in House THEN "active" ELSE "none"]
  /\ remaining = [c \in Campaigns |-> IF c \in House THEN Bought[c] ELSE 0]
  /\ deposited = {}
  /\ auction = [i \in Instances |-> Unlisted]
  /\ loading = [i \in Instances |-> "no"]
  /\ loaded = [i \in Instances |-> Unlisted]
  /\ recent = {}
  /\ handlerPc = [h \in CampaignHandlers |-> "idle"]
  /\ choice = [h \in CampaignHandlers |-> None]
  /\ seen = [h \in CampaignHandlers |-> 0]
  /\ billed = {}
  /\ creditRow = [h \in Earners |-> 0]
  /\ campaignFaulted = FALSE
  /\ overlapped = FALSE
  /\ refilled = {}

Advance(h, p) == handlerPc' = [handlerPc EXCEPT ![h] = p]
IsActive(c) == status[c] = "active"

-----------------------------------------------------------------------------
(* Advertisers.                                                            *)

(* POST /api/campaigns: the row is written as pending, or the write fails  *)
(* and the advertiser is told to pay all the same.                         *)
CreateCampaign(c) ==
  /\ status[c] = "none"
  /\ status' = [status EXCEPT ![c] = "pending"]
  /\ remaining' = [remaining EXCEPT ![c] = Bought[c]]
  /\ UNCHANGED <<deposited, auctionVars, recent, handlerVars, creditRow, ghostVars>>

(* The advertiser's transfer lands; it may have been told to pay for a     *)
(* campaign whose row was never written.                                   *)
Deposit(c) ==
  /\ c \notin deposited
  /\ deposited' = deposited \cup {c}
  /\ UNCHANGED <<status, remaining, auctionVars, recent, handlerVars, creditRow, ghostVars>>

(* verify reads the row; one that is missing or active already ends it.    *)
ReadCampaign(v) ==
  LET c == CampaignOf[v] IN
  /\ handlerPc[v] = "idle"
  /\ IF status[c] = "pending"
     THEN /\ Advance(v, "checking")
          /\ seen' = [seen EXCEPT ![v] = remaining[c]]
     ELSE Advance(v, "done") /\ UNCHANGED seen
  /\ UNCHANGED <<storeVars, auctionVars, recent, choice, billed, creditRow, ghostVars>>

(* verifyDeposit looks for the transfer; without it the answer is pending. *)
VerifyDeposit(v) ==
  /\ handlerPc[v] = "checking"
  /\ Advance(v, IF CampaignOf[v] \in deposited THEN "paid" ELSE "done")
  /\ UNCHANGED <<storeVars, auctionVars, recent, choice, seen, billed, creditRow, ghostVars>>

(* The row is made active and comes back as it then is.                    *)
Activate(v) ==
  LET c == CampaignOf[v] IN
  /\ handlerPc[v] = "paid"
  /\ status' = [status EXCEPT ![c] = "active"]
  /\ seen' = [seen EXCEPT ![v] = remaining[c]]
  /\ Advance(v, "activated")
  /\ UNCHANGED <<remaining, deposited, auctionVars, recent, choice, billed, creditRow, ghostVars>>

(* The update throws, done or not, and the row as it was read is used.     *)
ActivateThrows(v) ==
  /\ handlerPc[v] = "paid"
  /\ \/ UNCHANGED status
     \/ status' = [status EXCEPT ![CampaignOf[v]] = "active"]
  /\ Advance(v, "activated")
  /\ campaignFaulted' = TRUE
  /\ UNCHANGED <<remaining, deposited, auctionVars, recent, choice, seen, billed, creditRow,
                 overlapped, refilled>>

(* addCampaign puts it into the auction of this instance.                  *)
GoLive(v) ==
  /\ handlerPc[v] = "activated"
  /\ auction' = [auction EXCEPT ![At[v]][CampaignOf[v]] = seen[v]]
  /\ Advance(v, "done")
  /\ refilled' = IF auction[At[v]][CampaignOf[v]] = -1 THEN refilled
                 ELSE refilled \cup {At[v]}
  /\ UNCHANGED <<storeVars, loading, loaded, recent, choice, seen, billed, creditRow,
                 campaignFaulted,
                 overlapped>>

-----------------------------------------------------------------------------
(* ensureCampaigns, once per instance.                                     *)

(* Mutant: the rows are taken as they come, pending ones too.              *)
Live_all == [c \in Campaigns |-> IF status[c] # "none" THEN remaining[c] ELSE -1]

Live == [c \in Campaigns |-> IF IsActive(c) THEN remaining[c] ELSE -1]

ListRows(i) ==
  /\ loading[i] \in {"no", "failed"}
  /\ loading' = [loading EXCEPT ![i] = "listing"]
  /\ loaded' = [loaded EXCEPT ![i] = Live]
  /\ UNCHANGED <<storeVars, auction, recent, handlerVars, creditRow, ghostVars>>

FoldRows(i) ==
  /\ loading[i] = "listing"
  /\ loading' = [loading EXCEPT ![i] = "done"]
  /\ auction' = [auction EXCEPT ![i] =
       [c \in Campaigns |-> IF loaded[i][c] # -1 THEN loaded[i][c] ELSE @[c]]]
  /\ loaded' = [loaded EXCEPT ![i] = Unlisted]
  /\ refilled' = IF \E c \in Campaigns : loaded[i][c] # -1 /\ auction[i][c] # -1
                 THEN refilled \cup {i} ELSE refilled
  /\ UNCHANGED <<storeVars, recent, handlerVars, creditRow, campaignFaulted, overlapped>>

(* The list fails: those who wait for it go on, the next call tries again. *)
ListThrows(i) ==
  /\ loading[i] = "listing"
  /\ loading' = [loading EXCEPT ![i] = "failed"]
  /\ loaded' = [loaded EXCEPT ![i] = Unlisted]
  /\ campaignFaulted' = TRUE
  /\ UNCHANGED <<storeVars, auction, recent, handlerVars, creditRow, overlapped, refilled>>

-----------------------------------------------------------------------------
(* Routed requests: wrapTender and GatewayTender.                          *)

(* A request has waited for ensureCampaigns before it reaches its handler. *)
Stream(r) ==
  /\ handlerPc[r] = "idle"
  /\ loading[At[r]] \in {"failed", "done"}
  /\ Advance(r, "streaming")
  /\ UNCHANGED <<storeVars, auctionVars, recent, choice, seen, billed, creditRow, ghostVars>>

(* Auction.select: the campaigns that may win, which are the highest bids  *)
(* among those with impressions left.                                      *)
Winners(i) ==
  LET open == {c \in Campaigns : auction[i][c] > 0}
  IN  {c \in open : \A d \in open : Price[d] <= Price[c]}

(* Mutant: the slot that is won is not taken.                              *)
Select_keepsSlot(r, c) ==
  /\ choice' = [choice EXCEPT ![r] = c]
  /\ UNCHANGED auction

Select(r, c) ==
  /\ choice' = [choice EXCEPT ![r] = c]
  /\ auction' = [auction EXCEPT ![At[r]][c] = @ - 1]

(* The turn has run past minWaitMs: a placement is auctioned, if any wins. *)
Waited(r) ==
  /\ handlerPc[r] = "streaming"
  /\ Advance(r, "waited")
  /\ IF Winners(At[r]) = {} THEN UNCHANGED <<auction, choice>>
     ELSE \E c \in Winners(At[r]) : Select(r, c)
  /\ UNCHANGED <<storeVars, loading, loaded, recent, seen, billed, creditRow, ghostVars>>

(* assertValidAttestation: real inference, a real wait, a served placement.*)
Passes(r, cost) == cost > 0 /\ choice[r] # None

(* The stream ends, at a cost or at none, and finish settles it.           *)
Finish(r) ==
  /\ handlerPc[r] \in {"streaming", "waited"}
  /\ \E cost \in {0, 1} :
       /\ Advance(r, IF Passes(r, cost) THEN "crediting" ELSE "done")
       /\ billed' = IF cost > 0 THEN billed \cup {r} ELSE billed
  /\ UNCHANGED <<storeVars, auctionVars, recent, choice, seen, creditRow, ghostVars>>

(* The stream fails and nothing is settled.                                *)
StreamFails(r) ==
  /\ handlerPc[r] \in {"streaming", "waited"}
  /\ Advance(r, "failed")
  /\ UNCHANGED <<storeVars, auctionVars, recent, choice, seen, billed, creditRow, ghostVars>>

-----------------------------------------------------------------------------
(* POST /api/tender/impression.                                            *)

Underway == {"listed", "crediting", "drawing"}

(* The throttle is asked before the campaigns are awaited.                 *)
Ask(m) ==
  /\ handlerPc[m] = "idle"
  /\ At[m] \notin recent
  /\ Advance(m, "listed")
  /\ overlapped' = (overlapped \/ \E n \in Impressions : handlerPc[n] \in Underway)
  /\ UNCHANGED <<storeVars, auctionVars, recent, choice, seen, billed, creditRow,
                 campaignFaulted, refilled>>

Inventory == {c \in Campaigns : IsActive(c) /\ remaining[c] > 0}

(* The rows are read, the best one is chosen and the throttle is set.      *)
Pick(m) ==
  /\ handlerPc[m] = "listed"
  /\ IF Inventory = {}
     THEN Advance(m, "done") /\ UNCHANGED <<choice, seen, recent>>
     ELSE /\ \E c \in Inventory :
               /\ \A d \in Inventory : Price[d] <= Price[c]
               /\ choice' = [choice EXCEPT ![m] = c]
               /\ seen' = [seen EXCEPT ![m] = remaining[c]]
          /\ recent' = recent \cup {At[m]}
          /\ Advance(m, "crediting")
  /\ UNCHANGED <<storeVars, auctionVars, billed, creditRow, ghostVars>>

(* The list fails: the answer is that there is no inventory.               *)
PickThrows(m) ==
  /\ handlerPc[m] = "listed"
  /\ Advance(m, "done")
  /\ campaignFaulted' = TRUE
  /\ UNCHANGED <<storeVars, auctionVars, recent, choice, seen, billed, creditRow, overlapped,
                 refilled>>

(* What follows the accrue of a request and of an impression.              *)
Credited(h) == IF h \in Impressions THEN "drawing" ELSE "done"

AccrueKickback(h) ==
  /\ handlerPc[h] = "crediting"
  /\ creditRow' = [creditRow EXCEPT ![h] = Price[choice[h]]]
  /\ Advance(h, Credited(h))
  /\ UNCHANGED <<storeVars, auctionVars, recent, choice, seen, billed, ghostVars>>

(* The accrue throws: a request fails, an impression goes on.              *)
AccrueThrows(h) ==
  /\ handlerPc[h] = "crediting"
  /\ \/ UNCHANGED creditRow
     \/ creditRow' = [creditRow EXCEPT ![h] = Price[choice[h]]]
  /\ Advance(h, IF h \in Impressions THEN "drawing" ELSE "failed")
  /\ campaignFaulted' = TRUE
  /\ UNCHANGED <<storeVars, auctionVars, recent, choice, seen, billed, overlapped, refilled>>

Drawn(m) == seen[m] - 1

(* The row is written with what was read, less one.                        *)
DrawDown(m) ==
  /\ handlerPc[m] = "drawing"
  /\ remaining' = [remaining EXCEPT ![choice[m]] = Drawn(m)]
  /\ Advance(m, "done")
  /\ UNCHANGED <<status, deposited, auctionVars, recent, choice, seen, billed, creditRow,
                 ghostVars>>

DrawDownThrows(m) ==
  /\ handlerPc[m] = "drawing"
  /\ Advance(m, "done")
  /\ campaignFaulted' = TRUE
  /\ UNCHANGED <<storeVars, auctionVars, recent, choice, seen, billed, creditRow, overlapped,
                 refilled>>

(* IMPRESSION_MIN_MS have passed.                                          *)
Elapse(i) ==
  /\ recent' = recent \ {i}
  /\ i \in recent
  /\ UNCHANGED <<storeVars, auctionVars, handlerVars, creditRow, ghostVars>>

-----------------------------------------------------------------------------

(* An instance is frozen for good and a cold one takes its place.          *)
ColdStart(i) ==
  /\ auction' = [auction EXCEPT ![i] = Unlisted]
  /\ loading' = [loading EXCEPT ![i] = "no"]
  /\ loaded' = [loaded EXCEPT ![i] = Unlisted]
  /\ recent' = recent \ {i}
  /\ handlerPc' = [h \in CampaignHandlers |->
              IF At[h] = i /\ handlerPc[h] \notin {"idle", "done"} THEN "failed" ELSE handlerPc[h]]
  /\ campaignFaulted' = TRUE
  /\ refilled' = refilled \cup {i}
  /\ UNCHANGED <<storeVars, choice, seen, billed, creditRow, overlapped>>

VerifyStep(v) ==
  ReadCampaign(v) \/ VerifyDeposit(v) \/ Activate(v) \/ ActivateThrows(v) \/ GoLive(v)

HydrateStep(i) == ListRows(i) \/ FoldRows(i) \/ ListThrows(i)

RoutedStep(r) == Stream(r) \/ Waited(r) \/ Finish(r) \/ StreamFails(r)

ImpressionStep(m) ==
  Ask(m) \/ Pick(m) \/ PickThrows(m) \/ DrawDown(m) \/ DrawDownThrows(m)

CampaignNext ==
  \/ \E c \in Advertised : CreateCampaign(c) \/ Deposit(c)
  \/ \E v \in Verifies : VerifyStep(v)
  \/ \E i \in Instances : HydrateStep(i) \/ Elapse(i) \/ ColdStart(i)
  \/ \E r \in Requests : RoutedStep(r)
  \/ \E m \in Impressions : ImpressionStep(m)
  \/ \E h \in Earners : AccrueKickback(h) \/ AccrueThrows(h)

CampaignSpec == CampaignInit /\ [][CampaignNext]_campaignVars

-----------------------------------------------------------------------------

(* A campaign that has to be paid for is not active in the store, not in   *)
(* an auction and pays no one before its deposit is on chain, whatever row *)
(* a verify or an instance that loads the campaigns has read.              *)
OnlyFundedServes ==
  \A c \in Advertised \ deposited :
    /\ ~IsActive(c)
    /\ \A i \in Instances : auction[i][c] = -1
    /\ \A h \in Earners : choice[h] # c

(* A routed kickback is earned: the request was billed, and its placement  *)
(* came out of stock.  Of a campaign an auction was given once, it serves  *)
(* what was bought at most, whatever requests wait at once.  And without   *)
(* faults and one at a time, impressions draw a campaign down by as many   *)
(* as have been credited, however they mix with verifies of it.            *)
KickbackIsEarned ==
  /\ \A r \in Requests : creditRow[r] # 0 => r \in billed
  /\ \A i \in Instances \ refilled : \A c \in Campaigns :
       LET served == {r \in Requests : At[r] = i /\ choice[r] = c}
       IN  served # {} => Cardinality(served) + auction[i][c] <= Bought[c]
  /\ ~campaignFaulted /\ ~overlapped /\ (\A m \in Impressions : handlerPc[m] \in {"idle", "done"})
       => \A c \in Campaigns :
            status[c] # "none" =>
              Bought[c] - remaining[c] =
                Cardinality({m \in Impressions : choice[m] = c /\ creditRow[m] # 0})

(* app.ts, line 1676: the budget is a cap, and "payouts can never exceed   *)
(* funded inventory".  The row is read and written in two calls, and two   *)
(* impressions that overlap draw it down once.                             *)
PayoutsAreCapped ==
  \A c \in Campaigns :
    Cardinality({m \in Impressions : choice[m] = c /\ creditRow[m] # 0}) <= Bought[c]
=============================================================================
