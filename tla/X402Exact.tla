------------------------------ MODULE X402Exact ------------------------------
(***************************************************************************)
(* A request that pays for itself with a signed transfer: the gateway      *)
(* submits the transfer, waits for the chain, checks what the treasury was *)
(* credited and takes the payment (verifyX402Payment).  A top-up is then   *)
(* booked on the balance of the caller's key (handleTopup); a call goes on *)
(* to the handler, which may still refuse it.  Both look a transfer up in  *)
(* one map.  A delivery is one arrival of such a request; a proxy or a     *)
(* client that saw no answer may deliver the same proof again, at the same *)
(* time or later, and to either endpoint.                                  *)
(*                                                                         *)
(* The chain is external: a node takes the transfer or reports an error,   *)
(* and a transfer it has taken is confirmed, fails or is dropped, once.    *)
(***************************************************************************)
EXTENDS Integers, FiniteSets

CONSTANTS
  Deliveries,      (* arrivals of requests with a proof                    *)
  Payments,        (* signed transfers                                     *)
  ProofOf,         (* the transfer a delivery carries                      *)
  CreditOf,        (* what a transfer credits the treasury with            *)
  TopUps,          (* deliveries to /v1/topup                              *)
  PriceOf,         (* the price of a call, or the amount a top-up asks for *)
  ConsumedTtl, MaxNow,
  NotConsumed

ASSUME ExactAssumption ==
  /\ ProofOf \in [Deliveries -> Payments]
  /\ CreditOf \in [Payments -> Nat]
  /\ TopUps \subseteq Deliveries
  /\ PriceOf \in [Deliveries -> Nat]
  /\ ConsumedTtl \in Nat
  /\ MaxNow \in Nat
  /\ NotConsumed \notin 0 .. MaxNow

VARIABLES
  verifyPc,   (* the await a delivery stands at                            *)
  consumedAt, (* the consumed map: when a transfer was accepted            *)
  onChain,    (* what became of a transfer                                 *)
  booked,     (* top-ups whose credit row was written                      *)
  now,
  overlap,    (* pairs of deliveries verified at the same time             *)
  cleared,    (* transfers whose entry in the map is gone                  *)
  doubt       (* deliveries that met an error or a timeout of the chain's
                 RPC, or died; with the two above, read by properties only *)

exactVars == <<verifyPc, consumedAt, onChain, booked, now, overlap, cleared, doubt>>

Verifying == {"sending", "polling", "checking"}

(* Its payment was taken: a top-up is booked, a call is being handled.     *)
Taking == {"booking", "serving"}

ExactTypeOK ==
  /\ verifyPc \in [Deliveries -> Verifying \cup Taking \cup {"idle", "served", "refused", "rejected"}]
  /\ consumedAt \in [Payments -> 0 .. MaxNow \cup {NotConsumed}]
  /\ onChain \in [Payments -> {"unsent", "taken", "confirmed", "failed", "dropped"}]
  /\ booked \subseteq Deliveries
  /\ now \in 0 .. MaxNow
  /\ overlap \subseteq Deliveries \X Deliveries
  /\ cleared \subseteq Payments
  /\ doubt \subseteq Deliveries

ExactInit ==
  /\ verifyPc = [d \in Deliveries |-> "idle"]
  /\ consumedAt = [p \in Payments |-> NotConsumed]
  /\ onChain = [p \in Payments |-> "unsent"]
  /\ booked = {}
  /\ now = 0
  /\ overlap = {}
  /\ cleared = {}
  /\ doubt = {}

Move(d, from, to) ==
  /\ verifyPc[d] = from
  /\ verifyPc' = [verifyPc EXCEPT ![d] = to]

Peers(d) == {e \in Deliveries \ {d} : ProofOf[e] = ProofOf[d] /\ verifyPc[e] \in Verifying}

Aged(p) == consumedAt[p] # NotConsumed /\ now - consumedAt[p] > ConsumedTtl

(* pruneConsumed, then the check of the map.  A transfer in the map is     *)
(* turned away, with a new challenge.                                      *)
Deliver(d) ==
  LET kept == [p \in Payments |-> IF Aged(p) THEN NotConsumed ELSE consumedAt[p]] IN
  /\ consumedAt' = kept
  /\ cleared' = cleared \cup {p \in Payments : Aged(p)}
  /\ Move(d, "idle", IF kept[ProofOf[d]] = NotConsumed THEN "sending" ELSE "rejected")
  /\ overlap' = overlap \cup (IF kept[ProofOf[d]] = NotConsumed
                              THEN {d} \X Peers(d) \cup Peers(d) \X {d} ELSE {})
  /\ UNCHANGED <<onChain, booked, now, doubt>>

(* sendTransaction answers with the signature.                             *)
Submitted(d) ==
  LET p == ProofOf[d] IN
  /\ Move(d, "sending", "polling")
  /\ onChain' = [onChain EXCEPT ![p] = IF @ = "unsent" THEN "taken" ELSE @]
  /\ UNCHANGED <<consumedAt, booked, now, overlap, cleared, doubt>>

(* sendTransaction throws, whether the node took the transfer or not.      *)
SubmitFails(d) ==
  LET p == ProofOf[d] IN
  /\ Move(d, "sending", "rejected")
  /\ \/ UNCHANGED onChain
     \/ onChain[p] = "unsent" /\ onChain' = [onChain EXCEPT ![p] = "taken"]
  /\ doubt' = doubt \cup {d}
  /\ UNCHANGED <<consumedAt, booked, now, overlap, cleared>>

(* getSignatureStatuses has the transfer confirmed, or failed; a status    *)
(* not there yet and an error of the poll mean another poll.               *)
SeesConfirmed(d) ==
  /\ onChain[ProofOf[d]] = "confirmed"
  /\ Move(d, "polling", "checking")
  /\ UNCHANGED <<consumedAt, onChain, booked, now, overlap, cleared, doubt>>

SeesFailed(d) ==
  /\ onChain[ProofOf[d]] = "failed"
  /\ Move(d, "polling", "rejected")
  /\ UNCHANGED <<consumedAt, onChain, booked, now, overlap, cleared, doubt>>

(* Mutant: a poll that runs out of time goes on to the credit check.       *)
PollTimesOut_goesOn(d) ==
  /\ Move(d, "polling", "checking")
  /\ UNCHANGED <<consumedAt, onChain, booked, now, overlap, cleared, doubt>>

(* confirmTimeoutMs is over.                                               *)
PollTimesOut(d) ==
  /\ Move(d, "polling", "rejected")
  /\ doubt' = doubt \cup {d}
  /\ UNCHANGED <<consumedAt, onChain, booked, now, overlap, cleared>>

Covers(d) == CreditOf[ProofOf[d]] >= PriceOf[d]

(* Mutant: the transfer is not entered in the map.                         *)
EnterConsumed_never(p) == UNCHANGED consumedAt

EnterConsumed(p) == consumedAt' = [consumedAt EXCEPT ![p] = now]

(* getTransaction: the treasury's balance delta covers the price.          *)
Accept(d) ==
  /\ Covers(d)
  /\ Move(d, "checking", IF d \in TopUps THEN "booking" ELSE "serving")
  /\ EnterConsumed(ProofOf[d])
  /\ UNCHANGED <<onChain, booked, now, overlap, cleared, doubt>>

CreditShort(d) ==
  /\ ~Covers(d)
  /\ Move(d, "checking", "rejected")
  /\ UNCHANGED <<consumedAt, onChain, booked, now, overlap, cleared, doubt>>

CheckFails(d) ==
  /\ Move(d, "checking", "rejected")
  /\ doubt' = doubt \cup {d}
  /\ UNCHANGED <<consumedAt, onChain, booked, now, overlap, cleared>>

(* accrue, then balance: a top-up is answered with its new balance.        *)
Booked(d) ==
  /\ Move(d, "booking", "served")
  /\ booked' = booked \cup {d}
  /\ UNCHANGED <<consumedAt, onChain, now, overlap, cleared, doubt>>

(* One of them throws, before or after the row was written: the answer is  *)
(* an error, and the transfer stays in the map.                            *)
BookingFails(d) ==
  /\ Move(d, "booking", "rejected")
  /\ booked' \in {booked, booked \cup {d}}
  /\ doubt' = doubt \cup {d}
  /\ UNCHANGED <<consumedAt, onChain, now, overlap, cleared>>

(* The handler answers a call whose payment was taken.                     *)
CallServed(d) ==
  /\ Move(d, "serving", "served")
  /\ UNCHANGED <<consumedAt, onChain, booked, now, overlap, cleared, doubt>>

(* The handler refuses it after all: by a cap, the breaker of its key or   *)
(* project, its body, the balance of its wallet, or an error of the        *)
(* router.  The transfer stays in the map.                                 *)
CallRefused(d) ==
  /\ Move(d, "serving", "refused")
  /\ UNCHANGED <<consumedAt, onChain, booked, now, overlap, cleared, doubt>>

(* A taken transfer is confirmed, fails, or its blockhash expires.         *)
ChainDecides(p) ==
  /\ onChain[p] = "taken"
  /\ onChain' \in {[onChain EXCEPT ![p] = o] : o \in {"confirmed", "failed", "dropped"}}
  /\ UNCHANGED <<verifyPc, consumedAt, booked, now, overlap, cleared, doubt>>

TimePasses ==
  /\ now < MaxNow
  /\ now' = now + 1
  /\ UNCHANGED <<verifyPc, consumedAt, onChain, booked, overlap, cleared, doubt>>

(* The map is kept in memory; the requests of the process are gone too,    *)
(* and what a top-up was writing is written or not.                        *)
GatewayRestarts ==
  LET dying == {d \in Deliveries : verifyPc[d] \in Verifying \cup Taking} IN
  /\ consumedAt' = [p \in Payments |-> NotConsumed]
  /\ cleared' = cleared \cup {p \in Payments : consumedAt[p] # NotConsumed}
  /\ verifyPc' = [d \in Deliveries |-> IF d \in dying THEN "rejected" ELSE verifyPc[d]]
  /\ doubt' = doubt \cup dying
  /\ \E D \in SUBSET {d \in dying : verifyPc[d] = "booking"} : booked' = booked \cup D
  /\ UNCHANGED <<onChain, now, overlap>>

ExactNext ==
  \/ \E d \in Deliveries :
       \/ Deliver(d) \/ Submitted(d) \/ SubmitFails(d)
       \/ SeesConfirmed(d) \/ SeesFailed(d) \/ PollTimesOut(d)
       \/ Accept(d) \/ CreditShort(d) \/ CheckFails(d)
       \/ Booked(d) \/ BookingFails(d) \/ CallServed(d) \/ CallRefused(d)
  \/ \E p \in Payments : ChainDecides(p)
  \/ TimePasses
  \/ GatewayRestarts

ExactSpec == ExactInit /\ [][ExactNext]_exactVars

-----------------------------------------------------------------------------
(* Properties.                                                             *)

(* A delivery got something for its transfer: it was served, or booked.    *)
Got(d) == verifyPc[d] = "served" \/ d \in booked

(* Its payment was taken, whatever became of it then.                      *)
Accepted(d) == verifyPc[d] \in Taking \cup {"served", "refused"} \/ d \in booked

(* One payment buys no two things, calls or credits, except that the map   *)
(* is read before the chain is awaited and written after: deliveries that  *)
(* got something for one payment were verified at the same time, or the    *)
(* map had lost the payment, by its time to live or a restart, in between. *)
(* Neither a top-up whose booking failed nor a call the handler refused    *)
(* opens its payment for another (x402.ts:226 and :297, topup.ts:229).     *)
ServedOnceUnlessOverlapping ==
  \A d, e \in Deliveries :
    /\ d # e
    /\ ProofOf[d] = ProofOf[e]
    /\ Got(d)
    /\ Got(e)
    => <<d, e>> \in overlap \/ ProofOf[d] \in cleared

(* What is taken for a payment was paid, for at least the price of the     *)
(* call or the amount of the top-up.  And a payment is taken: the verifier *)
(* turns a transfer away that went through and covers what is asked for    *)
(* only when it was taken for a delivery already, this one or another, or  *)
(* when an RPC of the chain failed or timed out on one of them, or it died *)
(* (verifyX402Payment, handleTopup).  A payment that was taken may still   *)
(* buy nothing: when the booking failed, or the handler refused the call   *)
(* after x402.ts:297 - a retry is then turned away as consumed.            *)
PaidIsTaken ==
  /\ \A d \in Deliveries :
       Accepted(d) => onChain[ProofOf[d]] = "confirmed" /\ CreditOf[ProofOf[d]] >= PriceOf[d]
  /\ \A d \in Deliveries :
       /\ onChain[ProofOf[d]] = "confirmed"
       /\ CreditOf[ProofOf[d]] >= PriceOf[d]
       /\ verifyPc[d] = "rejected"
       => \E e \in Deliveries : ProofOf[e] = ProofOf[d] /\ (Accepted(e) \/ e \in doubt)
=============================================================================
