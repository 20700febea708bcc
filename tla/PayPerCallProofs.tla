--------------------------- MODULE PayPerCallProofs ---------------------------
(***************************************************************************)
(* Proofs about the two ends of pay-per-call: the gateway that verifies a  *)
(* signed transfer (X402Exact), for any number of transfers and of         *)
(* deliveries of each, and the client that pays a challenge (PayingFetch), *)
(* for any number of callers and challenges.                               *)
(***************************************************************************)
EXTENDS X402Exact, PayingFetch, SumTheorems

-----------------------------------------------------------------------------
(* The gateway.                                                            *)

(* A delivery that was accepted has left its transfer in the map, unless   *)
(* the map has lost it since; the transfer went through and covers what    *)
(* the delivery asks for.                                                  *)
ServedInv(d) ==
  /\ verifyPc[d] = "checking" \/ Accepted(d) => onChain[ProofOf[d]] = "confirmed"
  /\ Accepted(d) =>
       /\ Covers(d)
       /\ consumedAt[ProofOf[d]] # NotConsumed \/ ProofOf[d] \in cleared
  /\ d \in booked => verifyPc[d] \in {"served", "rejected"}

LetIn(d) == verifyPc[d] \in Verifying \/ Accepted(d)

(* Two deliveries of one transfer that were both let in were let in while  *)
(* the other was verified, or with an empty map.                           *)
PairInv(d, e) ==
  d # e /\ ProofOf[d] = ProofOf[e] /\ LetIn(d) /\ LetIn(e)
  => <<d, e>> \in overlap \/ ProofOf[d] \in cleared

(* Delivery e is why transfer p is in the map: it was accepted, or was     *)
(* accepted and met a failure of the ledger.                               *)
Backer(e, p) == ProofOf[e] = p /\ (Accepted(e) \/ e \in doubt)

BackedInv(p) == consumedAt[p] # NotConsumed => \E e \in Deliveries : Backer(e, p)

(* A delivery is turned away when its transfer failed, does not cover what *)
(* it asks for, or was accepted or in doubt before.                        *)
RejectedInv(d) ==
  verifyPc[d] = "rejected" /\ Covers(d) =>
    onChain[ProofOf[d]] = "failed" \/ \E e \in Deliveries : Backer(e, ProofOf[d])

ExactInv ==
  /\ ExactTypeOK
  /\ \A d \in Deliveries : ServedInv(d)
  /\ \A d, e \in Deliveries : PairInv(d, e)
  /\ \A p \in Payments : BackedInv(p)
  /\ \A d \in Deliveries : RejectedInv(d)

(* The start: nothing was delivered.                                       *)
LEMMA ExactInitInv == ExactInit => ExactInv
BY ExactAssumption
   DEF ExactInit, ExactInv, ExactTypeOK, ServedInv, PairInv, BackedInv, RejectedInv,
       Accepted, LetIn, Verifying, Taking

(* Every step keeps the state in its type.                                 *)
LEMMA ExactStepType ==
  ASSUME ExactTypeOK, [ExactNext]_exactVars
  PROVE  ExactTypeOK'
<1> USE ExactAssumption DEF ExactTypeOK, Taking
<1>1. CASE UNCHANGED exactVars
  BY <1>1 DEF exactVars
<1>2. ASSUME NEW d \in Deliveries, Deliver(d) PROVE ExactTypeOK'
  <2>1. Peers(d) \subseteq Deliveries
    BY DEF Peers
  <2> QED
    BY <1>2, <2>1 DEF Deliver, Move, Verifying
<1>3. ASSUME NEW d \in Deliveries, Submitted(d) PROVE ExactTypeOK'
  BY <1>3 DEF Submitted, Move, Verifying
<1>4. ASSUME NEW d \in Deliveries, SubmitFails(d) PROVE ExactTypeOK'
  BY <1>4 DEF SubmitFails, Move
<1>5. ASSUME NEW d \in Deliveries, SeesConfirmed(d) PROVE ExactTypeOK'
  BY <1>5 DEF SeesConfirmed, Move, Verifying
<1>6. ASSUME NEW d \in Deliveries, SeesFailed(d) PROVE ExactTypeOK'
  BY <1>6 DEF SeesFailed, Move
<1>7. ASSUME NEW d \in Deliveries, PollTimesOut(d) PROVE ExactTypeOK'
  BY <1>7 DEF PollTimesOut, Move
<1>8. ASSUME NEW d \in Deliveries, Accept(d) PROVE ExactTypeOK'
  BY <1>8 DEF Accept, EnterConsumed, Move
<1>9. ASSUME NEW d \in Deliveries, CreditShort(d) PROVE ExactTypeOK'
  BY <1>9 DEF CreditShort, Move
<1>10. ASSUME NEW d \in Deliveries, CheckFails(d) PROVE ExactTypeOK'
  BY <1>10 DEF CheckFails, Move
<1>11. ASSUME NEW p \in Payments, ChainDecides(p) PROVE ExactTypeOK'
  BY <1>11 DEF ChainDecides
<1>12. CASE TimePasses
  BY <1>12 DEF TimePasses
<1>13. ASSUME NEW d \in Deliveries, Booked(d) PROVE ExactTypeOK'
  BY <1>13 DEF Booked, Move
<1>14. ASSUME NEW d \in Deliveries, BookingFails(d) PROVE ExactTypeOK'
  BY <1>14 DEF BookingFails, Move
<1>15. CASE GatewayRestarts
  BY <1>15 DEF GatewayRestarts
<1>16. ASSUME NEW d \in Deliveries, CallServed(d) \/ CallRefused(d) PROVE ExactTypeOK'
  BY <1>16 DEF CallServed, CallRefused, Move
<1> QED
  BY <1>1, <1>2, <1>3, <1>4, <1>5, <1>6, <1>7, <1>8, <1>9, <1>10, <1>11, <1>12, <1>13, <1>14,
     <1>15, <1>16 DEF ExactNext

(* Booking touches only top-ups, which were accepted before.               *)
LEMMA BookedWereAccepted ==
  ASSUME ExactTypeOK, [ExactNext]_exactVars, NEW d \in Deliveries, d \in booked'
  PROVE  d \in booked \/ verifyPc[d] = "booking"
<1>1. ASSUME NEW e \in Deliveries, Booked(e) \/ BookingFails(e)
      PROVE d \in booked \/ verifyPc[d] = "booking"
  BY <1>1 DEF Booked, BookingFails, Move
<1>2. CASE GatewayRestarts
  BY <1>2 DEF GatewayRestarts
<1>3. CASE booked' = booked
  BY <1>3
<1>4. \/ booked' = booked
      \/ GatewayRestarts
      \/ \E e \in Deliveries : Booked(e) \/ BookingFails(e)
  BY DEF ExactNext, exactVars, Deliver, Submitted, SubmitFails, SeesConfirmed, SeesFailed,
         PollTimesOut, Accept, CreditShort, CheckFails, CallServed, CallRefused, ChainDecides, TimePasses
<1> QED
  BY <1>1, <1>2, <1>3, <1>4

(* What a delivery was accepted for stays paid, and stays in the map or    *)
(* among what the map has lost.                                            *)
LEMMA ExactStepServed ==
  ASSUME ExactInv, [ExactNext]_exactVars, NEW d \in Deliveries
  PROVE  ServedInv(d)'
<1> USE DEF Taking
<1> DEFINE p == ProofOf[d]
<1>1. p \in Payments /\ ServedInv(d) /\ ExactTypeOK
  BY ExactAssumption DEF ExactInv
<1>2. CASE UNCHANGED exactVars
  BY <1>1, <1>2 DEF exactVars, ServedInv, Accepted, Covers
<1>3. ASSUME NEW e \in Deliveries, Deliver(e) PROVE ServedInv(d)'
  BY <1>1, <1>3 DEF Deliver, Move, ServedInv, Accepted, Covers, ExactTypeOK
<1>4. ASSUME NEW e \in Deliveries, Submitted(e) PROVE ServedInv(d)'
  BY <1>1, <1>4, ExactAssumption DEF Submitted, Move, ServedInv, Accepted, Covers, ExactTypeOK
<1>5. ASSUME NEW e \in Deliveries, SubmitFails(e) PROVE ServedInv(d)'
  BY <1>1, <1>5, ExactAssumption DEF SubmitFails, Move, ServedInv, Accepted, Covers, ExactTypeOK
<1>6. ASSUME NEW e \in Deliveries, SeesConfirmed(e) PROVE ServedInv(d)'
  BY <1>1, <1>6 DEF SeesConfirmed, Move, ServedInv, Accepted, Covers, ExactTypeOK
<1>7. ASSUME NEW e \in Deliveries, SeesFailed(e) \/ PollTimesOut(e) \/ CreditShort(e) \/ CheckFails(e)
      PROVE ServedInv(d)'
  BY <1>1, <1>7 DEF SeesFailed, PollTimesOut, CreditShort, CheckFails, Move, ServedInv, Accepted,
                    Covers, ExactTypeOK
<1>8. ASSUME NEW e \in Deliveries, Accept(e) PROVE ServedInv(d)'
  BY <1>1, <1>8, ExactAssumption DEF Accept, EnterConsumed, Move, ServedInv, Accepted, Covers,
     ExactTypeOK
<1>9. ASSUME NEW q \in Payments, ChainDecides(q) PROVE ServedInv(d)'
  BY <1>1, <1>9 DEF ChainDecides, ServedInv, Accepted, Covers, ExactTypeOK
<1>10. CASE TimePasses
  BY <1>1, <1>10 DEF TimePasses, ServedInv, Accepted, Covers
<1>11. ASSUME NEW e \in Deliveries, Booked(e) \/ BookingFails(e) PROVE ServedInv(d)'
  BY <1>1, <1>11 DEF Booked, BookingFails, Move, ServedInv, Accepted, Covers, ExactTypeOK
<1>12. CASE GatewayRestarts
  <2>1. d \in booked' => d \in booked \/ verifyPc[d] = "booking"
    BY <1>1, BookedWereAccepted
  <2> QED
    BY <1>1, <1>12, <2>1 DEF GatewayRestarts, ServedInv, Accepted, Covers, ExactTypeOK, Verifying
<1>13. ASSUME NEW e \in Deliveries, CallServed(e) \/ CallRefused(e) PROVE ServedInv(d)'
  BY <1>1, <1>13 DEF CallServed, CallRefused, Move, ServedInv, Accepted, Covers, ExactTypeOK
<1> QED
  BY <1>2, <1>3, <1>4, <1>5, <1>6, <1>7, <1>8, <1>9, <1>10, <1>11, <1>12, <1>13 DEF ExactNext

(* No step but Deliver lets a delivery in, and the history only grows.     *)
LEMMA OthersLetNoneIn ==
  ASSUME ExactTypeOK, [ExactNext]_exactVars, \A d \in Deliveries : ~Deliver(d)
  PROVE  /\ overlap \subseteq overlap' /\ cleared \subseteq cleared'
         /\ \A d \in Deliveries : LetIn(d)' => LetIn(d)
<1> USE DEF LetIn, Accepted, Taking
<1>1. CASE UNCHANGED exactVars
  BY <1>1 DEF exactVars
<1>2. ASSUME NEW e \in Deliveries, Submitted(e) \/ SubmitFails(e) \/ SeesConfirmed(e) \/ SeesFailed(e)
      PROVE  /\ overlap' = overlap /\ cleared' = cleared
             /\ \A d \in Deliveries : LetIn(d)' => LetIn(d)
  BY <1>2 DEF ExactTypeOK, Submitted, SubmitFails, SeesConfirmed, SeesFailed, Move, Verifying
<1>3. ASSUME NEW e \in Deliveries, PollTimesOut(e) \/ Accept(e) \/ CreditShort(e) \/ CheckFails(e)
      PROVE  /\ overlap' = overlap /\ cleared' = cleared
             /\ \A d \in Deliveries : LetIn(d)' => LetIn(d)
  BY <1>3 DEF ExactTypeOK, PollTimesOut, Accept, CreditShort, CheckFails, Move, Verifying
<1>4. ASSUME NEW e \in Deliveries, Booked(e) \/ BookingFails(e)
      PROVE  /\ overlap' = overlap /\ cleared' = cleared
             /\ \A d \in Deliveries : LetIn(d)' => LetIn(d)
  BY <1>4 DEF ExactTypeOK, Booked, BookingFails, Move, Verifying
<1>5. ASSUME NEW p \in Payments, ChainDecides(p)
      PROVE  /\ overlap' = overlap /\ cleared' = cleared /\ verifyPc' = verifyPc /\ booked' = booked
  BY <1>5 DEF ChainDecides
<1>6. CASE TimePasses
  BY <1>6 DEF TimePasses
<1>7. CASE GatewayRestarts
  <2>1. \A d \in Deliveries : d \in booked' => d \in booked \/ verifyPc[d] = "booking"
    BY BookedWereAccepted
  <2> QED
    BY <1>7, <2>1 DEF GatewayRestarts, ExactTypeOK, Verifying
<1>8. ASSUME NEW e \in Deliveries, CallServed(e) \/ CallRefused(e)
      PROVE  /\ overlap' = overlap /\ cleared' = cleared
             /\ \A d \in Deliveries : LetIn(d)' => LetIn(d)
  BY <1>8 DEF ExactTypeOK, CallServed, CallRefused, Move, Verifying
<1> QED
  BY <1>1, <1>2, <1>3, <1>4, <1>5, <1>6, <1>7, <1>8 DEF ExactNext

(* A delivery that is let in finds every earlier one of its transfer still *)
(* verifying, or accepted and forgotten.                                   *)
LEMMA DeliverKeepsPairs ==
  ASSUME ExactInv, NEW x \in Deliveries, Deliver(x), NEW d \in Deliveries, NEW e \in Deliveries
  PROVE  PairInv(d, e)'
<1> USE DEF Taking
<1> DEFINE p == ProofOf[x]
           aged == {q \in Payments : Aged(q)}
<1>1. p \in Payments /\ ExactTypeOK /\ PairInv(d, e)
  BY ExactAssumption DEF ExactInv
<1>2. cleared' = cleared \cup aged /\ overlap \subseteq overlap'
  BY DEF Deliver
<1>3. \A y \in Deliveries \ {x} : verifyPc'[y] = verifyPc[y]
  BY <1>1 DEF Deliver, Move, ExactTypeOK
<1>4. booked' = booked /\ x \notin booked
  BY <1>1 DEF Deliver, Move, ExactInv, ServedInv
<1>5. CASE d # x /\ e # x
  BY <1>1, <1>2, <1>3, <1>5, <1>4 DEF PairInv, LetIn, Accepted
<1>6. ASSUME NEW y \in Deliveries \ {x}, ProofOf[y] = p, LetIn(y), LetIn(x)'
      PROVE  (<<x, y>> \in overlap' /\ <<y, x>> \in overlap') \/ p \in cleared'
  <2>1. verifyPc'[x] = "sending" /\ (Aged(p) \/ consumedAt[p] = NotConsumed)
    BY <1>1, <1>6, <1>4 DEF Deliver, Move, ExactTypeOK, Verifying, LetIn, Accepted
  <2>2. CASE Aged(p)
    BY <1>1, <1>2, <2>2
  <2>3. CASE consumedAt[p] = NotConsumed /\ ~Aged(p)
    <3>1. CASE Accepted(y)
      <4>1. ServedInv(y)
        BY DEF ExactInv
      <4> QED
        BY <1>2, <1>6, <2>3, <3>1, <4>1 DEF ServedInv
    <3>2. CASE verifyPc[y] \in Verifying
      <4>1. y \in Peers(x)
        BY <1>6, <3>2 DEF Peers
      <4>2. overlap' = overlap \cup ({x} \X Peers(x) \cup Peers(x) \X {x})
        BY <1>1, <2>3 DEF Deliver
      <4> QED
        BY <4>1, <4>2
    <3> QED
      BY <1>6, <3>1, <3>2 DEF LetIn
  <2> QED
    BY <2>1, <2>2, <2>3
<1>7. CASE d = x /\ e # x
  <2> SUFFICES ASSUME ProofOf[d] = ProofOf[e],
                      LetIn(d)',
                      LetIn(e)'
               PROVE  <<d, e>> \in overlap' \/ ProofOf[d] \in cleared'
    BY DEF PairInv
  <2>1. LetIn(e) /\ e \in Deliveries \ {x}
    BY <1>3, <1>7, <1>4 DEF LetIn, Accepted
  <2>2. (<<x, e>> \in overlap' /\ <<e, x>> \in overlap') \/ p \in cleared'
    BY <1>6, <1>7, <2>1
  <2> QED
    BY <1>7, <2>2
<1>8. CASE d # x /\ e = x
  <2> SUFFICES ASSUME ProofOf[d] = ProofOf[e],
                      LetIn(d)',
                      LetIn(e)'
               PROVE  <<d, e>> \in overlap' \/ ProofOf[d] \in cleared'
    BY DEF PairInv
  <2>1. LetIn(d) /\ d \in Deliveries \ {x}
    BY <1>3, <1>8, <1>4 DEF LetIn, Accepted
  <2>2. (<<x, d>> \in overlap' /\ <<d, x>> \in overlap') \/ p \in cleared'
    BY <1>6, <1>8, <2>1
  <2> QED
    BY <1>8, <2>2
<1>9. CASE d = x /\ e = x
  BY <1>9 DEF PairInv
<1> QED
  BY <1>5, <1>7, <1>8, <1>9

LEMMA ExactStepPairs ==
  ASSUME ExactInv, [ExactNext]_exactVars, NEW d \in Deliveries, NEW e \in Deliveries
  PROVE  PairInv(d, e)'
<1>1. ASSUME NEW x \in Deliveries, Deliver(x) PROVE PairInv(d, e)'
  BY <1>1, DeliverKeepsPairs
<1>2. CASE \A x \in Deliveries : ~Deliver(x)
  <2>1. PairInv(d, e) /\ ExactTypeOK
    BY DEF ExactInv
  <2> QED
    BY <1>2, <2>1, OthersLetNoneIn DEF PairInv
<1> QED
  BY <1>1, <1>2

(* Who has accepted a transfer stays its backer.                           *)
LEMMA BackerStays ==
  ASSUME ExactTypeOK, [ExactNext]_exactVars, NEW p \in Payments,
         NEW d \in Deliveries, Backer(d, p)
  PROVE  Backer(d, p)'
<1> USE DEF Backer, Accepted, Taking
<1>1. CASE UNCHANGED exactVars
  BY <1>1 DEF exactVars
<1>2. ASSUME NEW e \in Deliveries, Deliver(e) \/ Submitted(e) \/ SubmitFails(e) \/ SeesConfirmed(e)
      PROVE  Backer(d, p)'
  BY <1>2 DEF Deliver, Submitted, SubmitFails, SeesConfirmed, Move, ExactTypeOK
<1>3. ASSUME NEW e \in Deliveries, SeesFailed(e) \/ PollTimesOut(e) \/ Accept(e)
      PROVE  Backer(d, p)'
  BY <1>3 DEF SeesFailed, PollTimesOut, Accept, Move, ExactTypeOK
<1>4. ASSUME NEW e \in Deliveries, CreditShort(e) \/ CheckFails(e) \/ Booked(e) \/ BookingFails(e)
      PROVE  Backer(d, p)'
  BY <1>4 DEF CreditShort, CheckFails, Booked, BookingFails, Move, ExactTypeOK
<1>5. ASSUME NEW q \in Payments, ChainDecides(q) PROVE Backer(d, p)'
  BY <1>5 DEF ChainDecides
<1>6. CASE TimePasses
  BY <1>6 DEF TimePasses
<1>7. CASE GatewayRestarts
  BY <1>7 DEF GatewayRestarts, ExactTypeOK
<1>8. ASSUME NEW e \in Deliveries, CallServed(e) \/ CallRefused(e) PROVE Backer(d, p)'
  BY <1>8 DEF CallServed, CallRefused, Move, ExactTypeOK
<1> QED
  BY <1>1, <1>2, <1>3, <1>4, <1>5, <1>6, <1>7, <1>8 DEF ExactNext

(* What is in the map was put there by a delivery that was accepted.       *)
LEMMA ExactStepBacked ==
  ASSUME ExactInv, [ExactNext]_exactVars, NEW p \in Payments
  PROVE  BackedInv(p)'
<1> USE DEF Taking
<1>1. ExactTypeOK /\ BackedInv(p)
  BY DEF ExactInv
<1>2. CASE consumedAt[p] # NotConsumed
  BY <1>1, <1>2, BackerStays DEF BackedInv
<1>3. CASE consumedAt[p] = NotConsumed
  <2>1. ASSUME NEW d \in Deliveries, Accept(d) PROVE BackedInv(p)'
    BY <1>1, <1>3, <2>1 DEF Accept, EnterConsumed, Move, BackedInv, Backer, Accepted, ExactTypeOK
  <2>2. CASE \A d \in Deliveries : ~Accept(d)
    <3>1. consumedAt'[p] = NotConsumed
      BY <1>1, <1>3, <2>2
         DEF ExactNext, exactVars, Deliver, Submitted, SubmitFails, SeesConfirmed, SeesFailed,
             PollTimesOut, CreditShort, CheckFails, Booked, BookingFails, CallServed, CallRefused,
             ChainDecides, TimePasses, GatewayRestarts
    <3> QED
      BY <3>1 DEF BackedInv
  <2> QED
    BY <2>1, <2>2
<1> QED
  BY <1>2, <1>3

(* A transfer that failed stays failed.                                    *)
LEMMA FailedStays ==
  ASSUME ExactTypeOK, [ExactNext]_exactVars, NEW p \in Payments, onChain[p] = "failed"
  PROVE  onChain'[p] = "failed"
<1>1. ASSUME NEW d \in Deliveries, Submitted(d) \/ SubmitFails(d) PROVE onChain'[p] = "failed"
  BY <1>1, ExactAssumption DEF Submitted, SubmitFails, ExactTypeOK
<1>2. ASSUME NEW q \in Payments, ChainDecides(q) PROVE onChain'[p] = "failed"
  BY <1>2 DEF ChainDecides, ExactTypeOK
<1> QED
  BY <1>1, <1>2
     DEF ExactNext, exactVars, Deliver, SeesConfirmed, SeesFailed, PollTimesOut, Accept,
         CreditShort, CheckFails, Booked, BookingFails, CallServed, CallRefused, TimePasses,
         GatewayRestarts

(* A delivery that is turned away has a reason, at once and for good.      *)
LEMMA ExactStepRejected ==
  ASSUME ExactInv, [ExactNext]_exactVars, NEW d \in Deliveries
  PROVE  RejectedInv(d)'
<1> DEFINE p == ProofOf[d]
<1>1. p \in Payments /\ ExactTypeOK /\ RejectedInv(d) /\ BackedInv(p)
  BY ExactAssumption DEF ExactInv
<1>2. (\E e \in Deliveries : Backer(e, p)) => (\E e \in Deliveries : Backer(e, p)')
  BY <1>1, BackerStays
<1>3. CASE verifyPc[d] = "rejected"
  BY <1>1, <1>2, <1>3, FailedStays DEF RejectedInv, Covers
<1>4. ASSUME verifyPc[d] # "rejected", verifyPc'[d] = "rejected", Covers(d)
      PROVE  onChain'[p] = "failed" \/ \E e \in Deliveries : Backer(e, p)'
  <2>1. ASSUME NEW x \in Deliveries, Deliver(x)
        PROVE  \E e \in Deliveries : Backer(e, p)'
    <3>1. consumedAt[p] # NotConsumed
      BY <1>1, <1>4, <2>1 DEF Deliver, Move, ExactTypeOK
    <3> QED
      BY <1>1, <1>2, <3>1 DEF BackedInv
  <2>2. ASSUME NEW x \in Deliveries, SeesFailed(x) PROVE onChain'[p] = "failed"
    BY <1>1, <1>4, <2>2 DEF SeesFailed, Move, ExactTypeOK
  <2>3. ASSUME NEW x \in Deliveries, CreditShort(x) PROVE FALSE
    BY <1>1, <1>4, <2>3 DEF CreditShort, Move, ExactTypeOK
  <2>4. ASSUME NEW x \in Deliveries,
               SubmitFails(x) \/ PollTimesOut(x) \/ CheckFails(x) \/ BookingFails(x)
        PROVE  Backer(d, p)'
    BY <1>1, <1>4, <2>4 DEF SubmitFails, PollTimesOut, CheckFails, BookingFails, Move, ExactTypeOK,
                            Backer
  <2>5. CASE GatewayRestarts
    BY <1>1, <1>4, <2>5 DEF GatewayRestarts, ExactTypeOK, Backer
  <2>6. ASSUME NEW x \in Deliveries,
               \/ Submitted(x) \/ SeesConfirmed(x) \/ Accept(x)
               \/ Booked(x) \/ CallServed(x) \/ CallRefused(x)
        PROVE  FALSE
    BY <1>1, <1>4, <2>6 DEF Submitted, SeesConfirmed, Accept, Booked, CallServed, CallRefused, Move,
                            ExactTypeOK
  <2>7. verifyPc' # verifyPc
    BY <1>4
  <2> QED
    BY <2>1, <2>2, <2>3, <2>4, <2>5, <2>6, <2>7 DEF ExactNext, exactVars, ChainDecides, TimePasses
<1> QED
  BY <1>3, <1>4 DEF RejectedInv, Covers

LEMMA AlwaysExactInv == ExactSpec => []ExactInv
<1>1. ExactInv /\ [ExactNext]_exactVars => ExactInv'
  <2> SUFFICES ASSUME ExactInv, [ExactNext]_exactVars PROVE ExactInv'
    OBVIOUS
  <2>1. ExactTypeOK'
    BY ExactStepType DEF ExactInv
  <2>2. \A d \in Deliveries : ServedInv(d)'
    BY ExactStepServed
  <2>3. \A d, e \in Deliveries : PairInv(d, e)'
    BY ExactStepPairs
  <2>4. \A p \in Payments : BackedInv(p)'
    BY ExactStepBacked
  <2>5. \A d \in Deliveries : RejectedInv(d)'
    BY ExactStepRejected
  <2> QED
    BY <2>1, <2>2, <2>3, <2>4, <2>5 DEF ExactInv
<1> QED
  BY <1>1, ExactInitInv, PTL DEF ExactSpec

(* The verifier's state keeps its type.                                    *)
THEOREM ExactTypeCorrect == ExactSpec => []ExactTypeOK
<1>1. ExactInv => ExactTypeOK
  BY DEF ExactInv
<1> QED
  BY <1>1, AlwaysExactInv, PTL

(* One payment buys no two calls or credits, but for deliveries verified   *)
(* at the same time and payments the map has lost: for any number of       *)
(* deliveries to either endpoint, and any time to live (verifyX402Payment, *)
(* pruneConsumed, handleTopup).                                            *)
THEOREM AlwaysServedOnce == ExactSpec => []ServedOnceUnlessOverlapping
<1>1. ExactInv => ServedOnceUnlessOverlapping
  BY DEF ExactInv, PairInv, ServedOnceUnlessOverlapping, LetIn, Accepted, Got
<1> QED
  BY <1>1, AlwaysExactInv, PTL

(* What is taken for a payment was paid, and a payment that went through   *)
(* is turned away by the verifier only after it was taken for a delivery   *)
(* already, an RPC of the chain failed, or the verification died: whatever *)
(* the chain, the ledger and the handler do, and in whatever order         *)
(* deliveries, confirmations and restarts come (verifyX402Payment,         *)
(* handleTopup).                                                           *)
THEOREM AlwaysPaidIsTaken == ExactSpec => []PaidIsTaken
<1>1. ExactInv => PaidIsTaken
  <2> SUFFICES ASSUME ExactInv, NEW d \in Deliveries
      PROVE  /\ Accepted(d) => onChain[ProofOf[d]] = "confirmed" /\ CreditOf[ProofOf[d]] >= PriceOf[d]
             /\ /\ onChain[ProofOf[d]] = "confirmed"
                /\ CreditOf[ProofOf[d]] >= PriceOf[d]
                /\ verifyPc[d] = "rejected"
                => \E e \in Deliveries :
                     ProofOf[e] = ProofOf[d] /\ (Accepted(e) \/ e \in doubt)
    BY DEF PaidIsTaken
  <2>1. ServedInv(d) /\ RejectedInv(d)
    BY DEF ExactInv
  <2> QED
    BY <2>1 DEF ServedInv, RejectedInv, Backer, Covers
<1> QED
  BY <1>1, AlwaysExactInv, PTL

-----------------------------------------------------------------------------
(* The client.                                                             *)

(* A challenge none of whose charges overlapped or failed, or any of the   *)
(* Solana provider, is paid once it is settled and not before, and one     *)
(* fetch at most is settling it.                                           *)
Clear(k) == provider = "solana" \/ k \notin blurred

OnceInv(k) ==
  Clear(k) =>
    /\ moved[k] = IF k \in settled THEN 1 ELSE 0
    /\ Settling(k) # {} => k \notin settled
    /\ \A f, g \in Settling(k) : f = g

DueInv ==
  \A f \in Callers : fetchPc[f] \in {"settling", "paying"} =>
    due[f] \in Challenges /\ retries[f] < MaxPaymentRetries

PayInv == PayTypeOK /\ DueInv /\ \A k \in Challenges : OnceInv(k)

LEMMA PayInitInv == PayInit => PayInv
BY PayingAssumption DEF PayInit, PayInv, PayTypeOK, DueInv, OnceInv, Clear, Settling

(* A fetch that ends leaves the others as they are.                        *)
LEMMA EndsType ==
  ASSUME PayTypeOK, NEW F \in SUBSET Callers, FetchEnds(F)
  PROVE  /\ fetchPc' \in [Callers -> {"idle", "sent", "settling", "paying"}]
         /\ due' \in [Callers -> Challenges \cup {NoChallenge}]
         /\ retries' \in [Callers -> 0 .. MaxPaymentRetries]
         /\ \A f \in Callers : fetchPc'[f] # "idle" =>
              /\ f \notin F /\ fetchPc'[f] = fetchPc[f]
              /\ due'[f] = due[f] /\ retries'[f] = retries[f]
BY PayingAssumption DEF PayTypeOK, FetchEnds

(* Every step keeps the types.                                             *)
LEMMA PayStepType ==
  ASSUME PayInv, [PayNext]_payVars
  PROVE  PayTypeOK' /\ DueInv'
<1> USE PayingAssumption DEF PayInv, PayTypeOK, DueInv
<1>1. CASE UNCHANGED payVars
  BY <1>1 DEF payVars
<1>2. ASSUME NEW f \in Callers, Fetch(f) PROVE PayTypeOK' /\ DueInv'
  BY <1>2 DEF Fetch
<1>3. ASSUME NEW f \in Callers, Responds(f) PROVE PayTypeOK' /\ DueInv'
  BY <1>3, EndsType DEF Responds
<1>4. ASSUME NEW f \in Callers, NEW k \in Challenges, Challenged(f, k) PROVE PayTypeOK' /\ DueInv'
  <2>1. CASE WithinCaps(k)
    BY <1>4, <2>1 DEF Challenged, MayRetry
  <2>2. CASE ~WithinCaps(k)
    BY <1>4, <2>2, EndsType DEF Challenged
  <2> QED
    BY <2>1, <2>2
<1>5. ASSUME NEW f \in Callers, Settles(f) PROVE PayTypeOK' /\ DueInv'
  BY <1>5 DEF Settles
<1>6. ASSUME NEW f \in Callers, PayFails(f) PROVE PayTypeOK' /\ DueInv'
  <2> DEFINE k == due[f]
             F == {f} \cup IF k \in settled THEN {} ELSE Paying(k)
  <2>1. F \in SUBSET Callers /\ FetchEnds(F) /\ k \in Challenges
    BY <1>6 DEF PayFails, Paying
  <2>2. /\ moved' \in [Challenges -> Nat] /\ blurred' \subseteq Challenges
        /\ UNCHANGED <<provider, spentThisProcess, settled, pays>>
    BY <1>6, <2>1 DEF PayFails
  <2>3. /\ fetchPc' \in [Callers -> {"idle", "sent", "settling", "paying"}]
        /\ due' \in [Callers -> Challenges \cup {NoChallenge}]
        /\ retries' \in [Callers -> 0 .. MaxPaymentRetries]
        /\ \A g \in Callers : fetchPc'[g] # "idle" =>
             fetchPc'[g] = fetchPc[g] /\ due'[g] = due[g] /\ retries'[g] = retries[g]
    <3> HIDE DEF F
    <3> QED
      BY <2>1, EndsType
  <2> QED
    BY <2>2, <2>3
<1>7. ASSUME NEW f \in Callers, Paid(f) PROVE PayTypeOK' /\ DueInv'
  <2>1. AmountOf[due[f]] \in Nat
    BY <1>7 DEF Paid
  <2>2. retries[f] + 1 \in 0 .. MaxPaymentRetries
    BY <1>7 DEF Paid
  <2> QED
    BY <1>7, <2>1, <2>2 DEF Paid
<1> QED
  BY <1>1, <1>2, <1>3, <1>4, <1>5, <1>6, <1>7 DEF PayNext

(* Every step keeps a challenge paid once.                                 *)
LEMMA PayStepOnce ==
  ASSUME PayInv, [PayNext]_payVars, NEW k \in Challenges
  PROVE  OnceInv(k)'
<1>1. OnceInv(k) /\ PayTypeOK /\ DueInv
  BY DEF PayInv
<1> USE DEF PayTypeOK, OnceInv, Clear, Settling
<1>2. CASE UNCHANGED payVars
  BY <1>1, <1>2 DEF payVars
<1>3. ASSUME NEW f \in Callers, Fetch(f) PROVE OnceInv(k)'
  BY <1>1, <1>3 DEF Fetch
<1>4. ASSUME NEW f \in Callers, Responds(f) PROVE OnceInv(k)'
  BY <1>1, <1>4, EndsType DEF Responds
<1>5. ASSUME NEW f \in Callers, NEW j \in Challenges, Challenged(f, j) PROVE OnceInv(k)'
  <2>1. CASE ~WithinCaps(j)
    BY <1>1, <1>5, <2>1, EndsType DEF Challenged
  <2>2. CASE WithinCaps(j) /\ (j \in settled \/ Joins(j))
    BY <1>1, <1>5, <2>2 DEF Challenged
  <2>3. CASE WithinCaps(j) /\ ~(j \in settled \/ Joins(j))
    <3>1. /\ fetchPc' = [fetchPc EXCEPT ![f] = "settling"]
          /\ due' = [due EXCEPT ![f] = j]
          /\ blurred' = IF Settling(j) # {} THEN blurred \cup {j} ELSE blurred
          /\ UNCHANGED <<provider, settled, moved>>
          /\ fetchPc[f] = "sent"
      BY <1>5, <2>3 DEF Challenged
    <3>2. CASE k # j
      BY <1>1, <3>1, <3>2
    <3>3. CASE k = j /\ Settling(j) = {}
      BY <1>1, <2>3, <3>1, <3>3
    <3>4. CASE k = j /\ Settling(j) # {}
      BY <1>1, <2>3, <3>1, <3>4 DEF Joins
    <3> QED
      BY <3>2, <3>3, <3>4
  <2> QED
    BY <2>1, <2>2, <2>3
<1>6. ASSUME NEW f \in Callers, Settles(f) PROVE OnceInv(k)'
  <2>1. due[f] \in Challenges
    BY <1>1, <1>6 DEF Settles, DueInv
  <2>2. CASE due[f] = k
    BY <1>1, <1>6, <2>2 DEF Settles
  <2>3. CASE due[f] # k
    BY <1>1, <1>6, <2>1, <2>3 DEF Settles
  <2> QED
    BY <2>2, <2>3
<1>7. ASSUME NEW f \in Callers, PayFails(f) PROVE OnceInv(k)'
  <2> DEFINE F == {f} \cup IF due[f] \in settled THEN {} ELSE Paying(due[f])
  <2>1. F \in SUBSET Callers /\ FetchEnds(F) /\ due[f] \in Challenges
    BY <1>1, <1>7 DEF PayFails, Paying, DueInv
  <2>2. \A g \in Callers : fetchPc'[g] # "idle" => fetchPc'[g] = fetchPc[g] /\ due'[g] = due[g]
    <3> HIDE DEF F
    <3> QED
      BY <1>1, <2>1, EndsType
  <2>3. Settling(k)' \subseteq Settling(k)
    BY <2>2
  <2>4. Clear(k)' => Clear(k) /\ moved'[k] = moved[k] /\ settled' = settled
    BY <1>1, <1>7, <2>1 DEF PayFails
  <2> QED
    BY <1>1, <2>3, <2>4
<1>8. ASSUME NEW f \in Callers, Paid(f) PROVE OnceInv(k)'
  BY <1>1, <1>8 DEF Paid
<1> QED
  BY <1>2, <1>3, <1>4, <1>5, <1>6, <1>7, <1>8 DEF PayNext

LEMMA AlwaysPayInv == PaySpec => []PayInv
<1>1. PayInv /\ [PayNext]_payVars => PayInv'
  BY PayStepType, PayStepOnce DEF PayInv
<1> QED
  BY <1>1, PayInitInv, PTL DEF PaySpec

(* The client's state keeps its type; no fetch pays oftener than           *)
(* maxPaymentRetries.                                                      *)
THEOREM PayTypeCorrect == PaySpec => []PayTypeOK
<1>1. PayInv => PayTypeOK
  BY DEF PayInv
<1> QED
  BY <1>1, AlwaysPayInv, PTL

(* A challenge is paid once, by however many fetches it is met, at once or *)
(* later: always over the Solana provider, and over Paybox unless charges  *)
(* of it overlapped or failed (createPayingFetch, both pay functions).     *)
THEOREM AlwaysOnePayment == PaySpec => []OnePaymentPerChallenge
<1>1. PayInv => OnePaymentPerChallenge
  BY DEF PayInv, PayTypeOK, OnceInv, Clear, OnePaymentPerChallenge
<1> QED
  BY <1>1, AlwaysPayInv, PTL

(* The callers whose payment is awaited.                                   *)
Payers == {f \in Callers : fetchPc[f] \in {"settling", "paying"}}

(* One of them was within the cap, and the others are paying at most the   *)
(* largest amount each.                                                    *)
WithinCap(f) ==
  spentThisProcess + AmountOf[due[f]] + (Cardinality(Payers) - 1) * MaxAmount <= MostSpent

CapInv ==
  \/ Payers = {} /\ CountedOvershoot
  \/ \E f \in Payers : WithinCap(f)

LEMMA FewerPayLess ==
  ASSUME NEW a \in Nat, NEW m \in Nat, NEW n \in Nat, m <= n
  PROVE  m * a <= n * a /\ (m - 1) * a + a = m * a /\ m * a \in Nat
OBVIOUS

(* The numbers of callers and of payers.                                   *)
LEMMA PayersCount ==
  ASSUME PayInv
  PROVE  /\ Cardinality(Callers) \in Nat \ {0}
         /\ IsFiniteSet(Payers) /\ Payers \subseteq Callers
         /\ Cardinality(Payers) \in Nat /\ Cardinality(Payers) <= Cardinality(Callers)
         /\ Payers # {} => Cardinality(Payers) >= 1
         /\ \A f \in Payers : due[f] \in Challenges /\ AmountOf[due[f]] \in 0 .. MaxAmount
         /\ spentThisProcess \in Nat
<1>1. IsFiniteSet(Callers) /\ Payers \in SUBSET Callers /\ Callers # {}
  BY PayingAssumption DEF Payers
<1>2. IsFiniteSet(Payers) /\ Cardinality(Payers) <= Cardinality(Callers)
  BY <1>1, FS_Subset
<1>3. Cardinality(Callers) \in Nat /\ Cardinality(Payers) \in Nat
  BY <1>1, <1>2, FS_CardinalityType
<1>4. Cardinality(Callers) # 0 /\ (Payers # {} => Cardinality(Payers) # 0)
  BY <1>1, <1>2, FS_EmptySet
<1>5. \A f \in Payers : due[f] \in Challenges
  BY DEF PayInv, DueInv, Payers
<1>6. \A f \in Payers : AmountOf[due[f]] \in 0 .. MaxAmount
  BY <1>5, PayingAssumption
<1>7. spentThisProcess \in Nat
  BY DEF PayInv, PayTypeOK
<1> QED
  BY <1>1, <1>2, <1>3, <1>4, <1>5, <1>6, <1>7

(* The payment that was within the cap is counted, and another is there.   *)
LEMMA NextIsWithin ==
  ASSUME NEW max \in Nat, NEW x \in Nat, NEW most \in Int, NEW n \in Nat, NEW m \in Nat,
         NEW a \in 0 .. max, NEW b \in 0 .. max, 1 <= m, m <= n - 1,
         x + a + (n - 1) * max <= most
  PROVE  x + a + b + (m - 1) * max <= most
<1>1. n - 1 \in Nat /\ m <= n - 1
  OBVIOUS
<1>2. m * max <= (n - 1) * max /\ (m - 1) * max + max = m * max /\ m * max \in Nat
  BY <1>1, FewerPayLess
<1>3. (m - 1) * max \in Int /\ (n - 1) * max \in Int
  BY <1>1
<1> HIDE <1>1
<1> QED
  BY <1>2, <1>3

LEMMA MostSpentType == PayInv => MostSpent \in Int
<1> SUFFICES ASSUME PayInv PROVE MostSpent \in Int
  OBVIOUS
<1>1. Cardinality(Callers) - 1 \in Nat
  BY PayersCount
<1>2. (Cardinality(Callers) - 1) * MaxAmount \in Nat
  BY <1>1, FewerPayLess, PayingAssumption
<1> QED
  BY <1>2, PayingAssumption DEF MostSpent

(* Payers that stop, one of them with its amount counted or none, leave    *)
(* the others within the cap.                                              *)
LEMMA FewerStayWithin ==
  ASSUME PayInv, CapInv, Payers' \subseteq Payers, \A g \in Payers' : due'[g] = due[g],
         \/ spentThisProcess' = spentThisProcess
         \/ \E f \in Payers : /\ Payers' = Payers \ {f}
                             /\ spentThisProcess' = spentThisProcess + AmountOf[due[f]]
  PROVE  CapInv'
<1> DEFINE n == Cardinality(Payers)
           m == Cardinality(Payers')
           x == spentThisProcess
           A(f) == AmountOf[due[f]]
<1>1. CASE Payers = {}
  BY <1>1 DEF CapInv, CountedOvershoot, MostSpent
<1>2. CASE Payers # {}
  <2>1. PICK w \in Payers : WithinCap(w)
    BY <1>2 DEF CapInv
  <2>2. /\ n \in Nat /\ n >= 1 /\ IsFiniteSet(Payers) /\ x \in Nat /\ MostSpent \in Int
        /\ MaxAmount \in Nat /\ \A f \in Payers : A(f) \in 0 .. MaxAmount
    BY <1>2, PayersCount, MostSpentType, PayingAssumption
  <2>3. /\ IsFiniteSet(Payers') /\ m \in Nat /\ m <= n
        /\ Payers' # {} => m >= 1
    BY <2>2, FS_Subset, FS_CardinalityType, FS_EmptySet
  <2>4. \A f \in Payers \ Payers' : m <= n - 1
    <3> SUFFICES ASSUME NEW f \in Payers \ Payers' PROVE m <= n - 1
      OBVIOUS
    <3>1. IsFiniteSet(Payers \ {f}) /\ Cardinality(Payers \ {f}) = n - 1
      BY <2>2, FS_RemoveElement
    <3> QED
      BY <3>1, FS_Subset
  <2>5. /\ (n - 1) * MaxAmount \in Nat /\ x + A(w) + (n - 1) * MaxAmount <= MostSpent
        /\ A(w) \in 0 .. MaxAmount
    <3>1. n - 1 \in Nat
      BY <2>2
    <3>2. (n - 1) * MaxAmount \in Nat
      BY <2>2, <3>1, FewerPayLess
    <3> QED
      BY <2>1, <2>2, <3>2 DEF WithinCap
  <2>6. x' = x \/ \E f \in Payers : Payers' = Payers \ {f} /\ x' = x + A(f)
    OBVIOUS
  <2>7. (\E f \in Payers' : x' + A(f) + (m - 1) * MaxAmount <= MostSpent) => CapInv'
    BY DEF CapInv, WithinCap, MostSpent
  <2>8. Payers' = {} /\ x' <= MostSpent => CapInv'
    BY DEF CapInv, CountedOvershoot, MostSpent
  <2> HIDE DEF n, m, x, A
  <2>9. CASE w \in Payers' /\ x' = x
    <3>1. (m - 1) * MaxAmount <= (n - 1) * MaxAmount /\ (m - 1) * MaxAmount \in Nat
      <4>1. m - 1 \in Nat /\ n - 1 \in Nat /\ m - 1 <= n - 1
        BY <2>2, <2>3, <2>9
      <4> QED
        BY <2>2, <4>1, FewerPayLess
    <3> QED
      BY <2>2, <2>5, <2>7, <2>9, <3>1
  <2>10. CASE w \in Payers' /\ x' # x
    <3>1. PICK f \in Payers : Payers' = Payers \ {f} /\ x' = x + A(f)
      BY <2>6, <2>10
    <3>2. m <= n - 1 /\ m >= 1
      BY <2>3, <2>4, <2>10, <3>1
    <3>3. x + A(w) + A(f) + (m - 1) * MaxAmount <= MostSpent
      BY <2>2, <2>3, <2>5, <3>2, NextIsWithin
    <3>4. x + A(w) + A(f) = x' + A(w)
      BY <2>2, <3>1
    <3> QED
      BY <2>7, <2>10, <3>3, <3>4
  <2>11. CASE w \notin Payers'
    <3>1. x' \in Nat /\ x' <= x + A(w)
      BY <2>2, <2>6, <2>11
    <3>2. m <= n - 1
      BY <2>4, <2>11
    <3>3. CASE Payers' = {}
      BY <2>2, <2>5, <2>8, <3>1, <3>3
    <3>4. ASSUME NEW g \in Payers' PROVE CapInv'
      <4>1. A(g) \in 0 .. MaxAmount /\ m >= 1
        BY <2>2, <2>3
      <4>2. x + A(w) + A(g) + (m - 1) * MaxAmount <= MostSpent
        BY <2>2, <2>3, <2>5, <3>2, <4>1, NextIsWithin
      <4>3. m - 1 \in Nat /\ (m - 1) * MaxAmount \in Nat
        BY <2>2, <2>3, <4>1, FewerPayLess
      <4>4. x' + A(g) + (m - 1) * MaxAmount <= MostSpent
        BY <2>2, <2>5, <3>1, <4>1, <4>2, <4>3
      <4> QED
        BY <2>7, <4>4
    <3> QED
      BY <3>3, <3>4
  <2> QED
    BY <2>9, <2>10, <2>11
<1> QED
  BY <1>1, <1>2

(* Every step keeps the cap.                                               *)
LEMMA PayStepCap ==
  ASSUME PayInv, PayInv', CapInv, [PayNext]_payVars
  PROVE  CapInv'
<1> USE DEF PayInv, PayTypeOK
<1>1. ASSUME NEW F \in SUBSET Callers, FetchEnds(F), spentThisProcess' = spentThisProcess
      PROVE  CapInv'
  <2>1. Payers' \subseteq Payers /\ \A g \in Payers' : due'[g] = due[g]
    BY <1>1, EndsType DEF Payers
  <2> QED
    BY <1>1, <2>1, FewerStayWithin
<1>2. CASE UNCHANGED payVars
  BY <1>2, FewerStayWithin DEF payVars, Payers
<1>3. ASSUME NEW f \in Callers, Fetch(f) PROVE CapInv'
  BY <1>3, FewerStayWithin DEF Fetch, Payers
<1>4. ASSUME NEW f \in Callers, Responds(f) PROVE CapInv'
  BY <1>1, <1>4 DEF Responds
<1>5. ASSUME NEW f \in Callers, NEW k \in Challenges, Challenged(f, k) PROVE CapInv'
  <2>1. CASE ~WithinCaps(k)
    BY <1>1, <1>5, <2>1 DEF Challenged
  <2>2. CASE WithinCaps(k)
    <3>1. /\ due' = [due EXCEPT ![f] = k] /\ spentThisProcess' = spentThisProcess
          /\ fetchPc' = [fetchPc EXCEPT ![f] = "paying"] \/ fetchPc' = [fetchPc EXCEPT ![f] = "settling"]
      BY <1>5, <2>2 DEF Challenged
    <3>2. f \in Payers' /\ due'[f] = k /\ Payers' \in SUBSET Callers
      BY <3>1 DEF Payers
    <3>3. spentThisProcess + AmountOf[k] <= PerProcessCap /\ AmountOf[k] \in Nat
      BY <2>2, PayingAssumption DEF WithinCaps
    <3>4. /\ (Cardinality(Payers') - 1) * MaxAmount <= (Cardinality(Callers) - 1) * MaxAmount
          /\ (Cardinality(Payers') - 1) * MaxAmount \in Nat
          /\ (Cardinality(Callers) - 1) * MaxAmount \in Nat
      <4>1. IsFiniteSet(Payers') /\ Cardinality(Payers') <= Cardinality(Callers)
        BY <3>2, FS_Subset, PayingAssumption
      <4>2. Cardinality(Payers') \in Nat /\ Cardinality(Payers') # 0 /\ Cardinality(Callers) \in Nat
        BY <3>2, <4>1, FS_CardinalityType, FS_EmptySet, PayingAssumption
      <4>3. Cardinality(Payers') - 1 \in Nat /\ Cardinality(Callers) - 1 \in Nat
            /\ Cardinality(Payers') - 1 <= Cardinality(Callers) - 1
        BY <4>1, <4>2
      <4>4. (Cardinality(Callers) - 1) * MaxAmount \in Nat
            /\ (Cardinality(Payers') - 1) * MaxAmount \in Nat
        BY <4>3, FewerPayLess, PayingAssumption
      <4> QED
        BY <4>3, <4>4, FewerPayLess, PayingAssumption
    <3>5. WithinCap(f)'
      BY <3>1, <3>2, <3>3, <3>4, PayingAssumption DEF WithinCap, MostSpent
    <3> QED
      BY <3>2, <3>5 DEF CapInv
  <2> QED
    BY <2>1, <2>2
<1>6. ASSUME NEW f \in Callers, Settles(f) PROVE CapInv'
  BY <1>6, FewerStayWithin DEF Settles, Payers
<1>7. ASSUME NEW f \in Callers, PayFails(f) PROVE CapInv'
  <2> DEFINE F == {f} \cup IF due[f] \in settled THEN {} ELSE Paying(due[f])
  <2>1. F \in SUBSET Callers /\ FetchEnds(F) /\ spentThisProcess' = spentThisProcess
    BY <1>7 DEF PayFails, Paying
  <2> HIDE DEF F
  <2> QED
    BY <1>1, <2>1
<1>8. ASSUME NEW f \in Callers, Paid(f) PROVE CapInv'
  <2>1. /\ f \in Payers /\ Payers' = Payers \ {f}
        /\ \A g \in Payers' : due'[g] = due[g]
        /\ spentThisProcess' = spentThisProcess + AmountOf[due[f]]
    BY <1>8 DEF Paid, Payers
  <2> QED
    BY <2>1, FewerStayWithin
<1> QED
  BY <1>2, <1>3, <1>4, <1>5, <1>6, <1>7, <1>8 DEF PayNext

(* Both are kept.                                                          *)
LEMMA AlwaysCapInv == PaySpec => [](PayInv /\ CapInv)
<1>1. PayInit => CapInv
  <2> SUFFICES ASSUME PayInit PROVE CapInv
    OBVIOUS
  <2>1. Payers = {} /\ spentThisProcess = 0 /\ PayInv
    BY PayInitInv DEF PayInit, Payers
  <2>2. (Cardinality(Callers) - 1) * MaxAmount \in Nat
    <3>1. Cardinality(Callers) - 1 \in Nat
      BY <2>1, PayersCount
    <3> QED
      BY <3>1, FewerPayLess, PayingAssumption
  <2> QED
    BY <2>1, <2>2, PayingAssumption DEF CapInv, CountedOvershoot, MostSpent
<1>2. PayInv /\ PayInv' /\ CapInv /\ [PayNext]_payVars => CapInv'
  BY PayStepCap
<1> QED
  BY <1>1, <1>2, AlwaysPayInv, PTL DEF PaySpec

(* What a process has counted passes its cap by one largest payment for    *)
(* each other caller at most (createPayingFetch: WithinCaps before pay is  *)
(* awaited, the count after it).                                           *)
THEOREM AlwaysCountedOvershoot == PaySpec => []CountedOvershoot
<1>1. PayInv /\ CapInv => CountedOvershoot
  <2> SUFFICES ASSUME PayInv, NEW f \in Payers, WithinCap(f) PROVE CountedOvershoot
    BY DEF CapInv
  <2>1. Cardinality(Payers) - 1 \in Nat /\ AmountOf[due[f]] \in Nat /\ spentThisProcess \in Nat
    BY PayersCount
  <2>2. (Cardinality(Payers) - 1) * MaxAmount \in Nat
    BY <2>1, FewerPayLess, PayingAssumption
  <2> QED
    BY <2>1, <2>2, MostSpentType DEF WithinCap, CountedOvershoot
<1> QED
  BY <1>1, AlwaysCapInv, PTL

-----------------------------------------------------------------------------
(* What the Solana provider signs away was counted, or will be by a fetch  *)
(* that awaits its pay: what is settled is not lost by a settle that fails.*)

Awaits(f) == fetchPc[f] = "paying" /\ due[f] \in settled

Uncounted == [f \in Callers |-> IF Awaits(f) THEN AmountOf[due[f]] ELSE 0]

Moves == [k \in Challenges |-> moved[k] * AmountOf[k]]

MovedInv ==
  provider = "solana" => MovedUsd <= spentThisProcess + SumFunctionOnSet(Uncounted, Callers)

LEMMA UncountedTyped ==
  ASSUME PayInv
  PROVE  /\ IsFiniteSet(Callers)
         /\ \A f \in Callers : Uncounted[f] \in 0 .. MaxAmount /\ Uncounted[f] \in Int
         /\ SumFunctionOnSet(Uncounted, Callers) \in Nat
<1>1. IsFiniteSet(Callers) /\ MaxAmount \in Nat
  BY PayingAssumption
<1>2. \A f \in Callers : Uncounted[f] \in 0 .. MaxAmount
  <2>1. \A f \in Callers : Awaits(f) => AmountOf[due[f]] \in 0 .. MaxAmount
    BY PayingAssumption DEF Awaits, PayInv, DueInv
  <2> QED
    BY <1>1, <2>1 DEF Uncounted
<1>3. \A f \in Callers : Uncounted[f] \in Nat
  BY <1>1, <1>2
<1> HIDE DEF Uncounted
<1>4. SumFunctionOnSet(Uncounted, Callers) \in Nat
  BY <1>1, <1>3, SumOfNats
<1> QED
  BY <1>1, <1>2, <1>3, <1>4

LEMMA NextUncountedTyped ==
  ASSUME PayInv'
  PROVE  /\ \A f \in Callers : Uncounted'[f] \in 0 .. MaxAmount /\ Uncounted'[f] \in Int
         /\ SumFunctionOnSet(Uncounted', Callers) \in Nat
<1>1. IsFiniteSet(Callers) /\ MaxAmount \in Nat
  BY PayingAssumption
<1>2. \A f \in Callers : Uncounted'[f] \in 0 .. MaxAmount
  <2>1. \A f \in Callers : Awaits(f)' => AmountOf[due'[f]] \in 0 .. MaxAmount
    BY PayingAssumption DEF Awaits, PayInv, DueInv
  <2> QED
    BY <1>1, <2>1 DEF Uncounted
<1> DEFINE after == Uncounted'
<1>3. \A f \in Callers : after[f] \in Nat
  BY <1>1, <1>2
<1> HIDE DEF after
<1>4. SumFunctionOnSet(after, Callers) \in Nat
  BY <1>1, <1>3, SumOfNats
<1> QED
  BY <1>1, <1>2, <1>3, <1>4 DEF after

LEMMA TimesIsNat ==
  ASSUME NEW m \in Nat, NEW a \in Nat
  PROVE  m * a \in Nat /\ m * a \in Int /\ (m + 1) * a = m * a + a
OBVIOUS

LEMMA MovesTyped ==
  ASSUME PayTypeOK
  PROVE  /\ IsFiniteSet(Challenges) /\ \A k \in Challenges : Moves[k] \in Int
         /\ MovedUsd = SumFunctionOnSet(Moves, Challenges) /\ MovedUsd \in Int
<1>1. IsFiniteSet(Challenges) /\ \A k \in Challenges : moved[k] \in Nat /\ AmountOf[k] \in Nat
  BY PayingAssumption DEF PayTypeOK
<1>2. \A k \in Challenges : Moves[k] \in Int
  BY <1>1, TimesIsNat DEF Moves
<1>3. MovedUsd = SumFunctionOnSet(Moves, Challenges)
  BY DEF MovedUsd, Moves
<1> HIDE DEF Moves
<1>4. SumFunctionOnSet(Moves, Challenges) \in Int
  BY <1>1, <1>2, SumOfIntegers
<1> QED
  BY <1>1, <1>2, <1>3, <1>4

(* A payment adds its amount to what was moved.                            *)
LEMMA OneMoveMore ==
  ASSUME PayTypeOK, NEW k \in Challenges, moved' = [moved EXCEPT ![k] = @ + 1]
  PROVE  MovedUsd' = MovedUsd + AmountOf[k]
<1> DEFINE before == Moves
           after  == Moves'
           a == AmountOf[k]
<1>1. /\ IsFiniteSet(Challenges) /\ \A j \in Challenges : before[j] \in Int
      /\ MovedUsd = SumFunctionOnSet(before, Challenges)
  BY MovesTyped
<1>2. MovedUsd' = SumFunctionOnSet(after, Challenges)
  BY DEF MovedUsd, Moves
<1>3. after[k] = before[k] + a /\ a \in Nat
  <2>1. moved[k] \in Nat /\ AmountOf[k] \in Nat /\ moved'[k] = moved[k] + 1
    <3>1. moved \in [Challenges -> Nat] /\ AmountOf[k] \in 0 .. MaxAmount
      BY PayingAssumption DEF PayTypeOK
    <3> QED
      BY <3>1
  <2>2. moved'[k] * AmountOf[k] = moved[k] * AmountOf[k] + AmountOf[k]
    BY <2>1, TimesIsNat
  <2> QED
    BY <2>1, <2>2 DEF Moves
<1>4. \A j \in Challenges \ {k} : after[j] = before[j]
  BY DEF PayTypeOK, Moves
<1> HIDE DEF before, after, a
<1>5. \A j \in Challenges : after[j] \in Int
  BY <1>1, <1>3, <1>4
<1>6. SumFunctionOnSet(after, Challenges) = SumFunctionOnSet(before, Challenges) - before[k] + after[k]
  BY <1>1, <1>4, <1>5, SumChanged
<1>7. SumFunctionOnSet(before, Challenges) \in Int
  BY <1>1, SumOfIntegers
<1> QED
  BY <1>1, <1>2, <1>3, <1>6, <1>7 DEF a

(* A step in which no one who awaits goes loses nothing.                   *)
LEMMA AwaitersStay ==
  ASSUME PayInv, PayInv', MovedInv, UNCHANGED <<provider, spentThisProcess>>,
         provider = "solana" => UNCHANGED moved,
         \A f \in Callers : Awaits(f) => Awaits(f)' /\ due'[f] = due[f]
  PROVE  MovedInv'
<1> SUFFICES ASSUME provider = "solana" PROVE MovedInv'
  BY DEF MovedInv
<1> DEFINE before == Uncounted
           after  == Uncounted'
<1>1. \A f \in Callers : before[f] \in Int /\ after[f] \in Int /\ before[f] <= after[f]
  <2>1. \A f \in Callers : before[f] = IF Awaits(f) THEN after[f] ELSE 0
    BY DEF Uncounted
  <2>2. MaxAmount \in Nat /\ \A f \in Callers : after[f] \in 0 .. MaxAmount
    BY NextUncountedTyped, PayingAssumption
  <2> HIDE DEF before, after
  <2> QED
    BY <2>1, <2>2
<1>2. /\ IsFiniteSet(Callers) /\ SumFunctionOnSet(before, Callers) \in Nat
      /\ SumFunctionOnSet(after, Callers) \in Nat
  BY UncountedTyped, NextUncountedTyped
<1>3. MovedUsd' = MovedUsd /\ MovedUsd \in Int /\ spentThisProcess \in Nat
  BY MovesTyped DEF MovedUsd, PayInv, PayTypeOK
<1>4. MovedUsd <= spentThisProcess + SumFunctionOnSet(before, Callers)
  BY DEF MovedInv
<1>5. MovedUsd' <= spentThisProcess' + SumFunctionOnSet(after, Callers)
  <2> HIDE DEF before, after
  <2>1. SumFunctionOnSet(before, Callers) <= SumFunctionOnSet(after, Callers)
    BY <1>1, <1>2, SumAtMost
  <2> QED
    BY <1>2, <1>3, <1>4, <2>1
<1> QED
  BY <1>5 DEF MovedInv

LEMMA SettlesKeepsMoved ==
  ASSUME PayInv, PayInv', MovedInv, NEW f \in Callers, Settles(f)
  PROVE  MovedInv'
<1> SUFFICES ASSUME provider = "solana" PROVE MovedInv'
  BY DEF Settles, MovedInv
<1> DEFINE k      == due[f]
           a      == AmountOf[k]
           before == Uncounted
           middle == [Uncounted EXCEPT ![f] = a]
           after  == Uncounted'
<1>1. /\ fetchPc[f] = "settling" /\ k \in Challenges /\ settled' = settled \cup {k}
      /\ fetchPc' = [fetchPc EXCEPT ![f] = "paying"]
      /\ UNCHANGED <<provider, due, spentThisProcess>>
      /\ moved' = [moved EXCEPT ![k] = @ + 1]
  BY DEF Settles, PayInv, DueInv
<1>2. MovedUsd' = MovedUsd + a /\ MovedUsd \in Int /\ a \in Nat /\ spentThisProcess \in Nat
  <2>1. PayTypeOK /\ a \in 0 .. MaxAmount
    BY <1>1, PayingAssumption DEF PayInv
  <2>2. MovedUsd' = MovedUsd + a /\ MovedUsd \in Int
    BY <1>1, <2>1, OneMoveMore, MovesTyped
  <2> QED
    BY <2>1, <2>2 DEF PayTypeOK
<1>3. /\ IsFiniteSet(Callers) /\ SumFunctionOnSet(before, Callers) \in Nat
      /\ \A g \in Callers : before[g] \in Int
      /\ SumFunctionOnSet(after, Callers) \in Nat
      /\ \A g \in Callers : after[g] \in 0 .. MaxAmount /\ after[g] \in Int
  BY UncountedTyped, NextUncountedTyped
<1>4. /\ before[f] = 0 /\ middle[f] = a /\ \A g \in Callers \ {f} : middle[g] = before[g]
  BY <1>1 DEF Uncounted, Awaits
<1>5. after[f] = a /\ \A g \in Callers \ {f} : before[g] = after[g] \/ before[g] = 0
  BY <1>1 DEF Uncounted, Awaits, PayInv, PayTypeOK
<1>6. MovedUsd <= spentThisProcess + SumFunctionOnSet(before, Callers)
  BY DEF MovedInv
<1>7. MovedUsd' <= spentThisProcess' + SumFunctionOnSet(after, Callers)
  <2>1. \A g \in Callers : 0 <= after[g]
    BY <1>3
  <2> HIDE DEF before, middle, after, a
  <2>2. \A g \in Callers : middle[g] \in Int /\ middle[g] <= after[g]
    BY <1>2, <1>3, <1>4, <1>5, <2>1
  <2>3. SumFunctionOnSet(middle, Callers)
          = SumFunctionOnSet(before, Callers) - before[f] + middle[f]
    BY <1>3, <1>4, <2>2, SumChanged
  <2>4. SumFunctionOnSet(middle, Callers) <= SumFunctionOnSet(after, Callers)
    BY <1>3, <2>2, SumAtMost
  <2> QED
    BY <1>1, <1>2, <1>3, <1>4, <1>6, <2>3, <2>4
<1> QED
  BY <1>7 DEF MovedInv

(* Who counts an amount no longer awaits it.                               *)
LEMMA PaidKeepsMoved ==
  ASSUME PayInv, PayInv', MovedInv, NEW f \in Callers, Paid(f)
  PROVE  MovedInv'
<1> SUFFICES ASSUME provider = "solana" PROVE MovedInv'
  BY DEF Paid, MovedInv
<1> DEFINE a      == AmountOf[due[f]]
           before == Uncounted
           after  == Uncounted'
<1>1. /\ fetchPc[f] = "paying" /\ due[f] \in settled /\ due[f] \in Challenges
      /\ fetchPc' = [fetchPc EXCEPT ![f] = "sent"]
      /\ due' = [due EXCEPT ![f] = NoChallenge]
      /\ UNCHANGED <<provider, settled, moved>>
      /\ spentThisProcess' = spentThisProcess + a
  BY DEF Paid, PayInv, DueInv
<1>2. MovedUsd' = MovedUsd /\ MovedUsd \in Int /\ a \in Nat /\ spentThisProcess \in Nat
  BY <1>1, MovesTyped, PayingAssumption DEF MovedUsd, PayInv, PayTypeOK
<1>3. /\ IsFiniteSet(Callers) /\ SumFunctionOnSet(before, Callers) \in Nat
      /\ \A g \in Callers : before[g] \in Int /\ after[g] \in Int
  BY UncountedTyped, NextUncountedTyped
<1>4. /\ before[f] = a /\ after[f] = 0
      /\ \A g \in Callers \ {f} : after[g] = before[g]
  BY <1>1 DEF Uncounted, Awaits, PayInv, PayTypeOK
<1>5. MovedUsd <= spentThisProcess + SumFunctionOnSet(before, Callers)
  BY DEF MovedInv
<1>6. MovedUsd' <= spentThisProcess' + SumFunctionOnSet(after, Callers)
  <2> HIDE DEF before, after, a
  <2>1. SumFunctionOnSet(after, Callers)
          = SumFunctionOnSet(before, Callers) - before[f] + after[f]
    BY <1>3, <1>4, SumChanged
  <2> QED
    BY <1>1, <1>2, <1>3, <1>4, <1>5, <2>1
<1> QED
  BY <1>6 DEF MovedInv

LEMMA PayStepMoved ==
  ASSUME PayInv, PayInv', MovedInv, [PayNext]_payVars
  PROVE  MovedInv'
<1> USE DEF Awaits
<1>1. PayTypeOK
  BY DEF PayInv
<1>2. CASE UNCHANGED payVars
  BY <1>2, AwaitersStay DEF payVars
<1>3. ASSUME NEW f \in Callers, Fetch(f) PROVE MovedInv'
  BY <1>1, <1>3, AwaitersStay DEF Fetch, PayTypeOK
<1>4. ASSUME NEW F \in SUBSET Callers, FetchEnds(F), \A g \in F : ~Awaits(g),
             UNCHANGED <<provider, spentThisProcess, settled>>,
             provider = "solana" => UNCHANGED moved
      PROVE  MovedInv'
  BY <1>4, AwaitersStay DEF FetchEnds
<1>5. ASSUME NEW f \in Callers, Responds(f) PROVE MovedInv'
  BY <1>4, <1>5 DEF Responds
<1>6. ASSUME NEW f \in Callers, NEW k \in Challenges, Challenged(f, k) PROVE MovedInv'
  <2>1. CASE ~WithinCaps(k)
    BY <1>4, <1>6, <2>1 DEF Challenged
  <2>2. CASE WithinCaps(k)
    <3>1. /\ fetchPc[f] = "sent" /\ UNCHANGED <<provider, spentThisProcess, settled, moved>>
          /\ due' = [due EXCEPT ![f] = k]
          /\ \A g \in Callers \ {f} : fetchPc'[g] = fetchPc[g] /\ due'[g] = due[g]
      BY <1>1, <1>6, <2>2 DEF Challenged, PayTypeOK
    <3> QED
      BY <3>1, AwaitersStay
  <2> QED
    BY <2>1, <2>2
<1>7. ASSUME NEW f \in Callers, PayFails(f) PROVE MovedInv'
  <2> DEFINE F == {f} \cup IF due[f] \in settled THEN {} ELSE Paying(due[f])
  <2>1. /\ F \in SUBSET Callers /\ FetchEnds(F) /\ \A g \in F : ~Awaits(g)
        /\ UNCHANGED <<provider, spentThisProcess, settled>>
        /\ provider = "solana" => UNCHANGED moved
    BY <1>7 DEF PayFails, Paying
  <2> HIDE DEF F
  <2> QED
    BY <1>4, <2>1
<1> QED
  BY <1>2, <1>3, <1>5, <1>6, <1>7, SettlesKeepsMoved, PaidKeepsMoved DEF PayNext

(* Those that pay owe, together, no more than the largest amount each, and *)
(* the one that was within the cap owes its own.                           *)
LEMMA OwedWithinCap ==
  ASSUME PayInv, CapInv
  PROVE  spentThisProcess + SumFunctionOnSet(Uncounted, Callers) <= MostSpent
<1> DEFINE u    == Uncounted
           owed == SumFunctionOnSet(u, Callers)
<1>1. /\ IsFiniteSet(Callers) /\ \A g \in Callers : u[g] \in 0 .. MaxAmount /\ u[g] \in Int
      /\ owed \in Nat /\ MaxAmount \in Nat /\ spentThisProcess \in Nat
  BY UncountedTyped, PayingAssumption DEF PayInv, PayTypeOK
<1>2. Payers \in SUBSET Callers /\ \A g \in Callers \ Payers : u[g] = 0
  BY DEF Payers, Uncounted, Awaits
<1>3. owed = SumFunctionOnSet(u, Payers)
  <2> HIDE DEF u
  <2> QED
    BY <1>1, <1>2, SumOfPart
<1>4. CASE Payers = {} /\ CountedOvershoot
  <2>1. owed = 0
    BY <1>3, <1>4, SumOfNone
  <2> HIDE DEF owed
  <2>2. spentThisProcess + owed <= MostSpent
    BY <1>1, <1>4, <2>1, MostSpentType DEF CountedOvershoot
  <2> QED
    BY <2>2 DEF owed
<1>5. ASSUME NEW w \in Payers, WithinCap(w)
      PROVE  spentThisProcess + owed <= MostSpent
  <2> DEFINE R == Payers \ {w}
             n == Cardinality(R)
             rest == SumFunctionOnSet(u, R)
             a == AmountOf[due[w]]
             x == spentThisProcess
  <2>1. IsFiniteSet(Payers) /\ \A g \in Payers : u[g] \in Int /\ u[g] <= MaxAmount
    BY <1>1, <1>2, PayersCount
  <2>2. IsFiniteSet(R) /\ n \in Nat /\ Cardinality(Payers) - 1 = n
    BY <2>1, FS_RemoveElement, FS_CardinalityType
  <2>3. a \in Nat /\ u[w] <= a /\ u[w] \in Int
    <3>1. a \in Nat /\ u[w] \in {a, 0}
      BY PayersCount, <1>2 DEF Uncounted
    <3> HIDE DEF u, a
    <3> QED
      BY <3>1
  <2>4. x + a + n * MaxAmount <= MostSpent
    BY <1>5, <2>2 DEF WithinCap
  <2>5. MostSpent \in Int
    BY MostSpentType
  <2> HIDE DEF u
  <2>6. SumFunctionOnSet(u, Payers) = rest + u[w]
    BY <2>1, SumWithout
  <2>7. rest \in Int /\ rest <= n * MaxAmount
    <3>1. \A g \in R : u[g] \in Int /\ u[g] <= MaxAmount
      BY <2>1
    <3> HIDE DEF R
    <3> QED
      BY <1>1, <2>2, <3>1, SumOfIntegers, SumOfSmall
  <2>8. n * MaxAmount \in Nat
    BY <1>1, <2>2, TimesIsNat
  <2> HIDE DEF rest, n, R, a, x, owed
  <2>9. x \in Nat
    BY <1>1 DEF x
  <2>10. x + owed <= MostSpent
    BY <1>1, <1>3, <2>3, <2>4, <2>5, <2>6, <2>7, <2>8, <2>9 DEF owed
  <2> QED
    BY <2>10 DEF x
<1> QED
  BY <1>4, <1>5 DEF CapInv

(* What the Solana provider signs away passes the cap of the process by    *)
(* one largest payment for each other caller at most, and so does what is  *)
(* counted with either provider.                                           *)
THEOREM AlwaysCapOvershoot == PaySpec => []CapOvershoot
<1>1. PayInit => MovedInv
  <2> SUFFICES ASSUME PayInit PROVE MovedInv
    OBVIOUS
  <2>1. PayInv /\ spentThisProcess = 0
    BY PayInitInv DEF PayInit
  <2>2. SumFunctionOnSet(Uncounted, Callers) \in Nat
    BY <2>1, UncountedTyped
  <2>3. MovedUsd = 0
    <3>1. IsFiniteSet(Challenges) /\ \A k \in Challenges : Moves[k] = 0
      <4>1. \A k \in Challenges : moved[k] = 0 /\ AmountOf[k] \in 0 .. MaxAmount
        BY PayingAssumption DEF PayInit
      <4>2. \A b \in 0 .. MaxAmount : 0 * b = 0
        BY PayingAssumption
      <4> QED
        BY <4>1, <4>2, PayingAssumption DEF Moves
    <3> HIDE DEF Moves
    <3>2. SumFunctionOnSet(Moves, Challenges) = 0
      BY <3>1, SumOfZeros
    <3> QED
      BY <2>1, <3>2, MovesTyped DEF PayInv
  <2> QED
    BY <2>1, <2>2, <2>3 DEF MovedInv
<1>2. PayInv /\ PayInv' /\ MovedInv /\ [PayNext]_payVars => MovedInv'
  BY PayStepMoved
<1>3. PayInv /\ CapInv /\ MovedInv /\ CountedOvershoot => CapOvershoot
  <2> SUFFICES ASSUME PayInv, CapInv, MovedInv, CountedOvershoot PROVE CapOvershoot
    OBVIOUS
  <2>1. /\ MovedUsd \in Int /\ spentThisProcess \in Nat /\ MostSpent \in Int
        /\ SumFunctionOnSet(Uncounted, Callers) \in Nat
    BY MovesTyped, UncountedTyped, MostSpentType DEF PayInv, PayTypeOK
  <2>2. spentThisProcess + SumFunctionOnSet(Uncounted, Callers) <= MostSpent
    BY OwedWithinCap
  <2> QED
    BY <2>1, <2>2 DEF MovedInv, CapOvershoot
<1> QED
  BY <1>1, <1>2, <1>3, AlwaysCapInv, AlwaysCountedOvershoot, PTL DEF PaySpec
=============================================================================
