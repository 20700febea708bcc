---------------------------- MODULE TelemetryProofs ----------------------------
(***************************************************************************)
(* Proofs about Telemetry, for any sources, queues and batches, and any    *)
(* sizes of ring and page: what closing a reporter has delivered, the      *)
(* order of the hub's ring, what a replay brings, and the types.           *)
(***************************************************************************)
EXTENDS Telemetry, SequenceTheorems, SumTheorems

-----------------------------------------------------------------------------
(* Delivery.                                                               *)

(* The events of a sequence of batches.                                    *)
InBatches(c) == UNION {ToSet(c[i]) : i \in DOMAIN c}

(* Where the events of a source can be.                                    *)
Where(s) == ToSet(queue[s]) \cup InBatches(chain[s]) \cup heard \cup given

(* Every event of a source is queued, in a batch, heard or given up; what  *)
(* the hub holds it has heard; and a reporter that closes has drained.     *)
Located(s) == \A n \in 1 .. made[s] : \E e \in Where(s) : e.source = s /\ e.nr = n

HubHeard(s) == heldBy[s] = "hub" => chain[s] # <<>> /\ ToSet(Head(chain[s])) \subseteq heard

DeliveryInvOf(s) ==
  /\ Located(s)
  /\ HubHeard(s)
  /\ life[s] # "open" => queue[s] = <<>>
  /\ life[s] = "closed" => chain[s] = <<>>

DeliveryTypes ==
  /\ made \in [Sources -> Nat]
  /\ queue \in [Sources -> Seq(Events)]
  /\ chain \in [Sources -> Seq(Seq(Events))]
  /\ heldBy \in [Sources -> {"reporter", "hub"}]
  /\ life \in [Sources -> {"open", "closing", "closed"}]
  /\ clk \in Int

DeliveryInv == DeliveryTypes /\ \A s \in Sources : DeliveryInvOf(s)

(* What is left behind k of n.                                             *)
LEMMA RestOfCut ==
  ASSUME NEW n \in Nat, NEW k \in 0 .. n
  PROVE  (IF k + 1 <= n THEN n - (k + 1) + 1 ELSE 0) = n - k
OBVIOUS

(* Cutting a sequence in two loses no element.                             *)
LEMMA CutKeepsAll ==
  ASSUME NEW S, NEW q \in Seq(S), NEW k \in 0 .. Len(q)
  PROVE  /\ SubSeq(q, k + 1, Len(q)) \in Seq(S)
         /\ ToSet(q) = ToSet(SubSeq(q, 1, k)) \cup ToSet(SubSeq(q, k + 1, Len(q)))
<1>1. Len(q) \in Nat /\ DOMAIN q = 1 .. Len(q)
  OBVIOUS
<1> DEFINE a == SubSeq(q, 1, k)
           b == SubSeq(q, k + 1, Len(q))
<1>2. a \in Seq(S) /\ Len(a) = k /\ \A i \in 1 .. k : a[i] = q[i]
  BY SMTT(30)
<1>3. b \in Seq(S) /\ Len(b) = Len(q) - k /\ \A i \in 1 .. Len(q) - k : b[i] = q[k + i]
  <2>1. k + 1 \in Int /\ Len(q) - (k + 1) + 1 = Len(q) - k
    BY <1>1
  <2>2. \A i \in k + 1 .. Len(q) : q[i] \in S
    <3>1. \A i \in k + 1 .. Len(q) : i \in 1 .. Len(q)
      BY <1>1
    <3> QED
      BY <1>1, <3>1
  <2>3. /\ b \in Seq(S)
        /\ Len(b) = IF k + 1 <= Len(q) THEN Len(q) - (k + 1) + 1 ELSE 0
        /\ \A i \in 1 .. Len(q) - (k + 1) + 1 : b[i] = q[(k + 1) + i - 1]
    BY <1>1, <2>1, <2>2, SubSeqProperties
  <2> HIDE DEF b
  <2>4. \A i \in 1 .. Len(q) - k : (k + 1) + i - 1 = k + i
    BY <1>1, SMTT(30)
  <2>5. (IF k + 1 <= Len(q) THEN Len(q) - (k + 1) + 1 ELSE 0) = Len(q) - k
    BY <1>1, RestOfCut
  <2> QED
    BY <2>1, <2>3, <2>4, <2>5
<1> HIDE DEF a, b
<1>4. DOMAIN a = 1 .. k /\ DOMAIN b = 1 .. Len(q) - k
  BY <1>2, <1>3
<1>5. ToSet(q) \subseteq ToSet(a) \cup ToSet(b)
  <2> SUFFICES ASSUME NEW i \in 1 .. Len(q) PROVE q[i] \in ToSet(a) \cup ToSet(b)
    BY <1>1 DEF ToSet
  <2>1. CASE i <= k
    <3>1. i \in 1 .. k /\ a[i] = q[i]
      BY <1>1, <1>2, <2>1
    <3> QED
      BY <1>4, <3>1 DEF ToSet
  <2>2. CASE ~(i <= k)
    <3>1. i - k \in 1 .. Len(q) - k /\ b[i - k] = q[i]
      BY <1>1, <1>3, <2>2
    <3> QED
      BY <1>4, <3>1 DEF ToSet
  <2> QED
    BY <2>1, <2>2
<1>6. ToSet(a) \cup ToSet(b) \subseteq ToSet(q)
  <2>1. \A i \in 1 .. k : a[i] \in ToSet(q)
    BY <1>1, <1>2 DEF ToSet
  <2>2. ASSUME NEW i \in 1 .. Len(q) - k PROVE b[i] \in ToSet(q)
    <3>1. k + i \in 1 .. Len(q) /\ b[i] = q[k + i]
      BY <1>1, <1>3
    <3> QED
      BY <1>1, <3>1 DEF ToSet
  <2> QED
    BY <2>1, <2>2, <1>4 DEF ToSet
<1> QED
  BY <1>3, <1>5, <1>6 DEF a, b

(* A batch more, a batch less.                                             *)
LEMMA AppendedBatch ==
  ASSUME NEW S, NEW c \in Seq(S), NEW b \in S
  PROVE  InBatches(Append(c, b)) = InBatches(c) \cup ToSet(b)
<1>1. Len(c) \in Nat /\ DOMAIN c = 1 .. Len(c)
  OBVIOUS
<1>2. /\ DOMAIN Append(c, b) = 1 .. Len(c) + 1
      /\ \A i \in 1 .. Len(c) : Append(c, b)[i] = c[i]
      /\ Append(c, b)[Len(c) + 1] = b
  OBVIOUS
<1>3. 1 .. Len(c) + 1 = 1 .. Len(c) \cup {Len(c) + 1}
  BY <1>1
<1> QED
  <2> DEFINE d == Append(c, b)
  <2>1. \A i \in DOMAIN d : ToSet(d[i]) \subseteq InBatches(c) \cup ToSet(b)
    BY <1>1, <1>2, <1>3 DEF InBatches
  <2>2. \A i \in DOMAIN c : ToSet(c[i]) \subseteq InBatches(d)
    BY <1>1, <1>2, <1>3 DEF InBatches
  <2>3. ToSet(b) \subseteq InBatches(d)
    BY <1>2, <1>3 DEF InBatches
  <2> HIDE DEF d
  <2>4. InBatches(d) \subseteq InBatches(c) \cup ToSet(b)
    BY <2>1, Zenon DEF InBatches
  <2>5. InBatches(c) \subseteq InBatches(d)
    BY <2>2, Zenon DEF InBatches
  <2> QED
    BY <2>3, <2>4, <2>5 DEF d

LEMMA FirstStays ==
  ASSUME NEW S, NEW c \in Seq(S), NEW b \in S, c # <<>>
  PROVE  Append(c, b) # <<>> /\ Head(Append(c, b)) = Head(c)
<1> DEFINE d == Append(c, b)
<1>1. Len(c) \in Nat /\ Len(c) >= 1
  OBVIOUS
<1>2. d \in Seq(S) /\ Len(d) = Len(c) + 1 /\ d[1] = c[1]
  BY <1>1
<1> HIDE DEF d
<1>3. d # <<>> /\ Head(d) = d[1]
  BY <1>1, <1>2
<1> QED
  BY <1>2, <1>3 DEF d

LEMMA FirstBatch ==
  ASSUME NEW S, NEW c \in Seq(S), c # <<>>
  PROVE  InBatches(c) = ToSet(Head(c)) \cup InBatches(Tail(c)) /\ Tail(c) \in Seq(S)
<1>1. Len(c) \in Nat /\ DOMAIN c = 1 .. Len(c) /\ Len(c) > 0
  OBVIOUS
<1>2. /\ Tail(c) \in Seq(S) /\ Head(c) = c[1]
      /\ DOMAIN Tail(c) = 1 .. Len(c) - 1
      /\ \A i \in 1 .. Len(c) - 1 : Tail(c)[i] = c[i + 1]
  OBVIOUS
<1>3. InBatches(c) \subseteq ToSet(Head(c)) \cup InBatches(Tail(c))
  <2> SUFFICES ASSUME NEW i \in 1 .. Len(c)
               PROVE  ToSet(c[i]) \subseteq ToSet(Head(c)) \cup InBatches(Tail(c))
    BY <1>1 DEF InBatches
  <2>1. CASE i = 1
    BY <2>1, <1>2
  <2>2. CASE i # 1
    <3>1. i - 1 \in 1 .. Len(c) - 1 /\ Tail(c)[i - 1] = c[i]
      BY <1>1, <1>2, <2>2
    <3> QED
      BY <3>1, <1>2, Zenon DEF InBatches
  <2> QED
    BY <2>1, <2>2
<1>4. ToSet(Head(c)) \cup InBatches(Tail(c)) \subseteq InBatches(c)
  <2>1. ToSet(Head(c)) \subseteq InBatches(c)
    BY <1>1, <1>2 DEF InBatches
  <2>2. ASSUME NEW i \in 1 .. Len(c) - 1 PROVE ToSet(Tail(c)[i]) \subseteq InBatches(c)
    <3>1. i + 1 \in 1 .. Len(c) /\ Tail(c)[i] = c[i + 1]
      BY <1>1, <1>2
    <3> QED
      BY <1>1, <3>1, Zenon DEF InBatches
  <2> QED
    BY <1>2, <2>1, <2>2 DEF InBatches
<1> QED
  BY <1>2, <1>3, <1>4

(* A source that a step does not move keeps the invariant.                 *)
LEMMA OthersStayLocated ==
  ASSUME NEW s, DeliveryInvOf(s), made'[s] = made[s], queue'[s] = queue[s],
         chain'[s] = chain[s], heldBy'[s] = heldBy[s], life'[s] = life[s],
         heard \subseteq heard', given \subseteq given'
  PROVE  DeliveryInvOf(s)'
<1>1. Where(s) \subseteq Where(s)'
  BY DEF Where
<1>2. Located(s)'
  BY <1>1 DEF DeliveryInvOf, Located
<1>3. HubHeard(s)'
  BY DEF DeliveryInvOf, HubHeard
<1> QED
  BY <1>2, <1>3 DEF DeliveryInvOf

(* One that it moves keeps it when no place is lost.                       *)
LEMMA MovedIsLocated ==
  ASSUME NEW s, DeliveryInvOf(s), made'[s] = made[s], Where(s) \subseteq Where(s)',
         HubHeard(s)', life'[s] # "open" => queue'[s] = <<>>,
         life'[s] = "closed" => chain'[s] = <<>>
  PROVE  DeliveryInvOf(s)'
<1>1. Located(s)'
  BY DEF DeliveryInvOf, Located
<1> QED
  BY <1>1 DEF DeliveryInvOf

(* drain moves what it is given to the end of the chain.                   *)
LEMMA DrainedMoves ==
  ASSUME DeliveryTypes, NEW s \in Sources, NEW q \in Seq(Events), Drained(s, q)
  PROVE  /\ queue' \in [Sources -> Seq(Events)]
         /\ chain' \in [Sources -> Seq(Seq(Events))]
         /\ queue'[s] = <<>>
         /\ InBatches(chain'[s]) = InBatches(chain[s]) \cup ToSet(q)
         /\ chain[s] # <<>> => chain'[s] # <<>> /\ Head(chain'[s]) = Head(chain[s])
         /\ \A r \in Sources \ {s} : queue'[r] = queue[r] /\ chain'[r] = chain[r]
<1> DEFINE c == chain[s]
<1>1. c \in Seq(Seq(Events)) /\ queue \in [Sources -> Seq(Events)]
      /\ chain \in [Sources -> Seq(Seq(Events))]
  BY DEF DeliveryTypes
<1>2. <<>> \in Seq(Events)
  OBVIOUS
<1>3. /\ queue' \in [Sources -> Seq(Events)] /\ queue'[s] = <<>>
      /\ \A r \in Sources \ {s} : queue'[r] = queue[r]
  BY <1>1, <1>2 DEF Drained
<1>4. CASE q = <<>>
  <2>1. chain' = chain
    BY <1>1, <1>4 DEF Drained
  <2>2. ToSet(q) = {}
    BY <1>4 DEF ToSet
  <2> QED
    BY <1>1, <1>3, <2>1, <2>2
<1>5. CASE q # <<>>
  <2>1. chain' = [chain EXCEPT ![s] = Append(c, q)]
    BY <1>5 DEF Drained
  <2>2. Append(c, q) \in Seq(Seq(Events))
    BY <1>1
  <2>3. chain' \in [Sources -> Seq(Seq(Events))] /\ chain'[s] = Append(c, q)
        /\ \A r \in Sources \ {s} : chain'[r] = chain[r]
    BY <1>1, <2>1, <2>2
  <2>4. c # <<>> => Append(c, q) # <<>> /\ Head(Append(c, q)) = Head(c)
    BY <1>1, FirstStays
  <2>5. InBatches(Append(c, q)) = InBatches(c) \cup ToSet(q)
    BY <1>1, AppendedBatch
  <2> QED
    BY <1>3, <2>3, <2>4, <2>5
<1> QED
  BY <1>4, <1>5

(* The end of a send takes the first batch away.                           *)
LEMMA NextBatchMoves ==
  ASSUME DeliveryTypes, NEW s \in Sources, chain[s] # <<>>, NextBatch(s)
  PROVE  /\ chain' \in [Sources -> Seq(Seq(Events))]
         /\ heldBy' \in [Sources -> {"reporter", "hub"}]
         /\ heldBy'[s] = "reporter"
         /\ InBatches(chain[s]) = ToSet(Head(chain[s])) \cup InBatches(chain'[s])
         /\ \A r \in Sources \ {s} : chain'[r] = chain[r] /\ heldBy'[r] = heldBy[r]
<1>1. /\ chain \in [Sources -> Seq(Seq(Events))] /\ chain[s] \in Seq(Seq(Events))
      /\ heldBy \in [Sources -> {"reporter", "hub"}]
  BY DEF DeliveryTypes
<1>2. /\ InBatches(chain[s]) = ToSet(Head(chain[s])) \cup InBatches(Tail(chain[s]))
      /\ Tail(chain[s]) \in Seq(Seq(Events))
  BY <1>1, FirstBatch
<1>3. chain' = [chain EXCEPT ![s] = Tail(chain[s])]
  BY DEF NextBatch
<1>4. chain'[s] = Tail(chain[s])
  BY <1>1, <1>3
<1> QED
  BY <1>1, <1>2, <1>3, <1>4 DEF NextBatch

(* Steps of the hub and of the store move no event of a source.            *)
LEMMA HubKeepsLocated ==
  ASSUME DeliveryInv, UNCHANGED <<made, queue, chain, heldBy, life>>, clk' \in Int,
         heard \subseteq heard', given \subseteq given'
  PROVE  DeliveryInv'
<1>1. DeliveryTypes'
  BY DEF DeliveryInv, DeliveryTypes
<1>2. \A s \in Sources : DeliveryInvOf(s)'
  BY OthersStayLocated DEF DeliveryInv
<1> QED
  BY <1>1, <1>2 DEF DeliveryInv

(* An event more: it is queued, and what leaves the queue is dropped or    *)
(* goes into a batch.                                                      *)
LEMMA EnqueueKeepsLocated ==
  ASSUME DeliveryInv, NEW s \in Sources, Enqueue(s)
  PROVE  DeliveryInv'
<1> DEFINE e == [source |-> s, nr |-> made[s] + 1, at |-> clk]
           q == Append(queue[s], e)
           over == IF Len(q) > MaxQueue[s] THEN Len(q) - MaxQueue[s] ELSE 0
           dropped == SubSeq(q, 1, over)
           kept == SubSeq(q, over + 1, Len(q))
<1>1. /\ DeliveryTypes /\ DeliveryInvOf(s)
      /\ made[s] \in Nat /\ clk \in Int /\ queue[s] \in Seq(Events)
      /\ made \in [Sources -> Nat] /\ MaxQueue[s] \in Nat
  BY TelemetryAssumption DEF DeliveryInv, DeliveryTypes
<1>2. e \in Events /\ e.source = s /\ e.nr = made[s] + 1
  BY <1>1 DEF Events
<1> HIDE DEF e
<1>3. q \in Seq(Events) /\ ToSet(q) = ToSet(queue[s]) \cup {e}
  <2>1. q \in Seq(Events) /\ Len(queue[s]) \in Nat /\ Len(q) = Len(queue[s]) + 1
        /\ DOMAIN q = 1 .. Len(queue[s]) + 1 /\ DOMAIN queue[s] = 1 .. Len(queue[s])
        /\ q[Len(queue[s]) + 1] = e /\ \A i \in 1 .. Len(queue[s]) : q[i] = queue[s][i]
    BY <1>1, <1>2
  <2> HIDE DEF q
  <2>2. \A i \in 1 .. Len(queue[s]) + 1 : i \in 1 .. Len(queue[s]) \/ i = Len(queue[s]) + 1
    BY <2>1
  <2>3. \A i \in 1 .. Len(queue[s]) : i \in 1 .. Len(queue[s]) + 1
    BY <2>1
  <2>4. Len(queue[s]) + 1 \in 1 .. Len(queue[s]) + 1
    BY <2>1
  <2> QED
    BY <2>1, <2>2, <2>3, <2>4 DEF ToSet
<1> HIDE DEF q
<1>4. over \in 0 .. Len(q)
  BY <1>1, <1>3
<1> HIDE DEF over
<1>5. kept \in Seq(Events) /\ ToSet(q) = ToSet(dropped) \cup ToSet(kept)
  BY <1>3, <1>4, CutKeepsAll
<1> HIDE DEF kept, dropped
<1>6. /\ life[s] = "open"
      /\ made' = [made EXCEPT ![s] = made[s] + 1]
      /\ given' = given \cup ToSet(dropped)
      /\ heldBy' = heldBy /\ life' = life /\ heard' = heard /\ clk' = clk
      /\ Drained(s, kept) \/ (queue' = [queue EXCEPT ![s] = kept] /\ chain' = chain)
  <2>1. life[s] = "open" /\ made' = [made EXCEPT ![s] = made[s] + 1]
    BY Zenon DEF Enqueue
  <2>2. heldBy' = heldBy /\ life' = life /\ heard' = heard /\ clk' = clk
    BY DEF Enqueue, hubVars
  <2>3. given' = given \cup ToSet(dropped)
    BY Zenon DEF Enqueue, e, q, over, dropped
  <2>4. IF Len(kept) >= BatchSize[s]
        THEN Drained(s, kept)
        ELSE queue' = [queue EXCEPT ![s] = kept] /\ UNCHANGED chain
    BY Zenon DEF Enqueue, e, q, over, kept
  <2>5. Drained(s, kept) \/ (queue' = [queue EXCEPT ![s] = kept] /\ chain' = chain)
    BY <2>4, Zenon
  <2> QED
    BY <2>1, <2>2, <2>3, <2>5, Zenon
<1>7. /\ queue' \in [Sources -> Seq(Events)]
      /\ chain' \in [Sources -> Seq(Seq(Events))]
      /\ ToSet(kept) \cup InBatches(chain[s]) \subseteq ToSet(queue'[s]) \cup InBatches(chain'[s])
      /\ chain[s] # <<>> => chain'[s] # <<>> /\ Head(chain'[s]) = Head(chain[s])
      /\ \A r \in Sources \ {s} : queue'[r] = queue[r] /\ chain'[r] = chain[r]
  <2>1. CASE Drained(s, kept)
    BY <1>1, <1>5, <2>1, DrainedMoves
  <2>2. CASE queue' = [queue EXCEPT ![s] = kept] /\ chain' = chain
    BY <1>1, <1>5, <2>2 DEF DeliveryTypes
  <2> QED
    BY <1>6, <2>1, <2>2
<1>8. made'[s] = made[s] + 1 /\ made' \in [Sources -> Nat]
  BY <1>1, <1>6
<1>9. Where(s) \cup {e} \subseteq Where(s)'
  BY <1>3, <1>5, <1>6, <1>7 DEF Where
<1>10. Located(s)'
  <2> SUFFICES ASSUME NEW n \in 1 .. made[s] + 1
               PROVE  \E x \in Where(s)' : x.source = s /\ x.nr = n
    BY <1>8 DEF Located
  <2>1. CASE n = made[s] + 1
    BY <1>2, <1>9, <2>1
  <2>2. CASE n # made[s] + 1
    <3>1. n \in 1 .. made[s]
      BY <1>1, <2>2
    <3> QED
      BY <1>1, <1>9, <3>1 DEF DeliveryInvOf, Located
  <2> QED
    BY <2>1, <2>2
<1>11. HubHeard(s)'
  BY <1>1, <1>6, <1>7 DEF DeliveryInvOf, HubHeard
<1>12. DeliveryInvOf(s)'
  BY <1>6, <1>10, <1>11 DEF DeliveryInvOf
<1>13. ASSUME NEW r \in Sources, r # s PROVE DeliveryInvOf(r)'
  <2>1. made'[r] = made[r] /\ queue'[r] = queue[r] /\ chain'[r] = chain[r]
    BY <1>1, <1>6, <1>7, <1>13
  <2>2. DeliveryInvOf(r)
    BY DEF DeliveryInv
  <2> QED
    BY <1>6, <2>1, <2>2, OthersStayLocated
<1>14. DeliveryTypes'
  BY <1>1, <1>6, <1>7, <1>8 DEF DeliveryTypes
<1> QED
  BY <1>12, <1>13, <1>14 DEF DeliveryInv

(* The timer and close drain the queue.                                    *)
LEMMA DrainKeepsLocated ==
  ASSUME DeliveryInv, NEW s \in Sources, Drain(s) \/ Close(s)
  PROVE  DeliveryInv'
<1>1. /\ DeliveryTypes /\ DeliveryInvOf(s) /\ queue[s] \in Seq(Events)
      /\ life \in [Sources -> {"open", "closing", "closed"}]
  BY DEF DeliveryInv, DeliveryTypes
<1>2. /\ Drained(s, queue[s])
      /\ made' = made /\ heldBy' = heldBy /\ heard' = heard /\ clk' = clk /\ given' = given
      /\ life' \in [Sources -> {"open", "closing", "closed"}]
      /\ life'[s] # "closed" /\ \A r \in Sources \ {s} : life'[r] = life[r]
  BY <1>1 DEF Drain, Close, hubVars
<1>3. /\ queue' \in [Sources -> Seq(Events)]
      /\ chain' \in [Sources -> Seq(Seq(Events))]
      /\ queue'[s] = <<>>
      /\ InBatches(chain'[s]) = InBatches(chain[s]) \cup ToSet(queue[s])
      /\ chain[s] # <<>> => chain'[s] # <<>> /\ Head(chain'[s]) = Head(chain[s])
      /\ \A r \in Sources \ {s} : queue'[r] = queue[r] /\ chain'[r] = chain[r]
  BY <1>1, <1>2, DrainedMoves
<1>4. Where(s) \subseteq Where(s)'
  BY <1>2, <1>3 DEF Where
<1>5. HubHeard(s)'
  BY <1>1, <1>2, <1>3 DEF DeliveryInvOf, HubHeard
<1>6. DeliveryInvOf(s)'
  BY <1>1, <1>2, <1>3, <1>4, <1>5, MovedIsLocated
<1>7. ASSUME NEW r \in Sources, r # s PROVE DeliveryInvOf(r)'
  <2>1. DeliveryInvOf(r)
    BY DEF DeliveryInv
  <2> QED
    BY <1>2, <1>3, <1>7, <2>1, OthersStayLocated
<1>8. DeliveryTypes'
  BY <1>1, <1>2, <1>3 DEF DeliveryTypes
<1> QED
  BY <1>6, <1>7, <1>8 DEF DeliveryInv

(* A send that ends: the batch was heard, or is given to onError.          *)
LEMMA SendKeepsLocated ==
  ASSUME DeliveryInv, NEW s \in Sources, Returns(s) \/ PostFails(s)
  PROVE  DeliveryInv'
<1>1. /\ DeliveryTypes /\ DeliveryInvOf(s)
  BY DEF DeliveryInv
<1>2. /\ NextBatch(s)
      /\ made' = made /\ queue' = queue /\ life' = life /\ heard' = heard /\ clk' = clk
      /\ given \subseteq given'
      /\ chain[s] # <<>>
      /\ ToSet(Head(chain[s])) \subseteq heard' \cup given'
  BY <1>1 DEF Returns, PostFails, hubVars, DeliveryInvOf, HubHeard
<1>3. /\ chain' \in [Sources -> Seq(Seq(Events))]
      /\ heldBy' \in [Sources -> {"reporter", "hub"}]
      /\ heldBy'[s] = "reporter"
      /\ InBatches(chain[s]) = ToSet(Head(chain[s])) \cup InBatches(chain'[s])
      /\ \A r \in Sources \ {s} : chain'[r] = chain[r] /\ heldBy'[r] = heldBy[r]
  BY <1>1, <1>2, NextBatchMoves
<1>4. Where(s) \subseteq Where(s)'
  BY <1>2, <1>3 DEF Where
<1>5. HubHeard(s)'
  BY <1>3 DEF HubHeard
<1>6. (life'[s] # "open" => queue'[s] = <<>>) /\ life'[s] # "closed"
  BY <1>1, <1>2 DEF DeliveryInvOf
<1>7. DeliveryInvOf(s)'
  BY <1>1, <1>2, <1>4, <1>5, <1>6, MovedIsLocated
<1>8. ASSUME NEW r \in Sources, r # s PROVE DeliveryInvOf(r)'
  <2>1. DeliveryInvOf(r)
    BY DEF DeliveryInv
  <2> QED
    BY <1>2, <1>3, <1>8, <2>1, OthersStayLocated
<1>9. DeliveryTypes'
  BY <1>1, <1>2, <1>3 DEF DeliveryTypes
<1> QED
  BY <1>7, <1>8, <1>9 DEF DeliveryInv

(* The hub hears a batch that is sent.                                     *)
LEMMA ArrivesKeepsLocated ==
  ASSUME DeliveryInv, NEW s \in Sources, Arrives(s)
  PROVE  DeliveryInv'
<1>1. DeliveryTypes /\ DeliveryInvOf(s) /\ heldBy \in [Sources -> {"reporter", "hub"}]
  BY DEF DeliveryInv, DeliveryTypes
<1>2. /\ chain[s] # <<>> /\ heldBy' = [heldBy EXCEPT ![s] = "hub"]
      /\ made' = made /\ queue' = queue /\ chain' = chain /\ life' = life /\ clk' = clk
      /\ given' = given /\ heard' = heard \cup ToSet(Head(chain[s]))
  BY DEF Arrives, Ingest
<1>3. Where(s) \subseteq Where(s)'
  BY <1>2 DEF Where
<1>4. HubHeard(s)'
  BY <1>2 DEF HubHeard
<1>5. DeliveryInvOf(s)'
  BY <1>1, <1>2, <1>3, <1>4, MovedIsLocated DEF DeliveryInvOf
<1>6. ASSUME NEW r \in Sources, r # s PROVE DeliveryInvOf(r)'
  <2>1. DeliveryInvOf(r) /\ heldBy'[r] = heldBy[r]
    BY <1>1, <1>2, <1>6 DEF DeliveryInv
  <2> QED
    BY <1>2, <2>1, OthersStayLocated
<1>7. DeliveryTypes'
  BY <1>1, <1>2 DEF DeliveryTypes
<1> QED
  BY <1>5, <1>6, <1>7 DEF DeliveryInv

(* close returns with nothing left to send.                                *)
LEMMA CloseReturnsKeepsLocated ==
  ASSUME DeliveryInv, NEW s \in Sources, CloseReturns(s)
  PROVE  DeliveryInv'
<1>1. /\ DeliveryTypes
      /\ life[s] = "closing" /\ chain[s] = <<>> /\ life' = [life EXCEPT ![s] = "closed"]
      /\ life \in [Sources -> {"open", "closing", "closed"}]
      /\ made' = made /\ queue' = queue /\ chain' = chain /\ heldBy' = heldBy
      /\ heard' = heard /\ given' = given /\ clk' = clk
  BY DEF CloseReturns, hubVars, DeliveryInv, DeliveryTypes
<1>2. DeliveryTypes'
  BY <1>1 DEF DeliveryTypes
<1>3. ASSUME NEW r \in Sources PROVE DeliveryInvOf(r)'
  <2>1. /\ DeliveryInvOf(r) /\ (life'[r] # "open" => life[r] # "open")
        /\ life'[r] = "closed" => life[r] = "closed" \/ chain[r] = <<>>
    BY <1>1 DEF DeliveryInv
  <2>2. Located(r)' /\ HubHeard(r)'
    BY <1>1, <2>1 DEF DeliveryInvOf, Located, Where, HubHeard
  <2> QED
    BY <1>1, <2>1, <2>2 DEF DeliveryInvOf
<1> QED
  BY <1>2, <1>3 DEF DeliveryInv

(* A restart of the hub gives up what its process and its POSTs held.      *)
LEMMA RestartKeepsLocated ==
  ASSUME DeliveryInv, Restarts
  PROVE  DeliveryInv'
<1> DEFINE lost(s) == IF s \in Local
                      THEN ToSet(queue[s]) \cup UNION {ToSet(b) : b \in ToSet(chain[s])}
                      ELSE ToSet(Head(chain[s]))
<1>1. /\ DeliveryTypes
      /\ queue \in [Sources -> Seq(Events)]
      /\ chain \in [Sources -> Seq(Seq(Events))]
  BY DEF DeliveryInv, DeliveryTypes
<1>2. /\ queue' = [s \in Sources |-> IF s \in Local THEN <<>> ELSE queue[s]]
      /\ chain' = [s \in Sources |-> IF s \in Local THEN <<>>
                                     ELSE IF s \in Local \/ heldBy[s] = "hub" THEN Tail(chain[s])
                                     ELSE chain[s]]
      /\ heldBy' = [s \in Sources |-> "reporter"]
      /\ made' = made /\ life' = life /\ heard' = heard /\ clk' = clk
      /\ given \subseteq given'
      /\ \A s \in Sources : s \in Local \/ heldBy[s] = "hub" => lost(s) \subseteq given'
  BY DEF Restarts
<1>3. /\ <<>> \in Seq(Events) /\ <<>> \in Seq(Seq(Events))
      /\ ToSet(<<>>) = {} /\ InBatches(<<>>) = {}
  BY DEF ToSet, InBatches
<1>4. ASSUME NEW s \in Sources
      PROVE  /\ DeliveryInvOf(s)'
             /\ queue'[s] \in Seq(Events) /\ chain'[s] \in Seq(Seq(Events))
  <2>1. /\ DeliveryInvOf(s) /\ chain[s] \in Seq(Seq(Events)) /\ queue[s] \in Seq(Events)
        /\ made'[s] = made[s] /\ life'[s] = life[s] /\ heldBy'[s] = "reporter"
    BY <1>1, <1>2 DEF DeliveryInv
  <2>2. HubHeard(s)'
    BY <2>1 DEF HubHeard
  <2>3. CASE s \in Local
    <3>1. queue'[s] = <<>> /\ chain'[s] = <<>> /\ lost(s) \subseteq given'
      BY <1>2, <2>3
    <3>2. ToSet(queue[s]) \cup InBatches(chain[s]) \subseteq lost(s)
      BY <2>3 DEF InBatches, ToSet
    <3>3. Where(s) \subseteq Where(s)'
      BY <1>2, <3>1, <3>2 DEF Where
    <3> QED
      BY <1>3, <2>1, <2>2, <3>1, <3>3, MovedIsLocated
  <2>4. CASE s \notin Local /\ heldBy[s] = "hub"
    <3>1. /\ queue'[s] = queue[s] /\ chain'[s] = Tail(chain[s])
          /\ ToSet(Head(chain[s])) \subseteq given'
      BY <1>2, <2>4
    <3>2. chain[s] # <<>>
      BY <2>1, <2>4 DEF DeliveryInvOf, HubHeard
    <3>3. /\ InBatches(chain[s]) = ToSet(Head(chain[s])) \cup InBatches(chain'[s])
          /\ chain'[s] \in Seq(Seq(Events))
      BY <2>1, <3>1, <3>2, FirstBatch
    <3>4. Where(s) \subseteq Where(s)'
      BY <1>2, <3>1, <3>3 DEF Where
    <3> QED
      BY <2>1, <2>2, <3>1, <3>3, <3>4, MovedIsLocated DEF DeliveryInvOf
  <2>5. CASE s \notin Local /\ heldBy[s] # "hub"
    <3>1. queue'[s] = queue[s] /\ chain'[s] = chain[s]
      BY <1>2, <2>5
    <3>2. Where(s) \subseteq Where(s)'
      BY <1>2, <3>1 DEF Where
    <3> QED
      BY <2>1, <2>2, <3>1, <3>2, MovedIsLocated DEF DeliveryInvOf
  <2> QED
    BY <2>3, <2>4, <2>5
<1>5. queue' \in [Sources -> Seq(Events)] /\ chain' \in [Sources -> Seq(Seq(Events))]
  BY <1>2, <1>4
<1>6. heldBy' \in [Sources -> {"reporter", "hub"}]
  BY <1>2
<1>7. DeliveryTypes'
  BY <1>1, <1>2, <1>5, <1>6 DEF DeliveryTypes
<1> QED
  BY <1>4, <1>7 DEF DeliveryInv

(* The start: the rows of earlier processes were heard.                    *)
LEMMA TelemetryInitInv == TelemetryInit => DeliveryInv
<1> SUFFICES ASSUME TelemetryInit PROVE DeliveryInv
  OBVIOUS
<1> DEFINE own(s) == {e \in ToSet(Kept) : e.source = s}
<1>1. Kept \in Seq(Events) /\ ToSet(Kept) \subseteq heard
  BY TelemetryAssumption DEF TelemetryInit, Events
<1>2. IsFiniteSet(ToSet(Kept))
  <2>1. Len(Kept) \in Nat /\ DOMAIN Kept = 1 .. Len(Kept)
    BY <1>1
  <2>2. IsFiniteSet(1 .. Len(Kept))
    BY <2>1, FS_Interval
  <2>3. Kept \in Surjection(1 .. Len(Kept), ToSet(Kept))
    BY <1>1, <2>1 DEF ToSet, Surjection
  <2> QED
    BY <2>2, <2>3, FS_Surjection
<1>3. ASSUME NEW s \in Sources PROVE made[s] \in Nat /\ made[s] = Cardinality(own(s))
  <2>1. IsFiniteSet(own(s))
    BY <1>2, FS_Subset
  <2> QED
    BY <2>1, FS_CardinalityType DEF TelemetryInit
<1>4. ASSUME NEW s \in Sources PROVE DeliveryInvOf(s)
  <2>1. queue[s] = <<>> /\ chain[s] = <<>> /\ heldBy[s] = "reporter"
    BY DEF TelemetryInit
  <2>2. \A n \in 1 .. Cardinality(own(s)) : \E e \in ToSet(Kept) : e.source = s /\ e.nr = n
    BY TelemetryAssumption, Zenon
  <2>3. \A n \in 1 .. made[s] : \E e \in ToSet(Kept) : e.source = s /\ e.nr = n
    BY <1>3, <2>2, Zenon
  <2>4. Located(s)
    BY <1>1, <2>3 DEF Located, Where
  <2> QED
    BY <2>1, <2>4 DEF DeliveryInvOf, HubHeard
<1>5. DeliveryTypes
  <2>1. made \in [Sources -> Nat]
    BY <1>3 DEF TelemetryInit
  <2> QED
    BY <2>1 DEF TelemetryInit, DeliveryTypes
<1> QED
  BY <1>4, <1>5 DEF DeliveryInv

(* Every step keeps every event of every source in one of these places.    *)
LEMMA TelemetryStepInv == DeliveryInv /\ [TelemetryNext]_telemetryVars => DeliveryInv'
<1> SUFFICES ASSUME DeliveryInv, [TelemetryNext]_telemetryVars PROVE DeliveryInv'
  OBVIOUS
<1> USE DEF reporterVars, hubVars
<1>1. clk \in Int
  BY DEF DeliveryInv, DeliveryTypes
<1>2. ASSUME NEW b, LateArrives(b) PROVE DeliveryInv'
  BY <1>1, <1>2, HubKeepsLocated DEF LateArrives, Ingest
<1>3. ASSUME NEW b, AppendLands(b) \/ AppendFails(b) PROVE DeliveryInv'
  <2>1. /\ UNCHANGED <<made, queue, chain, heldBy, life>>
        /\ clk' = clk /\ heard' = heard /\ given' = given
    BY <1>3 DEF AppendLands, AppendFails
  <2> QED
    BY <1>1, <2>1, HubKeepsLocated
<1>4. ASSUME BootStarts \/ BootReads \/ BootFails PROVE DeliveryInv'
  <2>1. /\ UNCHANGED <<made, queue, chain, heldBy, life>>
        /\ clk' = clk /\ heard' = heard /\ given' = given
    <3>1. CASE BootStarts
      BY <3>1 DEF BootStarts
    <3>2. CASE BootReads
      BY <3>2, Zenon DEF BootReads
    <3>3. CASE BootFails
      BY <3>3 DEF BootFails
    <3> QED
      BY <1>4, <3>1, <3>2, <3>3
  <2> QED
    BY <1>1, <2>1, HubKeepsLocated
<1>5. ASSUME Passes PROVE DeliveryInv'
  BY <1>1, <1>5, HubKeepsLocated DEF Passes
<1>6. ASSUME UNCHANGED telemetryVars PROVE DeliveryInv'
  BY <1>1, <1>6, HubKeepsLocated DEF telemetryVars
<1> QED
  BY <1>2, <1>3, <1>4, <1>5, <1>6, EnqueueKeepsLocated, DrainKeepsLocated, SendKeepsLocated,
     ArrivesKeepsLocated, CloseReturnsKeepsLocated, RestartKeepsLocated
  DEF TelemetryNext

(* When close has returned, every event of the source was heard by the     *)
(* hub, dropped as the oldest of a full queue, or in a batch whose failure *)
(* onError was told (makeReporter: enqueue, drain, close).                 *)
THEOREM AlwaysClosedIsDelivered == TelemetrySpec => []ClosedIsDelivered
<1>1. DeliveryInv => ClosedIsDelivered
  <2> SUFFICES ASSUME DeliveryInv, NEW s \in Sources, life[s] = "closed",
                      NEW n \in 1 .. made[s]
               PROVE  \E e \in heard \cup given : e.source = s /\ e.nr = n
    BY DEF ClosedIsDelivered
  <2>1. DeliveryInvOf(s)
    BY DEF DeliveryInv
  <2>2. queue[s] = <<>> /\ chain[s] = <<>>
    BY <2>1 DEF DeliveryInvOf
  <2>3. Where(s) = heard \cup given
    BY <2>2 DEF Where, InBatches, ToSet
  <2> QED
    BY <2>1, <2>3 DEF DeliveryInvOf, Located
<1> QED
  BY <1>1, TelemetryInitInv, TelemetryStepInv, PTL DEF TelemetrySpec

-----------------------------------------------------------------------------
(* Sorting by time.                                                        *)

(* A set of numbers up to n has a largest one.                             *)
LEMMA LargestOfSome ==
  ASSUME NEW n \in Nat, NEW d \in SUBSET (1 .. n), d # {}
  PROVE  Max(d) \in d /\ \A i \in d : i <= Max(d)
<1> DEFINE T == {m \in Nat : \A c \in SUBSET (1 .. m) :
                               c # {} => \E i \in c : \A j \in c : i >= j}
<1>1. 0 \in T
  <2>1. 1 .. 0 = {}
    OBVIOUS
  <2> QED
    BY <2>1
<1>2. ASSUME NEW m \in Nat, m \in T PROVE m + 1 \in T
  <2> SUFFICES ASSUME NEW c \in SUBSET (1 .. m + 1), c # {}
               PROVE  \E i \in c : \A j \in c : i >= j
    OBVIOUS
  <2>1. CASE m + 1 \in c
    BY <2>1
  <2>2. CASE m + 1 \notin c
    <3>1. c \in SUBSET (1 .. m)
      BY <2>2
    <3> QED
      BY <1>2, <3>1
  <2> QED
    BY <2>1, <2>2
<1>3. n \in T
  <2> HIDE DEF T
  <2> QED
    BY <1>1, <1>2, NatSetInduction
<1>4. \E i \in d : \A j \in d : i >= j
  BY <1>3
<1>5. Max(d) \in d /\ \A j \in d : Max(d) >= j
  BY <1>4 DEF Max
<1> QED
  BY <1>5

(* What is taken off all numbers up to n + 1.                              *)
LEMMA LastOfAll ==
  ASSUME NEW n \in Nat
  PROVE  Max(1 .. n + 1) = n + 1 /\ (1 .. n + 1) \ {n + 1} = 1 .. n /\ 1 .. n + 1 # {}
<1>1. n + 1 \in 1 .. n + 1
  OBVIOUS
<1>2. Max(1 .. n + 1) \in 1 .. n + 1 /\ \A i \in 1 .. n + 1 : i <= Max(1 .. n + 1)
  <2> DEFINE m == n + 1
             d == 1 .. m
  <2>1. m \in Nat /\ d \in SUBSET (1 .. m) /\ d # {}
    BY <1>1
  <2> HIDE DEF m, d
  <2>2. Max(d) \in d /\ \A i \in d : i <= Max(d)
    BY <2>1, LargestOfSome
  <2> QED
    BY <2>2 DEF d, m
<1>3. Max(1 .. n + 1) = n + 1
  BY <1>1, <1>2
<1>4. (1 .. n + 1) \ {n + 1} = 1 .. n
  OBVIOUS
<1> QED
  BY <1>1, <1>3, <1>4

(* The positions up to a bound of a set closed downward are the first ones. *)
LEMMA FirstOnes ==
  ASSUME NEW n \in Nat, NEW d \in SUBSET (1 .. n), \A i \in d : \A j \in 1 .. i : j \in d
  PROVE  Cardinality(d) \in 0 .. n /\ d = 1 .. Cardinality(d)
<1>1. \E m \in 0 .. n : d = 1 .. m
  <2>1. CASE d = {}
    BY <2>1
  <2>2. CASE d # {}
    <3> DEFINE m == Max(d)
    <3>1. m \in d /\ \A i \in d : i <= m
      BY <2>2, LargestOfSome
    <3> HIDE DEF m
    <3>2. m \in 1 .. n /\ \A i \in 1 .. m : i \in d
      BY <3>1
    <3>3. \A i \in d : i \in 1 .. m
      BY <3>1, <3>2
    <3>4. d = 1 .. m
      BY <3>2, <3>3
    <3> QED
      BY <3>2, <3>4
  <2> QED
    BY <2>1, <2>2
<1>2. PICK m \in 0 .. n : d = 1 .. m
  BY <1>1
<1>3. Cardinality(1 .. m) = m
  BY FS_Interval
<1> QED
  BY <1>2, <1>3

-----------------------------------------------------------------------------
(* A sequence behind another, each by its own positions.                   *)
LEMMA Joined ==
  ASSUME NEW S, NEW s \in Seq(S), NEW t \in Seq(S)
  PROVE  /\ s \o t \in Seq(S) /\ Len(s \o t) = Len(s) + Len(t)
         /\ \A i \in 1 .. Len(s) : (s \o t)[i] = s[i]
         /\ \A i \in 1 .. Len(t) : (s \o t)[Len(s) + i] = t[i]
<1>1. Len(s) \in Nat /\ Len(t) \in Nat
  BY LenProperties
<1>2. /\ s \o t \in Seq(S) /\ Len(s \o t) = Len(s) + Len(t)
      /\ \A i \in 1 .. Len(s) + Len(t) :
           (s \o t)[i] = IF i <= Len(s) THEN s[i] ELSE t[i - Len(s)]
  BY ConcatProperties
<1>3. ASSUME NEW i \in 1 .. Len(s) PROVE (s \o t)[i] = s[i]
  <2>1. i \in 1 .. Len(s) + Len(t) /\ i <= Len(s)
    BY <1>1
  <2> QED
    BY <1>2, <2>1
<1>4. ASSUME NEW i \in 1 .. Len(t) PROVE (s \o t)[Len(s) + i] = t[i]
  <2>1. /\ Len(s) + i \in 1 .. Len(s) + Len(t) /\ ~(Len(s) + i <= Len(s))
        /\ (Len(s) + i) - Len(s) = i
    BY <1>1
  <2> QED
    BY <1>2, <2>1
<1> QED
  BY <1>2, <1>3, <1>4

(* A new element between the first k of a sequence and the rest.           *)
LEMMA InsertedAt ==
  ASSUME NEW S, NEW t \in Seq(S), NEW k \in 0 .. Len(t), NEW e \in S
  PROVE  LET r == InsertAt(t, k + 1, e) IN
         /\ r \in Seq(S) /\ Len(r) = Len(t) + 1
         /\ \A i \in 1 .. Len(t) + 1 :
              r[i] = IF i <= k THEN t[i] ELSE IF i = k + 1 THEN e ELSE t[i - 1]
<1> DEFINE a == SubSeq(t, 1, k)
           b == SubSeq(t, k + 1, Len(t))
           c == <<e>>
<1>1. Len(t) \in Nat /\ \A i \in 1 .. Len(t) : t[i] \in S
  BY LenProperties, ElementOfSeq
<1>2. a \in Seq(S) /\ Len(a) = k /\ \A i \in 1 .. k : a[i] = t[i]
  BY <1>1, SubSeqProperties
<1>3. b \in Seq(S) /\ Len(b) = Len(t) - k /\ \A i \in 1 .. Len(t) - k : b[i] = t[k + i]
  BY <1>1, SubSeqProperties
<1>4. c \in Seq(S) /\ Len(c) = 1 /\ c[1] = e
  OBVIOUS
<1> HIDE DEF a, b, c
<1> DEFINE p == a \o c
           r == p \o b
<1>5. /\ p \in Seq(S) /\ Len(p) = k + 1 /\ \A i \in 1 .. k : p[i] = t[i]
      /\ p[k + 1] = e
  <2>1. /\ p \in Seq(S) /\ Len(p) = Len(a) + Len(c)
        /\ \A i \in 1 .. Len(a) : p[i] = a[i]
        /\ \A i \in 1 .. Len(c) : p[Len(a) + i] = c[i]
    <3>1. a \in Seq(S) /\ c \in Seq(S)
      BY <1>2, <1>4
    <3> QED
      BY <3>1, Joined
  <2> HIDE DEF p
  <2> QED
    BY <1>2, <1>4, <2>1
<1> HIDE DEF p
<1>6. /\ r \in Seq(S) /\ Len(r) = Len(p) + Len(b)
      /\ \A i \in 1 .. Len(p) : r[i] = p[i]
      /\ \A i \in 1 .. Len(b) : r[Len(p) + i] = b[i]
  <2>1. p \in Seq(S) /\ b \in Seq(S)
    BY <1>3, <1>5
  <2> QED
    BY <2>1, Joined
<1>7. InsertAt(t, k + 1, e) = r
  <2>1. (k + 1) - 1 = k
    BY <1>1
  <2>2. InsertAt(t, k + 1, e) = SubSeq(t, 1, (k + 1) - 1) \o <<e>> \o SubSeq(t, k + 1, Len(t))
    BY DEF InsertAt
  <2>3. InsertAt(t, k + 1, e) = SubSeq(t, 1, k) \o <<e>> \o SubSeq(t, k + 1, Len(t))
    BY <2>1, <2>2
  <2> QED
    BY <2>3 DEF a, b, c, p
<1> HIDE DEF r
<1>8. ASSUME NEW i \in 1 .. Len(t) + 1
      PROVE  r[i] = IF i <= k THEN t[i] ELSE IF i = k + 1 THEN e ELSE t[i - 1]
  <2>1. CASE i <= k
    BY <1>5, <1>6, <2>1
  <2>2. CASE i = k + 1
    BY <1>5, <1>6, <2>2
  <2>3. CASE i > k + 1
    <3>1. /\ i - (k + 1) \in 1 .. Len(b) /\ (k + 1) + (i - (k + 1)) = i
          /\ k + (i - (k + 1)) = i - 1
      BY <1>1, <1>3, <2>3, SMTT(30)
    <3>2. r[(k + 1) + (i - (k + 1))] = b[i - (k + 1)]
      BY <1>5, <1>6, <3>1
    <3>3. b[i - (k + 1)] = t[k + (i - (k + 1))]
      BY <1>3, <3>1
    <3> QED
      BY <2>3, <3>1, <3>2, <3>3
  <2> QED
    BY <2>1, <2>2, <2>3
<1>9. r \in Seq(S) /\ Len(r) = Len(t) + 1
  BY <1>1, <1>3, <1>5, <1>6
<1> QED
  BY <1>7, <1>8, <1>9

(* Where sorting puts one more: behind all that are as old.                *)
LEMMA InsertPlace ==
  ASSUME NEW t \in Seq(Events), SortedByAt(t), NEW e \in Events
  PROVE  \E k \in 0 .. Len(t) :
           /\ \A i \in 1 .. Len(t) : t[i].at <= e.at <=> i <= k
           /\ InsertByAt(t, e) \in Seq(Events) /\ Len(InsertByAt(t, e)) = Len(t) + 1
           /\ \A i \in 1 .. Len(t) + 1 :
                InsertByAt(t, e)[i] = IF i <= k THEN t[i] ELSE IF i = k + 1 THEN e ELSE t[i - 1]
<1> DEFINE d == {i \in DOMAIN t : t[i].at <= e.at}
           k == Cardinality(d)
           n == Len(t)
           r == InsertAt(t, k + 1, e)
<1>1. n \in Nat /\ DOMAIN t = 1 .. n /\ \A i \in 1 .. n : t[i] \in Events
  BY LenProperties, ElementOfSeq
<1>2. \A i \in 1 .. n : t[i].at \in Int
  BY <1>1 DEF Events
<1>3. e.at \in Int
  BY DEF Events
<1>4. \A i \in d : \A j \in 1 .. i : j \in d
  BY <1>1, <1>2, <1>3 DEF SortedByAt
<1>5. k \in 0 .. n /\ d = 1 .. k
  <2>1. d \in SUBSET (1 .. n)
    BY <1>1
  <2> HIDE DEF d
  <2> QED
    BY <1>1, <1>4, <2>1, FirstOnes
<1>6. \A i \in 1 .. n : t[i].at <= e.at <=> i <= k
  <2>1. \A i \in 1 .. n : i \in d <=> t[i].at <= e.at
    BY <1>1
  <2> HIDE DEF d
  <2> QED
    BY <1>1, <1>5, <2>1
<1> HIDE DEF k
<1>7. /\ r \in Seq(Events) /\ Len(r) = n + 1
      /\ \A i \in 1 .. n + 1 :
           r[i] = IF i <= k THEN t[i] ELSE IF i = k + 1 THEN e ELSE t[i - 1]
  <2>1. k \in 0 .. Len(t)
    BY <1>5
  <2> QED
    BY <2>1, InsertedAt
<1>8. InsertByAt(t, e) = r
  <2>1. 1 + k = k + 1
    BY <1>5
  <2>2. InsertByAt(t, e) = InsertAt(t, 1 + k, e)
    BY DEF InsertByAt, k
  <2> QED
    BY <2>1, <2>2
<1> HIDE DEF r
<1> QED
  BY <1>5, <1>6, <1>7, <1>8

(* What sorting by insertion keeps: r holds what t holds and e, each once  *)
(* if it did.                                                              *)
LEMMA InsertSorts ==
  ASSUME NEW t \in Seq(Events), SortedByAt(t), NEW e \in Events
  PROVE  LET r == InsertByAt(t, e) IN
         /\ r \in Seq(Events) /\ Len(r) = Len(t) + 1 /\ SortedByAt(r)
         /\ ToSet(r) = ToSet(t) \cup {e}
         /\ IsInjective(t) /\ e \notin ToSet(t) => IsInjective(r)
<1> DEFINE n == Len(t)
           r == InsertByAt(t, e)
<1>1. n \in Nat /\ DOMAIN t = 1 .. n /\ \A i \in 1 .. n : t[i] \in Events
  BY LenProperties, ElementOfSeq
<1>2. \A i \in 1 .. n : t[i].at \in Int
  BY <1>1 DEF Events
<1>3. e.at \in Int
  BY DEF Events
<1>4. PICK k \in 0 .. n :
        /\ \A i \in 1 .. n : t[i].at <= e.at <=> i <= k
        /\ r \in Seq(Events) /\ Len(r) = n + 1
        /\ \A i \in 1 .. n + 1 :
             r[i] = IF i <= k THEN t[i] ELSE IF i = k + 1 THEN e ELSE t[i - 1]
  BY InsertPlace
<1>5. k \in 0 .. n
  OBVIOUS
<1>6. \A i \in 1 .. n : t[i].at <= e.at <=> i <= k
  BY <1>4
<1>7. /\ r \in Seq(Events) /\ Len(r) = n + 1
      /\ \A i \in 1 .. n + 1 :
           r[i] = IF i <= k THEN t[i] ELSE IF i = k + 1 THEN e ELSE t[i - 1]
  BY <1>4
<1> HIDE DEF r
<1>9. DOMAIN r = 1 .. n + 1
  BY <1>1, <1>7, LenProperties
<1>10. \A i \in 1 .. n : /\ i <= k => r[i] = t[i]
                         /\ ~(i <= k) => i + 1 \in 1 .. n + 1 /\ r[i + 1] = t[i]
  BY <1>1, <1>5, <1>7
<1>11. k + 1 \in 1 .. n + 1 /\ r[k + 1] = e
  BY <1>1, <1>5, <1>7
<1>12. SortedByAt(r)
  <2> SUFFICES ASSUME NEW i \in 1 .. n + 1, NEW j \in 1 .. n + 1, i < j
               PROVE  r[i].at <= r[j].at
    BY <1>9 DEF SortedByAt
  <2>1. \A x, y \in 1 .. n : x < y => t[x].at <= t[y].at
    BY <1>1 DEF SortedByAt
  <2>2. CASE i <= k
    <3>1. i \in 1 .. n /\ r[i] = t[i]
      BY <1>1, <1>5, <1>7, <2>2
    <3>2. CASE j <= k
      <4>1. j \in 1 .. n /\ r[j] = t[j]
        BY <1>1, <1>5, <1>7, <3>2
      <4> QED
        BY <2>1, <3>1, <4>1
    <3>3. CASE j = k + 1
      BY <1>6, <1>11, <2>2, <3>1, <3>3
    <3>4. CASE j > k + 1
      <4>1. j - 1 \in 1 .. n /\ r[j] = t[j - 1] /\ i < j - 1
        BY <1>1, <1>5, <1>7, <2>2, <3>4
      <4> QED
        BY <2>1, <3>1, <4>1
    <3> QED
      BY <1>5, <3>2, <3>3, <3>4
  <2>3. CASE i = k + 1
    <3>1. j - 1 \in 1 .. n /\ r[j] = t[j - 1] /\ ~(j - 1 <= k)
      BY <1>1, <1>5, <1>7, <2>3
    <3>2. ~(t[j - 1].at <= e.at) /\ t[j - 1].at \in Int
      BY <1>2, <1>6, <3>1
    <3> QED
      BY <1>3, <1>11, <2>3, <3>1, <3>2
  <2>4. CASE i > k + 1
    <3>1. /\ j - 1 \in 1 .. n /\ r[j] = t[j - 1] /\ i - 1 < j - 1
          /\ i - 1 \in 1 .. n /\ r[i] = t[i - 1]
      BY <1>1, <1>5, <1>7, <2>4
    <3> QED
      BY <2>1, <3>1
  <2> QED
    BY <1>5, <2>2, <2>3, <2>4
<1>13. ToSet(r) = ToSet(t) \cup {e}
  <2>1. ToSet(r) = {r[i] : i \in 1 .. n + 1} /\ ToSet(t) = {t[i] : i \in 1 .. n}
    BY <1>1, <1>9 DEF ToSet
  <2>2. \A i \in 1 .. n + 1 : r[i] = e \/ \E j \in 1 .. n : r[i] = t[j]
    BY <1>1, <1>5, <1>7
  <2>3. \A j \in 1 .. n : \E i \in 1 .. n + 1 : r[i] = t[j]
    BY <1>1, <1>10
  <2> QED
    BY <1>11, <2>1, <2>2, <2>3
<1>14. ASSUME IsInjective(t), e \notin ToSet(t) PROVE IsInjective(r)
  <2> SUFFICES ASSUME NEW i \in 1 .. n + 1, NEW j \in 1 .. n + 1, i < j PROVE r[i] # r[j]
    BY <1>1, <1>9 DEF IsInjective
  <2>1. \A x, y \in 1 .. n : x # y => t[x] # t[y]
    BY <1>1, <1>14 DEF IsInjective
  <2>2. \A x \in 1 .. n : t[x] # e
    BY <1>1, <1>14 DEF ToSet
  <2>3. CASE i <= k /\ j <= k
    BY <1>1, <1>5, <1>7, <2>1, <2>3
  <2>4. CASE i <= k /\ j = k + 1
    BY <1>1, <1>5, <1>7, <2>2, <2>4
  <2>5. CASE i <= k /\ j > k + 1
    <3>1. j - 1 \in 1 .. n /\ r[j] = t[j - 1] /\ i # j - 1 /\ i \in 1 .. n /\ r[i] = t[i]
      BY <1>1, <1>5, <1>7, <2>5
    <3> QED
      BY <2>1, <3>1
  <2>6. CASE i = k + 1
    <3>1. j - 1 \in 1 .. n /\ r[j] = t[j - 1]
      BY <1>1, <1>5, <1>7, <2>6
    <3> QED
      BY <1>11, <2>2, <2>6, <3>1
  <2>7. CASE i > k + 1
    <3>1. /\ j - 1 \in 1 .. n /\ r[j] = t[j - 1] /\ i - 1 # j - 1
          /\ i - 1 \in 1 .. n /\ r[i] = t[i - 1]
      BY <1>1, <1>5, <1>7, <2>7
    <3> QED
      BY <2>1, <3>1
  <2> QED
    BY <1>5, <2>3, <2>4, <2>5, <2>6, <2>7
<1> QED
  BY <1>7, <1>12, <1>13, <1>14 DEF r

-----------------------------------------------------------------------------
(* How a sequence is sorted: the last position of a set of them goes in    *)
(* where the rest has been.                                                *)
Inserting(s, g, d) == IF d = {} THEN <<>> ELSE InsertByAt(g[d \ {Max(d)}], s[Max(d)])
SortsBy(s, g) == g = [d \in SUBSET DOMAIN s |-> Inserting(s, g, d)]

LEMMA SortUnfolds ==
  ASSUME NEW s
  PROVE  ByAt(s) = (CHOOSE g : SortsBy(s, g))[DOMAIN s]
BY DEF ByAt, FoldLeft, MapThenFoldSet, SortsBy, Inserting

(* There is a function that sorts: one that does for the sets of at most n *)
(* positions makes one for n + 1.                                          *)
LEMMA SortExists ==
  ASSUME NEW s, NEW len \in Nat, DOMAIN s = 1 .. len
  PROVE  \E g : SortsBy(s, g)
<1> DEFINE S == 1 .. len
           Upto(g, n) == \A d \in SUBSET S : Cardinality(d) <= n => g[d] = Inserting(s, g, d)
           T == {n \in Nat : \E g : g = [d \in SUBSET S |-> g[d]] /\ Upto(g, n)}
<1>1. \A d \in SUBSET S :
        IsFiniteSet(d) /\ Cardinality(d) \in Nat /\ Cardinality(d) <= Cardinality(S)
  <2>1. IsFiniteSet(S)
    BY FS_Interval
  <2> HIDE DEF S
  <2> QED
    BY <2>1, FS_Subset, FS_CardinalityType
<1>2. ASSUME NEW d \in SUBSET S, d # {}
      PROVE  d \ {Max(d)} \in SUBSET S /\ Cardinality(d \ {Max(d)}) = Cardinality(d) - 1
  <2>1. Max(d) \in d
    BY <1>2, LargestOfSome
  <2> QED
    BY <1>1, <2>1, FS_RemoveElement
<1>3. \A d \in SUBSET S : Cardinality(d) <= 0 => d = {}
  BY <1>1, FS_EmptySet
<1>4. 0 \in T
  <2> DEFINE g == [d \in SUBSET S |-> <<>>]
  <2>1. \A d \in SUBSET S : Cardinality(d) <= 0 => g[d] = Inserting(s, g, d)
    BY <1>3 DEF Inserting
  <2> QED
    BY <2>1
<1>5. ASSUME NEW n \in Nat, n \in T PROVE n + 1 \in T
  <2>1. PICK g : Upto(g, n)
    BY <1>5
  <2> DEFINE h == [d \in SUBSET S |-> IF Cardinality(d) <= n THEN g[d] ELSE Inserting(s, g, d)]
  <2>2. ASSUME NEW d \in SUBSET S, Cardinality(d) <= n + 1 PROVE h[d] = Inserting(s, h, d)
    <3>1. h[d] = Inserting(s, g, d)
      BY <2>1
    <3>2. d # {} => h[d \ {Max(d)}] = g[d \ {Max(d)}]
      BY <1>1, <1>2, <2>2
    <3> HIDE DEF h
    <3> QED
      BY <3>1, <3>2 DEF Inserting
  <2>3. h = [d \in SUBSET S |-> h[d]]
    OBVIOUS
  <2> HIDE DEF h
  <2>4. Upto(h, n + 1)
    BY <2>2
  <2>5. \E k : k = [d \in SUBSET S |-> k[d]] /\ Upto(k, n + 1)
    BY <2>3, <2>4, Zenon
  <2> HIDE DEF Upto
  <2> QED
    BY <2>5
<1>6. Cardinality(S) \in T
  <2> HIDE DEF T
  <2> QED
    BY <1>1, <1>4, <1>5, NatSetInduction
<1>7. PICK g : g = [d \in SUBSET S |-> g[d]] /\ Upto(g, Cardinality(S))
  BY <1>6
<1>8. g = [d \in SUBSET S |-> Inserting(s, g, d)]
  BY <1>1, <1>7
<1> QED
  BY <1>8 DEF SortsBy

(* r is what the first n of s are in order of time.                        *)
IsSortOf(r, s, n) ==
  /\ r \in Seq(Events) /\ Len(r) = n /\ SortedByAt(r)
  /\ ToSet(r) = {s[i] : i \in 1 .. n}
  /\ IsInjective(s) => IsInjective(r)

(* The stable sort of the ring and of the store's rows sorts: it keeps     *)
(* every event, once if it came once.                                      *)
THEOREM ByAtSorts ==
  ASSUME NEW s \in Seq(Events)
  PROVE  IsSortOf(ByAt(s), s, Len(s))
<1> DEFINE g == CHOOSE g : SortsBy(s, g)
           T == {n \in Nat : n <= Len(s) => IsSortOf(g[1 .. n], s, n)}
<1>1. Len(s) \in Nat /\ DOMAIN s = 1 .. Len(s) /\ \A i \in 1 .. Len(s) : s[i] \in Events
  BY LenProperties, ElementOfSeq
<1>2. SortsBy(s, g)
  BY <1>1, SortExists
<1> HIDE DEF g
<1>3. \A n \in Nat : n <= Len(s) => g[1 .. n] = Inserting(s, g, 1 .. n)
  <2>1. \A n \in Nat : n <= Len(s) => 1 .. n \in SUBSET DOMAIN s
    BY <1>1
  <2> QED
    BY <1>2, <2>1 DEF SortsBy
<1>4. 0 \in T
  <2>1. 1 .. 0 = {}
    OBVIOUS
  <2>2. g[1 .. 0] = <<>>
    <3>1. g[1 .. 0] = Inserting(s, g, 1 .. 0)
      BY <1>1, <1>3
    <3> QED
      BY <2>1, <3>1 DEF Inserting
  <2>3. /\ <<>> \in Seq(Events) /\ Len(<<>>) = 0 /\ ToSet(<<>>) = {}
        /\ SortedByAt(<<>>) /\ IsInjective(<<>>)
    BY DEF ToSet, SortedByAt, IsInjective
  <2>4. {s[i] : i \in 1 .. 0} = {}
    BY <2>1
  <2> QED
    BY <2>2, <2>3, <2>4 DEF IsSortOf
<1>5. ASSUME NEW n \in Nat, n \in T PROVE n + 1 \in T
  <2> SUFFICES ASSUME n + 1 <= Len(s) PROVE IsSortOf(g[1 .. n + 1], s, n + 1)
    OBVIOUS
  <2> DEFINE t == g[1 .. n]
             e == s[n + 1]
  <2>1. n <= Len(s) /\ n + 1 \in 1 .. Len(s)
    BY <1>1
  <2>2. IsSortOf(t, s, n) /\ e \in Events
    BY <1>1, <1>5, <2>1
  <2>3. g[1 .. n + 1] = InsertByAt(t, e)
    <3>1. Max(1 .. n + 1) = n + 1 /\ (1 .. n + 1) \ {n + 1} = 1 .. n /\ 1 .. n + 1 # {}
      BY LastOfAll
    <3>3. g[1 .. n + 1] = Inserting(s, g, 1 .. n + 1)
      BY <1>3
    <3> QED
      BY <3>1, <3>3 DEF Inserting
  <2> HIDE DEF t, e
  <2>4. /\ t \in Seq(Events) /\ SortedByAt(t) /\ Len(t) = n
        /\ ToSet(t) = {s[i] : i \in 1 .. n} /\ (IsInjective(s) => IsInjective(t))
    BY <2>2 DEF IsSortOf
  <2> DEFINE r == InsertByAt(t, e)
  <2>5. /\ r \in Seq(Events) /\ Len(r) = Len(t) + 1 /\ SortedByAt(r)
        /\ ToSet(r) = ToSet(t) \cup {e}
        /\ IsInjective(t) /\ e \notin ToSet(t) => IsInjective(r)
    BY <2>2, <2>4, InsertSorts
  <2> HIDE DEF r
  <2>6. ToSet(r) = {s[i] : i \in 1 .. n + 1}
    BY <2>4, <2>5, SMTT(30) DEF e
  <2>7. IsInjective(s) => e \notin ToSet(t)
    BY <1>1, <2>1, <2>4 DEF e, IsInjective
  <2> QED
    BY <2>3, <2>4, <2>5, <2>6, <2>7 DEF IsSortOf, r
<1>6. Len(s) \in T
  <2> HIDE DEF T
  <2> QED
    BY <1>1, <1>4, <1>5, NatSetInduction
<1>7. ByAt(s) = g[1 .. Len(s)]
  BY <1>1, SortUnfolds DEF g
<1> QED
  BY <1>6, <1>7

-----------------------------------------------------------------------------
(* What a cut, a join and a fold leave of their sequences.                 *)

(* A part of a sequence, as far as it is sorted and holds each once.       *)
PartOf(p, s) ==
  /\ p \in Seq(Events) /\ ToSet(p) \subseteq ToSet(s)
  /\ SortedByAt(s) => SortedByAt(p)
  /\ IsInjective(s) => IsInjective(p)

LEMMA SubSeqIsPart ==
  ASSUME NEW s \in Seq(Events), NEW m \in Nat \ {0}, NEW n \in 0 .. Len(s)
  PROVE  PartOf(SubSeq(s, m, n), s)
<1> DEFINE p == SubSeq(s, m, n)
<1>1. Len(s) \in Nat /\ DOMAIN s = 1 .. Len(s) /\ \A i \in 1 .. Len(s) : s[i] \in Events
  BY LenProperties, ElementOfSeq
<1>2. \A i \in m .. n : s[i] \in Events
  BY <1>1
<1>3. /\ p \in Seq(Events) /\ Len(p) = IF m <= n THEN n - m + 1 ELSE 0
      /\ \A i \in 1 .. n - m + 1 : p[i] = s[m + i - 1]
  BY <1>1, <1>2, SubSeqProperties
<1> HIDE DEF p
<1>4. DOMAIN p = 1 .. Len(p)
  BY <1>3, LenProperties
<1>5. \A i \in DOMAIN p : i \in Nat /\ m + i - 1 \in DOMAIN s /\ p[i] = s[m + i - 1]
  BY <1>1, <1>3, <1>4
<1>6. ToSet(p) \subseteq ToSet(s)
  BY <1>5 DEF ToSet
<1>7. ASSUME SortedByAt(s) PROVE SortedByAt(p)
  <2> SUFFICES ASSUME NEW i \in DOMAIN p, NEW j \in DOMAIN p, i < j PROVE p[i].at <= p[j].at
    BY DEF SortedByAt
  <2>1. m + i - 1 < m + j - 1
    BY <1>5
  <2> QED
    BY <1>5, <1>7, <2>1 DEF SortedByAt
<1>8. ASSUME IsInjective(s) PROVE IsInjective(p)
  <2> SUFFICES ASSUME NEW i \in DOMAIN p, NEW j \in DOMAIN p, p[i] = p[j] PROVE i = j
    BY DEF IsInjective
  <2>1. m + i - 1 = m + j - 1
    BY <1>5, <1>8 DEF IsInjective
  <2> QED
    BY <1>5, <2>1
<1> QED
  BY <1>3, <1>6, <1>7, <1>8 DEF PartOf, p

LEMMA PartOfPart ==
  ASSUME NEW s, NEW p, NEW q, PartOf(p, s), PartOf(q, p)
  PROVE  PartOf(q, s)
BY DEF PartOf

(* Where prune starts: everything before has expired.                      *)
LEMMA FrontIsFound ==
  ASSUME NEW r \in Seq(Events)
  PROVE  LET expired(n) == \A i \in 1 .. n : r[i].at < clk - Retention
             start == CHOOSE n \in 0 .. Len(r) :
                        expired(n) /\ (n = Len(r) \/ ~expired(n + 1))
         IN  start \in 0 .. Len(r) /\ expired(start)
<1> DEFINE expired(n) == \A i \in 1 .. n : r[i].at < clk - Retention
           found(n) == expired(n) /\ (n = Len(r) \/ ~expired(n + 1))
<1>1. Len(r) \in Nat
  BY LenProperties
<1>2. \E n \in 0 .. Len(r) : found(n)
  <2> SUFFICES ASSUME \A n \in 0 .. Len(r) : ~found(n) PROVE FALSE
    OBVIOUS
  <2> DEFINE T == {n \in Nat : n <= Len(r) => expired(n)}
  <2>1. 0 \in T
    OBVIOUS
  <2>2. ASSUME NEW n \in Nat, n \in T PROVE n + 1 \in T
    BY <1>1, <2>2
  <2>3. Len(r) \in T
    <3> HIDE DEF T
    <3> QED
      BY <1>1, <2>1, <2>2, NatSetInduction
  <2>4. found(Len(r))
    BY <1>1, <2>3
  <2> QED
    BY <1>1, <2>4
<1> QED
  BY <1>2

(* prune leaves a part of the ring: its end.                               *)
LEMMA PrunedIsPart ==
  ASSUME NEW r \in Seq(Events), clk \in Int
  PROVE  PartOf(Pruned(r), r)
<1> DEFINE expired(n) == \A i \in 1 .. n : r[i].at < clk - Retention
           found(n) == expired(n) /\ (n = Len(r) \/ ~expired(n + 1))
           start == CHOOSE n \in 0 .. Len(r) : found(n)
           kept == SubSeq(r, start + 1, Len(r))
           size == Len(kept)
           cut == SubSeq(kept, size - RingMax + 1, size)
<1>1. Len(r) \in Nat
  BY LenProperties
<1>3. start \in 0 .. Len(r)
  BY FrontIsFound
<1>4. Pruned(r) = IF size > RingMax THEN cut ELSE kept
  BY DEF Pruned
<1> HIDE DEF start
<1>5. PartOf(kept, r)
  <2>1. start + 1 \in Nat \ {0} /\ Len(r) \in 0 .. Len(r)
    BY <1>1, <1>3
  <2> QED
    BY <2>1, SubSeqIsPart
<1> HIDE DEF kept
<1>6. kept \in Seq(Events)
  BY <1>5 DEF PartOf
<1>7. ASSUME size > RingMax PROVE PartOf(cut, kept)
  <2>1. size \in Nat /\ RingMax \in Nat
    BY <1>6, LenProperties, TelemetryAssumption
  <2>2. size - RingMax + 1 \in Nat \ {0} /\ size \in 0 .. Len(kept)
    BY <1>7, <2>1
  <2> QED
    BY <1>6, <2>2, SubSeqIsPart
<1> QED
  BY <1>4, <1>5, <1>7, PartOfPart

(* Two sequences behind one another, each sorted and apart from the other. *)
Gathers(r, s, t) ==
  /\ r \in Seq(Events) /\ ToSet(r) = ToSet(s) \cup ToSet(t)
  /\ IsInjective(s) /\ IsInjective(t) /\ ToSet(s) \cap ToSet(t) = {} => IsInjective(r)

LEMMA JoinedGathers ==
  ASSUME NEW s \in Seq(Events), NEW t \in Seq(Events)
  PROVE  Gathers(s \o t, s, t)
<1> DEFINE r == s \o t
           m == Len(s)
           n == Len(t)
<1>1. m \in Nat /\ n \in Nat /\ DOMAIN s = 1 .. m /\ DOMAIN t = 1 .. n
  BY LenProperties
<1>2. /\ r \in Seq(Events) /\ Len(r) = m + n
      /\ \A i \in 1 .. m : r[i] = s[i]
      /\ \A i \in 1 .. n : r[m + i] = t[i]
  BY Joined
<1> HIDE DEF r
<1>3. DOMAIN r = 1 .. m + n
  BY <1>2, LenProperties
<1> HIDE DEF m, n
<1>4. \A i \in DOMAIN r : \/ i \in 1 .. m /\ r[i] = s[i]
                          \/ i - m \in 1 .. n /\ r[i] = t[i - m]
  <2> SUFFICES ASSUME NEW i \in 1 .. m + n, ~(i \in 1 .. m)
               PROVE  i - m \in 1 .. n /\ r[i] = t[i - m]
    BY <1>2, <1>3
  <2>1. i - m \in 1 .. n /\ m + (i - m) = i
    BY <1>1
  <2>2. r[m + (i - m)] = t[i - m]
    BY <1>2, <2>1
  <2> QED
    BY <2>1, <2>2
<1>5. \A i \in 1 .. n : m + i \in 1 .. m + n
  BY <1>1
<1>6. ToSet(r) = ToSet(s) \cup ToSet(t)
  <2>1. ToSet(r) \subseteq ToSet(s) \cup ToSet(t)
    BY <1>1, <1>4 DEF ToSet
  <2>2. \A i \in 1 .. m : i \in 1 .. m + n
    BY <1>1
  <2>3. ToSet(s) \subseteq ToSet(r)
    BY <1>1, <1>2, <1>3, <2>2 DEF ToSet
  <2>4. ToSet(t) \subseteq ToSet(r)
    BY <1>1, <1>2, <1>3, <1>5 DEF ToSet
  <2> QED
    BY <2>1, <2>3, <2>4
<1>7. ASSUME IsInjective(s), IsInjective(t), ToSet(s) \cap ToSet(t) = {} PROVE IsInjective(r)
  <2> SUFFICES ASSUME NEW i \in DOMAIN r, NEW j \in DOMAIN r, r[i] = r[j] PROVE i = j
    BY DEF IsInjective
  <2>1. \A x \in 1 .. m, y \in 1 .. n : s[x] # t[y]
    BY <1>1, <1>7 DEF ToSet
  <2>2. CASE i \in 1 .. m /\ j \in 1 .. m /\ r[i] = s[i] /\ r[j] = s[j]
    BY <1>1, <1>7, <2>2 DEF IsInjective
  <2>3. CASE i - m \in 1 .. n /\ j - m \in 1 .. n /\ r[i] = t[i - m] /\ r[j] = t[j - m]
    <3>1. i - m = j - m
      BY <1>1, <1>7, <2>3 DEF IsInjective
    <3> QED
      BY <1>1, <1>3, <3>1
  <2> QED
    BY <1>4, <2>1, <2>2, <2>3
<1> QED
  BY <1>2, <1>6, <1>7 DEF Gathers, r

(* ingest folds a batch into the ring: it gathers both, and the ring stays *)
(* in order.                                                               *)
LEMMA FoldGathers ==
  ASSUME ring \in Seq(Events), NEW b \in Seq(Events)
  PROVE  Gathers(Fold(b), ring, b) /\ (SortedByAt(ring) => SortedByAt(Fold(b)))
<1> DEFINE end == IF ring = <<>> THEN <<>> ELSE <<Last(ring)>>
           r == ring \o b
           m == Len(ring)
           n == Len(b)
<1>1. /\ m \in Nat /\ n \in Nat /\ DOMAIN ring = 1 .. m /\ DOMAIN b = 1 .. n
      /\ \A i \in 1 .. m : ring[i] \in Events
      /\ \A i \in 1 .. n : b[i] \in Events
  BY LenProperties, ElementOfSeq
<1>2. Gathers(r, ring, b)
  BY JoinedGathers
<1>3. Fold(b) = IF SortedByAt(end \o b) THEN r ELSE ByAt(r)
  BY DEF Fold
<1>4. CASE ~SortedByAt(end \o b)
  <2>1. r \in Seq(Events)
    BY <1>2 DEF Gathers
  <2>2. IsSortOf(ByAt(r), r, Len(r))
    BY <2>1, ByAtSorts
  <2>3. ToSet(r) = {r[i] : i \in 1 .. Len(r)}
    BY <2>1, LenProperties DEF ToSet
  <2> HIDE DEF r
  <2>4. Gathers(ByAt(r), ring, b) /\ SortedByAt(ByAt(r))
    BY <1>2, <2>2, <2>3 DEF IsSortOf, Gathers
  <2> HIDE DEF end
  <2> QED
    BY <1>3, <1>4, <2>4
<1>5. CASE SortedByAt(end \o b)
  <2>1. ASSUME SortedByAt(ring) PROVE SortedByAt(r)
    <3>1. /\ r \in Seq(Events) /\ Len(r) = m + n
          /\ \A i \in 1 .. m : r[i] = ring[i]
          /\ \A i \in 1 .. n : r[m + i] = b[i]
      BY Joined
    <3>2. DOMAIN r = 1 .. m + n
      BY <3>1, LenProperties
    <3>3. end \in Seq(Events) /\ Len(end) \in Nat
      <4>1. CASE ring = <<>>
        BY <4>1
      <4>2. CASE ring # <<>>
        <5>1. m \in 1 .. m
          BY <1>1, <4>2, EmptySeq
        <5> QED
          BY <1>1, <4>2, <5>1 DEF Last
      <4> QED
        BY <4>1, <4>2
    <3> DEFINE k == Len(end)
               q == end \o b
    <3>4. m > 0 => k = 1 /\ end[1] = ring[m]
      <4>1. m > 0 => ring # <<>>
        BY EmptySeq
      <4> QED
        BY <4>1 DEF Last
    <3> HIDE DEF end
    <3>5. /\ q \in Seq(Events) /\ Len(q) = k + n
          /\ \A i \in 1 .. k : q[i] = end[i]
          /\ \A i \in 1 .. n : q[k + i] = b[i]
      BY <3>3, Joined
    <3>6. DOMAIN q = 1 .. k + n
      BY <3>5, LenProperties
    <3>7. \A i, j \in DOMAIN q : i < j => q[i].at <= q[j].at
      BY <1>5 DEF SortedByAt, end
    <3> HIDE DEF r, q, k
    <3>8. \A i, j \in 1 .. n : i < j => b[i].at <= b[j].at
      <4> SUFFICES ASSUME NEW i \in 1 .. n, NEW j \in 1 .. n, i < j PROVE b[i].at <= b[j].at
        OBVIOUS
      <4>1. k + i \in 1 .. k + n /\ k + j \in 1 .. k + n /\ k + i < k + j
        BY <1>1, <3>3 DEF k
      <4> QED
        BY <3>5, <3>6, <3>7, <4>1
    <3>9. m > 0 => \A j \in 1 .. n : ring[m].at <= b[j].at
      <4> SUFFICES ASSUME m > 0, NEW j \in 1 .. n PROVE ring[m].at <= b[j].at
        OBVIOUS
      <4>1. k = 1 /\ q[1] = ring[m]
        <5>1. k = 1 /\ end[1] = ring[m]
          BY <3>4
        <5>2. 1 \in 1 .. k
          BY <5>1
        <5> QED
          BY <3>5, <5>1, <5>2
      <4>2. 1 \in 1 .. 1 + n /\ 1 + j \in 1 .. 1 + n /\ 1 < 1 + j
        BY <1>1
      <4>3. q[1].at <= q[1 + j].at /\ q[1 + j] = b[j]
        BY <3>5, <3>6, <3>7, <4>1, <4>2
      <4> QED
        BY <4>1, <4>3
    <3>10. \A i \in 1 .. m : ring[i].at <= ring[m].at
      <4> SUFFICES ASSUME NEW i \in 1 .. m PROVE ring[i].at <= ring[m].at
        OBVIOUS
      <4>1. m \in Nat /\ m \in 1 .. m
        BY <1>1
      <4>2. ring[m].at \in Int
        BY <1>1, <4>1 DEF Events
      <4>3. CASE i = m
        BY <4>2, <4>3
      <4>4. CASE i # m
        <5>1. i < m
          BY <4>1, <4>4
        <5> QED
          BY <1>1, <2>1, <4>1, <5>1 DEF SortedByAt
      <4> QED
        BY <4>3, <4>4
    <3> SUFFICES ASSUME NEW i \in 1 .. m + n, NEW j \in 1 .. m + n, i < j
                 PROVE  r[i].at <= r[j].at
      BY <3>2 DEF SortedByAt
    <3>11. CASE j <= m
      <4>1. i \in 1 .. m /\ j \in 1 .. m
        BY <1>1, <3>11
      <4> QED
        BY <1>1, <2>1, <3>1, <4>1 DEF SortedByAt
    <3>12. CASE i > m
      <4>1. /\ i - m \in 1 .. n /\ j - m \in 1 .. n /\ i - m < j - m
            /\ m + (i - m) = i /\ m + (j - m) = j
        BY <1>1, <3>12
      <4>2. r[m + (i - m)] = b[i - m] /\ r[m + (j - m)] = b[j - m]
        BY <3>1, <4>1
      <4>3. b[i - m].at <= b[j - m].at
        BY <3>8, <4>1
      <4> QED
        BY <4>1, <4>2, <4>3
    <3>13. CASE i <= m /\ j > m
      <4>1. i \in 1 .. m /\ m > 0 /\ j - m \in 1 .. n /\ m + (j - m) = j
        BY <1>1, <3>13
      <4>2. r[i] = ring[i] /\ r[m + (j - m)] = b[j - m]
        BY <3>1, <4>1
      <4>3. ring[i].at <= ring[m].at /\ ring[m].at <= b[j - m].at
        BY <3>9, <3>10, <4>1
      <4>4. ring[i].at \in Int /\ ring[m].at \in Int /\ b[j - m].at \in Int
        <5>1. m \in 1 .. m
          BY <1>1, <4>1
        <5> QED
          BY <1>1, <4>1, <5>1 DEF Events
      <4> QED
        BY <4>1, <4>2, <4>3, <4>4
    <3> QED
      BY <1>1, <3>11, <3>12, <3>13
  <2> HIDE DEF r, end
  <2> QED
    BY <1>2, <1>3, <1>5, <2>1
<1> QED
  BY <1>4, <1>5

-----------------------------------------------------------------------------
(* The ring.                                                               *)

(* Events of a source that it has made, in any sequence of batches.        *)
MadeBy(s) == {e \in Events : e.source = s /\ e.nr <= made[s]}
MadeByAny == {e \in Events : e.nr <= made[e.source]}

Apart(a, b) == ToSet(a) \cap ToSet(b) = {}
OnTheWay == UNION {ToSet(b) : b \in late}

(* The batches of a source that its reporter still has, its queue the last *)
(* one, and the first that the hub has not heard.                          *)
Line(s) == Append(chain[s], queue[s])
FirstUnheard(s) == IF heldBy[s] = "hub" THEN 2 ELSE 1

(* Batches of events made, each once, none on the way and none heard from  *)
(* the first on.                                                           *)
Orderly(line, of, way, hub, first) ==
  /\ \A i \in 1 .. Len(line) : /\ IsInjective(line[i]) /\ ToSet(line[i]) \subseteq of
                               /\ ToSet(line[i]) \cap way = {}
                               /\ i >= first => ToSet(line[i]) \cap hub = {}
  /\ \A i, j \in 1 .. Len(line) : i < j => Apart(line[i], line[j])

LineInv(s) == Orderly(Line(s), MadeBy(s), OnTheWay, heard, FirstUnheard(s))

LateInv ==
  /\ OnTheWay \subseteq MadeByAny
  /\ \A b \in late : IsInjective(b) /\ ToSet(b) \cap heard = {}
  /\ \A a, b \in late : a # b => Apart(a, b)

(* The store's rows, and what is being appended to them, have been heard,  *)
(* each once.                                                              *)
StoreInv ==
  /\ heard \subseteq MadeByAny
  /\ IsInjective(rows) /\ ToSet(rows) \subseteq heard
  /\ \A b \in appends : IsInjective(b) /\ ToSet(b) \subseteq heard /\ Apart(b, rows)
  /\ \A a, b \in appends : a # b => Apart(a, b)

(* What was read of the rows h has the times of their first part; while no *)
(* page ended amid a time, it has each row once and no time of the rest.   *)
PartRead(h, out, cut) ==
  /\ Len(out) <= Len(h)
  /\ \A i \in 1 .. Len(out) : out[i].at = h[i].at
  /\ cut = {} =>
       /\ IsInjective(out)
       /\ \A i \in 1 .. Len(out), j \in Len(out) + 1 .. Len(h) : h[i].at # h[j].at

(* A replay no append has torn has read a part of the rows it will.        *)
BootInv ==
  /\ ToSet(boot.out) \subseteq ToSet(rows)
  /\ boot.reading /\ ~boot.torn => PartRead(RowsSince(boot.since), boot.out, boot.cut)

Boots == [reading : BOOLEAN, since : Int, out : Seq(Events), owed : SUBSET Events,
          torn : BOOLEAN, cut : SUBSET Int, ragged : BOOLEAN, tied : BOOLEAN]

RingTypes ==
  /\ DeliveryTypes
  /\ \A b \in late \cup appends : b \in Seq(Events)
  /\ ring \in Seq(Events) /\ rows \in Seq(Events)
  /\ boot \in Boots
  /\ heard \subseteq Events

RingInv ==
  /\ RingTypes /\ (\A s \in Sources : LineInv(s)) /\ LateInv /\ StoreInv /\ BootInv
  /\ ToSet(ring) \subseteq heard
  /\ RingOrdered

(* The rows since a time: a part of the sorted rows.                       *)
LEMMA RowsSinceArePart ==
  ASSUME rows \in Seq(Events), NEW t
  PROVE  /\ RowsSince(t) \in Seq(Events) /\ ToSet(RowsSince(t)) \subseteq ToSet(rows)
         /\ SortedByAt(RowsSince(t))
         /\ IsInjective(rows) => IsInjective(RowsSince(t))
<1> DEFINE older == {i \in DOMAIN rows : rows[i].at < t}
           s == ByAt(rows)
<1>1. Len(rows) \in Nat /\ DOMAIN rows = 1 .. Len(rows)
  BY LenProperties
<1>2. /\ s \in Seq(Events) /\ Len(s) = Len(rows) /\ SortedByAt(s)
      /\ ToSet(s) = ToSet(rows) /\ (IsInjective(rows) => IsInjective(s))
  BY <1>1, ByAtSorts DEF IsSortOf, ToSet
<1> HIDE DEF s
<1>3. Cardinality(older) \in Nat
  <2>1. older \in SUBSET (1 .. Len(rows))
    BY <1>1
  <2>2. IsFiniteSet(1 .. Len(rows))
    BY <1>1, FS_Interval
  <2> HIDE DEF older
  <2> QED
    BY <2>1, <2>2, FS_Subset, FS_CardinalityType
<1> DEFINE m == Cardinality(older) + 1
<1>4. m \in Nat \ {0} /\ Len(rows) \in 0 .. Len(s)
  BY <1>1, <1>2, <1>3
<1>5. RowsSince(t) = SubSeq(s, m, Len(rows))
  BY DEF RowsSince, s
<1> HIDE DEF m
<1>6. PartOf(SubSeq(s, m, Len(rows)), s)
  BY <1>2, <1>4, SubSeqIsPart
<1> QED
  BY <1>2, <1>5, <1>6 DEF PartOf

-----------------------------------------------------------------------------
(* What keeps the batches of a source in order.                            *)

(* Its source may make more, and what others have on the way or heard is   *)
(* none of its own.                                                        *)
LEMMA OrderlyStays ==
  ASSUME NEW line, NEW of, NEW way, NEW hub, NEW first, Orderly(line, of, way, hub, first),
         NEW of2, NEW way2, NEW hub2, of \subseteq of2,
         way2 \cap of \subseteq way, hub2 \cap of \subseteq hub
  PROVE  Orderly(line, of2, way2, hub2, first)
<1>1. ASSUME NEW i \in 1 .. Len(line)
      PROVE  /\ IsInjective(line[i]) /\ ToSet(line[i]) \subseteq of2
             /\ ToSet(line[i]) \cap way2 = {}
             /\ i >= first => ToSet(line[i]) \cap hub2 = {}
  <2>1. /\ IsInjective(line[i]) /\ ToSet(line[i]) \subseteq of /\ ToSet(line[i]) \cap way = {}
        /\ i >= first => ToSet(line[i]) \cap hub = {}
    BY DEF Orderly
  <2> QED
    BY <2>1
<1> QED
  BY <1>1, Zenon DEF Orderly

(* What was on the way is heard.                                           *)
LEMMA OrderlyAsOthersArrive ==
  ASSUME NEW line, NEW of, NEW way, NEW hub, NEW first, Orderly(line, of, way, hub, first),
         NEW way2, NEW hub2, way2 \subseteq way, hub2 \subseteq hub \cup way
  PROVE  Orderly(line, of, way2, hub2, first)
<1>1. ASSUME NEW i \in 1 .. Len(line)
      PROVE  /\ IsInjective(line[i]) /\ ToSet(line[i]) \subseteq of
             /\ ToSet(line[i]) \cap way2 = {}
             /\ i >= first => ToSet(line[i]) \cap hub2 = {}
  <2>1. /\ IsInjective(line[i]) /\ ToSet(line[i]) \subseteq of /\ ToSet(line[i]) \cap way = {}
        /\ i >= first => ToSet(line[i]) \cap hub = {}
    BY DEF Orderly
  <2> QED
    BY <2>1
<1> QED
  BY <1>1, Zenon DEF Orderly

(* Its first batch is heard.                                               *)
LEMMA OrderlyAsFirstArrives ==
  ASSUME NEW S, NEW line \in Seq(S), NEW of, NEW way, NEW hub, Orderly(line, of, way, hub, 1)
  PROVE  Orderly(line, of, way, hub \cup ToSet(line[1]), 2)
<1> DEFINE hub2 == hub \cup ToSet(line[1])
<1>1. ASSUME NEW i \in 1 .. Len(line)
      PROVE  /\ IsInjective(line[i]) /\ ToSet(line[i]) \subseteq of
             /\ ToSet(line[i]) \cap way = {}
             /\ i >= 2 => ToSet(line[i]) \cap hub2 = {}
  <2>1. /\ IsInjective(line[i]) /\ ToSet(line[i]) \subseteq of /\ ToSet(line[i]) \cap way = {}
        /\ i >= 1 => ToSet(line[i]) \cap hub = {}
    BY DEF Orderly
  <2>2. ASSUME i >= 2 PROVE ToSet(line[i]) \cap ToSet(line[1]) = {}
    <3>1. 1 \in 1 .. Len(line) /\ 1 < i
      BY <2>2
    <3> QED
      BY <3>1 DEF Orderly, Apart
  <2> QED
    BY <2>1, <2>2
<1> HIDE DEF hub2
<1>2. Orderly(line, of, way, hub2, 2)
  BY <1>1, Zenon DEF Orderly
<1> QED
  BY <1>2 DEF hub2

(* Its first batch is taken away, and may be on the way from then on.      *)
LEMMA OrderlyAsFirstLeaves ==
  ASSUME NEW S, NEW line \in Seq(S), line # <<>>, NEW of, NEW way, NEW hub, NEW first \in {1, 2},
         Orderly(line, of, way, hub, first), NEW way2, way2 \subseteq way \cup ToSet(line[1])
  PROVE  Orderly(Tail(line), of, way2, hub, 1)
<1> DEFINE t == Tail(line)
<1>1. Len(line) \in Nat /\ Len(t) = Len(line) - 1 /\ \A i \in 1 .. Len(t) : t[i] = line[i + 1]
  BY LenProperties, HeadTailProperties
<1> HIDE DEF t
<1>2. \A i \in 1 .. Len(t) : i + 1 \in 1 .. Len(line) /\ i + 1 >= first /\ 1 < i + 1
  BY <1>1
<1>3. Len(line) >= 1 /\ 1 \in 1 .. Len(line)
  BY <1>1, EmptySeq
<1>4. ASSUME NEW i \in 1 .. Len(t)
      PROVE  /\ IsInjective(t[i]) /\ ToSet(t[i]) \subseteq of
             /\ ToSet(t[i]) \cap way2 = {}
             /\ i >= 1 => ToSet(t[i]) \cap hub = {}
  <2> DEFINE b == line[i + 1]
  <2>1. IsInjective(b) /\ ToSet(b) \subseteq of /\ ToSet(b) \cap way = {} /\ ToSet(b) \cap hub = {}
    BY <1>2 DEF Orderly
  <2>2. ToSet(line[1]) \cap ToSet(b) = {}
    BY <1>2, <1>3 DEF Orderly, Apart
  <2> QED
    BY <1>1, <2>1, <2>2
<1>5. ASSUME NEW i \in 1 .. Len(t), NEW j \in 1 .. Len(t), i < j PROVE Apart(t[i], t[j])
  <2>1. i + 1 < j + 1
    BY <1>5
  <2> QED
    BY <1>1, <1>2, <2>1 DEF Orderly
<1>6. Orderly(t, of, way2, hub, 1)
  BY <1>4, <1>5, Zenon DEF Orderly
<1> QED
  BY <1>6 DEF t

(* The queue, the last batch, becomes q, of the same events and new ones.  *)
LEMMA OrderlyAsLastGrows ==
  ASSUME NEW S, NEW c \in Seq(S), NEW q \in S, NEW k \in S,
         NEW of, NEW way, NEW hub, NEW first, Orderly(Append(c, q), of, way, hub, first),
         NEW e, e \notin of, e \notin way, e \notin hub,
         IsInjective(k), ToSet(k) \subseteq ToSet(q) \cup {e}
  PROVE  Orderly(Append(c, k), of \cup {e}, way, hub, first)
<1> DEFINE x == Append(c, q)
           y == Append(c, k)
           n == Len(c)
           of2 == of \cup {e}
<1>1. /\ n \in Nat /\ Len(x) = n + 1 /\ Len(y) = n + 1
      /\ \A i \in 1 .. n : x[i] = c[i] /\ y[i] = c[i]
      /\ x[n + 1] = q /\ y[n + 1] = k
  BY LenProperties, AppendProperties
<1> HIDE DEF x, y, n, of2
<1>2. \A i \in 1 .. n + 1 : \/ i \in 1 .. n /\ y[i] = x[i]
                            \/ i = n + 1 /\ y[i] = k /\ x[i] = q
  BY <1>1
<1>3. \A i \in 1 .. n + 1 : ToSet(y[i]) \subseteq ToSet(x[i]) \cup (IF i = n + 1 THEN {e} ELSE {})
  <2> SUFFICES ASSUME NEW i \in 1 .. n + 1
               PROVE  ToSet(y[i]) \subseteq ToSet(x[i]) \cup (IF i = n + 1 THEN {e} ELSE {})
    OBVIOUS
  <2>1. CASE i \in 1 .. n /\ y[i] = x[i]
    BY <2>1
  <2>2. CASE i = n + 1 /\ y[i] = k /\ x[i] = q
    BY <2>2
  <2> QED
    BY <1>2, <2>1, <2>2
<1>4. Orderly(x, of, way, hub, first)
  BY DEF x
<1>5. ASSUME NEW i \in 1 .. n + 1
      PROVE  /\ IsInjective(y[i]) /\ ToSet(y[i]) \subseteq of2
             /\ ToSet(y[i]) \cap way = {}
             /\ i >= first => ToSet(y[i]) \cap hub = {}
  <2>1. /\ IsInjective(x[i]) /\ ToSet(x[i]) \subseteq of /\ ToSet(x[i]) \cap way = {}
        /\ i >= first => ToSet(x[i]) \cap hub = {}
    BY <1>1, <1>4 DEF Orderly
  <2>2. IsInjective(y[i])
    BY <1>2, <2>1
  <2>3. ToSet(y[i]) \subseteq ToSet(x[i]) \cup {e}
    BY <1>3
  <2> QED
    BY <2>1, <2>2, <2>3 DEF of2
<1>6. ASSUME NEW i \in 1 .. n + 1, NEW j \in 1 .. n + 1, i < j PROVE Apart(y[i], y[j])
  <2>1. i \in 1 .. n /\ i # n + 1
    BY <1>1, <1>6
  <2>2. ToSet(y[i]) \subseteq ToSet(x[i]) /\ ToSet(y[j]) \subseteq ToSet(x[j]) \cup {e}
    BY <1>3, <2>1
  <2>3. ToSet(x[i]) \cap ToSet(x[j]) = {} /\ ToSet(x[i]) \subseteq of
    BY <1>1, <1>4, <1>6 DEF Orderly, Apart
  <2> QED
    BY <2>2, <2>3 DEF Apart
<1>7. Orderly(y, of2, way, hub, first)
  BY <1>1, <1>5, <1>6, Zenon DEF Orderly
<1> QED
  BY <1>7 DEF y, of2

(* drain: what was queued is a batch, and the queue is empty.              *)
LEMMA OrderlyAsQueueDrains ==
  ASSUME NEW S, NEW l \in Seq(Seq(S)), NEW of, NEW way, NEW hub, NEW first,
         Orderly(l, of, way, hub, first)
  PROVE  Orderly(Append(l, <<>>), of, way, hub, first)
<1> DEFINE y == Append(l, <<>>)
           n == Len(l)
<1>1. /\ n \in Nat /\ Len(y) = n + 1 /\ \A i \in 1 .. n : y[i] = l[i]
      /\ y[n + 1] = <<>>
  <2>1. <<>> \in Seq(S)
    OBVIOUS
  <2> QED
    BY <2>1, LenProperties, AppendProperties
<1> HIDE DEF y
<1>2. ToSet(<<>>) = {} /\ IsInjective(<<>>)
  BY DEF ToSet, IsInjective
<1>3. ASSUME NEW i \in 1 .. n + 1
      PROVE  /\ IsInjective(y[i]) /\ ToSet(y[i]) \subseteq of
             /\ ToSet(y[i]) \cap way = {}
             /\ i >= first => ToSet(y[i]) \cap hub = {}
  <2>1. CASE i \in 1 .. n
    BY <1>1, <2>1 DEF Orderly
  <2>2. CASE i = n + 1
    BY <1>1, <1>2, <2>2
  <2> QED
    BY <1>1, <2>1, <2>2
<1>4. ASSUME NEW i \in 1 .. n + 1, NEW j \in 1 .. n + 1, i < j PROVE Apart(y[i], y[j])
  <2>1. i \in 1 .. n
    BY <1>1, <1>4
  <2>2. CASE j \in 1 .. n
    BY <1>1, <1>4, <2>1, <2>2 DEF Orderly
  <2>3. CASE j = n + 1
    BY <1>1, <1>2, <2>3 DEF Apart
  <2> QED
    BY <1>1, <2>2, <2>3
<1>5. Orderly(y, of, way, hub, first)
  BY <1>1, <1>3, <1>4, Zenon DEF Orderly
<1> QED
  BY <1>5 DEF y

LEMMA NothingIsOrderly ==
  ASSUME NEW of, NEW way, NEW hub, NEW first
  PROVE  Orderly(<<<<>>>>, of, way, hub, first)
<1>1. Len(<<<<>>>>) = 1 /\ <<<<>>>>[1] = <<>> /\ 1 .. 1 = {1}
  OBVIOUS
<1>2. ToSet(<<>>) = {} /\ IsInjective(<<>>)
  BY DEF ToSet, IsInjective
<1>3. \A i \in 1 .. 1 : i = 1
  OBVIOUS
<1>4. \A i, j \in 1 .. 1 : ~(i < j)
  OBVIOUS
<1> QED
  BY <1>1, <1>2, <1>3, <1>4 DEF Orderly

(* The line of a source, its first batch and the others.                   *)
LEMMA LineOfBatches ==
  ASSUME DeliveryTypes, NEW s \in Sources
  PROVE  /\ Line(s) \in Seq(Seq(Events)) /\ Line(s) # <<>>
         /\ chain[s] # <<>> =>
              /\ Head(chain[s]) = Line(s)[1] /\ Head(chain[s]) \in Seq(Events)
              /\ Tail(Line(s)) = Append(Tail(chain[s]), queue[s])
<1> DEFINE c == chain[s]
           q == queue[s]
           T == Seq(Events)
           l == Append(c, q)
<1>1. c \in Seq(T) /\ q \in T
  BY DEF DeliveryTypes
<1> HIDE DEF T, c, q
<1>2. l \in Seq(T) /\ l # <<>> /\ Len(l) = Len(c) + 1 /\ \A i \in 1 .. Len(c) : l[i] = c[i]
  BY <1>1, AppendProperties
<1>3. ASSUME c # <<>>
      PROVE  Head(c) = l[1] /\ Head(c) \in T /\ Tail(l) = Append(Tail(c), q)
  <2>1. Len(c) \in Nat \ {0} /\ 1 \in 1 .. Len(c)
    BY <1>1, <1>3, EmptySeq
  <2>2. Head(c) = c[1] /\ Head(c) \in T /\ Tail(c) \in Seq(T)
    BY <1>1, <1>3, HeadTailProperties
  <2>3. Tail(l) = Append(Tail(c), q)
    BY <1>1, <1>3
  <2> QED
    BY <1>2, <2>1, <2>2, <2>3
<1> QED
  BY <1>2, <1>3 DEF Line, c, q, T

(* A source's line stays in order while others move.                       *)
LEMMA LineStays ==
  ASSUME NEW s, LineInv(s), chain'[s] = chain[s], queue'[s] = queue[s], heldBy'[s] = heldBy[s],
         made'[s] = made[s], OnTheWay' \cap MadeBy(s) \subseteq OnTheWay,
         heard' \cap MadeBy(s) \subseteq heard
  PROVE  LineInv(s)'
<1>1. Line(s)' = Line(s) /\ FirstUnheard(s)' = FirstUnheard(s) /\ MadeBy(s)' = MadeBy(s)
  BY DEF Line, FirstUnheard, MadeBy
<1>2. Orderly(Line(s), MadeBy(s), OnTheWay', heard', FirstUnheard(s))
  BY OrderlyStays DEF LineInv
<1> QED
  BY <1>1, <1>2 DEF LineInv

(* Time and the number of events only grow.                                *)
LEMMA MadeStays ==
  ASSUME DeliveryTypes, made' \in [Sources -> Nat], \A s \in Sources : made[s] <= made'[s]
  PROVE  MadeByAny \subseteq MadeByAny' /\ \A s \in Sources : MadeBy(s) \subseteq MadeBy(s)'
<1>1. made \in [Sources -> Nat]
  BY DEF DeliveryTypes
<1>2. \A e \in Events : e.source \in Sources /\ e.nr \in Nat
  BY DEF Events
<1> QED
  BY <1>1, <1>2 DEF MadeByAny, MadeBy

(* What is on the way stays as it is while nothing is sent or heard.       *)
LEMMA LateStays ==
  ASSUME LateInv, late' \subseteq late, heard' = heard, MadeByAny \subseteq MadeByAny'
  PROVE  LateInv'
<1>1. OnTheWay' \subseteq OnTheWay
  BY DEF OnTheWay
<1> QED
  BY <1>1 DEF LateInv

(* So does the hub's part while the hub does nothing.                      *)
LEMMA HubStays ==
  ASSUME RingInv, DeliveryTypes', UNCHANGED hubVars, \A b \in late' : b \in Seq(Events),
         MadeByAny \subseteq MadeByAny', LateInv', \A s \in Sources : LineInv(s)'
  PROVE  RingInv'
<1>1. UNCHANGED <<ring, rows, appends, boot, heard>>
  BY DEF hubVars
<1>2. RingTypes'
  BY <1>1 DEF RingInv, RingTypes
<1>3. StoreInv'
  BY <1>1 DEF RingInv, StoreInv
<1>4. BootInv'
  <2>1. RowsSince(boot.since)' = RowsSince(boot.since)
    BY <1>1 DEF RowsSince
  <2> QED
    BY <1>1, <2>1 DEF RingInv, BootInv
<1>5. ToSet(ring') \subseteq heard' /\ RingOrdered'
  BY <1>1 DEF RingInv, RingOrdered
<1> QED
  BY <1>2, <1>3, <1>4, <1>5 DEF RingInv

-----------------------------------------------------------------------------
(* The reporter's steps.                                                   *)

(* drain of what may stand at the end of the line.                         *)
LEMMA DrainedLine ==
  ASSUME DeliveryTypes, NEW s \in Sources, NEW q \in Seq(Events), Drained(s, q),
         NEW of, NEW way, NEW hub, NEW first,
         Orderly(Append(chain[s], q), of, way, hub, first)
  PROVE  Orderly(Append(chain'[s], queue'[s]), of, way, hub, first)
<1>1. /\ chain[s] \in Seq(Seq(Events)) /\ chain \in [Sources -> Seq(Seq(Events))]
      /\ queue \in [Sources -> Seq(Events)]
  BY DEF DeliveryTypes
<1>2. queue'[s] = <<>>
  BY <1>1 DEF Drained
<1>3. CASE q = <<>>
  <2>1. chain'[s] = chain[s]
    BY <1>1, <1>3 DEF Drained
  <2> QED
    BY <1>2, <1>3, <2>1
<1>4. CASE q # <<>>
  <2> DEFINE l == Append(chain[s], q)
  <2>1. chain'[s] = l
    BY <1>1, <1>4 DEF Drained
  <2>2. l \in Seq(Seq(Events))
    BY <1>1
  <2> HIDE DEF l
  <2>3. Orderly(l, of, way, hub, first)
    BY DEF l
  <2>4. Orderly(Append(l, <<>>), of, way, hub, first)
    BY <2>2, <2>3, OrderlyAsQueueDrains
  <2> QED
    BY <1>2, <2>1, <2>4
<1> QED
  BY <1>3, <1>4

LEMMA DrainKeepsRing ==
  ASSUME RingInv, DeliveryTypes', NEW s \in Sources, Drain(s) \/ Close(s)
  PROVE  RingInv'
<1>1. /\ UNCHANGED <<made, heldBy, late, hubVars>> /\ Drained(s, queue[s])
      /\ DeliveryTypes /\ queue[s] \in Seq(Events) /\ heard' = heard
  BY DEF Drain, Close, RingInv, RingTypes, DeliveryTypes, hubVars
<1>2. OnTheWay' = OnTheWay /\ MadeByAny' = MadeByAny
  BY <1>1 DEF OnTheWay, MadeByAny
<1>3. ASSUME NEW r \in Sources PROVE LineInv(r)'
  <2>1. LineInv(r)
    BY DEF RingInv
  <2>2. CASE r = s
    <3>1. Orderly(Append(chain[s], queue[s]), MadeBy(s), OnTheWay, heard, FirstUnheard(s))
      BY <2>1, <2>2 DEF LineInv, Line
    <3>2. Orderly(Append(chain'[s], queue'[s]), MadeBy(s), OnTheWay, heard, FirstUnheard(s))
      BY <1>1, <3>1, DrainedLine
    <3>3. /\ MadeBy(s)' = MadeBy(s) /\ FirstUnheard(s)' = FirstUnheard(s)
          /\ Line(s)' = Append(chain'[s], queue'[s])
      BY <1>1 DEF MadeBy, FirstUnheard, Line
    <3> QED
      BY <1>1, <1>2, <2>2, <3>2, <3>3 DEF LineInv
  <2>3. CASE r # s
    <3>1. queue'[r] = queue[r] /\ chain'[r] = chain[r]
      BY <1>1, <2>3, DrainedMoves
    <3> QED
      BY <1>1, <1>2, <2>1, <3>1, LineStays
  <2> QED
    BY <2>2, <2>3
<1>4. LateInv'
  BY <1>1, <1>2, LateStays DEF RingInv
<1>5. \A b \in late' : b \in Seq(Events)
  BY <1>1 DEF RingInv, RingTypes
<1> QED
  BY <1>1, <1>2, <1>3, <1>4, <1>5, HubStays

(* An event that has just been made is nowhere else.                       *)
LEMMA EnqueueKeepsRing ==
  ASSUME RingInv, DeliveryTypes', NEW s \in Sources, Enqueue(s)
  PROVE  RingInv'
<1> DEFINE e == [source |-> s, nr |-> made[s] + 1, at |-> clk]
           q == Append(queue[s], e)
           over == IF Len(q) > MaxQueue[s] THEN Len(q) - MaxQueue[s] ELSE 0
           kept == SubSeq(q, over + 1, Len(q))
<1>1. /\ DeliveryTypes /\ made \in [Sources -> Nat] /\ clk \in Int
      /\ queue \in [Sources -> Seq(Events)] /\ queue[s] \in Seq(Events)
      /\ chain \in [Sources -> Seq(Seq(Events))]
  BY DEF RingInv, RingTypes, DeliveryTypes
<1>2. e \in Events /\ e.source = s /\ e.nr = made[s] + 1
  BY <1>1 DEF Events
<1>3. /\ UNCHANGED <<heldBy, late, hubVars>> /\ heard' = heard
      /\ made' = [made EXCEPT ![s] = made[s] + 1]
      /\ \/ Drained(s, kept)
         \/ queue' = [queue EXCEPT ![s] = kept] /\ chain' = chain
  BY DEF Enqueue, hubVars
<1> HIDE DEF e
<1>4. q \in Seq(Events) /\ Len(q) \in Nat
  BY <1>1, <1>2, AppendProperties, LenProperties
<1>5. e \notin MadeByAny /\ e \notin MadeBy(s)
  BY <1>1, <1>2 DEF MadeByAny, MadeBy
<1>6. e \notin heard /\ e \notin OnTheWay
  BY <1>5 DEF RingInv, StoreInv, LateInv
<1>7. made'[s] = made[s] + 1 /\ \A r \in Sources \ {s} : made'[r] = made[r]
  BY <1>1, <1>3
<1>8. /\ MadeByAny \subseteq MadeByAny' /\ MadeBy(s) \cup {e} \subseteq MadeBy(s)'
  <2>1. made' \in [Sources -> Nat] /\ \A r \in Sources : made[r] <= made'[r]
    <3>1. \A r \in Sources : made[r] \in Nat /\ made'[r] \in {made[r], made[r] + 1}
      BY <1>1, <1>7
    <3>2. made' \in [Sources -> Nat]
      BY <1>1, <1>3
    <3> QED
      BY <3>1, <3>2
  <2>2. e \in MadeBy(s)'
    BY <1>1, <1>2, <1>7 DEF MadeBy
  <2> QED
    BY <1>1, <2>1, <2>2, MadeStays
<1>9. Orderly(Append(chain[s], queue[s]), MadeBy(s), OnTheWay, heard, FirstUnheard(s))
  BY DEF RingInv, LineInv, Line
<1>10. IsInjective(queue[s]) /\ ToSet(queue[s]) \subseteq MadeBy(s)
  <2> DEFINE l == Append(chain[s], queue[s])
  <2>1. Len(l) \in 1 .. Len(l) /\ l[Len(l)] = queue[s]
    <3>1. chain[s] \in Seq(Seq(Events))
      BY <1>1
    <3>2. Len(l) = Len(chain[s]) + 1 /\ l[Len(chain[s]) + 1] = queue[s] /\ Len(chain[s]) \in Nat
      BY <1>1, <3>1, AppendProperties, LenProperties
    <3> HIDE DEF l
    <3> QED
      BY <3>2
  <2> HIDE DEF l
  <2>2. Orderly(l, MadeBy(s), OnTheWay, heard, FirstUnheard(s))
    BY <1>9 DEF l
  <2> QED
    BY <2>1, <2>2 DEF Orderly
<1>11. IsInjective(q) /\ ToSet(q) = ToSet(queue[s]) \cup {e}
  <2>1. <<e>> \in Seq(Events) /\ ToSet(<<e>>) = {e} /\ IsInjective(<<e>>)
    BY <1>2 DEF ToSet, IsInjective
  <2>2. q = queue[s] \o <<e>>
    BY <1>1, <1>2, AppendIsConcat
  <2>3. Gathers(q, queue[s], <<e>>)
    BY <1>1, <2>1, <2>2, JoinedGathers
  <2>4. ToSet(queue[s]) \cap ToSet(<<e>>) = {}
    BY <1>5, <1>10, <2>1
  <2> QED
    BY <1>10, <2>1, <2>3, <2>4 DEF Gathers
<1> HIDE DEF q
<1>12. /\ kept \in Seq(Events) /\ IsInjective(kept)
       /\ ToSet(kept) \subseteq ToSet(queue[s]) \cup {e}
  <2>1. over \in Nat
    BY <1>4, TelemetryAssumption
  <2> HIDE DEF over
  <2>2. over + 1 \in Nat \ {0} /\ Len(q) \in 0 .. Len(q)
    BY <1>4, <2>1
  <2>3. PartOf(kept, q)
    BY <1>4, <2>2, SubSeqIsPart
  <2> QED
    BY <1>11, <2>3 DEF PartOf
<1> HIDE DEF kept, over
<1>13. Orderly(Append(chain[s], kept), MadeBy(s) \cup {e}, OnTheWay, heard, FirstUnheard(s))
  <2>1. chain[s] \in Seq(Seq(Events))
    BY <1>1
  <2> QED
    BY <1>1, <1>5, <1>6, <1>9, <1>12, <2>1, OrderlyAsLastGrows
<1>14. OnTheWay' = OnTheWay
  BY <1>3 DEF OnTheWay
<1>15. LineInv(s)'
  <2>1. Orderly(Line(s)', MadeBy(s) \cup {e}, OnTheWay, heard, FirstUnheard(s))
    <3>1. CASE Drained(s, kept)
      BY <1>1, <1>12, <1>13, <3>1, DrainedLine DEF Line
    <3>2. CASE queue' = [queue EXCEPT ![s] = kept] /\ chain' = chain
      BY <1>1, <1>13, <3>2 DEF Line
    <3> QED
      BY <1>3, <3>1, <3>2
  <2>2. Orderly(Line(s)', MadeBy(s)', OnTheWay, heard, FirstUnheard(s))
    BY <1>8, <2>1, OrderlyStays
  <2>3. FirstUnheard(s)' = FirstUnheard(s)
    BY <1>3 DEF FirstUnheard
  <2> QED
    BY <1>3, <1>14, <2>2, <2>3 DEF LineInv
<1>16. ASSUME NEW r \in Sources PROVE LineInv(r)'
  <2>1. CASE r # s
    <3>1. queue'[r] = queue[r] /\ chain'[r] = chain[r]
      <4>1. CASE Drained(s, kept)
        BY <1>1, <1>12, <2>1, <4>1, DrainedMoves
      <4>2. CASE queue' = [queue EXCEPT ![s] = kept] /\ chain' = chain
        BY <1>1, <2>1, <4>2
      <4> QED
        BY <1>3, <4>1, <4>2
    <3>2. LineInv(r) /\ made'[r] = made[r] /\ heldBy'[r] = heldBy[r]
      BY <1>3, <1>7, <2>1 DEF RingInv
    <3> QED
      BY <1>3, <1>14, <3>1, <3>2, LineStays
  <2> QED
    BY <1>15, <2>1
<1>17. LateInv'
  BY <1>3, <1>8, LateStays DEF RingInv
<1>18. \A b \in late' : b \in Seq(Events)
  BY <1>3 DEF RingInv, RingTypes
<1> QED
  BY <1>3, <1>8, <1>16, <1>17, <1>18, HubStays

(* The end of a send takes the first batch of the line away; a failed one  *)
(* may still be on the way.                                                *)
LEMMA NextBatchKeepsRing ==
  ASSUME RingInv, DeliveryTypes', NEW s \in Sources, chain[s] # <<>>, NextBatch(s),
         UNCHANGED <<made, queue, hubVars>>,
         \/ late' = late
         \/ heldBy[s] = "reporter" /\ late' = late \cup {Head(chain[s])}
  PROVE  RingInv'
<1> DEFINE b == Head(chain[s])
           B == ToSet(Line(s)[1])
<1>1. /\ DeliveryTypes /\ chain \in [Sources -> Seq(Seq(Events))]
      /\ heldBy \in [Sources -> {"reporter", "hub"}] /\ heard' = heard
  BY DEF RingInv, RingTypes, DeliveryTypes, hubVars
<1>2. /\ Line(s) \in Seq(Seq(Events)) /\ Line(s) # <<>> /\ b = Line(s)[1]
      /\ b \in Seq(Events) /\ Tail(Line(s)) = Append(Tail(chain[s]), queue[s])
  BY <1>1, LineOfBatches
<1>3. /\ chain'[s] = Tail(chain[s]) /\ heldBy'[s] = "reporter"
      /\ \A r \in Sources \ {s} : chain'[r] = chain[r] /\ heldBy'[r] = heldBy[r]
  BY <1>1 DEF NextBatch
<1>4. Line(s)' = Tail(Line(s)) /\ FirstUnheard(s)' = 1
  BY <1>2, <1>3 DEF Line, FirstUnheard
<1>5. MadeByAny' = MadeByAny /\ \A r \in Sources : MadeBy(r)' = MadeBy(r)
  BY DEF MadeByAny, MadeBy
<1>6. OnTheWay' \subseteq OnTheWay \cup B
  BY <1>2 DEF OnTheWay
<1>7. Orderly(Line(s), MadeBy(s), OnTheWay, heard, FirstUnheard(s))
  BY DEF RingInv, LineInv
<1>8. FirstUnheard(s) \in {1, 2} /\ (heldBy[s] = "reporter" => FirstUnheard(s) = 1)
  BY DEF FirstUnheard
<1>9. /\ IsInjective(b) /\ B \subseteq MadeBy(s) /\ B \cap OnTheWay = {}
      /\ heldBy[s] = "reporter" => B \cap heard = {}
  <2>1. 1 \in 1 .. Len(Line(s))
    BY <1>2, EmptySeq
  <2>2. /\ IsInjective(Line(s)[1]) /\ B \subseteq MadeBy(s) /\ B \cap OnTheWay = {}
        /\ 1 >= FirstUnheard(s) => B \cap heard = {}
    BY <1>7, <2>1 DEF Orderly
  <2> QED
    BY <1>2, <1>8, <2>2
<1>10. LineInv(s)'
  <2>1. Orderly(Tail(Line(s)), MadeBy(s), OnTheWay', heard, 1)
    BY <1>2, <1>6, <1>7, <1>8, OrderlyAsFirstLeaves
  <2> QED
    BY <1>1, <1>4, <1>5, <2>1 DEF LineInv
<1>11. ASSUME NEW r \in Sources, r # s PROVE LineInv(r)'
  <2>1. B \cap MadeBy(r) = {}
    BY <1>9, <1>11 DEF MadeBy
  <2>2. OnTheWay' \cap MadeBy(r) \subseteq OnTheWay
    BY <1>6, <2>1
  <2>3. LineInv(r) /\ queue'[r] = queue[r] /\ made'[r] = made[r]
    BY DEF RingInv
  <2> QED
    BY <1>1, <1>3, <1>11, <2>2, <2>3, LineStays
<1>12. MadeBy(s) \subseteq MadeByAny
  BY DEF MadeBy, MadeByAny
<1>13. LateInv' /\ \A a \in late' : a \in Seq(Events)
  <2>1. LateInv /\ \A a \in late : a \in Seq(Events)
    BY DEF RingInv, RingTypes
  <2>2. CASE late' = late
    BY <1>1, <1>5, <2>1, <2>2, LateStays
  <2>3. CASE heldBy[s] = "reporter" /\ late' = late \cup {b}
    <3>1. ToSet(b) = B /\ B \cap heard = {}
      BY <1>2, <1>9, <2>3
    <3>2. \A a \in late : ToSet(a) \subseteq OnTheWay
      BY DEF OnTheWay
    <3>3. \A a \in late : ToSet(a) \cap B = {}
      BY <1>9, <3>2
    <3>4. \A a \in late' : IsInjective(a) /\ ToSet(a) \cap heard' = {}
      BY <1>1, <1>9, <2>1, <2>3, <3>1 DEF LateInv
    <3>5. \A a, c \in late' : a # c => Apart(a, c)
      <4> SUFFICES ASSUME NEW a \in late', NEW c \in late', a # c PROVE ToSet(a) \cap ToSet(c) = {}
        BY DEF Apart
      <4>1. CASE a \in late /\ c \in late
        BY <2>1, <4>1 DEF LateInv, Apart
      <4>2. CASE a = b \/ c = b
        <5>1. a \in late \/ c \in late
          BY <2>3
        <5> QED
          BY <3>1, <3>3, <4>2, <5>1, <2>3
      <4> QED
        BY <2>3, <4>1, <4>2
    <3>6. OnTheWay' \subseteq MadeByAny'
      BY <1>5, <1>6, <1>9, <1>12, <2>1 DEF LateInv
    <3> QED
      BY <1>2, <2>1, <2>3, <3>4, <3>5, <3>6 DEF LateInv
  <2> QED
    BY <2>2, <2>3
<1> QED
  BY <1>5, <1>10, <1>11, <1>13, HubStays

(* Steps that move no batch.                                               *)
LEMMA IdleKeepsRing ==
  ASSUME RingInv, DeliveryTypes', UNCHANGED <<made, queue, chain, heldBy, late, hubVars>>
  PROVE  RingInv'
<1>1. heard' = heard /\ OnTheWay' = OnTheWay /\ MadeByAny' = MadeByAny
  BY DEF hubVars, OnTheWay, MadeByAny
<1>2. \A r \in Sources : LineInv(r)'
  BY <1>1, LineStays DEF RingInv
<1>3. LateInv' /\ \A a \in late' : a \in Seq(Events)
  BY <1>1, LateStays DEF RingInv, RingTypes
<1> QED
  BY <1>1, <1>2, <1>3, HubStays

-----------------------------------------------------------------------------
(* The hub's steps.                                                        *)

(* ingest of a batch of new events keeps the ring in order, and each event *)
(* once.                                                                   *)
LEMMA IngestKeepsHub ==
  ASSUME RingInv, NEW b \in Seq(Events), IsInjective(b), ToSet(b) \cap heard = {},
         ToSet(b) \subseteq MadeByAny, Ingest(b), UNCHANGED <<made, rows, boot, clk>>
  PROVE  /\ StoreInv' /\ BootInv' /\ RingOrdered' /\ ToSet(ring') \subseteq heard'
         /\ ring' \in Seq(Events) /\ heard' \subseteq Events
         /\ \A a \in appends' : a \in Seq(Events)
<1>1. /\ ring \in Seq(Events) /\ clk \in Int /\ heard \subseteq Events
      /\ ToSet(ring) \subseteq heard /\ StoreInv /\ MadeByAny' = MadeByAny
      /\ \A a \in appends : a \in Seq(Events)
  BY DEF RingInv, RingTypes, DeliveryTypes, MadeByAny
<1>2. ring' = Pruned(Fold(b)) /\ appends' = appends \cup {b} /\ heard' = heard \cup ToSet(b)
  BY DEF Ingest
<1>3. Gathers(Fold(b), ring, b) /\ (SortedByAt(ring) => SortedByAt(Fold(b)))
  BY <1>1, FoldGathers
<1>4. Fold(b) \in Seq(Events)
  BY <1>3 DEF Gathers
<1>5. PartOf(ring', Fold(b))
  BY <1>1, <1>2, <1>4, PrunedIsPart
<1>6. ring' \in Seq(Events) /\ ToSet(ring') \subseteq heard'
  BY <1>1, <1>2, <1>3, <1>5 DEF PartOf, Gathers
<1>7. ASSUME ~boot.ragged PROVE SortedByAt(ring') /\ (~boot.tied => IsInjective(ring'))
  <2>1. SortedByAt(ring) /\ (~boot.tied => IsInjective(ring))
    BY <1>7 DEF RingInv, RingOrdered
  <2>2. ToSet(ring) \cap ToSet(b) = {}
    BY <1>1
  <2> QED
    BY <1>3, <1>5, <2>1, <2>2 DEF PartOf, Gathers
<1>8. RingOrdered'
  BY <1>7 DEF RingOrdered
<1>9. StoreInv'
  <2>1. heard' \subseteq MadeByAny' /\ ToSet(rows') \subseteq heard' /\ IsInjective(rows')
    BY <1>1, <1>2 DEF StoreInv
  <2>2. ToSet(b) \cap ToSet(rows) = {} /\ \A a \in appends : ToSet(a) \cap ToSet(b) = {}
    BY <1>1 DEF StoreInv
  <2>3. \A a \in appends' : IsInjective(a) /\ ToSet(a) \subseteq heard' /\ Apart(a, rows')
    BY <1>1, <1>2, <2>2 DEF StoreInv, Apart
  <2>4. ASSUME NEW a \in appends', NEW c \in appends', a # c PROVE Apart(a, c)
    <3>1. CASE a \in appends /\ c \in appends
      BY <1>1, <2>4, <3>1 DEF StoreInv
    <3>2. CASE a = b \/ c = b
      BY <1>2, <2>2, <2>4, <3>2 DEF Apart
    <3> QED
      BY <1>2, <3>1, <3>2
  <2> QED
    BY <2>1, <2>3, <2>4 DEF StoreInv
<1>10. BootInv'
  <2>1. RowsSince(boot.since)' = RowsSince(boot.since)
    BY DEF RowsSince
  <2> QED
    BY <2>1 DEF RingInv, BootInv
<1>11. heard' \subseteq Events
  <2>1. MadeByAny \subseteq Events
    BY DEF MadeByAny
  <2> QED
    BY <1>1, <1>2, <2>1
<1> QED
  BY <1>1, <1>2, <1>6, <1>8, <1>9, <1>10, <1>11

(* The first batch of a line reaches the hub.                              *)
LEMMA ArrivesKeepsRing ==
  ASSUME RingInv, DeliveryTypes', NEW s \in Sources, Arrives(s)
  PROVE  RingInv'
<1> DEFINE b == Head(chain[s])
<1>1. /\ DeliveryTypes /\ heldBy \in [Sources -> {"reporter", "hub"}]
      /\ rows \in Seq(Events) /\ boot \in Boots /\ LateInv
      /\ \A a \in late : a \in Seq(Events)
  BY DEF RingInv, RingTypes, DeliveryTypes
<1>2. /\ chain[s] # <<>> /\ heldBy[s] = "reporter" /\ Ingest(b)
      /\ heldBy' = [heldBy EXCEPT ![s] = "hub"]
      /\ UNCHANGED <<made, queue, chain, late, rows, boot, clk>>
  BY DEF Arrives
<1>3. Line(s) \in Seq(Seq(Events)) /\ Line(s) # <<>> /\ b = Line(s)[1] /\ b \in Seq(Events)
  BY <1>1, <1>2, LineOfBatches
<1>4. Orderly(Line(s), MadeBy(s), OnTheWay, heard, 1)
  BY <1>2 DEF RingInv, LineInv, FirstUnheard
<1>5. /\ IsInjective(b) /\ ToSet(b) \subseteq MadeBy(s) /\ ToSet(b) \cap OnTheWay = {}
      /\ ToSet(b) \cap heard = {}
  <2>1. 1 \in 1 .. Len(Line(s))
    BY <1>3, EmptySeq
  <2> QED
    BY <1>3, <1>4, <2>1 DEF Orderly
<1>6. ToSet(b) \subseteq MadeByAny
  BY <1>5 DEF MadeBy, MadeByAny
<1>7. /\ StoreInv' /\ BootInv' /\ RingOrdered' /\ ToSet(ring') \subseteq heard'
      /\ ring' \in Seq(Events) /\ heard' \subseteq Events
      /\ \A a \in appends' : a \in Seq(Events)
  BY <1>2, <1>3, <1>5, <1>6, IngestKeepsHub
<1>8. heard' = heard \cup ToSet(b)
  BY <1>2 DEF Ingest
<1>9. OnTheWay' = OnTheWay /\ MadeByAny' = MadeByAny
  BY <1>2 DEF OnTheWay, MadeByAny
<1>10. LineInv(s)'
  <2>1. Orderly(Line(s), MadeBy(s), OnTheWay, heard \cup ToSet(Line(s)[1]), 2)
    BY <1>3, <1>4, OrderlyAsFirstArrives
  <2>2. Line(s)' = Line(s) /\ MadeBy(s)' = MadeBy(s) /\ FirstUnheard(s)' = 2
    BY <1>1, <1>2 DEF Line, MadeBy, FirstUnheard
  <2> QED
    BY <1>3, <1>8, <1>9, <2>1, <2>2 DEF LineInv
<1>11. ASSUME NEW r \in Sources, r # s PROVE LineInv(r)'
  <2>1. ToSet(b) \cap MadeBy(r) = {}
    BY <1>5, <1>11 DEF MadeBy
  <2>2. heard' \cap MadeBy(r) \subseteq heard
    BY <1>8, <2>1
  <2>3. /\ LineInv(r) /\ heldBy'[r] = heldBy[r] /\ chain'[r] = chain[r]
        /\ queue'[r] = queue[r] /\ made'[r] = made[r]
    BY <1>1, <1>2, <1>11 DEF RingInv
  <2> QED
    BY <1>9, <2>2, <2>3, LineStays
<1>12. LateInv'
  <2>1. \A a \in late : ToSet(a) \subseteq OnTheWay
    BY DEF OnTheWay
  <2>2. \A a \in late : ToSet(a) \cap heard' = {}
    BY <1>1, <1>5, <1>8, <2>1 DEF LateInv
  <2> QED
    BY <1>1, <1>2, <1>9, <2>2 DEF LateInv
<1>13. RingTypes'
  BY <1>1, <1>2, <1>7 DEF RingTypes
<1> QED
  BY <1>7, <1>10, <1>11, <1>12, <1>13 DEF RingInv

(* A batch its reporter has given up arrives.                              *)
LEMMA LateArrivesKeepsRing ==
  ASSUME RingInv, DeliveryTypes', NEW b \in late, LateArrives(b)
  PROVE  RingInv'
<1>1. /\ DeliveryTypes /\ rows \in Seq(Events) /\ boot \in Boots /\ LateInv
      /\ \A a \in late : a \in Seq(Events)
  BY DEF RingInv, RingTypes
<1>2. /\ late' = late \ {b} /\ Ingest(b)
      /\ UNCHANGED <<made, queue, chain, heldBy, rows, boot, clk>>
  BY DEF LateArrives
<1>3. \A a \in late : ToSet(a) \subseteq OnTheWay
  BY DEF OnTheWay
<1>4. /\ b \in Seq(Events) /\ IsInjective(b) /\ ToSet(b) \cap heard = {}
      /\ ToSet(b) \subseteq OnTheWay /\ ToSet(b) \subseteq MadeByAny
  BY <1>1, <1>3 DEF LateInv
<1>5. /\ StoreInv' /\ BootInv' /\ RingOrdered' /\ ToSet(ring') \subseteq heard'
      /\ ring' \in Seq(Events) /\ heard' \subseteq Events
      /\ \A a \in appends' : a \in Seq(Events)
  BY <1>2, <1>4, IngestKeepsHub
<1>6. heard' = heard \cup ToSet(b)
  BY <1>2 DEF Ingest
<1>7. OnTheWay' \subseteq OnTheWay /\ MadeByAny' = MadeByAny
  BY <1>2 DEF OnTheWay, MadeByAny
<1>8. ASSUME NEW r \in Sources PROVE LineInv(r)'
  <2>1. Line(r)' = Line(r) /\ FirstUnheard(r)' = FirstUnheard(r) /\ MadeBy(r)' = MadeBy(r)
    BY <1>2 DEF Line, FirstUnheard, MadeBy
  <2>2. Orderly(Line(r), MadeBy(r), OnTheWay, heard, FirstUnheard(r))
    BY DEF RingInv, LineInv
  <2>3. heard' \subseteq heard \cup OnTheWay
    BY <1>4, <1>6
  <2>4. Orderly(Line(r), MadeBy(r), OnTheWay', heard', FirstUnheard(r))
    BY <1>7, <2>2, <2>3, OrderlyAsOthersArrive
  <2> QED
    BY <2>1, <2>4 DEF LineInv
<1>9. LateInv'
  <2>1. \A a \in late' : ToSet(a) \cap ToSet(b) = {}
    BY <1>1, <1>2 DEF LateInv, Apart
  <2>2. \A a \in late' : IsInjective(a) /\ ToSet(a) \cap heard' = {}
    BY <1>1, <1>2, <1>6, <2>1 DEF LateInv
  <2>3. OnTheWay' \subseteq MadeByAny'
    BY <1>1, <1>7 DEF LateInv
  <2> QED
    BY <1>1, <1>2, <2>2, <2>3 DEF LateInv
<1>10. RingTypes'
  BY <1>1, <1>2, <1>5 DEF RingTypes
<1> QED
  BY <1>5, <1>8, <1>9, <1>10 DEF RingInv

(* The lines of the reporters, and what is on the way, while only the hub  *)
(* moves and hears nothing.                                                *)
LEMMA ReportersStay ==
  ASSUME RingInv, UNCHANGED <<made, queue, chain, heldBy, late, heard>>
  PROVE  (\A r \in Sources : LineInv(r)') /\ LateInv' /\ MadeByAny' = MadeByAny
<1>1. OnTheWay' = OnTheWay /\ MadeByAny' = MadeByAny
  BY DEF OnTheWay, MadeByAny
<1>2. \A r \in Sources : LineInv(r)'
  BY <1>1, LineStays DEF RingInv
<1> QED
  BY <1>1, <1>2, LateStays DEF RingInv

(* An append lands, or is given up: the rows hold each event once, and a   *)
(* replay under way is torn.                                               *)
LEMMA AppendKeepsRing ==
  ASSUME RingInv, DeliveryTypes', NEW b \in appends, AppendLands(b) \/ AppendFails(b)
  PROVE  RingInv'
<1>1. /\ StoreInv /\ BootInv /\ rows \in Seq(Events) /\ boot \in Boots
      /\ \A a \in late \cup appends : a \in Seq(Events)
      /\ ring \in Seq(Events) /\ heard \subseteq Events
  BY DEF RingInv, RingTypes
<1>2. /\ UNCHANGED <<made, queue, chain, heldBy, late, heard, ring, clk>>
      /\ appends' = appends \ {b}
      /\ \/ rows' = rows \o b /\ boot' = [boot EXCEPT !.torn = boot.reading]
         \/ rows' = rows /\ boot' = boot
  BY DEF AppendLands, AppendFails, reporterVars
<1>3. (\A r \in Sources : LineInv(r)') /\ LateInv' /\ MadeByAny' = MadeByAny
  BY <1>2, ReportersStay
<1>4. Gathers(rows \o b, rows, b)
  BY <1>1, JoinedGathers
<1>5. IsInjective(b) /\ ToSet(b) \subseteq heard /\ ToSet(rows) \cap ToSet(b) = {}
  BY <1>1 DEF StoreInv, Apart
<1>6. /\ rows' \in Seq(Events) /\ IsInjective(rows') /\ ToSet(rows') \subseteq heard
      /\ ToSet(rows) \subseteq ToSet(rows') /\ ToSet(rows') \subseteq ToSet(rows) \cup ToSet(b)
  <2>1. CASE rows' = rows \o b
    BY <1>1, <1>4, <1>5, <2>1 DEF StoreInv, Gathers
  <2>2. CASE rows' = rows
    BY <1>1, <2>2 DEF StoreInv
  <2> QED
    BY <1>2, <2>1, <2>2
<1>7. StoreInv'
  <2>1. \A a \in appends' : a \in appends /\ a # b
    BY <1>2
  <2>2. \A a \in appends' : IsInjective(a) /\ ToSet(a) \subseteq heard'
    BY <1>1, <1>2, <2>1 DEF StoreInv
  <2>3. \A a, c \in appends' : a # c => Apart(a, c)
    BY <1>1, <2>1 DEF StoreInv
  <2>4. ASSUME NEW a \in appends' PROVE Apart(a, rows')
    <3>1. ToSet(a) \cap ToSet(rows) = {} /\ ToSet(a) \cap ToSet(b) = {}
      BY <1>1, <2>1 DEF StoreInv, Apart
    <3> QED
      BY <1>6, <3>1 DEF Apart
  <2> QED
    BY <1>1, <1>2, <1>3, <1>6, <2>2, <2>3, <2>4 DEF StoreInv
<1>8. /\ boot' \in Boots /\ boot'.ragged = boot.ragged /\ boot'.tied = boot.tied
      /\ boot'.out = boot.out
  BY <1>1, <1>2 DEF Boots
<1>9. BootInv'
  <2>1. ToSet(boot'.out) \subseteq ToSet(rows')
    BY <1>1, <1>6, <1>8 DEF BootInv
  <2>2. CASE boot' = [boot EXCEPT !.torn = boot.reading]
    <3>1. ~(boot'.reading /\ ~boot'.torn)
      BY <1>1, <2>2 DEF Boots
    <3> QED
      BY <2>1, <3>1 DEF BootInv
  <2>3. CASE rows' = rows /\ boot' = boot
    <3>1. RowsSince(boot.since)' = RowsSince(boot.since)
      BY <2>3 DEF RowsSince
    <3> QED
      BY <1>1, <2>3, <3>1 DEF BootInv
  <2> QED
    BY <1>2, <2>2, <2>3
<1>10. RingTypes'
  <2>1. \A a \in late' \cup appends' : a \in Seq(Events)
    BY <1>1, <1>2
  <2> QED
    BY <1>1, <1>2, <1>6, <1>8, <2>1 DEF RingTypes
<1>11. ToSet(ring') \subseteq heard' /\ RingOrdered'
  BY <1>2, <1>8 DEF RingInv, RingOrdered
<1> QED
  BY <1>3, <1>7, <1>9, <1>10, <1>11 DEF RingInv

(* A replay starts, reads, or ends with the ring it has read.              *)
LEMMA BootStepKeepsRing ==
  ASSUME RingInv, DeliveryTypes', UNCHANGED <<made, queue, chain, heldBy, late>>,
         UNCHANGED <<heard, rows, appends>>, boot' \in Boots, BootInv',
         \/ ring' = ring /\ boot'.ragged = boot.ragged /\ boot'.tied = boot.tied
         \/ /\ ring' \in Seq(Events) /\ ToSet(ring') \subseteq ToSet(rows)
            /\ ~boot'.ragged => SortedByAt(ring') /\ (~boot'.tied => IsInjective(ring'))
  PROVE  RingInv'
<1>1. (\A r \in Sources : LineInv(r)') /\ LateInv' /\ MadeByAny' = MadeByAny
  BY ReportersStay
<1>2. /\ StoreInv /\ RingOrdered /\ ToSet(ring) \subseteq heard /\ RingTypes
  BY DEF RingInv
<1>3. StoreInv'
  BY <1>1, <1>2 DEF StoreInv
<1>4. ring' \in Seq(Events) /\ ToSet(ring') \subseteq heard' /\ RingOrdered'
  BY <1>2 DEF RingOrdered, StoreInv, RingTypes
<1>5. RingTypes'
  BY <1>2, <1>4 DEF RingTypes
<1> QED
  BY <1>1, <1>3, <1>4, <1>5 DEF RingInv

LEMMA BootStartsKeepsRing ==
  ASSUME RingInv, DeliveryTypes', BootStarts
  PROVE  RingInv'
<1> DEFINE t == clk - Retention
           owed == {e \in ToSet(rows) : e.at >= t}
<1>1. /\ boot \in Boots /\ clk \in Int /\ rows \in Seq(Events)
      /\ RingTypes
  BY DEF RingInv, RingTypes, DeliveryTypes
<1>2. /\ boot' = [reading |-> TRUE, since |-> t, out |-> <<>>, torn |-> FALSE, cut |-> {},
                  ragged |-> boot.ragged, tied |-> boot.tied, owed |-> owed]
      /\ UNCHANGED <<made, queue, chain, heldBy, late>> /\ UNCHANGED <<heard, rows, appends>>
      /\ ring' = ring
  BY DEF BootStarts, reporterVars
<1>3. /\ t \in Int /\ owed \subseteq Events /\ <<>> \in Seq(Events)
      /\ boot.ragged \in BOOLEAN /\ boot.tied \in BOOLEAN
  <2>1. ToSet(rows) \subseteq Events
    BY <1>1, LenProperties, ElementOfSeq DEF ToSet
  <2> QED
    BY <1>1, <2>1, TelemetryAssumption DEF Boots
<1> HIDE DEF owed
<1>4. /\ boot' \in Boots /\ boot'.ragged = boot.ragged /\ boot'.tied = boot.tied
      /\ boot'.out = <<>> /\ boot'.since = t
  BY <1>2, <1>3 DEF Boots
<1>5. BootInv'
  <2> DEFINE h == RowsSince(boot.since)'
  <2>1. ToSet(<<>>) = {} /\ Len(<<>>) = 0
    BY DEF ToSet
  <2>2. h = RowsSince(t)
    BY <1>2, <1>4 DEF RowsSince
  <2>3. h \in Seq(Events)
    BY <1>1, <2>2, RowsSinceArePart
  <2> HIDE DEF h
  <2>4. Len(h) \in Nat /\ IsInjective(<<>>)
    BY <2>3, LenProperties DEF IsInjective
  <2>5. PartRead(h, <<>>, boot'.cut)
    BY <2>1, <2>4 DEF PartRead
  <2>6. ToSet(boot'.out) \subseteq ToSet(rows')
    BY <1>4, <2>1
  <2> QED
    BY <1>4, <2>5, <2>6 DEF BootInv, h
<1> QED
  BY <1>2, <1>4, <1>5, BootStepKeepsRing

(* A page: rows since the time, each once, with the times of their place.  *)
LEMMA PageHolds ==
  ASSUME rows \in Seq(Events), NEW t, NEW n \in Nat, NEW page \in PagesAt(t, n)
  PROVE  LET h == RowsSince(t)
             upto == IF n + PageSize < Len(h) THEN n + PageSize ELSE Len(h)
         IN  /\ page \in Seq(Events) /\ ToSet(page) \subseteq ToSet(h) /\ IsInjective(page)
             /\ Len(page) = IF n < upto THEN upto - n ELSE 0
             /\ \A i \in 1 .. Len(page) : page[i].at = h[n + i].at
<1> DEFINE h == RowsSince(t)
           upto == IF n + PageSize < Len(h) THEN n + PageSize ELSE Len(h)
           m == IF n < upto THEN upto - n ELSE 0
<1>1. page \in [1 .. m -> ToSet(h)] /\ IsInjective(page)
      /\ \A i \in DOMAIN page : page[i].at = h[n + i].at
  BY DEF PagesAt
<1>2. h \in Seq(Events)
  BY RowsSinceArePart
<1> HIDE DEF h
<1>3. Len(h) \in Nat /\ ToSet(h) \subseteq Events /\ PageSize \in Nat
  BY <1>2, LenProperties, ElementOfSeq, TelemetryAssumption DEF ToSet
<1>4. m \in Nat
  BY <1>3
<1> HIDE DEF m
<1>5. page \in Seq(Events) /\ Len(page) = m
  <2>1. page \in [1 .. m -> Events]
    BY <1>1, <1>3
  <2>2. page \in Seq(Events)
    BY <1>4, <2>1, SeqDef
  <2>3. DOMAIN page = 1 .. m /\ DOMAIN page = 1 .. Len(page) /\ Len(page) \in Nat
    BY <2>1, <2>2, LenProperties
  <2> QED
    BY <1>4, <2>2, <2>3
<1>6. ToSet(page) \subseteq ToSet(h)
  BY <1>1 DEF ToSet
<1> QED
  BY <1>1, <1>5, <1>6 DEF m, h

(* A page more of what the replay reads: still a part, in order.           *)
LEMMA NextPage ==
  ASSUME rows \in Seq(Events), NEW u, NEW out \in Seq(Events), NEW cut,
         NEW page \in PagesAt(u, Len(out))
  PROVE  LET h == RowsSince(u)
             read == out \o page
         IN  /\ read \in Seq(Events) /\ ToSet(read) \subseteq ToSet(out) \cup ToSet(h)
             /\ PartRead(h, out, cut) =>
                  /\ PartRead(h, read, cut \cup CutAt(u, Len(read)))
                  /\ SortedByAt(read) /\ (cut = {} => IsInjective(read))
<1> DEFINE h == RowsSince(u)
           n == Len(out)
           m == Len(page)
           read == out \o page
           upto == IF n + PageSize < Len(h) THEN n + PageSize ELSE Len(h)
<1>1. h \in Seq(Events) /\ SortedByAt(h) /\ n \in Nat /\ DOMAIN out = 1 .. n
  BY RowsSinceArePart, LenProperties
<1>2. /\ page \in Seq(Events) /\ ToSet(page) \subseteq ToSet(h) /\ IsInjective(page)
      /\ m = IF n < upto THEN upto - n ELSE 0
      /\ \A i \in 1 .. m : page[i].at = h[n + i].at
  BY <1>1, PageHolds
<1>3. CutAt(u, Len(read)) = {h[i].at : i \in {j \in DOMAIN h :
                               j = Len(read) /\ j < Len(h) /\ h[j].at = h[j + 1].at}}
  BY DEF CutAt
<1> HIDE DEF h
<1>4. /\ Len(h) \in Nat /\ DOMAIN h = 1 .. Len(h) /\ m \in Nat /\ DOMAIN page = 1 .. m
      /\ \A i \in 1 .. Len(h) : h[i].at \in Int
      /\ PageSize \in Nat
  <2>1. m \in Nat /\ DOMAIN page = 1 .. m
    BY <1>2, LenProperties
  <2>2. Len(h) \in Nat /\ DOMAIN h = 1 .. Len(h)
    BY <1>1, LenProperties
  <2>3. \A i \in 1 .. Len(h) : h[i] \in Events
    BY <1>1, <2>2, ElementOfSeq
  <2> QED
    BY <2>1, <2>2, <2>3, TelemetryAssumption DEF Events
<1>5. /\ read \in Seq(Events) /\ Len(read) = n + m
      /\ \A i \in 1 .. n : read[i] = out[i]
      /\ \A i \in 1 .. m : read[n + i] = page[i]
      /\ Gathers(read, out, page)
  <2>1. Gathers(read, out, page)
    BY <1>2, JoinedGathers
  <2>2. /\ read \in Seq(Events) /\ Len(read) = Len(out) + Len(page)
        /\ \A i \in 1 .. Len(out) : read[i] = out[i]
        /\ \A i \in 1 .. Len(page) : read[Len(out) + i] = page[i]
    <3>1. out \in Seq(Events) /\ page \in Seq(Events)
      BY <1>2
    <3> QED
      BY <3>1, Joined
  <2> HIDE DEF read
  <2> QED
    BY <2>1, <2>2
<1> HIDE DEF read, n, m
<1>6. ToSet(read) \subseteq ToSet(out) \cup ToSet(h)
  BY <1>2, <1>5 DEF Gathers
<1>7. ASSUME PartRead(h, out, cut)
      PROVE  /\ PartRead(h, read, cut \cup CutAt(u, Len(read)))
             /\ SortedByAt(read) /\ (cut = {} => IsInjective(read))
  <2>1. /\ n <= Len(h) /\ \A i \in 1 .. n : out[i].at = h[i].at
        /\ cut = {} => /\ IsInjective(out)
                       /\ \A i \in 1 .. n, j \in n + 1 .. Len(h) : h[i].at # h[j].at
    BY <1>7 DEF PartRead, n
  <2>2. n + m <= Len(h)
    <3>1. upto \in Nat /\ upto <= Len(h)
      BY <1>1, <1>4
    <3> HIDE DEF upto
    <3> QED
      BY <1>1, <1>2, <1>4, <2>1, <3>1
  <2> HIDE DEF upto
  <2>3. \A i \in 1 .. n + m : read[i].at = h[i].at
    <3> SUFFICES ASSUME NEW i \in 1 .. n + m PROVE read[i].at = h[i].at
      OBVIOUS
    <3>1. CASE i <= n
      <4>1. i \in 1 .. n
        BY <1>1, <3>1
      <4> QED
        BY <1>5, <2>1, <4>1
    <3>2. CASE ~(i <= n)
      <4>1. i - n \in 1 .. m /\ n + (i - n) = i
        BY <1>1, <1>4, <3>2
      <4> QED
        BY <1>2, <1>5, <4>1
    <3> QED
      BY <3>1, <3>2
  <2>4. SortedByAt(read)
    <3>1. DOMAIN read = 1 .. n + m
      BY <1>5, LenProperties
    <3>2. \A i \in 1 .. n + m : i \in 1 .. Len(h)
      BY <1>1, <1>4, <2>2
    <3> QED
      BY <1>1, <1>4, <2>3, <3>1, <3>2 DEF SortedByAt
  <2>5. ASSUME cut = {} PROVE IsInjective(read)
    <3>1. ASSUME NEW i \in 1 .. n, NEW j \in 1 .. m PROVE out[i] # page[j]
      <4>1. n + j \in n + 1 .. Len(h)
        BY <1>1, <1>4, <2>2
      <4>2. h[i].at # h[n + j].at
        BY <2>1, <2>5, <4>1
      <4> QED
        BY <1>2, <2>1, <4>2
    <3>2. ToSet(out) \cap ToSet(page) = {}
      BY <1>1, <1>4, <3>1 DEF ToSet
    <3> QED
      BY <1>2, <1>5, <2>1, <2>5, <3>2 DEF Gathers
  <2>6. ASSUME CutAt(u, n + m) = {}, NEW i \in 1 .. n + m, NEW j \in n + m + 1 .. Len(h)
        PROVE  h[i].at # h[j].at
    <3> DEFINE e == n + m
    <3>1. e \in 1 .. Len(h) /\ e + 1 \in 1 .. Len(h) /\ e < Len(h) /\ i <= e /\ e + 1 <= j
          /\ i \in 1 .. Len(h) /\ j \in 1 .. Len(h)
      BY <1>1, <1>4
    <3>2. h[e].at # h[e + 1].at
      <4>1. e = Len(read) /\ e \in DOMAIN h /\ CutAt(u, Len(read)) = {}
        BY <1>4, <1>5, <2>6, <3>1
      <4> HIDE DEF e
      <4> QED
        BY <1>3, <3>1, <4>1
    <3> HIDE DEF e
    <3>3. h[e].at <= h[e + 1].at
      BY <1>1, <1>4, <3>1 DEF SortedByAt
    <3>4. h[i].at <= h[e].at
      <4>1. CASE i = e
        BY <1>4, <3>1, <4>1
      <4>2. CASE i # e
        <5>1. i < e /\ i \in DOMAIN h /\ e \in DOMAIN h
          BY <1>4, <3>1, <4>2
        <5> QED
          BY <1>1, <5>1 DEF SortedByAt
      <4> QED
        BY <3>1, <4>1, <4>2
    <3>5. h[e + 1].at <= h[j].at
      <4>1. CASE j = e + 1
        BY <1>4, <3>1, <4>1
      <4>2. CASE j # e + 1
        <5>1. e + 1 < j /\ e + 1 \in DOMAIN h /\ j \in DOMAIN h
          BY <1>4, <3>1, <4>2
        <5> QED
          BY <1>1, <5>1 DEF SortedByAt
      <4> QED
        BY <3>1, <4>1, <4>2
    <3>6. /\ h[i].at \in Int /\ h[j].at \in Int /\ h[e].at \in Int /\ h[e + 1].at \in Int
      BY <1>4, <3>1
    <3> QED
      BY <3>2, <3>3, <3>4, <3>5, <3>6
  <2>7. PartRead(h, read, cut \cup CutAt(u, Len(read)))
    BY <1>5, <2>2, <2>3, <2>5, <2>6 DEF PartRead
  <2> QED
    BY <2>4, <2>5, <2>7
<1> QED
  BY <1>5, <1>6, <1>7 DEF h, read

LEMMA NoBootEnded ==
  ASSUME NEW r \in BOOLEAN, NEW d \in BOOLEAN
  PROVE  /\ NoBoot \in Boots /\ NoBoot.out = <<>> /\ NoBoot.reading = FALSE
         /\ BootOver(r, d) \in Boots
         /\ BootOver(r, d).ragged = r /\ BootOver(r, d).tied = d
         /\ BootOver(r, d).out = <<>> /\ BootOver(r, d).reading = FALSE
<1> DEFINE over == [NoBoot EXCEPT !.ragged = r, !.tied = d]
<1>1. NoBoot = [reading |-> FALSE, since |-> 0, out |-> <<>>, owed |-> {},
                torn |-> FALSE, cut |-> {}, ragged |-> FALSE, tied |-> FALSE]
  BY Zenon DEF NoBoot
<1>2. NoBoot \in Boots
  <2>1. <<>> \in Seq(Events) /\ {} \in SUBSET Events /\ {} \in SUBSET Int
    OBVIOUS
  <2> QED
    BY <1>1, <2>1 DEF Boots
<1>3. NoBoot.out = <<>> /\ NoBoot.reading = FALSE
  BY <1>1
<1>4. over \in Boots
  BY <1>2 DEF Boots
<1>5. over.ragged = r /\ over.tied = d /\ over.out = NoBoot.out /\ over.reading = NoBoot.reading
  BY <1>2 DEF Boots
<1>6. BootOver(r, d) = over
  BY DEF BootOver
<1> QED
  BY <1>2, <1>3, <1>4, <1>5, <1>6

(* A replay reads a page.                                                  *)
LEMMA BootReadsKeepsRing ==
  ASSUME RingInv, DeliveryTypes', BootReads
  PROVE  RingInv'
<1> DEFINE h == RowsSince(boot.since)
<1>1. /\ boot \in Boots /\ clk \in Int /\ rows \in Seq(Events) /\ boot.out \in Seq(Events)
      /\ IsInjective(rows) /\ BootInv
  BY DEF RingInv, RingTypes, DeliveryTypes, StoreInv, Boots
<1>2. ToSet(h) \subseteq ToSet(rows)
  BY <1>1, RowsSinceArePart
<1>3. /\ boot.reading
      /\ UNCHANGED <<made, queue, chain, heldBy, late>> /\ UNCHANGED <<heard, rows, appends>>
  BY DEF BootReads, reporterVars
<1>4. PICK page \in PagesAt(boot.since, Len(boot.out)) :
        LET read == boot.out \o page IN
        \/ LastPage(page) /\ read = <<>> /\ EndBoot /\ ring' = ring
        \/ /\ LastPage(page) /\ read # <<>>
           /\ boot' = BootOver(boot.torn, boot.cut # {}) /\ ring' = Pruned(read)
        \/ /\ ~LastPage(page)
           /\ boot' = [boot EXCEPT !.out = read, !.cut = @ \cup CutAt(boot.since, Len(read))]
           /\ ring' = ring
  BY Zenon DEF BootReads
<1> DEFINE read == boot.out \o page
           cut == boot.cut \cup CutAt(boot.since, Len(read))
<1>5. /\ read \in Seq(Events) /\ ToSet(read) \subseteq ToSet(boot.out) \cup ToSet(h)
      /\ PartRead(h, boot.out, boot.cut) =>
           /\ PartRead(h, read, cut)
           /\ SortedByAt(read) /\ (boot.cut = {} => IsInjective(read))
  BY <1>1, NextPage
<1>6. cut \subseteq Int
  <2>1. h \in Seq(Events)
    BY <1>1, RowsSinceArePart
  <2>2. \A i \in DOMAIN h : h[i].at \in Int
    <3> HIDE DEF h
    <3>1. \A i \in DOMAIN h : h[i] \in Events
      BY <2>1, LenProperties, ElementOfSeq
    <3> QED
      BY <3>1 DEF Events
  <2>3. CutAt(boot.since, Len(read)) \subseteq Int
    BY <2>2 DEF CutAt
  <2> QED
    BY <1>1, <2>3 DEF Boots
<1> HIDE DEF h, read, cut
<1>7. ToSet(read) \subseteq ToSet(rows)
  BY <1>1, <1>2, <1>5 DEF BootInv
<1>8. ~boot.torn => /\ PartRead(h, read, cut)
                    /\ SortedByAt(read) /\ (boot.cut = {} => IsInjective(read))
  BY <1>1, <1>3, <1>5 DEF BootInv, h
<1>9. boot.ragged \in BOOLEAN /\ boot.tied \in BOOLEAN /\ boot.torn \in BOOLEAN
      /\ (boot.cut # {}) \in BOOLEAN
  BY <1>1 DEF Boots
<1>10. ASSUME boot'.out = <<>>, boot'.reading = FALSE PROVE BootInv'
  <2>1. ToSet(<<>>) = {}
    BY DEF ToSet
  <2> QED
    BY <1>10, <2>1 DEF BootInv
<1>11. CASE EndBoot /\ ring' = ring
  <2>1. /\ boot' \in Boots /\ boot'.ragged = boot.ragged /\ boot'.tied = boot.tied
        /\ boot'.out = <<>> /\ boot'.reading = FALSE
    BY <1>9, <1>11, NoBootEnded DEF EndBoot
  <2> QED
    BY <1>3, <1>10, <1>11, <2>1, BootStepKeepsRing
<1>12. CASE boot' = BootOver(boot.torn, boot.cut # {}) /\ ring' = Pruned(read)
  <2>1. /\ boot' \in Boots /\ boot'.ragged = boot.torn /\ boot'.tied = (boot.cut # {})
        /\ boot'.out = <<>> /\ boot'.reading = FALSE
    BY <1>9, <1>12, NoBootEnded
  <2>2. PartOf(ring', read)
    BY <1>1, <1>5, <1>12, PrunedIsPart
  <2>3. ring' \in Seq(Events) /\ ToSet(ring') \subseteq ToSet(rows)
    BY <1>7, <2>2 DEF PartOf
  <2>4. ~boot'.ragged => SortedByAt(ring') /\ (~boot'.tied => IsInjective(ring'))
    BY <1>8, <2>1, <2>2 DEF PartOf
  <2> QED
    BY <1>3, <1>10, <2>1, <2>3, <2>4, BootStepKeepsRing
<1>13. CASE boot' = [boot EXCEPT !.out = read, !.cut = cut] /\ ring' = ring
  <2>1. /\ boot' \in Boots /\ boot'.ragged = boot.ragged /\ boot'.tied = boot.tied
        /\ boot'.out = read /\ boot'.cut = cut
        /\ boot'.since = boot.since /\ boot'.torn = boot.torn
    BY <1>1, <1>5, <1>6, <1>13 DEF Boots
  <2>2. RowsSince(boot.since)' = h
    BY <1>3, <2>1 DEF RowsSince, h
  <2>3. BootInv'
    BY <1>3, <1>7, <1>8, <2>1, <2>2 DEF BootInv
  <2> QED
    BY <1>3, <1>13, <2>1, <2>3, BootStepKeepsRing
<1> QED
  BY <1>4, <1>11, <1>12, <1>13 DEF read, cut

LEMMA BootFailsKeepsRing ==
  ASSUME RingInv, DeliveryTypes', BootFails
  PROVE  RingInv'
<1>1. /\ UNCHANGED <<made, queue, chain, heldBy, late>> /\ UNCHANGED <<heard, rows, appends>>
      /\ ring' = ring /\ boot' = BootOver(boot.ragged, boot.tied) /\ boot \in Boots
  BY DEF BootFails, EndBoot, reporterVars, RingInv, RingTypes
<1>2. /\ boot' \in Boots /\ boot'.ragged = boot.ragged /\ boot'.tied = boot.tied
      /\ boot'.out = <<>> /\ ~boot'.reading
  <2>1. boot.ragged \in BOOLEAN /\ boot.tied \in BOOLEAN
    BY <1>1 DEF Boots
  <2> QED
    BY <1>1, <2>1, NoBootEnded
<1>3. ToSet(<<>>) = {}
  BY DEF ToSet
<1>4. BootInv'
  BY <1>2, <1>3 DEF BootInv
<1> QED
  BY <1>1, <1>2, <1>4, BootStepKeepsRing

(* A restart of the hub empties its ring and the lines of its own process, *)
(* and ends the sends it was serving.                                      *)
LEMMA RestartKeepsRing ==
  ASSUME RingInv, DeliveryInv, DeliveryTypes', Restarts
  PROVE  RingInv'
<1>1. /\ DeliveryTypes /\ RingTypes /\ StoreInv /\ LateInv
      /\ heldBy \in [Sources -> {"reporter", "hub"}]
  BY DEF RingInv, RingTypes, DeliveryTypes
<1>2. /\ queue' = [s \in Sources |-> IF s \in Local THEN <<>> ELSE queue[s]]
      /\ chain' = [s \in Sources |-> IF s \in Local THEN <<>>
                                     ELSE IF s \in Local \/ heldBy[s] = "hub" THEN Tail(chain[s])
                                     ELSE chain[s]]
      /\ heldBy' = [s \in Sources |-> "reporter"]
      /\ ring' = <<>> /\ boot' = NoBoot
      /\ UNCHANGED <<made, late, rows, appends, heard>>
  BY DEF Restarts
<1>3. MadeByAny' = MadeByAny /\ OnTheWay' = OnTheWay
  BY <1>2 DEF MadeByAny, OnTheWay
<1>4. ASSUME NEW s \in Sources PROVE LineInv(s)'
  <2>1. Orderly(Line(s), MadeBy(s), OnTheWay, heard, FirstUnheard(s))
    BY DEF RingInv, LineInv
  <2>2. MadeBy(s)' = MadeBy(s) /\ FirstUnheard(s)' = 1
    BY <1>2 DEF MadeBy, FirstUnheard
  <2>3. Orderly(Line(s)', MadeBy(s), OnTheWay, heard, 1)
    <3>1. CASE s \in Local
      <4>1. Line(s)' = Append(<<>>, <<>>)
        BY <1>2, <3>1 DEF Line
      <4>2. Line(s)' = <<<<>>>>
        BY <4>1
      <4> QED
        BY <4>2, NothingIsOrderly
    <3>2. CASE s \notin Local /\ heldBy[s] = "hub"
      <4>1. chain[s] # <<>>
        BY <3>2 DEF DeliveryInv, DeliveryInvOf, HubHeard
      <4>2. /\ Line(s) \in Seq(Seq(Events)) /\ Line(s) # <<>>
            /\ Tail(Line(s)) = Append(Tail(chain[s]), queue[s])
        BY <1>1, <4>1, LineOfBatches
      <4>3. Line(s)' = Tail(Line(s))
        BY <1>2, <3>2, <4>2 DEF Line
      <4>4. FirstUnheard(s) \in {1, 2}
        BY DEF FirstUnheard
      <4>5. Orderly(Tail(Line(s)), MadeBy(s), OnTheWay, heard, 1)
        BY <2>1, <4>2, <4>4, OrderlyAsFirstLeaves
      <4> QED
        BY <4>3, <4>5
    <3>3. CASE s \notin Local /\ heldBy[s] = "reporter"
      <4>1. Line(s)' = Line(s) /\ FirstUnheard(s) = 1
        BY <1>2, <3>3 DEF Line, FirstUnheard
      <4> QED
        BY <2>1, <4>1
    <3> QED
      BY <1>1, <3>1, <3>2, <3>3
  <2> QED
    BY <1>2, <1>3, <2>2, <2>3 DEF LineInv
<1>5. LateInv' /\ StoreInv'
  BY <1>1, <1>2, <1>3 DEF LateInv, StoreInv
<1>6. ToSet(<<>>) = {} /\ IsInjective(<<>>) /\ SortedByAt(<<>>) /\ <<>> \in Seq(Events)
  BY DEF ToSet, IsInjective, SortedByAt
<1>7. NoBoot \in Boots /\ NoBoot.out = <<>> /\ ~NoBoot.reading
  BY NoBootEnded
<1>8. BootInv'
  BY <1>2, <1>6, <1>7 DEF BootInv
<1>9. RingTypes'
  BY <1>1, <1>2, <1>6, <1>7 DEF RingTypes
<1>10. ToSet(ring') \subseteq heard' /\ RingOrdered'
  BY <1>2, <1>6 DEF RingOrdered
<1> QED
  BY <1>4, <1>5, <1>8, <1>9, <1>10 DEF RingInv

(* The rows of earlier processes are numbered per source without a gap, so *)
(* that none has a number beyond the number of them.                       *)
LEMMA KeptWereMade ==
  ASSUME TelemetryInit
  PROVE  ToSet(Kept) \subseteq MadeByAny
<1> DEFINE own(s) == {e \in ToSet(Kept) : e.source = s}
<1>1. Kept \in Seq(Events)
  BY TelemetryAssumption DEF Events
<1>2. Len(Kept) \in Nat /\ DOMAIN Kept = 1 .. Len(Kept) /\ ToSet(Kept) \subseteq Events
  BY <1>1, LenProperties, ElementOfSeq DEF ToSet
<1>3. IsFiniteSet(ToSet(Kept))
  <2>1. IsFiniteSet(1 .. Len(Kept))
    BY <1>2, FS_Interval
  <2>2. Kept \in Surjection(1 .. Len(Kept), ToSet(Kept))
    BY <1>1, <1>2 DEF ToSet, Surjection
  <2> QED
    BY <2>1, <2>2, FS_Surjection
<1>4. ASSUME NEW s \in Sources, NEW e \in own(s) PROVE e.nr <= made[s]
  <2> DEFINE O == own(s)
             n == Cardinality(O)
             f == [i \in 1 .. n |-> CHOOSE x \in O : x.nr = i]
  <2>1. IsFiniteSet(O) /\ n \in Nat
    BY <1>3, FS_Subset, FS_CardinalityType
  <2>2. \A i \in 1 .. n : \E x \in O : x.nr = i
    <3>1. \A i \in 1 .. Cardinality(own(s)) : \E x \in ToSet(Kept) : x.source = s /\ x.nr = i
      BY TelemetryAssumption, Zenon
    <3> QED
      BY <3>1, Zenon
  <2>3. made[s] = n
    BY DEF TelemetryInit
  <2>4. e \in O
    OBVIOUS
  <2> HIDE DEF O, n
  <2>5. \A i \in 1 .. n : f[i] \in O /\ f[i].nr = i
    BY <2>2
  <2>6. f \in Injection(1 .. n, O)
    <3>1. f \in [1 .. n -> O]
      BY <2>5
    <3> HIDE DEF f
    <3> QED
      BY <2>5, <3>1 DEF Injection, IsInjective
  <2>7. Cardinality(1 .. n) = n
    BY <2>1, FS_Interval
  <2>8. f \in Surjection(1 .. n, O)
    <3>1. Cardinality(1 .. n) = Cardinality(O)
      BY <2>7 DEF n
    <3> HIDE DEF f
    <3> QED
      BY <2>1, <2>6, <3>1, FS_Injection
  <2>9. \E i \in 1 .. n : f[i] = e
    <3> HIDE DEF f
    <3> QED
      BY <2>4, <2>8 DEF Surjection
  <2> HIDE DEF f
  <2> QED
    BY <2>1, <2>3, <2>5, <2>9
<1>5. \A e \in ToSet(Kept) : e \in Events /\ e.source \in Sources /\ e \in own(e.source)
  BY <1>2 DEF Events
<1> QED
  BY <1>4, <1>5 DEF MadeByAny

(* The start: the rows of earlier processes.                               *)
LEMMA RingInitInv == TelemetryInit => RingInv
<1> SUFFICES ASSUME TelemetryInit PROVE RingInv
  OBVIOUS
<1>1. /\ queue = [s \in Sources |-> <<>>] /\ chain = [s \in Sources |-> <<>>]
      /\ heldBy = [s \in Sources |-> "reporter"]
      /\ late = {} /\ appends = {} /\ ring = <<>> /\ rows = Kept /\ boot = NoBoot
      /\ heard = ToSet(Kept)
  BY DEF TelemetryInit
<1>2. DeliveryTypes
  BY TelemetryInitInv DEF DeliveryInv
<1>3. Kept \in Seq(Events) /\ IsInjective(Kept)
  BY TelemetryAssumption DEF Events
<1>4. ToSet(Kept) \subseteq MadeByAny /\ MadeByAny \subseteq Events
  BY KeptWereMade DEF MadeByAny
<1>5. OnTheWay = {}
  BY <1>1 DEF OnTheWay
<1>6. ASSUME NEW s \in Sources PROVE LineInv(s)
  <2>1. Line(s) = Append(<<>>, <<>>)
    BY <1>1 DEF Line
  <2>2. Line(s) = <<<<>>>>
    BY <2>1
  <2> QED
    BY <2>2, NothingIsOrderly DEF LineInv
<1>7. LateInv /\ StoreInv
  BY <1>1, <1>3, <1>4, <1>5 DEF LateInv, StoreInv
<1>8. ToSet(<<>>) = {} /\ IsInjective(<<>>) /\ SortedByAt(<<>>) /\ <<>> \in Seq(Events)
  BY DEF ToSet, IsInjective, SortedByAt
<1>9. NoBoot \in Boots /\ NoBoot.out = <<>> /\ ~NoBoot.reading
  BY NoBootEnded
<1>10. BootInv
  BY <1>1, <1>8, <1>9 DEF BootInv
<1>11. RingTypes
  BY <1>1, <1>2, <1>3, <1>4, <1>8, <1>9 DEF RingTypes
<1>12. ToSet(ring) \subseteq heard /\ RingOrdered
  BY <1>1, <1>8 DEF RingOrdered
<1> QED
  BY <1>6, <1>7, <1>10, <1>11, <1>12 DEF RingInv

LEMMA RingStepInv ==
  DeliveryInv /\ RingInv /\ [TelemetryNext]_telemetryVars => RingInv'
<1> SUFFICES ASSUME DeliveryInv, RingInv, [TelemetryNext]_telemetryVars PROVE RingInv'
  OBVIOUS
<1>1. DeliveryTypes'
  BY TelemetryStepInv DEF DeliveryInv
<1>2. ASSUME NEW s \in Sources, Returns(s) \/ PostFails(s) PROVE RingInv'
  <2>1. CASE Returns(s)
    <3>1. chain[s] # <<>> /\ NextBatch(s) /\ UNCHANGED <<made, queue, late, hubVars>>
      BY <2>1 DEF Returns, DeliveryInv, DeliveryInvOf, HubHeard
    <3> QED
      BY <1>1, <3>1, NextBatchKeepsRing
  <2>2. CASE PostFails(s)
    <3>1. /\ chain[s] # <<>> /\ NextBatch(s) /\ UNCHANGED <<made, queue, hubVars>>
          /\ \/ late' = late
             \/ heldBy[s] = "reporter" /\ late' = late \cup {Head(chain[s])}
      BY <2>2 DEF PostFails
    <3> QED
      BY <1>1, <3>1, NextBatchKeepsRing
  <2> QED
    BY <1>2, <2>1, <2>2
<1>3. ASSUME NEW s \in Sources, CloseReturns(s) PROVE RingInv'
  <2>1. UNCHANGED <<made, queue, chain, heldBy, late, hubVars>>
    BY <1>3 DEF CloseReturns
  <2> QED
    BY <1>1, <2>1, IdleKeepsRing
<1>4. ASSUME Passes \/ UNCHANGED telemetryVars PROVE RingInv'
  <2>1. UNCHANGED <<made, queue, chain, heldBy, late, hubVars>>
    BY <1>4 DEF Passes, telemetryVars, reporterVars
  <2> QED
    BY <1>1, <2>1, IdleKeepsRing
<1>5. ASSUME NEW s \in Sources,
             Enqueue(s) \/ Drain(s) \/ Close(s) \/ Arrives(s)
      PROVE  RingInv'
  BY <1>1, <1>5, EnqueueKeepsRing, DrainKeepsRing, ArrivesKeepsRing
<1>6. ASSUME NEW b \in late, LateArrives(b) PROVE RingInv'
  BY <1>1, <1>6, LateArrivesKeepsRing
<1>7. ASSUME NEW b \in appends, AppendLands(b) \/ AppendFails(b) PROVE RingInv'
  BY <1>1, <1>7, AppendKeepsRing
<1>8. ASSUME BootStarts \/ BootReads \/ BootFails \/ Restarts PROVE RingInv'
  BY <1>1, <1>8, BootStartsKeepsRing, BootReadsKeepsRing, BootFailsKeepsRing, RestartKeepsRing
<1> QED
  BY <1>2, <1>3, <1>4, <1>5, <1>6, <1>7, <1>8 DEF TelemetryNext

(* The ring is in order of time and holds each event once, whatever came   *)
(* late, failed or was replayed and in whatever order each page has rows   *)
(* of one time, except after a replay during which an append landed, and,  *)
(* for each event once, after one of whose pages ended amid rows of one    *)
(* time (TelemetryHub: ingest, prune, boot).                               *)
THEOREM AlwaysRingOrdered == TelemetrySpec => []RingOrdered
<1>1. RingInv => RingOrdered
  BY DEF RingInv
<1> QED
  BY <1>1, TelemetryInitInv, TelemetryStepInv, RingInitInv, RingStepInv, PTL DEF TelemetrySpec

-----------------------------------------------------------------------------
(* What a replay owes.                                                     *)

(* Of the rows s those older than t, and what of a sorted sequence r is    *)
(* older: the first c.                                                     *)
Older(s, t) == {i \in DOMAIN s : s[i].at < t}
NrOlder(s, t) == Cardinality(Older(s, t))
Split(r, c, t) == \A p \in 1 .. Len(r) : t <= r[p].at <=> c < p

(* No row of the time of e is among the first k of those not older than t. *)
Ahead(s, t, k, e) == NrOlder(s, t) + k <= NrOlder(s, e.at)

(* Sorting one more puts it in where the others are.                       *)
LEMMA SortAppends ==
  ASSUME NEW s \in Seq(Events), NEW e \in Events
  PROVE  ByAt(Append(s, e)) = InsertByAt(ByAt(s), e)
<1> DEFINE u == Append(s, e)
           len == Len(s)
           g == CHOOSE g : SortsBy(s, g)
           h == CHOOSE h : SortsBy(u, h)
           T == {n \in Nat : n <= len => g[1 .. n] = h[1 .. n]}
<1>1. len \in Nat /\ DOMAIN s = 1 .. len
  BY LenProperties
<1>2. /\ u \in Seq(Events) /\ Len(u) = len + 1 /\ DOMAIN u = 1 .. len + 1
      /\ (\A i \in 1 .. len : u[i] = s[i]) /\ u[len + 1] = e
  BY <1>1, AppendProperties, LenProperties
<1>3. SortsBy(s, g) /\ SortsBy(u, h)
  <2>1. len + 1 \in Nat
    BY <1>1
  <2> QED
    BY <1>1, <1>2, <2>1, SortExists
<1>4. ByAt(s) = g[1 .. len] /\ ByAt(u) = h[1 .. len + 1]
  BY <1>1, <1>2, SortUnfolds
<1> HIDE DEF g, h, u
<1>5. /\ \A n \in Nat : n <= len => g[1 .. n] = Inserting(s, g, 1 .. n)
      /\ \A n \in Nat : n <= len + 1 => h[1 .. n] = Inserting(u, h, 1 .. n)
  <2>1. \A n \in Nat : n <= len => 1 .. n \in SUBSET DOMAIN s
    BY <1>1
  <2>2. \A n \in Nat : n <= len + 1 => 1 .. n \in SUBSET DOMAIN u
    BY <1>1, <1>2
  <2> QED
    BY <1>3, <2>1, <2>2 DEF SortsBy
<1> HIDE DEF len
<1>6. ASSUME NEW n \in Nat
      PROVE  /\ n + 1 <= len => g[1 .. n + 1] = InsertByAt(g[1 .. n], s[n + 1])
             /\ n + 1 <= len + 1 => h[1 .. n + 1] = InsertByAt(h[1 .. n], u[n + 1])
  <2>1. Max(1 .. n + 1) = n + 1 /\ (1 .. n + 1) \ {n + 1} = 1 .. n /\ 1 .. n + 1 # {}
    BY LastOfAll
  <2>2. /\ Inserting(s, g, 1 .. n + 1) = InsertByAt(g[1 .. n], s[n + 1])
        /\ Inserting(u, h, 1 .. n + 1) = InsertByAt(h[1 .. n], u[n + 1])
    BY <2>1 DEF Inserting
  <2>3. n + 1 \in Nat
    OBVIOUS
  <2> QED
    BY <1>5, <2>2, <2>3
<1>7. 0 \in T
  <2>1. 1 .. 0 = {} /\ 0 <= len /\ 0 <= len + 1
    BY <1>1
  <2>2. g[1 .. 0] = <<>> /\ h[1 .. 0] = <<>>
    BY <1>5, <2>1 DEF Inserting
  <2> QED
    BY <2>2
<1>8. ASSUME NEW n \in Nat, n \in T PROVE n + 1 \in T
  <2> SUFFICES ASSUME n + 1 <= len PROVE g[1 .. n + 1] = h[1 .. n + 1]
    OBVIOUS
  <2>1. n <= len /\ n + 1 <= len + 1 /\ n + 1 \in 1 .. len
    BY <1>1
  <2>2. g[1 .. n] = h[1 .. n] /\ u[n + 1] = s[n + 1]
    BY <1>2, <1>8, <2>1
  <2> QED
    BY <1>6, <2>1, <2>2
<1>9. len \in T
  <2> HIDE DEF T
  <2> QED
    BY <1>1, <1>7, <1>8, NatSetInduction
<1>10. g[1 .. len] = h[1 .. len]
  BY <1>1, <1>9
<1>11. h[1 .. len + 1] = InsertByAt(h[1 .. len], u[len + 1])
  BY <1>1, <1>6
<1> QED
  BY <1>2, <1>4, <1>10, <1>11 DEF u

LEMMA SomeAreOlder ==
  ASSUME NEW s \in Seq(Events), NEW t \in Int
  PROVE  IsFiniteSet(Older(s, t)) /\ NrOlder(s, t) \in 0 .. Len(s)
<1> DEFINE len == Len(s)
           d == Older(s, t)
<1>1. len \in Nat /\ DOMAIN s = 1 .. len
  BY LenProperties
<1> HIDE DEF len
<1>2. d \in SUBSET (1 .. len)
  BY <1>1 DEF Older
<1> HIDE DEF d
<1>3. IsFiniteSet(1 .. len) /\ Cardinality(1 .. len) = len
  BY <1>1, FS_Interval
<1>4. Cardinality(d) \in Nat /\ Cardinality(d) <= len /\ IsFiniteSet(d)
  BY <1>2, <1>3, FS_Subset, FS_CardinalityType
<1>5. Cardinality(d) \in 0 .. len
  BY <1>1, <1>4
<1> QED
  BY <1>4, <1>5 DEF NrOlder, d, len

(* One more counts among the older ones or not.                            *)
LEMMA OlderAppended ==
  ASSUME NEW s \in Seq(Events), NEW e \in Events, NEW t \in Int
  PROVE  NrOlder(Append(s, e), t) = NrOlder(s, t) + IF e.at < t THEN 1 ELSE 0
<1> DEFINE u == Append(s, e)
           len == Len(s)
           d == Older(s, t)
<1>1. len \in Nat /\ DOMAIN s = 1 .. len
  BY LenProperties
<1>2. /\ u \in Seq(Events) /\ DOMAIN u = 1 .. len + 1
      /\ (\A i \in 1 .. len : u[i] = s[i]) /\ u[len + 1] = e
  BY <1>1, AppendProperties, LenProperties
<1> HIDE DEF u, len
<1>3. d \in SUBSET (1 .. len)
  BY <1>1 DEF Older
<1>4. Older(u, t) = IF e.at < t THEN d \cup {len + 1} ELSE d
  <2>1. 1 .. len + 1 = (1 .. len) \cup {len + 1}
    BY <1>1
  <2>2. \A i \in 1 .. len + 1 : i \in Older(u, t) <=> u[i].at < t
    BY <1>2 DEF Older
  <2>3. \A i \in 1 .. len : i \in d <=> s[i].at < t
    BY <1>1 DEF Older
  <2>4. Older(u, t) \subseteq 1 .. len + 1
    BY <1>2 DEF Older
  <2> HIDE DEF d
  <2>5. \A i \in 1 .. len : i \in Older(u, t) <=> i \in d
    BY <1>2, <2>1, <2>2, <2>3
  <2>6. len + 1 \in Older(u, t) <=> e.at < t
    BY <1>1, <1>2, <2>1, <2>2
  <2>7. CASE e.at < t
    <3>1. \A i : i \in Older(u, t) <=> i \in d \cup {len + 1}
      BY <1>3, <2>1, <2>4, <2>5, <2>6, <2>7
    <3> QED
      BY <2>7, <3>1
  <2>8. CASE ~(e.at < t)
    <3>1. \A i : i \in Older(u, t) <=> i \in d
      BY <1>3, <2>1, <2>4, <2>5, <2>6, <2>8
    <3> QED
      BY <2>8, <3>1
  <2> QED
    BY <2>7, <2>8
<1>5. IsFiniteSet(d) /\ Cardinality(d) \in Nat /\ len + 1 \notin d
  <2>1. IsFiniteSet(d)
    BY SomeAreOlder
  <2>2. len + 1 \notin 1 .. len
    BY <1>1
  <2> HIDE DEF d
  <2> QED
    BY <1>3, <2>1, <2>2, FS_CardinalityType
<1> HIDE DEF d
<1>6. Cardinality(d \cup {len + 1}) = Cardinality(d) + 1
  BY <1>5, FS_AddElement
<1>7. NrOlder(s, t) = Cardinality(d) /\ NrOlder(u, t) = Cardinality(Older(u, t))
  BY DEF NrOlder, d
<1>8. NrOlder(u, t) = NrOlder(s, t) + IF e.at < t THEN 1 ELSE 0
  BY <1>4, <1>5, <1>6, <1>7
<1> QED
  BY <1>8 DEF u

(* So it goes among the older ones or behind them.                         *)
LEMMA InsertSplits ==
  ASSUME NEW r \in Seq(Events), SortedByAt(r), NEW x \in Events, NEW t \in Int,
         NEW c \in 0 .. Len(r), Split(r, c, t),
         NEW d, d = IF x.at < t THEN 1 ELSE 0,
         NEW q, q = InsertByAt(r, x)
  PROVE  Split(q, c + d, t)
<1> DEFINE n == Len(r)
<1>1. n \in Nat /\ \A i \in 1 .. n : r[i] \in Events
  BY LenProperties, ElementOfSeq
<1>2. \A i \in 1 .. n : r[i].at \in Int
  BY <1>1 DEF Events
<1>3. x.at \in Int
  BY DEF Events
<1>4. PICK k \in 0 .. n :
        /\ \A i \in 1 .. n : r[i].at <= x.at <=> i <= k
        /\ Len(q) = n + 1
        /\ \A i \in 1 .. n + 1 :
             q[i] = IF i <= k THEN r[i] ELSE IF i = k + 1 THEN x ELSE r[i - 1]
  <2>1. \E k \in 0 .. Len(r) :
          /\ \A i \in 1 .. Len(r) : r[i].at <= x.at <=> i <= k
          /\ InsertByAt(r, x) \in Seq(Events) /\ Len(InsertByAt(r, x)) = Len(r) + 1
          /\ \A i \in 1 .. Len(r) + 1 :
               InsertByAt(r, x)[i] = IF i <= k THEN r[i] ELSE IF i = k + 1 THEN x ELSE r[i - 1]
    BY InsertPlace
  <2> QED
    BY <2>1, Zenon
<1>5. \A i \in 1 .. n : t <= r[i].at <=> c < i
  BY DEF Split
<1> HIDE DEF n
<1>6. x.at < t => d = 1 /\ k <= c
  <2> SUFFICES ASSUME x.at < t, c < k PROVE FALSE
    BY <1>1, <1>4
  <2>1. k \in 1 .. n
    BY <1>1, <1>4 DEF n
  <2> QED
    BY <1>2, <1>3, <1>4, <1>5, <2>1
<1>7. ~(x.at < t) => d = 0 /\ c <= k
  <2> SUFFICES ASSUME ~(x.at < t), k < c PROVE FALSE
    BY <1>1, <1>4 DEF n
  <2>1. c \in 1 .. n
    BY <1>1, <1>4 DEF n
  <2> QED
    BY <1>2, <1>3, <1>4, <1>5, <2>1
<1>8. c \in 0 .. n /\ d \in {0, 1}
  BY <1>6, <1>7 DEF n
<1>9. ASSUME NEW j \in 1 .. n + 1 PROVE t <= q[j].at <=> c + d < j
  <2>1. CASE j <= k
    <3>1. j \in 1 .. n /\ q[j] = r[j]
      BY <1>1, <1>4, <2>1
    <3> QED
      BY <1>5, <1>6, <1>7, <1>8, <2>1, <3>1
  <2>2. CASE j = k + 1
    <3>1. q[j] = x
      BY <1>4, <2>2
    <3> QED
      BY <1>3, <1>4, <1>6, <1>7, <1>8, <2>2, <3>1
  <2>3. CASE j > k + 1
    <3>1. j - 1 \in 1 .. n /\ q[j] = r[j - 1]
      BY <1>1, <1>4, <2>3
    <3> QED
      BY <1>5, <1>6, <1>7, <1>8, <2>3, <3>1
  <2> QED
    BY <1>4, <2>1, <2>2, <2>3
<1> QED
  BY <1>4, <1>9 DEF Split

(* A first part of a sequence, and the same with the next element.         *)
LEMMA FirstPart ==
  ASSUME NEW s \in Seq(Events), NEW n \in Nat, n + 1 <= Len(s)
  PROVE  /\ SubSeq(s, 1, n) \in Seq(Events) /\ Len(SubSeq(s, 1, n)) = n
         /\ s[n + 1] \in Events
         /\ SubSeq(s, 1, n + 1) = Append(SubSeq(s, 1, n), s[n + 1])
<1> DEFINE p == SubSeq(s, 1, n)
           q == SubSeq(s, 1, n + 1)
           e == s[n + 1]
<1>1. Len(s) \in Nat /\ \A i \in 1 .. Len(s) : s[i] \in Events
  BY LenProperties, ElementOfSeq
<1>2. p \in Seq(Events) /\ Len(p) = n /\ \A i \in 1 .. n : p[i] = s[i]
  <2>1. (\A i \in 1 .. n : s[i] \in Events) /\ n \in Int
    BY <1>1
  <2> QED
    BY <2>1, SubSeqProperties
<1>3. q \in Seq(Events) /\ Len(q) = n + 1 /\ \A i \in 1 .. n + 1 : q[i] = s[i]
  <2>1. (\A i \in 1 .. n + 1 : s[i] \in Events) /\ n + 1 \in Int /\ 1 <= n + 1
    BY <1>1
  <2> QED
    BY <2>1, SubSeqProperties
<1>4. e \in Events
  BY <1>1
<1> HIDE DEF p, q, e
<1>5. /\ Append(p, e) \in Seq(Events) /\ Len(Append(p, e)) = n + 1
      /\ (\A i \in 1 .. n : Append(p, e)[i] = p[i]) /\ Append(p, e)[n + 1] = e
  BY <1>2, <1>4, AppendProperties
<1>6. ASSUME NEW i \in 1 .. n + 1 PROVE q[i] = Append(p, e)[i]
  <2>1. CASE i \in 1 .. n
    BY <1>2, <1>3, <1>5, <2>1
  <2>2. CASE i = n + 1
    BY <1>3, <1>5, <2>2 DEF e
  <2>3. i \in 1 .. n \/ i = n + 1
    OBVIOUS
  <2> QED
    BY <2>1, <2>2, <2>3, Zenon
<1>7. q = Append(p, e)
  <2> DEFINE a == Append(p, e)
  <2>1. a \in Seq(Events) /\ Len(a) = n + 1 /\ \A i \in 1 .. n + 1 : q[i] = a[i]
    BY <1>5, <1>6
  <2> HIDE DEF a
  <2>2. q = a
    BY <1>3, <2>1, SeqEqual
  <2> QED
    BY <2>2 DEF a
<1> QED
  BY <1>2, <1>4, <1>7 DEF p, q, e

LEMMA NoPart ==
  ASSUME NEW s \in Seq(Events)
  PROVE  SubSeq(s, 1, 0) = <<>> /\ SubSeq(s, 1, Len(s)) = s
BY LenProperties, SubSeqEmpty, SubSeqFull

(* The older ones of a sorted sequence are its first ones.                 *)
LEMMA SortSplits ==
  ASSUME NEW s \in Seq(Events), NEW t \in Int
  PROVE  Split(ByAt(s), NrOlder(s, t), t)
<1> DEFINE P(r) == Split(ByAt(r), NrOlder(r, t), t)
           T == {n \in Nat : n <= Len(s) => P(SubSeq(s, 1, n))}
<1>1. Len(s) \in Nat
  BY LenProperties
<1>2. 0 \in T
  <2>1. ByAt(<<>>) \in Seq(Events) /\ Len(ByAt(<<>>)) = 0
    <3>1. <<>> \in Seq(Events) /\ Len(<<>>) = 0
      OBVIOUS
    <3>2. IsSortOf(ByAt(<<>>), <<>>, 0)
      BY <3>1, ByAtSorts
    <3> QED
      BY <3>2 DEF IsSortOf
  <2>2. P(<<>>)
    BY <2>1 DEF Split
  <2> QED
    BY <2>2, NoPart
<1>3. ASSUME NEW n \in Nat, n \in T PROVE n + 1 \in T
  <2> SUFFICES ASSUME n + 1 <= Len(s) PROVE P(SubSeq(s, 1, n + 1))
    OBVIOUS
  <2> DEFINE p == SubSeq(s, 1, n)
             e == s[n + 1]
             d == IF e.at < t THEN 1 ELSE 0
  <2>1. p \in Seq(Events) /\ Len(p) = n /\ e \in Events /\ SubSeq(s, 1, n + 1) = Append(p, e)
    BY FirstPart
  <2>2. P(p)
    BY <1>1, <1>3
  <2> HIDE DEF p, e, P
  <2>3. ByAt(p) \in Seq(Events) /\ Len(ByAt(p)) = n /\ SortedByAt(ByAt(p))
    BY <2>1, ByAtSorts DEF IsSortOf
  <2>4. ByAt(Append(p, e)) = InsertByAt(ByAt(p), e)
    BY <2>1, SortAppends
  <2>5. NrOlder(p, t) \in 0 .. n /\ NrOlder(Append(p, e), t) = NrOlder(p, t) + d
    BY <2>1, SomeAreOlder, OlderAppended
  <2>6. Split(ByAt(p), NrOlder(p, t), t)
    BY <2>2 DEF P
  <2> DEFINE r == ByAt(p)
             q == InsertByAt(r, e)
             c == NrOlder(p, t)
  <2>7. c \in 0 .. Len(r) /\ r \in Seq(Events) /\ SortedByAt(r) /\ Split(r, c, t)
    BY <2>3, <2>5, <2>6
  <2> HIDE DEF r, c, q, d
  <2>8. Split(q, c + d, t)
    BY <2>1, <2>7, InsertSplits DEF d, q
  <2>9. ByAt(Append(p, e)) = q /\ NrOlder(Append(p, e), t) = c + d
    BY <2>4, <2>5 DEF q, r, c
  <2> QED
    BY <2>1, <2>8, <2>9 DEF P
<1>4. Len(s) \in T
  <2> HIDE DEF T
  <2> QED
    BY <1>1, <1>2, <1>3, NatSetInduction
<1>5. P(SubSeq(s, 1, Len(s)))
  BY <1>1, <1>4
<1> QED
  BY <1>5, NoPart

(* At the start no row of a time asked for is behind.                      *)
LEMMA NewerAreAhead ==
  ASSUME NEW s \in Seq(Events), NEW t \in Int, NEW e \in Events, t <= e.at
  PROVE  Ahead(s, t, 0, e)
<1> DEFINE v == e.at
<1>1. v \in Int
  BY DEF Events
<1>2. \A i \in DOMAIN s : s[i].at \in Int
  <2>1. \A i \in DOMAIN s : s[i] \in Events
    BY LenProperties, ElementOfSeq
  <2> QED
    BY <2>1 DEF Events
<1>3. t <= v
  OBVIOUS
<1> HIDE DEF v
<1>4. Older(s, t) \subseteq Older(s, v)
  <2> SUFFICES ASSUME NEW i \in DOMAIN s, s[i].at < t PROVE s[i].at < v
    BY DEF Older
  <2> QED
    BY <1>1, <1>2, <1>3
<1>5. IsFiniteSet(Older(s, v)) /\ NrOlder(s, t) \in Nat /\ NrOlder(s, v) \in Nat
  BY <1>1, SomeAreOlder, LenProperties, SMTT(30)
<1>6. NrOlder(s, t) <= NrOlder(s, v)
  BY <1>4, <1>5, FS_Subset DEF NrOlder
<1>7. NrOlder(s, t) + 0 <= NrOlder(s, v)
  BY <1>5, <1>6
<1> QED
  BY <1>7 DEF Ahead, v

(* It stays ahead, whatever is put in.                                     *)
LEMMA AheadAppended ==
  ASSUME NEW s \in Seq(Events), NEW x \in Events, NEW t \in Int, NEW k \in Nat,
         NEW e \in Events, t <= e.at, Ahead(s, t, k, e)
  PROVE  Ahead(Append(s, x), t, k, e)
<1> DEFINE v == e.at
           w == x.at
<1>1. v \in Int /\ w \in Int /\ t <= v
  BY DEF Events
<1>2. NrOlder(s, t) + k <= NrOlder(s, v)
  BY DEF Ahead
<1> HIDE DEF v
<1>3. /\ NrOlder(Append(s, x), t) = NrOlder(s, t) + IF w < t THEN 1 ELSE 0
      /\ NrOlder(Append(s, x), v) = NrOlder(s, v) + IF w < v THEN 1 ELSE 0
  BY <1>1, OlderAppended
<1>4. NrOlder(s, t) \in Nat /\ NrOlder(s, v) \in Nat
  <2>1. NrOlder(s, t) \in 0 .. Len(s) /\ NrOlder(s, v) \in 0 .. Len(s) /\ Len(s) \in Nat
    BY <1>1, SomeAreOlder, LenProperties
  <2> QED
    BY <2>1
<1> HIDE DEF w
<1>5. NrOlder(Append(s, x), t) + k <= NrOlder(Append(s, x), v)
  BY <1>1, <1>2, <1>3, <1>4
<1> QED
  BY <1>5 DEF Ahead, v

LEMMA AheadJoined ==
  ASSUME NEW s \in Seq(Events), NEW b \in Seq(Events), NEW t \in Int, NEW k \in Nat,
         NEW e \in Events, t <= e.at, Ahead(s, t, k, e)
  PROVE  Ahead(s \o b, t, k, e)
<1> DEFINE u == s \o b
           T == {n \in Nat : Len(s) + n <= Len(u) => Ahead(SubSeq(u, 1, Len(s) + n), t, k, e)}
<1>1. Len(s) \in Nat /\ Len(b) \in Nat
  BY LenProperties
<1>2. /\ u \in Seq(Events) /\ Len(u) = Len(s) + Len(b)
      /\ \A i \in 1 .. Len(s) : u[i] = s[i]
  BY Joined
<1> HIDE DEF u
<1>3. 0 \in T
  <2>1. SubSeq(u, 1, Len(s)) = s
    <3>1. \A i \in 1 .. Len(s) : u[i] \in Events
      BY <1>2, ElementOfSeq
    <3> DEFINE p == SubSeq(u, 1, Len(s))
    <3>2. p \in Seq(Events) /\ Len(p) = Len(s) /\ \A i \in 1 .. Len(s) : p[i] = u[i]
      BY <1>1, <3>1, SubSeqProperties
    <3> HIDE DEF p
    <3>3. p = s
      BY <1>2, <3>2, SeqEqual
    <3> QED
      BY <3>3 DEF p
  <2>2. Len(s) + 0 = Len(s)
    BY <1>1
  <2> QED
    BY <2>1, <2>2
<1>4. ASSUME NEW n \in Nat, n \in T PROVE n + 1 \in T
  <2> DEFINE m == Len(s) + n
  <2>1. m \in Nat /\ Len(s) + (n + 1) = m + 1
    BY <1>1
  <2> SUFFICES ASSUME m + 1 <= Len(u) PROVE Ahead(SubSeq(u, 1, m + 1), t, k, e)
    BY <2>1
  <2>2. Ahead(SubSeq(u, 1, m), t, k, e)
    BY <1>1, <1>2, <1>4, <2>1
  <2> HIDE DEF m
  <2>3. /\ SubSeq(u, 1, m) \in Seq(Events) /\ u[m + 1] \in Events
        /\ SubSeq(u, 1, m + 1) = Append(SubSeq(u, 1, m), u[m + 1])
    BY <1>2, <2>1, FirstPart
  <2> QED
    BY <2>2, <2>3, AheadAppended
<1>5. Len(b) \in T
  <2> HIDE DEF T
  <2> QED
    BY <1>1, <1>3, <1>4, NatSetInduction
<1>6. Ahead(SubSeq(u, 1, Len(u)), t, k, e)
  BY <1>1, <1>2, <1>5
<1> QED
  BY <1>2, <1>6, NoPart DEF u

(* The rows since u, each by its place in the sorted ones.                 *)
LEMMA RowsSinceByPlace ==
  ASSUME rows \in Seq(Events), NEW u \in Int
  PROVE  LET c == NrOlder(rows, u)
             h == RowsSince(u)
         IN  /\ c \in 0 .. Len(rows) /\ Len(h) = Len(rows) - c
             /\ \A i \in 1 .. Len(h) : h[i] = ByAt(rows)[c + i]
<1> DEFINE c == NrOlder(rows, u)
           s == ByAt(rows)
           n == Len(rows)
           h == SubSeq(s, c + 1, n)
<1>1. n \in Nat
  BY LenProperties
<1>2. s \in Seq(Events) /\ Len(s) = n /\ c \in 0 .. n
  BY ByAtSorts, SomeAreOlder DEF IsSortOf
<1>3. RowsSince(u) = h
  BY DEF RowsSince, NrOlder, Older
<1> HIDE DEF c, s, n
<1>4. Len(h) = n - c /\ \A i \in 1 .. n - c : h[i] = s[c + i]
  <2>1. \A i \in c + 1 .. n : s[i] \in Events
    BY <1>1, <1>2, ElementOfSeq
  <2>2. c + 1 \in Int /\ n \in Int
    BY <1>1, <1>2
  <2>3. /\ Len(h) = IF c + 1 <= n THEN n - (c + 1) + 1 ELSE 0
        /\ \A i \in 1 .. n - (c + 1) + 1 : h[i] = s[(c + 1) + i - 1]
    BY <2>1, <2>2, SubSeqProperties
  <2> HIDE DEF h
  <2>4. Len(h) = n - c /\ n - (c + 1) + 1 = n - c
    BY <1>1, <1>2, <2>3
  <2>5. \A i \in 1 .. n - c : (c + 1) + i - 1 = c + i
    BY <1>1, <1>2
  <2> QED
    BY <2>3, <2>4, <2>5
<1> QED
  BY <1>2, <1>3, <1>4 DEF c, s, n

(* Every row not older than u is among them.                               *)
LEMMA RowsSinceHaveNewer ==
  ASSUME rows \in Seq(Events), NEW u \in Int, NEW e \in ToSet(rows), u <= e.at
  PROVE  e \in ToSet(RowsSince(u))
<1> DEFINE c == NrOlder(rows, u)
           r == ByAt(rows)
           h == RowsSince(u)
<1>1. r \in Seq(Events) /\ ToSet(r) = ToSet(rows) /\ Split(r, c, u) /\ Len(r) = Len(rows)
  <2>1. ToSet(rows) = {rows[i] : i \in 1 .. Len(rows)}
    BY LenProperties DEF ToSet
  <2> QED
    BY <2>1, ByAtSorts, SortSplits DEF IsSortOf
<1>2. /\ c \in 0 .. Len(rows) /\ Len(h) = Len(rows) - c
      /\ \A i \in 1 .. Len(h) : h[i] = r[c + i]
  BY RowsSinceByPlace
<1>3. h \in Seq(Events) /\ Len(rows) \in Nat
  BY RowsSinceArePart, LenProperties
<1> HIDE DEF c, r, h
<1>4. PICK p \in 1 .. Len(rows) : r[p] = e
  BY <1>1, LenProperties DEF ToSet
<1>5. c < p
  BY <1>1, <1>4 DEF Split
<1>6. p - c \in 1 .. Len(h) /\ c + (p - c) = p
  BY <1>2, <1>3, <1>4, <1>5
<1>7. h[p - c] = e
  BY <1>2, <1>4, <1>6
<1>8. DOMAIN h = 1 .. Len(h)
  BY <1>3, LenProperties
<1> QED
  BY <1>6, <1>7, <1>8 DEF ToSet, h

(* A page with all the places of a time has all the rows of that time: as  *)
(* many rows as places, and no row twice.                                  *)
LEMMA PageHasAll ==
  ASSUME NEW h \in Seq(Events), IsInjective(h),
         NEW page \in Seq(Events), IsInjective(page), ToSet(page) \subseteq ToSet(h),
         NEW n \in Nat, \A i \in 1 .. Len(page) : page[i].at = h[n + i].at,
         NEW e \in ToSet(h),
         \A i \in 1 .. Len(h) : h[i].at = e.at => i \in n + 1 .. n + Len(page)
  PROVE  e \in ToSet(page)
<1> DEFINE I == {i \in 1 .. Len(h) : h[i].at = e.at}
           S == {h[i] : i \in I}
           f == [i \in I |-> page[i - n]]
           g == [i \in I |-> h[i]]
<1>1. Len(h) \in Nat /\ DOMAIN h = 1 .. Len(h) /\ Len(page) \in Nat /\ DOMAIN page = 1 .. Len(page)
  BY LenProperties
<1>2. IsFiniteSet(I)
  <2>1. I \in SUBSET (1 .. Len(h)) /\ IsFiniteSet(1 .. Len(h))
    BY <1>1, FS_Interval
  <2> HIDE DEF I
  <2> QED
    BY <2>1, FS_Subset
<1>3. g \in Bijection(I, S)
  <2>1. g \in [I -> S] /\ \A y \in S : \E i \in I : g[i] = y
    OBVIOUS
  <2>2. \A i, j \in I : g[i] = g[j] => i = j
    BY <1>1 DEF IsInjective
  <2> HIDE DEF g, S
  <2> QED
    BY <2>1, <2>2 DEF Bijection, Injection, Surjection, IsInjective
<1>4. IsFiniteSet(S) /\ Cardinality(S) = Cardinality(I)
  <2>1. ExistsBijection(I, S)
    BY <1>3 DEF ExistsBijection
  <2> HIDE DEF I, S
  <2> QED
    BY <1>2, <2>1, FS_Bijection
<1>5. \A i \in I : i - n \in 1 .. Len(page) /\ n + (i - n) = i
  BY <1>1
<1>6. f \in Injection(I, S)
  <2>1. ASSUME NEW i \in I PROVE page[i - n] \in S
    <3>1. page[i - n].at = h[i].at /\ i - n \in 1 .. Len(page)
      BY <1>5
    <3>2. page[i - n] \in ToSet(h)
      BY <1>1, <3>1 DEF ToSet
    <3>3. PICK j \in 1 .. Len(h) : h[j] = page[i - n]
      BY <1>1, <3>2 DEF ToSet
    <3>4. j \in I
      BY <3>1, <3>3
    <3> QED
      BY <3>3, <3>4
  <2>2. ASSUME NEW i \in I, NEW j \in I, page[i - n] = page[j - n] PROVE i = j
    <3>1. i - n = j - n
      BY <1>1, <1>5, <2>2 DEF IsInjective
    <3>2. i \in Int /\ j \in Int
      OBVIOUS
    <3> QED
      BY <3>1, <3>2
  <2> HIDE DEF I, S
  <2>3. f \in [I -> S] /\ \A i, j \in I : f[i] = f[j] => i = j
    BY <2>1, <2>2
  <2> HIDE DEF f
  <2> QED
    BY <2>3 DEF Injection, IsInjective
<1>7. e \in S
  BY <1>1 DEF ToSet
<1> HIDE DEF S
<1>8. f \in Surjection(I, S)
  <2> HIDE DEF I, f
  <2> QED
    BY <1>4, <1>6, FS_Injection
<1>9. PICK i \in I : f[i] = e
  BY <1>7, <1>8 DEF Surjection
<1> QED
  BY <1>1, <1>5, <1>9 DEF ToSet

(* A page brings what is ahead, or it ends amid rows of its time, or what  *)
(* is ahead stays so; if it does not bring it, it is not the last one.     *)
LEMMA PageBrings ==
  ASSUME rows \in Seq(Events), IsInjective(rows), NEW u \in Int, NEW out \in Seq(Events),
         NEW e \in ToSet(rows), u <= e.at, Ahead(rows, u, Len(out), e),
         NEW page \in PagesAt(u, Len(out))
  PROVE  LET read == out \o page IN
         \/ e \in ToSet(read)
         \/ /\ ~LastPage(page)
            /\ e.at \in CutAt(u, Len(read)) \/ Ahead(rows, u, Len(read), e)
<1> DEFINE h == RowsSince(u)
           n == Len(out)
           m == Len(page)
           read == out \o page
           upto == IF n + PageSize < Len(h) THEN n + PageSize ELSE Len(h)
           v == e.at
           c == NrOlder(rows, u)
           a == NrOlder(rows, v)
<1>1. /\ h \in Seq(Events) /\ SortedByAt(h) /\ IsInjective(h) /\ n \in Nat
      /\ Len(rows) \in Nat
  BY RowsSinceArePart, LenProperties
<1>2. /\ page \in Seq(Events) /\ ToSet(page) \subseteq ToSet(h) /\ IsInjective(page)
      /\ m = IF n < upto THEN upto - n ELSE 0
      /\ \A i \in 1 .. m : page[i].at = h[n + i].at
  BY <1>1, PageHolds
<1>3. CutAt(u, Len(read)) = {h[i].at : i \in {j \in DOMAIN h :
                               j = Len(read) /\ j < Len(h) /\ h[j].at = h[j + 1].at}}
  BY DEF CutAt
<1>4. v \in Int
  <2>1. e \in Events
    BY LenProperties, ElementOfSeq DEF ToSet
  <2> QED
    BY <2>1 DEF Events
<1>5. c \in Nat /\ a \in Nat /\ c + n <= a
  <2>1. c \in 0 .. Len(rows) /\ a \in 0 .. Len(rows)
    BY <1>4, SomeAreOlder
  <2>2. c + n <= a
    BY DEF Ahead
  <2> HIDE DEF c, a
  <2> QED
    BY <1>1, <2>1, <2>2
<1>6. \A i \in 1 .. Len(h) : v <= h[i].at <=> a < c + i
  <2> DEFINE s == ByAt(rows)
  <2>1. Split(s, a, v) /\ Len(s) = Len(rows)
    BY <1>4, SortSplits, ByAtSorts DEF IsSortOf
  <2>2. /\ c \in 0 .. Len(rows) /\ Len(h) = Len(rows) - c
        /\ \A i \in 1 .. Len(h) : h[i] = s[c + i]
    BY RowsSinceByPlace
  <2> HIDE DEF s, h, c, a, v
  <2> SUFFICES ASSUME NEW i \in 1 .. Len(h) PROVE v <= h[i].at <=> a < c + i
    OBVIOUS
  <2>3. c + i \in 1 .. Len(s)
    BY <1>1, <2>1, <2>2
  <2> QED
    BY <2>1, <2>2, <2>3 DEF Split
<1>7. e \in ToSet(h)
  BY RowsSinceHaveNewer
<1> HIDE DEF h, c, a
<1>8. Len(h) \in Nat /\ DOMAIN h = 1 .. Len(h) /\ \A i \in 1 .. Len(h) : h[i].at \in Int
  <2>1. Len(h) \in Nat /\ DOMAIN h = 1 .. Len(h)
    BY <1>1, LenProperties
  <2>2. \A i \in 1 .. Len(h) : h[i] \in Events
    BY <1>1, <2>1, ElementOfSeq
  <2> QED
    BY <2>1, <2>2 DEF Events
<1>9. \A i, j \in 1 .. Len(h) : i <= j => h[i].at <= h[j].at
  <2> SUFFICES ASSUME NEW i \in 1 .. Len(h), NEW j \in 1 .. Len(h), i <= j
               PROVE  h[i].at <= h[j].at
    OBVIOUS
  <2>1. CASE i = j
    BY <1>8, <2>1
  <2>2. CASE i < j
    BY <1>1, <1>8, <2>2 DEF SortedByAt
  <2> QED
    BY <2>1, <2>2
<1>10. PICK p \in 1 .. Len(h) : h[p] = e
  BY <1>7, <1>8 DEF ToSet
<1>11. h[p].at = v /\ n < p
  <2>1. h[p].at = v
    BY <1>10
  <2>2. a < c + p
    BY <1>4, <1>6, <2>1
  <2> QED
    BY <1>1, <1>5, <1>10, <2>1, <2>2
<1>12. /\ upto \in 1 .. Len(h) /\ m = upto - n /\ m \in Nat /\ n < upto
       /\ upto < Len(h) => m = PageSize
  <2>1. PageSize \in Nat \ {0}
    BY TelemetryAssumption
  <2>2. upto \in 1 .. Len(h) /\ n < upto /\ (upto < Len(h) => upto = n + PageSize)
    BY <1>1, <1>8, <1>11, <2>1
  <2> HIDE DEF upto
  <2> QED
    BY <1>1, <1>2, <2>1, <2>2
<1> HIDE DEF upto, v
<1>13. read \in Seq(Events) /\ Len(read) = upto /\ ToSet(read) = ToSet(out) \cup ToSet(page)
  <2>1. Len(read) = n + m
    BY <1>2, Joined
  <2>2. Gathers(read, out, page)
    BY <1>2, JoinedGathers
  <2> HIDE DEF read
  <2> QED
    BY <1>1, <1>12, <2>1, <2>2 DEF Gathers
<1> HIDE DEF read, n, m
<1>14. upto < Len(h) => ~LastPage(page)
  BY <1>12 DEF LastPage, m
<1>15. ASSUME upto < Len(h), h[upto].at = v, h[upto + 1].at = v
       PROVE  ~LastPage(page) /\ v \in CutAt(u, Len(read))
  <2>1. upto \in {j \in DOMAIN h : j = Len(read) /\ j < Len(h) /\ h[j].at = h[j + 1].at}
    BY <1>8, <1>12, <1>13, <1>15
  <2>2. h[upto].at \in CutAt(u, Len(read))
    BY <1>3, <2>1
  <2> QED
    BY <1>14, <1>15, <2>2
<1>16. CASE upto < p
  <2>1. upto < Len(h) /\ upto + 1 \in 1 .. Len(h) /\ upto <= upto + 1 /\ upto + 1 <= p
    BY <1>8, <1>10, <1>12, <1>16
  <2>2. CASE c + upto <= a
    <3>1. Ahead(rows, u, Len(read), e)
      BY <1>13, <2>2 DEF Ahead, c, a, v
    <3> QED
      BY <1>14, <2>1, <3>1 DEF read
  <2>3. CASE ~(c + upto <= a)
    <3>1. v <= h[upto].at
      BY <1>5, <1>6, <1>12, <2>3
    <3>2. h[upto].at <= h[upto + 1].at /\ h[upto + 1].at <= h[p].at
      BY <1>9, <1>10, <1>12, <2>1
    <3>3. h[upto].at \in Int /\ h[upto + 1].at \in Int
      BY <1>8, <1>12, <2>1
    <3>4. h[upto].at = v /\ h[upto + 1].at = v
      BY <1>4, <1>11, <3>1, <3>2, <3>3
    <3> QED
      BY <1>15, <2>1, <3>4 DEF read, v
  <2> QED
    BY <2>2, <2>3
<1>17. CASE p <= upto /\ upto < Len(h) /\ h[upto + 1].at = v
  <2>1. h[p].at <= h[upto].at /\ h[upto].at <= h[upto + 1].at /\ h[upto].at \in Int
    <3>1. upto + 1 \in 1 .. Len(h) /\ upto <= upto + 1
      BY <1>8, <1>12, <1>17
    <3> QED
      BY <1>8, <1>9, <1>10, <1>12, <1>17, <3>1
  <2>2. h[upto].at = v
    BY <1>4, <1>11, <1>17, <2>1
  <2> QED
    BY <1>15, <1>17, <2>2 DEF read, v
<1>18. CASE p <= upto /\ ~(upto < Len(h) /\ h[upto + 1].at = v)
  <2>1. ASSUME NEW i \in 1 .. Len(h), h[i].at = v PROVE i \in n + 1 .. n + Len(page)
    <3>1. n < i
      <4>1. a < c + i
        BY <1>4, <1>6, <2>1
      <4> QED
        BY <1>1, <1>5, <4>1
    <3>2. i <= upto
      <4> SUFFICES ASSUME upto < i PROVE FALSE
        BY <1>12
      <4>1. /\ upto < Len(h) /\ upto + 1 \in 1 .. Len(h) /\ upto + 1 <= i
            /\ p <= upto + 1
        BY <1>8, <1>12, <1>18
      <4>2. h[p].at <= h[upto + 1].at /\ h[upto + 1].at <= h[i].at /\ h[upto + 1].at \in Int
        BY <1>8, <1>9, <1>10, <4>1
      <4>3. h[upto + 1].at = v
        BY <1>4, <1>11, <2>1, <4>2
      <4> QED
        BY <1>18, <4>1, <4>3
    <3> QED
      BY <1>1, <1>12, <3>1, <3>2 DEF m
  <2>2. e \in ToSet(page)
    BY <1>1, <1>2, <1>7, <2>1, PageHasAll DEF m, v
  <2> QED
    BY <1>13, <2>2 DEF read
<1> QED
  BY <1>8, <1>10, <1>12, <1>16, <1>17, <1>18

(* prune keeps what has not expired, unless the ring is full.              *)
LEMMA PrunedKeeps ==
  ASSUME NEW r \in Seq(Events), clk \in Int, NEW e \in ToSet(r), e.at >= clk - Retention
  PROVE  e \in ToSet(Pruned(r)) \/ Len(Pruned(r)) = RingMax
<1> DEFINE expired(n) == \A i \in 1 .. n : r[i].at < clk - Retention
           found(n) == expired(n) /\ (n = Len(r) \/ ~expired(n + 1))
           start == CHOOSE n \in 0 .. Len(r) : found(n)
           kept == SubSeq(r, start + 1, Len(r))
           size == Len(kept)
           cut == SubSeq(kept, size - RingMax + 1, size)
<1>1. Len(r) \in Nat /\ DOMAIN r = 1 .. Len(r) /\ \A i \in 1 .. Len(r) : r[i] \in Events
  BY LenProperties, ElementOfSeq
<1>2. start \in 0 .. Len(r) /\ expired(start)
  BY FrontIsFound
<1>3. Pruned(r) = IF size > RingMax THEN cut ELSE kept
  BY DEF Pruned
<1> HIDE DEF start
<1>4. PICK p \in 1 .. Len(r) : r[p] = e
  BY <1>1 DEF ToSet
<1>5. start < p
  <2> SUFFICES ASSUME p <= start PROVE FALSE
    BY <1>2
  <2>1. p \in 1 .. start
    BY <1>2
  <2>2. e.at < clk - Retention
    BY <1>2, <1>4, <2>1
  <2>3. e.at \in Int /\ Retention \in Nat
    BY <1>1, <1>4, TelemetryAssumption DEF Events
  <2> QED
    BY <2>2, <2>3
<1> HIDE DEF expired
<1>6. /\ kept \in Seq(Events) /\ size = Len(r) - start
      /\ \A i \in 1 .. Len(r) - start : kept[i] = r[start + i]
  <2>1. \A i \in start + 1 .. Len(r) : r[i] \in Events
    BY <1>1, <1>2
  <2>2. start + 1 \in Int /\ Len(r) \in Int /\ start + 1 <= Len(r)
    BY <1>1, <1>2, <1>5
  <2>3. /\ kept \in Seq(Events) /\ size = Len(r) - (start + 1) + 1
        /\ \A i \in 1 .. Len(r) - (start + 1) + 1 : kept[i] = r[(start + 1) + i - 1]
    BY <2>1, <2>2, SubSeqProperties
  <2> HIDE DEF kept, size
  <2>4. \A i \in 1 .. Len(r) - start : (start + 1) + i - 1 = start + i
    BY <1>1, <1>2
  <2>5. Len(r) - (start + 1) + 1 = Len(r) - start
    BY <1>1, <1>2
  <2> QED
    BY <2>3, <2>4, <2>5
<1>7. e \in ToSet(kept)
  <2>1. p - start \in 1 .. Len(r) - start /\ start + (p - start) = p
    BY <1>1, <1>2, <1>5
  <2>2. DOMAIN kept = 1 .. Len(r) - start
    BY <1>6, LenProperties
  <2>3. kept[p - start] = e
    BY <1>4, <1>6, <2>1
  <2> HIDE DEF kept
  <2> QED
    BY <2>1, <2>2, <2>3 DEF ToSet
<1>8. ASSUME size > RingMax PROVE Len(cut) = RingMax
  <2>1. size \in Nat /\ RingMax \in Nat \ {0}
    <3> HIDE DEF kept
    <3> QED
      BY <1>6, LenProperties, TelemetryAssumption
  <2> HIDE DEF size
  <2>2. Len(kept) = size
    BY DEF size
  <2> HIDE DEF kept
  <2>3. \A i \in 1 .. size : kept[i] \in Events
    BY <1>6, <2>2, ElementOfSeq
  <2>4. size - RingMax + 1 \in Nat \ {0} /\ size - RingMax + 1 <= size
    BY <1>8, <2>1
  <2>5. \A i \in size - RingMax + 1 .. size : kept[i] \in Events
    BY <2>1, <2>3, <2>4
  <2>6. Len(cut) = size - (size - RingMax + 1) + 1
    BY <2>1, <2>4, <2>5, SubSeqProperties
  <2> QED
    BY <2>1, <2>6
<1> QED
  BY <1>3, <1>7, <1>8

(* What the replay under way owes is read already, or may be lost where a  *)
(* page ended amid its time, or is ahead.                                  *)
OwedInv ==
  /\ restarts \in Nat
  /\ boot.reading => \A e \in boot.owed :
       /\ e \in ToSet(rows) /\ boot.since <= e.at
       /\ \/ e \in ToSet(boot.out)
          \/ e.at \in boot.cut
          \/ Ahead(rows, boot.since, Len(boot.out), e)

LEMMA OwedInitInv == TelemetryInit => OwedInv
<1> SUFFICES ASSUME TelemetryInit PROVE OwedInv
  OBVIOUS
<1>1. boot = NoBoot /\ restarts = 0
  BY DEF TelemetryInit
<1>2. ~NoBoot.reading
  BY NoBootEnded
<1> QED
  BY <1>1, <1>2 DEF OwedInv

LEMMA AppendKeepsOwed ==
  ASSUME RingTypes, OwedInv, NEW b \in appends, AppendLands(b)
  PROVE  OwedInv' /\ (boot.reading => boot'.reading)
<1>1. /\ boot \in Boots /\ rows \in Seq(Events) /\ b \in Seq(Events)
      /\ boot.out \in Seq(Events) /\ boot.since \in Int /\ boot.owed \subseteq Events
  BY DEF RingTypes, Boots
<1>2. rows' = rows \o b /\ boot' = [boot EXCEPT !.torn = boot.reading] /\ restarts' = restarts
  BY DEF AppendLands
<1>3. /\ boot'.reading = boot.reading /\ boot'.since = boot.since /\ boot'.cut = boot.cut
      /\ boot'.out = boot.out /\ boot'.owed = boot.owed
  BY <1>1, <1>2 DEF Boots
<1>4. ToSet(rows) \subseteq ToSet(rows')
  BY <1>1, <1>2, JoinedGathers DEF Gathers
<1>5. ASSUME NEW e \in Events, boot.since <= e.at, Ahead(rows, boot.since, Len(boot.out), e)
      PROVE  Ahead(rows \o b, boot.since, Len(boot.out), e)
  <2>1. Len(boot.out) \in Nat
    BY <1>1, LenProperties
  <2> QED
    BY <1>1, <1>5, <2>1, AheadJoined
<1>6. ASSUME boot.reading, NEW e \in boot.owed
      PROVE  \/ e \in ToSet(boot.out) \/ e.at \in boot.cut
             \/ Ahead(rows', boot.since, Len(boot.out), e)
  BY <1>1, <1>2, <1>5, <1>6 DEF OwedInv
<1>7. ASSUME boot'.reading, NEW e \in boot'.owed
      PROVE  /\ e \in ToSet(rows') /\ boot'.since <= e.at
             /\ \/ e \in ToSet(boot'.out) \/ e.at \in boot'.cut
                \/ Ahead(rows', boot'.since, Len(boot'.out), e)
  BY <1>3, <1>4, <1>6, <1>7 DEF OwedInv
<1> QED
  BY <1>2, <1>3, <1>7 DEF OwedInv

LEMMA BootStartsOwing ==
  ASSUME RingTypes, OwedInv, BootStarts
  PROVE  OwedInv'
<1> DEFINE t == clk - Retention
<1>1. rows \in Seq(Events) /\ t \in Int
  BY TelemetryAssumption DEF RingTypes, DeliveryTypes
<1>2. /\ boot' = [reading |-> TRUE, since |-> t, out |-> <<>>, torn |-> FALSE, cut |-> {},
                  ragged |-> boot.ragged, tied |-> boot.tied,
                  owed |-> {e \in ToSet(rows) : e.at >= t}]
      /\ rows' = rows /\ restarts' = restarts
  BY DEF BootStarts
<1>3. boot'.out = <<>> /\ boot'.since = t /\ boot'.owed = {e \in ToSet(rows) : e.at >= t}
  BY <1>2
<1> HIDE DEF t
<1>4. ASSUME NEW e \in boot'.owed
      PROVE  e \in ToSet(rows) /\ t <= e.at /\ Ahead(rows, t, 0, e)
  <2>1. e \in ToSet(rows) /\ e.at >= t
    BY <1>3, <1>4
  <2>2. e \in Events
    BY <1>1, <2>1, LenProperties, ElementOfSeq DEF ToSet
  <2>3. e.at \in Int
    BY <2>2 DEF Events
  <2>4. t <= e.at
    BY <1>1, <2>1, <2>3
  <2> QED
    BY <1>1, <2>1, <2>2, <2>4, NewerAreAhead
<1>5. Len(<<>>) = 0
  OBVIOUS
<1>6. ASSUME NEW e \in boot'.owed
      PROVE  /\ e \in ToSet(rows') /\ boot'.since <= e.at
             /\ Ahead(rows', boot'.since, Len(boot'.out), e)
  BY <1>2, <1>3, <1>4, <1>5
<1> QED
  BY <1>2, <1>6 DEF OwedInv

(* The ring after a replay, of a step that brings what is owed.            *)
Covers(r) == \A e \in boot.owed :
  e.at >= clk - Retention /\ e.at \notin boot.cut => e \in ToSet(r) \/ Len(r) = RingMax

(* A page: what is owed and not cut is read, or is ahead and the page was  *)
(* not the last; behind the last one the ring is what was read, pruned.    *)
LEMMA BootReadsOwing ==
  ASSUME RingTypes, IsInjective(rows), OwedInv, BootReads
  PROVE  /\ OwedInv'
         /\ ring' # ring => Covers(ring')
<1>1. /\ boot \in Boots /\ clk \in Int /\ rows \in Seq(Events) /\ boot.out \in Seq(Events)
      /\ boot.since \in Int /\ restarts \in Nat
  BY DEF RingTypes, DeliveryTypes, Boots, OwedInv
<1>2. boot.reading /\ rows' = rows /\ restarts' = restarts
  BY DEF BootReads
<1>3. PICK page \in PagesAt(boot.since, Len(boot.out)) :
        LET read == boot.out \o page IN
        \/ LastPage(page) /\ read = <<>> /\ EndBoot /\ ring' = ring
        \/ /\ LastPage(page) /\ read # <<>>
           /\ boot' = BootOver(boot.torn, boot.cut # {}) /\ ring' = Pruned(read)
        \/ /\ ~LastPage(page)
           /\ boot' = [boot EXCEPT !.out = read, !.cut = @ \cup CutAt(boot.since, Len(read))]
           /\ ring' = ring
  BY Zenon DEF BootReads
<1> DEFINE read == boot.out \o page
           more == CutAt(boot.since, Len(read))
           cut == boot.cut \cup more
<1>4. /\ read \in Seq(Events) /\ ToSet(boot.out) \subseteq ToSet(read)
  <2>1. page \in Seq(Events)
    BY <1>1, LenProperties, PageHolds
  <2> QED
    BY <1>1, <2>1, JoinedGathers DEF Gathers
<1>5. ASSUME NEW e \in boot.owed
      PROVE  \/ e \in ToSet(read) \/ e.at \in boot.cut
             \/ /\ ~LastPage(page)
                /\ e.at \in more \/ Ahead(rows, boot.since, Len(read), e)
  <2>1. /\ e \in ToSet(rows) /\ boot.since <= e.at
        /\ \/ e \in ToSet(boot.out) \/ e.at \in boot.cut
           \/ Ahead(rows, boot.since, Len(boot.out), e)
    BY <1>2 DEF OwedInv
  <2>2. ASSUME Ahead(rows, boot.since, Len(boot.out), e)
        PROVE  \/ e \in ToSet(read)
               \/ /\ ~LastPage(page)
                  /\ e.at \in more \/ Ahead(rows, boot.since, Len(read), e)
    BY <1>1, <2>1, <2>2, PageBrings
  <2> QED
    BY <1>4, <2>1, <2>2
<1> HIDE DEF read, more
<1>6. boot.ragged \in BOOLEAN /\ boot.tied \in BOOLEAN /\ boot.torn \in BOOLEAN
      /\ (boot.cut # {}) \in BOOLEAN
  BY <1>1 DEF Boots
<1>7. CASE EndBoot /\ ring' = ring
  <2>1. ~boot'.reading
    BY <1>6, <1>7, NoBootEnded DEF EndBoot
  <2> QED
    BY <1>1, <1>2, <1>7, <2>1 DEF OwedInv
<1>8. CASE LastPage(page) /\ boot' = BootOver(boot.torn, boot.cut # {}) /\ ring' = Pruned(read)
  <2>1. ~boot'.reading
    BY <1>6, <1>8, NoBootEnded
  <2>2. Covers(ring')
    <3> SUFFICES ASSUME NEW e \in boot.owed, e.at >= clk - Retention, e.at \notin boot.cut
                 PROVE  e \in ToSet(ring') \/ Len(ring') = RingMax
      BY DEF Covers
    <3>1. e \in ToSet(read)
      BY <1>5, <1>8
    <3>2. e \in ToSet(Pruned(read)) \/ Len(Pruned(read)) = RingMax
      BY <1>1, <1>4, <3>1, PrunedKeeps
    <3> QED
      BY <1>8, <3>2
  <2> QED
    BY <1>1, <1>2, <2>1, <2>2 DEF OwedInv
<1>9. CASE boot' = [boot EXCEPT !.out = read, !.cut = cut] /\ ring' = ring
  <2>1. /\ boot'.out = read /\ boot'.cut = cut
        /\ boot'.since = boot.since /\ boot'.owed = boot.owed
    BY <1>1, <1>9 DEF Boots
  <2>2. ASSUME NEW e \in boot'.owed
        PROVE  /\ e \in ToSet(rows') /\ boot'.since <= e.at
               /\ \/ e \in ToSet(boot'.out) \/ e.at \in boot'.cut
                  \/ Ahead(rows', boot'.since, Len(boot'.out), e)
    <3>1. e \in boot.owed
      BY <2>1
    <3>2. e \in ToSet(rows) /\ boot.since <= e.at
      BY <1>2, <3>1 DEF OwedInv
    <3> QED
      BY <1>2, <1>5, <2>1, <3>1, <3>2
  <2> QED
    BY <1>1, <1>2, <1>9, <2>2 DEF OwedInv
<1> QED
  BY <1>3, <1>7, <1>8, <1>9 DEF read, more

Brought ==
  boot.reading /\ ~boot'.reading /\ ring' # ring /\ restarts' = restarts => Covers(ring')

LEMMA OwedStepInv ==
  RingInv /\ OwedInv /\ [TelemetryNext]_telemetryVars => OwedInv' /\ Brought
<1> SUFFICES ASSUME RingInv, OwedInv, [TelemetryNext]_telemetryVars PROVE OwedInv' /\ Brought
  OBVIOUS
<1>1. RingTypes /\ boot \in Boots /\ IsInjective(rows)
  BY DEF RingInv, RingTypes, StoreInv
<1>2. ASSUME UNCHANGED <<rows, boot, restarts>> PROVE OwedInv' /\ Brought
  BY <1>2 DEF OwedInv, Brought
<1>3. ASSUME NEW s \in Sources,
             \/ Enqueue(s) \/ Drain(s) \/ Close(s) \/ CloseReturns(s)
             \/ Arrives(s) \/ Returns(s) \/ PostFails(s)
      PROVE  OwedInv' /\ Brought
  BY <1>2, <1>3, Zenon DEF Enqueue, Drain, Close, CloseReturns, Arrives, Returns, PostFails, hubVars
<1>4. ASSUME NEW b \in late, LateArrives(b) PROVE OwedInv' /\ Brought
  BY <1>2, <1>4 DEF LateArrives
<1>5. ASSUME NEW b \in appends, AppendFails(b) PROVE OwedInv' /\ Brought
  BY <1>2, <1>5 DEF AppendFails
<1>6. ASSUME Passes \/ UNCHANGED telemetryVars PROVE OwedInv' /\ Brought
  BY <1>2, <1>6 DEF Passes, telemetryVars, hubVars
<1>7. ASSUME NEW b \in appends, AppendLands(b) PROVE OwedInv' /\ Brought
  BY <1>1, <1>7, AppendKeepsOwed DEF Brought
<1>8. CASE BootStarts
  <2>1. ~boot.reading
    BY <1>8 DEF BootStarts
  <2> QED
    BY <1>1, <1>8, <2>1, BootStartsOwing DEF Brought
<1>9. CASE BootReads
  BY <1>1, <1>9, BootReadsOwing DEF Brought
<1>10. CASE BootFails
  <2>1. ring' = ring /\ restarts' = restarts /\ boot' = BootOver(boot.ragged, boot.tied)
    BY <1>10 DEF BootFails, EndBoot
  <2>2. boot.ragged \in BOOLEAN /\ boot.tied \in BOOLEAN
    BY <1>1 DEF Boots
  <2>3. ~boot'.reading
    BY <2>1, <2>2, NoBootEnded
  <2> QED
    BY <2>1, <2>3 DEF OwedInv, Brought
<1>11. CASE Restarts
  <2>1. restarts' = restarts + 1 /\ boot' = NoBoot /\ restarts \in Nat
    BY <1>11 DEF Restarts, OwedInv
  <2>2. ~boot'.reading
    BY <2>1, NoBootEnded
  <2>3. restarts' \in Nat /\ restarts' # restarts
    BY <2>1
  <2> QED
    BY <2>2, <2>3 DEF OwedInv, Brought
<1> QED
  BY <1>3, <1>4, <1>5, <1>6, <1>7, <1>8, <1>9, <1>10, <1>11 DEF TelemetryNext

(* A replay brings every row that was in the store when it started, unless *)
(* it has expired since or the ring is full, however many pages it takes,  *)
(* whatever is appended between them and in whatever order each page has   *)
(* rows of one time - except rows of a time amid which a page ended: an    *)
(* append moves a row back by one, or not at all, never in front of what   *)
(* was read, and a page with every place of a time has every row of it     *)
(* (boot, replay; supabase-store.ts:79).                                   *)
THEOREM AlwaysBootCoversStored == TelemetrySpec => BootCoversStored
<1>1. RingInv /\ OwedInv /\ [TelemetryNext]_telemetryVars =>
        [boot.reading /\ ~boot'.reading /\ ring' # ring /\ restarts' = restarts
           => \A e \in boot.owed :
                e.at >= clk - Retention /\ e.at \notin boot.cut
                  => e \in ToSet(ring') \/ Len(ring') = RingMax
        ]_telemetryVars
  BY OwedStepInv DEF Brought, Covers
<1>2. RingInv /\ OwedInv /\ [TelemetryNext]_telemetryVars => OwedInv'
  BY OwedStepInv
<1> QED
  BY <1>1, <1>2, TelemetryInitInv, TelemetryStepInv, RingInitInv, RingStepInv, OwedInitInv, PTL
  DEF TelemetrySpec, BootCoversStored

-----------------------------------------------------------------------------
(* The types, and the bound of the ring.                                   *)

(* prune leaves no more than the ring may hold.                            *)
LEMMA PrunedIsShort ==
  ASSUME NEW r \in Seq(Events), clk \in Int
  PROVE  Pruned(r) \in Seq(Events) /\ Len(Pruned(r)) <= RingMax
<1> DEFINE expired(n) == \A i \in 1 .. n : r[i].at < clk - Retention
           found(n) == expired(n) /\ (n = Len(r) \/ ~expired(n + 1))
           start == CHOOSE n \in 0 .. Len(r) : found(n)
           kept == SubSeq(r, start + 1, Len(r))
           size == Len(kept)
           cut == SubSeq(kept, size - RingMax + 1, size)
<1>1. PartOf(Pruned(r), r)
  BY PrunedIsPart
<1>2. Pruned(r) = IF size > RingMax THEN cut ELSE kept
  BY DEF Pruned
<1>3. Len(r) \in Nat /\ start \in 0 .. Len(r)
  BY FrontIsFound, LenProperties
<1> HIDE DEF start
<1>4. kept \in Seq(Events)
  <2>1. start + 1 \in Nat \ {0} /\ Len(r) \in 0 .. Len(r)
    BY <1>3
  <2> QED
    BY <2>1, SubSeqIsPart DEF PartOf
<1> HIDE DEF kept
<1>5. size \in Nat /\ RingMax \in Nat \ {0} /\ \A i \in 1 .. size : kept[i] \in Events
  BY <1>4, LenProperties, ElementOfSeq, TelemetryAssumption
<1>6. ASSUME size > RingMax PROVE Len(cut) = RingMax
  <2> HIDE DEF size
  <2>1. size - RingMax + 1 \in Nat \ {0} /\ size - RingMax + 1 <= size
    BY <1>5, <1>6
  <2>2. \A i \in size - RingMax + 1 .. size : kept[i] \in Events
    BY <1>5, <2>1
  <2>3. Len(cut) = size - (size - RingMax + 1) + 1
    BY <1>5, <2>1, <2>2, SubSeqProperties
  <2> QED
    BY <1>5, <2>3
<1> QED
  BY <1>1, <1>2, <1>5, <1>6 DEF PartOf

(* What the invariants above leave open.                                   *)
MoreTypes ==
  /\ Len(ring) <= RingMax
  /\ given \subseteq Events
  /\ clk \in 0 .. MaxClk
  /\ restarts \in 0 .. MaxRestarts

LEMMA MoreInit == TelemetryInit => MoreTypes
<1> SUFFICES ASSUME TelemetryInit PROVE MoreTypes
  OBVIOUS
<1>1. RingMax \in Nat /\ MaxClk \in Nat /\ MaxRestarts \in Nat
  BY TelemetryAssumption
<1>2. ring = <<>> /\ given = {} /\ clk = 0 /\ restarts = 0
  BY DEF TelemetryInit
<1>3. Len(ring) = 0
  BY <1>2
<1> QED
  BY <1>1, <1>2, <1>3 DEF MoreTypes

(* What is given up is an event: one the queue drops, ...                  *)
LEMMA DropsEvents ==
  ASSUME DeliveryTypes, MoreTypes, NEW s \in Sources, Enqueue(s)
  PROVE  given' \subseteq Events
<1> DEFINE e == [source |-> s, nr |-> made[s] + 1, at |-> clk]
           q == Append(queue[s], e)
           over == IF Len(q) > MaxQueue[s] THEN Len(q) - MaxQueue[s] ELSE 0
           dropped == SubSeq(q, 1, over)
<1>1. made[s] \in Nat /\ clk \in Int /\ queue[s] \in Seq(Events) /\ MaxQueue[s] \in Nat
  BY TelemetryAssumption DEF DeliveryTypes
<1>2. e \in Events
  BY <1>1 DEF Events
<1>3. given' = given \cup ToSet(dropped)
  BY Zenon DEF Enqueue
<1> HIDE DEF e
<1>4. q \in Seq(Events) /\ Len(q) \in Nat
  BY <1>1, <1>2
<1> HIDE DEF q
<1>5. over \in 0 .. Len(q)
  BY <1>1, <1>4
<1> HIDE DEF over
<1>6. PartOf(dropped, q)
  BY <1>4, <1>5, SubSeqIsPart
<1>7. ToSet(dropped) \subseteq Events
  <2> HIDE DEF dropped
  <2>1. DOMAIN dropped = 1 .. Len(dropped) /\ \A i \in 1 .. Len(dropped) : dropped[i] \in Events
    BY <1>6, LenProperties, ElementOfSeq DEF PartOf
  <2> QED
    BY <2>1 DEF ToSet
<1> QED
  BY <1>3, <1>7 DEF MoreTypes

LEMMA BatchOfEvents ==
  ASSUME NEW b \in Seq(Events)
  PROVE  ToSet(b) \subseteq Events
<1>1. DOMAIN b = 1 .. Len(b) /\ \A i \in 1 .. Len(b) : b[i] \in Events
  BY LenProperties, ElementOfSeq
<1> QED
  BY <1>1 DEF ToSet

LEMMA FirstOfEvents ==
  ASSUME NEW c \in Seq(Seq(Events)), c # <<>>
  PROVE  ToSet(Head(c)) \subseteq Events
<1>1. Head(c) \in Seq(Events)
  OBVIOUS
<1> QED
  BY <1>1, BatchOfEvents

(* ... or one a reporter or a POST held when the hub's process ended.      *)
LEMMA RestartGivesEvents ==
  ASSUME DeliveryInv, MoreTypes, Restarts
  PROVE  given' \subseteq Events
<1> DEFINE gone(s) == s \in Local \/ heldBy[s] = "hub"
           lost(s) == IF s \in Local
                      THEN ToSet(queue[s]) \cup UNION {ToSet(b) : b \in ToSet(chain[s])}
                      ELSE ToSet(Head(chain[s]))
<1>1. given' = given \cup UNION {lost(s) : s \in {x \in Sources : gone(x)}}
  BY Zenon DEF Restarts
<1>2. ASSUME NEW s \in Sources, gone(s) PROVE lost(s) \subseteq Events
  <2>1. queue[s] \in Seq(Events) /\ chain[s] \in Seq(Seq(Events))
    BY DEF DeliveryInv, DeliveryTypes
  <2>2. CASE s \in Local
    <3>1. ToSet(queue[s]) \subseteq Events
      BY <2>1, BatchOfEvents
    <3>2. DOMAIN chain[s] = 1 .. Len(chain[s])
          /\ \A i \in 1 .. Len(chain[s]) : chain[s][i] \in Seq(Events)
      BY <2>1, LenProperties, ElementOfSeq
    <3>3. \A b \in ToSet(chain[s]) : b \in Seq(Events)
      BY <3>2 DEF ToSet
    <3>4. \A b \in ToSet(chain[s]) : ToSet(b) \subseteq Events
      BY <3>3, BatchOfEvents
    <3> QED
      BY <2>2, <3>1, <3>4
  <2>3. CASE s \notin Local
    <3>1. chain[s] # <<>>
      BY <1>2, <2>3 DEF DeliveryInv, DeliveryInvOf, HubHeard
    <3>2. ToSet(Head(chain[s])) \subseteq Events
      BY <2>1, <3>1, FirstOfEvents
    <3> QED
      BY <2>3, <3>2
  <2> QED
    BY <2>2, <2>3
<1> HIDE DEF lost, gone
<1>3. \A s \in {x \in Sources : gone(x)} : lost(s) \subseteq Events
  BY <1>2
<1> QED
  BY <1>1, <1>3 DEF MoreTypes

(* The hub takes a batch: the ring is pruned behind it.                    *)
LEMMA IngestKeepsShort ==
  ASSUME RingTypes, NEW b \in Seq(Events), Ingest(b)
  PROVE  Len(ring') <= RingMax
<1>1. ring \in Seq(Events) /\ clk \in Int
  BY DEF RingTypes, DeliveryTypes
<1>2. Fold(b) \in Seq(Events)
  BY <1>1, FoldGathers DEF Gathers
<1> QED
  BY <1>1, <1>2, PrunedIsShort DEF Ingest

LEMMA BootReadsShort ==
  ASSUME RingTypes, MoreTypes, BootReads
  PROVE  Len(ring') <= RingMax
<1>1. clk \in Int /\ rows \in Seq(Events) /\ boot.out \in Seq(Events)
  BY DEF RingTypes, DeliveryTypes, Boots
<1>2. ring' = ring \/ \E page \in PagesAt(boot.since, Len(boot.out)) :
                        ring' = Pruned(boot.out \o page)
  BY Zenon DEF BootReads
<1>3. ASSUME NEW page \in PagesAt(boot.since, Len(boot.out))
      PROVE  Len(Pruned(boot.out \o page)) <= RingMax
  <2>1. boot.out \o page \in Seq(Events)
    BY <1>1, NextPage
  <2> QED
    BY <1>1, <2>1, PrunedIsShort
<1> QED
  BY <1>2, <1>3 DEF MoreTypes

LEMMA MoreStep ==
  DeliveryInv /\ RingInv /\ MoreTypes /\ [TelemetryNext]_telemetryVars => MoreTypes'
<1> SUFFICES ASSUME DeliveryInv, RingInv, MoreTypes, [TelemetryNext]_telemetryVars
             PROVE  MoreTypes'
  OBVIOUS
<1> USE DEF reporterVars, hubVars
<1>1. RingTypes /\ DeliveryTypes
  BY DEF RingInv, RingTypes
<1>2. \A s \in Sources : chain[s] \in Seq(Seq(Events))
  BY <1>1 DEF DeliveryTypes
<1>3. MaxClk \in Nat /\ MaxRestarts \in Nat /\ RingMax \in Nat
  BY TelemetryAssumption
<1>4. ASSUME NEW s \in Sources, Enqueue(s) PROVE MoreTypes'
  <2>1. UNCHANGED <<ring, clk, restarts>>
    BY <1>4, Zenon DEF Enqueue
  <2>2. given' \subseteq Events
    BY <1>1, <1>4, DropsEvents
  <2> QED
    BY <2>1, <2>2 DEF MoreTypes
<1>5. ASSUME NEW s \in Sources, Drain(s) \/ Close(s) \/ CloseReturns(s) \/ Returns(s)
      PROVE  MoreTypes'
  <2>1. UNCHANGED <<ring, clk, restarts, given>>
    BY <1>5 DEF Drain, Close, CloseReturns, Returns
  <2> QED
    BY <2>1 DEF MoreTypes
<1>6. ASSUME NEW s \in Sources, PostFails(s) PROVE MoreTypes'
  <2>1. UNCHANGED <<ring, clk, restarts>> /\ chain[s] # <<>>
        /\ given' = given \cup ToSet(Head(chain[s]))
    BY <1>6 DEF PostFails
  <2>2. ToSet(Head(chain[s])) \subseteq Events
    BY <1>2, <2>1, FirstOfEvents
  <2> QED
    BY <2>1, <2>2 DEF MoreTypes
<1>7. ASSUME NEW s \in Sources, Arrives(s) PROVE MoreTypes'
  <2>1. UNCHANGED <<clk, restarts, given>> /\ chain[s] # <<>> /\ Ingest(Head(chain[s]))
    BY <1>7 DEF Arrives
  <2>2. Head(chain[s]) \in Seq(Events)
    BY <1>2, <2>1
  <2>3. Len(ring') <= RingMax
    BY <1>1, <2>1, <2>2, IngestKeepsShort
  <2> QED
    BY <2>1, <2>3 DEF MoreTypes
<1>8. ASSUME NEW b \in late, LateArrives(b) PROVE MoreTypes'
  <2>1. UNCHANGED <<clk, restarts, given>> /\ Ingest(b)
    BY <1>8 DEF LateArrives
  <2>2. b \in Seq(Events)
    BY <1>1 DEF RingTypes
  <2>3. Len(ring') <= RingMax
    BY <1>1, <2>1, <2>2, IngestKeepsShort
  <2> QED
    BY <2>1, <2>3 DEF MoreTypes
<1>9. ASSUME NEW b \in appends, AppendLands(b) \/ AppendFails(b) PROVE MoreTypes'
  BY <1>9 DEF AppendLands, AppendFails, MoreTypes
<1>10. ASSUME BootStarts \/ BootFails PROVE MoreTypes'
  BY <1>10 DEF BootStarts, BootFails, MoreTypes
<1>11. ASSUME BootReads PROVE MoreTypes'
  <2>1. UNCHANGED <<clk, restarts, given>>
    BY <1>11, Zenon DEF BootReads
  <2>2. Len(ring') <= RingMax
    BY <1>1, <1>11, BootReadsShort
  <2> QED
    BY <2>1, <2>2 DEF MoreTypes
<1>12. ASSUME Passes PROVE MoreTypes'
  <2>1. clk' = clk + 1 /\ clk < MaxClk /\ UNCHANGED <<ring, restarts, given>>
    BY <1>12 DEF Passes
  <2> QED
    BY <1>3, <2>1 DEF MoreTypes
<1>13. ASSUME Restarts PROVE MoreTypes'
  <2>1. ring' = <<>> /\ clk' = clk /\ restarts' = restarts + 1 /\ restarts < MaxRestarts
    BY <1>13, Zenon DEF Restarts
  <2>2. given' \subseteq Events
    BY <1>13, RestartGivesEvents
  <2>3. Len(ring') = 0
    BY <2>1
  <2> QED
    BY <1>3, <2>1, <2>2, <2>3 DEF MoreTypes
<1>14. ASSUME UNCHANGED telemetryVars PROVE MoreTypes'
  BY <1>14 DEF telemetryVars, MoreTypes
<1> QED
  BY <1>4, <1>5, <1>6, <1>7, <1>8, <1>9, <1>10, <1>11, <1>12, <1>13, <1>14 DEF TelemetryNext

(* The types of Telemetry: in particular, the hub's ring never holds more  *)
(* than maxEvents, by whatever way events come into it - a batch, a late   *)
(* one, or a replay (ingest, prune, boot) - and what is dropped or given   *)
(* to onError is events.                                                   *)
THEOREM TelemetryTypeCorrect == TelemetrySpec => []TelemetryTypeOK
<1>1. RingInv /\ MoreTypes => TelemetryTypeOK
  BY DEF RingInv, RingTypes, DeliveryTypes, Boots, MoreTypes, TelemetryTypeOK
<1> QED
  BY <1>1, TelemetryInitInv, TelemetryStepInv, RingInitInv, RingStepInv, MoreInit, MoreStep, PTL
  DEF TelemetrySpec
=============================================================================
