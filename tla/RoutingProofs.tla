---------------------------- MODULE RoutingProofs ----------------------------
(***************************************************************************)
(* Proofs about RouterFailover, for any number of requests, decisions,     *)
(* candidates, attempts and retries; about VideoRouter, for any number of  *)
(* calls and of providers; about TierJudgment, for any requests, answers   *)
(* and size of the cache; and about StreamTranslation, for any number of   *)
(* tool calls and of pieces.                                               *)
(***************************************************************************)
EXTENDS RouterFailover, VideoRouter, TierJudgment, StreamTranslation,
        FiniteSetTheorems, SequenceTheorems, SumTheorems, TLAPS

-----------------------------------------------------------------------------
(* RouterFailover.                                                         *)

(* What a request knows, as a relation of its parts: a plan p, a current   *)
(* index a, t retries, the calls c and the senders s among them.           *)
LimitOf(k, p) ==
  IF k = "bounded" \/ Len(p) = 0 THEN 1
  ELSE IF Len(p) < MaxAttempts THEN Len(p) ELSE MaxAttempts

Live == {"trying", "answered", "backoff"}

Ordered(p) == \A i, j \in DOMAIN p : Before(p[i], p[j]) => i < j

Fallback(p, c) ==
  \A j \in DOMAIN c : \A i \in DOMAIN p :
    Before(p[i], c[j]) => \E h \in 1 .. j - 1 : c[h] = p[i]

Walked(p, n, c) == \A i \in 1 .. n : \E j \in DOMAIN c : c[j] = p[i]

CallLimit(k, p) == IF k = "bounded" THEN 1 ELSE LimitOf(k, p) * (MaxRetries + 1)

Underway(k, p, a, t, c) ==
  /\ p # <<>>
  /\ a \in 1 .. LimitOf(k, p)
  /\ Walked(p, a, c)
  /\ Len(c) <= (a - 1) * (MaxRetries + 1) + t + 1

Good(k, ph, p, a, t, c, s, e) ==
  /\ Ordered(p)
  /\ Fallback(p, c)
  /\ Len(c) <= CallLimit(k, p)
  /\ \A i \in s : i = Len(c)
  /\ k = "bounded" => t = 0
  /\ ph \in Live => Underway(k, p, a, t, c)
  /\ ph \in {"idle", "planning"} => c = <<>> /\ a = 1 /\ t = 0 /\ s = {}
  /\ ph = "backoff" => t < MaxRetries /\ k # "bounded" /\ s = {}
  /\ ph = "failed" /\ e \in {"retryable", "timeout"} /\ s = {} => Walked(p, LimitOf(k, p), c)

GoodRequest(r) ==
  Good(kind[r], phase[r], plan[r], attempt[r], tries[r], calls[r], senders[r], error[r])

RouterInv == TypeOK /\ \A r \in Requests : GoodRequest(r)

-----------------------------------------------------------------------------
(* About plans.                                                            *)

(* A plan is a sequence of decisions in the router's order.                *)
LEMMA PlansAreOrdered ==
  ASSUME NEW s \in Plans \cup Pins
  PROVE  s \in Seq(Decisions) /\ Ordered(s)
<1>1. CASE s \in Pins
  <2>1. PICK d \in Decisions : s = <<d>>
    BY <1>1 DEF Pins
  <2>2. ~Before(d, d)
    BY DEF Before
  <2> QED
    BY <2>1, <2>2 DEF Ordered
<1>2. CASE s \in Plans
  <2> DEFINE D == {d \in Decisions : IsAvailable(CandidateOf[d])}
  <2>1. Cardinality(D) \in Nat
    BY RouterAssumption, FS_Subset, FS_CardinalityType
  <2>2. s \in [1 .. Cardinality(D) -> D]
    BY <1>2 DEF Plans, SetToSeqs
  <2>3. s \in Seq(Decisions)
    <3> HIDE DEF D
    <3>1. D \subseteq Decisions
      BY DEF D
    <3> QED
      BY <2>1, <2>2, <3>1
  <2>4. Ordered(s)
    BY <1>2 DEF Plans, Ordered
  <2> QED
    BY <2>3, <2>4
<1> QED
  BY <1>1, <1>2

LEMMA LimitInPlan ==
  ASSUME NEW k, NEW p \in Seq(Decisions), p # <<>>
  PROVE  LimitOf(k, p) \in 1 .. Len(p)
BY RouterAssumption DEF LimitOf

(* Calling a decision of the plan after all those before it.               *)
LEMMA CallInOrder ==
  ASSUME NEW p \in Seq(Decisions), NEW c \in Seq(Decisions), NEW b \in 1 .. Len(p),
         Ordered(p), Fallback(p, c), Walked(p, b - 1, c)
  PROVE  /\ Append(c, p[b]) \in Seq(Decisions)
         /\ Len(Append(c, p[b])) = Len(c) + 1
         /\ Fallback(p, Append(c, p[b]))
         /\ Walked(p, b, Append(c, p[b]))
<1> DEFINE n == Append(c, p[b])
<1>1. n \in Seq(Decisions) /\ Len(n) = Len(c) + 1 /\ n[Len(c) + 1] = p[b]
      /\ \A j \in 1 .. Len(c) : n[j] = c[j]
  OBVIOUS
<1>2. DOMAIN c = 1 .. Len(c) /\ DOMAIN n = 1 .. Len(c) + 1 /\ DOMAIN p = 1 .. Len(p)
      /\ Len(c) \in Nat
  BY <1>1
<1> HIDE DEF n
<1>3. Walked(p, b, n)
  <2> SUFFICES ASSUME NEW i \in 1 .. b PROVE \E j \in DOMAIN n : n[j] = p[i]
    BY DEF Walked
  <2>1. CASE i = b
    BY <1>1, <1>2, <2>1
  <2>2. CASE i # b
    <3>1. PICK j \in DOMAIN c : c[j] = p[i]
      BY <2>2 DEF Walked
    <3> QED
      BY <1>1, <1>2, <3>1
  <2> QED
    BY <2>1, <2>2
<1>4. Fallback(p, n)
  <2> SUFFICES ASSUME NEW j \in DOMAIN n, NEW i \in DOMAIN p, Before(p[i], n[j])
               PROVE  \E h \in 1 .. j - 1 : n[h] = p[i]
    BY DEF Fallback
  <2>1. CASE j \in DOMAIN c
    <3>1. PICK h \in 1 .. j - 1 : c[h] = p[i]
      BY <1>1, <1>2, <2>1 DEF Fallback
    <3> QED
      BY <1>1, <1>2, <2>1, <3>1
  <2>2. CASE j = Len(c) + 1
    <3>1. i < b
      BY <1>1, <1>2, <2>2 DEF Ordered
    <3>2. PICK h \in DOMAIN c : c[h] = p[i]
      BY <1>2, <3>1 DEF Walked
    <3> QED
      BY <1>1, <1>2, <2>2, <3>2
  <2> QED
    BY <1>2, <2>1, <2>2
<1> QED
  BY <1>1, <1>3, <1>4 DEF n

(* The calls made so far are within the limit.                             *)
LEMMA WithinLimit ==
  ASSUME NEW L \in Nat, NEW a \in 1 .. L, NEW t \in 0 .. MaxRetries, NEW n \in Nat,
         n <= (a - 1) * (MaxRetries + 1) + t + 1
  PROVE  n <= L * (MaxRetries + 1)
<1> DEFINE m == MaxRetries + 1
<1>1. m \in Nat /\ t + 1 <= m
  BY RouterAssumption
<1>2. (a - 1) * m + m = a * m
  <2> HIDE DEF m
  <2> QED
    BY <1>1
<1>3. a * m <= L * m
  <2> HIDE DEF m
  <2>1. L * m = a * m + (L - a) * m /\ (L - a) * m >= 0
    BY <1>1
  <2> QED
    BY <1>1, <2>1
<1>4. (a - 1) * m \in Int /\ a * m \in Int /\ L * m \in Int
  <2> HIDE DEF m
  <2> QED
    BY <1>1
<1>5. n <= (a - 1) * m + t + 1
  OBVIOUS
<1> HIDE DEF m
<1>6. n <= L * m
  BY <1>1, <1>2, <1>3, <1>4, <1>5
<1> QED
  BY <1>6 DEF m

-----------------------------------------------------------------------------
(* Steps: what each does to its own request, and that it leaves the others *)
(* alone.                                                                  *)

Frame(q) ==
  /\ kind'[q] = kind[q] /\ phase'[q] = phase[q] /\ plan'[q] = plan[q]
  /\ attempt'[q] = attempt[q] /\ tries'[q] = tries[q] /\ calls'[q] = calls[q]
  /\ senders'[q] = senders[q] /\ error'[q] = error[q]

StepOf(r) == TypeOK' /\ GoodRequest(r)' /\ \A q \in Requests \ {r} : Frame(q)

LEMMA FailureTyped ==
  ASSUME HealthTypeOK, NEW p \in Candidates, RecordFailure(p)
  PROVE  HealthTypeOK'
BY DEF HealthTypeOK, RecordFailure

LEMMA SuccessTyped ==
  ASSUME HealthTypeOK, NEW p \in Candidates, RecordSuccess(p)
  PROVE  HealthTypeOK'
BY DEF HealthTypeOK, RecordSuccess, healthVars

(* A request under way stands on a decision of its plan.                   *)
LEMMA OnPlan ==
  ASSUME RouterInv, NEW r \in Requests, phase[r] \in Live
  PROVE  /\ plan[r] \in Seq(Decisions) /\ plan[r] # <<>> /\ calls[r] \in Seq(Decisions)
         /\ LimitOf(kind[r], plan[r]) \in 1 .. Len(plan[r])
         /\ attempt[r] \in 1 .. LimitOf(kind[r], plan[r])
         /\ attempt[r] \in 1 .. Len(plan[r])
         /\ Current(r) \in Decisions /\ Provider(r) \in Candidates
<1>1. plan[r] \in Seq(Decisions) /\ calls[r] \in Seq(Decisions)
  BY DEF RouterInv, TypeOK
<1>2. plan[r] # <<>> /\ attempt[r] \in 1 .. LimitOf(kind[r], plan[r])
  BY DEF RouterInv, GoodRequest, Good, Underway
<1>3. LimitOf(kind[r], plan[r]) \in 1 .. Len(plan[r])
  BY <1>1, <1>2, LimitInPlan
<1>4. attempt[r] \in 1 .. Len(plan[r])
  BY <1>1, <1>2, <1>3
<1> QED
  BY <1>1, <1>2, <1>3, <1>4, RouterAssumption DEF Current, Provider

LEMMA LookupStep ==
  ASSUME RouterInv, NEW r \in Requests, Lookup(r)
  PROVE  StepOf(r)
<1>1. TypeOK'
  BY DEF RouterInv, TypeOK, Lookup, Goto, healthVars, HealthTypeOK, Phases, Ended
<1>2. GoodRequest(r)'
  BY DEF RouterInv, TypeOK, GoodRequest, Good, Lookup, Goto, Live
<1>3. \A q \in Requests \ {r} : Frame(q)
  BY DEF RouterInv, TypeOK, Frame, Lookup, Goto
<1> QED
  BY <1>1, <1>2, <1>3 DEF StepOf

LEMMA ContentStep ==
  ASSUME RouterInv, NEW r \in Requests, Content(r)
  PROVE  StepOf(r)
<1>0. Len(calls[r]) \in Nat
  BY DEF RouterInv, TypeOK
<1>1. TypeOK'
  BY <1>0 DEF RouterInv, TypeOK, Content, healthVars, HealthTypeOK
<1>2. GoodRequest(r)'
  <2>1. senders'[r] = senders[r] \cup {Len(calls[r])}
    BY DEF RouterInv, TypeOK, Content
  <2> QED
    BY <2>1 DEF RouterInv, TypeOK, GoodRequest, Good, Content, Live
<1>3. \A q \in Requests \ {r} : Frame(q)
  BY DEF RouterInv, TypeOK, Frame, Content
<1> QED
  BY <1>1, <1>2, <1>3 DEF StepOf

LEMMA AnswerStep ==
  ASSUME RouterInv, NEW r \in Requests, Answer(r)
  PROVE  StepOf(r)
<1>1. TypeOK'
  BY DEF RouterInv, TypeOK, Answer, Goto, healthVars, HealthTypeOK, Phases
<1>2. GoodRequest(r)'
  BY DEF RouterInv, TypeOK, GoodRequest, Good, Answer, Goto, Live
<1>3. \A q \in Requests \ {r} : Frame(q)
  BY DEF RouterInv, TypeOK, Frame, Answer, Goto
<1> QED
  BY <1>1, <1>2, <1>3 DEF StepOf

LEMMA CompleteStep ==
  ASSUME RouterInv, NEW r \in Requests, Complete(r)
  PROVE  StepOf(r)
<1>0. HealthTypeOK'
  <2>1. Provider(r) \in Candidates
    BY OnPlan DEF Complete, Live
  <2> QED
    BY <2>1, SuccessTyped DEF RouterInv, TypeOK, Complete
<1>1. TypeOK'
  BY <1>0 DEF RouterInv, TypeOK, Complete, Goto, Phases, Ended
<1>2. GoodRequest(r)'
  BY DEF RouterInv, TypeOK, GoodRequest, Good, Complete, Goto, Live
<1>3. \A q \in Requests \ {r} : Frame(q)
  BY DEF RouterInv, TypeOK, Frame, Complete, Goto
<1> QED
  BY <1>1, <1>2, <1>3 DEF StepOf

LEMMA ClientAbortsStep ==
  ASSUME RouterInv, NEW r \in Requests, ClientAborts(r)
  PROVE  StepOf(r)
<1>1. TypeOK'
  BY DEF RouterInv, TypeOK, ClientAborts, healthVars, HealthTypeOK
<1>2. GoodRequest(r)'
  BY DEF RouterInv, TypeOK, GoodRequest, Good, ClientAborts, Live
<1>3. \A q \in Requests \ {r} : Frame(q)
  BY DEF RouterInv, TypeOK, Frame, ClientAborts
<1> QED
  BY <1>1, <1>2, <1>3 DEF StepOf

LEMMA AbortEndsStep ==
  ASSUME RouterInv, NEW r \in Requests, AbortEnds(r)
  PROVE  StepOf(r)
<1>1. TypeOK'
  BY DEF RouterInv, TypeOK, AbortEnds, EndWith, Goto, healthVars, HealthTypeOK, Phases,
         Ended, Errors
<1>2. GoodRequest(r)'
  BY DEF RouterInv, TypeOK, GoodRequest, Good, AbortEnds, EndWith, Goto, Live
<1>3. \A q \in Requests \ {r} : Frame(q)
  BY DEF RouterInv, TypeOK, Frame, AbortEnds, EndWith, Goto
<1> QED
  BY <1>1, <1>2, <1>3 DEF StepOf

(* The first call of a plan.                                               *)
LEMMA FirstCall ==
  ASSUME NEW k, NEW p \in Seq(Decisions), p # <<>>, Ordered(p)
  PROVE  /\ Head(p) \in Decisions
         /\ <<Head(p)>> \in Seq(Decisions)
         /\ Fallback(p, <<Head(p)>>)
         /\ Underway(k, p, 1, 0, <<Head(p)>>)
         /\ Len(<<Head(p)>>) <= CallLimit(k, p)
<1>1. Len(p) \in Nat /\ 1 \in 1 .. Len(p) /\ p[1] = Head(p) /\ Head(p) \in Decisions
  OBVIOUS
<1>2. LimitOf(k, p) \in 1 .. Len(p)
  BY LimitInPlan
<1>3. Append(<<>>, p[1]) = <<Head(p)>>
  BY <1>1
<1>4. Fallback(p, <<>>) /\ Walked(p, 1 - 1, <<>>)
  BY DEF Fallback, Walked
<1>5. Fallback(p, <<Head(p)>>) /\ Walked(p, 1, <<Head(p)>>)
  <2>1. Fallback(p, Append(<<>>, p[1])) /\ Walked(p, 1, Append(<<>>, p[1]))
    <3>1. <<>> \in Seq(Decisions)
      OBVIOUS
    <3> QED
      BY <1>1, <1>4, <3>1, CallInOrder
  <2> QED
    BY <1>3, <2>1
<1>6. 1 \in 1 .. LimitOf(k, p) /\ LimitOf(k, p) \in Nat
  BY <1>1, <1>2
<1>7. 1 <= (1 - 1) * (MaxRetries + 1) + 0 + 1
  BY RouterAssumption
<1>8. Underway(k, p, 1, 0, <<Head(p)>>)
  BY <1>1, <1>5, <1>6, <1>7, RouterAssumption DEF Underway
<1>9. 1 <= CallLimit(k, p)
  <2>1. 0 \in 0 .. MaxRetries /\ 1 \in Nat
    BY RouterAssumption
  <2>2. 1 <= LimitOf(k, p) * (MaxRetries + 1)
    BY <1>6, <1>7, <2>1, WithinLimit
  <2> QED
    BY <2>2 DEF CallLimit
<1> QED
  BY <1>1, <1>5, <1>8, <1>9

LEMMA PlanRouteStep ==
  ASSUME RouterInv, NEW r \in Requests, PlanRoute(r)
  PROVE  StepOf(r)
<1>1. PICK s \in Plans \cup Pins :
        /\ plan' = [plan EXCEPT ![r] = s]
        /\ \/ s = <<>> /\ EndWith(r, "no_model")
           \/ s # <<>> /\ Invoke(r, Head(s)) /\ UNCHANGED <<attempt, tries, error>>
  BY DEF PlanRoute
<1>2. s \in Seq(Decisions) /\ Ordered(s)
  BY PlansAreOrdered
<1>3. UNCHANGED <<healthVars, kind, senders, aborted, cached>>
  BY DEF PlanRoute
<1>4. plan' \in [Requests -> Seq(Decisions)] /\ plan'[r] = s
      /\ \A q \in Requests \ {r} : plan'[q] = plan[q]
  BY <1>1, <1>2 DEF RouterInv, TypeOK
<1>5. calls[r] = <<>> /\ attempt[r] = 1 /\ tries[r] = 0 /\ senders[r] = {}
  BY DEF PlanRoute, RouterInv, GoodRequest, Good
<1>6. CASE s = <<>> /\ EndWith(r, "no_model")
  <2>1. TypeOK'
    BY <1>3, <1>4, <1>6 DEF RouterInv, TypeOK, EndWith, Goto, healthVars, HealthTypeOK,
       Phases, Ended, Errors
  <2>2. GoodRequest(r)'
    <3>1. Fallback(s, <<>>) /\ Len(<<>>) <= CallLimit(kind[r], s)
      BY <1>6, RouterAssumption DEF Fallback, CallLimit, LimitOf
    <3>2. /\ kind'[r] = kind[r] /\ phase'[r] = "failed" /\ plan'[r] = s /\ tries'[r] = 0
          /\ attempt'[r] = 1 /\ calls'[r] = <<>> /\ senders'[r] = {}
          /\ error'[r] = "no_model"
      BY <1>3, <1>4, <1>5, <1>6 DEF RouterInv, TypeOK, EndWith, Goto
    <3> QED
      BY <1>2, <3>1, <3>2 DEF GoodRequest, Good, Live
  <2>3. \A q \in Requests \ {r} : Frame(q)
    BY <1>3, <1>4, <1>6 DEF RouterInv, TypeOK, Frame, EndWith, Goto
  <2> QED
    BY <2>1, <2>2, <2>3 DEF StepOf
<1>7. CASE s # <<>> /\ Invoke(r, Head(s)) /\ UNCHANGED <<attempt, tries, error>>
  <2>0. /\ Head(s) \in Decisions /\ <<Head(s)>> \in Seq(Decisions)
        /\ Fallback(s, <<Head(s)>>) /\ Underway(kind[r], s, 1, 0, <<Head(s)>>)
        /\ Len(<<Head(s)>>) <= CallLimit(kind[r], s)
    BY <1>2, <1>7, FirstCall
  <2>1. TypeOK'
    <3>1. calls' \in [Requests -> Seq(Decisions)]
      BY <1>7, <2>0 DEF RouterInv, TypeOK, Invoke
    <3> QED
      BY <1>3, <1>4, <1>7, <3>1 DEF RouterInv, TypeOK, Invoke, Goto, healthVars, HealthTypeOK,
         Phases
  <2>2. GoodRequest(r)'
    <3>1. Append(calls[r], Head(s)) = <<Head(s)>>
      BY <1>5
    <3>2. /\ kind'[r] = kind[r] /\ phase'[r] = "trying" /\ plan'[r] = s /\ tries'[r] = 0
          /\ attempt'[r] = 1 /\ calls'[r] = <<Head(s)>> /\ senders'[r] = {}
      BY <1>3, <1>4, <1>5, <1>7, <3>1 DEF RouterInv, TypeOK, Invoke, Goto
    <3> QED
      BY <1>2, <2>0, <3>2 DEF GoodRequest, Good, Live
  <2>3. \A q \in Requests \ {r} : Frame(q)
    BY <1>3, <1>4, <1>7 DEF RouterInv, TypeOK, Frame, Invoke, Goto
  <2> QED
    BY <2>1, <2>2, <2>3 DEF StepOf
<1> QED
  BY <1>1, <1>6, <1>7

(* One more call: of the decision a request stands on, or of the next one. *)
LEMMA OneMoreCall ==
  ASSUME NEW k, NEW p \in Seq(Decisions), p # <<>>, Ordered(p),
         NEW c \in Seq(Decisions), Fallback(p, c),
         NEW b \in 1 .. LimitOf(k, p), Walked(p, b - 1, c),
         NEW t \in 0 .. MaxRetries, k # "bounded",
         Len(c) <= (b - 1) * (MaxRetries + 1) + t
  PROVE  /\ p[b] \in Decisions
         /\ Append(c, p[b]) \in Seq(Decisions)
         /\ Fallback(p, Append(c, p[b]))
         /\ Underway(k, p, b, t, Append(c, p[b]))
         /\ Len(Append(c, p[b])) <= CallLimit(k, p)
<1>1. LimitOf(k, p) \in 1 .. Len(p) /\ Len(p) \in Nat
  BY LimitInPlan
<1>2. b \in 1 .. Len(p)
  BY <1>1
<1> DEFINE n == Append(c, p[b])
<1>3. n \in Seq(Decisions) /\ Len(n) = Len(c) + 1 /\ Fallback(p, n) /\ Walked(p, b, n)
  BY <1>2, CallInOrder
<1>4. Len(n) <= (b - 1) * (MaxRetries + 1) + t + 1 /\ Len(n) \in Nat
  <2> DEFINE x == (b - 1) * (MaxRetries + 1)
  <2>1. x \in Int
    BY <1>2, RouterAssumption
  <2>2. Len(c) <= x + t /\ Len(c) \in Nat
    OBVIOUS
  <2> HIDE DEF x, n
  <2>3. Len(n) <= x + t + 1
    BY <1>3, <2>1, <2>2, RouterAssumption
  <2> QED
    BY <1>3, <2>2, <2>3 DEF x
<1> HIDE DEF n
<1>5. Underway(k, p, b, t, n)
  BY <1>3, <1>4 DEF Underway
<1>6. Len(n) <= LimitOf(k, p) * (MaxRetries + 1)
  BY <1>1, <1>4, WithinLimit
<1>7. Len(n) <= CallLimit(k, p)
  BY <1>6 DEF CallLimit
<1> QED
  BY <1>2, <1>3, <1>5, <1>7 DEF n

LEMMA WakeStep ==
  ASSUME RouterInv, NEW r \in Requests, Wake(r)
  PROVE  StepOf(r)
<1> DEFINE p == plan[r]
           c == calls[r]
           t == tries[r] + 1
           a == attempt[r]
           n == Append(c, p[a])
<1>1. /\ p \in Seq(Decisions) /\ p # <<>> /\ c \in Seq(Decisions)
      /\ a \in 1 .. LimitOf(kind[r], p)
  BY OnPlan DEF Wake, Live
<1>2. /\ Ordered(p) /\ Fallback(p, c) /\ Walked(p, a, c)
      /\ Len(c) <= (a - 1) * (MaxRetries + 1) + tries[r] + 1
  BY DEF RouterInv, GoodRequest, Good, Underway, Wake, Live
<1>3. tries[r] < MaxRetries /\ kind[r] # "bounded" /\ senders[r] = {}
  BY DEF RouterInv, GoodRequest, Good, Wake
<1>4. t \in 0 .. MaxRetries /\ tries[r] \in 0 .. MaxRetries
  BY <1>3, RouterAssumption DEF RouterInv, TypeOK
<1>5. Len(c) <= (a - 1) * (MaxRetries + 1) + t
  <2> DEFINE x == (a - 1) * (MaxRetries + 1)
  <2>1. LimitOf(kind[r], p) \in Nat
    BY <1>1, LimitInPlan
  <2>2. x \in Int
    BY <1>1, <2>1, RouterAssumption
  <2>3. Len(c) <= x + tries[r] + 1 /\ Len(c) \in Nat
    BY <1>1, <1>2
  <2>4. tries[r] \in Nat
    BY <1>4, RouterAssumption
  <2> HIDE DEF x, c, a
  <2>5. Len(c) <= x + (tries[r] + 1)
    BY <2>2, <2>3, <2>4
  <2> QED
    BY <2>5 DEF x
<1>6. Walked(p, a - 1, c)
  <2>1. LimitOf(kind[r], p) \in Nat
    BY <1>1, LimitInPlan
  <2> HIDE DEF p, c, a
  <2> QED
    BY <1>1, <1>2, <2>1 DEF Walked
<1>7. /\ p[a] \in Decisions /\ n \in Seq(Decisions) /\ Fallback(p, n)
      /\ Underway(kind[r], p, a, t, n) /\ Len(n) <= CallLimit(kind[r], p)
  <2> HIDE DEF p, c, a, t
  <2> QED
    BY <1>1, <1>2, <1>3, <1>4, <1>5, <1>6, OneMoreCall
<1>8. /\ Goto(r, "trying") /\ tries' = [tries EXCEPT ![r] = t]
      /\ calls' = [calls EXCEPT ![r] = n]
      /\ UNCHANGED <<healthVars, kind, plan, attempt, senders, aborted, error, cached>>
  BY DEF Wake, Invoke, Current
<1> HIDE DEF p, c, t, a, n
<1>9. TypeOK'
  BY <1>4, <1>7, <1>8 DEF RouterInv, TypeOK, Goto, healthVars, HealthTypeOK, Phases
<1>10. GoodRequest(r)'
  <2>1. /\ kind'[r] = kind[r] /\ phase'[r] = "trying" /\ plan'[r] = p /\ tries'[r] = t
        /\ attempt'[r] = a /\ calls'[r] = n /\ senders'[r] = {}
    BY <1>3, <1>8 DEF RouterInv, TypeOK, Goto, p, a
  <2> QED
    BY <1>2, <1>3, <1>7, <2>1 DEF GoodRequest, Good, Live
<1>11. \A q \in Requests \ {r} : Frame(q)
  BY <1>8 DEF RouterInv, TypeOK, Frame, Goto
<1> QED
  BY <1>9, <1>10, <1>11 DEF StepOf

(* The catch block, whatever the request failed with.                      *)
LEMMA CatchStep ==
  ASSUME RouterInv, NEW r \in Requests, NEW e \in {"retryable", "timeout", "fatal"},
         phase[r] \in {"trying", "answered"}, Catch(r, e)
  PROVE  StepOf(r)
<1> DEFINE p == plan[r]
           c == calls[r]
           a == attempt[r]
           l == LimitOf(kind[r], p)
<1>1. /\ p \in Seq(Decisions) /\ p # <<>> /\ c \in Seq(Decisions)
      /\ l \in 1 .. Len(p) /\ a \in 1 .. l
      /\ Provider(r) \in Candidates
  BY OnPlan DEF Live
<1>2. /\ Ordered(p) /\ Fallback(p, c) /\ Walked(p, a, c) /\ Len(c) <= CallLimit(kind[r], p)
      /\ Len(c) <= (a - 1) * (MaxRetries + 1) + tries[r] + 1
      /\ \A i \in senders[r] : i = Len(c)
      /\ kind[r] = "bounded" => tries[r] = 0
  BY DEF RouterInv, GoodRequest, Good, Underway, Live
<1>3. HealthTypeOK'
  BY <1>1, FailureTyped DEF RouterInv, TypeOK, Catch
<1>4. UNCHANGED <<kind, plan, senders, aborted, cached>>
  BY DEF Catch
<1>5. l = AttemptLimit(r)
  BY DEF AttemptLimit, LimitOf
<1>6. l \in Nat /\ a \in Nat
  BY <1>1
<1>7. CASE ShouldRetry(r, e) /\ Retry(r)
  <2>1. TypeOK'
    BY <1>3, <1>4, <1>7 DEF RouterInv, TypeOK, Retry, Goto, Phases
  <2>2. GoodRequest(r)'
    <3>1. /\ kind'[r] = kind[r] /\ phase'[r] = "backoff" /\ plan'[r] = p
          /\ tries'[r] = tries[r] /\ attempt'[r] = a /\ calls'[r] = c /\ senders'[r] = {}
      BY <1>4, <1>7 DEF RouterInv, TypeOK, Retry, Goto, ShouldRetry, Committed
    <3>2. tries[r] < MaxRetries /\ kind[r] # "bounded"
      BY <1>7 DEF ShouldRetry
    <3> HIDE DEF p, c, a, l
    <3> QED
      BY <1>1, <1>2, <3>1, <3>2 DEF GoodRequest, Good, Live, Underway, l
  <2>3. \A q \in Requests \ {r} : Frame(q)
    BY <1>4, <1>7 DEF RouterInv, TypeOK, Frame, Retry, Goto
  <2> QED
    BY <2>1, <2>2, <2>3 DEF StepOf
<1>8. CASE ShouldFailOver(r, e) /\ FailOver(r)
  <2> DEFINE b == a + 1
             n == Append(c, p[b])
  <2>1. a < l /\ senders[r] = {}
    BY <1>5, <1>8 DEF ShouldFailOver, Committed
  <2>2. kind[r] # "bounded"
    BY <1>6, <2>1, <1>1 DEF LimitOf
  <2>3. b \in 1 .. l /\ b - 1 = a /\ b \in Nat
    <3> HIDE DEF a, l
    <3> QED
      BY <1>6, <2>1
  <2>4. Len(c) <= (b - 1) * (MaxRetries + 1) + 0
    <3> DEFINE m == MaxRetries + 1
    <3>1. m \in Nat /\ tries[r] + 1 <= m /\ tries[r] \in Nat
      BY RouterAssumption DEF RouterInv, TypeOK
    <3>2. (a - 1) * m + m = a * m /\ a * m \in Int /\ (a - 1) * m \in Int
      <4> HIDE DEF m, a
      <4> QED
        BY <1>6, <3>1
    <3>3. Len(c) <= (a - 1) * m + tries[r] + 1 /\ Len(c) \in Nat
      BY <1>1, <1>2
    <3> HIDE DEF m, c, a, b
    <3>4. Len(c) <= a * m
      BY <3>1, <3>2, <3>3
    <3>5. Len(c) <= (b - 1) * m
      BY <2>3, <3>4
    <3>6. (b - 1) * m \in Int
      BY <2>3, <3>2
    <3> QED
      BY <3>5, <3>6 DEF m
  <2>5. /\ p[b] \in Decisions /\ n \in Seq(Decisions) /\ Fallback(p, n)
        /\ Underway(kind[r], p, b, 0, n) /\ Len(n) <= CallLimit(kind[r], p)
    <3>1. b \in 1 .. LimitOf(kind[r], p) /\ Walked(p, b - 1, c)
      <4> HIDE DEF p, c, a, b
      <4> QED
        BY <1>2, <2>3 DEF l
    <3>2. 0 \in 0 .. MaxRetries
      BY RouterAssumption
    <3> HIDE DEF p, c, b
    <3> QED
      BY <1>1, <1>2, <2>2, <2>4, <3>1, <3>2, OneMoreCall
  <2>6. /\ Goto(r, "trying") /\ attempt' = [attempt EXCEPT ![r] = b]
        /\ tries' = [tries EXCEPT ![r] = 0] /\ calls' = [calls EXCEPT ![r] = n]
        /\ UNCHANGED error
    BY <1>8 DEF FailOver, Invoke
  <2> HIDE DEF p, c, a, l, b, n
  <2>7. TypeOK'
    BY <1>3, <1>4, <2>3, <2>5, <2>6, RouterAssumption
       DEF RouterInv, TypeOK, Goto, Phases
  <2>8. GoodRequest(r)'
    <3>1. /\ kind'[r] = kind[r] /\ phase'[r] = "trying" /\ plan'[r] = p /\ tries'[r] = 0
          /\ attempt'[r] = b /\ calls'[r] = n /\ senders'[r] = {}
      BY <1>4, <2>1, <2>6 DEF RouterInv, TypeOK, Goto, p
    <3> QED
      BY <1>2, <2>5, <3>1 DEF GoodRequest, Good, Live
  <2>9. \A q \in Requests \ {r} : Frame(q)
    BY <1>4, <2>6 DEF RouterInv, TypeOK, Frame, Goto
  <2> QED
    BY <2>7, <2>8, <2>9 DEF StepOf
<1>9. CASE ~ShouldRetry(r, e) /\ ~ShouldFailOver(r, e) /\ EndWith(r, e)
  <2>1. TypeOK'
    BY <1>3, <1>4, <1>9 DEF RouterInv, TypeOK, EndWith, Goto, Phases, Ended, Errors
  <2>2. GoodRequest(r)'
    <3>1. /\ kind'[r] = kind[r] /\ phase'[r] = "failed" /\ plan'[r] = p
          /\ tries'[r] = tries[r] /\ attempt'[r] = a /\ calls'[r] = c
          /\ senders'[r] = senders[r] /\ error'[r] = e
      BY <1>4, <1>9 DEF RouterInv, TypeOK, EndWith, Goto
    <3>2. e \in {"retryable", "timeout"} /\ senders[r] = {} => Walked(p, l, c)
      <4>1. e \in {"retryable", "timeout"} /\ senders[r] = {} => ~(a < l)
        BY <1>5, <1>9 DEF ShouldFailOver, Committed
      <4> HIDE DEF p, c, a, l
      <4>2. e \in {"retryable", "timeout"} /\ senders[r] = {} => a = l
        BY <1>1, <1>6, <4>1
      <4> QED
        BY <1>2, <4>2
    <3> HIDE DEF p, c, a
    <3> QED
      BY <1>2, <3>1, <3>2 DEF GoodRequest, Good, Live
  <2>3. \A q \in Requests \ {r} : Frame(q)
    BY <1>4, <1>9 DEF RouterInv, TypeOK, Frame, EndWith, Goto
  <2> QED
    BY <2>1, <2>2, <2>3 DEF StepOf
<1> QED
  BY <1>7, <1>8, <1>9 DEF Catch

-----------------------------------------------------------------------------
(* The invariant.                                                          *)

LEMMA ProceedStep ==
  ASSUME RouterInv, NEW r \in Requests, Proceed(r)
  PROVE  StepOf(r)
<1>1. CASE PlanRoute(r) BY <1>1, PlanRouteStep
<1>2. CASE Answer(r) BY <1>2, AnswerStep
<1>3. CASE Complete(r) BY <1>3, CompleteStep
<1>4. CASE Fails(r)
  <2>1. PICK e \in {"retryable", "fatal"} : Catch(r, e)
    BY <1>4 DEF Fails
  <2>2. phase[r] \in {"trying", "answered"}
    BY <1>4 DEF Fails
  <2> QED
    BY <2>1, <2>2, CatchStep
<1>5. CASE TimesOut(r)
  BY <1>5, CatchStep DEF TimesOut
<1>6. CASE AbortEnds(r) BY <1>6, AbortEndsStep
<1>7. CASE StreamAborted(r)
  BY <1>7, CatchStep DEF StreamAborted
<1>8. CASE Wake(r) BY <1>8, WakeStep
<1> QED
  BY <1>1, <1>2, <1>3, <1>4, <1>5, <1>6, <1>7, <1>8 DEF Proceed

LEMMA InitRouter == Init => RouterInv
<1> SUFFICES ASSUME Init PROVE RouterInv
  OBVIOUS
<1>1. TypeOK
  <2>1. <<>> \in Seq(Decisions)
    OBVIOUS
  <2>2. aborted \in [Requests -> BOOLEAN] /\ cached \in BOOLEAN
    BY Zenon DEF Init
  <2>3. HealthTypeOK
    BY HealthAssumption DEF Init, HealthInit, HealthTypeOK
  <2> QED
    BY <2>1, <2>2, <2>3, RouterAssumption DEF Init, TypeOK, Phases, Errors
<1>2. ASSUME NEW r \in Requests PROVE GoodRequest(r)
  <2>1. Ordered(<<>>) /\ Fallback(<<>>, <<>>)
    BY DEF Ordered, Fallback
  <2>2. Len(<<>>) <= CallLimit(kind[r], <<>>)
    BY RouterAssumption DEF CallLimit, LimitOf
  <2> QED
    BY <2>1, <2>2 DEF Init, GoodRequest, Good, Live
<1> QED
  BY <1>1, <1>2 DEF RouterInv

LEMMA StepRouter == RouterInv /\ [Next]_vars => RouterInv'
<1> SUFFICES ASSUME RouterInv, [Next]_vars PROVE RouterInv'
  OBVIOUS
<1>1. ASSUME NEW q \in Requests, Frame(q) PROVE GoodRequest(q)'
  BY <1>1 DEF RouterInv, Frame, GoodRequest, Good
<1>2. ASSUME NEW r \in Requests, StepOf(r) PROVE RouterInv'
  <2>1. ASSUME NEW q \in Requests PROVE GoodRequest(q)'
    BY <1>1, <1>2 DEF StepOf
  <2> QED
    BY <1>2, <2>1 DEF StepOf, RouterInv
<1>3. ASSUME UNCHANGED <<requestVars, cached>>, HealthTypeOK' PROVE RouterInv'
  <2>1. TypeOK'
    BY <1>3 DEF RouterInv, TypeOK, requestVars
  <2>2. ASSUME NEW q \in Requests PROVE Frame(q)
    BY <1>3 DEF Frame, requestVars
  <2> QED
    BY <1>1, <2>1, <2>2 DEF RouterInv
<1>4. CASE Tick /\ UNCHANGED <<requestVars, cached>>
  BY <1>3, <1>4 DEF Tick, RouterInv, TypeOK, HealthTypeOK
<1>5. CASE UNCHANGED vars
  BY <1>3, <1>5 DEF vars, healthVars, RouterInv, TypeOK, HealthTypeOK
<1>6. ASSUME NEW r \in Requests, Lookup(r) \/ Content(r) \/ ClientAborts(r) \/ Proceed(r)
      PROVE  RouterInv'
  BY <1>2, <1>6, LookupStep, ContentStep, ClientAbortsStep, ProceedStep
<1> QED
  BY <1>4, <1>5, <1>6 DEF Next

LEMMA RouterInvariant == Spec => []RouterInv
<1>1. RouterInv /\ [Next]_vars => RouterInv'
  BY StepRouter
<1> QED
  BY InitRouter, <1>1, PTL DEF Spec

-----------------------------------------------------------------------------
(* Results.                                                                *)

(* Every state of the router is of the declared types: a decision called   *)
(* is one of the plan's, and a retry counter stays within its policy.      *)
THEOREM RouterTypeCorrect == Spec => []TypeOK
<1>1. RouterInv => TypeOK
  BY DEF RouterInv
<1> QED
  BY RouterInvariant, <1>1, PTL

(* Once a call of Router.chatStream has sent content, the request makes no *)
(* other, whatever fails afterwards.                                       *)
THEOREM AlwaysCommittedIsLast == Spec => []CommittedIsLast
<1>1. RouterInv => CommittedIsLast
  BY DEF RouterInv, CommittedIsLast, GoodRequest, Good
<1> QED
  BY RouterInvariant, <1>1, PTL

(* The attempt loop stays within its calls, and a retryable error reaches  *)
(* the caller of an uncommitted request only after every decision within   *)
(* the limit was called.                                                   *)
THEOREM AlwaysLimitIsWalked == Spec => []LimitIsWalked
<1>1. RouterInv => LimitIsWalked
  <2> SUFFICES ASSUME RouterInv, NEW r \in Requests
      PROVE /\ Len(calls[r]) <= IF kind[r] = "bounded" THEN 1
                                ELSE AttemptLimit(r) * (MaxRetries + 1)
            /\ phase[r] = "failed" /\ error[r] \in {"retryable", "timeout"} /\ ~Committed(r)
                 => \A i \in 1 .. AttemptLimit(r) :
                      \E j \in DOMAIN calls[r] : calls[r][j] = plan[r][i]
    BY DEF LimitIsWalked
  <2>1. AttemptLimit(r) = LimitOf(kind[r], plan[r])
    BY DEF AttemptLimit, LimitOf
  <2>2. GoodRequest(r)
    BY DEF RouterInv
  <2> QED
    BY <2>1, <2>2 DEF GoodRequest, Good, CallLimit, Walked, Committed
<1> QED
  BY RouterInvariant, <1>1, PTL

(* Calls follow the plan's order: none on the shared pool before every     *)
(* decision on the caller's own key has been called.                       *)
THEOREM AlwaysFallbackOrder == Spec => []FallbackOrder
<1>1. RouterInv => FallbackOrder
  BY DEF RouterInv, FallbackOrder, GoodRequest, Good, Fallback
<1> QED
  BY RouterInvariant, <1>1, PTL

(* Both at once: the whole plan is walked, in order, before a retryable    *)
(* failure is surfaced.                                                    *)
THEOREM AlwaysPlanIsWalked == Spec => []PlanIsWalked
<1>1. LimitIsWalked /\ FallbackOrder => PlanIsWalked
  BY DEF PlanIsWalked
<1> QED
  BY AlwaysLimitIsWalked, AlwaysFallbackOrder, <1>1, PTL

(* The circuit breaker under any interleaving of requests: no success      *)
(* closes a circuit within its cooldown, and a chat whose client has gone  *)
(* calls no provider and counts no failure of one.                         *)
THEOREM AlwaysCircuitsAreFair == Spec => CircuitsAreFair
<1> DEFINE Closing == \A p \in Candidates :
                        IsOpen(p) /\ openedAt'[p] = Closed => now - openedAt[p] >= Cooldown
           Quiet == \A r \in Requests :
                      Cancelled(r) =>
                        /\ calls'[r] = calls[r]
                        /\ phase'[r] # phase[r] => \A p \in Candidates : failures'[p] <= failures[p]
<1>1. TypeOK /\ [Next]_vars => [Closing /\ Quiet]_vars
  <2> SUFFICES ASSUME TypeOK, Next PROVE Closing /\ Quiet
    OBVIOUS
  <2>1. ASSUME UNCHANGED healthVars PROVE Closing
    BY <2>1 DEF healthVars, IsOpen
  <2>2. ASSUME NEW c, RecordFailure(c) PROVE Closing
    BY <2>2, HealthAssumption DEF RecordFailure, IsOpen, TypeOK, HealthTypeOK
  <2>3. ASSUME NEW c, RecordSuccess(c) PROVE Closing
    BY <2>3 DEF RecordSuccess, IsAvailable, IsOpen, TypeOK, HealthTypeOK, healthVars
  <2>4. ASSUME NEW r \in Requests, NEW e, Catch(r, e) PROVE Closing
    BY <2>2, <2>4 DEF Catch
  <2>5. ASSUME NEW r \in Requests,
               Lookup(r) \/ Content(r) \/ ClientAborts(r) \/ Proceed(r)
        PROVE  Closing
    <3>1. CASE Lookup(r) \/ Content(r) \/ ClientAborts(r) \/ PlanRoute(r) \/ Answer(r)
               \/ AbortEnds(r) \/ Wake(r)
      BY <2>1, <3>1 DEF Lookup, Content, ClientAborts, PlanRoute, Answer, AbortEnds, Wake
    <3>2. CASE Complete(r)
      BY <2>3, <3>2 DEF Complete
    <3>3. CASE Fails(r) \/ TimesOut(r) \/ StreamAborted(r)
      BY <2>4, <3>3 DEF Fails, TimesOut, StreamAborted
    <3> QED
      BY <2>5, <3>1, <3>2, <3>3 DEF Proceed
  <2>6. ASSUME Tick PROVE Closing
    BY <2>6 DEF Tick, IsOpen
  <2>7. Quiet
    <3> SUFFICES ASSUME NEW q \in Requests, Cancelled(q)
                 PROVE  /\ calls'[q] = calls[q]
                        /\ phase'[q] # phase[q] =>
                             \A p \in Candidates : failures'[p] <= failures[p]
      OBVIOUS
    <3>1. ASSUME UNCHANGED healthVars PROVE \A p \in Candidates : failures'[p] <= failures[p]
      BY <3>1 DEF healthVars, TypeOK, HealthTypeOK
    <3>2. ASSUME NEW r \in Requests, NEW e, Catch(r, e), r # q
          PROVE  calls'[q] = calls[q] /\ phase'[q] = phase[q]
      BY <3>2 DEF Catch, TypeOK, Retry, FailOver, EndWith, Invoke, Goto
    <3>3. ASSUME NEW r \in Requests, Lookup(r) \/ Content(r) \/ ClientAborts(r) \/ Answer(r)
                                     \/ AbortEnds(r)
          PROVE  calls'[q] = calls[q] /\ UNCHANGED healthVars
      BY <3>3 DEF Lookup, Content, ClientAborts, Answer, AbortEnds, EndWith
    <3>4. ASSUME NEW r \in Requests, PlanRoute(r) \/ Wake(r)
          PROVE  calls'[q] = calls[q] /\ UNCHANGED healthVars
      <4>1. r # q
        BY <3>4 DEF PlanRoute, Wake
      <4> QED
        BY <3>4, <4>1 DEF PlanRoute, Wake, Invoke, EndWith, Goto, TypeOK
    <3>5. ASSUME NEW r \in Requests, Complete(r)
          PROVE  /\ calls'[q] = calls[q]
                 /\ \A p \in Candidates : failures'[p] <= failures[p]
      <4>1. calls'[q] = calls[q]
        BY <3>5 DEF Complete
      <4>2. \A p \in Candidates : failures'[p] <= failures[p]
        <5> DEFINE o == Provider(r)
        <5>1. RecordSuccess(o) /\ failures \in [Candidates -> Nat]
          BY <3>5 DEF Complete, TypeOK, HealthTypeOK
        <5> HIDE DEF o
        <5>2. \/ failures' = [failures EXCEPT ![o] = 0]
              \/ UNCHANGED healthVars
          BY <5>1 DEF RecordSuccess
        <5> QED
          BY <3>1, <5>1, <5>2
      <4> QED
        BY <4>1, <4>2
    <3>6. ASSUME NEW r \in Requests, Fails(r) \/ TimesOut(r) \/ StreamAborted(r)
          PROVE  calls'[q] = calls[q] /\ phase'[q] = phase[q]
      <4>1. r # q
        BY <3>6 DEF Fails, TimesOut, StreamAborted, Cancelled
      <4> QED
        BY <3>2, <3>6, <4>1 DEF Fails, TimesOut, StreamAborted
    <3>7. CASE Tick /\ UNCHANGED <<requestVars, cached>>
      BY <3>7 DEF Tick, requestVars
    <3> QED
      BY <3>1, <3>3, <3>4, <3>5, <3>6, <3>7 DEF Next, Proceed
  <2> QED
    BY <2>5, <2>6, <2>7 DEF Next
<1> QED
  BY RouterTypeCorrect, <1>1, PTL DEF Spec, CircuitsAreFair

-----------------------------------------------------------------------------
(* The steps that a request has before it.                                 *)

TriesLeft(l, a, t) == (l - a) * (MaxRetries + 1) + MaxRetries - t

Most == 3 * MaxAttempts * (MaxRetries + 1)

StepsOf(ph, l, a, t) ==
  CASE ph = "idle"     -> Most + 2
    [] ph = "planning" -> Most + 1
    [] ph = "trying"   -> 3 * TriesLeft(l, a, t) + 3
    [] ph = "answered" -> 3 * TriesLeft(l, a, t) + 2
    [] ph = "backoff"  -> 3 * TriesLeft(l, a, t) + 1
    [] ph \in Ended    -> 0

LEMMA StepsByPhase ==
  ASSUME NEW ph, NEW l, NEW a, NEW t
  PROVE  /\ ph = "idle" => StepsOf(ph, l, a, t) = Most + 2
         /\ ph = "planning" => StepsOf(ph, l, a, t) = Most + 1
         /\ ph = "trying" => StepsOf(ph, l, a, t) = 3 * TriesLeft(l, a, t) + 3
         /\ ph = "answered" => StepsOf(ph, l, a, t) = 3 * TriesLeft(l, a, t) + 2
         /\ ph = "backoff" => StepsOf(ph, l, a, t) = 3 * TriesLeft(l, a, t) + 1
         /\ ph \in Ended => StepsOf(ph, l, a, t) = 0
BY DEF StepsOf, Ended

(* A retry leaves one try less, a failover fewer, and the first call of a  *)
(* plan no more than the attempts and the retries allow.                   *)
LEMMA TriesRunDown ==
  ASSUME NEW l \in Nat, NEW a \in 1 .. l, NEW t \in 0 .. MaxRetries
  PROVE  /\ TriesLeft(l, a, t) \in Nat
         /\ TriesLeft(l, a, t + 1) = TriesLeft(l, a, t) - 1
         /\ a < l => TriesLeft(l, a + 1, 0) \in Nat /\ TriesLeft(l, a + 1, 0) < TriesLeft(l, a, t)
         /\ l <= MaxAttempts => 3 * TriesLeft(l, 1, 0) + 3 <= Most
<1> DEFINE m == MaxRetries + 1
           d == l - a
<1>1. m \in Nat /\ d \in Nat /\ MaxRetries \in Nat /\ MaxAttempts \in Nat /\ m = MaxRetries + 1
  BY RouterAssumption
<1>2. d * m \in Nat /\ (d - 1) * m = d * m - m
  BY <1>1
<1>3. TriesLeft(l, a, t) = d * m + MaxRetries - t
      /\ TriesLeft(l, a, t + 1) = d * m + MaxRetries - (t + 1)
  BY DEF TriesLeft
<1>4. TriesLeft(l, a + 1, 0) = d * m - m + MaxRetries
  <2>1. l - (a + 1) = d - 1
    OBVIOUS
  <2>2. TriesLeft(l, a + 1, 0) = (d - 1) * m + MaxRetries - 0
    BY <2>1 DEF TriesLeft
  <2> QED
    BY <1>1, <1>2, <2>2
<1>5. a < l => d * m >= m
  <2> SUFFICES ASSUME a < l PROVE d * m >= m
    OBVIOUS
  <2>1. d >= 1
    OBVIOUS
  <2> HIDE DEF d, m
  <2>2. (d - 1) * m >= 0
    BY <1>1, <2>1
  <2> QED
    BY <1>1, <1>2, <2>2
<1>6. l <= MaxAttempts => 3 * TriesLeft(l, 1, 0) + 3 <= Most
  <2> SUFFICES ASSUME l <= MaxAttempts PROVE 3 * TriesLeft(l, 1, 0) + 3 <= Most
    OBVIOUS
  <2>1. TriesLeft(l, 1, 0) = (l - 1) * m + MaxRetries
    BY RouterAssumption DEF TriesLeft
  <2>2. Most = 3 * (MaxAttempts * m)
    BY RouterAssumption DEF Most
  <2> HIDE DEF d, m
  <2>3. (l - 1) * m = l * m - m
    BY <1>1
  <2>4. l * m <= MaxAttempts * m
    BY <1>1
  <2>5. l * m \in Nat /\ MaxAttempts * m \in Nat
    BY <1>1
  <2> QED
    BY <1>1, <2>1, <2>2, <2>3, <2>4, <2>5
<1> HIDE DEF d, m
<1> QED
  BY <1>1, <1>2, <1>3, <1>4, <1>5, <1>6

LEMMA LimitBound ==
  ASSUME NEW k, NEW p \in Seq(Decisions)
  PROVE  LimitOf(k, p) \in 1 .. MaxAttempts
BY RouterAssumption DEF LimitOf

(* What a step may make of a request: its phase, index and retries, under  *)
(* a limit that only planning changes.                                     *)
Move(ph, l, a, t, ph2, l2, a2, t2) ==
  \/ ph = "idle" /\ ph2 \in {"planning", "done"}
  \/ ph = "planning" /\ ph2 = "trying" /\ l2 \in 1 .. MaxAttempts /\ a2 = 1 /\ t2 = 0
  \/ ph # "idle" /\ ph \notin Ended /\ ph2 \in Ended
  \/ /\ l2 = l /\ a2 = a /\ t2 = t
     /\ \/ ph = "trying" /\ ph2 = "answered"
        \/ ph \in {"trying", "answered"} /\ ph2 = "backoff"
  \/ /\ ph = "backoff" /\ ph2 = "trying"
     /\ l2 = l /\ a2 = a /\ t2 = t + 1 /\ t < MaxRetries
  \/ /\ ph \in {"trying", "answered"} /\ ph2 = "trying"
     /\ l2 = l /\ a2 = a + 1 /\ t2 = 0 /\ a < l

LEMMA MovesRunDown ==
  ASSUME NEW ph \in Phases, NEW l \in Nat, NEW a, NEW t \in 0 .. MaxRetries,
         NEW ph2, NEW l2, NEW a2, NEW t2,
         ph \in Live => a \in 1 .. l,
         Move(ph, l, a, t, ph2, l2, a2, t2)
  PROVE  StepsOf(ph2, l2, a2, t2) < StepsOf(ph, l, a, t)
<1>1. Most \in Nat
  BY RouterAssumption DEF Most
<1>2. ph \in Live => TriesLeft(l, a, t) \in Nat
  BY TriesRunDown
<1>3. CASE ph = "idle" /\ ph2 \in {"planning", "done"}
  BY <1>1, <1>3, StepsByPhase DEF Ended
<1>4. CASE ph = "planning" /\ ph2 = "trying" /\ l2 \in 1 .. MaxAttempts /\ a2 = 1 /\ t2 = 0
  <2>1. 3 * TriesLeft(l2, 1, 0) + 3 <= Most /\ TriesLeft(l2, 1, 0) \in Nat
    BY <1>4, TriesRunDown, RouterAssumption
  <2>2. StepsOf(ph2, l2, a2, t2) = 3 * TriesLeft(l2, 1, 0) + 3 /\ StepsOf(ph, l, a, t) = Most + 1
    BY <1>4, StepsByPhase
  <2> QED
    BY <1>1, <2>1, <2>2
<1>5. CASE ph # "idle" /\ ph \notin Ended /\ ph2 \in Ended
  <2>1. StepsOf(ph2, l2, a2, t2) = 0
    BY <1>5, StepsByPhase
  <2>2. CASE ph = "planning"
    BY <1>1, <2>1, <2>2, StepsByPhase
  <2>3. CASE ph \in Live
    BY <1>2, <2>1, <2>3, StepsByPhase DEF Live
  <2> QED
    BY <1>5, <2>2, <2>3 DEF Phases, Live
<1>6. CASE /\ l2 = l /\ a2 = a /\ t2 = t
           /\ \/ ph = "trying" /\ ph2 = "answered"
              \/ ph \in {"trying", "answered"} /\ ph2 = "backoff"
  BY <1>2, <1>6, StepsByPhase DEF Live
<1>7. CASE /\ ph = "backoff" /\ ph2 = "trying"
           /\ l2 = l /\ a2 = a /\ t2 = t + 1 /\ t < MaxRetries
  <2>1. TriesLeft(l, a, t + 1) = TriesLeft(l, a, t) - 1 /\ TriesLeft(l, a, t) \in Nat
    BY <1>7, TriesRunDown DEF Live
  <2>2. StepsOf(ph2, l2, a2, t2) = 3 * TriesLeft(l, a, t + 1) + 3
        /\ StepsOf(ph, l, a, t) = 3 * TriesLeft(l, a, t) + 1
    BY <1>7, StepsByPhase
  <2> QED
    BY <2>1, <2>2
<1>8. CASE /\ ph \in {"trying", "answered"} /\ ph2 = "trying"
           /\ l2 = l /\ a2 = a + 1 /\ t2 = 0 /\ a < l
  <2>1. TriesLeft(l, a + 1, 0) \in Nat /\ TriesLeft(l, a, t) \in Nat
        /\ TriesLeft(l, a + 1, 0) < TriesLeft(l, a, t)
    BY <1>8, TriesRunDown DEF Live
  <2>2. StepsOf(ph2, l2, a2, t2) = 3 * TriesLeft(l, a + 1, 0) + 3
        /\ StepsOf(ph, l, a, t) >= 3 * TriesLeft(l, a, t) + 2
    BY <1>8, <2>1, StepsByPhase
  <2>3. PICK x, y : x = TriesLeft(l, a + 1, 0) /\ y = TriesLeft(l, a, t)
    OBVIOUS
  <2>4. x \in Nat /\ y \in Nat /\ x < y
    BY <2>1, <2>3
  <2>5. StepsOf(ph2, l2, a2, t2) = 3 * x + 3 /\ StepsOf(ph, l, a, t) >= 3 * y + 2
    BY <2>2, <2>3
  <2>6. 3 * x + 3 < 3 * y + 2
    BY <2>4
  <2>7. PICK u, v : u = StepsOf(ph2, l2, a2, t2) /\ v = StepsOf(ph, l, a, t)
    OBVIOUS
  <2>8. v \in Int /\ u \in Int
    BY <1>8, <2>1, <2>5, <2>4, <2>7, StepsByPhase
  <2> QED
    BY <2>4, <2>5, <2>6, <2>7, <2>8
<1> QED
  BY <1>3, <1>4, <1>5, <1>6, <1>7, <1>8 DEF Move

MoveOf(r) ==
  Move(phase[r], LimitOf(kind[r], plan[r]), attempt[r], tries[r],
       phase'[r], LimitOf(kind'[r], plan'[r]), attempt'[r], tries'[r])

StillHas(q) == UNCHANGED <<phase[q], plan[q], attempt[q], tries[q], calls[q]>>

LEMMA MoveCounts ==
  ASSUME RouterInv, NEW r \in Requests, MoveOf(r)
  PROVE  StepsLeft(r)' < StepsLeft(r)
<1>1. /\ StepsLeft(r) = StepsOf(phase[r], LimitOf(kind[r], plan[r]), attempt[r], tries[r])
      /\ StepsLeft(r)' = StepsOf(phase'[r], LimitOf(kind'[r], plan'[r]), attempt'[r], tries'[r])
  BY DEF StepsLeft, StepsOf, AttemptLimit, LimitOf, TriesLeft, Most
<1>2. /\ phase[r] \in Phases /\ plan[r] \in Seq(Decisions) /\ tries[r] \in 0 .. MaxRetries
      /\ phase[r] \in Live => attempt[r] \in 1 .. LimitOf(kind[r], plan[r])
  BY DEF RouterInv, TypeOK, GoodRequest, Good, Underway
<1>3. LimitOf(kind[r], plan[r]) \in Nat
  BY <1>2, LimitBound, RouterAssumption
<1>4. PICK ph, l, a, t : /\ ph = phase[r] /\ l = LimitOf(kind[r], plan[r])
                         /\ a = attempt[r] /\ t = tries[r]
  OBVIOUS
<1>5. PICK ph2, l2, a2, t2 : /\ ph2 = phase'[r] /\ l2 = LimitOf(kind'[r], plan'[r])
                             /\ a2 = attempt'[r] /\ t2 = tries'[r]
  OBVIOUS
<1>6. Move(ph, l, a, t, ph2, l2, a2, t2)
  BY <1>4, <1>5 DEF MoveOf, Move
<1>7. StepsOf(ph2, l2, a2, t2) < StepsOf(ph, l, a, t)
  BY <1>2, <1>3, <1>4, <1>6, MovesRunDown
<1> QED
  BY <1>1, <1>4, <1>5, <1>7

(* A request never has less than no step before it.                        *)
LEMMA StepsAreLeft ==
  ASSUME RouterInv
  PROVE  \A r \in Requests : StepsLeft(r) \in Nat
<1> SUFFICES ASSUME NEW r \in Requests PROVE StepsLeft(r) \in Nat
  OBVIOUS
<1>1. StepsLeft(r) = StepsOf(phase[r], LimitOf(kind[r], plan[r]), attempt[r], tries[r])
  BY DEF StepsLeft, StepsOf, AttemptLimit, LimitOf, TriesLeft, Most
<1>2. /\ phase[r] \in Phases /\ plan[r] \in Seq(Decisions) /\ tries[r] \in 0 .. MaxRetries
      /\ phase[r] \in Live => attempt[r] \in 1 .. LimitOf(kind[r], plan[r])
  BY DEF RouterInv, TypeOK, GoodRequest, Good, Underway
<1>3. LimitOf(kind[r], plan[r]) \in Nat
  BY <1>2, LimitBound, RouterAssumption
<1>4. PICK ph, l, a, t : /\ ph = phase[r] /\ l = LimitOf(kind[r], plan[r])
                         /\ a = attempt[r] /\ t = tries[r]
  OBVIOUS
<1>5. Most \in Nat
  BY RouterAssumption DEF Most
<1>6. ph \in Live => TriesLeft(l, a, t) \in Nat
  BY <1>2, <1>3, <1>4, TriesRunDown
<1>7. ph \in {"idle", "planning"} \cup Live \cup Ended
  BY <1>2, <1>4 DEF Phases, Live, Ended
<1>8. StepsOf(ph, l, a, t) \in Nat
  BY <1>5, <1>6, <1>7, StepsByPhase DEF Live
<1> QED
  BY <1>1, <1>4, <1>8

LEMMA CatchMoves ==
  ASSUME RouterInv, NEW r \in Requests, NEW e, Catch(r, e), phase[r] \in {"trying", "answered"}
  PROVE  MoveOf(r) /\ \A q \in Requests \ {r} : StillHas(q)
<1>1. /\ UNCHANGED <<kind, plan>>
      /\ phase \in [Requests -> Phases] /\ attempt \in [Requests -> Nat]
      /\ tries \in [Requests -> 0 .. MaxRetries] /\ calls \in [Requests -> Seq(Decisions)]
  BY DEF Catch, RouterInv, TypeOK
<1>2. CASE Retry(r)
  BY <1>1, <1>2 DEF Retry, Goto, MoveOf, Move, StillHas
<1>3. CASE ShouldFailOver(r, e) /\ FailOver(r)
  <2>1. attempt[r] < LimitOf(kind[r], plan[r])
    BY <1>3 DEF ShouldFailOver, AttemptLimit, LimitOf
  <2> QED
    BY <1>1, <1>3, <2>1 DEF FailOver, Invoke, Goto, MoveOf, Move, StillHas
<1>4. CASE EndWith(r, e)
  BY <1>1, <1>4 DEF EndWith, Goto, MoveOf, Move, StillHas, Ended
<1> QED
  BY <1>2, <1>3, <1>4 DEF Catch

LEMMA ProceedMoves ==
  ASSUME RouterInv, NEW r \in Requests, Lookup(r) \/ Proceed(r)
  PROVE  MoveOf(r) /\ \A q \in Requests \ {r} : StillHas(q)
<1>1. /\ phase \in [Requests -> Phases] /\ attempt \in [Requests -> Nat]
      /\ tries \in [Requests -> 0 .. MaxRetries] /\ calls \in [Requests -> Seq(Decisions)]
      /\ plan \in [Requests -> Seq(Decisions)]
  BY DEF RouterInv, TypeOK
<1>2. CASE Lookup(r)
  BY <1>1, <1>2 DEF Lookup, Goto, MoveOf, Move, StillHas
<1>3. CASE PlanRoute(r)
  <2>1. PICK s \in Plans \cup Pins :
          /\ plan' = [plan EXCEPT ![r] = s]
          /\ \/ s = <<>> /\ EndWith(r, "no_model")
             \/ s # <<>> /\ Invoke(r, Head(s)) /\ UNCHANGED <<attempt, tries, error>>
    BY <1>3 DEF PlanRoute
  <2>2. phase[r] = "planning" /\ attempt[r] = 1 /\ tries[r] = 0
    BY <1>3 DEF PlanRoute, RouterInv, GoodRequest, Good
  <2>3. plan'[r] = s /\ LimitOf(kind'[r], plan'[r]) \in 1 .. MaxAttempts
    BY <1>1, <2>1, PlansAreOrdered, LimitBound
  <2>4. CASE s = <<>> /\ EndWith(r, "no_model")
    BY <1>1, <2>1, <2>2, <2>4 DEF EndWith, Goto, MoveOf, Move, StillHas, Ended
  <2>5. CASE s # <<>> /\ Invoke(r, Head(s)) /\ UNCHANGED <<attempt, tries, error>>
    BY <1>1, <2>1, <2>2, <2>3, <2>5 DEF Invoke, Goto, MoveOf, Move, StillHas
  <2> QED
    BY <2>1, <2>4, <2>5
<1>4. CASE Answer(r)
  BY <1>1, <1>4 DEF Answer, Goto, MoveOf, Move, StillHas
<1>5. CASE Complete(r)
  BY <1>1, <1>5 DEF Complete, Goto, MoveOf, Move, StillHas, Ended
<1>6. CASE Fails(r)
  BY <1>6, CatchMoves DEF Fails
<1>7. CASE TimesOut(r)
  BY <1>7, CatchMoves DEF TimesOut
<1>8. CASE AbortEnds(r)
  BY <1>1, <1>8 DEF AbortEnds, EndWith, Goto, MoveOf, Move, StillHas, Ended
<1>9. CASE StreamAborted(r)
  BY <1>9, CatchMoves DEF StreamAborted
<1>10. CASE Wake(r)
  <2>1. tries[r] < MaxRetries
    BY <1>10 DEF Wake, RouterInv, GoodRequest, Good
  <2> QED
    BY <1>1, <1>10, <2>1 DEF Wake, Invoke, Goto, MoveOf, Move, StillHas
<1> QED
  BY <1>2, <1>3, <1>4, <1>5, <1>6, <1>7, <1>8, <1>9, <1>10 DEF Proceed

(* Whatever fails, retries and failovers use up a number of steps that is  *)
(* fixed when a request starts, for any plan, any limits and any company:  *)
(* the attempt loops of Router.chat and Router.chatStream cannot run on.   *)
THEOREM AlwaysEveryStepCounts == Spec => EveryStepCounts
<1> DEFINE Naturals == \A r \in Requests : StepsLeft(r) \in Nat
           Counts == \A r \in Requests :
                       \/ UNCHANGED <<phase[r], plan[r], attempt[r], tries[r], calls[r]>>
                       \/ StepsLeft(r)' \in 0 .. StepsLeft(r) - 1
<1>1. RouterInv => Naturals
  BY StepsAreLeft
<1>2. RouterInv /\ Naturals /\ Naturals' /\ [Next]_vars => [Counts]_vars
  <2> SUFFICES ASSUME RouterInv, Naturals, Naturals', Next PROVE Counts
    OBVIOUS
  <2>1. CASE \E r \in Requests : Content(r) \/ ClientAborts(r)
    BY <2>1 DEF Content, ClientAborts
  <2>2. CASE Tick /\ UNCHANGED <<requestVars, cached>>
    BY <2>2 DEF requestVars
  <2>3. ASSUME NEW r \in Requests, Lookup(r) \/ Proceed(r) PROVE Counts
    <3>1. StepsLeft(r)' < StepsLeft(r) /\ \A q \in Requests \ {r} : StillHas(q)
      BY <2>3, ProceedMoves, MoveCounts
    <3>2. PICK m, n : m = StepsLeft(r) /\ n = StepsLeft(r)'
      OBVIOUS
    <3>3. m \in Nat /\ n \in Nat
      BY <3>2
    <3>4. n \in 0 .. m - 1
      BY <3>1, <3>2, <3>3
    <3> QED
      BY <3>1, <3>2, <3>4 DEF StillHas
  <2> QED
    BY <2>1, <2>2, <2>3 DEF Next
<1> HIDE DEF Naturals
<1> QED
  BY RouterInvariant, <1>1, <1>2, PTL DEF Spec, EveryStepCounts

-----------------------------------------------------------------------------
(* VideoRouter.                                                            *)

(* A call has been failed by every provider before the one it stands at    *)
(* and has no job beyond that one; it is told "not found" only away from   *)
(* the first, and completed there it leaves no job, if complete is there.  *)
VideoInvOf(v) ==
  /\ 1 .. at[v] - 1 \subseteq blamed[v]
  /\ jobs[v] \subseteq 1 .. at[v]
  /\ stage[v] = "notfound" => at[v] # 1
  /\ stage[v] = "completed" /\ at[v] = 1 /\ v \in Completing => jobs[v] = {}

VideoInv == VideoTypeOK /\ \A v \in Videos : VideoInvOf(v)

(* Limit is the number of a provider.                                      *)
LEMMA LimitIsAProvider == Limit \in 1 .. Providers
BY VideoAssumption DEF Limit

(* The start: nothing was asked of any provider.                           *)
LEMMA VideoInitInv == VideoInit => VideoInv
BY VideoAssumption DEF VideoInit, VideoInv, VideoTypeOK, VideoInvOf

(* The catch block moves a call by one provider at most, within the limit. *)
LEMMA CatchMovesByOne ==
  ASSUME VideoTypeOK, NEW v \in Videos, NEW retryable \in BOOLEAN, VideoCatch(v, retryable)
  PROVE  /\ stage' \in [Videos -> {"idle", "queueing", "polling", "done", "failed",
                                   "queued", "found", "notfound", "completed"}]
         /\ at' \in [Videos -> 1 .. Providers]
         /\ polls' \in [Videos -> 0 .. MaxPolls]
         /\ at'[v] \in {at[v], at[v] + 1}
         /\ stage'[v] \in {"queueing", "failed"}
         /\ \A w \in Videos \ {v} : at'[w] = at[w] /\ stage'[w] = stage[w]
<1>1. at[v] \in 1 .. Providers /\ MaxPolls \in Nat
  BY VideoAssumption DEF VideoTypeOK
<1>2. CASE retryable /\ at[v] < Limit
  <2>1. at[v] + 1 \in 1 .. Providers
    BY <1>1, <1>2, LimitIsAProvider, VideoAssumption
  <2> QED
    BY <1>1, <1>2, <2>1 DEF VideoCatch, VideoTypeOK, To
<1>3. CASE ~(retryable /\ at[v] < Limit)
  BY <1>1, <1>3 DEF VideoCatch, VideoTypeOK, To
<1> QED
  BY <1>2, <1>3

(* An error of a provider, with or without a job behind it, blames it      *)
(* before the call moves on.                                               *)
LEMMA BlameKeepsInv ==
  ASSUME VideoInv, NEW v \in Videos, NEW retryable \in BOOLEAN, VideoCatch(v, retryable),
         UNCHANGED <<want, rendered>>,
         blamed' = [blamed EXCEPT ![v] = @ \cup {at[v]}],
         jobs' \in {jobs, [jobs EXCEPT ![v] = @ \cup {at[v]}]}
  PROVE  VideoInv'
<1>1. /\ at[v] \in 1 .. Providers /\ jobs[v] \subseteq 1 .. Providers
      /\ blamed[v] \subseteq 1 .. Providers
  BY DEF VideoInv, VideoTypeOK
<1>2. VideoTypeOK'
  BY <1>1, CatchMovesByOne DEF VideoInv, VideoTypeOK
<1>3. VideoInvOf(v)'
  <2>1. blamed'[v] = blamed[v] \cup {at[v]} /\ jobs'[v] \subseteq jobs[v] \cup {at[v]}
    BY DEF VideoInv, VideoTypeOK
  <2>2. at'[v] \in {at[v], at[v] + 1} /\ stage'[v] \in {"queueing", "failed"}
    BY CatchMovesByOne DEF VideoInv
  <2> QED
    BY <1>1, <2>1, <2>2 DEF VideoInv, VideoInvOf
<1>4. ASSUME NEW w \in Videos \ {v} PROVE VideoInvOf(w)'
  <2>1. blamed'[w] = blamed[w] /\ jobs'[w] = jobs[w]
    BY DEF VideoInv, VideoTypeOK
  <2>2. at'[w] = at[w] /\ stage'[w] = stage[w]
    BY CatchMovesByOne DEF VideoInv
  <2> QED
    BY <2>1, <2>2 DEF VideoInv, VideoInvOf
<1> QED
  BY <1>2, <1>3, <1>4 DEF VideoInv

(* Every step of a call keeps the invariant.                               *)
LEMMA VideoStepInv ==
  ASSUME VideoInv, [VideoNext]_videoVars
  PROVE  VideoInv'
<1> USE DEF VideoInv
<1>1. CASE UNCHANGED videoVars
  BY <1>1 DEF videoVars, VideoTypeOK, VideoInvOf
<1>2. ASSUME NEW v \in Videos, Submit(v) PROVE VideoInv'
  BY <1>2 DEF Submit, To, VideoTypeOK, VideoInvOf
<1>3. ASSUME NEW v \in Videos, JobQueued(v) PROVE VideoInv'
  BY <1>3 DEF JobQueued, To, VideoTypeOK, VideoInvOf
<1>4. ASSUME NEW v \in Videos, QueueFails(v) PROVE VideoInv'
  BY <1>4, BlameKeepsInv DEF QueueFails
<1>5. ASSUME NEW v \in Videos, PollDone(v) PROVE VideoInv'
  BY <1>5, VideoAssumption DEF PollDone, To, VideoTypeOK, VideoInvOf
<1>6. ASSUME NEW v \in Videos, PollPending(v) PROVE VideoInv'
  BY <1>6, VideoAssumption DEF PollPending, VideoTypeOK, VideoInvOf
<1>7. ASSUME NEW v \in Videos, PollFails(v) PROVE VideoInv'
  BY <1>7, BlameKeepsInv DEF PollFails
<1>8. ASSUME NEW v \in Videos, PollsExhausted(v) PROVE VideoInv'
  BY <1>8, VideoAssumption DEF PollsExhausted, VideoCatch, To, VideoTypeOK, VideoInvOf
<1>9. ASSUME NEW v \in Videos, Retrieve(v) PROVE VideoInv'
  BY <1>9 DEF Retrieve, AskedProvider, To, VideoTypeOK, VideoInvOf
<1>10. ASSUME NEW v \in Videos, CompleteVideo(v) PROVE VideoInv'
  <2> DEFINE gone == IF v \in Completing THEN {AskedProvider} \cap {at[v]} ELSE {}
  <2>1. /\ jobs' = [jobs EXCEPT ![v] = @ \ gone]
        /\ rendered' = [rendered EXCEPT ![v] = @ \ gone]
        /\ stage' = [stage EXCEPT ![v] = "completed"]
        /\ UNCHANGED <<want, at, polls, blamed>>
    BY <1>10 DEF CompleteVideo, To
  <2>2. v \in Completing /\ at[v] = 1 => gone = {1}
    BY DEF AskedProvider
  <2> HIDE DEF gone
  <2>3. VideoTypeOK'
    BY <2>1 DEF VideoTypeOK
  <2>4. VideoInvOf(v)'
    <3>1. at[v] = 1 => jobs[v] \subseteq {1}
      BY DEF VideoInvOf
    <3> QED
      BY <2>1, <2>2, <3>1 DEF VideoTypeOK, VideoInvOf
  <2>5. ASSUME NEW w \in Videos \ {v} PROVE VideoInvOf(w)'
    BY <2>1 DEF VideoTypeOK, VideoInvOf
  <2> QED
    BY <2>3, <2>4, <2>5
<1>11. ASSUME NEW v \in Videos, NEW p \in 1 .. Providers, Renders(v, p) PROVE VideoInv'
  BY <1>11 DEF Renders, VideoTypeOK, VideoInvOf
<1> QED
  BY <1>1, <1>2, <1>3, <1>4, <1>5, <1>6, <1>7, <1>8, <1>9, <1>10, <1>11 DEF VideoNext

LEMMA AlwaysVideoInv == VideoSpec => []VideoInv
BY VideoInitInv, VideoStepInv, PTL DEF VideoSpec

(* The state of every call keeps its type.                                 *)
THEOREM VideoTypeCorrect == VideoSpec => []VideoTypeOK
<1>1. VideoInv => VideoTypeOK
  BY DEF VideoInv
<1> QED
  BY <1>1, AlwaysVideoInv, PTL

(* One request, one job, except over an error of a provider before; and    *)
(* the job a client was given is found and completed unless the first      *)
(* provider failed its queueing or cannot complete: for any number of      *)
(* providers, limits and poll budgets (generate, queue, retrieve,          *)
(* complete).                                                              *)
THEOREM AlwaysOneJobAtHome == VideoSpec => []OneJobAtHome
<1>1. VideoInv => OneJobAtHome
  <2> SUFFICES ASSUME VideoInv, NEW v \in Videos
               PROVE  /\ \A p \in jobs[v] : 1 .. p - 1 \subseteq blamed[v]
                      /\ stage[v] = "notfound" => 1 \in blamed[v]
                      /\ stage[v] = "completed" /\ jobs[v] # {} /\ v \in Completing
                           => 1 \in blamed[v]
    BY DEF OneJobAtHome
  <2>1. at[v] \in 1 .. Providers /\ Providers \in Nat
    BY VideoAssumption DEF VideoInv, VideoTypeOK
  <2>2. VideoInvOf(v)
    BY DEF VideoInv
  <2>3. at[v] # 1 => 1 \in blamed[v]
    BY <2>1, <2>2 DEF VideoInvOf
  <2> QED
    BY <2>1, <2>2, <2>3 DEF VideoInvOf
<1> QED
  BY <1>1, AlwaysVideoInv, PTL
-----------------------------------------------------------------------------
(* Tier judgment.  What the proofs count on: entries of bounded requests   *)
(* hold sure judgments of the first backend, and a place in the cache is   *)
(* kept for every judgment under way.                                      *)

SureFirst(v) == v.source = "jev" /\ v.by = 1 /\ v.sure

GoodEntries == {d \in CacheEntries : d.key[1] => SureFirst(d.verdict)}

AskInvOf(a) ==
  /\ asking[a] # "idle" => ask[a] \in Asks
  /\ asking[a] = "judging" /\ ask[a].bounded => backend[a] = 1
  /\ asking[a] = "routed" => /\ verdict[a] \in Verdicts
                             /\ ask[a].bounded => SureFirst(verdict[a])

Judging == {a \in Askers : asking[a] = "judging"}

Room == Len(decisions) + Cardinality(Judging) <= DecisionMax - 1 + Cardinality(Askers)

TierInv ==
  /\ TierTypeOK
  /\ decisions \in Seq(GoodEntries)
  /\ \A a \in Askers : AskInvOf(a)
  /\ Room

(* A lookup that misses leaves at most as many entries as there were, and  *)
(* room for one more.                                                      *)
LEMMA MissMakesRoom ==
  ASSUME NEW S, decisions \in Seq(S), NEW q \in Asks
  PROVE  /\ Evicted(Without(q)) \in Seq(S)
         /\ Len(Evicted(Without(q))) \in Nat
         /\ \/ Len(Evicted(Without(q))) <= DecisionMax - 1
            \/ Len(Evicted(Without(q))) <= Len(decisions) - 1
<1> DEFINE n == Place(q)
<1> DEFINE front == SubSeq(decisions, 1, n - 1)
<1> DEFINE back == SubSeq(decisions, n + 1, Len(decisions))
<1>1. Len(decisions) \in Nat /\ DOMAIN decisions = 1 .. Len(decisions)
  BY LenProperties
<1>2. /\ Without(q) \in Seq(S)
      /\ Len(Without(q)) \in Nat
      /\ Len(Without(q)) <= Len(decisions)
  <2>1. CASE Entries(q) = {}
    BY <1>1, <2>1 DEF Without
  <2>2. CASE Entries(q) # {}
    <3>1. n \in 1 .. Len(decisions)
      BY <1>1, <2>2 DEF Place, Entries
    <3>2. \A i \in 1 .. Len(decisions) : decisions[i] \in S
      BY ElementOfSeq
    <3> HIDE DEF n
    <3>3. front \in Seq(S) /\ Len(front) = n - 1
      <4>1. n - 1 \in Int /\ \A i \in 1 .. n - 1 : decisions[i] \in S
        BY <1>1, <3>1, <3>2
      <4>2. /\ SubSeq(decisions, 1, n - 1) \in Seq(S)
            /\ Len(SubSeq(decisions, 1, n - 1)) = IF 1 <= n - 1 THEN n - 1 - 1 + 1 ELSE 0
        BY <4>1, SubSeqProperties, SMTT(30)
      <4> QED
        BY <3>1, <1>1, <4>2
    <3>4. back \in Seq(S) /\ Len(back) = Len(decisions) - n
      <4>1. n + 1 \in Int /\ \A i \in n + 1 .. Len(decisions) : decisions[i] \in S
        BY <1>1, <3>1, <3>2
      <4>2. /\ back \in Seq(S)
            /\ Len(back) = IF n + 1 <= Len(decisions) THEN Len(decisions) - (n + 1) + 1 ELSE 0
        BY <1>1, <4>1, SubSeqProperties
      <4>3. \A l \in Nat : \A k \in 1 .. l : l - k = IF k + 1 <= l THEN l - (k + 1) + 1 ELSE 0
        OBVIOUS
      <4> HIDE DEF back
      <4> QED
        BY <1>1, <3>1, <4>2, <4>3
    <3> HIDE DEF front, back
    <3>5. front \o back \in Seq(S) /\ Len(front \o back) = Len(front) + Len(back)
      BY <3>3, <3>4, ConcatProperties
    <3>6. Without(q) = front \o back
      BY <2>2 DEF Without, RemoveAt, n, front, back
    <3> QED
      BY <1>1, <3>1, <3>3, <3>4, <3>5, <3>6
  <2> QED
    BY <2>1, <2>2
<1> HIDE DEF n, front, back
<1>3. CASE Len(Without(q)) >= DecisionMax
  <2>1. Without(q) # <<>>
    BY <1>2, <1>3, TierAssumption, EmptySeq
  <2>2. Tail(Without(q)) \in Seq(S) /\ Len(Tail(Without(q))) = Len(Without(q)) - 1
    BY <1>2, <2>1, HeadTailProperties
  <2>3. Evicted(Without(q)) = Tail(Without(q))
    BY <1>3 DEF Evicted
  <2> QED
    BY <1>1, <1>2, <1>3, <2>2, <2>3, TierAssumption
<1>4. CASE ~(Len(Without(q)) >= DecisionMax)
  BY <1>1, <1>2, <1>4, TierAssumption DEF Evicted
<1> QED
  BY <1>3, <1>4

(* A judgment that is kept takes one place at most.                        *)
LEMMA KeepTakesOnePlace ==
  ASSUME NEW S, decisions \in Seq(S), NEW q \in Asks, NEW v,
         [key |-> Key(q), at |-> tierClock, verdict |-> v] \in S
  PROVE  /\ With(q, v) \in Seq(S)
         /\ Len(With(q, v)) \in Nat
         /\ Len(With(q, v)) <= Len(decisions) + 1
<1> DEFINE entry == [key |-> Key(q), at |-> tierClock, verdict |-> v]
<1>1. Len(decisions) \in Nat /\ DOMAIN decisions = 1 .. Len(decisions)
  BY LenProperties
<1>2. CASE Entries(q) = {}
  <2>1. With(q, v) = Append(decisions, entry)
    BY <1>2 DEF With
  <2> HIDE DEF entry
  <2>2. entry \in S
    BY DEF entry
  <2>3. Append(decisions, entry) \in Seq(S) /\ Len(Append(decisions, entry)) = Len(decisions) + 1
    BY <2>2, AppendProperties
  <2> QED
    BY <1>1, <2>1, <2>3
<1>3. CASE Entries(q) # {}
  <2> DEFINE n == Place(q)
  <2>1. n \in 1 .. Len(decisions)
    BY <1>1, <1>3 DEF Place, Entries
  <2>2. With(q, v) = [decisions EXCEPT ![n] = entry]
    BY <1>3 DEF With
  <2>3. entry \in S
    OBVIOUS
  <2> HIDE DEF entry, n
  <2>4. /\ [decisions EXCEPT ![n] = entry] \in Seq(S)
        /\ Len([decisions EXCEPT ![n] = entry]) = Len(decisions)
    BY <2>1, <2>3, ExceptSeq
  <2> QED
    BY <1>1, <2>2, <2>4
<1> QED
  BY <1>2, <1>3

(* A judgment is a verdict.                                                *)
LEMMA JudgedIsATier ==
  ASSUME NEW q \in Asks, NEW b \in Backends, NEW w \in AnswersOf(b)
  PROVE  Judged(q, w) \in Tiers /\ w.sure \in BOOLEAN
<1>1. w.choice \in Tiers /\ w.sure \in BOOLEAN
  <2>1. CASE b = Stub
    <3>1. w = [choice |-> 0, sure |-> FALSE, reasoning |-> "weak"]
      BY <2>1 DEF AnswersOf
    <3> QED
      BY <3>1 DEF Tiers
  <2>2. CASE b # Stub
    BY <2>2, TierAssumption DEF AnswersOf
  <2> QED
    BY <2>1, <2>2
<1>2. q.floor \in Tiers /\ TopTier \in Tiers
  BY TierAssumption
<1> QED
  BY <1>1, <1>2 DEF Judged, AtMost, AtLeast, Tiers

(* The requests being judged are finitely many.                            *)
LEMMA JudgingIsFinite ==
  /\ IsFiniteSet(Judging)
  /\ Cardinality(Judging) \in Nat
  /\ Cardinality(Askers) \in Nat
  /\ Cardinality(Judging) <= Cardinality(Askers)
  /\ \A a \in Askers \ Judging : Cardinality(Judging) + 1 <= Cardinality(Askers)
<1>1. Judging \subseteq Askers /\ IsFiniteSet(Askers)
  BY TierAssumption DEF Judging
<1>2. /\ IsFiniteSet(Judging)
      /\ Cardinality(Judging) <= Cardinality(Askers)
  BY <1>1, FS_Subset
<1>3. Cardinality(Judging) \in Nat /\ Cardinality(Askers) \in Nat
  BY <1>1, <1>2, FS_CardinalityType
<1>4. ASSUME NEW a \in Askers \ Judging
      PROVE  Cardinality(Judging) + 1 <= Cardinality(Askers)
  <2>1. Judging # Askers
    OBVIOUS
  <2>2. Cardinality(Judging) # Cardinality(Askers)
    BY <1>1, <2>1, FS_Subset
  <2> QED
    BY <1>2, <1>3, <2>2
<1> QED
  BY <1>2, <1>3, <1>4

(* The start: an empty cache.                                              *)
LEMMA TierInitInv == TierInit => TierInv
<1> SUFFICES ASSUME TierInit
             PROVE  TierInv
  OBVIOUS
<1>1. TierTypeOK
  BY TierAssumption, EmptySeq DEF TierInit, TierTypeOK, Backends
<1>2. decisions \in Seq(GoodEntries) /\ Len(decisions) = 0
  BY EmptySeq DEF TierInit
<1>3. \A a \in Askers : AskInvOf(a)
  BY DEF TierInit, AskInvOf
<1>4. Judging = {}
  BY DEF TierInit, Judging
<1>5. Room
  BY <1>2, <1>4, FS_EmptySet, JudgingIsFinite, TierAssumption DEF Room
<1> QED
  BY <1>1, <1>2, <1>3, <1>5 DEF TierInv


(* A request that leaves the judgment, or that starts none, keeps the room *)
(* in the cache.                                                           *)
LEMMA LeavingKeepsCount ==
  ASSUME NEW a \in Askers, asking[a] = "judging", NEW p, p # "judging",
         asking \in [Askers -> {"idle", "judging", "routed", "refused"}],
         asking' = [asking EXCEPT ![a] = p]
  PROVE  Cardinality(Judging)' = Cardinality(Judging) - 1 /\ Cardinality(Judging) \in Nat
<1>1. Judging' = Judging \ {a} /\ a \in Judging
  BY DEF Judging
<1>2. Cardinality(Judging \ {a}) = Cardinality(Judging) - 1
  BY <1>1, JudgingIsFinite, FS_RemoveElement
<1> QED
  BY <1>1, <1>2, JudgingIsFinite

(* A lookup of the cache: the verdict of a bounded request comes from an   *)
(* entry of a bounded one.                                                 *)
LEMMA HitKeepsInv ==
  ASSUME TierInv, NEW a \in Askers, NEW q \in Asks, CacheHit(a, q)
  PROVE  TierInv'
<1>1. PICK n \in Entries(q) : verdict' = [verdict EXCEPT ![a] = decisions[n].verdict]
  BY DEF CacheHit
<1>2. n \in DOMAIN decisions /\ decisions[n].key = Key(q)
  BY <1>1 DEF Entries
<1> DEFINE d == decisions[n]
<1>3. d \in GoodEntries
  <2>1. n \in 1 .. Len(decisions)
    BY <1>2, LenProperties DEF TierInv
  <2> QED
    BY <2>1, ElementOfSeq DEF TierInv
<1>4. d.verdict \in Verdicts /\ (d.key[1] => SureFirst(d.verdict))
  BY <1>3 DEF GoodEntries, CacheEntries
<1>5. d.key[1] = q.bounded
  BY <1>2 DEF Key
<1> DEFINE v == d.verdict
<1>6. v \in Verdicts /\ (q.bounded => SureFirst(v)) /\ verdict' = [verdict EXCEPT ![a] = v]
  BY <1>1, <1>4, <1>5
<1> HIDE DEF d, v
<1>7. /\ asking[a] # "judging" /\ asking' = [asking EXCEPT ![a] = "routed"]
      /\ ask' = [ask EXCEPT ![a] = q] /\ backend' = [backend EXCEPT ![a] = 1]
      /\ UNCHANGED <<decisions, tierClock>> /\ asks < MaxAsks /\ asks' = asks + 1
  BY DEF CacheHit, Asked
<1>8. TierTypeOK'
  BY <1>6, <1>7, TierAssumption DEF TierInv, TierTypeOK, Backends
<1>9. decisions' \in Seq(GoodEntries)
  BY <1>7 DEF TierInv
<1>10. ASSUME NEW b \in Askers
       PROVE  AskInvOf(b)'
  <2>1. CASE b = a
    BY <2>1, <1>6, <1>7 DEF TierInv, TierTypeOK, AskInvOf, SureFirst
  <2>2. CASE b # a
    BY <2>2, <1>6, <1>7 DEF TierInv, TierTypeOK, AskInvOf, SureFirst
  <2> QED
    BY <2>1, <2>2
<1>11. Room'
  <2>1. Judging' = Judging
    BY <1>7 DEF Judging, TierInv, TierTypeOK
  <2> QED
    BY <2>1, <1>7 DEF Room, TierInv
<1> QED
  BY <1>8, <1>9, <1>10, <1>11 DEF TierInv

LEMMA MissKeepsInv ==
  ASSUME TierInv, NEW a \in Askers, NEW q \in Asks, CacheMiss(a, q)
  PROVE  TierInv'
<1>1. /\ asking[a] # "judging" /\ asking' = [asking EXCEPT ![a] = "judging"]
      /\ ask' = [ask EXCEPT ![a] = q] /\ backend' = [backend EXCEPT ![a] = 1]
      /\ verdict' = [verdict EXCEPT ![a] = NoVerdict]
      /\ decisions' = Evicted(Without(q))
      /\ UNCHANGED tierClock /\ asks < MaxAsks /\ asks' = asks + 1
  BY DEF CacheMiss, Asked
<1>2. decisions' \in Seq(CacheEntries)
  BY <1>1, MissMakesRoom DEF TierInv, TierTypeOK
<1>3. TierTypeOK'
  BY <1>1, <1>2, TierAssumption DEF TierInv, TierTypeOK, Backends
<1>4. decisions' \in Seq(GoodEntries)
  BY <1>1, MissMakesRoom DEF TierInv
<1>5. ASSUME NEW b \in Askers
      PROVE  AskInvOf(b)'
  <2>1. CASE b = a
    BY <2>1, <1>1 DEF TierInv, TierTypeOK, AskInvOf, SureFirst
  <2>2. CASE b # a
    BY <2>2, <1>1 DEF TierInv, TierTypeOK, AskInvOf, SureFirst
  <2> QED
    BY <2>1, <2>2
<1>6. Room'
  <2>1. Judging' = Judging \cup {a} /\ a \in Askers \ Judging
    BY <1>1 DEF Judging, TierInv, TierTypeOK
  <2>2. Cardinality(Judging') = Cardinality(Judging) + 1
    BY <2>1, JudgingIsFinite, FS_AddElement
  <2>3. Cardinality(Judging) + 1 <= Cardinality(Askers)
    BY <2>1, JudgingIsFinite
  <2>4. Len(decisions) \in Nat
    BY LenProperties DEF TierInv
  <2>5. /\ Len(decisions') \in Nat
        /\ Len(decisions') <= DecisionMax - 1 \/ Len(decisions') <= Len(decisions) - 1
    BY <1>1, MissMakesRoom DEF TierInv
  <2>6. Len(decisions) + Cardinality(Judging) <= DecisionMax - 1 + Cardinality(Askers)
    BY DEF TierInv, Room
  <2>7. Len(decisions') + Cardinality(Judging') <= DecisionMax - 1 + Cardinality(Askers)
    BY <2>2, <2>3, <2>4, <2>5, <2>6, JudgingIsFinite, TierAssumption
  <2> QED
    BY <2>7 DEF Room
<1> QED
  BY <1>3, <1>4, <1>5, <1>6 DEF TierInv

(* A judgment given up: nobody's entry, and no route for a bounded one.    *)
LEMMA GivesUpKeepsInv ==
  ASSUME TierInv, NEW a \in Askers, asking[a] = "judging", GivesUp(a)
  PROVE  TierInv'
<1>1. /\ UNCHANGED <<ask, backend, decisions, tierClock, asks>>
      /\ \/ /\ ask[a].bounded
            /\ asking' = [asking EXCEPT ![a] = "refused"]
            /\ verdict' = verdict
         \/ /\ ~ask[a].bounded
            /\ asking' = [asking EXCEPT ![a] = "routed"]
            /\ verdict' = [verdict EXCEPT ![a] =
                 [tier |-> ask[a].structural, source |-> "structural",
                  by |-> backend[a], sure |-> FALSE]]
  BY DEF GivesUp
<1>2. ask[a] \in Asks /\ ask[a].structural \in Tiers /\ backend[a] \in Backends
  BY TierAssumption DEF TierInv, TierTypeOK, AskInvOf
<1> DEFINE v == [tier |-> ask[a].structural, source |-> "structural",
                 by |-> backend[a], sure |-> FALSE]
<1>3. v \in Verdicts
  BY <1>2 DEF Verdicts
<1>4. \/ ask[a].bounded /\ asking' = [asking EXCEPT ![a] = "refused"] /\ verdict' = verdict
      \/ /\ ~ask[a].bounded
         /\ asking' = [asking EXCEPT ![a] = "routed"]
         /\ verdict' = [verdict EXCEPT ![a] = v]
  BY <1>1
<1> HIDE DEF v
<1>5. TierTypeOK'
  BY <1>1, <1>3, <1>4 DEF TierInv, TierTypeOK
<1>6. decisions' \in Seq(GoodEntries)
  BY <1>1 DEF TierInv
<1>7. ASSUME NEW b \in Askers
      PROVE  AskInvOf(b)'
  <2>1. CASE b = a
    BY <2>1, <1>1, <1>2, <1>3, <1>4 DEF TierInv, TierTypeOK, AskInvOf, SureFirst
  <2>2. CASE b # a
    BY <2>2, <1>1, <1>4 DEF TierInv, TierTypeOK, AskInvOf, SureFirst
  <2> QED
    BY <2>1, <2>2
<1>8. Room'
  <2>1. Cardinality(Judging)' = Cardinality(Judging) - 1 /\ Cardinality(Judging) \in Nat
    BY <1>4, LeavingKeepsCount DEF TierInv, TierTypeOK
  <2>2. Len(decisions) \in Nat
    BY LenProperties DEF TierInv
  <2> QED
    BY <2>1, <2>2, <1>1, JudgingIsFinite, TierAssumption DEF TierInv, Room
<1> QED
  BY <1>5, <1>6, <1>7, <1>8 DEF TierInv

LEMMA NextBackendKeepsInv ==
  ASSUME TierInv, NEW a \in Askers, BackendFails(a)
  PROVE  TierInv'
<1>1. /\ ~ask[a].bounded /\ backend[a] # Stub
      /\ backend' = [backend EXCEPT ![a] = backend[a] + 1]
      /\ UNCHANGED <<asking, ask, verdict, decisions, tierClock, asks>>
  BY DEF BackendFails
<1>2. backend[a] + 1 \in Backends
  BY <1>1, TierAssumption DEF TierInv, TierTypeOK, Backends, Stub
<1>3. TierTypeOK'
  BY <1>1, <1>2 DEF TierInv, TierTypeOK
<1>4. ASSUME NEW b \in Askers
      PROVE  AskInvOf(b)'
  BY <1>1 DEF TierInv, TierTypeOK, AskInvOf, SureFirst
<1>5. Room'
  BY <1>1 DEF TierInv, Room, Judging
<1> QED
  BY <1>1, <1>3, <1>4, <1>5 DEF TierInv

(* A judgment kept: a bounded request takes a sure one, of the first.      *)
LEMMA AnswerKeepsInv ==
  ASSUME TierInv, NEW a \in Askers, NEW w \in AnswersOf(backend[a]), BackendAnswers(a, w)
  PROVE  TierInv'
<1>1. asking[a] = "judging"
  BY DEF BackendAnswers
<1>2. CASE Rejected(a, w)
  BY <1>1, <1>2, GivesUpKeepsInv DEF BackendAnswers
<1>3. CASE ~Rejected(a, w)
  <2> DEFINE v == [tier |-> Judged(ask[a], w), source |-> "jev",
                   by |-> backend[a], sure |-> w.sure]
  <2>1. /\ verdict' = [verdict EXCEPT ![a] = v]
        /\ decisions' = With(ask[a], v)
        /\ asking' = [asking EXCEPT ![a] = "routed"]
        /\ UNCHANGED <<ask, backend, tierClock, asks>>
    BY <1>3 DEF BackendAnswers
  <2>2. ask[a] \in Asks /\ backend[a] \in Backends /\ ask[a].bounded \in BOOLEAN
    BY <1>1, TierAssumption DEF TierInv, TierTypeOK, AskInvOf
  <2>3. Judged(ask[a], w) \in Tiers /\ w.sure \in BOOLEAN
    BY <2>2, JudgedIsATier
  <2>4. ask[a].bounded => w.sure /\ backend[a] = 1
    BY <1>1, <1>3, <2>3 DEF Rejected, TierInv, AskInvOf
  <2>5. v \in Verdicts /\ (ask[a].bounded => SureFirst(v))
    BY <2>2, <2>3, <2>4 DEF Verdicts, SureFirst
  <2> HIDE DEF v
  <2> DEFINE entry == [key |-> Key(ask[a]), at |-> tierClock, verdict |-> v]
  <2>6. entry \in CacheEntries
    BY <2>2, <2>5 DEF CacheEntries, TierInv, TierTypeOK
  <2>7. entry \in GoodEntries
    <3>1. entry.key[1] = ask[a].bounded /\ entry.verdict = v
      BY DEF Key
    <3> QED
      BY <2>5, <2>6, <3>1 DEF GoodEntries
  <2>8. /\ decisions' \in Seq(GoodEntries)
        /\ Len(decisions') \in Nat
        /\ Len(decisions') <= Len(decisions) + 1
    BY <2>1, <2>2, <2>7, KeepTakesOnePlace DEF TierInv
  <2>9. decisions' \in Seq(CacheEntries)
    BY <2>1, <2>2, <2>6, KeepTakesOnePlace DEF TierInv, TierTypeOK
  <2>10. TierTypeOK'
    BY <2>1, <2>5, <2>9 DEF TierInv, TierTypeOK
  <2>11. ASSUME NEW b \in Askers
         PROVE  AskInvOf(b)'
    <3>1. CASE b = a
      BY <3>1, <2>1, <2>2, <2>5 DEF TierInv, TierTypeOK, AskInvOf, SureFirst
    <3>2. CASE b # a
      BY <3>2, <2>1 DEF TierInv, TierTypeOK, AskInvOf, SureFirst
    <3> QED
      BY <3>1, <3>2
  <2>12. Room'
    <3>1. Cardinality(Judging)' = Cardinality(Judging) - 1 /\ Cardinality(Judging) \in Nat
      BY <1>1, <2>1, LeavingKeepsCount DEF TierInv, TierTypeOK
    <3>2. Len(decisions) \in Nat
      BY LenProperties DEF TierInv
    <3> QED
      BY <3>1, <3>2, <2>8, JudgingIsFinite, TierAssumption DEF TierInv, Room
  <2> QED
    BY <2>8, <2>10, <2>11, <2>12 DEF TierInv
<1> QED
  BY <1>2, <1>3

LEMMA TierStepKeepsInv ==
  ASSUME TierInv, [TierNext]_tierVars
  PROVE  TierInv'
<1>1. CASE TierTick
  <2>1. /\ tierClock' \in 0 .. MaxTierClock
        /\ UNCHANGED <<asking, ask, backend, verdict, decisions, asks>>
    BY <1>1, TierAssumption DEF TierTick, TierInv, TierTypeOK
  <2>2. TierTypeOK'
    BY <2>1 DEF TierInv, TierTypeOK
  <2>3. \A a \in Askers : AskInvOf(a)'
    BY <2>1 DEF TierInv, AskInvOf
  <2>4. Room'
    BY <2>1 DEF TierInv, Room, Judging
  <2> QED
    BY <2>1, <2>2, <2>3, <2>4 DEF TierInv
<1>2. ASSUME NEW a \in Askers, NEW q \in Asks, CacheHit(a, q)
      PROVE  TierInv'
  BY <1>2, HitKeepsInv
<1>3. ASSUME NEW a \in Askers, NEW q \in Asks, CacheMiss(a, q)
      PROVE  TierInv'
  BY <1>3, MissKeepsInv
<1>4. ASSUME NEW a \in Askers, BackendFails(a)
      PROVE  TierInv'
  BY <1>4, NextBackendKeepsInv
<1>5. ASSUME NEW a \in Askers, JudgmentFails(a)
      PROVE  TierInv'
  BY <1>5, GivesUpKeepsInv DEF JudgmentFails
<1>6. ASSUME NEW a \in Askers, NEW w \in AnswersOf(backend[a]), BackendAnswers(a, w)
      PROVE  TierInv'
  BY <1>6, AnswerKeepsInv
<1>7. CASE UNCHANGED tierVars
  <2>1. UNCHANGED <<asking, ask, backend, verdict, decisions, tierClock, asks>>
    BY <1>7 DEF tierVars
  <2>2. \A a \in Askers : AskInvOf(a)'
    BY <2>1 DEF TierInv, AskInvOf
  <2> QED
    BY <2>1, <2>2 DEF TierInv, TierTypeOK, Room, Judging
<1> QED
  BY <1>1, <1>2, <1>3, <1>4, <1>5, <1>6, <1>7 DEF TierNext

LEMMA AlwaysTierInv == TierSpec => []TierInv
<1>1. TierInit => TierInv
  BY TierInitInv
<1>2. TierInv /\ [TierNext]_tierVars => TierInv'
  BY TierStepKeepsInv
<1> QED
  BY <1>1, <1>2, PTL DEF TierSpec

(* Type correctness of the tier judgment.                                  *)
THEOREM TierTypeCorrect == TierSpec => []TierTypeOK
<1>1. TierInv => TierTypeOK
  BY DEF TierInv
<1> QED
  BY <1>1, AlwaysTierInv, PTL

(* A bounded request is routed by a sure judgment of the first backend,    *)
(* through the cache as well (infer, decideOnce).                          *)
THEOREM AlwaysBoundedIsJudged == TierSpec => []BoundedIsJudged
<1>1. TierInv => BoundedIsJudged
  BY DEF TierInv, AskInvOf, SureFirst, BoundedIsJudged
<1> QED
  BY <1>1, AlwaysTierInv, PTL

(* The cache outgrows its maximum by one entry per other request at most   *)
(* (infer).                                                                *)
THEOREM AlwaysDecisionsOvershoot == TierSpec => []DecisionsOvershoot
<1>1. TierInv => DecisionsOvershoot
  <2> SUFFICES ASSUME TierInv
               PROVE  DecisionsOvershoot
    OBVIOUS
  <2>1. Len(decisions) \in Nat
    BY LenProperties DEF TierInv
  <2> QED
    BY <2>1, JudgingIsFinite, TierAssumption DEF TierInv, Room, DecisionsOvershoot
<1> QED
  BY <1>1, AlwaysTierInv, PTL

-----------------------------------------------------------------------------
(* Streams.                                                                *)

(* A client of /v1/messages that has seen no frame out of place.           *)
Client(begun, ended, at_, kind_, call, blocks) ==
  [begun |-> begun, ended |-> ended, at |-> at_, kind |-> kind_, call |-> call,
   blocks |-> blocks, garbled |-> FALSE]

OpenBlock(e) == IF e.open = "none" THEN NoBlock ELSE e.index

IsDone == flow = "done" /\ endpoint = "messages"

(* The encoder and the client of /v1/messages agree: on whether the        *)
(* message has begun, on the block that is open and on how many there have *)
(* been; and the client has seen the end only when the stream is done.     *)
FramesInv ==
  /\ endpoint \in {"messages", "completions"}
  /\ enc \in Encoders
  /\ enc.open # "none" => enc.started
  /\ \E call : client = Client(enc.started, IsDone, OpenBlock(enc), enc.open, call, enc.index + 1)

(* What each frame does to a client that waits for it.                     *)
LEMMA StartIsAwaited ==
  ASSUME NEW a, NEW k, NEW q, NEW n
  PROVE  MessageStart(Client(FALSE, FALSE, a, k, q, n)) = Client(TRUE, FALSE, a, k, q, n)
BY DEF MessageStart, Client

LEMMA BlockIsAwaited ==
  ASSUME NEW k, NEW q, NEW n \in Int, NEW i
  PROVE  BlockStart(Client(TRUE, FALSE, NoBlock, "none", q, n), n, k, i)
           = Client(TRUE, FALSE, n, k, i, n + 1)
BY DEF BlockStart, Client

LEMMA DeltaIsAwaited ==
  ASSUME NEW a, NEW k, NEW q, NEW n
  PROVE  BlockDelta(Client(TRUE, FALSE, a, k, q, n), a, k) = Client(TRUE, FALSE, a, k, q, n)
BY DEF BlockDelta, Client

LEMMA StopIsAwaited ==
  ASSUME NEW a, NEW k, NEW q, NEW n
  PROVE  BlockStop(Client(TRUE, FALSE, a, k, q, n), a)
           = Client(TRUE, FALSE, NoBlock, "none", NoBlock, n)
BY DEF BlockStop, Client

LEMMA EndIsAwaited ==
  ASSUME NEW k, NEW q, NEW n
  PROVE  MessageStop(Client(TRUE, FALSE, NoBlock, k, q, n))
           = Client(TRUE, TRUE, NoBlock, k, q, n)
BY DEF MessageStop, Client

(* After message_start the client stands where the encoder does.           *)
LEMMA StartedIsBegun ==
  ASSUME FramesInv, flow # "done"
  PROVE  \E call : Started(client)
                     = Client(TRUE, FALSE, OpenBlock(enc), enc.open, call, enc.index + 1)
<1>1. PICK call : client = Client(enc.started, FALSE, OpenBlock(enc), enc.open, call, enc.index + 1)
  <2>1. IsDone = FALSE
    BY DEF IsDone
  <2> QED
    BY <2>1 DEF FramesInv
<1>2. enc.started \in BOOLEAN
  BY DEF FramesInv, Encoders
<1>3. CASE enc.started
  <2>1. enc.started = TRUE
    BY <1>2, <1>3
  <2> QED
    BY <1>1, <2>1 DEF Started
<1>4. CASE ~enc.started
  <2>1. enc.started = FALSE
    BY <1>2, <1>4
  <2> QED
    BY <1>1, <2>1, StartIsAwaited DEF Started
<1> QED
  BY <1>3, <1>4

(* With its open block closed it waits for the next block, or for the end. *)
LEMMA ClosedIsQuiet ==
  ASSUME FramesInv, flow # "done"
  PROVE  \E call : ClosedBlock(Started(client))
                     = Client(TRUE, FALSE, NoBlock, "none", call, enc.index + 1)
<1> DEFINE s == Started(client)
<1>1. PICK call : s = Client(TRUE, FALSE, OpenBlock(enc), enc.open, call, enc.index + 1)
  BY StartedIsBegun
<1>2. CASE enc.open = "none"
  BY <1>1, <1>2 DEF ClosedBlock, OpenBlock
<1>3. CASE enc.open # "none"
  <2>1. ClosedBlock(s) = BlockStop(s, enc.index) /\ OpenBlock(enc) = enc.index
    BY <1>3 DEF ClosedBlock, OpenBlock
  <2> QED
    <3>1. s = Client(TRUE, FALSE, enc.index, enc.open, call, enc.index + 1)
      BY <1>1, <2>1
    <3>2. BlockStop(s, enc.index) = Client(TRUE, FALSE, NoBlock, "none", NoBlock, enc.index + 1)
      BY <3>1, StopIsAwaited
    <3> QED
      BY <2>1, <3>2
<1> QED
  BY <1>2, <1>3

(* What is opened is the next block.                                       *)
LEMMA OpenedIsNext ==
  ASSUME FramesInv, flow # "done", NEW k, NEW i
  PROVE  /\ Opened(k, i) = Client(TRUE, FALSE, enc.index + 1, k, i, enc.index + 2)
         /\ enc.index \in Int
<1>1. enc.index \in Int
  BY DEF FramesInv, Encoders
<1>2. PICK call : ClosedBlock(Started(client))
                    = Client(TRUE, FALSE, NoBlock, "none", call, enc.index + 1)
  BY ClosedIsQuiet
<1>3. enc.index + 1 \in Int /\ (enc.index + 1) + 1 = enc.index + 2
  BY <1>1
<1> QED
  BY <1>1, <1>2, <1>3, BlockIsAwaited DEF Opened

(* The encoder and the client agree after a step that leaves them so.      *)
LEMMA FramesAgree ==
  ASSUME FramesInv, NEW call, enc' \in Encoders, enc'.started = TRUE, endpoint' = endpoint,
         client' = Client(TRUE, IsDone', OpenBlock(enc'), enc'.open, call, enc'.index + 1)
  PROVE  FramesInv'
BY DEF FramesInv, OpenBlock

(* And after one that touches neither.                                     *)
LEMMA FramesStay ==
  ASSUME FramesInv, enc' = enc, client' = client, endpoint' = endpoint, IsDone' = IsDone
  PROVE  FramesInv'
BY DEF FramesInv, OpenBlock

(* A piece of text lies in a text block, opened for it if need be.         *)
LEMMA TextIsFramed ==
  ASSUME FramesInv, flow # "done", NEW n, MessagesText(n), flow' = flow,
         endpoint' = endpoint
  PROVE  FramesInv'
<1>1. IsDone' = FALSE /\ enc.index \in Int /\ enc \in Encoders
  BY DEF IsDone, FramesInv, Encoders
<1>2. CASE enc.open = "text"
  <2>1. PICK call : Started(client)
                      = Client(TRUE, FALSE, OpenBlock(enc), enc.open, call, enc.index + 1)
    BY StartedIsBegun
  <2>2. OpenBlock(enc) = enc.index
    BY <1>2 DEF OpenBlock
  <2>3. client' = Client(TRUE, FALSE, enc.index, "text", call, enc.index + 1)
    <3>1. client' = BlockDelta(Started(client), enc.index, "text")
      BY <1>2 DEF MessagesText
    <3>2. Started(client) = Client(TRUE, FALSE, enc.index, "text", call, enc.index + 1)
      BY <1>2, <2>1, <2>2
    <3> QED
      BY <3>1, <3>2, DeltaIsAwaited
  <2>4. /\ enc' \in Encoders /\ enc'.started = TRUE
        /\ enc'.open = "text" /\ enc'.index = enc.index
    BY <1>1, <1>2 DEF MessagesText, Encoders
  <2>5. OpenBlock(enc') = enc.index
    BY <2>4 DEF OpenBlock
  <2> QED
    BY <1>1, <2>3, <2>4, <2>5, FramesAgree
<1>3. CASE enc.open # "text"
  <2>1. client' = Client(TRUE, FALSE, enc.index + 1, "text", NoBlock, enc.index + 2)
    <3>1. client' = BlockDelta(Opened("text", NoBlock), enc.index + 1, "text")
      BY <1>3 DEF MessagesText
    <3>2. Opened("text", NoBlock)
            = Client(TRUE, FALSE, enc.index + 1, "text", NoBlock, enc.index + 2)
      BY OpenedIsNext
    <3> QED
      BY <3>1, <3>2, DeltaIsAwaited
  <2>2. Opens("text")
    BY <1>3 DEF MessagesText
  <2>3. /\ enc' \in Encoders /\ enc'.started = TRUE
        /\ enc'.open = "text" /\ enc'.index = enc.index + 1
    BY <1>1, <2>2 DEF Opens, Encoders
  <2>4. OpenBlock(enc') = enc.index + 1 /\ enc'.index + 1 = enc.index + 2
    BY <1>1, <2>3 DEF OpenBlock
  <2> QED
    BY <1>1, <2>1, <2>3, <2>4, FramesAgree
<1> QED
  BY <1>2, <1>3

(* A call has a block of its own.                                          *)
LEMMA CallIsFramed ==
  ASSUME FramesInv, flow # "done", NEW i, MessagesCall(i), flow' = flow,
         endpoint' = endpoint
  PROVE  FramesInv'
<1>1. IsDone' = FALSE /\ enc.index \in Int /\ enc \in Encoders
  BY DEF IsDone, FramesInv, Encoders
<1>2. client' = Client(TRUE, FALSE, enc.index + 1, "tool_use", i, enc.index + 2)
  BY OpenedIsNext DEF MessagesCall
<1>3. /\ enc' \in Encoders /\ enc'.started = TRUE
      /\ enc'.open = "tool_use" /\ enc'.index = enc.index + 1
  BY <1>1 DEF MessagesCall, Opens, Encoders
<1>4. OpenBlock(enc') = enc.index + 1 /\ enc'.index + 1 = enc.index + 2
  BY <1>1, <1>3 DEF OpenBlock
<1> QED
  BY <1>1, <1>2, <1>3, <1>4, FramesAgree

(* A piece of arguments lies in the open block of a call, or is dropped.   *)
LEMMA ArgsAreFramed ==
  ASSUME FramesInv, flow # "done", NEW n, MessagesArgs(n), flow' = flow,
         endpoint' = endpoint
  PROVE  FramesInv'
<1>1. IsDone' = FALSE /\ enc.index \in Int /\ enc \in Encoders
  BY DEF IsDone, FramesInv, Encoders
<1>2. PICK call : Started(client)
                    = Client(TRUE, FALSE, OpenBlock(enc), enc.open, call, enc.index + 1)
  BY StartedIsBegun
<1>3. /\ enc' \in Encoders /\ enc'.started = TRUE
      /\ enc'.open = enc.open /\ enc'.index = enc.index
  BY <1>1 DEF MessagesArgs, Encoders
<1>4. OpenBlock(enc') = OpenBlock(enc)
  BY <1>3 DEF OpenBlock
<1>5. client' = Client(TRUE, FALSE, OpenBlock(enc), enc.open, call, enc.index + 1)
  <2>1. CASE enc.open = "tool_use"
    <3>1. OpenBlock(enc) = enc.index
      BY <2>1 DEF OpenBlock
    <3> QED
      BY <1>2, <2>1, <3>1, DeltaIsAwaited, ZenonT(60) DEF MessagesArgs
  <2>2. CASE enc.open # "tool_use"
    BY <1>2, <2>2 DEF MessagesArgs
  <2> QED
    BY <2>1, <2>2
<1> QED
  BY <1>1, <1>3, <1>4, <1>5, FramesAgree

(* The message ends with every block closed.                               *)
LEMMA EndIsFramed ==
  ASSUME FramesInv, flow # "done", MessagesDone, flow' = "done", endpoint' = endpoint,
         endpoint = "messages"
  PROVE  FramesInv'
<1>1. IsDone' = TRUE /\ enc \in Encoders
  BY DEF IsDone, FramesInv
<1>2. PICK call : ClosedBlock(Started(client))
                    = Client(TRUE, FALSE, NoBlock, "none", call, enc.index + 1)
  BY ClosedIsQuiet
<1>3. client' = Client(TRUE, TRUE, NoBlock, "none", call, enc.index + 1)
  BY <1>2, EndIsAwaited DEF MessagesDone
<1>4. enc' \in Encoders /\ enc'.started = TRUE /\ enc'.open = "none" /\ enc'.index = enc.index
  BY <1>1 DEF MessagesDone, Encoders
<1>5. OpenBlock(enc') = NoBlock
  BY <1>4 DEF OpenBlock
<1> QED
  BY <1>1, <1>3, <1>4, <1>5, FramesAgree

(* The start: the encoder and its client have seen nothing.                *)
LEMMA StreamInitInv == StreamInit => FramesInv
<1> SUFFICES ASSUME StreamInit PROVE FramesInv
  OBVIOUS
<1>1. client = Client(FALSE, FALSE, NoBlock, "none", NoBlock, 0)
  BY DEF StreamInit, Listening, Client
<1>2. /\ enc \in Encoders /\ enc.started = FALSE /\ enc.open = "none" /\ enc.index + 1 = 0
  BY DEF StreamInit, Hello, Encoders, NoBlock
<1>3. IsDone = FALSE /\ OpenBlock(enc) = NoBlock
  BY <1>2 DEF StreamInit, IsDone, OpenBlock
<1> QED
  BY <1>1, <1>2, <1>3 DEF StreamInit, FramesInv

(* Every step: only a frame touches the encoder and its client.            *)
LEMMA StreamStepInv ==
  ASSUME FramesInv, [StreamNext]_streamVars
  PROVE  FramesInv'
<1>1. ASSUME NEW n, NEW evs, Chunk(n, evs) PROVE FramesInv'
  BY <1>1, FramesStay DEF Chunk, clientVars, IsDone
<1>2. CASE TextChunk
  BY <1>1, <1>2 DEF TextChunk
<1>3. ASSUME NEW i \in ToolCalls, NEW id \in BOOLEAN, NEW name \in BOOLEAN,
             NEW args \in BOOLEAN, OpenAIToolChunk(i, id, name, args)
      PROVE  FramesInv'
  BY <1>1, <1>3 DEF OpenAIToolChunk
<1>4. CASE AnthropicBlockStart
  BY <1>1, <1>4 DEF AnthropicBlockStart
<1>5. CASE AnthropicInputDelta
  BY <1>1, <1>5 DEF AnthropicInputDelta
<1>6. ASSUME NEW text \in BOOLEAN, NEW k \in 0 .. MaxToolCalls, WholeAnswer(text, k)
      PROVE  FramesInv'
  BY <1>1, <1>6 DEF WholeAnswer
<1>7. CASE StreamEnds
  BY <1>1, <1>7 DEF StreamEnds
<1>8. ASSUME NEW next, AttemptFails(next) PROVE FramesInv'
  BY <1>8, FramesStay DEF AttemptFails, clientVars, IsDone
<1>9. CASE Forward
  <2> DEFINE e == Head(events)
  <2>1. flow = "streaming" /\ endpoint' = endpoint
    BY <1>9 DEF Forward
  <2>2. CASE endpoint = "completions" /\ CompletionsChunk(e)
    BY <2>1, <2>2, FramesStay DEF CompletionsChunk, IsDone
  <2>3. CASE endpoint = "messages" /\ e.type = "text_delta" /\ MessagesText(e.piece)
    <3>1. flow' = flow
      BY <2>3, <1>9 DEF Forward
    <3> QED
      BY <2>1, <2>3, <3>1, TextIsFramed
  <2>4. CASE endpoint = "messages" /\ e.type = "tool_call_start" /\ MessagesCall(e.index)
    <3>1. flow' = flow
      BY <2>4, <1>9 DEF Forward
    <3> QED
      BY <2>1, <2>4, <3>1, CallIsFramed
  <2>5. CASE endpoint = "messages" /\ e.type = "tool_call_delta" /\ MessagesArgs(e.piece)
    <3>1. flow' = flow
      BY <2>5, <1>9 DEF Forward
    <3> QED
      BY <2>1, <2>5, <3>1, ArgsAreFramed
  <2>6. CASE endpoint = "messages" /\ e.type = "done" /\ MessagesDone
    <3>1. flow' = "done"
      BY <2>6, <1>9 DEF Forward
    <3> QED
      BY <2>1, <2>6, <3>1, EndIsFramed
  <2> QED
    BY <1>9, <2>2, <2>3, <2>4, <2>5, <2>6 DEF Forward
<1>10. CASE UNCHANGED streamVars
  BY <1>10, FramesStay DEF streamVars, clientVars, IsDone
<1> QED
  BY <1>2, <1>3, <1>4, <1>5, <1>6, <1>7, <1>8, <1>9, <1>10 DEF StreamNext

(* The frames of createAnthropicSSEEncoder nest, whatever the upstreams    *)
(* send and wherever they fail.                                            *)
THEOREM AlwaysFramesNest == StreamSpec => []FramesNest
<1>1. FramesInv => FramesNest
  <2> SUFFICES ASSUME FramesInv PROVE FramesNest
    OBVIOUS
  <2>1. PICK call :
          client = Client(enc.started, IsDone, OpenBlock(enc), enc.open, call, enc.index + 1)
    BY DEF FramesInv
  <2>2. client.garbled = FALSE /\ client.ended = IsDone
    BY <2>1 DEF Client
  <2> QED
    BY <2>2 DEF FramesNest, IsDone
<1> QED
  BY StreamInitInv, StreamStepInv, <1>1, PTL DEF StreamSpec

-----------------------------------------------------------------------------
(* The answer of a stream.  The events on their way are a path from what   *)
(* the client has to what the provider has, by what each event says.       *)

(* What a client has of an answer: its text, its calls, the arguments of   *)
(* each, and the call that a piece of arguments would go to; and what an   *)
(* event that is not the end adds to it, in the block of its own call when *)
(* strict.                                                                 *)
WithPiece(args, i, n) == [args EXCEPT ![i] = Append(@, n)]

Put(a, e) ==
  [text  |-> IF e.type = "text_delta" THEN Append(a.text, e.piece) ELSE a.text,
   calls |-> IF e.type = "tool_call_start" THEN a.calls \cup {e.index} ELSE a.calls,
   args  |-> IF e.type = "tool_call_delta"
             THEN WithPiece(a.args, e.index, e.piece) ELSE a.args,
   to    |-> IF e.type = "text_delta" THEN NoBlock
             ELSE IF e.type = "tool_call_start" THEN e.index ELSE a.to]

Fits(strict, a, e) ==
  /\ e.type # "done"
  /\ e.type = "tool_call_delta" => e.index \in ToolCalls /\ (strict => e.index = a.to)

(* The events s, one after the other, make b of a.                         *)
Leads(strict, a, s, b) ==
  \E t : /\ t[0] = a /\ t[Len(s)] = b
         /\ \A i \in 1 .. Len(s) : Fits(strict, t[i - 1], s[i]) /\ t[i] = Put(t[i - 1], s[i])

LEMMA NothingLeadsNowhere ==
  ASSUME NEW strict \in BOOLEAN, NEW a, NEW b
  PROVE  Leads(strict, a, <<>>, b) <=> a = b
<1>1. Len(<<>>) = 0 /\ 1 .. 0 = {}
  OBVIOUS
<1>2. ASSUME Leads(strict, a, <<>>, b) PROVE a = b
  BY <1>1, <1>2 DEF Leads
<1>3. ASSUME a = b PROVE Leads(strict, a, <<>>, b)
  <2> DEFINE t == [i \in {0} |-> a]
  <2>1. t[0] = a /\ t[0] = b
    BY <1>3
  <2> HIDE DEF t
  <2> QED
    BY <1>1, <2>1 DEF Leads
<1> QED
  BY <1>2, <1>3

LEMMA OneLeads ==
  ASSUME NEW strict \in BOOLEAN, NEW a, NEW e, Fits(strict, a, e)
  PROVE  Leads(strict, a, <<e>>, Put(a, e))
<1> DEFINE t == [i \in {0, 1} |-> IF i = 0 THEN a ELSE Put(a, e)]
<1>1. t[0] = a /\ t[1] = Put(a, e)
  OBVIOUS
<1>2. Len(<<e>>) = 1 /\ <<e>>[1] = e /\ \A i \in 1 .. 1 : i = 1 /\ i - 1 = 0
  OBVIOUS
<1> HIDE DEF t
<1> QED
  BY <1>1, <1>2 DEF Leads

LEMMA BothLead ==
  ASSUME NEW strict \in BOOLEAN, NEW a, NEW b, NEW c, NEW S, NEW r \in Seq(S), NEW s \in Seq(S),
         Leads(strict, a, r, b), Leads(strict, b, s, c)
  PROVE  Leads(strict, a, r \o s, c)
<1> DEFINE m == Len(r)
           n == Len(s)
           q == r \o s
<1>1. m \in Nat /\ n \in Nat
  BY LenProperties
<1>2. /\ Len(q) = m + n
      /\ \A i \in 1 .. m + n : q[i] = IF i <= m THEN r[i] ELSE s[i - m]
  BY ConcatProperties
<1>3. PICK x : /\ x[0] = a /\ x[m] = b
               /\ \A i \in 1 .. m : Fits(strict, x[i - 1], r[i]) /\ x[i] = Put(x[i - 1], r[i])
  BY DEF Leads
<1>4. PICK y : /\ y[0] = b /\ y[n] = c
               /\ \A i \in 1 .. n : Fits(strict, y[i - 1], s[i]) /\ y[i] = Put(y[i - 1], s[i])
  BY DEF Leads
<1> HIDE DEF m, n, q
<1> DEFINE t == [i \in 0 .. m + n |-> IF i <= m THEN x[i] ELSE y[i - m]]
<1>5. \A i \in 0 .. m : t[i] = x[i]
  BY <1>1
<1>6. ASSUME NEW i \in m .. m + n PROVE t[i] = y[i - m]
  <2>1. i \in 0 .. m + n /\ (i <= m => i = m /\ i - m = 0)
    BY <1>1
  <2> QED
    BY <1>3, <1>4, <2>1
<1> HIDE DEF t
<1>7. t[0] = a
  BY <1>1, <1>3, <1>5
<1>8. t[m + n] = c
  <2>1. m + n \in m .. m + n /\ (m + n) - m = n
    BY <1>1
  <2> QED
    BY <1>4, <1>6, <2>1
<1>9. ASSUME NEW i \in 1 .. m + n PROVE Fits(strict, t[i - 1], q[i]) /\ t[i] = Put(t[i - 1], q[i])
  <2>1. CASE i <= m
    <3>1. i \in 1 .. m /\ i \in 0 .. m /\ i - 1 \in 0 .. m /\ q[i] = r[i]
      BY <1>1, <1>2, <2>1
    <3> QED
      BY <1>3, <1>5, <3>1
  <2>2. CASE ~(i <= m)
    <3> DEFINE j == i - m
    <3>1. j \in 1 .. n /\ i \in m .. m + n /\ i - 1 \in m .. m + n /\ (i - 1) - m = j - 1
          /\ q[i] = s[j]
      BY <1>1, <1>2, <2>2
    <3>2. t[i] = y[j] /\ t[i - 1] = y[j - 1]
      BY <1>6, <3>1
    <3> HIDE DEF j
    <3> QED
      BY <1>4, <3>1, <3>2
  <2> QED
    BY <2>1, <2>2
<1>10. Leads(strict, a, q, c)
  BY <1>2, <1>7, <1>8, <1>9 DEF Leads
<1> QED
  BY <1>10 DEF q

(* The first event of those leads to where the rest leads on from.         *)
LEMMA FirstLeads ==
  ASSUME NEW strict \in BOOLEAN, NEW a, NEW b, NEW S, NEW s \in Seq(S), s # <<>>,
         Leads(strict, a, s, b)
  PROVE  Fits(strict, a, Head(s)) /\ Leads(strict, Put(a, Head(s)), Tail(s), b)
<1> DEFINE r == Tail(s)
           n == Len(s)
<1>1. n \in Nat \ {0} /\ Head(s) = s[1] /\ Len(r) = n - 1 /\ \A i \in 1 .. n - 1 : r[i] = s[i + 1]
  BY LenProperties, HeadTailProperties, EmptySeq
<1>2. PICK x : /\ x[0] = a /\ x[n] = b
               /\ \A i \in 1 .. n : Fits(strict, x[i - 1], s[i]) /\ x[i] = Put(x[i - 1], s[i])
  BY DEF Leads
<1> HIDE DEF n, r
<1>3. Fits(strict, a, s[1]) /\ x[1] = Put(a, s[1])
  <2>1. 1 \in 1 .. n /\ 1 - 1 = 0
    BY <1>1
  <2> QED
    BY <1>2, <2>1
<1> DEFINE t == [i \in 0 .. n - 1 |-> x[i + 1]]
<1>4. \A i \in 0 .. n - 1 : t[i] = x[i + 1]
  OBVIOUS
<1> HIDE DEF t
<1>5. t[0] = x[1] /\ t[n - 1] = x[n]
  <2>1. 0 \in 0 .. n - 1 /\ n - 1 \in 0 .. n - 1 /\ (n - 1) + 1 = n /\ 0 + 1 = 1
    BY <1>1
  <2>2. t[0] = x[0 + 1] /\ t[n - 1] = x[(n - 1) + 1]
    BY <1>4, <2>1
  <2> QED
    BY <2>1, <2>2
<1>6. ASSUME NEW i \in 1 .. n - 1
      PROVE  Fits(strict, t[i - 1], r[i]) /\ t[i] = Put(t[i - 1], r[i])
  <2>1. /\ i \in 0 .. n - 1 /\ i - 1 \in 0 .. n - 1 /\ i + 1 \in 1 .. n
        /\ (i - 1) + 1 = i /\ (i + 1) - 1 = i
    BY <1>1
  <2>2. t[i - 1] = x[(i - 1) + 1] /\ t[i] = x[i + 1]
    BY <1>4, <2>1
  <2>3. t[i - 1] = x[i]
    BY <2>1, <2>2
  <2>4. Fits(strict, x[(i + 1) - 1], s[i + 1]) /\ x[i + 1] = Put(x[(i + 1) - 1], s[i + 1])
    BY <1>2, <2>1
  <2>5. Fits(strict, x[i], s[i + 1]) /\ x[i + 1] = Put(x[i], s[i + 1])
    BY <2>1, <2>4
  <2> QED
    BY <1>1, <2>2, <2>3, <2>5
<1>7. Leads(strict, x[1], r, b)
  BY <1>1, <1>2, <1>5, <1>6 DEF Leads
<1> QED
  BY <1>1, <1>3, <1>7 DEF r

SentEvents == [type : EventKinds, index : Int, piece : Int]

(* The call whose block is open; whether pieces find their call, and what  *)
(* it takes on /v1/messages.                                               *)
OpenCall == IF enc.open = "tool_use" THEN client.call ELSE NoBlock
Faithful == endpoint = "completions" \/ ~mixed
Strict == endpoint = "messages" /\ ~mixed

ClientHas(a) ==
  /\ a.text = gotText /\ a.calls = gotCalls
  /\ Faithful => a.args = gotArgs
  /\ endpoint = "messages" => a.to = OpenCall

ProviderHas(b) ==
  /\ b.text = content /\ b.calls = started
  /\ Faithful => b.args = callArgs
  /\ upstream # "whole" => b.to = latest

(* The events not yet encoded make the provider's answer of the client's.  *)
OnItsWay ==
  \E a, b : \E s \in Seq(SentEvents) :
    /\ ClientHas(a) /\ ProviderHas(b) /\ Leads(Strict, a, s, b)
    /\ events \in {s, Append(s, Done)}

Nothing == [i \in ToolCalls |-> <<>>]
Unheard == gotText = <<>> /\ gotCalls = {} /\ gotArgs = Nothing /\ enc.open = "none"

(* An answer that comes whole comes once, with its end.                    *)
WholeOnce ==
  flow = "streaming" /\ upstream = "whole" =>
    IF events = <<>> THEN Unheard /\ latest = NoBlock ELSE events[Len(events)] = Done

AnswerTypes ==
  /\ upstream \in {"openai", "anthropic", "whole"} /\ endpoint \in {"messages", "completions"}
  /\ flow \in {"streaming", "done", "broken"}
  /\ events \in Seq(SentEvents)
  /\ pieces \in Nat /\ mixed \in BOOLEAN
  /\ gotArgs \in [ToolCalls -> Seq(Int)]
  /\ latest \in ToolCalls \cup {NoBlock}

CallsKnown == started = hasId \cap hasName /\ hasId \subseteq known /\ hasName \subseteq known

AnswerInv ==
  /\ AnswerTypes /\ CallsKnown /\ WholeOnce
  /\ flow = "streaming" => OnItsWay
  /\ ClientGetsAnswer

LEMMA EventsAreSent ==
  /\ \A n \in Nat : TextDelta(n) \in SentEvents /\ Done \in SentEvents
  /\ \A i \in ToolCalls, n \in Nat : CallStart(i) \in SentEvents /\ CallDelta(i, n) \in SentEvents
<1>1. ToolCalls \subseteq Int /\ NoBlock \in Int
  BY StreamAssumption DEF ToolCalls, NoBlock
<1> QED
  BY <1>1 DEF TextDelta, Done, CallStart, CallDelta, Event, EventKinds, SentEvents

(* What the events of a chunk put where.                                   *)
LEMMA TextPut ==
  ASSUME NEW strict \in BOOLEAN, NEW a, NEW n, NEW b, b = Put(a, TextDelta(n))
  PROVE  /\ Leads(strict, a, <<TextDelta(n)>>, b)
         /\ b.text = Append(a.text, n) /\ b.calls = a.calls /\ b.args = a.args
         /\ b.to = NoBlock
<1> DEFINE e == TextDelta(n)
<1>1. e.type = "text_delta" /\ e.piece = n
  BY DEF TextDelta, Event
<1> HIDE DEF e
<1>2. b = Put(a, e)
  BY DEF e
<1>3. Fits(strict, a, e)
  BY <1>1 DEF Fits
<1>4. b.text = Append(a.text, n) /\ b.calls = a.calls /\ b.args = a.args /\ b.to = NoBlock
  BY <1>1, <1>2 DEF Put
<1>5. Leads(strict, a, <<e>>, b)
  BY <1>2, <1>3, OneLeads
<1> QED
  BY <1>4, <1>5 DEF e

LEMMA StartPut ==
  ASSUME NEW strict \in BOOLEAN, NEW a, NEW i, NEW b, b = Put(a, CallStart(i))
  PROVE  /\ Leads(strict, a, <<CallStart(i)>>, b)
         /\ b.text = a.text /\ b.calls = a.calls \cup {i} /\ b.args = a.args /\ b.to = i
<1> DEFINE e == CallStart(i)
<1>1. e.type = "tool_call_start" /\ e.index = i
  BY DEF CallStart, Event
<1> HIDE DEF e
<1>2. b = Put(a, e)
  BY DEF e
<1>3. Fits(strict, a, e)
  BY <1>1 DEF Fits
<1>4. b.text = a.text /\ b.calls = a.calls \cup {i} /\ b.args = a.args /\ b.to = i
  BY <1>1, <1>2 DEF Put
<1>5. Leads(strict, a, <<e>>, b)
  BY <1>2, <1>3, OneLeads
<1> QED
  BY <1>4, <1>5 DEF e

LEMMA DeltaPut ==
  ASSUME NEW strict \in BOOLEAN, NEW a, NEW i \in ToolCalls, strict => i = a.to, NEW n,
         NEW b, b = Put(a, CallDelta(i, n))
  PROVE  /\ Leads(strict, a, <<CallDelta(i, n)>>, b)
         /\ b.text = a.text /\ b.calls = a.calls
         /\ b.args = WithPiece(a.args, i, n) /\ b.to = a.to
<1> DEFINE e == CallDelta(i, n)
<1>1. e.type = "tool_call_delta" /\ e.index = i /\ e.piece = n
  BY DEF CallDelta, Event
<1> HIDE DEF e
<1>2. b = Put(a, e)
  BY DEF e
<1>3. Fits(strict, a, e)
  BY <1>1 DEF Fits
<1>4. b.text = a.text /\ b.calls = a.calls /\ b.to = a.to /\ b.args = WithPiece(a.args, i, n)
  <2>1. ~(e.type = "text_delta") /\ ~(e.type = "tool_call_start")
    BY <1>1
  <2>2. b = [text |-> a.text, calls |-> a.calls,
             args |-> WithPiece(a.args, e.index, e.piece), to |-> a.to]
    BY <1>1, <1>2, <2>1, Zenon DEF Put
  <2> QED
    BY <1>1, <2>2
<1>5. Leads(strict, a, <<e>>, b)
  BY <1>2, <1>3, OneLeads
<1> QED
  BY <1>4, <1>5 DEF e

(* When nothing is on its way the client has all the provider has.         *)
LEMMA NothingPending ==
  ASSUME OnItsWay, events = <<>>
  PROVE  \E a : ClientHas(a) /\ ProviderHas(a)
<1>1. PICK a, b : \E s \in Seq(SentEvents) :
        /\ ClientHas(a) /\ ProviderHas(b) /\ Leads(Strict, a, s, b)
        /\ events \in {s, Append(s, Done)}
  BY DEF OnItsWay
<1>2. PICK s \in Seq(SentEvents) :
        /\ ClientHas(a) /\ ProviderHas(b) /\ Leads(Strict, a, s, b)
        /\ events \in {s, Append(s, Done)}
  BY <1>1
<1>3. Append(s, Done) # <<>>
  BY AppendProperties, EventsAreSent
<1>4. s = <<>>
  BY <1>2, <1>3
<1>5. Strict \in BOOLEAN
  BY DEF Strict
<1>6. a = b
  BY <1>2, <1>4, <1>5, NothingLeadsNowhere
<1> QED
  BY <1>2, <1>6

(* A chunk's events put it on its way.                                     *)
LEMMA ChunkIsOnItsWay ==
  ASSUME NEW a, NEW b, NEW s \in Seq(SentEvents), ClientHas(a),
         NEW n, NEW made_, Chunk(n, made_), made_ \in {s, Append(s, Done)},
         Faithful' => Faithful,
         NEW strict \in BOOLEAN, strict <=> Strict', Leads(strict, a, s, b), ProviderHas(b)'
  PROVE  OnItsWay'
<1>1. /\ UNCHANGED <<enc, client, gotText, gotCalls, gotArgs, endpoint>> /\ events' = made_
  BY DEF Chunk, clientVars
<1>2. OpenCall' = OpenCall
  BY <1>1 DEF OpenCall
<1>3. ClientHas(a)'
  BY <1>1, <1>2 DEF ClientHas
<1>4. events' \in {s, Append(s, Done)}
  BY <1>1
<1>5. Leads(Strict', a, s, b)
  BY DEF Leads, Fits
<1> QED
  BY <1>3, <1>4, <1>5 DEF OnItsWay

LEMMA ChunkKeepsAnswer ==
  ASSUME AnswerInv, NEW n \in Nat, NEW made_ \in Seq(SentEvents), Chunk(n, made_),
         mixed' \in BOOLEAN, latest' \in ToolCalls \cup {NoBlock},
         CallsKnown', OnItsWay', WholeOnce'
  PROVE  AnswerInv'
<1>1. /\ UNCHANGED <<upstream, endpoint, flow, gotArgs>> /\ flow = "streaming"
      /\ pieces' = pieces + n /\ events' = made_
  BY DEF Chunk, clientVars
<1>2. AnswerTypes'
  BY <1>1 DEF AnswerInv, AnswerTypes
<1>3. ClientGetsAnswer'
  BY <1>1 DEF ClientGetsAnswer
<1> QED
  BY <1>2, <1>3 DEF AnswerInv

LEMMA ChunkFindsNothingPending ==
  ASSUME AnswerInv, NEW n, NEW made_, Chunk(n, made_)
  PROVE  /\ \E a : ClientHas(a) /\ ProviderHas(a)
         /\ UNCHANGED <<upstream, endpoint, flow>> /\ events = <<>> /\ flow = "streaming"
         /\ pieces + 1 \in Nat
<1>1. events = <<>> /\ flow = "streaming" /\ UNCHANGED <<upstream, endpoint, flow>>
  BY DEF Chunk
<1> QED
  BY <1>1, NothingPending DEF AnswerInv, AnswerTypes

LEMMA TextChunkKeepsAnswer ==
  ASSUME AnswerInv, TextChunk
  PROVE  AnswerInv'
<1> DEFINE p == pieces + 1
           e == TextDelta(p)
<1>1. /\ upstream # "whole" /\ Chunk(1, <<e>>) /\ content' = Append(content, p)
      /\ latest' = NoBlock /\ UNCHANGED <<callArgs, known, hasId, hasName, started, mixed>>
  BY DEF TextChunk
<1>2. /\ \E a : ClientHas(a) /\ ProviderHas(a)
      /\ UNCHANGED <<upstream, endpoint, flow>> /\ p \in Nat
  BY <1>1, ChunkFindsNothingPending
<1> HIDE DEF p
<1>3. e \in SentEvents /\ <<e>> \in Seq(SentEvents)
  BY <1>2, EventsAreSent
<1>4. PICK a : ClientHas(a) /\ ProviderHas(a)
  BY <1>2
<1>5. PICK strict \in BOOLEAN : strict <=> Strict'
  OBVIOUS
<1>6. PICK b : b = Put(a, TextDelta(p))
  OBVIOUS
<1>7. /\ Leads(strict, a, <<e>>, b)
      /\ b.text = Append(a.text, p) /\ b.calls = a.calls /\ b.args = a.args
      /\ b.to = NoBlock
  BY <1>6, TextPut
<1>8. Faithful' = Faithful
  BY <1>1, <1>2 DEF Faithful
<1>9. ProviderHas(b)'
  BY <1>1, <1>4, <1>7, <1>8 DEF ProviderHas
<1> HIDE DEF e
<1>10. OnItsWay'
  BY <1>1, <1>3, <1>4, <1>7, <1>8, <1>9, <1>5, ChunkIsOnItsWay
<1>11. CallsKnown' /\ WholeOnce' /\ mixed' \in BOOLEAN
  BY <1>1, <1>2 DEF AnswerInv, CallsKnown, WholeOnce, AnswerTypes
<1> QED
  BY <1>1, <1>3, <1>10, <1>11, ChunkKeepsAnswer

LEMMA OpenAIToolChunkKeepsAnswer ==
  ASSUME AnswerInv, NEW i \in ToolCalls, NEW id \in BOOLEAN, NEW name \in BOOLEAN,
         NEW args \in BOOLEAN, OpenAIToolChunk(i, id, name, args)
  PROVE  AnswerInv'
<1> DEFINE p == pieces + 1
           n == IF args THEN 1 ELSE 0
           r == IF Announces(i) THEN <<CallStart(i)>> ELSE <<>>
           s == IF args THEN <<CallDelta(i, p)>> ELSE <<>>
<1>1. /\ upstream = "openai" /\ Chunk(n, r \o s) /\ content' = content
      /\ known' = known \cup {i}
      /\ hasId' = (IF id THEN hasId \cup {i} ELSE hasId)
      /\ hasName' = (IF name THEN hasName \cup {i} ELSE hasName)
      /\ started' = (IF Announces(i) THEN started \cup {i} ELSE started)
      /\ latest' = (IF Announces(i) THEN i ELSE latest)
      /\ callArgs' = (IF args THEN WithPiece(callArgs, i, p) ELSE callArgs)
      /\ mixed' = (mixed \/ (args /\ latest' # i))
  BY Zenon DEF OpenAIToolChunk, WithPiece
<1>2. /\ \E a : ClientHas(a) /\ ProviderHas(a)
      /\ UNCHANGED <<upstream, endpoint, flow>> /\ p \in Nat /\ n \in Nat
  BY <1>1, ChunkFindsNothingPending
<1> HIDE DEF p, n
<1>3. PICK a : ClientHas(a) /\ ProviderHas(a)
  BY <1>2
<1>4. PICK strict \in BOOLEAN : strict <=> Strict'
  OBVIOUS
<1>5. /\ CallStart(i) \in SentEvents /\ CallDelta(i, p) \in SentEvents
      /\ r \in Seq(SentEvents) /\ s \in Seq(SentEvents)
  BY <1>2, EventsAreSent
<1>6. mixed \in BOOLEAN /\ mixed' \in BOOLEAN /\ latest \in ToolCalls \cup {NoBlock}
      /\ (Faithful' => Faithful)
  BY <1>1, <1>2 DEF AnswerInv, AnswerTypes, Faithful
<1>7. PICK b : b = IF Announces(i) THEN Put(a, CallStart(i)) ELSE a
  OBVIOUS
<1>8. /\ Leads(strict, a, r, b) /\ b.text = a.text /\ b.args = a.args
      /\ b.calls = (IF Announces(i) THEN a.calls \cup {i} ELSE a.calls)
      /\ b.to = latest'
  <2>1. a.to = latest
    BY <1>1, <1>3 DEF ProviderHas
  <2>2. CASE Announces(i)
    <3>1. b = Put(a, CallStart(i)) /\ r = <<CallStart(i)>>
      BY <1>7, <2>2
    <3>2. /\ Leads(strict, a, <<CallStart(i)>>, b)
          /\ b.text = a.text /\ b.calls = a.calls \cup {i} /\ b.args = a.args /\ b.to = i
      BY <3>1, StartPut
    <3> QED
      BY <1>1, <2>2, <3>1, <3>2
  <2>3. CASE ~Announces(i)
    BY <1>1, <1>7, <2>1, <2>3, NothingLeadsNowhere
  <2> QED
    BY <2>2, <2>3
<1> HIDE DEF r
<1>9. PICK c : c = IF args THEN Put(b, CallDelta(i, p)) ELSE b
  OBVIOUS
<1>10. /\ Leads(strict, b, s, c) /\ c.text = b.text /\ c.calls = b.calls /\ c.to = b.to
      /\ c.args = (IF args THEN WithPiece(b.args, i, p) ELSE b.args)
  <2>1. CASE args
    <3>1. strict => i = b.to
      BY <1>1, <1>8, <1>4, <2>1 DEF Strict
    <3>2. c = Put(b, CallDelta(i, p))
      BY <1>9, <2>1
    <3>3. /\ Leads(strict, b, <<CallDelta(i, p)>>, c) /\ c.text = b.text /\ c.calls = b.calls
          /\ c.args = WithPiece(b.args, i, p) /\ c.to = b.to
      BY <3>1, <3>2, DeltaPut
    <3>4. s = <<CallDelta(i, p)>>
      BY <2>1
    <3> QED
      BY <2>1, <3>3, <3>4
  <2>2. CASE ~args
    BY <1>9, <2>2, NothingLeadsNowhere
  <2> QED
    BY <2>1, <2>2
<1> HIDE DEF s
<1>11. Leads(strict, a, r \o s, c) /\ r \o s \in Seq(SentEvents)
  BY <1>5, <1>8, <1>10, BothLead, ConcatProperties
<1>12. ProviderHas(c)'
  <2>1. c.text = content' /\ c.to = latest'
    BY <1>1, <1>3, <1>8, <1>10 DEF ProviderHas
  <2>2. c.calls = started'
    <3>1. a.calls = started
      BY <1>3 DEF ProviderHas
    <3> QED
      BY <1>1, <1>8, <1>10, <3>1
  <2>3. Faithful' => c.args = callArgs'
    <3>1. Faithful' => a.args = callArgs
      BY <1>3, <1>6 DEF ProviderHas
    <3> QED
      BY <1>1, <1>8, <1>10, <3>1
  <2> QED
    BY <2>1, <2>2, <2>3 DEF ProviderHas
<1>13. OnItsWay'
  BY <1>1, <1>3, <1>6, <1>11, <1>12, <1>4, ChunkIsOnItsWay
<1>14. CallsKnown'
  <2>1. started = hasId \cap hasName /\ hasId \subseteq known /\ hasName \subseteq known
    BY DEF AnswerInv, CallsKnown
  <2>2. Announces(i) <=> i \notin started /\ i \in hasId' /\ i \in hasName'
    BY DEF Announces
  <2>3. started' = hasId' \cap hasName'
    BY <1>1, <2>1, <2>2
  <2> QED
    BY <1>1, <2>1, <2>3 DEF CallsKnown
<1>15. WholeOnce' /\ latest' \in ToolCalls \cup {NoBlock}
  BY <1>1, <1>2, <1>6 DEF WholeOnce
<1> QED
  BY <1>1, <1>2, <1>6, <1>11, <1>13, <1>14, <1>15, ChunkKeepsAnswer

LEMMA AnthropicKeepsAnswer ==
  ASSUME AnswerInv, AnthropicBlockStart \/ AnthropicInputDelta
  PROVE  AnswerInv'
<1>1. CASE AnthropicBlockStart
  <2> DEFINE i == Cardinality(known)
             e == CallStart(i)
  <2>1. /\ upstream = "anthropic" /\ i \in ToolCalls /\ Chunk(0, <<e>>)
        /\ known' = known \cup {i} /\ hasId' = hasId \cup {i} /\ hasName' = hasName \cup {i}
        /\ started' = started \cup {i} /\ latest' = i
        /\ UNCHANGED <<content, callArgs, mixed>>
    BY <1>1 DEF AnthropicBlockStart
  <2>2. /\ \E a : ClientHas(a) /\ ProviderHas(a)
        /\ UNCHANGED <<upstream, endpoint, flow>>
    BY <2>1, ChunkFindsNothingPending
  <2> HIDE DEF i
  <2>3. <<e>> \in Seq(SentEvents)
    BY <2>1, EventsAreSent
  <2>4. PICK a : ClientHas(a) /\ ProviderHas(a)
    BY <2>2
  <2>5. PICK strict \in BOOLEAN : strict <=> Strict'
    OBVIOUS
  <2>6. PICK b : b = Put(a, CallStart(i))
    OBVIOUS
  <2>7. /\ Leads(strict, a, <<e>>, b) /\ b.text = a.text /\ b.args = a.args
        /\ b.calls = a.calls \cup {i} /\ b.to = i
    BY <2>6, StartPut
  <2>8. Faithful' = Faithful
    BY <2>1, <2>2 DEF Faithful
  <2>9. ProviderHas(b)'
    BY <2>1, <2>4, <2>7, <2>8 DEF ProviderHas
  <2> HIDE DEF e
  <2>10. OnItsWay'
    BY <2>1, <2>3, <2>4, <2>7, <2>8, <2>9, <2>5, ChunkIsOnItsWay
  <2>11. CallsKnown' /\ WholeOnce' /\ mixed' \in BOOLEAN
    BY <2>1, <2>2 DEF AnswerInv, CallsKnown, WholeOnce, AnswerTypes
  <2> QED
    BY <2>1, <2>3, <2>10, <2>11, ChunkKeepsAnswer
<1>2. CASE AnthropicInputDelta
  <2> DEFINE p == pieces + 1
             e == CallDelta(latest, p)
  <2>1. /\ upstream = "anthropic" /\ latest # NoBlock /\ Chunk(1, <<e>>)
        /\ callArgs' = WithPiece(callArgs, latest, p)
        /\ UNCHANGED <<content, known, hasId, hasName, started, latest, mixed>>
    BY <1>2 DEF AnthropicInputDelta, WithPiece
  <2>2. /\ \E a : ClientHas(a) /\ ProviderHas(a)
        /\ UNCHANGED <<upstream, endpoint, flow>> /\ p \in Nat
    BY <2>1, ChunkFindsNothingPending
  <2>3. latest \in ToolCalls
    BY <2>1 DEF AnswerInv, AnswerTypes
  <2> HIDE DEF p
  <2>4. <<e>> \in Seq(SentEvents)
    BY <2>2, <2>3, EventsAreSent
  <2>5. PICK a : ClientHas(a) /\ ProviderHas(a)
    BY <2>2
  <2>6. PICK strict \in BOOLEAN : strict <=> Strict'
    OBVIOUS
  <2>7. a.to = latest
    BY <2>1, <2>5 DEF ProviderHas
  <2>8. PICK b : b = Put(a, CallDelta(latest, p))
    OBVIOUS
  <2>9. /\ Leads(strict, a, <<e>>, b) /\ b.text = a.text /\ b.calls = a.calls
        /\ b.args = WithPiece(a.args, latest, p) /\ b.to = a.to
    BY <2>3, <2>7, <2>8, DeltaPut
  <2>10. Faithful' = Faithful
    BY <2>1, <2>2 DEF Faithful
  <2>11. ProviderHas(b)'
    BY <2>1, <2>5, <2>9, <2>10 DEF ProviderHas
  <2> HIDE DEF e
  <2>12. OnItsWay'
    BY <2>1, <2>4, <2>5, <2>9, <2>10, <2>11, <2>6, ChunkIsOnItsWay
  <2>13. CallsKnown' /\ WholeOnce' /\ mixed' \in BOOLEAN /\ latest' \in ToolCalls \cup {NoBlock}
    BY <2>1, <2>2, <2>3 DEF AnswerInv, CallsKnown, WholeOnce, AnswerTypes
  <2> QED
    BY <2>1, <2>4, <2>12, <2>13, ChunkKeepsAnswer
<1> QED
  BY <1>1, <1>2

(* The end of a stream is an event after all others.                       *)
LEMMA StreamEndsKeepsAnswer ==
  ASSUME AnswerInv, StreamEnds
  PROVE  AnswerInv'
<1>1. /\ upstream # "whole" /\ Chunk(0, <<Done>>)
      /\ UNCHANGED <<content, callArgs, known, hasId, hasName, started, latest, mixed>>
  BY DEF StreamEnds, providerVars
<1>2. /\ \E a : ClientHas(a) /\ ProviderHas(a)
      /\ UNCHANGED <<upstream, endpoint, flow>>
  BY <1>1, ChunkFindsNothingPending
<1>3. PICK a : ClientHas(a) /\ ProviderHas(a)
  BY <1>2
<1>4. PICK strict \in BOOLEAN : strict <=> Strict'
  OBVIOUS
<1>5. <<Done>> \in Seq(SentEvents) /\ <<Done>> = Append(<<>>, Done) /\ <<>> \in Seq(SentEvents)
  BY EventsAreSent
<1>6. Leads(strict, a, <<>>, a)
  BY NothingLeadsNowhere
<1>7. Faithful' = Faithful /\ ProviderHas(a)'
  BY <1>1, <1>2, <1>3 DEF Faithful, ProviderHas
<1>8. OnItsWay'
  BY <1>1, <1>3, <1>5, <1>6, <1>7, <1>4, ChunkIsOnItsWay
<1>9. CallsKnown' /\ WholeOnce' /\ mixed' \in BOOLEAN /\ latest' \in ToolCalls \cup {NoBlock}
  BY <1>1, <1>2 DEF AnswerInv, CallsKnown, WholeOnce, AnswerTypes
<1> QED
  BY <1>1, <1>5, <1>8, <1>9, ChunkKeepsAnswer

(* The frames of an event of a call leave that call's block open.          *)
LEMMA CallIsOpened ==
  ASSUME FramesInv, flow # "done", NEW i, MessagesCall(i)
  PROVE  OpenCall' = i
<1>1. client' = Client(TRUE, FALSE, enc.index + 1, "tool_use", i, enc.index + 2)
  BY OpenedIsNext DEF MessagesCall
<1>2. client'.call = i
  BY <1>1 DEF Client
<1>3. enc'.open = "tool_use"
  BY DEF MessagesCall, Opens
<1> QED
  BY <1>2, <1>3 DEF OpenCall

LEMMA TextClosesCall ==
  ASSUME FramesInv, NEW n, MessagesText(n)
  PROVE  OpenCall' = NoBlock
<1>1. enc'.open = "text"
  <2>1. CASE enc.open = "text"
    <3>1. enc' = [enc EXCEPT !.started = TRUE] /\ enc \in Encoders
      BY <2>1 DEF MessagesText, FramesInv
    <3> QED
      BY <2>1, <3>1 DEF Encoders
  <2>2. CASE enc.open # "text"
    BY <2>2 DEF MessagesText, Opens
  <2> QED
    BY <2>1, <2>2
<1> QED
  BY <1>1 DEF OpenCall

LEMMA PieceKeepsOpen ==
  ASSUME FramesInv, flow # "done", NEW n, MessagesArgs(n)
  PROVE  OpenCall' = OpenCall
<1>1. enc' = [enc EXCEPT !.started = TRUE] /\ enc \in Encoders
  BY DEF MessagesArgs, FramesInv
<1>2. enc'.open = enc.open
  BY <1>1 DEF Encoders
<1>3. CASE enc.open = "tool_use"
  <2>1. PICK call : client = Client(enc.started, FALSE, OpenBlock(enc), enc.open, call, enc.index + 1)
    <3>1. IsDone = FALSE
      BY DEF IsDone
    <3> QED
      BY <3>1 DEF FramesInv
  <2>2. enc.started = TRUE /\ OpenBlock(enc) = enc.index
    BY <1>3, <1>1 DEF FramesInv, Encoders, OpenBlock
  <2>3. client = Client(TRUE, FALSE, enc.index, "tool_use", call, enc.index + 1)
    BY <1>3, <2>1, <2>2
  <2>4. client' = BlockDelta(client, enc.index, "tool_use")
    BY <1>3, <2>2 DEF MessagesArgs, Started
  <2>5. client' = client
    BY <2>3, <2>4, DeltaIsAwaited
  <2> QED
    BY <1>2, <2>5 DEF OpenCall
<1>4. CASE enc.open # "tool_use"
  BY <1>2, <1>4 DEF OpenCall
<1> QED
  BY <1>3, <1>4

(* The event that is encoded next.                                         *)
LEMMA NextEvent ==
  ASSUME NEW s \in Seq(SentEvents), NEW q, q \in {s, Append(s, Done)}, q # <<>>
  PROVE  /\ Head(q) \in SentEvents /\ Tail(q) \in Seq(SentEvents)
         /\ s = <<>> => Head(q) = Done
         /\ s # <<>> => /\ Head(q) = Head(s) /\ Tail(s) \in Seq(SentEvents)
                        /\ Tail(q) \in {Tail(s), Append(Tail(s), Done)}
<1>1. Done \in SentEvents
  BY EventsAreSent
<1>2. q \in Seq(SentEvents)
  BY <1>1
<1>3. Head(q) \in SentEvents /\ Tail(q) \in Seq(SentEvents)
  BY <1>2, HeadTailProperties
<1>4. ASSUME s = <<>> PROVE Head(q) = Done
  <2>1. q = <<Done>>
    BY <1>4
  <2> QED
    BY <2>1
<1>5. ASSUME s # <<>>
      PROVE  /\ Head(q) = Head(s) /\ Tail(s) \in Seq(SentEvents)
             /\ Tail(q) \in {Tail(s), Append(Tail(s), Done)}
  <2>1. Tail(s) \in Seq(SentEvents) /\ Len(s) \in Nat \ {0}
    BY <1>5, HeadTailProperties, EmptySeq
  <2>2. CASE q = Append(s, Done)
    <3>1. Head(Append(s, Done)) = Head(s)
      BY <1>1, <2>1
    <3>2. Tail(Append(s, Done)) = Append(Tail(s), Done)
      <4> DEFINE x == Tail(Append(s, Done))
                 y == Append(Tail(s), Done)
      <4>1. /\ Append(s, Done) \in Seq(SentEvents) /\ Append(s, Done) # <<>>
            /\ Len(Append(s, Done)) = Len(s) + 1
            /\ \A i \in 1 .. Len(s) + 1 : Append(s, Done)[i] = IF i <= Len(s) THEN s[i] ELSE Done
        BY <1>1, <2>1, AppendProperties
      <4>2. /\ x \in Seq(SentEvents) /\ Len(x) = Len(s)
            /\ \A i \in 1 .. Len(s) : x[i] = Append(s, Done)[i + 1]
        BY <2>1, <4>1, HeadTailProperties
      <4>3. /\ Len(Tail(s)) = Len(s) - 1
            /\ \A i \in 1 .. Len(s) - 1 : Tail(s)[i] = s[i + 1]
        BY <1>5, <2>1, HeadTailProperties
      <4>4. /\ y \in Seq(SentEvents) /\ Len(y) = Len(s)
            /\ \A i \in 1 .. Len(s) : y[i] = IF i <= Len(s) - 1 THEN Tail(s)[i] ELSE Done
        <5>1. /\ y \in Seq(SentEvents) /\ Len(y) = Len(Tail(s)) + 1
              /\ \A i \in 1 .. Len(Tail(s)) + 1 :
                   y[i] = IF i <= Len(Tail(s)) THEN Tail(s)[i] ELSE Done
          BY <1>1, <2>1, AppendProperties
        <5> HIDE DEF y
        <5> QED
          BY <2>1, <4>3, <5>1
      <4> HIDE DEF x, y
      <4>5. ASSUME NEW i \in 1 .. Len(x) PROVE x[i] = y[i]
        <5>1. i \in 1 .. Len(s) /\ i + 1 \in 1 .. Len(s) + 1
          BY <2>1, <4>2
        <5>2. x[i] = IF i + 1 <= Len(s) THEN s[i + 1] ELSE Done
          BY <4>1, <4>2, <5>1
        <5>3. i <= Len(s) - 1 => Tail(s)[i] = s[i + 1]
          BY <2>1, <4>3, <5>1
        <5> QED
          BY <2>1, <4>4, <5>1, <5>2, <5>3
      <4>6. x = y
        BY <4>2, <4>4, <4>5, SeqEqual
      <4> QED
        BY <4>6 DEF x, y
    <3> QED
      BY <2>1, <2>2, <3>1, <3>2
  <2>3. CASE q = s
    BY <2>1, <2>3
  <2> QED
    BY <2>2, <2>3
<1> QED
  BY <1>3, <1>4, <1>5

(* The frames of an event, but the last, put with the client what the      *)
(* event says.                                                             *)
LEMMA FrameIsPut ==
  ASSUME AnswerInv, FramesInv, Forward, Head(events).type # "done", NEW a, ClientHas(a),
         Head(events) \in SentEvents, Fits(Strict, a, Head(events)),
         NEW b, b = Put(a, Head(events))
  PROVE  ClientHas(b)' /\ gotArgs' \in [ToolCalls -> Seq(Int)]
<1> DEFINE e == Head(events)
<1>1. /\ e \in SentEvents /\ e.type # "done" /\ Fits(Strict, a, e) /\ b = Put(a, e)
      /\ flow = "streaming"
      /\ UNCHANGED <<upstream, endpoint, mixed>>
      /\ \/ endpoint = "completions" /\ CompletionsChunk(e)
         \/ endpoint = "messages" /\ e.type = "text_delta" /\ MessagesText(e.piece)
         \/ endpoint = "messages" /\ e.type = "tool_call_start" /\ MessagesCall(e.index)
         \/ endpoint = "messages" /\ e.type = "tool_call_delta" /\ MessagesArgs(e.piece)
  BY DEF Forward, providerVars
<1> HIDE DEF e
<1>2. /\ e.piece \in Int /\ e.type \in {"text_delta", "tool_call_start", "tool_call_delta"}
      /\ (e.type = "tool_call_delta" => e.index \in ToolCalls /\ (Strict => e.index = a.to))
  BY <1>1 DEF SentEvents, EventKinds, Fits
<1>3. /\ gotArgs \in [ToolCalls -> Seq(Int)] /\ (Faithful' <=> Faithful)
      /\ a.text = gotText /\ a.calls = gotCalls /\ (Faithful => a.args = gotArgs)
      /\ (endpoint = "messages" => a.to = OpenCall)
  BY <1>1 DEF AnswerInv, AnswerTypes, Faithful, ClientHas
<1>4. ASSUME NEW i \in ToolCalls
      PROVE  WithPiece(gotArgs, i, e.piece) \in [ToolCalls -> Seq(Int)]
  BY <1>2, <1>3 DEF WithPiece
<1>5. CASE e.type = "text_delta"
  <2>1. /\ b.text = Append(a.text, e.piece) /\ b.calls = a.calls /\ b.args = a.args
        /\ b.to = NoBlock
    BY <1>1, <1>5 DEF Put
  <2>2. gotText' = Append(gotText, e.piece) /\ gotCalls' = gotCalls /\ gotArgs' = gotArgs
    BY <1>1, <1>5 DEF CompletionsChunk, MessagesText
  <2>3. endpoint' = "messages" => OpenCall' = NoBlock
    BY <1>1, <1>5, TextClosesCall
  <2> QED
    BY <1>3, <2>1, <2>2, <2>3 DEF ClientHas
<1>6. CASE e.type = "tool_call_start"
  <2>1. b.text = a.text /\ b.calls = a.calls \cup {e.index} /\ b.args = a.args /\ b.to = e.index
    BY <1>1, <1>6 DEF Put
  <2>2. gotText' = gotText /\ gotCalls' = gotCalls \cup {e.index} /\ gotArgs' = gotArgs
    BY <1>1, <1>6 DEF CompletionsChunk, MessagesCall
  <2>3. endpoint' = "messages" => OpenCall' = e.index
    BY <1>1, <1>6, CallIsOpened
  <2> QED
    BY <1>3, <2>1, <2>2, <2>3 DEF ClientHas
<1>7. CASE e.type = "tool_call_delta"
  <2>1. /\ b.text = a.text /\ b.calls = a.calls /\ b.to = a.to
        /\ b.args = WithPiece(a.args, e.index, e.piece)
    <3>1. ~(e.type = "text_delta") /\ ~(e.type = "tool_call_start")
      BY <1>7
    <3>2. b = [text |-> a.text, calls |-> a.calls,
               args |-> WithPiece(a.args, e.index, e.piece), to |-> a.to]
      BY <1>1, <1>7, <3>1, Zenon DEF Put
    <3> QED
      BY <3>2
  <2>2. CASE endpoint = "completions" /\ CompletionsChunk(e)
    <3>1. /\ gotText' = gotText /\ gotCalls' = gotCalls
          /\ gotArgs' = WithPiece(gotArgs, e.index, e.piece)
      BY <1>7, <2>2 DEF CompletionsChunk, WithPiece
    <3>2. gotArgs' \in [ToolCalls -> Seq(Int)]
      BY <1>2, <1>4, <1>7, <3>1
    <3>3. /\ b.text = gotText' /\ b.calls = gotCalls' /\ (Faithful' => b.args = gotArgs')
          /\ endpoint' # "messages"
      BY <1>1, <1>3, <2>1, <2>2, <3>1
    <3> QED
      BY <3>2, <3>3 DEF ClientHas
  <2>3. CASE endpoint = "messages" /\ MessagesArgs(e.piece)
    <3>1. gotText' = gotText /\ gotCalls' = gotCalls /\ OpenCall' = OpenCall
      BY <1>1, <2>3, PieceKeepsOpen DEF MessagesArgs
    <3>2. gotArgs' \in [ToolCalls -> Seq(Int)]
      <4>1. \/ gotArgs' = gotArgs
            \/ client.call \in ToolCalls /\ gotArgs' = WithPiece(gotArgs, client.call, e.piece)
        BY <2>3 DEF MessagesArgs, WithPiece
      <4> QED
        BY <1>3, <1>4, <4>1
    <3>3. ASSUME Faithful PROVE gotArgs' = WithPiece(gotArgs, e.index, e.piece)
      <4>1. Strict
        BY <2>3, <3>3 DEF Faithful, Strict
      <4>2. e.index = OpenCall /\ OpenCall \in ToolCalls
        BY <1>2, <1>3, <1>7, <2>3, <4>1
      <4>3. NoBlock \notin ToolCalls
        BY StreamAssumption DEF NoBlock, ToolCalls
      <4>4. enc.open = "tool_use" /\ client.call = e.index
        BY <4>2, <4>3 DEF OpenCall
      <4> QED
        BY <2>3, <4>2, <4>4 DEF MessagesArgs, WithPiece
    <3>4. b.to = OpenCall'
      BY <1>3, <2>1, <2>3, <3>1
    <3>5. Faithful' => b.args = gotArgs'
      BY <1>3, <2>1, <3>3
    <3> QED
      BY <1>3, <2>1, <3>1, <3>2, <3>4, <3>5 DEF ClientHas
  <2> QED
    BY <1>1, <1>7, <2>2, <2>3
<1> QED
  BY <1>2, <1>5, <1>6, <1>7

(* With the last, the client has all the provider has.                     *)
LEMMA ForwardKeepsAnswer ==
  ASSUME AnswerInv, FramesInv, Forward
  PROVE  AnswerInv'
<1> DEFINE e == Head(events)
<1>1. /\ flow = "streaming" /\ events # <<>> /\ events' = Tail(events)
      /\ flow' = (IF e.type = "done" THEN "done" ELSE flow)
      /\ UNCHANGED <<upstream, endpoint, content, callArgs, known, hasId, hasName, started,
                     latest, mixed, pieces>>
  BY DEF Forward, providerVars
<1>2. AnswerTypes /\ CallsKnown /\ WholeOnce /\ OnItsWay
  BY <1>1 DEF AnswerInv
<1>3. PICK a, b : \E s \in Seq(SentEvents) :
        /\ ClientHas(a) /\ ProviderHas(b) /\ Leads(Strict, a, s, b)
        /\ events \in {s, Append(s, Done)}
  BY <1>2 DEF OnItsWay
<1>4. PICK s \in Seq(SentEvents) :
        /\ ClientHas(a) /\ ProviderHas(b) /\ Leads(Strict, a, s, b)
        /\ events \in {s, Append(s, Done)}
  BY <1>3
<1>5. PICK strict \in BOOLEAN : strict <=> Strict
  OBVIOUS
<1>6. Leads(strict, a, s, b)
  BY <1>4, <1>5 DEF Leads, Fits
<1>7. /\ e \in SentEvents /\ Tail(events) \in Seq(SentEvents)
      /\ s = <<>> => e = Done
      /\ s # <<>> => /\ e = Head(s) /\ Tail(s) \in Seq(SentEvents)
                     /\ Tail(events) \in {Tail(s), Append(Tail(s), Done)}
  BY <1>1, <1>4, NextEvent
<1>8. CallsKnown' /\ (Faithful' <=> Faithful) /\ (Strict' <=> Strict)
  BY <1>1, <1>2 DEF CallsKnown, Faithful, Strict
<1>9. WholeOnce'
  <2>1. CASE Tail(events) = <<>>
    <3>1. Len(events) = 1
      <4> DEFINE n == Len(events)
                 m == Len(Tail(events))
      <4>1. events \in Seq(SentEvents) /\ n \in Nat \ {0}
        BY <1>1, <1>2, EmptySeq DEF AnswerTypes
      <4>2. m = n - 1
        BY <1>1, <4>1, HeadTailProperties
      <4>3. m = 0
        BY <2>1, EmptySeq, Zenon
      <4> HIDE DEF n, m
      <4>4. n = 1
        BY <4>1, <4>2, <4>3
      <4> QED
        BY <4>4 DEF n
    <3>2. e = events[Len(events)]
      BY <1>1, <1>2, <3>1 DEF AnswerTypes
    <3>3. upstream = "whole" => e = Done
      BY <1>1, <1>2, <3>2 DEF WholeOnce
    <3>4. Done.type = "done"
      BY DEF Done, Event
    <3> QED
      BY <1>1, <3>3, <3>4 DEF WholeOnce
  <2>2. CASE Tail(events) # <<>>
    <3>1. events \in Seq(SentEvents) /\ Len(events) \in Nat \ {0}
      BY <1>1, <1>2, EmptySeq DEF AnswerTypes
    <3>2. /\ Len(Tail(events)) = Len(events) - 1
          /\ \A i \in 1 .. Len(Tail(events)) : Tail(events)[i] = events[i + 1]
      BY <1>1, <3>1, HeadTailProperties
    <3>3. Len(Tail(events)) \in Nat \ {0}
      BY <1>7, <2>2, EmptySeq
    <3>4. Tail(events)[Len(Tail(events))] = events[Len(events)]
      BY <3>1, <3>2, <3>3
    <3>5. upstream = "whole" => events[Len(events)] = Done
      BY <1>1, <1>2 DEF WholeOnce
    <3>6. events' # <<>> /\ events'[Len(events')] = events[Len(events)]
      BY <1>1, <2>2, <3>4
    <3> QED
      BY <1>1, <3>5, <3>6 DEF WholeOnce
  <2> QED
    BY <2>1, <2>2
<1>10. CASE e.type = "done"
  <2>1. s = <<>>
    <3>1. s # <<>> => Fits(strict, a, Head(s))
      BY <1>6, FirstLeads
    <3> QED
      BY <1>7, <1>10, <3>1 DEF Fits
  <2>2. a = b
    BY <1>6, <2>1, NothingLeadsNowhere
  <2>3. gotText' = gotText /\ gotCalls' = gotCalls /\ gotArgs' = gotArgs
    BY <1>10 DEF Forward, CompletionsChunk, MessagesDone
  <2>4. gotText = content /\ gotCalls = started /\ (Faithful => gotArgs = callArgs)
    BY <1>4, <2>2 DEF ClientHas, ProviderHas
  <2>5. started = known \cap hasId \cap hasName
    BY <1>2 DEF CallsKnown
  <2>6. ClientGetsAnswer'
    BY <1>1, <1>8, <2>3, <2>4, <2>5 DEF ClientGetsAnswer, Faithful
  <2>7. AnswerTypes'
    BY <1>1, <1>2, <1>7, <1>10, <2>3 DEF AnswerTypes
  <2>8. flow' # "streaming"
    BY <1>1, <1>10
  <2> QED
    BY <1>8, <1>9, <2>6, <2>7, <2>8 DEF AnswerInv
<1>11. CASE e.type # "done"
  <2>1. s # <<>>
    BY <1>7, <1>11 DEF Done, Event
  <2>2. Fits(strict, a, e) /\ Leads(strict, Put(a, e), Tail(s), b)
    BY <1>6, <1>7, <2>1, FirstLeads
  <2>3. PICK c : c = Put(a, e)
    OBVIOUS
  <2>4. Fits(Strict, a, e)
    BY <1>5, <2>2 DEF Fits
  <2>5. ClientHas(c)' /\ gotArgs' \in [ToolCalls -> Seq(Int)]
    BY <1>4, <1>7, <1>11, <2>3, <2>4, FrameIsPut
  <2>6. ProviderHas(b)'
    BY <1>1, <1>4, <1>8 DEF ProviderHas
  <2>7. Leads(Strict', c, Tail(s), b)
    BY <1>5, <1>8, <2>2, <2>3 DEF Leads, Fits
  <2>8. PICK r \in Seq(SentEvents) : r = Tail(s)
    BY <1>7, <2>1
  <2>9. OnItsWay'
    <3>1. Leads(Strict', c, r, b) /\ events' \in {r, Append(r, Done)}
      BY <1>1, <1>7, <2>1, <2>7, <2>8
    <3> QED
      BY <2>5, <2>6, <3>1 DEF OnItsWay
  <2>10. AnswerTypes' /\ flow' = "streaming"
    BY <1>1, <1>2, <1>7, <1>11, <2>5 DEF AnswerTypes
  <2>11. ClientGetsAnswer'
    BY <2>10 DEF ClientGetsAnswer
  <2> QED
    BY <1>8, <1>9, <2>9, <2>10, <2>11 DEF AnswerInv
<1> QED
  BY <1>10, <1>11

(* An answer of which nothing has come.                                    *)
NoAnswer == [text |-> <<>>, calls |-> {}, args |-> Nothing, to |-> NoBlock]

LEMMA NoAnswerIsNothing ==
  /\ NoAnswer.text = <<>> /\ NoAnswer.calls = {} /\ NoAnswer.args = Nothing
  /\ NoAnswer.to = NoBlock
BY DEF NoAnswer

LEMMA StreamInitAnswer == StreamInit => AnswerInv
<1> SUFFICES ASSUME StreamInit PROVE AnswerInv
  OBVIOUS
<1>1. /\ flow = "streaming" /\ events = <<>> /\ content = <<>> /\ callArgs = Nothing
      /\ known = {} /\ hasId = {} /\ hasName = {} /\ started = {}
      /\ latest = NoBlock /\ mixed = FALSE /\ pieces = 0 /\ enc.open = "none"
      /\ gotText = <<>> /\ gotCalls = {} /\ gotArgs = Nothing
      /\ upstream \in {"openai", "anthropic", "whole"}
      /\ endpoint \in {"messages", "completions"}
  BY DEF StreamInit, Hello, Nothing
<1>2. OpenCall = NoBlock
  BY <1>1 DEF OpenCall
<1>3. PICK a : a = NoAnswer
  OBVIOUS
<1>4. ClientHas(a) /\ ProviderHas(a)
  BY <1>1, <1>2, <1>3, NoAnswerIsNothing DEF ClientHas, ProviderHas
<1>5. PICK strict \in BOOLEAN : strict <=> Strict
  OBVIOUS
<1>6. Leads(Strict, a, <<>>, a)
  <2>1. Leads(strict, a, <<>>, a)
    BY NothingLeadsNowhere
  <2> QED
    BY <1>5, <2>1 DEF Leads, Fits
<1>7. OnItsWay
  BY <1>1, <1>4, <1>6, EmptySeq DEF OnItsWay
<1>8. Nothing \in [ToolCalls -> Seq(Int)]
  BY DEF Nothing
<1>9. AnswerTypes
  <2>1. events \in Seq(SentEvents)
    BY <1>1, EmptySeq
  <2>2. gotArgs \in [ToolCalls -> Seq(Int)] /\ latest \in ToolCalls \cup {NoBlock}
    BY <1>1, <1>8
  <2>3. pieces \in Nat /\ mixed \in BOOLEAN /\ flow \in {"streaming", "done", "broken"}
    BY <1>1
  <2> QED
    BY <1>1, <2>1, <2>2, <2>3 DEF AnswerTypes
<1>10. CallsKnown /\ WholeOnce /\ ClientGetsAnswer
  BY <1>1 DEF CallsKnown, WholeOnce, Unheard, ClientGetsAnswer
<1> QED
  BY <1>7, <1>9, <1>10 DEF AnswerInv

(* Another attempt starts where nothing has been heard.                    *)
LEMMA FailureKeepsAnswer ==
  ASSUME AnswerInv, FramesInv, NEW next \in {"openai", "anthropic", "whole"}, AttemptFails(next)
  PROVE  AnswerInv'
<1>1. /\ flow = "streaming" /\ events' = <<>>
      /\ UNCHANGED <<endpoint, pieces, enc, client, gotText, gotCalls, gotArgs>>
  BY DEF AttemptFails, clientVars
<1>2. AnswerTypes /\ CallsKnown
  BY DEF AnswerInv
<1>3. CASE ~HasSent /\ upstream' = next /\ Afresh /\ flow' = flow
  <2>1. /\ content' = <<>> /\ callArgs' = Nothing /\ known' = {} /\ hasId' = {} /\ hasName' = {}
        /\ started' = {} /\ latest' = NoBlock /\ mixed' = FALSE
    BY <1>3 DEF Afresh, Nothing
  <2>2. Unheard
    <3>1. gotText = <<>> /\ gotCalls = {} /\ ~enc.started
          /\ \A i \in ToolCalls : gotArgs[i] = <<>>
      BY <1>3 DEF HasSent
    <3>2. gotArgs = Nothing
      BY <1>2, <3>1 DEF AnswerTypes, Nothing
    <3>3. enc.open = "none"
      BY <3>1 DEF FramesInv
    <3> QED
      BY <3>1, <3>2, <3>3 DEF Unheard
  <2>3. Unheard'
    BY <1>1, <2>2 DEF Unheard, Nothing
  <2>4. OpenCall' = NoBlock
    BY <2>3 DEF OpenCall, Unheard
  <2>5. PICK a : a = NoAnswer
    OBVIOUS
  <2>6. a.text = <<>> /\ a.calls = {} /\ a.args = Nothing /\ a.to = NoBlock
    BY <2>5, NoAnswerIsNothing
  <2>7. gotText' = <<>> /\ gotCalls' = {} /\ gotArgs' = Nothing
    BY <1>1, <2>2 DEF Unheard
  <2>8. ClientHas(a)' /\ ProviderHas(a)'
    BY <2>1, <2>4, <2>6, <2>7 DEF ClientHas, ProviderHas
  <2>9. PICK strict \in BOOLEAN : strict <=> Strict'
    OBVIOUS
  <2>10. Leads(Strict', a, <<>>, a)
    <3>1. Leads(strict, a, <<>>, a)
      BY NothingLeadsNowhere
    <3> QED
      BY <2>9, <3>1 DEF Leads, Fits
  <2>11. OnItsWay'
    BY <1>1, <2>8, <2>10, EmptySeq DEF OnItsWay
  <2>12. AnswerTypes' /\ flow' = "streaming"
    <3>1. /\ events' \in Seq(SentEvents) /\ mixed' \in BOOLEAN
          /\ latest' \in ToolCalls \cup {NoBlock}
      BY <1>1, <2>1, EmptySeq
    <3> QED
      BY <1>1, <1>2, <1>3, <3>1 DEF AnswerTypes
  <2>13. CallsKnown' /\ WholeOnce' /\ ClientGetsAnswer'
    BY <1>1, <2>1, <2>3, <2>12 DEF CallsKnown, WholeOnce, ClientGetsAnswer
  <2> QED
    BY <2>11, <2>12, <2>13 DEF AnswerInv
<1>4. CASE flow' = "broken" /\ UNCHANGED <<upstream, streams, providerVars>>
  <2>1. AnswerTypes' /\ CallsKnown'
    BY <1>1, <1>2, <1>4 DEF AnswerTypes, CallsKnown, providerVars
  <2>2. flow' # "streaming" /\ flow' # "done"
    BY <1>4
  <2> QED
    BY <2>1, <2>2 DEF AnswerInv, WholeOnce, ClientGetsAnswer
<1> QED
  BY <1>3, <1>4 DEF AttemptFails

(* FlattenSeq puts its sequences one behind the other.                     *)
LEMMA Flattened ==
  ASSUME NEW S, NEW q \in Seq(Seq(S))
  PROVE  \E g : /\ g[0] = <<>>
                /\ \A j \in 1 .. Len(q) : g[j] = g[j - 1] \o q[j]
                /\ FlattenSeq(q) = g[Len(q)]
<1> DEFINE n == Len(q)
<1>1. n \in Nat /\ \A j \in 1 .. n : q[j] \in Seq(S)
  BY LenProperties, ElementOfSeq
<1>2. CASE n = 0
  <2> DEFINE g == [j \in {0} |-> <<>>]
  <2>1. g[0] = <<>>
    OBVIOUS
  <2>2. q = <<>>
    BY <1>2, EmptySeq
  <2>3. FlattenSeq(q) = <<>>
    BY <1>2, <2>2 DEF FlattenSeq
  <2> HIDE DEF g
  <2> QED
    BY <1>2, <2>1, <2>3
<1>3. CASE n # 0
  <2> DEFINE Joins(f) == f = [i \in 1 .. n |-> IF i = 1 THEN q[i] ELSE f[i - 1] \o q[i]]
             T == {m \in Nat : \E g : g[0] = <<>> /\ \A j \in 1 .. m : g[j] = g[j - 1] \o q[j]}
  <2>1. FlattenSeq(q) = (CHOOSE f : Joins(f))[n]
    BY <1>3 DEF FlattenSeq
  <2>2. 0 \in T
    <3> DEFINE g == [j \in {0} |-> <<>>]
    <3>1. g[0] = <<>> /\ 1 .. 0 = {}
      OBVIOUS
    <3> HIDE DEF g
    <3> QED
      BY <3>1
  <2>3. ASSUME NEW m \in Nat, m \in T PROVE m + 1 \in T
    <3>1. PICK g : g[0] = <<>> /\ \A j \in 1 .. m : g[j] = g[j - 1] \o q[j]
      BY <2>3
    <3> DEFINE all_ == g[m] \o q[m + 1]
               h == [j \in 0 .. m + 1 |-> IF j <= m THEN g[j] ELSE all_]
    <3> HIDE DEF all_
    <3>2. h[m + 1] = all_ /\ \A j \in 0 .. m : h[j] = g[j]
      OBVIOUS
    <3> HIDE DEF h
    <3> USE DEF all_
    <3>3. h[0] = <<>>
      BY <3>1, <3>2
    <3>4. ASSUME NEW j \in 1 .. m + 1 PROVE h[j] = h[j - 1] \o q[j]
      <4>1. CASE j = m + 1
        <5>1. j - 1 = m /\ m \in 0 .. m
          BY <4>1
        <5> QED
          BY <3>2, <4>1, <5>1
      <4>2. CASE j # m + 1
        <5>1. j \in 1 .. m /\ j \in 0 .. m /\ j - 1 \in 0 .. m
          BY <4>2
        <5> QED
          BY <3>1, <3>2, <5>1
      <4> QED
        BY <4>1, <4>2
    <3>5. \E f : f[0] = <<>> /\ \A j \in 1 .. m + 1 : f[j] = f[j - 1] \o q[j]
      BY <3>3, <3>4
    <3>6. m + 1 \in Nat
      OBVIOUS
    <3> QED
      BY <3>5, <3>6
  <2>4. Nat \subseteq T
    <3> HIDE DEF T
    <3> QED
      BY <2>2, <2>3, NatSetInduction
  <2>5. PICK g : g[0] = <<>> /\ \A j \in 1 .. n : g[j] = g[j - 1] \o q[j]
    BY <1>1, <2>4
  <2> HIDE DEF T
  <2>6. \E f : Joins(f)
    <3> DEFINE f == [i \in 1 .. n |-> g[i]]
    <3>1. \A i \in 1 .. n : f[i] = g[i]
      OBVIOUS
    <3>2. ASSUME NEW i \in 1 .. n
          PROVE  g[i] = IF i = 1 THEN q[i] ELSE f[i - 1] \o q[i]
      <4>1. CASE i = 1
        <5>1. i - 1 = 0
          BY <4>1
        <5>2. g[i] = g[i - 1] \o q[i] /\ g[0] = <<>>
          BY <2>5, Zenon
        <5>3. g[i] = <<>> \o q[i] /\ q[i] \in Seq(S)
          BY <1>1, <5>1, <5>2, Zenon
        <5> QED
          BY <4>1, <5>3, ConcatEmptySeq, Zenon
      <4>2. CASE i # 1
        <5>1. i - 1 \in 1 .. n
          BY <1>1, <4>2
        <5> QED
          BY <2>5, <3>1, <4>2, <5>1
      <4> QED
        BY <4>1, <4>2
    <3>3. f = [i \in 1 .. n |-> IF i = 1 THEN q[i] ELSE f[i - 1] \o q[i]]
      BY <3>2
    <3> QED
      BY <3>3
  <2>7. PICK h : Joins(h) /\ FlattenSeq(q) = h[n]
    BY <2>1, <2>6
  <2> DEFINE e == [j \in 0 .. n |-> IF j = 0 THEN <<>> ELSE h[j]]
  <2>8. e[0] = <<>> /\ \A j \in 1 .. n : e[j] = h[j]
    BY <1>1
  <2>9. ASSUME NEW j \in 1 .. n PROVE h[j] = IF j = 1 THEN q[j] ELSE h[j - 1] \o q[j]
    BY <2>7
  <2> HIDE DEF e, Joins
  <2>10. ASSUME NEW j \in 1 .. n PROVE e[j] = e[j - 1] \o q[j]
    <3>1. CASE j = 1
      <4>1. j - 1 = 0
        BY <3>1
      <4>2. e[j - 1] \o q[j] = q[j]
        BY <1>1, <2>8, <4>1, ConcatEmptySeq, Zenon
      <4> QED
        BY <2>8, <2>9, <3>1, <4>2
    <3>2. CASE j # 1
      <4>1. j - 1 \in 1 .. n
        BY <1>1, <3>2
      <4> QED
        BY <2>8, <2>9, <3>2, <4>1
    <3> QED
      BY <3>1, <3>2
  <2>11. n \in 1 .. n
    BY <1>1, <1>3
  <2>12. FlattenSeq(q) = e[n]
    BY <2>7, <2>8, <2>11
  <2> QED
    BY <2>8, <2>10, <2>12
<1> QED
  BY <1>2, <1>3

(* Of k calls with one piece each, the pieces numbered on from x: the      *)
(* events of each, and the arguments when j of them have come.             *)
CallEvents(k, x) == [j \in 1 .. k |-> <<CallStart(j - 1), CallDelta(j - 1, x + j)>>]
PieceEach(j, x) == [i \in ToolCalls |-> IF i < j THEN <<x + i + 1>> ELSE <<>>]

LEMMA PairIsSequence ==
  ASSUME NEW S, NEW y \in S, NEW z \in S
  PROVE  <<y, z>> \in Seq(S) /\ <<y>> \o <<z>> = <<y, z>>
<1>1. <<y, z>> \in Seq(S) /\ <<y>> \in Seq(S) /\ <<z>> \in Seq(S)
  OBVIOUS
<1>2. Len(<<y, z>>) = 2 /\ <<y, z>>[1] = y /\ <<y, z>>[2] = z
  OBVIOUS
<1>3. Len(<<y>>) = 1 /\ <<y>>[1] = y /\ Len(<<z>>) = 1 /\ <<z>>[1] = z
  OBVIOUS
<1> DEFINE c == <<y>> \o <<z>>
<1>4. /\ c \in Seq(S) /\ Len(c) = Len(<<y>>) + Len(<<z>>)
      /\ \A i \in 1 .. Len(<<y>>) + Len(<<z>>) :
           c[i] = IF i <= Len(<<y>>) THEN <<y>>[i] ELSE <<z>>[i - Len(<<y>>)]
  BY <1>1, ConcatProperties
<1> HIDE DEF c
<1>5. Len(c) = 2 /\ c[1] = y /\ c[2] = z
  BY <1>3, <1>4
<1>6. c = <<y, z>>
  BY <1>1, <1>2, <1>4, <1>5, SeqEqual
<1> QED
  BY <1>1, <1>6 DEF c

(* The events of one more of the calls.                                    *)
LEMMA OneMoreLeads ==
  ASSUME NEW strict \in BOOLEAN, NEW a, NEW j \in Nat, j \in ToolCalls, NEW x \in Nat,
         a.calls = 0 .. j - 1, a.args = PieceEach(j, x)
  PROVE  \E b : /\ Leads(strict, a, <<CallStart(j), CallDelta(j, x + j + 1)>>, b)
                /\ b.text = a.text /\ b.calls = 0 .. j /\ b.args = PieceEach(j + 1, x)
<1> DEFINE p == x + j + 1
<1>1. p \in Nat
  OBVIOUS
<1>2. PieceEach(j + 1, x) = WithPiece(PieceEach(j, x), j, p)
  <2> DEFINE f == PieceEach(j, x)
  <2>1. f = [i \in ToolCalls |-> f[i]] /\ f[j] = <<>>
    BY DEF PieceEach
  <2>2. WithPiece(f, j, p) = [i \in ToolCalls |-> IF i = j THEN Append(f[i], p) ELSE f[i]]
    <3> HIDE DEF f
    <3> QED
      BY <2>1 DEF WithPiece
  <2>3. ASSUME NEW i \in ToolCalls
        PROVE  (IF i < j + 1 THEN <<x + i + 1>> ELSE <<>>)
                 = (IF i = j THEN Append(f[i], p) ELSE f[i])
    <3>1. i \in Int
      BY StreamAssumption DEF ToolCalls
    <3>2. f[i] = IF i < j THEN <<x + i + 1>> ELSE <<>>
      BY DEF PieceEach
    <3>3. Append(<<>>, p) = <<p>>
      OBVIOUS
    <3>4. CASE i = j
      <4>1. i < j + 1 /\ <<x + i + 1>> = <<p>>
        BY <3>4
      <4> QED
        BY <2>1, <3>3, <3>4, <4>1
    <3>5. CASE i # j
      <4>1. i < j + 1 <=> i < j
        BY <3>1, <3>5
      <4> QED
        BY <3>2, <3>5, <4>1
    <3> QED
      BY <3>4, <3>5
  <2> QED
    BY <2>2, <2>3 DEF PieceEach
<1> HIDE DEF p
<1>3. PICK c : c = Put(a, CallStart(j))
  OBVIOUS
<1>4. /\ Leads(strict, a, <<CallStart(j)>>, c)
      /\ c.text = a.text /\ c.calls = a.calls \cup {j} /\ c.args = a.args /\ c.to = j
  BY <1>3, StartPut
<1>5. PICK b : b = Put(c, CallDelta(j, p))
  OBVIOUS
<1>6. /\ Leads(strict, c, <<CallDelta(j, p)>>, b)
      /\ b.text = c.text /\ b.calls = c.calls /\ b.args = WithPiece(c.args, j, p)
  BY <1>4, <1>5, DeltaPut
<1>7. <<CallStart(j)>> \in Seq(SentEvents) /\ <<CallDelta(j, p)>> \in Seq(SentEvents)
  BY <1>1, EventsAreSent
<1>8. Leads(strict, a, <<CallStart(j)>> \o <<CallDelta(j, p)>>, b)
  BY <1>4, <1>6, <1>7, BothLead
<1>9. <<CallStart(j)>> \o <<CallDelta(j, p)>> = <<CallStart(j), CallDelta(j, p)>>
  <2>1. CallStart(j) \in SentEvents /\ CallDelta(j, p) \in SentEvents
    BY <1>1, EventsAreSent
  <2> QED
    BY <2>1, PairIsSequence
<1>10. Leads(strict, a, <<CallStart(j), CallDelta(j, p)>>, b)
  BY <1>8, <1>9
<1>11. b.calls = 0 .. j
  <2>1. (0 .. j - 1) \cup {j} = 0 .. j
    OBVIOUS
  <2> QED
    BY <1>4, <1>6, <2>1
<1>12. b.text = a.text /\ b.args = PieceEach(j + 1, x)
  BY <1>2, <1>4, <1>6
<1> QED
  BY <1>10, <1>11, <1>12 DEF p

(* The events s take a client to the first k calls, with a piece each.     *)
LeadsToCalls(strict, a, s, k, x) ==
  \E b : /\ Leads(strict, a, s, b)
         /\ b.text = a.text /\ b.calls = 0 .. k - 1 /\ b.args = PieceEach(k, x)

(* And of all of them.                                                     *)
LEMMA CallsLead ==
  ASSUME NEW strict \in BOOLEAN, NEW a, a.calls = {}, a.args = Nothing,
         NEW k \in 0 .. MaxToolCalls, NEW x \in Nat
  PROVE  /\ FlattenSeq(CallEvents(k, x)) \in Seq(SentEvents)
         /\ LeadsToCalls(strict, a, FlattenSeq(CallEvents(k, x)), k, x)
<1> DEFINE q == CallEvents(k, x)
<1>1. k \in Nat /\ \A j \in Nat : j < k => j \in ToolCalls
  BY StreamAssumption DEF ToolCalls
<1>2. \A j \in 1 .. k : q[j] = <<CallStart(j - 1), CallDelta(j - 1, x + j)>>
  BY DEF CallEvents
<1>3. \A j \in 1 .. k : q[j] \in Seq(SentEvents)
  <2> SUFFICES ASSUME NEW j \in 1 .. k PROVE q[j] \in Seq(SentEvents)
    OBVIOUS
  <2>1. j - 1 \in ToolCalls /\ x + j \in Nat
    BY <1>1
  <2>2. CallStart(j - 1) \in SentEvents /\ CallDelta(j - 1, x + j) \in SentEvents
    BY <2>1, EventsAreSent
  <2>3. <<CallStart(j - 1), CallDelta(j - 1, x + j)>> \in Seq(SentEvents)
    BY <2>2, PairIsSequence
  <2> QED
    BY <1>2, <2>3
<1>4. q \in Seq(Seq(SentEvents)) /\ Len(q) = k
  <2>1. q = [j \in 1 .. k |-> q[j]]
    BY DEF CallEvents
  <2> HIDE DEF q
  <2> QED
    BY <1>1, <1>3, <2>1
<1> HIDE DEF q
<1>5. PICK g : /\ g[0] = <<>>
               /\ \A j \in 1 .. k : g[j] = g[j - 1] \o q[j]
               /\ FlattenSeq(q) = g[k]
  BY <1>4, Flattened
<1> DEFINE Made(j) ==
             \E b : /\ Leads(strict, a, g[j], b)
                    /\ b.text = a.text /\ b.calls = 0 .. j - 1 /\ b.args = PieceEach(j, x)
           T == {j \in Nat : j <= k => g[j] \in Seq(SentEvents) /\ Made(j)}
<1>6. 0 \in T
  <2>1. Leads(strict, a, g[0], a)
    BY <1>5, NothingLeadsNowhere
  <2>2. PieceEach(0, x) = Nothing
    <3>1. \A i \in ToolCalls : ~(i < 0)
      BY StreamAssumption DEF ToolCalls
    <3> QED
      BY <3>1 DEF PieceEach, Nothing
  <2>3. a.calls = 0 .. 0 - 1
    OBVIOUS
  <2>4. g[0] \in Seq(SentEvents)
    BY <1>5, EmptySeq
  <2> QED
    BY <2>1, <2>2, <2>3, <2>4
<1>7. ASSUME NEW j \in Nat, j \in T PROVE j + 1 \in T
  <2> SUFFICES ASSUME j + 1 <= k PROVE g[j + 1] \in Seq(SentEvents) /\ Made(j + 1)
    OBVIOUS
  <2>1. /\ j <= k /\ j \in ToolCalls /\ j + 1 \in 1 .. k /\ (j + 1) - 1 = j
        /\ x + (j + 1) = x + j + 1
    BY <1>1
  <2>2. g[j] \in Seq(SentEvents)
    BY <1>7, <2>1
  <2>3. PICK b : /\ Leads(strict, a, g[j], b)
                 /\ b.text = a.text /\ b.calls = 0 .. j - 1 /\ b.args = PieceEach(j, x)
    BY <1>7, <2>1
  <2>4. PICK c : /\ Leads(strict, b, <<CallStart(j), CallDelta(j, x + j + 1)>>, c)
                 /\ c.text = b.text /\ c.calls = 0 .. j /\ c.args = PieceEach(j + 1, x)
    BY <2>1, <2>3, OneMoreLeads
  <2>5. q[j + 1] = <<CallStart(j), CallDelta(j, x + j + 1)>> /\ q[j + 1] \in Seq(SentEvents)
    BY <1>2, <1>3, <2>1
  <2>6. Leads(strict, b, q[j + 1], c)
    BY <2>4, <2>5
  <2>7. Leads(strict, a, g[j] \o q[j + 1], c) /\ g[j] \o q[j + 1] \in Seq(SentEvents)
    BY <2>2, <2>3, <2>5, <2>6, BothLead, ConcatProperties
  <2>8. g[j + 1] = g[j] \o q[j + 1]
    <3>1. g[j + 1] = g[(j + 1) - 1] \o q[j + 1]
      BY <1>5, <2>1, Zenon
    <3> QED
      BY <2>1, <3>1, Zenon
  <2>9. c.text = a.text /\ c.calls = 0 .. (j + 1) - 1
    BY <2>1, <2>3, <2>4
  <2> QED
    BY <2>4, <2>7, <2>8, <2>9
<1>8. k \in T
  <2> HIDE DEF T
  <2>1. Nat \subseteq T
    BY <1>6, <1>7, NatSetInduction
  <2> QED
    BY <1>1, <2>1
<1>9. g[k] \in Seq(SentEvents) /\ LeadsToCalls(strict, a, g[k], k, x)
  BY <1>1, <1>8 DEF LeadsToCalls
<1> QED
  BY <1>5, <1>9 DEF q

(* responseToStream: the whole answer and its end are events of one step.  *)
LEMMA WholeKeepsAnswer ==
  ASSUME AnswerInv, NEW text \in BOOLEAN, NEW k \in 0 .. MaxToolCalls, WholeAnswer(text, k)
  PROVE  AnswerInv'
<1> DEFINE first == IF text THEN 1 ELSE 0
           x == pieces + first
           p == pieces + 1
           r == IF text THEN <<TextDelta(p)>> ELSE <<>>
           s == FlattenSeq(CallEvents(k, x))
           all_ == r \o s \o <<Done>>
<1>1. /\ upstream = "whole" /\ Chunk(first + k, all_)
      /\ known' = 0 .. k - 1 /\ hasId' = 0 .. k - 1 /\ hasName' = 0 .. k - 1
      /\ started' = 0 .. k - 1
      /\ content' = (IF text THEN <<p>> ELSE <<>>)
      /\ callArgs' = PieceEach(k, x)
      /\ UNCHANGED <<latest, mixed>>
  BY Zenon DEF WholeAnswer, CallEvents, PieceEach
<1>2. /\ flow = "streaming" /\ events = <<>>
      /\ UNCHANGED <<upstream, endpoint, flow, enc, client, gotText, gotCalls, gotArgs>>
  BY <1>1 DEF Chunk, clientVars
<1>3. AnswerTypes /\ Unheard
  BY <1>1, <1>2 DEF AnswerInv, WholeOnce
<1>4. x \in Nat /\ p \in Nat /\ first + k \in Nat
  BY <1>3, StreamAssumption DEF AnswerTypes
<1> HIDE DEF first, x, p
<1>5. PICK a : a = NoAnswer
  OBVIOUS
<1>6. a.text = <<>> /\ a.calls = {} /\ a.args = Nothing /\ a.to = NoBlock
  BY <1>5, NoAnswerIsNothing
<1>7. ClientHas(a)
  BY <1>3, <1>6 DEF ClientHas, Unheard, OpenCall
<1>8. PICK strict \in BOOLEAN : strict <=> Strict'
  OBVIOUS
<1>9. PICK b : b = IF text THEN Put(a, TextDelta(p)) ELSE a
  OBVIOUS
<1>10. /\ Leads(strict, a, r, b) /\ r \in Seq(SentEvents)
       /\ b.text = content' /\ b.calls = {} /\ b.args = Nothing
  <2>1. CASE text
    <3>1. b = Put(a, TextDelta(p))
      BY <1>9, <2>1
    <3>2. /\ Leads(strict, a, <<TextDelta(p)>>, b)
          /\ b.text = Append(a.text, p) /\ b.calls = a.calls /\ b.args = a.args
      BY <3>1, TextPut
    <3>3. <<TextDelta(p)>> \in Seq(SentEvents)
      BY <1>4, EventsAreSent
    <3>4. Append(<<>>, p) = <<p>>
      OBVIOUS
    <3> QED
      BY <1>1, <1>6, <2>1, <3>2, <3>3, <3>4
  <2>2. CASE ~text
    <3>1. r = <<>> /\ b = a /\ content' = <<>>
      BY <1>1, <1>9, <2>2
    <3>2. Leads(strict, a, <<>>, a)
      BY NothingLeadsNowhere
    <3> QED
      BY <1>6, <3>1, <3>2, EmptySeq
  <2> QED
    BY <2>1, <2>2
<1>11. s \in Seq(SentEvents) /\ LeadsToCalls(strict, b, s, k, x)
  <2>1. b.calls = {} /\ b.args = Nothing
    BY <1>10
  <2> QED
    BY <1>4, <2>1, CallsLead
<1> HIDE DEF r, s
<1>12. PICK c : /\ Leads(strict, b, s, c)
                /\ c.text = b.text /\ c.calls = 0 .. k - 1 /\ c.args = PieceEach(k, x)
  BY <1>11 DEF LeadsToCalls
<1> DEFINE t == r \o s
<1>13. Leads(strict, a, t, c) /\ t \in Seq(SentEvents) /\ Done \in SentEvents
  BY <1>10, <1>11, <1>12, BothLead, ConcatProperties, EventsAreSent
<1>14. all_ = t \o <<Done>>
  OBVIOUS
<1> HIDE DEF t, all_
<1>15. /\ all_ = Append(t, Done) /\ all_ \in Seq(SentEvents) /\ all_ # <<>>
       /\ all_[Len(all_)] = Done
  <2>1. t \o <<Done>> = Append(t, Done)
    BY <1>13
  <2>2. /\ Append(t, Done) \in Seq(SentEvents) /\ Append(t, Done) # <<>>
        /\ Len(Append(t, Done)) = Len(t) + 1 /\ Append(t, Done)[Len(t) + 1] = Done
    BY <1>13, AppendProperties
  <2> QED
    BY <1>14, <2>1, <2>2
<1>16. Faithful' <=> Faithful
  BY <1>1, <1>2 DEF Faithful
<1>17. ProviderHas(c)'
  BY <1>1, <1>2, <1>10, <1>12 DEF ProviderHas
<1>18. OnItsWay'
  BY <1>1, <1>7, <1>8, <1>13, <1>15, <1>16, <1>17, ChunkIsOnItsWay
<1>19. CallsKnown' /\ WholeOnce' /\ mixed' \in BOOLEAN /\ latest' \in ToolCalls \cup {NoBlock}
  <2>1. events' = all_
    BY <1>1 DEF Chunk
  <2> QED
    BY <1>1, <1>3, <1>15, <2>1 DEF CallsKnown, WholeOnce, AnswerTypes
<1> QED
  BY <1>1, <1>4, <1>15, <1>18, <1>19, ChunkKeepsAnswer

LEMMA AnswerStepInv ==
  ASSUME FramesInv, AnswerInv, [StreamNext]_streamVars
  PROVE  AnswerInv'
<1>1. CASE TextChunk
  BY <1>1, TextChunkKeepsAnswer
<1>2. ASSUME NEW i \in ToolCalls, NEW id \in BOOLEAN, NEW name \in BOOLEAN,
             NEW args \in BOOLEAN, OpenAIToolChunk(i, id, name, args)
      PROVE  AnswerInv'
  BY <1>2, OpenAIToolChunkKeepsAnswer
<1>3. CASE AnthropicBlockStart \/ AnthropicInputDelta
  BY <1>3, AnthropicKeepsAnswer
<1>4. ASSUME NEW text \in BOOLEAN, NEW k \in 0 .. MaxToolCalls, WholeAnswer(text, k)
      PROVE  AnswerInv'
  BY <1>4, WholeKeepsAnswer
<1>5. CASE StreamEnds
  BY <1>5, StreamEndsKeepsAnswer
<1>6. ASSUME NEW next \in {"openai", "anthropic", "whole"}, AttemptFails(next)
      PROVE  AnswerInv'
  BY <1>6, FailureKeepsAnswer
<1>7. CASE Forward
  BY <1>7, ForwardKeepsAnswer
<1>8. CASE UNCHANGED streamVars
  <2>1. UNCHANGED <<upstream, endpoint, flow, events, content, callArgs, known, hasId, hasName,
                    started, latest, mixed, pieces, enc, client, gotText, gotCalls, gotArgs>>
    BY <1>8 DEF streamVars, providerVars, clientVars
  <2>2. AnswerTypes' /\ CallsKnown' /\ WholeOnce' /\ ClientGetsAnswer'
    BY <2>1 DEF AnswerInv, AnswerTypes, CallsKnown, WholeOnce, Unheard, ClientGetsAnswer
  <2>3. OpenCall' = OpenCall /\ (Faithful' <=> Faithful) /\ (Strict' <=> Strict)
    BY <2>1 DEF OpenCall, Faithful, Strict
  <2>4. ASSUME OnItsWay PROVE OnItsWay'
    <3>1. PICK a, b : \E s \in Seq(SentEvents) :
            /\ ClientHas(a) /\ ProviderHas(b) /\ Leads(Strict, a, s, b)
            /\ events \in {s, Append(s, Done)}
      BY <2>4 DEF OnItsWay
    <3>2. PICK s \in Seq(SentEvents) :
            /\ ClientHas(a) /\ ProviderHas(b) /\ Leads(Strict, a, s, b)
            /\ events \in {s, Append(s, Done)}
      BY <3>1
    <3>3. ClientHas(a)' /\ ProviderHas(b)'
      BY <2>1, <2>3, <3>2 DEF ClientHas, ProviderHas
    <3>4. Leads(Strict', a, s, b)
      BY <2>3, <3>2 DEF Leads, Fits
    <3> QED
      BY <2>1, <3>2, <3>3, <3>4 DEF OnItsWay
  <2> QED
    BY <2>1, <2>2, <2>4 DEF AnswerInv
<1> QED
  BY <1>1, <1>2, <1>3, <1>4, <1>5, <1>6, <1>7, <1>8 DEF StreamNext

(* At the end of a stream the client of either endpoint has the text, the  *)
(* calls and the arguments the router was given, however the events were   *)
(* cut and whichever providers failed before.                              *)
THEOREM AlwaysClientGetsAnswer == StreamSpec => []ClientGetsAnswer
<1>1. StreamInit => FramesInv /\ AnswerInv
  BY StreamInitInv, StreamInitAnswer
<1>2. FramesInv /\ AnswerInv /\ [StreamNext]_streamVars => (FramesInv /\ AnswerInv)'
  BY StreamStepInv, AnswerStepInv
<1>3. AnswerInv => ClientGetsAnswer
  BY DEF AnswerInv
<1> QED
  BY <1>1, <1>2, <1>3, PTL DEF StreamSpec

-----------------------------------------------------------------------------
(* The types of a stream: an event that is about a call names one.         *)

TypedEvents ==
  {e \in StreamEvents : e.type \in {"tool_call_start", "tool_call_delta"} => e.index \in ToolCalls}

StreamTypes == StreamTypeOK /\ events \in Seq(TypedEvents)

LEMMA EventsAreTyped ==
  /\ \A n \in Nat : TextDelta(n) \in TypedEvents /\ Done \in TypedEvents
  /\ \A i \in ToolCalls, n \in Nat : CallStart(i) \in TypedEvents /\ CallDelta(i, n) \in TypedEvents
BY DEF TextDelta, Done, CallStart, CallDelta, Event, EventKinds, StreamEvents, TypedEvents

(* FlattenSeq makes a sequence of the elements of its sequences.           *)
LEMMA FlattenedIsSequence ==
  ASSUME NEW S, NEW q \in Seq(Seq(S))
  PROVE  FlattenSeq(q) \in Seq(S)
<1> DEFINE n == Len(q)
<1>1. PICK g : /\ g[0] = <<>>
               /\ \A j \in 1 .. n : g[j] = g[j - 1] \o q[j]
               /\ FlattenSeq(q) = g[n]
  BY Flattened
<1>2. n \in Nat /\ \A j \in 1 .. n : q[j] \in Seq(S)
  BY LenProperties, ElementOfSeq
<1> HIDE DEF n
<1> DEFINE T == {j \in Nat : j <= n => g[j] \in Seq(S)}
<1>3. 0 \in T
  BY <1>1, EmptySeq
<1>4. ASSUME NEW j \in Nat, j \in T PROVE j + 1 \in T
  <2> SUFFICES ASSUME j + 1 <= n PROVE g[j + 1] \in Seq(S)
    OBVIOUS
  <2>1. j <= n /\ j + 1 \in 1 .. n /\ (j + 1) - 1 = j
    BY <1>2
  <2>2. g[j] \in Seq(S) /\ q[j + 1] \in Seq(S)
    BY <1>2, <1>4, <2>1
  <2>3. g[j + 1] = g[(j + 1) - 1] \o q[j + 1]
    BY <1>1, <2>1, Zenon
  <2>4. g[j] \o q[j + 1] \in Seq(S)
    BY <2>2, ConcatProperties
  <2> QED
    BY <2>1, <2>3, <2>4, Zenon
<1>5. n \in T
  <2> HIDE DEF T
  <2>1. Nat \subseteq T
    BY <1>3, <1>4, NatSetInduction
  <2> QED
    BY <1>2, <2>1
<1> QED
  BY <1>1, <1>2, <1>5

LEMMA CallEventsAreTyped ==
  ASSUME NEW k \in 0 .. MaxToolCalls, NEW x \in Nat
  PROVE  FlattenSeq(CallEvents(k, x)) \in Seq(TypedEvents)
<1> DEFINE q == CallEvents(k, x)
<1>1. k \in Nat /\ \A j \in 1 .. k : j - 1 \in ToolCalls /\ x + j \in Nat
  BY StreamAssumption DEF ToolCalls
<1>2. ASSUME NEW j \in 1 .. k PROVE q[j] \in Seq(TypedEvents)
  <2>1. q[j] = <<CallStart(j - 1), CallDelta(j - 1, x + j)>>
    BY DEF CallEvents
  <2>2. CallStart(j - 1) \in TypedEvents /\ CallDelta(j - 1, x + j) \in TypedEvents
    BY <1>1, EventsAreTyped
  <2>3. <<CallStart(j - 1), CallDelta(j - 1, x + j)>> \in Seq(TypedEvents)
    BY <2>2, PairIsSequence
  <2> QED
    BY <2>1, <2>3
<1>3. q = [j \in 1 .. k |-> q[j]]
  BY DEF CallEvents
<1> HIDE DEF q
<1>4. q \in Seq(Seq(TypedEvents))
  BY <1>1, <1>2, <1>3
<1>5. FlattenSeq(q) \in Seq(TypedEvents)
  BY <1>4, FlattenedIsSequence
<1> QED
  BY <1>5 DEF q

LEMMA StreamInitTypes == StreamInit => StreamTypes
<1> SUFFICES ASSUME StreamInit PROVE StreamTypes
  OBVIOUS
<1>1. \A S : <<>> \in Seq(S)
  BY EmptySeq
<1>2. enc \in Encoders /\ client \in Clients
  BY DEF StreamInit, Hello, Listening, Encoders, Clients, NoBlock
<1>3. callArgs \in [ToolCalls -> Seq(Nat)] /\ gotArgs \in [ToolCalls -> Seq(Nat)]
  BY <1>1 DEF StreamInit
<1>4. mixed \in BOOLEAN
  BY DEF StreamInit
<1> QED
  BY <1>1, <1>2, <1>3, <1>4 DEF StreamInit, StreamTypes, StreamTypeOK

(* A chunk keeps what the provider assembles, and its events, typed.       *)
LEMMA ChunkTyped ==
  ASSUME StreamTypes, NEW n \in Nat, NEW made_ \in Seq(TypedEvents), Chunk(n, made_),
         /\ content' \in Seq(Nat) /\ callArgs' \in [ToolCalls -> Seq(Nat)]
         /\ known' \subseteq ToolCalls /\ hasId' \subseteq ToolCalls
         /\ hasName' \subseteq ToolCalls /\ started' \subseteq ToolCalls
         /\ latest' \in ToolCalls \cup {NoBlock} /\ mixed' \in BOOLEAN
  PROVE  StreamTypes'
<1>1. UNCHANGED <<upstream, endpoint, flow, streams, enc, client, gotText, gotCalls, gotArgs>>
      /\ pieces' = pieces + n /\ events' = made_
  BY DEF Chunk, clientVars
<1>2. events' \in Seq(StreamEvents)
  <2>1. made_ \in [1 .. Len(made_) -> TypedEvents] /\ Len(made_) \in Nat
    BY LenProperties
  <2>2. TypedEvents \subseteq StreamEvents
    BY DEF TypedEvents
  <2>3. made_ \in [1 .. Len(made_) -> StreamEvents]
    BY <2>1, <2>2
  <2>4. made_ \in Seq(StreamEvents)
    <3> QED
      BY <2>1, <2>3
  <2> QED
    BY <1>1, <2>4
<1> QED
  BY <1>1, <1>2 DEF StreamTypes, StreamTypeOK

LEMMA PiecesTyped ==
  ASSUME StreamTypes
  PROVE  /\ pieces + 1 \in Nat
         /\ TextDelta(pieces + 1) \in TypedEvents
         /\ \A i \in ToolCalls : CallDelta(i, pieces + 1) \in TypedEvents
         /\ \A i \in ToolCalls : [callArgs EXCEPT ![i] = Append(@, pieces + 1)]
                                   \in [ToolCalls -> Seq(Nat)]
<1>1. pieces + 1 \in Nat /\ callArgs \in [ToolCalls -> Seq(Nat)]
  BY DEF StreamTypes, StreamTypeOK
<1>2. \A i \in ToolCalls : Append(callArgs[i], pieces + 1) \in Seq(Nat)
  BY <1>1, AppendProperties
<1> QED
  BY <1>1, <1>2, EventsAreTyped

LEMMA TextChunkTyped ==
  ASSUME StreamTypes, TextChunk
  PROVE  StreamTypes'
<1>1. Append(content, pieces + 1) \in Seq(Nat)
  BY PiecesTyped, AppendProperties DEF StreamTypes, StreamTypeOK
<1>2. <<TextDelta(pieces + 1)>> \in Seq(TypedEvents)
  BY PiecesTyped
<1> QED
  BY <1>1, <1>2, ChunkTyped DEF TextChunk, StreamTypes, StreamTypeOK

LEMMA OpenAITyped ==
  ASSUME StreamTypes, NEW i \in ToolCalls, NEW id \in BOOLEAN, NEW name \in BOOLEAN,
         NEW args \in BOOLEAN, OpenAIToolChunk(i, id, name, args)
  PROVE  StreamTypes'
<1> DEFINE first_ == IF Announces(i) THEN <<CallStart(i)>> ELSE <<>>
           last_ == IF args THEN <<CallDelta(i, pieces + 1)>> ELSE <<>>
           n == IF args THEN 1 ELSE 0
<1>1. Chunk(n, first_ \o last_) /\ n \in Nat
  BY Zenon DEF OpenAIToolChunk
<1>2. first_ \in Seq(TypedEvents) /\ last_ \in Seq(TypedEvents)
  BY PiecesTyped, EventsAreTyped, EmptySeq
<1>3. first_ \o last_ \in Seq(TypedEvents)
  <2> HIDE DEF first_, last_
  <2> QED
    BY <1>2, ConcatProperties
<1>4. /\ known' \subseteq ToolCalls /\ hasId' \subseteq ToolCalls
      /\ hasName' \subseteq ToolCalls /\ started' \subseteq ToolCalls
      /\ latest' \in ToolCalls \cup {NoBlock}
  BY DEF OpenAIToolChunk, StreamTypes, StreamTypeOK
<1>5. content' \in Seq(Nat) /\ callArgs' \in [ToolCalls -> Seq(Nat)]
  BY PiecesTyped DEF OpenAIToolChunk, StreamTypes, StreamTypeOK
<1>6. mixed' \in BOOLEAN
  BY DEF OpenAIToolChunk, StreamTypes, StreamTypeOK
<1> HIDE DEF n, first_, last_
<1> QED
  BY <1>1, <1>3, <1>4, <1>5, <1>6, ChunkTyped

LEMMA AnthropicTyped ==
  ASSUME StreamTypes, AnthropicBlockStart \/ AnthropicInputDelta
  PROVE  StreamTypes'
<1>1. CASE AnthropicBlockStart
  <2>1. PICK i : i = Cardinality(known)
    OBVIOUS
  <2>2. /\ i \in ToolCalls /\ Chunk(0, <<CallStart(i)>>) /\ latest' = i
        /\ known' = known \cup {i} /\ hasId' = hasId \cup {i} /\ hasName' = hasName \cup {i}
        /\ started' = started \cup {i} /\ UNCHANGED <<content, callArgs, mixed>>
    BY <1>1, <2>1 DEF AnthropicBlockStart
  <2>3. <<CallStart(i)>> \in Seq(TypedEvents)
    BY <2>2, EventsAreTyped
  <2> QED
    BY <2>2, <2>3, ChunkTyped DEF StreamTypes, StreamTypeOK
<1>2. CASE AnthropicInputDelta
  <2>1. latest \in ToolCalls
    BY <1>2 DEF AnthropicInputDelta, StreamTypes, StreamTypeOK
  <2>2. <<CallDelta(latest, pieces + 1)>> \in Seq(TypedEvents)
    BY <2>1, PiecesTyped
  <2>3. callArgs' \in [ToolCalls -> Seq(Nat)]
    BY <1>2, <2>1, PiecesTyped DEF AnthropicInputDelta
  <2> QED
    BY <1>2, <2>2, <2>3, ChunkTyped DEF AnthropicInputDelta, StreamTypes, StreamTypeOK
<1> QED
  BY <1>1, <1>2

LEMMA StreamEndsTyped ==
  ASSUME StreamTypes, StreamEnds
  PROVE  StreamTypes'
<1>1. <<Done>> \in Seq(TypedEvents)
  BY EventsAreTyped
<1> QED
  BY <1>1, ChunkTyped DEF StreamEnds, providerVars, StreamTypes, StreamTypeOK

LEMMA WholeTyped ==
  ASSUME StreamTypes, NEW text \in BOOLEAN, NEW k \in 0 .. MaxToolCalls, WholeAnswer(text, k)
  PROVE  StreamTypes'
<1> DEFINE first == IF text THEN 1 ELSE 0
           p == pieces + 1
           x == pieces + first
           r == IF text THEN <<TextDelta(p)>> ELSE <<>>
           s == FlattenSeq(CallEvents(k, x))
           all_ == r \o s \o <<Done>>
<1>1. /\ Chunk(first + k, all_)
      /\ known' = 0 .. k - 1 /\ hasId' = 0 .. k - 1 /\ hasName' = 0 .. k - 1
      /\ started' = 0 .. k - 1
      /\ content' = (IF text THEN <<p>> ELSE <<>>)
      /\ callArgs' = PieceEach(k, x)
      /\ UNCHANGED <<latest, mixed>>
  BY Zenon DEF WholeAnswer, CallEvents, PieceEach
<1>2. x \in Nat /\ p \in Nat /\ first + k \in Nat /\ k \in Nat
  BY StreamAssumption DEF StreamTypes, StreamTypeOK
<1>3. r \in Seq(TypedEvents)
  BY <1>2, EventsAreTyped, EmptySeq
<1>4. content' \in Seq(Nat)
  BY <1>1, <1>2, EmptySeq
<1> HIDE DEF first, x, p, r
<1>5. s \in Seq(TypedEvents)
  BY <1>2, CallEventsAreTyped
<1>6. <<Done>> \in Seq(TypedEvents)
  BY EventsAreTyped
<1> HIDE DEF s
<1>7. all_ \in Seq(TypedEvents)
  BY <1>3, <1>5, <1>6, ConcatProperties
<1>8. 0 .. k - 1 \subseteq ToolCalls
  BY StreamAssumption DEF ToolCalls
<1>9. callArgs' \in [ToolCalls -> Seq(Nat)]
  <2>1. \A i \in ToolCalls : i \in Nat
    BY StreamAssumption DEF ToolCalls
  <2>2. \A i \in ToolCalls : <<x + i + 1>> \in Seq(Nat) /\ <<>> \in Seq(Nat)
    BY <1>2, <2>1
  <2> QED
    BY <1>1, <2>2 DEF PieceEach
<1> HIDE DEF all_
<1> QED
  BY <1>1, <1>2, <1>4, <1>7, <1>8, <1>9, ChunkTyped DEF StreamTypes, StreamTypeOK

LEMMA AttemptFailsTyped ==
  ASSUME StreamTypes, NEW next \in {"openai", "anthropic", "whole"}, AttemptFails(next)
  PROVE  StreamTypes'
<1>1. /\ UNCHANGED <<endpoint, pieces, enc, client, gotText, gotCalls, gotArgs>>
      /\ flow' \in {"streaming", "done", "broken"}
      /\ upstream' \in {"openai", "anthropic", "whole"} /\ streams' \in Nat
  BY DEF AttemptFails, clientVars, StreamTypes, StreamTypeOK
<1>2. \A S : <<>> \in Seq(S)
  BY EmptySeq
<1>3. \/ Afresh
      \/ UNCHANGED <<content, callArgs, known, hasId, hasName, started, latest, mixed>>
  BY DEF AttemptFails, providerVars
<1>4. /\ content' \in Seq(Nat) /\ callArgs' \in [ToolCalls -> Seq(Nat)]
      /\ known' \subseteq ToolCalls /\ hasId' \subseteq ToolCalls
      /\ hasName' \subseteq ToolCalls /\ started' \subseteq ToolCalls
      /\ latest' \in ToolCalls \cup {NoBlock}
  BY <1>2, <1>3 DEF Afresh, StreamTypes, StreamTypeOK
<1>5. mixed' \in BOOLEAN
  BY <1>3 DEF Afresh, StreamTypes, StreamTypeOK
<1>6. events' \in Seq(StreamEvents) /\ events' \in Seq(TypedEvents)
  BY <1>2 DEF AttemptFails
<1>7. /\ enc' \in Encoders /\ client' \in Clients /\ gotText' \in Seq(Nat)
      /\ gotArgs' \in [ToolCalls -> Seq(Nat)] /\ gotCalls' \subseteq ToolCalls
      /\ pieces' \in Nat /\ endpoint' \in {"messages", "completions"}
  BY <1>1 DEF StreamTypes, StreamTypeOK
<1>8. StreamTypeOK'
  BY <1>1, <1>4, <1>5, <1>6, <1>7 DEF StreamTypeOK
<1> QED
  BY <1>6, <1>8 DEF StreamTypes

(* The client stays well typed under every frame.                          *)
LEMMA FramesTyped ==
  ASSUME NEW c \in Clients
  PROVE  /\ MessageStart(c) \in Clients /\ MessageStop(c) \in Clients
         /\ \A i : BlockStop(c, i) \in Clients
         /\ \A i, sort : BlockDelta(c, i, sort) \in Clients
         /\ \A i \in Int, sort \in {"text", "tool_use"}, call \in ToolCalls \cup {NoBlock} :
              BlockStart(c, i, sort, call) \in Clients
<1>1. Garbled(c) \in Clients
  BY DEF Garbled, Clients
<1>2. MessageStart(c) \in Clients
  BY <1>1 DEF MessageStart, Clients
<1>3. MessageStop(c) \in Clients
  BY <1>1 DEF MessageStop, Clients
<1>4. \A i : BlockStop(c, i) \in Clients
  <2> SUFFICES ASSUME NEW i, c.at = i PROVE BlockStop(c, i) \in Clients
    BY <1>1 DEF BlockStop
  <2>1. NoBlock \in Int
    BY DEF NoBlock
  <2>2. [c EXCEPT !.at = NoBlock, !.kind = "none", !.call = NoBlock] \in Clients
    BY <2>1 DEF Clients
  <2> QED
    BY <2>2 DEF BlockStop
<1>5. \A i, sort : BlockDelta(c, i, sort) \in Clients
  BY <1>1 DEF BlockDelta
<1>6. \A i \in Int, sort \in {"text", "tool_use"}, call \in ToolCalls \cup {NoBlock} :
        BlockStart(c, i, sort, call) \in Clients
  <2> SUFFICES ASSUME NEW i \in Int, NEW sort \in {"text", "tool_use"},
                      NEW call \in ToolCalls \cup {NoBlock}
               PROVE  BlockStart(c, i, sort, call) \in Clients
    OBVIOUS
  <2>1. c.blocks + 1 \in Nat
    BY DEF Clients
  <2>2. [c EXCEPT !.at = i, !.kind = sort, !.call = call, !.blocks = @ + 1] \in Clients
    BY <2>1 DEF Clients
  <2> QED
    BY <1>1, <2>2 DEF BlockStart
<1> QED
  BY <1>2, <1>3, <1>4, <1>5, <1>6

LEMMA ForwardTyped ==
  ASSUME StreamTypes, Forward
  PROVE  StreamTypes'
<1>1. PICK e : e = Head(events)
  OBVIOUS
<1>2. /\ e \in TypedEvents /\ events' \in Seq(TypedEvents) /\ events' \in Seq(StreamEvents)
  BY <1>1, HeadTailProperties DEF Forward, StreamTypes, StreamTypeOK
<1>3. /\ e.type \in EventKinds /\ e.piece \in Nat
      /\ e.type \in {"tool_call_start", "tool_call_delta"} => e.index \in ToolCalls
  BY <1>2 DEF TypedEvents, StreamEvents
<1>4. /\ UNCHANGED <<upstream, endpoint, content, callArgs, known, hasId, hasName, started, latest,
                     mixed, pieces, streams>>
      /\ flow' \in {"streaming", "done", "broken"}
  BY <1>1 DEF Forward, providerVars, StreamTypes, StreamTypeOK
<1>5. /\ enc \in Encoders /\ client \in Clients /\ gotText \in Seq(Nat)
      /\ gotArgs \in [ToolCalls -> Seq(Nat)] /\ gotCalls \subseteq ToolCalls
  BY DEF StreamTypes, StreamTypeOK
<1>6. Append(gotText, e.piece) \in Seq(Nat)
  BY <1>3, <1>5, AppendProperties
<1>7. \A i \in ToolCalls : [gotArgs EXCEPT ![i] = Append(@, e.piece)] \in [ToolCalls -> Seq(Nat)]
  <2>1. \A i \in ToolCalls : Append(gotArgs[i], e.piece) \in Seq(Nat)
    BY <1>3, <1>5, AppendProperties
  <2> QED
    BY <1>5, <2>1
<1>8. /\ enc.index \in Int /\ enc.index + 1 \in Int
      /\ [enc EXCEPT !.started = TRUE] \in Encoders
      /\ [enc EXCEPT !.started = TRUE, !.open = "none"] \in Encoders
      /\ \A sort \in {"text", "tool_use"} :
           [started |-> TRUE, index |-> enc.index + 1, open |-> sort] \in Encoders
  <2>1. enc.index \in Int /\ enc.index + 1 \in Int
    BY <1>5 DEF Encoders
  <2>2. [enc EXCEPT !.started = TRUE] \in Encoders
    BY <1>5 DEF Encoders
  <2>3. [enc EXCEPT !.started = TRUE, !.open = "none"] \in Encoders
    BY <1>5 DEF Encoders
  <2> QED
    BY <2>1, <2>2, <2>3 DEF Encoders
<1>9. Started(client) \in Clients /\ ClosedBlock(Started(client)) \in Clients
  <2>1. Started(client) \in Clients
    BY <1>5, FramesTyped DEF Started
  <2> QED
    BY <2>1, FramesTyped DEF ClosedBlock
<1>10. \A sort \in {"text", "tool_use"}, call \in ToolCalls \cup {NoBlock} :
         Opened(sort, call) \in Clients
  BY <1>8, <1>9, FramesTyped DEF Opened
<1> DEFINE ClientTyped ==
             /\ enc' \in Encoders /\ client' \in Clients /\ gotText' \in Seq(Nat)
             /\ gotArgs' \in [ToolCalls -> Seq(Nat)] /\ gotCalls' \subseteq ToolCalls
<1>11. ASSUME CompletionsChunk(e) PROVE ClientTyped
  BY <1>3, <1>5, <1>6, <1>7, <1>11 DEF CompletionsChunk
<1>12. ASSUME e.type = "text_delta" /\ MessagesText(e.piece) PROVE ClientTyped
  <2>1. BlockDelta(Started(client), enc.index, "text") \in Clients
    BY <1>9, FramesTyped
  <2>2. BlockDelta(Opened("text", NoBlock), enc.index + 1, "text") \in Clients
    BY <1>10, FramesTyped
  <2> QED
    BY <1>5, <1>6, <1>8, <1>12, <2>1, <2>2 DEF MessagesText, Opens
<1>13. ASSUME e.type = "tool_call_start" /\ MessagesCall(e.index) PROVE ClientTyped
  BY <1>3, <1>5, <1>8, <1>10, <1>13 DEF MessagesCall, Opens
<1>14. ASSUME e.type = "tool_call_delta" /\ MessagesArgs(e.piece) PROVE ClientTyped
  <2>1. BlockDelta(Started(client), enc.index, "tool_use") \in Clients
    BY <1>9, FramesTyped
  <2> QED
    BY <1>5, <1>7, <1>8, <1>9, <1>14, <2>1, ZenonT(60) DEF MessagesArgs
<1>15. ASSUME e.type = "done" /\ MessagesDone PROVE ClientTyped
  <2>1. MessageStop(ClosedBlock(Started(client))) \in Clients
    BY <1>9, FramesTyped
  <2> QED
    BY <1>5, <1>8, <1>15, <2>1 DEF MessagesDone
<1>16. ClientTyped
  BY <1>1, <1>11, <1>12, <1>13, <1>14, <1>15 DEF Forward
<1> QED
  BY <1>2, <1>4, <1>16 DEF StreamTypes, StreamTypeOK

(* The providers, the encoders and a client that follows them keep to      *)
(* their types, whatever is cut where: a call that is announced or given   *)
(* arguments is one of the answer's.                                       *)
THEOREM StreamTypeCorrect == StreamSpec => []StreamTypeOK
<1>1. StreamTypes /\ [StreamNext]_streamVars => StreamTypes'
  <2> SUFFICES ASSUME StreamTypes, [StreamNext]_streamVars PROVE StreamTypes'
    OBVIOUS
  <2>1. CASE UNCHANGED streamVars
    <3>1. UNCHANGED <<upstream, endpoint, flow, events, content, callArgs, known, hasId, hasName,
                      started, latest, mixed, pieces, streams, enc, client, gotText, gotCalls,
                      gotArgs>>
      BY <2>1 DEF streamVars, providerVars, clientVars
    <3> QED
      BY <3>1 DEF StreamTypes, StreamTypeOK
  <2>2. CASE StreamNext
    <3>1. ASSUME NEW i \in ToolCalls, NEW id \in BOOLEAN, NEW name \in BOOLEAN,
                 NEW args \in BOOLEAN, OpenAIToolChunk(i, id, name, args)
          PROVE  StreamTypes'
      BY <3>1, OpenAITyped
    <3>2. ASSUME NEW text \in BOOLEAN, NEW k \in 0 .. MaxToolCalls, WholeAnswer(text, k)
          PROVE  StreamTypes'
      BY <3>2, WholeTyped
    <3>3. ASSUME NEW next \in {"openai", "anthropic", "whole"}, AttemptFails(next)
          PROVE  StreamTypes'
      BY <3>3, AttemptFailsTyped
    <3> QED
      BY <2>2, <3>1, <3>2, <3>3, TextChunkTyped, AnthropicTyped, StreamEndsTyped, ForwardTyped
         DEF StreamNext
  <2> QED
    BY <2>1, <2>2
<1>2. StreamTypes => StreamTypeOK
  BY DEF StreamTypes
<1> QED
  BY StreamInitTypes, <1>1, <1>2, PTL DEF StreamSpec

=============================================================================
