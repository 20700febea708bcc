--------------------------- MODULE RouterFailover ---------------------------
(***************************************************************************)
(* Router.chat and Router.chatStream: requests that run side by side, each *)
(* walking its own plan of candidates with retries and failover, over the  *)
(* one circuit breaker and the one cache they share.                       *)
(*                                                                         *)
(* A plan is made once, from the circuits as they stand then.  What the    *)
(* selection ranks by (prices, a preferred model) is abstracted to any     *)
(* order; what the router imposes on top of it is not: candidates on the   *)
(* caller's own key first, models above the tier ceiling last.             *)
(***************************************************************************)
EXTENDS ProviderHealth, Sequences, FiniteSets, SequencesExt

CONSTANTS
  Requests,
  Decisions,    (* candidate and model pairs that fit the request          *)
  CandidateOf,  (* the candidate of a decision                             *)
  OwnKey,       (* candidates served on the caller's own key               *)
  AboveCeiling, (* decisions whose tier is above routingHints.maxTier      *)
  MaxAttempts,  (* RouterOptions.maxRetries: candidates to try             *)
  MaxRetries    (* RetryPolicy.maxRetries: retries of one candidate        *)

ASSUME RouterAssumption ==
  /\ IsFiniteSet(Decisions)
  /\ CandidateOf \in [Decisions -> Candidates]
  /\ MaxAttempts \in Nat \ {0}
  /\ MaxRetries \in Nat

VARIABLES
  kind,       (* chat, bounded (noFallback), pinned or stream              *)
  phase,      (* where each request stands                                 *)
  plan,       (* its decisions, best first                                 *)
  attempt,    (* index of the current decision in plan                     *)
  tries,      (* retryAttempt: retries of the current decision so far      *)
  calls,      (* upstream calls made for the request, in order             *)
  senders,    (* which of those calls have sent content to the client      *)
  aborted,    (* the client has gone                                       *)
  error,      (* what the request failed with                              *)
  cached      (* the cache holds an answer                                 *)

requestVars == <<kind, phase, plan, attempt, tries, calls, senders, aborted, error>>
vars == <<healthVars, requestVars, cached>>

Kinds  == {"chat", "bounded", "pinned", "stream"}
Ended  == {"done", "failed"}
Phases == {"idle", "planning", "trying", "answered", "backoff"} \cup Ended
Errors == {"none", "no_model", "retryable", "timeout", "fatal", "aborted"}

TypeOK ==
  /\ HealthTypeOK
  /\ kind \in [Requests -> Kinds]
  /\ phase \in [Requests -> Phases]
  /\ plan \in [Requests -> Seq(Decisions)]
  /\ attempt \in [Requests -> Nat]
  /\ tries \in [Requests -> 0 .. MaxRetries]
  /\ calls \in [Requests -> Seq(Decisions)]
  /\ senders \in [Requests -> SUBSET Nat]
  /\ aborted \in [Requests -> BOOLEAN]
  /\ error \in [Requests -> Errors]
  /\ cached \in BOOLEAN

Init ==
  /\ HealthInit
  /\ kind \in [Requests -> Kinds]
  /\ phase = [r \in Requests |-> "idle"]
  /\ plan = [r \in Requests |-> <<>>]
  /\ attempt = [r \in Requests |-> 1]
  /\ tries = [r \in Requests |-> 0]
  /\ calls = [r \in Requests |-> <<>>]
  /\ senders = [r \in Requests |-> {}]
  /\ aborted = [r \in Requests |-> FALSE]
  /\ error = [r \in Requests |-> "none"]
  /\ cached = FALSE

-----------------------------------------------------------------------------
(* Selection: resolvePlan with applyCeiling and promoteByok.               *)

(* The router puts d before e, however the strategy ranked them.           *)
Before(d, e) ==
  \/ CandidateOf[d] \in OwnKey /\ CandidateOf[e] \notin OwnKey
  \/ /\ (CandidateOf[d] \in OwnKey) = (CandidateOf[e] \in OwnKey)
     /\ d \notin AboveCeiling /\ e \in AboveCeiling

(* Mutant: the order of the strategy is left as it is.                     *)
Plans_asRanked == SetToSeqs({d \in Decisions : IsAvailable(CandidateOf[d])})

Plans ==
  {s \in SetToSeqs({d \in Decisions : IsAvailable(CandidateOf[d])}) :
     \A i, j \in DOMAIN s : Before(s[i], s[j]) => i < j}

(* A pin goes to its candidate whatever its circuit says.                  *)
Pins == {<<d>> : d \in Decisions}

-----------------------------------------------------------------------------
(* What a request knows of its own progress.                               *)

Current(r) == plan[r][attempt[r]]
Provider(r) == CandidateOf[Current(r)]
Committed(r) == senders[r] # {}

AttemptLimit(r) ==
  IF kind[r] = "bounded" \/ Len(plan[r]) = 0 THEN 1
  ELSE IF Len(plan[r]) < MaxAttempts THEN Len(plan[r]) ELSE MaxAttempts

(* chat and its variants stop as soon as the client has gone.              *)
Cancelled(r) == aborted[r] /\ kind[r] # "stream"

Goto(r, p) == phase' = [phase EXCEPT ![r] = p]

(* One upstream call for decision d.                                       *)
Invoke(r, d) ==
  /\ Goto(r, "trying")
  /\ calls' = [calls EXCEPT ![r] = Append(@, d)]

EndWith(r, e) ==
  /\ Goto(r, "failed")
  /\ error' = [error EXCEPT ![r] = e]
  /\ UNCHANGED <<attempt, tries, calls>>

-----------------------------------------------------------------------------
(* The start of a request: the cache, then the plan.                       *)

Lookup(r) ==
  /\ phase[r] = "idle"
  /\ Goto(r, IF cached THEN "done" ELSE "planning")
  /\ UNCHANGED <<healthVars, kind, plan, attempt, tries, calls, senders, aborted,
                 error, cached>>

PlanRoute(r) ==
  /\ phase[r] = "planning"
  /\ ~Cancelled(r)
  /\ \E s \in (IF kind[r] = "pinned" THEN Pins ELSE Plans) :
       /\ plan' = [plan EXCEPT ![r] = s]
       /\ \/ s = <<>> /\ EndWith(r, "no_model")
          \/ s # <<>> /\ Invoke(r, Head(s)) /\ UNCHANGED <<attempt, tries, error>>
  /\ UNCHANGED <<healthVars, kind, senders, aborted, cached>>

-----------------------------------------------------------------------------
(* The catch block of the attempt loop.                                    *)

(* A timeout is not retried on the same candidate.                         *)
ShouldRetry(r, e) ==
  e = "retryable" /\ tries[r] < MaxRetries /\ kind[r] # "bounded" /\ ~Committed(r)

(* Mutant: a stream that has sent content moves on all the same.           *)
ShouldFailOver_committed(r, e) ==
  e \in {"retryable", "timeout"} /\ attempt[r] < AttemptLimit(r)

ShouldFailOver(r, e) ==
  e \in {"retryable", "timeout"} /\ attempt[r] < AttemptLimit(r) /\ ~Committed(r)

Retry(r) == Goto(r, "backoff") /\ UNCHANGED <<attempt, tries, calls, error>>

FailOver(r) ==
  /\ attempt' = [attempt EXCEPT ![r] = @ + 1]
  /\ tries' = [tries EXCEPT ![r] = 0]
  /\ Invoke(r, plan[r][attempt[r] + 1])
  /\ UNCHANGED error

(* Every way out records a failure of the current candidate.               *)
Catch(r, e) ==
  /\ RecordFailure(Provider(r))
  /\ \/ ShouldRetry(r, e) /\ Retry(r)
     \/ ~ShouldRetry(r, e) /\ ShouldFailOver(r, e) /\ FailOver(r)
     \/ ~ShouldRetry(r, e) /\ ~ShouldFailOver(r, e) /\ EndWith(r, e)
  /\ UNCHANGED <<kind, plan, senders, aborted, cached>>

-----------------------------------------------------------------------------
(* Outcomes of an upstream call.                                           *)

(* A stream sends its first content event: the request is committed.       *)
Content(r) ==
  /\ phase[r] = "trying"
  /\ kind[r] = "stream"
  /\ senders' = [senders EXCEPT ![r] = @ \cup {Len(calls[r])}]
  /\ UNCHANGED <<healthVars, kind, phase, plan, attempt, tries, calls, aborted, error,
                 cached>>

(* The answer, or the done event of a stream, is there; the write to the   *)
(* cache is awaited.                                                       *)
Answer(r) ==
  /\ phase[r] = "trying"
  /\ Goto(r, "answered")
  /\ UNCHANGED <<healthVars, kind, plan, attempt, tries, calls, senders, aborted, error,
                 cached>>

Complete(r) ==
  /\ phase[r] = "answered"
  /\ cached' = TRUE
  /\ RecordSuccess(Provider(r))
  /\ Goto(r, "done")
  /\ UNCHANGED <<kind, plan, attempt, tries, calls, senders, aborted, error>>

(* The upstream fails, or the write to the cache does.                     *)
Fails(r) ==
  /\ phase[r] \in {"trying", "answered"}
  /\ ~Cancelled(r)
  /\ \E e \in {"retryable", "fatal"} : Catch(r, e)

(* attemptTimeoutMs of chat; a pinned request and a stream have none.      *)
TimesOut(r) ==
  /\ phase[r] = "trying"
  /\ kind[r] \in {"chat", "bounded"}
  /\ ~Cancelled(r)
  /\ Catch(r, "timeout")

-----------------------------------------------------------------------------
(* The client goes away.                                                   *)

ClientAborts(r) ==
  /\ phase[r] \notin Ended \cup {"idle"}
  /\ ~aborted[r]
  /\ aborted' = [aborted EXCEPT ![r] = TRUE]
  /\ UNCHANGED <<healthVars, kind, phase, plan, attempt, tries, calls, senders, error,
                 cached>>

(* chat rethrows the abort before it records a failure.                    *)
AbortEnds(r) ==
  /\ phase[r] \in {"planning", "trying", "answered", "backoff"}
  /\ Cancelled(r)
  /\ EndWith(r, "aborted")
  /\ UNCHANGED <<healthVars, kind, plan, senders, aborted, cached>>

(* chatStream has no such check: the abort is a failure of the provider.   *)
StreamAborted(r) ==
  /\ phase[r] = "trying"
  /\ kind[r] = "stream"
  /\ aborted[r]
  /\ Catch(r, "fatal")

(* Mutant: the backoff of a stream is cut off with its client.             *)
Wake_dropped(r) ==
  /\ phase[r] = "backoff"
  /\ ~aborted[r]
  /\ tries' = [tries EXCEPT ![r] = @ + 1]
  /\ Invoke(r, Current(r))
  /\ UNCHANGED <<healthVars, kind, plan, attempt, senders, aborted, error, cached>>

(* Mutant: the retry is not counted.                                       *)
Wake_uncounted(r) ==
  /\ phase[r] = "backoff"
  /\ ~Cancelled(r)
  /\ Invoke(r, Current(r))
  /\ UNCHANGED <<healthVars, kind, plan, attempt, tries, senders, aborted, error, cached>>

(* The backoff is over.                                                    *)
Wake(r) ==
  /\ phase[r] = "backoff"
  /\ ~Cancelled(r)
  /\ tries' = [tries EXCEPT ![r] = @ + 1]
  /\ Invoke(r, Current(r))
  /\ UNCHANGED <<healthVars, kind, plan, attempt, senders, aborted, error, cached>>

-----------------------------------------------------------------------------
Proceed(r) ==
  \/ PlanRoute(r) \/ Answer(r) \/ Complete(r) \/ Fails(r) \/ TimesOut(r)
  \/ AbortEnds(r) \/ StreamAborted(r) \/ Wake(r)

Next ==
  \/ \E r \in Requests : Lookup(r) \/ Content(r) \/ ClientAborts(r) \/ Proceed(r)
  \/ Tick /\ UNCHANGED <<requestVars, cached>>

Spec == Init /\ [][Next]_vars

(* Every upstream call, cache write and backoff ends.                      *)
Fairness == \A r \in Requests : WF_vars(Proceed(r))

FairSpec == Spec /\ Fairness

-----------------------------------------------------------------------------
(* Properties.                                                             *)

(* Failover only before the first token: once a call has sent content it   *)
(* is the last call of its request, through retries, timeouts and late     *)
(* failures of the cache write.                                            *)
CommittedIsLast ==
  \A r \in Requests : \A i \in senders[r] : i = Len(calls[r])

(* A request makes no more calls than its limit allows, and a bounded one  *)
(* at most one; yet a retryable failure reaches the caller of an           *)
(* uncommitted request only when every decision within its limit has been  *)
(* called, however retries, timeouts and failovers mix.                    *)
LimitIsWalked ==
  \A r \in Requests :
    /\ Len(calls[r]) <= IF kind[r] = "bounded" THEN 1
                        ELSE AttemptLimit(r) * (MaxRetries + 1)
    /\ phase[r] = "failed" /\ error[r] \in {"retryable", "timeout"} /\ ~Committed(r)
         => \A i \in 1 .. AttemptLimit(r) :
              \E j \in DOMAIN calls[r] : calls[r][j] = plan[r][i]

(* A call on the shared pool comes only after every decision of the plan   *)
(* on the caller's own key was called and failed, and a call above the     *)
(* ceiling after every one of its side below it.                           *)
FallbackOrder ==
  \A r \in Requests : \A j \in DOMAIN calls[r] : \A i \in DOMAIN plan[r] :
    Before(plan[r][i], calls[r][j]) => \E h \in 1 .. j - 1 : calls[r][h] = plan[r][i]

(* Both: what is planned within the limit is all tried, in the order of    *)
(* preference, before a failure is surfaced.                               *)
PlanIsWalked == LimitIsWalked /\ FallbackOrder

(* No success, of whichever request, closes a circuit within its cooldown; *)
(* and a request that ends for its client's abort makes no further call,   *)
(* not even by a retry already under way, and counts no failure of a       *)
(* provider.                                                               *)
CircuitsAreFair ==
  [][/\ \A p \in Candidates :
          IsOpen(p) /\ openedAt'[p] = Closed => now - openedAt[p] >= Cooldown
     /\ \A r \in Requests :
          Cancelled(r) =>
            /\ calls'[r] = calls[r]
            /\ phase'[r] # phase[r] => \A p \in Candidates : failures'[p] <= failures[p]
    ]_vars

(* A request that has started ends, whatever fails on its way.             *)
EveryRequestEnds == \A r \in Requests : phase[r] = "planning" ~> phase[r] \in Ended

(* How many steps a request has before it at most: for every try that its  *)
(* plan and its retries leave it, a call, its answer and a backoff.        *)
StepsLeft(r) ==
  LET most == 3 * MaxAttempts * (MaxRetries + 1)
      triesLeft == (AttemptLimit(r) - attempt[r]) * (MaxRetries + 1) + MaxRetries - tries[r]
  IN  CASE phase[r] = "idle"     -> most + 2
        [] phase[r] = "planning" -> most + 1
        [] phase[r] = "trying"   -> 3 * triesLeft + 3
        [] phase[r] = "answered" -> 3 * triesLeft + 2
        [] phase[r] = "backoff"  -> 3 * triesLeft + 1
        [] phase[r] \in Ended    -> 0

(* Whatever the outcomes of its calls, whoever aborts and whatever the     *)
(* other requests do to the circuits, a request only ever comes closer to  *)
(* its end: retries, failovers and late failures of the cache write use up *)
(* a number of steps fixed when it started (the loops of chat and          *)
(* chatStream, router.ts).                                                 *)
EveryStepCounts ==
  [][\A r \in Requests :
       \/ UNCHANGED <<phase[r], plan[r], attempt[r], tries[r], calls[r]>>
       \/ StepsLeft(r)' \in 0 .. StepsLeft(r) - 1]_vars

(* What docs/billing-outcomes.md says of a client that aborts, streams     *)
(* included: its request is no failure of a provider.                      *)
AbortIsNotBlamed ==
  [][\A r \in Requests : aborted[r] /\ phase'[r] # phase[r]
       => \A p \in Candidates : failures'[p] <= failures[p]]_vars
=============================================================================
