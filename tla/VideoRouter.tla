----------------------------- MODULE VideoRouter -----------------------------
(***************************************************************************)
(* Video generation: generate queues a job on a provider and polls it, and *)
(* moves on to the next provider on a retryable error of either; queue     *)
(* only queues, and its client retrieves and completes the job with later  *)
(* calls, which know the model and the id of the job but not its provider. *)
(*                                                                         *)
(* Providers are numbered as the router ranks them for the model, cheapest *)
(* first.  A provider is external: it may start a job whose answer is lost. *)
(***************************************************************************)
EXTENDS Integers, FiniteSets

CONSTANTS
  Videos,          (* calls of generate, and of queue with what follows    *)
  Providers,       (* number of candidates with the model                  *)
  MaxFailover,     (* maxFailoverAttempts                                  *)
  MaxPolls,        (* maxPollAttempts                                      *)
  Completing       (* calls for whose model the provider asked has the     *)
                   (* optional complete                                    *)

ASSUME VideoAssumption ==
  /\ Providers \in Nat \ {0}
  /\ MaxFailover \in Nat \ {0}
  /\ MaxPolls \in Nat
  /\ Completing \subseteq Videos

VARIABLES
  want,        (* generate or queue                                        *)
  stage,       (* where the call, or its client, stands                    *)
  at,          (* the provider being tried, or where the job was queued    *)
  polls,       (* retrieves of the job so far                              *)
  jobs,        (* providers where a job of the call is running or done     *)
  rendered,    (* those whose job is done                                  *)
  blamed       (* providers that failed the call; only properties read it  *)

videoVars == <<want, stage, at, polls, jobs, rendered, blamed>>

VideoTypeOK ==
  /\ want \in [Videos -> {"generate", "queue"}]
  /\ stage \in [Videos -> {"idle", "queueing", "polling", "done", "failed",
                           "queued", "found", "notfound", "completed"}]
  /\ at \in [Videos -> 1 .. Providers]
  /\ polls \in [Videos -> 0 .. MaxPolls]
  /\ jobs \in [Videos -> SUBSET (1 .. Providers)]
  /\ rendered \in [Videos -> SUBSET (1 .. Providers)]
  /\ blamed \in [Videos -> SUBSET (1 .. Providers)]

VideoInit ==
  /\ want \in [Videos -> {"generate", "queue"}]
  /\ stage = [v \in Videos |-> "idle"]
  /\ at = [v \in Videos |-> 1]
  /\ polls = [v \in Videos |-> 0]
  /\ jobs = [v \in Videos |-> {}]
  /\ rendered = [v \in Videos |-> {}]
  /\ blamed = [v \in Videos |-> {}]

Limit == IF MaxFailover < Providers THEN MaxFailover ELSE Providers

To(v, s) == stage' = [stage EXCEPT ![v] = s]

Submit(v) ==
  /\ stage[v] = "idle"
  /\ To(v, "queueing")
  /\ UNCHANGED <<want, at, polls, jobs, rendered, blamed>>

(* The provider answers with the id of a job.                              *)
JobQueued(v) ==
  /\ stage[v] = "queueing"
  /\ jobs' = [jobs EXCEPT ![v] = @ \cup {at[v]}]
  /\ To(v, IF want[v] = "generate" THEN "polling" ELSE "queued")
  /\ UNCHANGED <<want, at, polls, rendered, blamed>>

(* The catch block: the next provider, or the error is thrown.             *)
VideoCatch(v, retryable) ==
  /\ polls' = [polls EXCEPT ![v] = 0]
  /\ IF retryable /\ at[v] < Limit
     THEN at' = [at EXCEPT ![v] = @ + 1] /\ To(v, "queueing")
     ELSE UNCHANGED at /\ To(v, "failed")

(* A job may have been queued all the same.                                *)
QueueFails(v) ==
  /\ stage[v] = "queueing"
  /\ blamed' = [blamed EXCEPT ![v] = @ \cup {at[v]}]
  /\ jobs' \in {jobs, [jobs EXCEPT ![v] = @ \cup {at[v]}]}
  /\ \E retryable \in BOOLEAN : VideoCatch(v, retryable)
  /\ UNCHANGED <<want, rendered>>

(* A retrieve says that the job is done: the video is returned.            *)
PollDone(v) ==
  /\ stage[v] = "polling"
  /\ polls[v] < MaxPolls
  /\ at[v] \in rendered[v]
  /\ To(v, "done")
  /\ polls' = [polls EXCEPT ![v] = 0]
  /\ UNCHANGED <<want, at, jobs, rendered, blamed>>

PollPending(v) ==
  /\ stage[v] = "polling"
  /\ polls[v] < MaxPolls
  /\ at[v] \notin rendered[v]
  /\ polls' = [polls EXCEPT ![v] = @ + 1]
  /\ UNCHANGED <<want, stage, at, jobs, rendered, blamed>>

PollFails(v) ==
  /\ stage[v] = "polling"
  /\ polls[v] < MaxPolls
  /\ blamed' = [blamed EXCEPT ![v] = @ \cup {at[v]}]
  /\ \E retryable \in BOOLEAN : VideoCatch(v, retryable)
  /\ UNCHANGED <<want, jobs, rendered>>

(* Mutant: polls used up count as a timeout of the provider.               *)
PollsExhausted_retryable(v) ==
  /\ stage[v] = "polling"
  /\ polls[v] = MaxPolls
  /\ VideoCatch(v, TRUE)
  /\ UNCHANGED <<want, jobs, rendered, blamed>>

(* The error of a poll budget used up is none of the retryable ones: the   *)
(* job is left to run.                                                     *)
PollsExhausted(v) ==
  /\ stage[v] = "polling"
  /\ polls[v] = MaxPolls
  /\ VideoCatch(v, FALSE)
  /\ UNCHANGED <<want, jobs, rendered, blamed>>

(* The provider that retrieve and complete ask: the first of the model.    *)
AskedProvider == 1

(* The client of queue asks for its video; an answer that it is not ready  *)
(* and an error of the provider leave it where it is.                      *)
Retrieve(v) ==
  /\ stage[v] = "queued"
  /\ \/ AskedProvider = at[v] /\ AskedProvider \in rendered[v] /\ To(v, "found")
     \/ AskedProvider # at[v] /\ To(v, "notfound")
  /\ UNCHANGED <<want, at, polls, jobs, rendered, blamed>>

(* complete cancels the job or marks it done, where it finds it; a         *)
(* provider that has no complete is not asked.                             *)
CompleteVideo(v) ==
  LET gone == IF v \in Completing THEN {AskedProvider} \cap {at[v]} ELSE {} IN
  /\ stage[v] \in {"queued", "found"}
  /\ jobs' = [jobs EXCEPT ![v] = @ \ gone]
  /\ rendered' = [rendered EXCEPT ![v] = @ \ gone]
  /\ To(v, "completed")
  /\ UNCHANGED <<want, at, polls, blamed>>

(* A job is rendered, whether anyone still waits for it or not.            *)
Renders(v, p) ==
  /\ p \in jobs[v] \ rendered[v]
  /\ rendered' = [rendered EXCEPT ![v] = @ \cup {p}]
  /\ UNCHANGED <<want, stage, at, polls, jobs, blamed>>

VideoNext ==
  \E v \in Videos :
    \/ Submit(v) \/ JobQueued(v) \/ QueueFails(v)
    \/ PollDone(v) \/ PollPending(v) \/ PollFails(v) \/ PollsExhausted(v)
    \/ Retrieve(v) \/ CompleteVideo(v)
    \/ \E p \in 1 .. Providers : Renders(v, p)

VideoSpec == VideoInit /\ [][VideoNext]_videoVars

-----------------------------------------------------------------------------
(* Properties.                                                             *)

(* One request, one job: a second provider has a job of the same call, to  *)
(* be paid for and fetched by nobody, only when the first one failed the   *)
(* call itself; a slow job is no reason.  And the job a client was given   *)
(* is found, and gone once completed, unless a cheaper provider failed     *)
(* when it was queued - retrieve and complete go to the first candidate -  *)
(* or the one asked has no complete (generate, isRetryable, retrieve,      *)
(* complete).                                                              *)
OneJobAtHome ==
  \A v \in Videos :
    /\ \A p \in jobs[v] : 1 .. p - 1 \subseteq blamed[v]
    /\ stage[v] = "notfound" => 1 \in blamed[v]
    /\ stage[v] = "completed" /\ jobs[v] # {} /\ v \in Completing => 1 \in blamed[v]
=============================================================================
