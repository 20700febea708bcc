------------------------------- MODULE MCLive -------------------------------
(* What must end: the holds of a connection, and the requests of the       *)
(* router.  The two share no state here: a behaviour is one of the one or  *)
(* of the other, each under its own fairness.                              *)
EXTENDS MCConnectionBudget

CONSTANTS
  p1, p2, d1, d2, r1, r2, Requests, Candidates, Threshold, Cooldown, MaxTime, Closed,
  Decisions, CandidateOf, OwnKey, AboveCeiling, MaxAttempts, MaxRetries

VARIABLES
  half, failures, openedAt, now, kind, routerPhase, plan, attempt, tries, calls,
  senders, aborted, error, cached

OnePerCandidate == d1 :> p1 @@ d2 :> p2

Router == INSTANCE RouterFailover WITH phase <- routerPhase

routerVars == <<failures, openedAt, now, kind, routerPhase, plan, attempt, tries,
                calls, senders, aborted, error, cached>>

(* One call of each mode; and of two assignments of kinds to requests that *)
(* are the same but for names, one.                                        *)
OneOfEachMode == mode[c1] = "json" /\ mode[c2] = "sse"
OrderedKinds ==
  LET rank == [chat |-> 1, bounded |-> 2, pinned |-> 3, stream |-> 4]
  IN rank[kind[r1]] <= rank[kind[r2]]

LiveInit ==
  /\ half \in {"connection", "router"}
  /\ Init
  /\ Router!Init
  /\ IF half = "connection"
     THEN kind = [r \in Requests |-> "chat"] /\ OneOfEachMode
     ELSE mode = [c \in Calls |-> "json"] /\ OrderedKinds

LiveNext ==
  /\ UNCHANGED half
  /\ \/ half = "connection" /\ Next /\ UNCHANGED routerVars
     \/ half = "router" /\ Router!Next /\ UNCHANGED vars

LiveSpec ==
  /\ LiveInit
  /\ [][LiveNext]_<<half, vars, routerVars>>
  /\ Fairness
  /\ Router!Fairness

(* A request of the router that has started ends, whatever fails on its    *)
(* way (RouterFailover).                                                   *)
EveryRequestEnds == Router!EveryRequestEnds
=============================================================================
