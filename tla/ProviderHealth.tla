--------------------------- MODULE ProviderHealth ---------------------------
(***************************************************************************)
(* The circuit breaker of the router, ProviderHealthTracker: consecutive   *)
(* failures of each candidate, and when its circuit opened.  Its methods   *)
(* do not await, so each is one step of its caller.                        *)
(***************************************************************************)
EXTENDS Integers

CONSTANTS
  Candidates, (* provider ids                                              *)
  Threshold,  (* failureThreshold                                          *)
  Cooldown,   (* cooldownMs, in ticks of the clock                         *)
  MaxTime,    (* bound: the clock stops there                              *)
  Closed      (* openedAt of a closed circuit                              *)

ASSUME HealthAssumption ==
  /\ Threshold \in Nat \ {0}
  /\ Cooldown \in Nat
  /\ MaxTime \in Nat
  /\ Closed \notin Nat

VARIABLES
  failures,   (* consecutiveFailures                                       *)
  openedAt,   (* time the circuit last opened                              *)
  now         (* the clock                                                 *)

healthVars == <<failures, openedAt, now>>

HealthTypeOK ==
  /\ failures \in [Candidates -> Nat]
  /\ openedAt \in [Candidates -> Nat \cup {Closed}]
  /\ now \in Nat

HealthInit ==
  /\ failures = [p \in Candidates |-> 0]
  /\ openedAt = [p \in Candidates |-> Closed]
  /\ now = 0

IsOpen(p) == openedAt[p] # Closed

(* Closed, or half-open: the cooldown is over.                             *)
IsAvailable(p) == IsOpen(p) => now - openedAt[p] >= Cooldown

(* Mutant: any success closes the circuit.                                 *)
RecordSuccess_always(p) ==
  /\ failures' = [failures EXCEPT ![p] = 0]
  /\ openedAt' = [openedAt EXCEPT ![p] = Closed]
  /\ UNCHANGED now

(* A success while the circuit is open is ignored.                         *)
RecordSuccess(p) ==
  IF IsAvailable(p)
  THEN /\ failures' = [failures EXCEPT ![p] = 0]
       /\ openedAt' = [openedAt EXCEPT ![p] = Closed]
       /\ UNCHANGED now
  ELSE UNCHANGED healthVars

(* Every failure at or over the threshold starts the cooldown again.       *)
RecordFailure(p) ==
  /\ failures' = [failures EXCEPT ![p] = @ + 1]
  /\ openedAt' = [openedAt EXCEPT ![p] = IF failures[p] + 1 >= Threshold THEN now ELSE @]
  /\ UNCHANGED now

Tick ==
  /\ now < MaxTime
  /\ now' = now + 1
  /\ UNCHANGED <<failures, openedAt>>
=============================================================================
