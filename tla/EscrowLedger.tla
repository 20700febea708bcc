---------------------------- MODULE EscrowLedger ----------------------------
(***************************************************************************)
(* What the connection ledger promises, without counters, messages or      *)
(* retries: a call is open until it is admitted, an admitted call holds a  *)
(* fixed amount, and a held call is either charged once or freed once,     *)
(* for good.  Admission is decided by an audit of every call of the key.   *)
(* ConnectionBudget implements this specification.                         *)
(***************************************************************************)
EXTENDS Integers, Functions

CONSTANTS
  Keys,     (* connections: the dock_ project ids                          *)
  Calls,    (* billed calls, one idempotency key each                      *)
  KeyOf,    (* the connection a call is made on                            *)
  Budget,   (* lifetime budget of a connection                             *)
  HoldUsd,  (* amount held for a call before it is served                  *)
  Costs     (* what a served call may turn out to cost                     *)

VARIABLES
  status,   (* open, held, charged or freed                                *)
  charge    (* what a charged call was charged, 0 for the others           *)

vars == <<status, charge>>

CallsOf(k) == {c \in Calls : KeyOf[c] = k}

(* What the key is committed to: every charge and every hold.              *)
Commitment(k) ==
  SumFunctionOnSet([c \in Calls |-> IF status[c] = "held" THEN HoldUsd ELSE charge[c]],
                   CallsOf(k))

Init ==
  /\ status = [c \in Calls |-> "open"]
  /\ charge = [c \in Calls |-> 0]

Admit(c) ==
  /\ status[c] = "open"
  /\ Commitment(KeyOf[c]) + HoldUsd <= Budget
  /\ status' = [status EXCEPT ![c] = "held"]
  /\ UNCHANGED charge

Charge(c, cost) ==
  /\ status[c] = "held"
  /\ status' = [status EXCEPT ![c] = "charged"]
  /\ charge' = [charge EXCEPT ![c] = cost]

Free(c) ==
  /\ status[c] = "held"
  /\ status' = [status EXCEPT ![c] = "freed"]
  /\ UNCHANGED charge

Next == \E c \in Calls :
  \/ Admit(c)
  \/ \E cost \in Costs : Charge(c, cost)
  \/ Free(c)

Spec == Init /\ [][Next]_vars
=============================================================================
