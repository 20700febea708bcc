-------------------------- MODULE ConnectionLedger --------------------------
(***************************************************************************)
(* The connection ledger store: the SQL functions shipyard_connection_     *)
(* debit, _settle and _release over the tables budgets, holds and ledger,  *)
(* and the memory store that mirrors them.  Each function runs under a row *)
(* lock of the key (in memory: without an await), so each is one step.     *)
(* A function has an effect and a reply; both are given here, and          *)
(* ConnectionBudget decides when a call of the gateway reaches the store.  *)
(*                                                                         *)
(* Money is a small integer.  The row of a key exists from the start with  *)
(* zero counters: the first debit inserts exactly that row.                *)
(***************************************************************************)
EXTENDS Integers, FiniteSets, Functions

CONSTANTS
  Keys,     (* connections: key_id of shipyard_connection_budgets          *)
  Calls,    (* calls of the gateway; c stands for the key conn:<key>:<id>  *)
  KeyOf,    (* the connection a call is made on                            *)
  Budget,   (* budget_usd                                                  *)
  HoldUsd,  (* amount_usd of every hold                                    *)
  Costs,    (* cost_usd of a settle                                        *)
  NoRow     (* no ledger row for this idempotency key                      *)

ASSUME StoreAssumption ==
  /\ KeyOf \in [Calls -> Keys]
  /\ IsFiniteSet(Calls)
  /\ Budget \in Nat
  /\ HoldUsd \in Nat
  /\ Costs \subseteq Nat
  /\ NoRow \notin Nat

VARIABLES
  spent,    (* spent_usd of each key                                       *)
  reserved, (* reserved_usd of each key                                    *)
  holds,    (* status of the hold of each call, none before its debit      *)
  ledger    (* cost_usd of the one ledger row of each call                 *)

storeVars == <<spent, reserved, holds, ledger>>

StoreTypeOK ==
  /\ spent \in [Keys -> Nat]
  /\ reserved \in [Keys -> Nat]
  /\ holds \in [Calls -> {"none", "held", "settled", "released"}]
  /\ ledger \in [Calls -> Costs \cup {NoRow}]

StoreInit ==
  /\ spent = [k \in Keys |-> 0]
  /\ reserved = [k \in Keys |-> 0]
  /\ holds = [c \in Calls |-> "none"]
  /\ ledger = [c \in Calls |-> NoRow]

-----------------------------------------------------------------------------
(* shipyard_connection_debit: check and reserve, or find the hold again.   *)

(* Mutant: an admission that forgets the holds of concurrent calls.        *)
Fits_ignoresHolds(c) == spent[KeyOf[c]] + HoldUsd <= Budget

Fits(c) == spent[KeyOf[c]] + reserved[KeyOf[c]] + HoldUsd <= Budget

DebitReply(c) == IF holds[c] # "none" \/ Fits(c) THEN "ok" ELSE "refused"

Debit(c) ==
  \/ /\ holds[c] = "none"
     /\ Fits(c)
     /\ reserved' = [reserved EXCEPT ![KeyOf[c]] = @ + HoldUsd]
     /\ holds' = [holds EXCEPT ![c] = "held"]
     /\ UNCHANGED <<spent, ledger>>
  \/ /\ holds[c] = "none" => ~Fits(c)
     /\ UNCHANGED storeVars

-----------------------------------------------------------------------------
(* Off reserved: greatest(reserved_usd - amount_usd, 0)                   *)
Unreserved(amount) == IF amount >= HoldUsd THEN amount - HoldUsd ELSE 0

(* shipyard_connection_settle: the hold becomes spend and one ledger row;  *)
(* a settled hold is left alone, and a released or missing one raises.     *)

SettleReply(c) == IF holds[c] \in {"held", "settled"} THEN "ok" ELSE "raised"

(* Mutant: a settle that arrives again spends again.                       *)
StoreSettle_repeats(c, cost) ==
  \/ /\ holds[c] \in {"held", "settled"}
     /\ reserved' = [reserved EXCEPT ![KeyOf[c]] = Unreserved(@)]
     /\ spent' = [spent EXCEPT ![KeyOf[c]] = @ + cost]
     /\ ledger' = [ledger EXCEPT ![c] = IF @ = NoRow THEN cost ELSE @]
     /\ holds' = [holds EXCEPT ![c] = "settled"]
  \/ /\ holds[c] \in {"none", "released"}
     /\ UNCHANGED storeVars

StoreSettle(c, cost) ==
  \/ /\ holds[c] = "held"
     /\ reserved' = [reserved EXCEPT ![KeyOf[c]] = Unreserved(@)]
     /\ spent' = [spent EXCEPT ![KeyOf[c]] = @ + cost]
     /\ ledger' = [ledger EXCEPT ![c] = IF @ = NoRow THEN cost ELSE @]
     /\ holds' = [holds EXCEPT ![c] = "settled"]
  \/ /\ holds[c] # "held"
     /\ UNCHANGED storeVars

(* shipyard_connection_release: frees a held hold, leaves any other alone. *)
StoreRelease(c) ==
  \/ /\ holds[c] = "held"
     /\ reserved' = [reserved EXCEPT ![KeyOf[c]] = Unreserved(@)]
     /\ holds' = [holds EXCEPT ![c] = "released"]
     /\ UNCHANGED <<spent, ledger>>
  \/ /\ holds[c] # "held"
     /\ UNCHANGED storeVars

-----------------------------------------------------------------------------
(* shipyard_connection_drift and the audit of the holds table.             *)

CallsOf(k) == {c \in Calls : KeyOf[c] = k}

LedgerSum(k) ==
  SumFunctionOnSet([c \in Calls |-> IF ledger[c] = NoRow THEN 0 ELSE ledger[c]],
                   CallsOf(k))

HeldSum(k) ==
  SumFunctionOnSet([c \in Calls |-> IF holds[c] = "held" THEN HoldUsd ELSE 0],
                   CallsOf(k))

(* The part of the charges that no hold covered.                           *)
OverrunSum(k) ==
  SumFunctionOnSet([c \in Calls |->
                      IF ledger[c] # NoRow /\ ledger[c] > HoldUsd
                      THEN ledger[c] - HoldUsd ELSE 0],
                   CallsOf(k))
=============================================================================
