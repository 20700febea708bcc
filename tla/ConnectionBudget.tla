-------------------------- MODULE ConnectionBudget --------------------------
(***************************************************************************)
(* A billed call on a dock_ connection, from the gateway's reserve to its  *)
(* settle or release, with the store behind a network.                     *)
(*                                                                         *)
(* The gateway awaits one store RPC at a time (connectionReserve,          *)
(* connectionSettle and its one retry, connectionRelease).  An awaited RPC *)
(* ends in a reply or in an error; an error says nothing about whether the *)
(* store has run the request, will still run it, or never will.            *)
(*                                                                         *)
(* The upstream call is reduced to its outcomes: it fails, or it completes *)
(* with a cost that is billed, or unbilled (the caller's own key); a       *)
(* streamed call sends content before either.                              *)
(***************************************************************************)
EXTENDS ConnectionLedger

CONSTANTS NoResult  (* the upstream call has not completed                 *)

VARIABLES
  mode,            (* json or sse: body.stream                             *)
  phase,           (* where the handler of each call stands                *)
  result,          (* cost and billed flag of the completed upstream call  *)
  settleAttempted, (* ConnectionHold.settleAttempted                       *)
  delivered,       (* content the gateway has sent: none, partial or full  *)
  http,            (* how the call ended for its client                    *)
  pending,         (* RPCs sent that the store may still run               *)
  reply,           (* reply of the store to the RPC the handler awaits     *)
  fault            (* an RPC was lost, repeated or failed, or the gateway
                      died during the call; only properties read it        *)

gatewayVars == <<mode, phase, result, settleAttempted, delivered, http>>
netVars     == <<pending, reply>>
vars        == <<storeVars, gatewayVars, netVars, fault>>

Results == [cost : Costs, billed : {TRUE}] \cup [cost : {0}, billed : {FALSE}]

ASSUME NoResultAssumption == NoResult \notin Results

(* The phases that await an RPC; a request is named after its phase.       *)
Waiting == {"reserving", "settling", "retrying", "freeing", "abandoning"}
Ended   == {"done", "crashed"}
Phases  == Waiting \cup Ended \cup {"idle", "serving", "served", "closing"}
Outcomes == {"none", "ok", "error", "refused", "unavailable"}

TypeOK ==
  /\ StoreTypeOK
  /\ mode \in [Calls -> {"json", "sse"}]
  /\ phase \in [Calls -> Phases]
  /\ result \in [Calls -> Results \cup {NoResult}]
  /\ settleAttempted \in [Calls -> BOOLEAN]
  /\ delivered \in [Calls -> {"none", "partial", "full"}]
  /\ http \in [Calls -> Outcomes]
  /\ pending \in [Calls -> SUBSET Waiting]
  /\ reply \in [Calls -> {"none", "ok", "refused", "raised"}]
  /\ fault \in [Calls -> BOOLEAN]

Init ==
  /\ StoreInit
  /\ mode \in [Calls -> {"json", "sse"}]
  /\ phase = [c \in Calls |-> "idle"]
  /\ result = [c \in Calls |-> NoResult]
  /\ settleAttempted = [c \in Calls |-> FALSE]
  /\ delivered = [c \in Calls |-> "none"]
  /\ http = [c \in Calls |-> "none"]
  /\ pending = [c \in Calls |-> {}]
  /\ reply = [c \in Calls |-> "none"]
  /\ fault = [c \in Calls |-> FALSE]

-----------------------------------------------------------------------------
(* Steps of a handler.                                                     *)

Goto(c, p) == phase' = [phase EXCEPT ![c] = p]

(* Send the RPC that phase p awaits.                                       *)
Call(c, p) ==
  /\ Goto(c, p)
  /\ pending' = [pending EXCEPT ![c] = @ \cup {p}]
  /\ reply' = [reply EXCEPT ![c] = "none"]

End(c, outcome) ==
  /\ Goto(c, "done")
  /\ http' = [http EXCEPT ![c] = outcome]
  /\ UNCHANGED netVars

Answered(c, p) == phase[c] = p /\ reply[c] = "ok"

(* The await throws.  The store may have answered all the same.            *)
Throws(c, p) ==
  /\ phase[c] = p
  /\ fault' = [fault EXCEPT ![c] = TRUE]

(* Mutant: the catch block releases whatever was attempted.                *)
Catch_always(c) == Call(c, "abandoning") /\ UNCHANGED http

(* The catch block: connectionRelease, unless a settle was attempted.      *)
Catch(c) ==
  IF settleAttempted[c]
  THEN End(c, "error")
  ELSE Call(c, "abandoning") /\ UNCHANGED http

-----------------------------------------------------------------------------
(* connectionReserve, before anything is served.                           *)

Reserve(c) ==
  /\ phase[c] = "idle"
  /\ Call(c, "reserving")
  /\ UNCHANGED <<storeVars, mode, result, settleAttempted, delivered, http, fault>>

Reserved(c) ==
  /\ Answered(c, "reserving")
  /\ Goto(c, "serving")
  /\ UNCHANGED <<storeVars, mode, result, settleAttempted, delivered, http, netVars, fault>>

Refused(c) ==
  /\ phase[c] = "reserving"
  /\ reply[c] = "refused"
  /\ End(c, "refused")
  /\ UNCHANGED <<storeVars, mode, result, settleAttempted, delivered, fault>>

(* Mutant: serve without a hold when the store is down.                    *)
ReserveFails_open(c) ==
  /\ Throws(c, "reserving")
  /\ Goto(c, "serving")
  /\ UNCHANGED <<storeVars, mode, result, settleAttempted, delivered, http, netVars>>

ReserveFails(c) ==
  /\ Throws(c, "reserving")
  /\ End(c, "unavailable")
  /\ UNCHANGED <<storeVars, mode, result, settleAttempted, delivered>>

-----------------------------------------------------------------------------
(* The upstream call, router.chat or router.chatStream.                    *)

Token(c) ==
  /\ phase[c] = "serving"
  /\ mode[c] = "sse"
  /\ delivered[c] = "none"
  /\ delivered' = [delivered EXCEPT ![c] = "partial"]
  /\ UNCHANGED <<storeVars, mode, phase, result, settleAttempted, http, netVars, fault>>

(* A stream has sent its whole answer by then; a JSON answer is held back. *)
ServeOk(c) ==
  /\ phase[c] = "serving"
  /\ \E r \in Results : result' = [result EXCEPT ![c] = r]
  /\ delivered' = IF mode[c] = "sse" THEN [delivered EXCEPT ![c] = "full"] ELSE delivered
  /\ Goto(c, "served")
  /\ UNCHANGED <<storeVars, mode, settleAttempted, http, netVars, fault>>

(* Mutant: the error path forgets the hold.                                *)
ServeFails_keepsHold(c) ==
  /\ phase[c] = "serving"
  /\ End(c, "error")
  /\ UNCHANGED <<storeVars, mode, result, settleAttempted, delivered, fault>>

(* The provider fails for good, or the client goes away mid-stream.        *)
ServeFails(c) ==
  /\ phase[c] = "serving"
  /\ Catch(c)
  /\ UNCHANGED <<storeVars, mode, result, settleAttempted, delivered, fault>>

(* A stream awaits the tender's finish before it settles, and that awaits  *)
(* a write to the credit store, which throws when the store is down.       *)
FinishFails(c) ==
  /\ phase[c] = "served"
  /\ mode[c] = "sse"
  /\ Catch(c)
  /\ UNCHANGED <<storeVars, mode, result, settleAttempted, delivered, fault>>

-----------------------------------------------------------------------------
(* connectionSettle: an unbilled call is released, a billed one settled    *)
(* with one retry on an error.                                             *)

(* Mutant: an unbilled call returns before its hold is released.           *)
Free_skipsRelease(c) ==
  /\ phase[c] = "served"
  /\ ~result[c].billed
  /\ Goto(c, "closing")
  /\ UNCHANGED <<storeVars, mode, result, settleAttempted, delivered, http, netVars, fault>>

Free(c) ==
  /\ phase[c] = "served"
  /\ ~result[c].billed
  /\ Call(c, "freeing")
  /\ UNCHANGED <<storeVars, mode, result, settleAttempted, delivered, http, fault>>

Settle(c) ==
  /\ phase[c] = "served"
  /\ result[c].billed
  /\ settleAttempted' = [settleAttempted EXCEPT ![c] = TRUE]
  /\ Call(c, "settling")
  /\ UNCHANGED <<storeVars, mode, result, delivered, http, fault>>

Settled(c) ==
  /\ Answered(c, "settling") \/ Answered(c, "retrying")
  /\ Goto(c, "closing")
  /\ UNCHANGED <<storeVars, mode, result, settleAttempted, delivered, http, netVars, fault>>

SettleRetry(c) ==
  /\ Throws(c, "settling")
  /\ Call(c, "retrying")
  /\ UNCHANGED <<storeVars, mode, result, settleAttempted, delivered, http>>

(* Mutant: a settle that failed twice is ignored.                          *)
SettleFails_ignored(c) ==
  /\ Throws(c, "retrying")
  /\ Goto(c, "closing")
  /\ UNCHANGED <<storeVars, mode, result, settleAttempted, delivered, http, netVars>>

(* JSON: 503, response withheld.  Stream: the catch block.                 *)
SettleFails(c) ==
  /\ Throws(c, "retrying")
  /\ IF mode[c] = "json" THEN End(c, "unavailable") ELSE Catch(c)
  /\ UNCHANGED <<storeVars, mode, result, settleAttempted, delivered>>

(* connectionRelease swallows the error of its RPC.                        *)
Freed(c) ==
  /\ \/ Answered(c, "freeing") /\ UNCHANGED fault
     \/ Throws(c, "freeing")
  /\ Goto(c, "closing")
  /\ UNCHANGED <<storeVars, mode, result, settleAttempted, delivered, http, netVars>>

Abandoned(c) ==
  /\ \/ Answered(c, "abandoning") /\ UNCHANGED fault
     \/ Throws(c, "abandoning")
  /\ End(c, "error")
  /\ UNCHANGED <<storeVars, mode, result, settleAttempted, delivered>>

-----------------------------------------------------------------------------
(* recordSpend and recordAnchor, then the response.  recordSpend awaits    *)
(* the wallet debit, a write to the credit store that may throw.           *)

Close(c) ==
  /\ phase[c] = "closing"
  /\ delivered' = [delivered EXCEPT ![c] = "full"]
  /\ End(c, "ok")
  /\ UNCHANGED <<storeVars, mode, result, settleAttempted, fault>>

CloseFails(c) ==
  /\ phase[c] = "closing"
  /\ Catch(c)
  /\ UNCHANGED <<storeVars, mode, result, settleAttempted, delivered, fault>>

(* The function instance that runs the call dies.                          *)
Crash(c) ==
  /\ phase[c] \notin Ended \cup {"idle"}
  /\ Goto(c, "crashed")
  /\ fault' = [fault EXCEPT ![c] = TRUE]
  /\ UNCHANGED <<storeVars, mode, result, settleAttempted, delivered, http, netVars>>

-----------------------------------------------------------------------------
(* The store and the network.                                              *)

Reply(c, op) ==
  IF op = "reserving" THEN DebitReply(c)
  ELSE IF op \in {"settling", "retrying"} THEN SettleReply(c) ELSE "ok"

Effect(c, op) ==
  \/ op = "reserving" /\ Debit(c)
  \/ op \in {"settling", "retrying"} /\ StoreSettle(c, result[c].cost)
  \/ op \in {"freeing", "abandoning"} /\ StoreRelease(c)

(* The store runs a request.  A request can arrive twice: the second copy  *)
(* stays pending.  The handler hears only about the RPC it still awaits.   *)
Run(c, op) ==
  /\ op \in pending[c]
  /\ Effect(c, op)
  /\ \/ pending' = [pending EXCEPT ![c] = @ \ {op}] /\ UNCHANGED fault
     \/ fault' = [fault EXCEPT ![c] = TRUE] /\ UNCHANGED pending
  /\ reply' = IF phase[c] = op
              THEN [reply EXCEPT ![c] = Reply(c, op)] ELSE reply
  /\ UNCHANGED gatewayVars

Lose(c, op) ==
  /\ op \in pending[c]
  /\ pending' = [pending EXCEPT ![c] = @ \ {op}]
  /\ fault' = [fault EXCEPT ![c] = TRUE]
  /\ UNCHANGED <<storeVars, gatewayVars, reply>>

-----------------------------------------------------------------------------
Handler(c) ==
  \/ Reserved(c) \/ Refused(c) \/ ReserveFails(c)
  \/ Token(c) \/ ServeOk(c) \/ ServeFails(c) \/ FinishFails(c)
  \/ Free(c) \/ Settle(c) \/ Settled(c) \/ SettleRetry(c) \/ SettleFails(c)
  \/ Freed(c) \/ Abandoned(c) \/ Close(c) \/ CloseFails(c)

Network(c) == \E op \in pending[c] : Run(c, op) \/ Lose(c, op)

Next == \E c \in Calls : Reserve(c) \/ Handler(c) \/ Crash(c) \/ Network(c)

Spec == Init /\ [][Next]_vars

(* A handler that is not killed goes on: every await ends, if only in the  *)
(* timeout of its fetch.  A request in flight arrives or is lost.          *)
Fairness == \A c \in Calls : WF_vars(Handler(c)) /\ WF_vars(Network(c))

FairSpec == Spec /\ Fairness
-----------------------------------------------------------------------------
(* Properties.                                                             *)

(* Whatever was retried, lost or repeated, the spent counter of a          *)
(* connection is the sum of its ledger rows (connectionDrift: zero drift   *)
(* is the invariant) and its reserved counter the sum of the holds neither *)
(* settled nor released; and concurrent calls overshoot the budget by no   *)
(* more than the settled costs above their holds.                          *)
ZeroDrift ==
  \A k \in Keys :
    /\ spent[k] = LedgerSum(k)
    /\ reserved[k] = HeldSum(k)
    /\ spent[k] + reserved[k] <= Budget + OverrunSum(k)

(* While a call is served its hold counts against the budget: no path      *)
(* through a failed, repeated or late reserve serves it uncovered.         *)
ServedUnderHold ==
  \A c \in Calls : phase[c] \in {"serving", "served"} => holds[c] = "held"

(* A JSON answer of a billed call leaves the gateway only when the ledger  *)
(* holds its cost (settle failure: 503, response withheld).                *)
AnswerIsPaid ==
  \A c \in Calls :
    mode[c] = "json" /\ delivered[c] = "full" /\ result[c].billed
      => ledger[c] = result[c].cost

(* Once a settle was attempted the hold is never released, by no catch     *)
(* block and no request still in flight (no free serve).                   *)
AttemptedNeverFreed ==
  \A c \in Calls :
    settleAttempted[c] => /\ holds[c] \in {"held", "settled"}
                          /\ pending[c] \cap {"freeing", "abandoning"} = {}

(* A ledger row stands for a call that completed and is billed, at the     *)
(* cost it completed with: failed and own-key calls are never charged.     *)
ChargedIsServed ==
  \A c \in Calls :
    ledger[c] # NoRow => /\ result[c] # NoResult
                         /\ result[c].billed
                         /\ ledger[c] = result[c].cost

(* No exit of the handler forgets its hold: a call that ended with no      *)
(* failure of the store or the network, and no crash, holds nothing.       *)
NoLeakWithoutFault ==
  \A c \in Calls : phase[c] = "done" /\ ~fault[c] => holds[c] # "held"

(* The ledger and the answers agree both ways, whichever of the settle,    *)
(* its retry and the answer failed: no billed JSON answer without its row, *)
(* no row without a billed call that completed at its cost.                *)
LedgerMatchesAnswers == AnswerIsPaid /\ ChargedIsServed

(* Every hold is settled or released in the end, unless its call met a     *)
(* fault of the store or the network, or its instance died.                *)
HoldResolves ==
  \A c \in Calls : holds[c] = "held" ~> (holds[c] # "held" \/ fault[c])

(* The gateway, its retries and the network implement the escrow ledger:   *)
(* each call is admitted under a full audit of its key, and charged or     *)
(* freed at most once.                                                     *)
Escrow == INSTANCE EscrowLedger WITH
  status <- [c \in Calls |->
    CASE holds[c] = "none" -> "open" [] holds[c] = "held" -> "held"
      [] holds[c] = "settled" -> "charged" [] OTHER -> "freed"],
  charge <- [c \in Calls |-> IF ledger[c] = NoRow THEN 0 ELSE ledger[c]]

EscrowSpec == Escrow!Spec

(* What docs/billing-outcomes.md says of a truncated or aborted stream:    *)
(* tokens that reached the client are billed.                              *)
TruncatedIsBilled ==
  \A c \in Calls :
    phase[c] = "done" /\ delivered[c] = "partial" /\ ~fault[c] => ledger[c] # NoRow

-----------------------------------------------------------------------------
(* The inductive invariant of the proofs: what each call can count on.     *)

NotYetHeld(c) ==
  /\ holds[c] = "none" => /\ phase[c] \in {"idle", "reserving"} \cup Ended
                          /\ pending[c] \subseteq {"reserving"}
                          /\ ~settleAttempted[c]
  /\ phase[c] = "idle" => holds[c] = "none" /\ pending[c] = {}

HeldWhileServing(c) ==
  /\ phase[c] = "reserving" => holds[c] \in {"none", "held"}
  /\ Answered(c, "reserving") \/ phase[c] \in {"serving", "served"} => holds[c] = "held"
  /\ phase[c] \in {"idle", "reserving", "serving", "served"}
       => pending[c] \subseteq {"reserving"} /\ ~settleAttempted[c] /\ ledger[c] = NoRow

ResultKnown(c) ==
  /\ phase[c] \in {"served", "settling", "retrying", "freeing", "closing"}
       => result[c] \in Results
  /\ phase[c] = "freeing" => ~result[c].billed

SettleIsFinal(c) ==
  /\ settleAttempted[c] =>
       /\ result[c] \in Results /\ result[c].billed
       /\ holds[c] \in {"held", "settled"}
       /\ pending[c] \cap {"freeing", "abandoning"} = {}
       /\ phase[c] \in {"settling", "retrying", "closing"} \cup Ended
  /\ pending[c] \cap {"settling", "retrying"} # {} => settleAttempted[c]
  /\ phase[c] \in {"settling", "retrying"} => settleAttempted[c]

RowIsSettled(c) ==
  /\ holds[c] = "settled" <=> ledger[c] # NoRow
  /\ holds[c] = "settled" => settleAttempted[c] /\ ledger[c] = result[c].cost
  /\ Answered(c, "settling") \/ Answered(c, "retrying") => holds[c] = "settled"
  /\ phase[c] = "closing" /\ result[c].billed => holds[c] = "settled"

AnswerAtTheEnd(c) ==
  mode[c] = "json" /\ delivered[c] = "full" =>
    /\ phase[c] = "done"
    /\ result[c] \in Results
    /\ result[c].billed => holds[c] = "settled"

(* Without a fault a request is pending exactly until its reply is there.  *)
FaultlessCall(c) ==
  ~fault[c] =>
    /\ phase[c] \in Waiting /\ reply[c] = "none" => pending[c] \subseteq {phase[c]}
    /\ phase[c] \in Waiting /\ reply[c] # "none" => pending[c] = {}
    /\ phase[c] \notin Waiting => pending[c] = {}
    /\ phase[c] = "reserving" /\ reply[c] # "ok" => holds[c] = "none"
    /\ Answered(c, "freeing") \/ Answered(c, "abandoning") => holds[c] # "held"
    /\ phase[c] = "closing" \/ phase[c] = "done" => holds[c] # "held"

CallInvOf(c) ==
  /\ NotYetHeld(c)
  /\ HeldWhileServing(c)
  /\ ResultKnown(c)
  /\ SettleIsFinal(c)
  /\ RowIsSettled(c)
  /\ AnswerAtTheEnd(c)
  /\ FaultlessCall(c)

CallInv == \A c \in Calls : CallInvOf(c)
=============================================================================
