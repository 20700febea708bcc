----------------------------- MODULE PayingFetch -----------------------------
(***************************************************************************)
(* The client side of pay-per-call: createPayingFetch settles a 402 and    *)
(* sends the request again with the proof.  All the fetches of a process   *)
(* share one wrapper, with its spend cap, and one payment provider, with   *)
(* its memory of challenges already paid.                                  *)
(*                                                                         *)
(* A challenge is known by its key: the nonce, or without one a hash of    *)
(* resource, amount and payee (solana-pay.ts), or of resource and amount   *)
(* (paybox.ts); so one server may give the same key again.  The provider   *)
(* is the Solana one, which signs a transfer, or Paybox, which charges a   *)
(* card.                                                                   *)
(***************************************************************************)
EXTENDS Integers, FiniteSets, Functions

CONSTANTS
  Callers,         (* parts of the process, each with one fetch at a time  *)
  Challenges,      (* keys of challenges                                   *)
  AmountOf,        (* what a challenge asks for                            *)
  MaxAmount,       (* the largest of them                                  *)
  PerRequestCap, PerProcessCap,
  MaxPaymentRetries,
  MaxPays,         (* bound on the calls of pay in a behaviour             *)
  NoChallenge

ASSUME PayingAssumption ==
  /\ IsFiniteSet(Callers) /\ IsFiniteSet(Challenges)
  /\ Callers # {}
  /\ AmountOf \in [Challenges -> 0 .. MaxAmount]
  /\ MaxAmount \in Nat
  /\ PerRequestCap \in Nat
  /\ PerProcessCap \in Nat
  /\ MaxPaymentRetries \in Nat
  /\ MaxPays \in Nat
  /\ NoChallenge \notin Challenges

VARIABLES
  provider,          (* solana or paybox                                   *)
  fetchPc,           (* where the fetch of a caller stands                 *)
  due,               (* the challenge whose pay it awaits                  *)
  retries,           (* payments made for this fetch                       *)
  spentThisProcess,
  settled,           (* the provider's results by key                      *)
  moved,             (* transfers signed, or charges made, for a key       *)
  pays,              (* number of calls of pay                             *)
  blurred            (* keys paid by overlapping calls, or whose call
                        failed; only properties read it                    *)

payVars == <<provider, fetchPc, due, retries, spentThisProcess, settled, moved, pays,
             blurred>>

PayTypeOK ==
  /\ provider \in {"solana", "paybox"}
  /\ fetchPc \in [Callers -> {"idle", "sent", "settling", "paying"}]
  /\ due \in [Callers -> Challenges \cup {NoChallenge}]
  /\ retries \in [Callers -> 0 .. MaxPaymentRetries]
  /\ spentThisProcess \in Nat
  /\ settled \subseteq Challenges
  /\ moved \in [Challenges -> Nat]
  /\ pays \in 0 .. MaxPays
  /\ blurred \subseteq Challenges

PayInit ==
  /\ provider \in {"solana", "paybox"}
  /\ fetchPc = [f \in Callers |-> "idle"]
  /\ due = [f \in Callers |-> NoChallenge]
  /\ retries = [f \in Callers |-> 0]
  /\ spentThisProcess = 0
  /\ settled = {}
  /\ moved = [k \in Challenges |-> 0]
  /\ pays = 0
  /\ blurred = {}

-----------------------------------------------------------------------------
(* The fetch.                                                              *)

(* The settles under way for a key; with the Solana provider at most one,  *)
(* which is the entry of its inflight map.                                 *)
Settling(k) == {f \in Callers : fetchPc[f] = "settling" /\ due[f] = k}
Paying(k) == {f \in Callers : fetchPc[f] = "paying" /\ due[f] = k}

(* These fetches end, with a response or with an error.                    *)
FetchEnds(F) ==
  /\ fetchPc' = [f \in Callers |-> IF f \in F THEN "idle" ELSE fetchPc[f]]
  /\ due' = [f \in Callers |-> IF f \in F THEN NoChallenge ELSE due[f]]
  /\ retries' = [f \in Callers |-> IF f \in F THEN 0 ELSE retries[f]]

Fetch(f) ==
  /\ fetchPc[f] = "idle"
  /\ fetchPc' = [fetchPc EXCEPT ![f] = "sent"]
  /\ UNCHANGED <<provider, due, retries, spentThisProcess, settled, moved, pays, blurred>>

(* Any response the wrapper hands on, a 402 after the last retry included, *)
(* or an error of the network.                                             *)
Responds(f) ==
  /\ fetchPc[f] = "sent"
  /\ FetchEnds({f})
  /\ UNCHANGED <<provider, spentThisProcess, settled, moved, pays, blurred>>

(* Mutant: the cap on the process is checked against this payment alone.   *)
WithinCaps_perPayment(k) ==
  /\ AmountOf[k] <= PerRequestCap
  /\ AmountOf[k] <= PerProcessCap

(* Otherwise a SpendCapError is thrown.                                    *)
WithinCaps(k) ==
  /\ AmountOf[k] <= PerRequestCap
  /\ spentThisProcess + AmountOf[k] <= PerProcessCap

(* Mutant: the provider does not look for a settle under way.              *)
Joins_never(k) == FALSE

(* The Solana provider joins a settle under way; Paybox looks for none.    *)
Joins(k) == provider = "solana" /\ Settling(k) # {}

MayRetry(f) == retries[f] < MaxPaymentRetries

(* A 402: the caps are checked and pay is called, all in one turn.         *)
Challenged(f, k) ==
  /\ fetchPc[f] = "sent"
  /\ MayRetry(f)
  /\ IF WithinCaps(k)
     THEN /\ pays < MaxPays
          /\ pays' = pays + 1
          /\ due' = [due EXCEPT ![f] = k]
          /\ IF k \in settled \/ Joins(k)
             THEN /\ fetchPc' = [fetchPc EXCEPT ![f] = "paying"]
                  /\ UNCHANGED blurred
             ELSE /\ fetchPc' = [fetchPc EXCEPT ![f] = "settling"]
                  /\ blurred' = IF Settling(k) # {} THEN blurred \cup {k} ELSE blurred
          /\ UNCHANGED retries
     ELSE FetchEnds({f}) /\ UNCHANGED <<pays, blurred>>
  /\ UNCHANGED <<provider, spentThisProcess, settled, moved>>

-----------------------------------------------------------------------------
(* The provider.                                                           *)

(* A transfer is signed, or a card charged, and the result is kept.        *)
Settles(f) ==
  /\ fetchPc[f] = "settling"
  /\ fetchPc' = [fetchPc EXCEPT ![f] = "paying"]
  /\ settled' = settled \cup {due[f]}
  /\ moved' = [moved EXCEPT ![due[f]] = @ + 1]
  /\ UNCHANGED <<provider, due, retries, spentThisProcess, pays, blurred>>

(* The settle throws, in every fetch that awaits it.  The Solana provider  *)
(* has then signed nothing; a charge may have been made, for one that      *)
(* timed out may be approved later.                                        *)
PayFails(f) ==
  LET k == due[f] IN
  /\ fetchPc[f] = "settling"
  /\ FetchEnds({f} \cup IF k \in settled THEN {} ELSE Paying(k))
  /\ \/ UNCHANGED moved
     \/ provider = "paybox" /\ moved' = [moved EXCEPT ![k] = @ + 1]
  /\ blurred' = blurred \cup {k}
  /\ UNCHANGED <<provider, spentThisProcess, settled, pays>>

(* pay has returned: the amount is counted, cached or not, and the request *)
(* is sent again with the proof.                                           *)
Paid(f) ==
  /\ fetchPc[f] = "paying"
  /\ due[f] \in settled
  /\ spentThisProcess' = spentThisProcess + AmountOf[due[f]]
  /\ retries' = [retries EXCEPT ![f] = @ + 1]
  /\ fetchPc' = [fetchPc EXCEPT ![f] = "sent"]
  /\ due' = [due EXCEPT ![f] = NoChallenge]
  /\ UNCHANGED <<provider, settled, moved, pays, blurred>>

PayNext ==
  \E f \in Callers :
    \/ Fetch(f) \/ Responds(f) \/ Settles(f) \/ PayFails(f) \/ Paid(f)
    \/ \E k \in Challenges : Challenged(f, k)

PaySpec == PayInit /\ [][PayNext]_payVars

-----------------------------------------------------------------------------
(* Properties.                                                             *)

(* What was signed away or charged.                                        *)
MovedUsd == SumFunctionOnSet([k \in Challenges |-> moved[k] * AmountOf[k]], Challenges)

(* However many fetches of a process meet the same challenge, at once or   *)
(* one after the other, and whatever failed before, it is paid once: always
   with the Solana provider, whose inflight map makes the concurrent ones
   one; with Paybox unless charges of it overlapped or one failed, since
   paybox.ts:107 looks at the settled ones only.                           *)
OnePaymentPerChallenge ==
  \A k \in Challenges :
    moved[k] > 1 => provider = "paybox" /\ k \in blurred

(* The cap on the process is checked before pay is awaited and counted     *)
(* after: what is counted may pass it by one largest payment for each      *)
(* other caller that was paying at the time, and by no more, however many  *)
(* fetches there are (paying-fetch.ts:121 and :129).                       *)
MostSpent == PerProcessCap + (Cardinality(Callers) - 1) * MaxAmount
CountedOvershoot == spentThisProcess <= MostSpent

(* So is what the Solana provider signs away.                              *)
CapOvershoot == CountedOvershoot /\ (provider = "solana" => MovedUsd <= MostSpent)
=============================================================================
