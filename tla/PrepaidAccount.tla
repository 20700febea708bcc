--------------------------- MODULE PrepaidAccount ---------------------------
(***************************************************************************)
(* What a wallet is promised of its credit, without handlers, replies,     *)
(* registry or restarts: a channel is opened once, settled once for its    *)
(* ceiling at most, credited once by its ceiling and debited once by what  *)
(* it was settled for; a chat is admitted under an audit of every channel  *)
(* and charge of the account, and is charged once.  WalletCredit           *)
(* implements this specification.                                          *)
(***************************************************************************)
EXTENDS Integers, Functions

CONSTANTS
  Channels,   (* payment channels of the account                           *)
  Ceiling,    (* what each channel escrows                                 *)
  Chats,      (* requests the account pays for                             *)
  KnownPaid,  (* those whose model is known to cost money                  *)
  Costs       (* what a chat may turn out to cost                          *)

VARIABLES
  escrow,     (* each channel: none, open or sealed                        *)
  paid,       (* what the treasury got of it                               *)
  credited,   (* channels whose ceiling was added to the account           *)
  debited,    (* channels whose payout was taken from it                   *)
  worth,      (* what the account has of each channel                      *)
  admitted,   (* chats that were let in                                    *)
  charged     (* what each chat was charged                                *)

vars == <<escrow, paid, credited, debited, worth, admitted, charged>>

(* What the account is good for.                                           *)
Audit == SumFunctionOnSet(worth, Channels) - SumFunctionOnSet(charged, Chats)

Init ==
  /\ escrow = [ch \in Channels |-> "none"]
  /\ paid = [ch \in Channels |-> 0]
  /\ credited = {}
  /\ debited = {}
  /\ worth = [ch \in Channels |-> 0]
  /\ admitted = {}
  /\ charged = [c \in Chats |-> 0]

Open(ch) ==
  /\ escrow[ch] = "none"
  /\ escrow' = [escrow EXCEPT ![ch] = "open"]
  /\ UNCHANGED <<paid, credited, debited, worth, admitted, charged>>

Credit(ch) ==
  /\ escrow[ch] # "none"
  /\ ch \notin credited
  /\ credited' = credited \cup {ch}
  /\ worth' = [worth EXCEPT ![ch] = @ + Ceiling[ch]]
  /\ UNCHANGED <<escrow, paid, debited, admitted, charged>>

Settle(ch, usd) ==
  /\ escrow[ch] = "open"
  /\ escrow' = [escrow EXCEPT ![ch] = "sealed"]
  /\ paid' = [paid EXCEPT ![ch] = usd]
  /\ UNCHANGED <<credited, debited, worth, admitted, charged>>

Debit(ch) ==
  /\ escrow[ch] = "sealed"
  /\ ch \notin debited
  /\ debited' = debited \cup {ch}
  /\ worth' = [worth EXCEPT ![ch] = @ - paid[ch]]
  /\ UNCHANGED <<escrow, paid, credited, admitted, charged>>

Admit(c) ==
  /\ c \notin admitted
  /\ admitted' = admitted \cup {c}
  /\ c \in KnownPaid => Audit > 0
  /\ UNCHANGED <<escrow, paid, credited, debited, worth, charged>>

Charge(c, usd) ==
  /\ c \in admitted
  /\ charged[c] = 0
  /\ charged' = [charged EXCEPT ![c] = usd]
  /\ UNCHANGED <<escrow, paid, credited, debited, worth, admitted>>

ChannelStep(ch) ==
  Open(ch) \/ Credit(ch) \/ (\E usd \in 0 .. Ceiling[ch] : Settle(ch, usd)) \/ Debit(ch)

ChatStep(c) == Admit(c) \/ \E usd \in Costs : Charge(c, usd)

Next == (\E ch \in Channels : ChannelStep(ch)) \/ (\E c \in Chats : ChatStep(c))

Spec == Init /\ [][Next]_vars
=============================================================================
