---------------------------- MODULE WalletCredit ----------------------------
(***************************************************************************)
(* The credit of one wallet-bound key under the upto scheme.  A top-up     *)
(* opens a payment channel, which escrows its ceiling on chain, and        *)
(* credits the ledger; chats debit the ledger; a close settles the channel *)
(* on chain and debits the ledger by what was settled.                     *)
(*                                                                         *)
(* The ledger is a table of rows, of which every handler writes one at     *)
(* most.  The chain is what the code expects of the facilitator: it opens  *)
(* a channel once and seals an open channel once.  The channel registry    *)
(* is in memory.  Between two awaits a handler is a single step; pc names  *)
(* what it awaits.                                                         *)
(***************************************************************************)
EXTENDS Integers, FiniteSets, Functions

CONSTANTS
  Opens,      (* calls of POST /v1/topup that carry a payment              *)
  Closes,     (* calls of POST /v1/channels/close                          *)
  Chats,      (* calls of POST /v1/chat/completions                        *)
  Channels,   (* payment channels: a signed payment opens its own          *)
  ChannelOf,  (* the payment a top-up carries; a client may send one again *)
  Ceiling,    (* ceilingUsd of each channel                                *)
  KnownPaid,  (* the chats whose model knownPaidModel knows to cost money  *)
  Costs,      (* ctx.costUsd of a chat                                     *)
  Draws,      (* drawUsd of a close that names it                          *)
  NoChannel

Handlers == Opens \cup Closes \cup Chats

ASSUME CreditAssumption ==
  /\ IsFiniteSet(Opens) /\ IsFiniteSet(Closes) /\ IsFiniteSet(Chats)
  /\ IsFiniteSet(Channels)
  /\ ChannelOf \in [Opens -> Channels]
  /\ Ceiling \in [Channels -> Nat \ {0}]
  /\ Costs \subseteq Nat
  /\ Draws \subseteq Nat
  /\ NoChannel \notin Channels
  /\ Opens \cap (Closes \cup Chats) = {}
  /\ Closes \cap Chats = {}

VARIABLES
  entry,      (* amount of the ledger row a handler wrote, 0 before        *)
  escrow,     (* each channel on chain                                     *)
  paid,       (* what the treasury got when the channel was sealed         *)
  registered, (* the channel of the account in the MemoryChannelStore      *)
  closable,   (* its settle data is there                                  *)
  pc,         (* what a handler awaits, or how it ended                    *)
  gone,       (* handlers that no longer wait for what they have sent      *)
  target,     (* the channel a close read from the registry                *)
  amount,     (* the draw of a close, the billed cost of a chat            *)
  adrift,     (* closes whose failed accrue was swallowed; only properties
                 read it                                                   *)
  faulted     (* something threw or stopped; likewise                      *)

chainVars    == <<escrow, paid>>
registryVars == <<registered, closable>>
vars == <<entry, chainVars, registryVars, pc, gone, target, amount, adrift, faulted>>

(* Here a handler waits for something that may happen without it.          *)
Awaiting == {"crediting", "settling", "settled", "debiting"}
Resumed  == {"escrowed", "drawing", "sealed", "serving"}
Ends     == {"answered", "closed", "failed"}

TypeOK ==
  /\ entry \in [Handlers -> Int]
  /\ escrow \in [Channels -> {"none", "open", "sealed"}]
  /\ paid \in [Channels -> Nat]
  /\ registered \in Channels \cup {NoChannel}
  /\ closable \in BOOLEAN
  /\ pc \in [Handlers -> {"idle"} \cup Awaiting \cup Resumed \cup Ends]
  /\ gone \subseteq Handlers
  /\ target \in [Handlers -> Channels \cup {NoChannel}]
  /\ amount \in [Handlers -> Nat]
  /\ adrift \subseteq Closes
  /\ faulted \in BOOLEAN

Init ==
  /\ entry = [h \in Handlers |-> 0]
  /\ escrow = [ch \in Channels |-> "none"]
  /\ paid = [ch \in Channels |-> 0]
  /\ registered = NoChannel
  /\ closable = FALSE
  /\ pc = [h \in Handlers |-> "idle"]
  /\ gone = {}
  /\ target = [h \in Handlers |-> NoChannel]
  /\ amount = [h \in Handlers |-> 0]
  /\ adrift = {}
  /\ faulted = FALSE

Goto(h, p) == pc' = [pc EXCEPT ![h] = p]

(* What was sent has happened: the handler goes on, if it still exists.    *)
Answered(h, p) ==
  /\ Goto(h, IF h \in gone THEN "failed" ELSE p)
  /\ gone' = gone \ {h}

(* CreditStore.balance: the sum of the account's rows.                     *)
Balance == SumFunctionOnSet(entry, Handlers)

(* CreditStore.accrue: one row is appended.                                *)
Accrue(h, usd) == entry' = [entry EXCEPT ![h] = usd]

-----------------------------------------------------------------------------
(* POST /v1/topup with a payment header.                                   *)

(* The facilitator opens the channel and the ceiling is in escrow.  It     *)
(* refuses a stale slot, a bad payload and a channel that was opened       *)
(* before; the answer is then a fresh challenge and nothing has changed.   *)
OpenOnChain(t) ==
  /\ pc[t] = "idle"
  /\ escrow[ChannelOf[t]] = "none"
  /\ escrow' = [escrow EXCEPT ![ChannelOf[t]] = "open"]
  /\ Goto(t, "escrowed")
  /\ UNCHANGED <<entry, paid, registryVars, gone, target, amount, adrift, faulted>>

(* The channel is bound to the account, over the one that was there, and   *)
(* the credit is sent.                                                     *)
Bind(t) ==
  /\ pc[t] = "escrowed"
  /\ registered' = ChannelOf[t]
  /\ closable' = TRUE
  /\ Goto(t, "crediting")
  /\ UNCHANGED <<entry, chainVars, gone, target, amount, adrift, faulted>>

(* Mutant: an accrue whose reply is lost is tried again.                   *)
Credit_retried(t) ==
  /\ pc[t] = "crediting"
  /\ Accrue(t, entry[t] + Ceiling[ChannelOf[t]])
  /\ Goto(t, IF t \in gone THEN "crediting" ELSE "answered")
  /\ UNCHANGED <<chainVars, registryVars, gone, target, amount, adrift, faulted>>

Credit(t) ==
  /\ pc[t] = "crediting"
  /\ Accrue(t, Ceiling[ChannelOf[t]])
  /\ Answered(t, "answered")
  /\ UNCHANGED <<chainVars, registryVars, target, amount, adrift, faulted>>

-----------------------------------------------------------------------------
(* POST /v1/channels/close.  A close that finds no channel, or one without *)
(* settle data, is refused and changes nothing.                            *)

Close(k) ==
  /\ pc[k] = "idle"
  /\ registered # NoChannel
  /\ closable
  /\ target' = [target EXCEPT ![k] = registered]
  /\ \/ /\ Goto(k, "drawing")
        /\ UNCHANGED amount
     \/ /\ \E draw \in Draws : amount' = [amount EXCEPT ![k] = draw]
        /\ Goto(k, "settling")
  /\ UNCHANGED <<entry, chainVars, registryVars, gone, adrift, faulted>>

(* Mutant: a negative balance is drawn like any other.                     *)
ReadDraw_anyBalance(k) ==
  /\ pc[k] = "drawing"
  /\ amount' = [amount EXCEPT ![k] = Balance]
  /\ Goto(k, "settling")
  /\ UNCHANGED <<entry, chainVars, registryVars, gone, target, adrift, faulted>>

(* Without drawUsd the draw is the balance; a negative one is refused.     *)
ReadDraw(k) ==
  /\ pc[k] = "drawing"
  /\ IF Balance \in Nat
     THEN /\ amount' = [amount EXCEPT ![k] = Balance]
          /\ Goto(k, "settling")
     ELSE /\ Goto(k, "failed")
          /\ UNCHANGED amount
  /\ UNCHANGED <<entry, chainVars, registryVars, gone, target, adrift, faulted>>

(* settleUpto: the voucher is for the draw, or for the ceiling if less.    *)
Clamped(k) ==
  IF amount[k] > Ceiling[target[k]] THEN Ceiling[target[k]] ELSE amount[k]

(* Mutant: a channel that is sealed already counts as settled.             *)
SettleOnChain_anyChannel(k) ==
  /\ pc[k] = "settling"
  /\ escrow' = [escrow EXCEPT ![target[k]] = "sealed"]
  /\ paid' = IF escrow[target[k]] = "open"
             THEN [paid EXCEPT ![target[k]] = Clamped(k)] ELSE paid
  /\ amount' = [amount EXCEPT ![k] = Clamped(k)]
  /\ Answered(k, "settled")
  /\ UNCHANGED <<entry, registryVars, target, adrift, faulted>>

(* The channel is sealed: the treasury is paid, the payer gets the rest.   *)
SettleOnChain(k) ==
  /\ pc[k] = "settling"
  /\ escrow[target[k]] = "open"
  /\ escrow' = [escrow EXCEPT ![target[k]] = "sealed"]
  /\ paid' = [paid EXCEPT ![target[k]] = Clamped(k)]
  /\ amount' = [amount EXCEPT ![k] = Clamped(k)]
  /\ Answered(k, "settled")
  /\ UNCHANGED <<entry, registryVars, target, adrift, faulted>>

(* The settle fails; the close answers 502 and leaves everything as it is. *)
SettleFails(k) ==
  /\ pc[k] = "settling"
  /\ Answered(k, "failed")
  /\ UNCHANGED <<entry, chainVars, registryVars, target, amount, adrift, faulted>>

(* Mutant: the ledger is debited by the ceiling.                           *)
SealUsd_ceiling(k) == -Ceiling[target[k]]

SealUsd(k) == -amount[k]

(* The settled draw is moved out of the ledger.                            *)
Seal(k) ==
  /\ pc[k] = "settled"
  /\ Accrue(k, SealUsd(k))
  /\ Answered(k, "sealed")
  /\ UNCHANGED <<chainVars, registryVars, target, amount, adrift, faulted>>

(* That accrue fails, and the close goes on all the same.                  *)
SealSwallowed(k) ==
  /\ pc[k] = "settled"
  /\ adrift' = adrift \cup {k}
  /\ Answered(k, "sealed")
  /\ UNCHANGED <<entry, chainVars, registryVars, target, amount, faulted>>

(* The channel the close has read is recorded again, without settle data.  *)
Drop(k) ==
  /\ pc[k] = "sealed"
  /\ registered' = target[k]
  /\ closable' = FALSE
  /\ Goto(k, "closed")
  /\ UNCHANGED <<entry, chainVars, gone, target, amount, adrift, faulted>>

-----------------------------------------------------------------------------
(* POST /v1/chat/completions on a wallet-bound key.                        *)

(* A model known to cost money needs a positive balance; without it the    *)
(* answer is 402 and nothing changes.                                      *)
Admit(c) ==
  /\ pc[c] = "idle"
  /\ c \in KnownPaid => Balance > 0
  /\ Goto(c, "serving")
  /\ UNCHANGED <<entry, chainVars, registryVars, gone, target, amount, adrift, faulted>>

(* Mutant: the debit is sent and not awaited.                              *)
Serve_unawaited(c) ==
  /\ pc[c] = "serving"
  /\ \E usd \in Costs : amount' = [amount EXCEPT ![c] = usd]
  /\ Goto(c, "answered")
  /\ UNCHANGED <<entry, chainVars, registryVars, gone, target, adrift, faulted>>

(* The router answers; a cost on the caller's own key counts as none.  The *)
(* request id is fresh, so debitRequest's claim of it succeeds.            *)
Serve(c) ==
  /\ pc[c] = "serving"
  /\ \E usd \in Costs :
       /\ amount' = [amount EXCEPT ![c] = usd]
       /\ Goto(c, IF usd > 0 THEN "debiting" ELSE "answered")
  /\ UNCHANGED <<entry, chainVars, registryVars, gone, target, adrift, faulted>>

ServeFails(c) ==
  /\ pc[c] = "serving"
  /\ Goto(c, "failed")
  /\ UNCHANGED <<entry, chainVars, registryVars, gone, target, amount, adrift, faulted>>

Debit(c) ==
  /\ pc[c] = "debiting"
  /\ Accrue(c, -amount[c])
  /\ Answered(c, "answered")
  /\ UNCHANGED <<chainVars, registryVars, target, amount, adrift, faulted>>

-----------------------------------------------------------------------------

(* An await throws, and what was sent has happened or may.  The top-up     *)
(* answers with a challenge, the close with 502, the chat with an error.   *)
Throws(h) ==
  /\ \/ /\ pc[h] \in Awaiting \ {"settled"}
        /\ gone' = gone \cup {h}
        /\ UNCHANGED pc
     \/ /\ pc[h] \in {"escrowed", "drawing"}
        /\ Goto(h, "failed")
        /\ UNCHANGED gone
  /\ faulted' = TRUE
  /\ UNCHANGED <<entry, chainVars, registryVars, target, amount, adrift>>

(* The gateway restarts: its handlers are gone and so is the registry.     *)
Restart ==
  /\ registered' = NoChannel
  /\ closable' = FALSE
  /\ gone' = gone \cup {h \in Handlers : pc[h] \in Awaiting}
  /\ pc' = [h \in Handlers |-> IF pc[h] \in Resumed THEN "failed" ELSE pc[h]]
  /\ faulted' = TRUE
  /\ UNCHANGED <<entry, chainVars, target, amount, adrift>>

TopupStep(t) == OpenOnChain(t) \/ Bind(t) \/ Credit(t)

CloseStep(k) ==
  \/ Close(k) \/ ReadDraw(k) \/ SettleOnChain(k) \/ SettleFails(k)
  \/ Seal(k) \/ SealSwallowed(k) \/ Drop(k)

ChatStep(c) == Admit(c) \/ Serve(c) \/ ServeFails(c) \/ Debit(c)

Next ==
  \/ \E t \in Opens : TopupStep(t)
  \/ \E k \in Closes : CloseStep(k)
  \/ \E c \in Chats : ChatStep(c)
  \/ \E h \in Handlers : Throws(h)
  \/ Restart

Spec == Init /\ [][Next]_vars

-----------------------------------------------------------------------------

(* "One payment credits once": a channel's ceiling is credited only when   *)
(* it is in escrow, and by one top-up, however often the client sends the  *)
(* payment again and whatever replies are lost.                            *)
CreditIsEscrowed ==
  /\ \A t \in Opens :
       /\ entry[t] \in {0, Ceiling[ChannelOf[t]]}
       /\ entry[t] # 0 => escrow[ChannelOf[t]] # "none"
  /\ \A t, u \in Opens :
       ChannelOf[t] = ChannelOf[u] /\ entry[t] # 0 /\ entry[u] # 0 => t = u

(* A close takes from the ledger what the treasury was paid, and of all    *)
(* the closes that race for a channel one does.                            *)
SealIsPaid ==
  /\ \A k \in Closes : entry[k] # 0 => -entry[k] = paid[target[k]]
  /\ \A k, l \in Closes :
       target[k] = target[l] /\ entry[k] # 0 /\ entry[l] # 0 => k = l

(* What a client is told has been done: a top-up that answers with a       *)
(* balance has credited it, a chat that answers has been debited, a closed *)
(* channel is sealed and in the ledger, swallowed failures apart.          *)
AnsweredIsBooked ==
  /\ \A t \in Opens : pc[t] = "answered" => entry[t] = Ceiling[ChannelOf[t]]
  /\ \A c \in Chats : pc[c] = "answered" => entry[c] = -amount[c]
  /\ \A k \in Closes :
       pc[k] = "closed" =>
         /\ escrow[target[k]] = "sealed"
         /\ k \notin adrift => entry[k] = -paid[target[k]]

(* No handler is under way and none has lost anything.                     *)
Quiet ==
  /\ ~faulted
  /\ adrift = {}
  /\ \A h \in Handlers : pc[h] \in {"idle"} \cup Ends

(* The ceiling of every channel that was opened.                           *)
Escrowed == [ch \in Channels |-> IF escrow[ch] = "none" THEN 0 ELSE Ceiling[ch]]

(* "Top-up credits and usage debits reconcile to one ledger": without      *)
(* faults the balance is what was escrowed, less what was settled, less    *)
(* what was served.                                                        *)
Reconciles ==
  Quiet =>
    Balance = SumFunctionOnSet(Escrowed, Channels) - SumFunctionOnSet(paid, Channels)
              - SumFunctionOnSet(amount, Chats)

(* The rows of the ledger that a channel has caused.                       *)
RowsOf(ch) == {t \in Opens : ChannelOf[t] = ch} \cup {k \in Closes : target[k] = ch}

(* The handlers, their lost replies and the restarts implement the prepaid *)
(* account: a channel is credited and debited once, for what the chain has *)
(* of it, and a chat is admitted when an audit of the ledger, channel by   *)
(* channel and chat by chat, leaves something.                             *)
Account == INSTANCE PrepaidAccount WITH
  credited <- {ChannelOf[t] : t \in {t \in Opens : entry[t] # 0}},
  debited  <- {target[k] : k \in {k \in Closes : entry[k] # 0}},
  worth    <- [ch \in Channels |-> SumFunctionOnSet(entry, RowsOf(ch))],
  admitted <- {c \in Chats : pc[c] # "idle"},
  charged  <- [c \in Chats |-> -entry[c]]

AccountSpec == Account!Spec

(* channel-close.ts, header: a close pays the accumulated draw and refunds *)
(* the rest, so the treasury never gets more than was ever debited.  The   *)
(* code settles the balance that is left instead.                          *)
PayeeIsPaidTheDraw ==
  Quiet =>
    \A ch \in Channels :
      paid[ch] <= -SumFunctionOnSet(entry, Chats)

(* channel-close.ts, line 97: the closed channel is dropped "so a re-open  *)
(* records fresh", and what is kept is kept "until a re-open replaces it". *)
(* The code writes the old channel back over one opened in between.        *)
ReopenIsKept ==
  [][\A k \in Closes :
       pc[k] = "sealed" /\ pc'[k] = "closed" =>
         registered \in {target[k], NoChannel}]_vars
=============================================================================
