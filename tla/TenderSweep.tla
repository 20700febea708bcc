---------------------------- MODULE TenderSweep ----------------------------
(***************************************************************************)
(* The process-local credit ledger of Tender: credits accrue, are netted   *)
(* against inference bills, and are swept on chain in batches.  A sweep    *)
(* reserves what the wallet has before it awaits the settlement rail.      *)
(***************************************************************************)
EXTENDS Integers, Sequences, FiniteSetsExt, Functions

CONSTANTS
  Wallets,
  Credits,      (* calls of creditInference                                *)
  Spends,       (* calls of consume by a surface that nets a bill          *)
  Sweeps,       (* calls of sweepCredits                                   *)
  WalletOf,     (* the wallet each of them is for                          *)
  CreditUsd,    (* the requester's share of an impression or a click       *)
  SpendUsd,     (* what a surface nets                                     *)
  MinSweep      (* minSweepUsdc                                            *)

ASSUME SweepAssumption ==
  /\ IsFiniteSet(Credits) /\ IsFiniteSet(Spends) /\ IsFiniteSet(Sweeps)
  /\ WalletOf \in [Credits \cup Spends \cup Sweeps -> Wallets]
  /\ CreditUsd \in [Credits -> Nat \ {0}]
  /\ SpendUsd \in Nat
  /\ MinSweep \in Nat

VARIABLES
  ledger,       (* the entries: whose, and how much of it is not swept     *)
  hold,         (* state of a wallet's entry in sweepHolds                 *)
  sweep,        (* where a sweep is                                        *)
  reserved,     (* what a sweep has reserved                               *)
  paidOut,      (* the sweeps whose transfer went through on the rail      *)
  booked,       (* the credits that have accrued                           *)
  netted        (* what a spend has consumed, -1 before it                 *)

sweepVars == <<ledger, hold, sweep, reserved, paidOut, booked, netted>>

SweepTypeOK ==
  /\ ledger \in Seq([wallet : Wallets, usd : Nat])
  /\ hold \in [Wallets -> {"none", "pending", "paid"}]
  /\ sweep \in [Sweeps -> {"idle", "settling", "swept", "nothing", "failed"}]
  /\ reserved \in [Sweeps -> Nat]
  /\ paidOut \subseteq Sweeps
  /\ booked \subseteq Credits
  /\ netted \in [Spends -> Nat \cup {-1}]

SweepInit ==
  /\ ledger = <<>>
  /\ hold = [w \in Wallets |-> "none"]
  /\ sweep = [s \in Sweeps |-> "idle"]
  /\ reserved = [s \in Sweeps |-> 0]
  /\ paidOut = {}
  /\ booked = {}
  /\ netted = [p \in Spends |-> -1]

Entries(w) == {i \in DOMAIN ledger : ledger[i].wallet = w}

Unswept(S) == SumFunctionOnSet([i \in DOMAIN ledger |-> ledger[i].usd], S)

(* CreditLedger.balance                                                    *)
LedgerBalance(w) == Unswept(Entries(w))

(* CreditLedger.consume takes the oldest entries first: what one loses is  *)
(* what those before it leave to take, no more than there is.              *)
Taken(i, w, usd) ==
  LET wanted == usd - Unswept({j \in Entries(w) : j < i})
  IN  Min({ledger[i].usd, Max({wanted, 0})})

Consume(w, usd) ==
  ledger' = [i \in DOMAIN ledger |->
               IF i \in Entries(w) THEN [ledger[i] EXCEPT !.usd = @ - Taken(i, w, usd)]
               ELSE ledger[i]]

Book(c) ==
  /\ c \notin booked
  /\ booked' = booked \cup {c}
  /\ ledger' = Append(ledger, [wallet |-> WalletOf[c], usd |-> CreditUsd[c]])
  /\ UNCHANGED <<hold, sweep, reserved, paidOut, netted>>

Spend(p) ==
  /\ netted[p] = -1
  /\ Consume(WalletOf[p], SpendUsd)
  /\ netted' = [netted EXCEPT ![p] = Min({SpendUsd, LedgerBalance(WalletOf[p])})]
  /\ UNCHANGED <<hold, sweep, reserved, paidOut, booked>>

(* Mutant: the hold is for what the wallet has, and nothing is consumed.   *)
Reserve_keepsEntries(s) ==
  LET w == WalletOf[s] IN
  /\ hold[w] # "pending"
  /\ LedgerBalance(w) > 0
  /\ hold' = [hold EXCEPT ![w] = "pending"]
  /\ sweep' = [sweep EXCEPT ![s] = "settling"]
  /\ reserved' = [reserved EXCEPT ![s] = LedgerBalance(w)]
  /\ UNCHANGED ledger

(* reserveSweep when it finds something to sweep.                          *)
Reserve(s) ==
  LET w == WalletOf[s] IN
  /\ hold[w] # "pending"
  /\ LedgerBalance(w) > 0
  /\ LedgerBalance(w) >= MinSweep
  /\ Consume(w, LedgerBalance(w))
  /\ hold' = [hold EXCEPT ![w] = "pending"]
  /\ sweep' = [sweep EXCEPT ![s] = "settling"]
  /\ reserved' = [reserved EXCEPT ![s] = LedgerBalance(w)]

(* reserveSweep when the wallet has a pending hold, nothing, or dust.      *)
NothingToSweep(s) ==
  LET w == WalletOf[s] IN
  /\ \/ hold[w] = "pending"
     \/ LedgerBalance(w) = 0
     \/ LedgerBalance(w) < MinSweep
  /\ sweep' = [sweep EXCEPT ![s] = "nothing"]
  /\ UNCHANGED <<ledger, hold, reserved>>

StartSweep(s) ==
  /\ sweep[s] = "idle"
  /\ Reserve(s) \/ NothingToSweep(s)
  /\ UNCHANGED <<paidOut, booked, netted>>

(* The rail executes the transfer, also after the sweep gave up on it.     *)
Transfer(s) ==
  /\ sweep[s] \in {"settling", "failed"}
  /\ s \notin paidOut
  /\ paidOut' = paidOut \cup {s}
  /\ UNCHANGED <<ledger, hold, sweep, reserved, booked, netted>>

(* The rail answers with a signature and confirmSweep closes the hold.     *)
Confirm(s) ==
  /\ sweep[s] = "settling"
  /\ s \in paidOut
  /\ hold[WalletOf[s]] = "pending"
  /\ hold' = [hold EXCEPT ![WalletOf[s]] = "paid"]
  /\ sweep' = [sweep EXCEPT ![s] = "swept"]
  /\ UNCHANGED <<ledger, reserved, paidOut, booked, netted>>

(* Mutant: a sweep that failed gives its hold up.                          *)
RailThrows_releases(s) ==
  /\ sweep[s] = "settling"
  /\ sweep' = [sweep EXCEPT ![s] = "failed"]
  /\ hold' = [hold EXCEPT ![WalletOf[s]] = "none"]
  /\ UNCHANGED <<ledger, reserved, paidOut, booked, netted>>

(* The await throws, whatever the rail did or will do: the hold stays.     *)
RailThrows(s) ==
  /\ sweep[s] = "settling"
  /\ sweep' = [sweep EXCEPT ![s] = "failed"]
  /\ UNCHANGED <<ledger, hold, reserved, paidOut, booked, netted>>

SweepNext ==
  \/ \E c \in Credits : Book(c)
  \/ \E p \in Spends : Spend(p)
  \/ \E s \in Sweeps : StartSweep(s) \/ Transfer(s) \/ Confirm(s) \/ RailThrows(s)

SweepSpec == SweepInit /\ [][SweepNext]_sweepVars

-----------------------------------------------------------------------------

(* Every credit is in one place: in the wallet's balance, netted, or in    *)
(* the reservation of one sweep, however sweeps, spends and credits that   *)
(* arrive during a transfer mix.                                           *)
CreditsConserved ==
  \A w \in Wallets :
    SumFunctionOnSet(CreditUsd, {c \in booked : WalletOf[c] = w})
      = LedgerBalance(w)
        + SumFunctionOnSet(reserved, {s \in Sweeps : WalletOf[s] = w})
        + SumFunctionOnSet(netted, {p \in Spends : WalletOf[p] = w /\ netted[p] # -1})

(* "Never retry a transfer whose outcome is unknown": while a sweep of a   *)
(* wallet is under way, and for good once one has failed, no other sweep   *)
(* of that wallet reaches the rail.                                        *)
UnknownIsNotRetried ==
  \A s, t \in Sweeps :
    /\ s # t
    /\ WalletOf[s] = WalletOf[t]
    /\ sweep[s] \in {"settling", "failed"}
    => sweep[t] \notin {"settling", "failed"}
=============================================================================
