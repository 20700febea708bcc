--------------------------- MODULE SpendingProofs ---------------------------
(***************************************************************************)
(* Proofs about the credit of a wallet (WalletCredit), for any number of   *)
(* top-ups, closes, chats and channels and any amounts, and about the      *)
(* spend meters and their gates (SpendGates), for any number of clients,   *)
(* keys and processes, any ceilings and any costs.                         *)
(*                                                                         *)
(* First single rows of the credit ledger: each conjunct of the invariant  *)
(* says, for one kind of handler, what its phase implies of its row and of *)
(* the chain.  A step of one handler leaves the fields of the others       *)
(* alone, and a channel only ever moves from none to open and from open to *)
(* sealed.  Then the ledger as a whole, its refinement of the prepaid      *)
(* account, the meters one by one, and the meters together.                *)
(***************************************************************************)
EXTENDS WalletCredit, SpendGates, SumTheorems


OpenInv ==
  /\ \A t \in Opens :
       /\ pc[t] \in {"idle", "escrowed", "crediting", "answered", "failed"}
       /\ pc[t] # "idle" => escrow[ChannelOf[t]] # "none"
       /\ pc[t] \in {"idle", "escrowed", "crediting"} => entry[t] = 0
       /\ pc[t] = "answered" => entry[t] = Ceiling[ChannelOf[t]]
       /\ entry[t] \in {0, Ceiling[ChannelOf[t]]}
  /\ \A t, u \in Opens :
       ChannelOf[t] = ChannelOf[u] /\ pc[t] # "idle" /\ pc[u] # "idle" => t = u

(* A close has settled its channel, and its row may be there.              *)
Won(k) == pc[k] \in {"settled", "sealed", "closed"} \/ entry[k] # 0

CloseInv ==
  /\ \A k \in Closes :
       /\ pc[k] \in {"idle", "drawing", "settling", "settled", "sealed", "closed", "failed"}
       /\ pc[k] # "idle" => target[k] \in Channels
       /\ pc[k] \in {"idle", "drawing", "settling", "settled"} => entry[k] = 0
       /\ pc[k] \in {"sealed", "closed"} => k \in adrift \/ entry[k] = -amount[k]
       /\ entry[k] # 0 => entry[k] = -amount[k]
       /\ Won(k) => escrow[target[k]] = "sealed" /\ amount[k] = paid[target[k]]
  /\ \A k, l \in Closes : Won(k) /\ Won(l) /\ target[k] = target[l] => k = l

ChatInv ==
  \A c \in Chats :
    /\ pc[c] \in {"idle", "serving", "debiting", "answered", "failed"}
    /\ pc[c] \in {"idle", "serving", "debiting"} => entry[c] = 0
    /\ pc[c] = "answered" => entry[c] = -amount[c]
    /\ pc[c] = "debiting" => amount[c] \in Costs

CreditInv == TypeOK /\ OpenInv /\ CloseInv /\ ChatInv

-----------------------------------------------------------------------------

(* Every invariant holds at the start.                                     *)
LEMMA InitInv == Init => CreditInv
<1> SUFFICES ASSUME Init PROVE CreditInv
  OBVIOUS
<1>1. TypeOK
  <2>1. closable \in BOOLEAN /\ faulted \in BOOLEAN
    BY Zenon DEF Init
  <2>2. pc \in [Handlers -> {"idle"} \cup Awaiting \cup Resumed \cup Ends]
    BY Zenon DEF Init
  <2>3. /\ entry \in [Handlers -> Int]
        /\ escrow \in [Channels -> {"none", "open", "sealed"}]
        /\ paid \in [Channels -> Nat]
        /\ registered \in Channels \cup {NoChannel}
        /\ gone \subseteq Handlers
        /\ target \in [Handlers -> Channels \cup {NoChannel}]
        /\ amount \in [Handlers -> Nat]
        /\ adrift \subseteq Closes
    BY DEF Init
  <2> QED
    BY <2>1, <2>2, <2>3 DEF TypeOK
<1>2. \A h \in Handlers : pc[h] = "idle" /\ entry[h] = 0
  BY DEF Init
<1>3. OpenInv
  BY <1>2 DEF OpenInv, Handlers
<1>4. CloseInv
  BY <1>2 DEF CloseInv, Won, Handlers
<1>5. ChatInv
  BY <1>2 DEF ChatInv, Handlers
<1> QED
  BY <1>1, <1>3, <1>4, <1>5 DEF CreditInv

(* A step that changes nothing keeps every invariant.                      *)
LEMMA StutterInv == CreditInv /\ UNCHANGED vars => CreditInv'
BY DEF CreditInv, TypeOK, OpenInv, CloseInv, ChatInv, Won, vars, chainVars, registryVars,
       Awaiting, Resumed, Ends

(* A step of a top-up keeps the invariant.                                 *)
LEMMA TopupStepInv ==
  ASSUME CreditInv, NEW t \in Opens, TopupStep(t)
  PROVE  CreditInv'
<1>1. CASE OpenOnChain(t)
  <2>1. TypeOK'
    BY <1>1, CreditAssumption
    DEF OpenOnChain, CreditInv, TypeOK, Handlers, Goto, registryVars, Awaiting,
        Resumed, Ends
  <2>2. OpenInv'
    BY <1>1, CreditAssumption
    DEF OpenOnChain, CreditInv, TypeOK, OpenInv, Handlers, Goto, registryVars
  <2>3. CloseInv'
    BY <1>1, CreditAssumption
    DEF OpenOnChain, CreditInv, TypeOK, CloseInv, Won, Handlers, Goto, registryVars
  <2>4. ChatInv'
    BY <1>1, CreditAssumption
    DEF OpenOnChain, CreditInv, TypeOK, ChatInv, Handlers, Goto, registryVars
  <2> QED
    BY <2>1, <2>2, <2>3, <2>4 DEF CreditInv
<1>2. CASE Bind(t)
  <2>1. TypeOK'
    BY <1>2, CreditAssumption
    DEF Bind, CreditInv, TypeOK, Handlers, Goto, chainVars, Awaiting, Resumed, Ends
  <2>2. OpenInv'
    BY <1>2, CreditAssumption
    DEF Bind, CreditInv, TypeOK, OpenInv, Handlers, Goto, chainVars
  <2>3. CloseInv'
    BY <1>2, CreditAssumption
    DEF Bind, CreditInv, TypeOK, CloseInv, Won, Handlers, Goto, chainVars
  <2>4. ChatInv'
    BY <1>2, CreditAssumption
    DEF Bind, CreditInv, TypeOK, ChatInv, Handlers, Goto, chainVars
  <2> QED
    BY <2>1, <2>2, <2>3, <2>4 DEF CreditInv
<1>3. CASE Credit(t)
  <2>1. TypeOK'
    BY <1>3, CreditAssumption
    DEF Credit, CreditInv, TypeOK, Handlers, Goto, Answered, Accrue, chainVars,
        registryVars, Awaiting, Resumed, Ends
  <2>2. OpenInv'
    BY <1>3, CreditAssumption
    DEF Credit, CreditInv, TypeOK, OpenInv, Handlers, Goto, Answered, Accrue,
        chainVars, registryVars
  <2>3. CloseInv'
    BY <1>3, CreditAssumption
    DEF Credit, CreditInv, TypeOK, CloseInv, Won, Handlers, Goto, Answered, Accrue,
        chainVars, registryVars
  <2>4. ChatInv'
    BY <1>3, CreditAssumption
    DEF Credit, CreditInv, TypeOK, ChatInv, Handlers, Goto, Answered, Accrue,
        chainVars, registryVars
  <2> QED
    BY <2>1, <2>2, <2>3, <2>4 DEF CreditInv
<1> QED
  BY <1>1, <1>2, <1>3 DEF TopupStep

(* A step of a close keeps the invariant.                                  *)
LEMMA CloseStepInv ==
  ASSUME CreditInv, NEW k \in Closes, CloseStep(k)
  PROVE  CreditInv'
<1>1. CASE Close(k)
  <2>1. TypeOK'
    BY <1>1, CreditAssumption
    DEF Close, CreditInv, TypeOK, CloseInv, Handlers, Goto, chainVars, registryVars,
        Awaiting, Resumed, Ends
  <2>2. OpenInv'
    BY <1>1, CreditAssumption
    DEF Close, CreditInv, TypeOK, OpenInv, Handlers, Goto, chainVars, registryVars
  <2>3. CloseInv'
    BY <1>1, CreditAssumption
    DEF Close, CreditInv, TypeOK, CloseInv, Won, Handlers, Goto, chainVars, registryVars
  <2>4. ChatInv'
    BY <1>1, CreditAssumption
    DEF Close, CreditInv, TypeOK, ChatInv, Handlers, Goto, chainVars, registryVars
  <2> QED
    BY <2>1, <2>2, <2>3, <2>4 DEF CreditInv
<1>2. CASE ReadDraw(k)
  <2>1. TypeOK'
    BY <1>2, CreditAssumption
    DEF ReadDraw, CreditInv, TypeOK, CloseInv, Handlers, Goto, chainVars, registryVars,
        Awaiting, Resumed, Ends
  <2>2. OpenInv'
    BY <1>2, CreditAssumption
    DEF ReadDraw, CreditInv, TypeOK, OpenInv, Handlers, Goto, chainVars, registryVars
  <2>3. CloseInv'
    BY <1>2, CreditAssumption
    DEF ReadDraw, CreditInv, TypeOK, CloseInv, Won, Handlers, Goto, chainVars,
        registryVars
  <2>4. ChatInv'
    BY <1>2, CreditAssumption
    DEF ReadDraw, CreditInv, TypeOK, ChatInv, Handlers, Goto, chainVars, registryVars
  <2> QED
    BY <2>1, <2>2, <2>3, <2>4 DEF CreditInv
<1>3. CASE SettleOnChain(k)
  <2>1. TypeOK'
    BY <1>3, CreditAssumption
    DEF SettleOnChain, CreditInv, TypeOK, CloseInv, Handlers, Goto, Answered, Clamped,
        registryVars, Awaiting, Resumed, Ends
  <2>2. OpenInv'
    BY <1>3, CreditAssumption
    DEF SettleOnChain, CreditInv, TypeOK, OpenInv, Handlers, Goto, Answered, Clamped,
        registryVars
  <2>3. CloseInv'
    BY <1>3, CreditAssumption
    DEF SettleOnChain, CreditInv, TypeOK, CloseInv, Won, Handlers, Goto, Answered,
        Clamped, registryVars
  <2>4. ChatInv'
    BY <1>3, CreditAssumption
    DEF SettleOnChain, CreditInv, TypeOK, ChatInv, Handlers, Goto, Answered, Clamped,
        registryVars
  <2> QED
    BY <2>1, <2>2, <2>3, <2>4 DEF CreditInv
<1>4. CASE SettleFails(k)
  <2>1. TypeOK'
    BY <1>4, CreditAssumption
    DEF SettleFails, CreditInv, TypeOK, CloseInv, Handlers, Goto, Answered, chainVars,
        registryVars, Awaiting, Resumed, Ends
  <2>2. OpenInv'
    BY <1>4, CreditAssumption
    DEF SettleFails, CreditInv, TypeOK, OpenInv, Handlers, Goto, Answered, chainVars,
        registryVars
  <2>3. CloseInv'
    BY <1>4, CreditAssumption
    DEF SettleFails, CreditInv, TypeOK, CloseInv, Won, Handlers, Goto, Answered,
        chainVars, registryVars
  <2>4. ChatInv'
    BY <1>4, CreditAssumption
    DEF SettleFails, CreditInv, TypeOK, ChatInv, Handlers, Goto, Answered, chainVars,
        registryVars
  <2> QED
    BY <2>1, <2>2, <2>3, <2>4 DEF CreditInv
<1>5. CASE Seal(k)
  <2>1. TypeOK'
    BY <1>5, CreditAssumption
    DEF Seal, CreditInv, TypeOK, CloseInv, Handlers, Goto, Answered, Accrue, SealUsd,
        chainVars, registryVars, Awaiting, Resumed, Ends
  <2>2. OpenInv'
    BY <1>5, CreditAssumption
    DEF Seal, CreditInv, TypeOK, OpenInv, Handlers, Goto, Answered, Accrue, SealUsd,
        chainVars, registryVars
  <2>3. CloseInv'
    BY <1>5, CreditAssumption
    DEF Seal, CreditInv, TypeOK, CloseInv, Won, Handlers, Goto, Answered, Accrue,
        SealUsd, chainVars, registryVars
  <2>4. ChatInv'
    BY <1>5, CreditAssumption
    DEF Seal, CreditInv, TypeOK, ChatInv, Handlers, Goto, Answered, Accrue, SealUsd,
        chainVars, registryVars
  <2> QED
    BY <2>1, <2>2, <2>3, <2>4 DEF CreditInv
<1>6. CASE SealSwallowed(k)
  <2>1. TypeOK'
    BY <1>6, CreditAssumption
    DEF SealSwallowed, CreditInv, TypeOK, CloseInv, Handlers, Goto, Answered,
        chainVars, registryVars, Awaiting, Resumed, Ends
  <2>2. OpenInv'
    BY <1>6, CreditAssumption
    DEF SealSwallowed, CreditInv, TypeOK, OpenInv, Handlers, Goto, Answered, chainVars,
        registryVars
  <2>3. CloseInv'
    BY <1>6, CreditAssumption
    DEF SealSwallowed, CreditInv, TypeOK, CloseInv, Won, Handlers, Goto, Answered,
        chainVars, registryVars
  <2>4. ChatInv'
    BY <1>6, CreditAssumption
    DEF SealSwallowed, CreditInv, TypeOK, ChatInv, Handlers, Goto, Answered, chainVars,
        registryVars
  <2> QED
    BY <2>1, <2>2, <2>3, <2>4 DEF CreditInv
<1>7. CASE Drop(k)
  <2>1. TypeOK'
    BY <1>7, CreditAssumption
    DEF Drop, CreditInv, TypeOK, CloseInv, Handlers, Goto, chainVars, Awaiting,
        Resumed, Ends
  <2>2. OpenInv'
    BY <1>7, CreditAssumption
    DEF Drop, CreditInv, TypeOK, OpenInv, Handlers, Goto, chainVars
  <2>3. CloseInv'
    BY <1>7, CreditAssumption
    DEF Drop, CreditInv, TypeOK, CloseInv, Won, Handlers, Goto, chainVars
  <2>4. ChatInv'
    BY <1>7, CreditAssumption
    DEF Drop, CreditInv, TypeOK, ChatInv, Handlers, Goto, chainVars
  <2> QED
    BY <2>1, <2>2, <2>3, <2>4 DEF CreditInv
<1> QED
  BY <1>1, <1>2, <1>3, <1>4, <1>5, <1>6, <1>7 DEF CloseStep

(* A step of a chat keeps the invariant.                                   *)
LEMMA ChatStepInv ==
  ASSUME CreditInv, NEW c \in Chats, ChatStep(c)
  PROVE  CreditInv'
<1>1. CASE Admit(c)
  <2>1. TypeOK'
    BY <1>1, CreditAssumption
    DEF Admit, CreditInv, TypeOK, Handlers, Goto, chainVars, registryVars, Awaiting,
        Resumed, Ends
  <2>2. OpenInv'
    BY <1>1, CreditAssumption
    DEF Admit, CreditInv, TypeOK, OpenInv, Handlers, Goto, chainVars, registryVars
  <2>3. CloseInv'
    BY <1>1, CreditAssumption
    DEF Admit, CreditInv, TypeOK, CloseInv, Won, Handlers, Goto, chainVars, registryVars
  <2>4. ChatInv'
    BY <1>1, CreditAssumption
    DEF Admit, CreditInv, TypeOK, ChatInv, Handlers, Goto, chainVars, registryVars
  <2> QED
    BY <2>1, <2>2, <2>3, <2>4 DEF CreditInv
<1>2. CASE Serve(c)
  <2>1. TypeOK'
    BY <1>2, CreditAssumption
    DEF Serve, CreditInv, TypeOK, Handlers, Goto, chainVars, registryVars, Awaiting,
        Resumed, Ends
  <2>2. OpenInv'
    BY <1>2, CreditAssumption
    DEF Serve, CreditInv, TypeOK, OpenInv, Handlers, Goto, chainVars, registryVars
  <2>3. CloseInv'
    BY <1>2, CreditAssumption
    DEF Serve, CreditInv, TypeOK, CloseInv, Won, Handlers, Goto, chainVars, registryVars
  <2>4. ChatInv'
    BY <1>2, CreditAssumption
    DEF Serve, CreditInv, TypeOK, ChatInv, Handlers, Goto, chainVars, registryVars
  <2> QED
    BY <2>1, <2>2, <2>3, <2>4 DEF CreditInv
<1>3. CASE ServeFails(c)
  <2>1. TypeOK'
    BY <1>3, CreditAssumption
    DEF ServeFails, CreditInv, TypeOK, Handlers, Goto, chainVars, registryVars,
        Awaiting, Resumed, Ends
  <2>2. OpenInv'
    BY <1>3, CreditAssumption
    DEF ServeFails, CreditInv, TypeOK, OpenInv, Handlers, Goto, chainVars, registryVars
  <2>3. CloseInv'
    BY <1>3, CreditAssumption
    DEF ServeFails, CreditInv, TypeOK, CloseInv, Won, Handlers, Goto, chainVars,
        registryVars
  <2>4. ChatInv'
    BY <1>3, CreditAssumption
    DEF ServeFails, CreditInv, TypeOK, ChatInv, Handlers, Goto, chainVars, registryVars
  <2> QED
    BY <2>1, <2>2, <2>3, <2>4 DEF CreditInv
<1>4. CASE Debit(c)
  <2>1. TypeOK'
    BY <1>4, CreditAssumption
    DEF Debit, CreditInv, TypeOK, Handlers, Goto, Answered, Accrue, chainVars,
        registryVars, Awaiting, Resumed, Ends
  <2>2. OpenInv'
    BY <1>4, CreditAssumption
    DEF Debit, CreditInv, TypeOK, OpenInv, Handlers, Goto, Answered, Accrue, chainVars,
        registryVars
  <2>3. CloseInv'
    BY <1>4, CreditAssumption
    DEF Debit, CreditInv, TypeOK, CloseInv, Won, Handlers, Goto, Answered, Accrue,
        chainVars, registryVars
  <2>4. ChatInv'
    BY <1>4, CreditAssumption
    DEF Debit, CreditInv, TypeOK, ChatInv, Handlers, Goto, Answered, Accrue, chainVars,
        registryVars
  <2> QED
    BY <2>1, <2>2, <2>3, <2>4 DEF CreditInv
<1> QED
  BY <1>1, <1>2, <1>3, <1>4 DEF ChatStep

(* A fault takes handlers away and leaves the chain and the ledger alone.  *)
LEMMA FaultInv ==
  ASSUME CreditInv, (\E h \in Handlers : Throws(h)) \/ Restart
  PROVE  CreditInv'
<1>1. ASSUME NEW h \in Handlers, Throws(h) PROVE CreditInv'
  <2>1. TypeOK'
    BY <1>1 DEF Throws, CreditInv, TypeOK, Goto, chainVars, registryVars, Awaiting, Resumed, Ends
  <2>2. OpenInv'
    BY <1>1, CreditAssumption
    DEF Throws, CreditInv, TypeOK, OpenInv, Handlers, Goto, chainVars
  <2>3. CloseInv'
    BY <1>1, CreditAssumption
    DEF Throws, CreditInv, TypeOK, CloseInv, Won, Handlers, Goto, chainVars
  <2>4. ChatInv'
    BY <1>1, CreditAssumption DEF Throws, CreditInv, TypeOK, ChatInv, Handlers, Goto
  <2> QED
    BY <2>1, <2>2, <2>3, <2>4 DEF CreditInv
<1>2. CASE Restart
  <2>1. TypeOK'
    BY <1>2 DEF Restart, CreditInv, TypeOK, chainVars, Awaiting, Resumed, Ends
  <2>2. OpenInv'
    BY <1>2 DEF Restart, CreditInv, TypeOK, OpenInv, Handlers, chainVars, Resumed
  <2>3. CloseInv'
    BY <1>2 DEF Restart, CreditInv, TypeOK, CloseInv, Won, Handlers, chainVars, Resumed
  <2>4. ChatInv'
    BY <1>2 DEF Restart, CreditInv, TypeOK, ChatInv, Handlers, Resumed
  <2> QED
    BY <2>1, <2>2, <2>3, <2>4 DEF CreditInv
<1> QED
  BY <1>1, <1>2

(* The invariant holds in every reachable state.                           *)
THEOREM CreditInductive == Spec => []CreditInv
<1>1. CreditInv /\ [Next]_vars => CreditInv'
  BY TopupStepInv, CloseStepInv, ChatStepInv, FaultInv, StutterInv DEF Next
<1> QED
  BY <1>1, InitInv, PTL DEF Spec

-----------------------------------------------------------------------------

(* Every variable stays in its type.                                       *)
THEOREM CreditTypeCorrect == Spec => []TypeOK
<1>1. CreditInv => TypeOK
  BY DEF CreditInv
<1> QED
  BY <1>1, CreditInductive, PTL

(* A payment is credited once and only when its ceiling is in escrow, for  *)
(* any number of deliveries of it.                                         *)
THEOREM AlwaysCreditIsEscrowed == Spec => []CreditIsEscrowed
<1>1. CreditInv => CreditIsEscrowed
  BY CreditAssumption DEF CreditInv, OpenInv, CreditIsEscrowed
<1> QED
  BY <1>1, CreditInductive, PTL

(* A channel's payout leaves the ledger once, and exactly, for any number  *)
(* of racing closes.                                                       *)
THEOREM AlwaysSealIsPaid == Spec => []SealIsPaid
<1>1. ASSUME CreditInv PROVE SealIsPaid
  <2>1. ASSUME NEW k \in Closes, entry[k] # 0 PROVE -entry[k] = paid[target[k]]
    <3>1. entry[k] = -amount[k] /\ amount[k] = paid[target[k]] /\ amount[k] \in Nat
      BY <1>1, <2>1 DEF CreditInv, CloseInv, Won, TypeOK, Handlers
    <3> QED
      BY <3>1
  <2>2. \A k, l \in Closes :
          target[k] = target[l] /\ entry[k] # 0 /\ entry[l] # 0 => k = l
    BY <1>1 DEF CreditInv, CloseInv, Won
  <2> QED
    BY <2>1, <2>2 DEF SealIsPaid
<1> QED
  BY <1>1, CreditInductive, PTL

(* Whatever a client is told has been done is in the ledger, and a closed  *)
(* channel is sealed on chain.                                             *)
THEOREM AlwaysAnsweredIsBooked == Spec => []AnsweredIsBooked
<1>1. CreditInv => AnsweredIsBooked
  BY DEF CreditInv, OpenInv, CloseInv, ChatInv, Won, AnsweredIsBooked
<1> QED
  BY <1>1, CreditInductive, PTL

-----------------------------------------------------------------------------
(* The ledger as a whole.  Between two handlers the balance lags behind    *)
(* the chain and the answers by what is on its way to the ledger.          *)

(* What a handler has sent to the ledger, or will without fail.            *)
Coming(h) ==
  IF pc[h] \in {"escrowed", "crediting"} THEN Ceiling[ChannelOf[h]]
  ELSE IF pc[h] \in {"settled", "debiting"} THEN -amount[h] ELSE 0

Expected == [h \in Handlers |-> entry[h] + Coming(h)]

ChainTotal == SumFunctionOnSet(Escrowed, Channels) - SumFunctionOnSet(paid, Channels)

Balanced ==
  SumFunctionOnSet(Expected, Handlers) = ChainTotal - SumFunctionOnSet(amount, Chats)

(* Only a sealed channel has paid, and only a served chat costs.           *)
NothingYet ==
  /\ \A ch \in Channels : escrow[ch] # "sealed" => paid[ch] = 0
  /\ \A c \in Chats : pc[c] \in {"idle", "serving"} => amount[c] = 0

BooksInv ==
  /\ CreditInv
  /\ NothingYet
  /\ ~faulted /\ adrift = {} => gone = {} /\ Balanced

LEMMA TablesFinite ==
  IsFiniteSet(Handlers) /\ IsFiniteSet(Channels) /\ IsFiniteSet(Chats)
BY CreditAssumption, FS_Union DEF Handlers

(* The tables hold numbers.                                                *)
LEMMA BooksTyped ==
  ASSUME CreditInv
  PROVE  /\ \A h \in Handlers : Expected[h] \in Int
         /\ \A ch \in Channels : Escrowed[ch] \in Int /\ paid[ch] \in Int
         /\ \A c \in Chats : amount[c] \in Int
         /\ SumFunctionOnSet(Expected, Handlers) \in Int
         /\ SumFunctionOnSet(Escrowed, Channels) \in Int
         /\ SumFunctionOnSet(paid, Channels) \in Int
         /\ SumFunctionOnSet(amount, Chats) \in Int
<1>1. \A h \in Handlers : Expected[h] \in Int
  <2> SUFFICES ASSUME NEW h \in Handlers PROVE Expected[h] \in Int
    OBVIOUS
  <2>1. entry[h] \in Int /\ amount[h] \in Nat
    BY DEF CreditInv, TypeOK
  <2>2. pc[h] \in {"escrowed", "crediting"} => h \in Opens
    BY DEF CreditInv, CloseInv, ChatInv, Handlers
  <2>3. h \in Opens => Ceiling[ChannelOf[h]] \in Nat
    BY CreditAssumption
  <2> QED
    BY <2>1, <2>2, <2>3 DEF Expected, Coming
<1>2. \A ch \in Channels : Escrowed[ch] \in Int /\ paid[ch] \in Int
  BY CreditAssumption DEF Escrowed, CreditInv, TypeOK
<1>3. \A c \in Chats : amount[c] \in Int
  BY DEF CreditInv, TypeOK, Handlers
<1> QED
  BY <1>1, <1>2, <1>3, TablesFinite, SumOfIntegers

LEMMA NextBooksTyped ==
  ASSUME CreditInv'
  PROVE  /\ \A h \in Handlers : Expected'[h] \in Int
         /\ \A ch \in Channels : Escrowed'[ch] \in Int /\ paid'[ch] \in Int
         /\ \A c \in Chats : amount'[c] \in Int
<1>1. \A h \in Handlers : Expected'[h] \in Int
  <2> SUFFICES ASSUME NEW h \in Handlers PROVE Expected'[h] \in Int
    OBVIOUS
  <2>1. entry'[h] \in Int /\ amount'[h] \in Nat
    BY DEF CreditInv, TypeOK, Handlers
  <2>2. pc'[h] \in {"escrowed", "crediting"} => h \in Opens
    BY DEF CreditInv, CloseInv, ChatInv, Handlers
  <2>3. h \in Opens => Ceiling[ChannelOf[h]] \in Nat
    BY CreditAssumption
  <2> QED
    BY <2>1, <2>2, <2>3 DEF Expected, Coming, Handlers
<1>2. \A ch \in Channels : Escrowed'[ch] \in Int /\ paid'[ch] \in Int
  BY CreditAssumption DEF Escrowed, CreditInv, TypeOK
<1>3. \A c \in Chats : amount'[c] \in Int
  BY DEF CreditInv, TypeOK, Handlers
<1> QED
  BY <1>1, <1>2, <1>3

(* A step of which the books expected nothing else keeps them balanced.    *)
LEMMA BooksStay ==
  ASSUME CreditInv, CreditInv', Balanced,
         \A h \in Handlers : Expected'[h] = Expected[h],
         UNCHANGED <<escrow, paid>>,
         \A c \in Chats : amount'[c] = amount[c]
  PROVE  Balanced'
<1>1. SumFunctionOnSet(Expected', Handlers) = SumFunctionOnSet(Expected, Handlers)
  BY TablesFinite, SumSame
<1>2. SumFunctionOnSet(amount', Chats) = SumFunctionOnSet(amount, Chats)
  BY TablesFinite, SumSame
<1>3. Escrowed' = Escrowed
  BY DEF Escrowed
<1> QED
  BY <1>1, <1>2, <1>3 DEF Balanced, ChainTotal, Handlers

(* What is expected of one handler changes, and one channel with it.       *)
LEMMA ChannelMoves ==
  ASSUME CreditInv, CreditInv', Balanced, NEW h \in Handlers, NEW ch \in Channels,
         \A g \in Handlers \ {h} : Expected'[g] = Expected[g],
         \A e \in Channels \ {ch} : Escrowed'[e] = Escrowed[e] /\ paid'[e] = paid[e],
         \A c \in Chats : amount'[c] = amount[c],
         Expected'[h] - Expected[h]
           = (Escrowed'[ch] - Escrowed[ch]) - (paid'[ch] - paid[ch])
  PROVE  Balanced'
<1>1. SumFunctionOnSet(Expected', Handlers)
        = SumFunctionOnSet(Expected, Handlers) - Expected[h] + Expected'[h]
  BY TablesFinite, BooksTyped, NextBooksTyped, SumChanged
<1>2. SumFunctionOnSet(Escrowed', Channels)
        = SumFunctionOnSet(Escrowed, Channels) - Escrowed[ch] + Escrowed'[ch]
  BY TablesFinite, BooksTyped, NextBooksTyped, SumChanged
<1>3. SumFunctionOnSet(paid', Channels)
        = SumFunctionOnSet(paid, Channels) - paid[ch] + paid'[ch]
  BY TablesFinite, BooksTyped, NextBooksTyped, SumChanged
<1>4. SumFunctionOnSet(amount', Chats) = SumFunctionOnSet(amount, Chats)
  BY TablesFinite, SumSame
<1>5. /\ Expected[h] \in Int /\ Expected'[h] \in Int
      /\ Escrowed[ch] \in Int /\ Escrowed'[ch] \in Int
      /\ paid[ch] \in Int /\ paid'[ch] \in Int
  BY BooksTyped, NextBooksTyped
<1>6. SumFunctionOnSet(Expected', Handlers)
        = (SumFunctionOnSet(Escrowed', Channels) - SumFunctionOnSet(paid', Channels))
            - SumFunctionOnSet(amount', Chats)
  <2> DEFINE was == SumFunctionOnSet(Expected, Handlers)
             opened == SumFunctionOnSet(Escrowed, Channels)
             settled == SumFunctionOnSet(paid, Channels)
             served == SumFunctionOnSet(amount, Chats)
             x == Expected[h]
             x1 == Expected'[h]
             y == Escrowed[ch]
             y1 == Escrowed'[ch]
             z == paid[ch]
             z1 == paid'[ch]
  <2>1. /\ was \in Int /\ opened \in Int /\ settled \in Int /\ served \in Int
        /\ x \in Int /\ x1 \in Int /\ y \in Int /\ y1 \in Int /\ z \in Int /\ z1 \in Int
    BY <1>5, BooksTyped
  <2>2. was = (opened - settled) - served /\ x1 - x = (y1 - y) - (z1 - z)
    BY DEF Balanced, ChainTotal
  <2>3. was - x + x1 = ((opened - y + y1) - (settled - z + z1)) - served
    <3> HIDE DEF was, opened, settled, served, x, x1, y, y1, z, z1
    <3> QED
      BY <2>1, <2>2
  <2> QED
    BY <1>1, <1>2, <1>3, <1>4, <2>3
<1> QED
  BY <1>6 DEF Balanced, ChainTotal, Handlers

(* A chat is served: its cost is expected of the ledger.                   *)
LEMMA ChatMoves ==
  ASSUME CreditInv, CreditInv', Balanced, NEW c \in Chats,
         \A g \in Handlers \ {c} : Expected'[g] = Expected[g],
         UNCHANGED <<escrow, paid>>,
         \A b \in Chats \ {c} : amount'[b] = amount[b],
         Expected'[c] - Expected[c] = amount[c] - amount'[c]
  PROVE  Balanced'
<1>1. c \in Handlers
  BY DEF Handlers
<1>2. SumFunctionOnSet(Expected', Handlers)
        = SumFunctionOnSet(Expected, Handlers) - Expected[c] + Expected'[c]
  BY <1>1, TablesFinite, BooksTyped, NextBooksTyped, SumChanged
<1>3. SumFunctionOnSet(amount', Chats)
        = SumFunctionOnSet(amount, Chats) - amount[c] + amount'[c]
  BY TablesFinite, BooksTyped, NextBooksTyped, SumChanged
<1>4. Escrowed' = Escrowed
  BY DEF Escrowed
<1>5. /\ Expected[c] \in Int /\ Expected'[c] \in Int /\ amount[c] \in Int /\ amount'[c] \in Int
  BY <1>1, BooksTyped, NextBooksTyped
<1>6. SumFunctionOnSet(Expected', Handlers)
        = (SumFunctionOnSet(Escrowed', Channels) - SumFunctionOnSet(paid', Channels))
            - SumFunctionOnSet(amount', Chats)
  BY <1>2, <1>3, <1>4, <1>5, BooksTyped DEF Balanced, ChainTotal
<1> QED
  BY <1>6 DEF Balanced, ChainTotal, Handlers

(* The books start balanced, with nothing in them.                         *)
LEMMA InitBooks == Init => BooksInv
<1> SUFFICES ASSUME Init PROVE BooksInv
  OBVIOUS
<1>1. CreditInv
  BY InitInv
<1>2. NothingYet
  BY DEF Init, NothingYet, Handlers
<1>3. \A h \in Handlers : Expected[h] = 0
  BY DEF Init, Expected, Coming
<1>4. \A ch \in Channels : Escrowed[ch] = 0 /\ paid[ch] = 0
  BY DEF Init, Escrowed
<1>5. \A c \in Chats : amount[c] = 0
  BY DEF Init, Handlers
<1>6. /\ SumFunctionOnSet(Expected, Handlers) = 0
      /\ SumFunctionOnSet(Escrowed, Channels) = 0
      /\ SumFunctionOnSet(paid, Channels) = 0
      /\ SumFunctionOnSet(amount, Chats) = 0
  BY <1>3, <1>4, <1>5, TablesFinite, SumOfZeros
<1>7. gone = {}
  BY DEF Init
<1> QED
  BY <1>1, <1>2, <1>6, <1>7 DEF BooksInv, Balanced, ChainTotal

(* Steps after which nothing else is expected of the ledger: what was on   *)
(* its way has arrived, or a close or a chat goes on without cost.         *)
LEMMA QuietBooks ==
  ASSUME BooksInv, CreditInv', ~faulted, adrift = {},
         \/ \E t \in Opens : Bind(t) \/ Credit(t)
         \/ \E k \in Closes : \/ Close(k) \/ ReadDraw(k) \/ SettleFails(k) \/ Seal(k)
                              \/ Drop(k)
         \/ \E c \in Chats : Admit(c) \/ ServeFails(c) \/ Debit(c)
  PROVE  gone' = {} /\ Balanced'
<1>1. /\ gone = {} /\ Balanced /\ CreditInv
      /\ pc \in [Handlers -> {"idle"} \cup Awaiting \cup Resumed \cup Ends]
      /\ entry \in [Handlers -> Int] /\ amount \in [Handlers -> Nat]
  BY DEF BooksInv, CreditInv, TypeOK
<1> USE CreditAssumption DEF Expected, Coming, Goto, Answered, Accrue, chainVars, registryVars
<1>2. ASSUME NEW t \in Opens, Bind(t) \/ Credit(t) PROVE gone' = {} /\ Balanced'
  <2>1. t \in Handlers /\ entry[t] = 0
    BY <1>1, <1>2 DEF Bind, Credit, CreditInv, OpenInv, Handlers
  <2>2. Ceiling[ChannelOf[t]] \in Int
    OBVIOUS
  <2>3. \A h \in Handlers : Expected'[h] = Expected[h]
    BY <1>1, <1>2, <2>1, <2>2 DEF Bind, Credit, Handlers
  <2>4. gone' = {} /\ UNCHANGED <<escrow, paid, amount>>
    BY <1>1, <1>2 DEF Bind, Credit
  <2> QED
    BY <1>1, <2>3, <2>4, BooksStay
<1>3. ASSUME NEW k \in Closes,
             Close(k) \/ ReadDraw(k) \/ SettleFails(k) \/ Seal(k) \/ Drop(k)
      PROVE  gone' = {} /\ Balanced'
  <2>1. k \in Handlers /\ k \notin Chats /\ k \notin Opens
    BY DEF Handlers
  <2>2. pc[k] = "settled" => entry[k] = 0
    BY <1>1 DEF CreditInv, CloseInv
  <2>3. \A h \in Handlers : Expected'[h] = Expected[h]
    <3>1. CASE Close(k) \/ ReadDraw(k) \/ SettleFails(k) \/ Drop(k)
      BY <1>1, <2>1, <3>1 DEF Close, ReadDraw, SettleFails, Drop, Handlers
    <3>2. CASE Seal(k)
      BY <1>1, <2>1, <2>2, <3>2 DEF Seal, SealUsd, Handlers
    <3> QED
      BY <1>3, <3>1, <3>2
  <2>4. gone' = {} /\ UNCHANGED <<escrow, paid>>
    BY <1>1, <1>3 DEF Close, ReadDraw, SettleFails, Seal, Drop
  <2>5. \A c \in Chats : amount'[c] = amount[c]
    <3>1. amount' = amount \/ \E usd : amount' = [amount EXCEPT ![k] = usd]
      BY <1>3 DEF Close, ReadDraw, SettleFails, Seal, Drop
    <3> QED
      BY <1>1, <2>1, <3>1 DEF Handlers
  <2> QED
    BY <1>1, <2>3, <2>4, <2>5, BooksStay
<1>4. ASSUME NEW c \in Chats, Admit(c) \/ ServeFails(c) \/ Debit(c)
      PROVE  gone' = {} /\ Balanced'
  <2>1. c \in Handlers
    BY DEF Handlers
  <2>2. pc[c] = "debiting" => entry[c] = 0
    BY <1>1 DEF CreditInv, ChatInv
  <2>3. \A h \in Handlers : Expected'[h] = Expected[h]
    <3>1. CASE Admit(c) \/ ServeFails(c)
      BY <1>1, <2>1, <3>1 DEF Admit, ServeFails
    <3>2. CASE Debit(c)
      BY <1>1, <2>1, <2>2, <3>2 DEF Debit
    <3> QED
      BY <1>4, <3>1, <3>2
  <2>4. gone' = {} /\ UNCHANGED <<escrow, paid, amount>>
    BY <1>1, <1>4 DEF Admit, ServeFails, Debit
  <2> QED
    BY <1>1, <2>3, <2>4, BooksStay
<1> QED
  BY <1>2, <1>3, <1>4

(* A ceiling goes into escrow and its credit is on its way.                *)
LEMMA OpenBooks ==
  ASSUME BooksInv, CreditInv', ~faulted, adrift = {}, NEW t \in Opens, OpenOnChain(t)
  PROVE  gone' = {} /\ Balanced'
<1> DEFINE ch == ChannelOf[t]
<1>1. gone = {} /\ Balanced /\ CreditInv /\ t \in Handlers /\ ch \in Channels
  BY CreditAssumption DEF BooksInv, Handlers
<1>2. /\ pc \in [Handlers -> {"idle"} \cup Awaiting \cup Resumed \cup Ends]
      /\ escrow \in [Channels -> {"none", "open", "sealed"}]
      /\ entry[t] = 0 /\ Ceiling[ch] \in Int
  BY <1>1, CreditAssumption DEF OpenOnChain, CreditInv, TypeOK, OpenInv
<1>3. /\ pc[t] = "idle" /\ escrow[ch] = "none"
      /\ escrow' = [escrow EXCEPT ![ch] = "open"]
      /\ pc' = [pc EXCEPT ![t] = "escrowed"]
      /\ UNCHANGED <<entry, paid, gone, amount>>
  BY DEF OpenOnChain, Goto
<1>4. /\ \A g \in Handlers \ {t} : Expected'[g] = Expected[g]
      /\ Expected[t] = 0 /\ Expected'[t] = Ceiling[ch]
  BY <1>1, <1>2, <1>3 DEF Expected, Coming, Handlers
<1>5. /\ \A e \in Channels \ {ch} : Escrowed'[e] = Escrowed[e] /\ paid'[e] = paid[e]
      /\ Escrowed[ch] = 0 /\ Escrowed'[ch] = Ceiling[ch]
  BY <1>1, <1>2, <1>3 DEF Escrowed
<1>6. Expected'[t] - Expected[t] = (Escrowed'[ch] - Escrowed[ch]) - (paid'[ch] - paid[ch])
  <2>1. paid[ch] \in Int
    BY <1>1 DEF CreditInv, TypeOK
  <2> QED
    BY <1>2, <1>3, <1>4, <1>5, <2>1
<1> HIDE DEF ch
<1>7. Balanced'
  BY <1>1, <1>3, <1>4, <1>5, <1>6, ChannelMoves
<1> QED
  BY <1>1, <1>3, <1>7

(* The treasury is paid, and the close will take as much from the ledger.  *)
LEMMA SettleBooks ==
  ASSUME BooksInv, CreditInv', ~faulted, adrift = {}, NEW k \in Closes, SettleOnChain(k)
  PROVE  gone' = {} /\ Balanced'
<1> DEFINE ch == target[k]
           usd == Clamped(k)
<1>1. /\ gone = {} /\ Balanced /\ CreditInv /\ k \in Handlers
      /\ k \notin Chats /\ k \notin Opens
  BY CreditAssumption DEF BooksInv, Handlers
<1>2. /\ pc[k] = "settling" /\ escrow[ch] = "open"
      /\ escrow' = [escrow EXCEPT ![ch] = "sealed"]
      /\ paid' = [paid EXCEPT ![ch] = usd]
      /\ amount' = [amount EXCEPT ![k] = usd]
      /\ pc' = [pc EXCEPT ![k] = "settled"]
      /\ gone' = {} /\ UNCHANGED entry
  BY <1>1 DEF SettleOnChain, Answered, Goto
<1>3. /\ pc \in [Handlers -> {"idle"} \cup Awaiting \cup Resumed \cup Ends]
      /\ escrow \in [Channels -> {"none", "open", "sealed"}]
      /\ paid \in [Channels -> Nat] /\ amount \in [Handlers -> Nat]
      /\ entry[k] = 0 /\ ch \in Channels
  BY <1>1, <1>2 DEF CreditInv, TypeOK, CloseInv
<1>4. paid[ch] = 0
  BY <1>2, <1>3 DEF BooksInv, NothingYet
<1>5. usd \in Int
  BY <1>1, <1>3, CreditAssumption DEF Clamped
<1> HIDE DEF ch, usd
<1>6. /\ \A g \in Handlers \ {k} : Expected'[g] = Expected[g]
      /\ Expected[k] = 0 /\ Expected'[k] = -usd
  BY <1>1, <1>2, <1>3, <1>5 DEF Expected, Coming, Handlers
<1>7. \A e \in Channels : Escrowed'[e] = Escrowed[e] /\ (e # ch => paid'[e] = paid[e])
  BY <1>2, <1>3 DEF Escrowed
<1>8. Expected'[k] - Expected[k] = (Escrowed'[ch] - Escrowed[ch]) - (paid'[ch] - paid[ch])
  <2>1. Escrowed[ch] \in Int
    BY <1>1, <1>3, BooksTyped
  <2> QED
    BY <1>2, <1>3, <1>4, <1>5, <1>6, <1>7, <2>1
<1>9. \A c \in Chats : amount'[c] = amount[c]
  BY <1>1, <1>2, <1>3
<1>10. Balanced'
  BY <1>1, <1>3, <1>6, <1>7, <1>8, <1>9, ChannelMoves
<1> QED
  BY <1>2, <1>10

(* A chat is served at a cost, and its debit is sent.                      *)
LEMMA ServeBooks ==
  ASSUME BooksInv, CreditInv', ~faulted, adrift = {}, NEW c \in Chats, Serve(c)
  PROVE  gone' = {} /\ Balanced'
<1>1. gone = {} /\ Balanced /\ CreditInv /\ c \in Handlers
  BY DEF BooksInv, Handlers
<1>2. PICK usd \in Costs : /\ amount' = [amount EXCEPT ![c] = usd]
                           /\ pc' = [pc EXCEPT ![c] = IF usd > 0 THEN "debiting" ELSE "answered"]
  BY DEF Serve, Goto
<1>3. /\ pc[c] = "serving" /\ UNCHANGED <<entry, escrow, paid, gone>> /\ usd \in Nat
      /\ pc \in [Handlers -> {"idle"} \cup Awaiting \cup Resumed \cup Ends]
      /\ amount \in [Handlers -> Nat] /\ entry[c] = 0 /\ amount[c] = 0
  BY <1>1, CreditAssumption
  DEF Serve, CreditInv, TypeOK, ChatInv, BooksInv, NothingYet, chainVars
<1>4. /\ \A g \in Handlers \ {c} : Expected'[g] = Expected[g]
      /\ Expected[c] = 0 /\ Expected'[c] = -usd
  BY <1>1, <1>2, <1>3 DEF Expected, Coming, Handlers
<1>5. \A b \in Chats \ {c} : amount'[b] = amount[b]
  BY <1>2, <1>3 DEF Handlers
<1>6. Expected'[c] - Expected[c] = amount[c] - amount'[c]
  BY <1>1, <1>2, <1>3, <1>4
<1>7. Balanced'
  BY <1>1, <1>3, <1>4, <1>5, <1>6, ChatMoves
<1> QED
  BY <1>1, <1>3, <1>7

(* Channels are paid when they are sealed and chats cost when they are     *)
(* served, by no other step.                                               *)
LEMMA NothingYetKept ==
  ASSUME CreditInv, NothingYet, [Next]_vars
  PROVE  NothingYet'
<1> USE CreditAssumption DEF NothingYet, CreditInv, TypeOK, Goto, Answered, chainVars, Handlers
<1>1. CASE UNCHANGED vars
  BY <1>1 DEF vars
<1>2. ASSUME NEW t \in Opens, TopupStep(t) PROVE NothingYet'
  BY <1>2 DEF TopupStep, OpenOnChain, Bind, Credit
<1>3. ASSUME NEW k \in Closes, CloseStep(k) PROVE NothingYet'
  BY <1>3 DEF CloseStep, Close, ReadDraw, SettleOnChain, SettleFails, Seal, SealSwallowed, Drop
<1>4. ASSUME NEW c \in Chats, ChatStep(c) PROVE NothingYet'
  BY <1>4 DEF ChatStep, Admit, Serve, ServeFails, Debit
<1>5. ASSUME NEW h \in Handlers, Throws(h) PROVE NothingYet'
  BY <1>5 DEF Throws
<1>6. CASE Restart
  BY <1>6 DEF Restart, Resumed
<1> QED
  BY <1>1, <1>2, <1>3, <1>4, <1>5, <1>6 DEF Next

(* The books stay balanced until something throws, stops or is swallowed.  *)
THEOREM BooksBalance == Spec => []BooksInv
<1>1. ASSUME BooksInv, [Next]_vars PROVE BooksInv'
  <2>1. CreditInv'
    BY <1>1, TopupStepInv, CloseStepInv, ChatStepInv, FaultInv, StutterInv DEF Next, BooksInv
  <2>2. NothingYet'
    BY <1>1, NothingYetKept DEF BooksInv
  <2>3. ASSUME ~faulted', adrift' = {} PROVE gone' = {} /\ Balanced'
    <3>1. CASE UNCHANGED vars
      <4>1. ~faulted /\ adrift = {} /\ \A h \in Handlers : Expected'[h] = Expected[h]
        BY <2>3, <3>1 DEF vars, Expected, Coming, Handlers
      <4>2. UNCHANGED <<gone, escrow, paid, amount>>
        BY <3>1 DEF vars, chainVars
      <4> QED
        BY <1>1, <2>1, <4>1, <4>2, BooksStay DEF BooksInv
    <3>2. CASE Restart \/ \E h \in Handlers : Throws(h)
      BY <2>3, <3>2 DEF Restart, Throws
    <3>3. ASSUME NEW t \in Opens, TopupStep(t) PROVE gone' = {} /\ Balanced'
      <4>1. ~faulted /\ adrift = {}
        BY <2>3, <3>3 DEF TopupStep, OpenOnChain, Bind, Credit
      <4> QED
        BY <1>1, <2>1, <3>3, <4>1, QuietBooks, OpenBooks DEF TopupStep
    <3>4. ASSUME NEW k \in Closes, CloseStep(k) PROVE gone' = {} /\ Balanced'
      <4>1. ~faulted /\ adrift = {} /\ ~SealSwallowed(k)
        BY <2>3, <3>4
        DEF CloseStep, Close, ReadDraw, SettleOnChain, SettleFails, Seal, SealSwallowed, Drop
      <4> QED
        BY <1>1, <2>1, <3>4, <4>1, QuietBooks, SettleBooks DEF CloseStep
    <3>5. ASSUME NEW c \in Chats, ChatStep(c) PROVE gone' = {} /\ Balanced'
      <4>1. ~faulted /\ adrift = {}
        BY <2>3, <3>5 DEF ChatStep, Admit, Serve, ServeFails, Debit
      <4> QED
        BY <1>1, <2>1, <3>5, <4>1, QuietBooks, ServeBooks DEF ChatStep
    <3> QED
      BY <1>1, <3>1, <3>2, <3>3, <3>4, <3>5 DEF Next
  <2> QED
    BY <2>1, <2>2, <2>3 DEF BooksInv
<1> QED
  BY <1>1, InitBooks, PTL DEF Spec

(* Without faults, and with no handler under way, the balance is what was  *)
(* escrowed, less what was settled, less what was served.                  *)
THEOREM AlwaysReconciles == Spec => []Reconciles
<1>1. ASSUME BooksInv PROVE Reconciles
  <2> SUFFICES ASSUME Quiet
               PROVE  Balance = SumFunctionOnSet(Escrowed, Channels)
                                  - SumFunctionOnSet(paid, Channels)
                                  - SumFunctionOnSet(amount, Chats)
    BY DEF Reconciles
  <2>1. \A h \in Handlers : Expected[h] = entry[h]
    <3> SUFFICES ASSUME NEW h \in Handlers PROVE Expected[h] = entry[h]
      OBVIOUS
    <3>1. pc[h] \in {"idle", "answered", "closed", "failed"} /\ entry[h] \in Int
      BY <1>1 DEF Quiet, Ends, BooksInv, CreditInv, TypeOK
    <3> QED
      BY <3>1 DEF Expected, Coming
  <2>2. SumFunctionOnSet(Expected, Handlers) = SumFunctionOnSet(entry, Handlers)
    BY <2>1, TablesFinite, SumSame
  <2> QED
    BY <1>1, <2>2 DEF BooksInv, Quiet, Balanced, ChainTotal, Balance
<1> QED
  BY <1>1, BooksBalance, PTL

-----------------------------------------------------------------------------
(* The refinement: the prepaid account decides by an audit of its channels *)
(* and chats, the gateway by the rows of one table, and the two agree.     *)

Worth == [ch \in Channels |-> SumFunctionOnSet(entry, RowsOf(ch))]

Charged == [c \in Chats |-> -entry[c]]

(* The sum of the account is the sum of the module of the credit.          *)
LEMMA SameAccountSum == \A f, S : Account!SumFunctionOnSet(f, S) = SumFunctionOnSet(f, S)
BY DEF SumFunctionOnSet, FoldFunctionOnSet, MapThenFoldSet, Account!SumFunctionOnSet,
       Account!FoldFunctionOnSet, Account!MapThenFoldSet

LEMMA RowsFinite ==
  ASSUME CreditInv, NEW ch
  PROVE  /\ IsFiniteSet(RowsOf(ch))
         /\ RowsOf(ch) \subseteq Opens \cup Closes
         /\ \A h \in RowsOf(ch) : entry[h] \in Int
<1>1. RowsOf(ch) \subseteq Opens \cup Closes
  BY DEF RowsOf
<1>2. IsFiniteSet(Opens \cup Closes)
  BY CreditAssumption, FS_Union
<1> QED
  BY <1>1, <1>2, FS_Subset DEF CreditInv, TypeOK, Handlers

(* Every row belongs to a channel or to a chat.                            *)
LEMMA AuditIsBalance ==
  ASSUME CreditInv
  PROVE  Account!Audit = Balance
<1> DEFINE S == Opens \cup {k \in Closes : target[k] \in Channels}
           g == [h \in S |-> IF h \in Opens THEN ChannelOf[h] ELSE target[h]]
<1>1. /\ IsFiniteSet(S) /\ IsFiniteSet(Channels) /\ IsFiniteSet(Chats) /\ IsFiniteSet(Handlers)
      /\ \A h \in Handlers : entry[h] \in Int
      /\ S \subseteq Handlers /\ Chats \subseteq Handlers /\ S \cap Chats = {}
  <2>1. IsFiniteSet({k \in Closes : target[k] \in Channels})
    BY CreditAssumption, FS_Subset
  <2>2. IsFiniteSet(S)
    BY <2>1, CreditAssumption, FS_Union
  <2> QED
    BY <2>2, TablesFinite, CreditAssumption DEF Handlers, CreditInv, TypeOK
<1>2. \A h \in S : g[h] \in Channels
  BY CreditAssumption
<1>3. \A ch \in Channels : {h \in S : g[h] = ch} = RowsOf(ch)
  BY CreditAssumption DEF RowsOf
<1>4. \A h \in Handlers \ (S \cup Chats) : entry[h] = 0
  <2> SUFFICES ASSUME NEW k \in Closes, target[k] \notin Channels PROVE entry[k] = 0
    BY DEF Handlers
  <2>1. pc[k] = "idle"
    BY DEF CreditInv, CloseInv
  <2> QED
    BY <2>1 DEF CreditInv, CloseInv
<1>5. SumFunctionOnSet(Worth, Channels) = SumFunctionOnSet(entry, S)
  <2>1. Worth = [ch \in Channels |-> SumFunctionOnSet(entry, {h \in S : g[h] = ch})]
    BY <1>3 DEF Worth
  <2>2. \A h \in S : entry[h] \in Int
    BY <1>1
  <2> HIDE DEF S, g
  <2> QED
    BY <1>1, <1>2, <2>1, <2>2, SumByGroup
<1> HIDE DEF S, g
<1>6. Balance = SumFunctionOnSet(entry, S) + SumFunctionOnSet(entry, Chats)
  <2>1. Balance = SumFunctionOnSet(entry, S \cup Chats)
    <3>1. S \cup Chats \in SUBSET Handlers
      BY <1>1
    <3> QED
      BY <1>1, <1>4, <3>1, SumOfPart DEF Balance
  <2>2. \A h \in S \cup Chats : entry[h] \in Int
    BY <1>1
  <2> QED
    BY <1>1, <2>1, <2>2, SumOfUnion
<1>7. SumFunctionOnSet(entry, Chats) = -SumFunctionOnSet(Charged, Chats)
  <2> DEFINE zero == [c \in Chats |-> 0]
  <2>1. \A c \in Chats : entry[c] \in Int /\ Charged[c] \in Int /\ zero[c] = entry[c] + Charged[c]
    BY <1>1 DEF Charged
  <2>2. \A c \in Chats : zero[c] = 0
    OBVIOUS
  <2> HIDE DEF zero
  <2>3. SumFunctionOnSet(zero, Chats) = 0
    BY <1>1, <2>2, SumOfZeros
  <2>4. SumFunctionOnSet(zero, Chats)
          = SumFunctionOnSet(entry, Chats) + SumFunctionOnSet(Charged, Chats)
    BY <1>1, <2>1, SumOfBoth
  <2>5. SumFunctionOnSet(entry, Chats) \in Int /\ SumFunctionOnSet(Charged, Chats) \in Int
    BY <1>1, <2>1, SumOfIntegers
  <2> QED
    BY <2>3, <2>4, <2>5
<1>8. Account!Audit = SumFunctionOnSet(Worth, Channels) - SumFunctionOnSet(Charged, Chats)
  BY SameAccountSum DEF Account!Audit, Worth, Charged
<1>9. SumFunctionOnSet(Charged, Chats) \in Int /\ SumFunctionOnSet(entry, S) \in Int
  <2>1. /\ \A c \in Chats : Charged[c] \in Int
        /\ \A h \in S : entry[h] \in Int
    BY <1>1 DEF Charged
  <2> QED
    BY <1>1, <2>1, SumOfIntegers
<1> QED
  BY <1>5, <1>6, <1>7, <1>8, <1>9

(* A handler that is given another channel, or loses it, before it has     *)
(* written its row leaves every channel worth what it was.                 *)
LEMMA WorthStays ==
  ASSUME CreditInv, entry' = entry,
         \A k \in Closes : target'[k] # target[k] => entry[k] = 0
  PROVE  Worth' = Worth
<1> SUFFICES ASSUME NEW ch \in Channels
             PROVE  SumFunctionOnSet(entry, RowsOf(ch)') = SumFunctionOnSet(entry, RowsOf(ch))
  BY DEF Worth
<1>1. PICK R : R = RowsOf(ch)
  OBVIOUS
<1>2. PICK Q : Q = RowsOf(ch)'
  OBVIOUS
<1>3. R \subseteq Opens \cup Closes /\ Q \subseteq Opens \cup Closes
  BY <1>1, <1>2 DEF RowsOf
<1>4. IsFiniteSet(R \cup Q) /\ \A h \in R \cup Q : entry[h] \in Int
  <2>1. IsFiniteSet(Opens \cup Closes)
    BY CreditAssumption, FS_Union
  <2>2. R \cup Q \subseteq Opens \cup Closes
    BY <1>3
  <2> QED
    BY <2>1, <2>2, FS_Subset DEF CreditInv, TypeOK, Handlers
<1>5. /\ \A h \in (R \cup Q) \ R : entry[h] = 0
      /\ \A h \in (R \cup Q) \ Q : entry[h] = 0
  BY <1>1, <1>2 DEF RowsOf
<1>6. R \in SUBSET (R \cup Q) /\ Q \in SUBSET (R \cup Q)
  OBVIOUS
<1>7. SumFunctionOnSet(entry, R) = SumFunctionOnSet(entry, Q)
  <2>1. PICK U : U = R \cup Q
    OBVIOUS
  <2> QED
    BY <1>4, <1>5, <1>6, <2>1, SumOfPart
<1> QED
  BY <1>1, <1>2, <1>7

(* The row that a handler writes is added to the worth of its channel.     *)
LEMMA WorthMoves ==
  ASSUME CreditInv, NEW h \in Handlers, NEW usd \in Int,
         entry[h] = 0, entry' = [entry EXCEPT ![h] = usd], target' = target,
         NEW ch \in Channels
  PROVE  Worth'[ch] = IF h \in RowsOf(ch) THEN Worth[ch] + usd ELSE Worth[ch]
<1>1. PICK R : R = RowsOf(ch)
  OBVIOUS
<1>2. RowsOf(ch)' = R
  BY <1>1 DEF RowsOf
<1>3. Worth'[ch] = SumFunctionOnSet(entry', R) /\ Worth[ch] = SumFunctionOnSet(entry, R)
  BY <1>1, <1>2 DEF Worth
<1>4. IsFiniteSet(R) /\ R \subseteq Opens \cup Closes /\ \A g \in R : entry[g] \in Int
  BY <1>1, RowsFinite
<1>5. /\ \A g \in R : entry'[g] \in Int
      /\ \A g \in R \ {h} : entry'[g] = entry[g]
      /\ entry'[h] = usd
  BY <1>4 DEF CreditInv, TypeOK, Handlers
<1>6. PICK new : new = entry'
  OBVIOUS
<1>7. PICK old : old = entry
  OBVIOUS
<1>8. /\ \A g \in R : old[g] \in Int /\ new[g] \in Int
      /\ \A g \in R \ {h} : new[g] = old[g]
  BY <1>4, <1>5, <1>6, <1>7
<1>9. CASE h \in R
  <2>1. SumFunctionOnSet(new, R) = SumFunctionOnSet(old, R) - old[h] + new[h]
    BY <1>4, <1>8, <1>9, SumChanged
  <2>2. SumFunctionOnSet(entry, R) \in Int
    BY <1>4, SumOfIntegers
  <2> QED
    BY <1>1, <1>3, <1>5, <1>6, <1>9, <1>7, <2>1, <2>2
<1>10. CASE h \notin R
  <2>1. SumFunctionOnSet(new, R) = SumFunctionOnSet(old, R)
    <3>1. \A g \in R : new[g] = old[g]
      BY <1>10, <1>8
    <3> QED
      BY <1>4, <3>1, SumSame
  <2> QED
    BY <1>1, <1>3, <1>6, <1>10, <1>7, <2>1
<1> QED
  BY <1>9, <1>10

(* Nothing that the account knows of has changed.                          *)
LEMMA AccountStays ==
  ASSUME CreditInv, UNCHANGED <<escrow, paid, entry>>,
         \A k \in Closes : target'[k] # target[k] => entry[k] = 0,
         \A c \in Chats : pc'[c] = "idle" <=> pc[c] = "idle"
  PROVE  UNCHANGED Account!vars
<1>1. Worth' = Worth
  BY WorthStays
<1>2. {k \in Closes : entry'[k] # 0} = {k \in Closes : entry[k] # 0}
      /\ {t \in Opens : entry'[t] # 0} = {t \in Opens : entry[t] # 0}
  OBVIOUS
<1>3. {target'[k] : k \in {k \in Closes : entry'[k] # 0}}
        = {target[k] : k \in {k \in Closes : entry[k] # 0}}
  OBVIOUS
<1>4. {c \in Chats : pc'[c] # "idle"} = {c \in Chats : pc[c] # "idle"}
  OBVIOUS
<1> QED
  BY <1>1, <1>2, <1>3, <1>4 DEF Account!vars, Worth

(* A top-up opens its channel, and later credits it.                       *)
LEMMA TopupImplements ==
  ASSUME CreditInv, NEW t \in Opens, TopupStep(t)
  PROVE  [Account!Next]_Account!vars
<1>1. ChannelOf[t] \in Channels /\ t \notin Chats /\ t \notin Closes /\ t \in Handlers
  BY CreditAssumption DEF Handlers
<1>2. CASE OpenOnChain(t)
  <2>1. /\ escrow[ChannelOf[t]] = "none"
        /\ escrow' = [escrow EXCEPT ![ChannelOf[t]] = "open"]
        /\ UNCHANGED <<entry, paid, target>>
        /\ \A c \in Chats : pc'[c] = pc[c]
    BY <1>1, <1>2 DEF OpenOnChain, Goto, CreditInv, TypeOK, Handlers
  <2>2. Worth' = Worth
    BY <2>1, WorthStays
  <2>3. Account!Open(ChannelOf[t])
    BY <2>1, <2>2 DEF Account!Open, Worth
  <2> QED
    BY <1>1, <2>3 DEF Account!Next, Account!ChannelStep
<1>3. CASE Bind(t)
  <2>1. UNCHANGED <<entry, escrow, paid, target>> /\ \A c \in Chats : pc'[c] = pc[c]
    BY <1>1, <1>3 DEF Bind, Goto, chainVars, CreditInv, TypeOK, Handlers
  <2> QED
    BY <2>1, AccountStays
<1>4. CASE Credit(t)
  <2> DEFINE ch == ChannelOf[t]
  <2>1. /\ entry' = [entry EXCEPT ![t] = Ceiling[ch]]
        /\ UNCHANGED <<escrow, paid, target>>
        /\ \A c \in Chats : pc'[c] = pc[c]
        /\ pc[t] = "crediting"
    BY <1>1, <1>4 DEF Credit, Answered, Goto, Accrue, chainVars, CreditInv, TypeOK, Handlers
  <2>2. entry[t] = 0 /\ escrow[ch] # "none" /\ Ceiling[ch] \in Nat \ {0}
    BY <1>1, <2>1, CreditAssumption DEF CreditInv, OpenInv
  <2>3. /\ entry \in [Handlers -> Int] /\ entry'[t] = Ceiling[ch]
        /\ \A h \in Handlers \ {t} : entry'[h] = entry[h]
    BY <1>1, <2>1 DEF CreditInv, TypeOK
  <2>4. ch \notin {ChannelOf[u] : u \in {u \in Opens : entry[u] # 0}}
    <3> SUFFICES ASSUME NEW u \in Opens, entry[u] # 0, ChannelOf[u] = ch PROVE FALSE
      OBVIOUS
    <3>1. pc[u] # "idle" /\ pc[t] # "idle"
      BY <2>1 DEF CreditInv, OpenInv
    <3>2. u = t
      BY <3>1 DEF CreditInv, OpenInv
    <3> QED
      BY <2>2, <3>2
  <2>5. {ChannelOf[u] : u \in {u \in Opens : entry'[u] # 0}}
          = {ChannelOf[u] : u \in {u \in Opens : entry[u] # 0}} \cup {ch}
    <3>1. \A u \in Opens : entry'[u] # 0 <=> entry[u] # 0 \/ u = t
      <4>1. entry'[t] # 0
        BY <2>2, <2>3
      <4>2. \A u \in Opens : u # t => entry'[u] = entry[u]
        BY <2>3 DEF Handlers
      <4> QED
        BY <4>1, <4>2
    <3>2. {u \in Opens : entry'[u] # 0} = {u \in Opens : entry[u] # 0} \cup {t}
      BY <3>1
    <3> QED
      BY <3>2
  <2>6. {target[k] : k \in {k \in Closes : entry'[k] # 0}}
          = {target[k] : k \in {k \in Closes : entry[k] # 0}}
    <3>1. {k \in Closes : entry'[k] # 0} = {k \in Closes : entry[k] # 0}
      BY <1>1, <2>3 DEF Handlers
    <3> QED
      BY <3>1
  <2>7. Worth' = [Worth EXCEPT ![ch] = @ + Ceiling[ch]]
    <3>1. \A e \in Channels : t \in RowsOf(e) <=> e = ch
      BY <1>1 DEF RowsOf
    <3>2. Ceiling[ch] \in Int
      BY <2>2
    <3>3. \A e \in Channels :
            Worth'[e] = IF t \in RowsOf(e) THEN Worth[e] + Ceiling[ch] ELSE Worth[e]
      BY <1>1, <2>1, <2>2, <3>2, WorthMoves
    <3> QED
      BY <1>1, <3>1, <3>3 DEF Worth
  <2>8. [c \in Chats |-> -entry'[c]] = Charged
    BY <1>1, <2>3 DEF Charged, Handlers
  <2>9. {c \in Chats : pc'[c] # "idle"} = {c \in Chats : pc[c] # "idle"}
    BY <2>1
  <2>10. Account!Credit(ch)
    BY <2>1, <2>2, <2>4, <2>5, <2>6, <2>7, <2>8, <2>9, SMTT(30) DEF Account!Credit, Worth, Charged
  <2> QED
    BY <1>1, <2>10 DEF Account!Next, Account!ChannelStep
<1> QED
  BY <1>2, <1>3, <1>4 DEF TopupStep

(* A close settles a channel, and later debits it.                         *)
LEMMA CloseImplements ==
  ASSUME CreditInv, NEW k \in Closes, CloseStep(k)
  PROVE  [Account!Next]_Account!vars
<1>1. k \notin Chats /\ k \notin Opens /\ k \in Handlers
  BY CreditAssumption DEF Handlers
<1>2. CASE Close(k)
  <2>1. UNCHANGED <<entry, escrow, paid>> /\ \A c \in Chats : pc'[c] = pc[c]
    BY <1>1, <1>2 DEF Close, Goto, chainVars, CreditInv, TypeOK, Handlers
  <2>2. \A l \in Closes : target'[l] # target[l] => entry[l] = 0
    BY <1>2 DEF Close, CreditInv, CloseInv, TypeOK, Handlers
  <2> QED
    BY <2>1, <2>2, AccountStays
<1>3. CASE ReadDraw(k) \/ SettleFails(k) \/ SealSwallowed(k) \/ Drop(k)
  <2>1. UNCHANGED <<entry, escrow, paid, target>> /\ \A c \in Chats : pc'[c] = pc[c]
    BY <1>1, <1>3 DEF ReadDraw, SettleFails, SealSwallowed, Drop, Answered, Goto, chainVars,
                      CreditInv, TypeOK, Handlers
  <2> QED
    BY <2>1, AccountStays
<1>4. CASE SettleOnChain(k)
  <2> DEFINE ch == target[k]
  <2>1. /\ escrow[ch] = "open"
        /\ escrow' = [escrow EXCEPT ![ch] = "sealed"]
        /\ paid' = [paid EXCEPT ![ch] = Clamped(k)]
        /\ UNCHANGED <<entry, target>>
        /\ \A c \in Chats : pc'[c] = pc[c]
        /\ pc[k] = "settling"
    BY <1>1, <1>4 DEF SettleOnChain, Answered, Goto, CreditInv, TypeOK, Handlers
  <2>2. ch \in Channels /\ Clamped(k) \in 0 .. Ceiling[ch]
    <3>1. ch \in Channels /\ amount[k] \in Nat
      BY <1>1, <2>1 DEF CreditInv, CloseInv, TypeOK
    <3>2. Ceiling[ch] \in Nat
      BY <3>1, CreditAssumption
    <3> QED
      BY <3>1, <3>2 DEF Clamped
  <2>3. Worth' = Worth
    BY <2>1, WorthStays
  <2>4. Account!Settle(ch, Clamped(k))
    BY <2>1, <2>3 DEF Account!Settle, Worth
  <2> QED
    BY <2>2, <2>4 DEF Account!Next, Account!ChannelStep
<1>5. CASE Seal(k)
  <2>0. PICK ch : ch = target[k]
    OBVIOUS
  <2>1. /\ entry' = [entry EXCEPT ![k] = -amount[k]]
        /\ UNCHANGED <<escrow, paid, target>>
        /\ \A c \in Chats : pc'[c] = pc[c]
        /\ pc[k] = "settled"
    BY <1>1, <1>5 DEF Seal, SealUsd, Answered, Goto, Accrue, chainVars, CreditInv, TypeOK,
                      Handlers
  <2>2. /\ entry[k] = 0 /\ ch \in Channels /\ escrow[ch] = "sealed"
        /\ amount[k] = paid[ch] /\ amount[k] \in Nat
    BY <1>1, <2>0, <2>1 DEF CreditInv, CloseInv, TypeOK, Won
  <2>3. /\ entry \in [Handlers -> Int] /\ entry'[k] = -amount[k]
        /\ \A h \in Handlers \ {k} : entry'[h] = entry[h]
    BY <1>1, <2>1 DEF CreditInv, TypeOK
  <2>4. CASE amount[k] = 0
    <3>1. PICK old : old = entry
      OBVIOUS
    <3>2. \A h \in Handlers : entry'[h] = old[h]
      <4>1. entry'[k] = 0
        <5>1. amount[k] <= 0
          BY <2>2, <2>4
        <5>2. -amount[k] = amount[k]
          BY <2>2, <5>1
        <5> QED
          BY Zenon, <2>3, <2>4, <5>2
      <4>2. old[k] = 0
        BY <2>2, <3>1
      <4> QED
        BY <2>3, <3>1, <4>1, <4>2
    <3>3. entry' = entry
      <4>1. entry' \in [Handlers -> Int]
        <5>1. -amount[k] \in Int
          BY <2>2
        <5> QED
          BY <2>1, <2>3, <5>1
      <4> QED
        BY <2>3, <3>1, <3>2, <4>1
    <3> QED
      BY <2>1, <3>3, AccountStays
  <2>5. CASE amount[k] # 0
    <3>1. ch \notin {target[l] : l \in {l \in Closes : entry[l] # 0}}
      <4> SUFFICES ASSUME NEW l \in Closes, entry[l] # 0, target[l] = ch PROVE FALSE
        OBVIOUS
      <4>1. Won(l) /\ Won(k)
        BY <2>0, <2>1 DEF Won
      <4>2. l = k
        BY <2>0, <4>1 DEF CreditInv, CloseInv
      <4> QED
        BY <2>2, <4>2
    <3>2. {target'[l] : l \in {l \in Closes : entry'[l] # 0}}
            = {target[l] : l \in {l \in Closes : entry[l] # 0}} \cup {ch}
      <4>1. -amount[k] # 0
        BY <2>2, <2>5
      <4>2. \A l \in Closes : entry'[l] # 0 <=> entry[l] # 0 \/ l = k
        <5>1. entry'[k] # 0
          BY <2>3, <4>1
        <5>2. \A l \in Closes : l # k => entry'[l] = entry[l]
          BY <2>3 DEF Handlers
        <5> QED
          BY <5>1, <5>2
      <4>3. {l \in Closes : entry'[l] # 0} = {l \in Closes : entry[l] # 0} \cup {k}
        BY <4>2
      <4> QED
        BY <2>0, <2>1, <4>3
    <3>3. {ChannelOf[u] : u \in {u \in Opens : entry'[u] # 0}}
            = {ChannelOf[u] : u \in {u \in Opens : entry[u] # 0}}
      <4>1. {u \in Opens : entry'[u] # 0} = {u \in Opens : entry[u] # 0}
        BY <1>1, <2>3 DEF Handlers
      <4> QED
        BY <4>1
    <3>4. Worth' = [Worth EXCEPT ![ch] = @ - paid[ch]]
      <4>1. \A e \in Channels : k \in RowsOf(e) <=> e = ch
        BY <1>1, <2>0 DEF RowsOf
      <4>2. -amount[k] \in Int
        BY <2>2
      <4>3. \A e \in Channels :
              Worth'[e] = IF e = ch THEN Worth[e] + -amount[k] ELSE Worth[e]
        BY <1>1, <2>1, <2>2, <4>1, <4>2, WorthMoves
      <4>4. Worth[ch] \in Int
        BY <2>2, RowsFinite, SumOfIntegers DEF Worth
      <4>5. Worth[ch] + -amount[k] = Worth[ch] - paid[ch]
        BY <2>2, <4>4
      <4> QED
        BY <2>2, <4>3, <4>5 DEF Worth
    <3>5. [c \in Chats |-> -entry'[c]] = Charged
      BY <1>1, <2>3 DEF Charged, Handlers
    <3>6. {c \in Chats : pc'[c] # "idle"} = {c \in Chats : pc[c] # "idle"}
      BY <2>1
    <3>7. Account!Debit(ch)
      BY <2>1, <2>2, <3>1, <3>2, <3>3, <3>4, <3>5, <3>6 DEF Account!Debit, Worth, Charged
    <3> QED
      BY <2>2, <3>7 DEF Account!Next, Account!ChannelStep
  <2> QED
    BY <2>4, <2>5
<1> QED
  BY <1>2, <1>3, <1>4, <1>5 DEF CloseStep

(* A chat is admitted under the audit, and later charged.                  *)
LEMMA ChatImplements ==
  ASSUME CreditInv, NEW c \in Chats, ChatStep(c)
  PROVE  [Account!Next]_Account!vars
<1>1. c \notin Opens /\ c \notin Closes /\ c \in Handlers
  BY CreditAssumption DEF Handlers
<1>2. CASE Admit(c)
  <2>1. /\ pc[c] = "idle" /\ (c \in KnownPaid => Balance > 0)
        /\ pc' = [pc EXCEPT ![c] = "serving"]
        /\ UNCHANGED <<entry, escrow, paid, target>>
    BY <1>2 DEF Admit, Goto, chainVars
  <2>2. {d \in Chats : pc'[d] # "idle"} = {d \in Chats : pc[d] # "idle"} \cup {c}
    BY <1>1, <2>1 DEF CreditInv, TypeOK, Handlers
  <2>3. Worth' = Worth
    BY <2>1, WorthStays
  <2>4. c \in KnownPaid => Account!Audit > 0
    BY <2>1, AuditIsBalance
  <2>5. Account!Admit(c)
    BY <2>1, <2>2, <2>3, <2>4 DEF Account!Admit, Worth
  <2> QED
    BY <2>5 DEF Account!Next, Account!ChatStep
<1>3. CASE Serve(c) \/ ServeFails(c)
  <2>1. /\ UNCHANGED <<entry, escrow, paid, target>>
        /\ \A d \in Chats : pc'[d] = "idle" <=> pc[d] = "idle"
    BY <1>1, <1>3 DEF Serve, ServeFails, Goto, chainVars, CreditInv, TypeOK, Handlers
  <2> QED
    BY <2>1, AccountStays
<1>4. CASE Debit(c)
  <2>0. PICK usd : usd = amount[c]
    OBVIOUS
  <2>1. /\ entry' = [entry EXCEPT ![c] = -amount[c]]
        /\ UNCHANGED <<escrow, paid, target>>
        /\ pc[c] = "debiting"
        /\ \A d \in Chats : pc'[d] = "idle" <=> pc[d] = "idle"
    BY <1>1, <1>4 DEF Debit, Answered, Goto, Accrue, chainVars, CreditInv, TypeOK, Handlers
  <2>2. entry[c] = 0 /\ amount[c] \in Costs /\ amount[c] \in Nat
    BY <1>1, <2>1 DEF CreditInv, ChatInv, TypeOK
  <2>3. /\ entry \in [Handlers -> Int] /\ entry'[c] = -amount[c]
        /\ \A h \in Handlers \ {c} : entry'[h] = entry[h]
    BY <1>1, <2>1 DEF CreditInv, TypeOK
  <2>4. /\ {u \in Opens : entry'[u] # 0} = {u \in Opens : entry[u] # 0}
        /\ {l \in Closes : entry'[l] # 0} = {l \in Closes : entry[l] # 0}
    BY <1>1, <2>3 DEF Handlers
  <2>5. Worth' = Worth
    <3>1. \A e \in Channels : c \notin RowsOf(e)
      BY <1>1 DEF RowsOf
    <3>2. -amount[c] \in Int
      BY <2>2
    <3>3. \A e \in Channels : Worth'[e] = Worth[e]
      BY <1>1, <2>1, <2>2, <3>1, <3>2, WorthMoves
    <3> QED
      BY <3>3 DEF Worth
  <2>6. Charged' = [Charged EXCEPT ![c] = amount[c]]
    <3>1. -(-amount[c]) = amount[c]
      BY <2>2
    <3>2. \A d \in Chats : -entry'[d] = IF d = c THEN amount[c] ELSE -entry[d]
      <4>1. -entry'[c] = amount[c]
        BY <2>3, <3>1
      <4>2. \A d \in Chats : d # c => entry'[d] = entry[d]
        BY <2>3 DEF Handlers
      <4> QED
        BY <4>1, <4>2
    <3> QED
      BY <3>2 DEF Charged
  <2>7. Charged[c] = 0
    BY <2>2 DEF Charged
  <2>8. {d \in Chats : pc'[d] # "idle"} = {d \in Chats : pc[d] # "idle"}
        /\ c \in {d \in Chats : pc[d] # "idle"}
    BY <2>1
  <2>9. Account!Charge(c, usd)
    <3>1. /\ {ChannelOf[u] : u \in {u \in Opens : entry'[u] # 0}}
               = {ChannelOf[u] : u \in {u \in Opens : entry[u] # 0}}
          /\ {target'[l] : l \in {l \in Closes : entry'[l] # 0}}
               = {target[l] : l \in {l \in Closes : entry[l] # 0}}
      BY <2>1, <2>4
    <3> QED
      BY <2>0, <2>1, <2>5, <2>6, <2>7, <2>8, <3>1 DEF Account!Charge, Worth, Charged
  <2> QED
    BY <2>0, <2>2, <2>9 DEF Account!Next, Account!ChatStep
<1> QED
  BY <1>2, <1>3, <1>4 DEF ChatStep

(* A fault moves no money.                                                 *)
LEMMA FaultImplements ==
  ASSUME CreditInv, (\E h \in Handlers : Throws(h)) \/ Restart \/ UNCHANGED vars
  PROVE  UNCHANGED Account!vars
<1>1. /\ UNCHANGED <<entry, escrow, paid, target>>
      /\ \A c \in Chats : pc'[c] = "idle" <=> pc[c] = "idle"
  BY DEF Throws, Restart, Goto, chainVars, vars, CreditInv, TypeOK, Handlers, Awaiting, Resumed
<1> QED
  BY <1>1, AccountStays

(* The account starts empty.                                               *)
LEMMA AccountStarts == Init => Account!Init
<1> SUFFICES ASSUME Init PROVE Account!Init
  OBVIOUS
<1>1. CreditInv /\ \A h \in Handlers : entry[h] = 0 /\ pc[h] = "idle"
  BY InitInv DEF Init
<1>2. \A ch \in Channels : SumFunctionOnSet(entry, RowsOf(ch)) = 0
  <2> SUFFICES ASSUME NEW ch \in Channels PROVE SumFunctionOnSet(entry, RowsOf(ch)) = 0
    OBVIOUS
  <2>1. IsFiniteSet(RowsOf(ch)) /\ \A h \in RowsOf(ch) : entry[h] = 0
    BY <1>1, RowsFinite DEF Handlers
  <2> QED
    BY <2>1, SumOfZeros
<1>3. \A c \in Chats : -entry[c] = 0
  BY <1>1 DEF Handlers
<1> QED
  BY <1>1, <1>2, <1>3 DEF Init, Account!Init, Handlers

(* The handlers, their lost replies and the restarts implement the prepaid *)
(* account, for any number of top-ups, closes, chats and channels: a       *)
(* channel is credited once and debited once, for what the chain has of    *)
(* it, and a chat is admitted under an audit of every channel and chat.    *)
THEOREM ImplementsAccount == Spec => AccountSpec
<1>1. CreditInv /\ [Next]_vars => [Account!Next]_Account!vars
  BY TopupImplements, CloseImplements, ChatImplements, FaultImplements DEF Next
<1> QED
  BY <1>1, AccountStarts, CreditInductive, PTL DEF Spec, AccountSpec, Account!Spec

-----------------------------------------------------------------------------
(* The spend gates.                                                        *)


(* What a meter shows, with one dearest request for each client in flight, *)
(* stays within the ceiling and one dearest request for each client.       *)
Within(meter, flying, clients, ceiling) ==
  meter + Cardinality(flying) * MaxCost <= ceiling - 1 + Cardinality(clients) * MaxCost

(* Admitted by the breaker, and not yet recorded by it.                    *)
InFlight(l) ==
  \/ spendPc[l] = "debiting"
  \/ route[l] = "chat" /\ spendPc[l] = "serving"

LanesAt(i) == {l \in Lanes : LaneHome[l] = i}

KeyWithin(i, k) ==
  Within(spentByKey[i][k], {l \in LanesOf(i, k) : InFlight(l)}, LanesOf(i, k), KeyCeiling)

BucketWithin(i) ==
  bucket[i] # NoBucket =>
    Within(bucket[i].amount, {l \in LanesAt(i) : InFlight(l)}, LanesAt(i), ProjectCeiling)

SpendInv ==
  /\ SpendTypeOK
  /\ \A l \in Lanes : owed[l] <= MaxCost
  /\ \A i \in SpendInstances : BucketWithin(i) /\ \A k \in SpendKeys : KeyWithin(i, k)

-----------------------------------------------------------------------------
(* How the bound moves.                                                    *)

LEMMA LanesFinite ==
  ASSUME NEW S \in SUBSET Lanes
  PROVE  IsFiniteSet(S) /\ Cardinality(S) \in Nat
BY SpendAssumption, FS_Subset, FS_CardinalityType

(* A client is let in only while the meter is below the ceiling.           *)
LEMMA EnterWithin ==
  ASSUME NEW S \in SUBSET Lanes, NEW F \in SUBSET S, NEW c \in Nat, NEW x \in Nat, x < c
  PROVE  Within(x, F, S, c)
<1>1. Cardinality(F) \in Nat /\ Cardinality(S) \in Nat /\ Cardinality(F) <= Cardinality(S)
  BY LanesFinite, FS_Subset
<1> DEFINE f == Cardinality(F)
           s == Cardinality(S)
<1>2. f \in Nat /\ s \in Nat /\ f <= s /\ MaxCost \in Nat
  BY <1>1, SpendAssumption
<1>3. x + f * MaxCost <= c - 1 + s * MaxCost
  <2> HIDE DEF f, s
  <2>1. s * MaxCost = f * MaxCost + (s - f) * MaxCost /\ (s - f) * MaxCost >= 0
    BY <1>2
  <2>2. f * MaxCost \in Int /\ s * MaxCost \in Int /\ (s - f) * MaxCost \in Int
    BY <1>2
  <2> QED
    BY <2>1, <2>2
<1> QED
  BY <1>3 DEF Within

(* A client in flight is done and its cost, or nothing, is recorded.       *)
LEMMA LeaveWithin ==
  ASSUME NEW S \in SUBSET Lanes, NEW F \in SUBSET S, NEW l \in F, NEW c \in Nat, NEW x \in Nat,
         NEW cost \in 0 .. MaxCost, Within(x, F, S, c)
  PROVE  Within(x + cost, F \ {l}, S, c)
<1>1. /\ IsFiniteSet(F) /\ Cardinality(F) \in Nat /\ Cardinality(S) \in Nat
      /\ Cardinality(F \ {l}) = Cardinality(F) - 1
  BY LanesFinite, FS_RemoveElement
<1> DEFINE f == Cardinality(F)
           s == Cardinality(S)
<1>2. f \in Nat /\ s \in Nat /\ MaxCost \in Nat
  BY <1>1, SpendAssumption
<1>3. x + f * MaxCost <= c - 1 + s * MaxCost
  BY DEF Within
<1>4. (x + cost) + (f - 1) * MaxCost <= c - 1 + s * MaxCost
  <2> HIDE DEF f, s
  <2>1. (f - 1) * MaxCost + MaxCost = f * MaxCost
    BY <1>2
  <2>2. f * MaxCost \in Int /\ s * MaxCost \in Int /\ (f - 1) * MaxCost \in Int
    BY <1>2
  <2>3. cost \in Nat /\ cost <= MaxCost
    BY <1>2
  <2> QED
    BY <1>2, <1>3, <2>1, <2>2, <2>3
<1> QED
  BY <1>1, <1>4 DEF Within

LEMMA FewerWithin ==
  ASSUME NEW S \in SUBSET Lanes, NEW F \in SUBSET S, NEW G \in SUBSET F, NEW c \in Nat,
         NEW x \in Nat, Within(x, F, S, c)
  PROVE  Within(x, G, S, c)
<1>1. /\ Cardinality(F) \in Nat /\ Cardinality(S) \in Nat /\ Cardinality(G) \in Nat
      /\ Cardinality(G) <= Cardinality(F)
  BY LanesFinite, FS_Subset
<1> DEFINE f == Cardinality(F)
           s == Cardinality(S)
           g == Cardinality(G)
<1>2. f \in Nat /\ s \in Nat /\ g \in Nat /\ g <= f /\ MaxCost \in Nat
  BY <1>1, SpendAssumption
<1>3. x + f * MaxCost <= c - 1 + s * MaxCost
  BY DEF Within
<1>4. x + g * MaxCost <= c - 1 + s * MaxCost
  <2> HIDE DEF f, s, g
  <2>1. f * MaxCost = g * MaxCost + (f - g) * MaxCost /\ (f - g) * MaxCost >= 0
    BY <1>2
  <2>2. f * MaxCost \in Int /\ s * MaxCost \in Int /\ g * MaxCost \in Int
        /\ (f - g) * MaxCost \in Int
    BY <1>2
  <2> QED
    BY <1>3, <2>1, <2>2
<1> QED
  BY <1>4 DEF Within

(* A window starts with the cost of a client that was in flight.           *)
LEMMA StartWithin ==
  ASSUME NEW S \in SUBSET Lanes, NEW F \in SUBSET S, NEW l \in F, NEW c \in Nat \ {0},
         NEW cost \in 0 .. MaxCost
  PROVE  Within(cost, F \ {l}, S, c)
<1>1. Within(0, F, S, c)
  BY EnterWithin
<1>2. Within(0 + cost, F \ {l}, S, c)
  BY <1>1, LeaveWithin
<1>3. 0 + cost = cost
  BY SpendAssumption
<1> QED
  BY <1>2, <1>3

-----------------------------------------------------------------------------
(* Types.                                                                  *)

LEMMA RecordTyped ==
  ASSUME SpendTypeOK, NEW l \in Lanes, NEW cost \in Nat, Record(l, cost)
  PROVE  /\ spentByKey' \in [SpendInstances -> [SpendKeys -> Nat]]
         /\ bucket' \in [SpendInstances -> Buckets \cup {NoBucket}]
         /\ spentByKey' = [spentByKey EXCEPT ![LaneHome[l]] =
                        [spentByKey[LaneHome[l]] EXCEPT ![LaneKey[l]] = @ + cost]]
         /\ bucket' = [bucket EXCEPT ![LaneHome[l]] = Topped(bucket[LaneHome[l]], cost)]
<1> DEFINE i == LaneHome[l]
           k == LaneKey[l]
<1>1. i \in SpendInstances /\ k \in SpendKeys
  BY SpendAssumption
<1>2. spentByKey[i] \in [SpendKeys -> Nat] /\ bucket[i] \in Buckets \cup {NoBucket}
      /\ spentByKey \in [SpendInstances -> [SpendKeys -> Nat]]
      /\ bucket \in [SpendInstances -> Buckets \cup {NoBucket}]
  BY <1>1 DEF SpendTypeOK
<1>3. spentByKey' = [spentByKey EXCEPT ![i] = [spentByKey[i] EXCEPT ![k] = @ + cost]]
  BY DEF Record
<1>4. bucket' = [bucket EXCEPT ![i] = Topped(bucket[i], cost)]
  BY DEF Record
<1>5. Topped(bucket[i], cost) \in Buckets \cup {NoBucket}
  BY <1>2 DEF Topped, Buckets, SpendTypeOK
<1> HIDE DEF i, k
<1>6. [spentByKey[i] EXCEPT ![k] = @ + cost] \in [SpendKeys -> Nat]
  BY <1>1, <1>2
<1>7. spentByKey' \in [SpendInstances -> [SpendKeys -> Nat]]
  BY <1>1, <1>2, <1>3, <1>6
<1>8. bucket' \in [SpendInstances -> Buckets \cup {NoBucket}]
  BY <1>1, <1>2, <1>4, <1>5
<1> QED
  BY <1>3, <1>4, <1>7, <1>8 DEF i, k

LEMMA GatesTyped ==
  ASSUME SpendTypeOK, NEW l \in Lanes, spendPc[l] \in {"capping", "gating"}, Gates(l),
         spendFault' \in BOOLEAN
  PROVE  SpendTypeOK'
<1>1. bucket' \in [SpendInstances -> Buckets \cup {NoBucket}]
  BY SpendAssumption DEF Gates, SpendTypeOK, Fresh
<1>2. spendPc' \in [Lanes -> {"idle", "capping", "gating", "serving", "debiting"}]
  BY DEF Gates, SpendTypeOK
<1>3. 0 \in Days
  <2>1. Day(0) = 0 /\ 0 \in 0 .. MaxClock
    BY SpendAssumption DEF Day
  <2> QED
    BY <2>1 DEF Days
<1>4. asked' \in [Lanes -> Days] /\ rowSaid' \in [Lanes -> Nat]
  BY <1>3 DEF Gates, SpendTypeOK
<1> QED
  BY <1>1, <1>2, <1>4 DEF Gates, SpendTypeOK

LEMMA AddTyped ==
  ASSUME SpendTypeOK, NEW cost, NEW billed, SendAdd(cost, billed)
  PROVE  adds' \in [Days \X (RequestCosts \ {0}) -> Nat]
<1> DEFINE D == Days \X (RequestCosts \ {0})
           x == <<Day(clock), cost>>
<1>1. adds \in [D -> Nat]
  BY DEF SpendTypeOK
<1>2. adds' = [adds EXCEPT ![x] = adds[x] + 1] \/ adds' = adds
  BY DEF SendAdd
<1> HIDE DEF D, x
<1>3. adds' \in [D -> Nat]
  BY <1>1, <1>2
<1> QED
  BY <1>3 DEF D

LEMMA TypeStep ==
  ASSUME SpendTypeOK, SpendNext
  PROVE  SpendTypeOK'
<1>0. 0 \in Days /\ \A t \in 0 .. MaxClock : Day(t) \in Days
  <2>1. Day(0) = 0 /\ 0 \in 0 .. MaxClock
    BY SpendAssumption DEF Day
  <2> QED
    BY <2>1 DEF Days
<1>1. ASSUME NEW l \in Lanes, Arrive(l) PROVE SpendTypeOK'
  <2>1. route' \in [Lanes -> {"chat", "messages"}]
    BY <1>1 DEF Arrive, SpendTypeOK
  <2>2. asked' \in [Lanes -> Days]
    BY <1>0, <1>1 DEF Arrive, SpendTypeOK
  <2> QED
    BY <1>1, <2>1, <2>2, SpendAssumption DEF Arrive, SpendTypeOK, Step, meterVars
<1>2. ASSUME NEW l \in Lanes, RowAnswers(l) PROVE SpendTypeOK'
  BY <1>0, <1>2 DEF RowAnswers, SpendTypeOK, Step, meterVars
<1>3. ASSUME NEW l \in Lanes, OverCap(l) PROVE SpendTypeOK'
  BY <1>3 DEF OverCap, SpendTypeOK, Step, meterVars
<1>4. ASSUME NEW l \in Lanes, UnderCap(l) \/ RowFails(l) PROVE SpendTypeOK'
  BY <1>4, GatesTyped DEF UnderCap, RowFails, SpendTypeOK
<1>5. ASSUME NEW l \in Lanes, RequestFails(l) PROVE SpendTypeOK'
  BY <1>5 DEF RequestFails, SpendTypeOK, Step, meterVars
<1>6. ASSUME NEW l \in Lanes, Debited(l) PROVE SpendTypeOK'
  <2>1. LaneKey[l] \in SpendKeys /\ owed[l] \in Nat
    BY SpendAssumption DEF SpendTypeOK
  <2>2. spentByKey' \in [SpendInstances -> [SpendKeys -> Nat]]
        /\ bucket' \in [SpendInstances -> Buckets \cup {NoBucket}]
    BY <1>6, <2>1, RecordTyped DEF Debited
  <2> QED
    BY <1>6, <2>1, <2>2 DEF Debited, SpendTypeOK, Step
<1>7. ASSUME NEW l \in Lanes, DebitFails(l) PROVE SpendTypeOK'
  <2>1. LaneKey[l] \in SpendKeys /\ owed[l] \in Nat
    BY SpendAssumption DEF SpendTypeOK
  <2> QED
    BY <1>7, <2>1 DEF DebitFails, SpendTypeOK, Step
<1>8. ASSUME NEW l \in Lanes, NEW cost \in RequestCosts, NEW billed \in BOOLEAN,
             ChatDone(l, cost, billed)
      PROVE SpendTypeOK'
  <2>1. cost \in Nat
    BY SpendAssumption
  <2>2. adds' \in [Days \X (RequestCosts \ {0}) -> Nat]
    BY <1>8, AddTyped DEF ChatDone
  <2>3. spentByKey' \in [SpendInstances -> [SpendKeys -> Nat]]
        /\ bucket' \in [SpendInstances -> Buckets \cup {NoBucket}]
    BY <1>8, <2>1, RecordTyped DEF ChatDone, SpendTypeOK
  <2>4. spendPc' \in [Lanes -> {"idle", "capping", "gating", "serving", "debiting"}]
        /\ owed' \in [Lanes -> Nat]
    BY <1>8, <2>1, ZenonT(60) DEF ChatDone, SpendTypeOK, Step
  <2> QED
    BY <1>8, <2>2, <2>3, <2>4 DEF ChatDone, SpendTypeOK
<1>9. ASSUME NEW l \in Lanes, NEW cost \in RequestCosts, NEW billed \in BOOLEAN,
             MessagesDone(l, cost, billed)
      PROVE SpendTypeOK'
  <2>1. cost \in Nat
    BY SpendAssumption
  <2>2. adds' \in [Days \X (RequestCosts \ {0}) -> Nat]
    BY <1>9, AddTyped DEF MessagesDone
  <2> QED
    BY <1>9, <2>1, <2>2 DEF MessagesDone, SpendTypeOK, Step
<1>10. ASSUME NEW a \in DOMAIN adds, AddLands(a) \/ AddFails(a) PROVE SpendTypeOK'
  <2>1. a[1] \in Days /\ a[2] \in Nat /\ adds[a] \in Nat
    <3>1. a \in Days \X (RequestCosts \ {0}) /\ adds \in [Days \X (RequestCosts \ {0}) -> Nat]
      BY DEF SpendTypeOK
    <3>2. PICK d \in Days, c \in RequestCosts \ {0} : a = <<d, c>>
      BY <3>1
    <3>3. c \in Nat /\ adds[a] \in Nat
      BY <3>1, SpendAssumption
    <3> QED
      BY <3>2, <3>3
  <2>2. adds' \in [Days \X (RequestCosts \ {0}) -> Nat]
    <3>1. adds[a] - 1 \in Nat
      BY <1>10, <2>1 DEF AddLands, AddFails
    <3>2. adds' = [adds EXCEPT ![a] = adds[a] - 1]
      BY <1>10 DEF AddLands, AddFails
    <3> QED
      BY <3>1, <3>2 DEF SpendTypeOK
  <2>3. dayRow' \in [Days -> Nat]
    BY <1>10, <2>1 DEF AddLands, AddFails, SpendTypeOK
  <2> QED
    BY <1>10, <2>2, <2>3 DEF AddLands, AddFails, SpendTypeOK, laneVars
<1>11. ASSUME Tick PROVE SpendTypeOK'
  BY <1>11, SpendAssumption DEF Tick, SpendTypeOK, laneVars, meterVars
<1>12. ASSUME NEW i \in SpendInstances, SpendColdStart(i) PROVE SpendTypeOK'
  BY <1>12 DEF SpendColdStart, SpendTypeOK
<1> QED
  BY <1>1, <1>2, <1>3, <1>4, <1>5, <1>6, <1>7, <1>8, <1>9, <1>10, <1>11, <1>12 DEF SpendNext

-----------------------------------------------------------------------------
(* Steps.                                                                  *)

(* No meter moves, and no client comes in.                                 *)
LEMMA QuietStep ==
  ASSUME SpendInv, SpendTypeOK', UNCHANGED <<spentByKey, bucket>>,
         \A l \in Lanes : owed'[l] <= MaxCost /\ (InFlight(l)' => InFlight(l))
  PROVE  SpendInv'
<1>1. ASSUME NEW i \in SpendInstances, NEW k \in SpendKeys PROVE KeyWithin(i, k)'
  <2> DEFINE S == LanesOf(i, k)
             F == {l \in S : InFlight(l)}
             G == {l \in S : InFlight(l)'}
  <2>1. S \in SUBSET Lanes /\ F \in SUBSET S /\ G \in SUBSET F
    BY DEF LanesOf
  <2>2. Within(spentByKey[i][k], F, S, KeyCeiling)
    BY DEF SpendInv, KeyWithin
  <2>3. spentByKey[i][k] \in Nat /\ KeyCeiling \in Nat
    BY SpendAssumption DEF SpendInv, SpendTypeOK
  <2> HIDE DEF S, F, G
  <2>4. Within(spentByKey[i][k], G, S, KeyCeiling)
    BY <2>1, <2>2, <2>3, FewerWithin
  <2> QED
    BY <2>4 DEF KeyWithin, S, G, LanesOf, Within
<1>2. ASSUME NEW i \in SpendInstances PROVE BucketWithin(i)'
  <2> SUFFICES ASSUME bucket[i] # NoBucket
               PROVE  Within(bucket[i].amount, {l \in LanesAt(i) : InFlight(l)'}, LanesAt(i),
                             ProjectCeiling)
    BY DEF BucketWithin, LanesAt, Within
  <2> DEFINE S == LanesAt(i)
             F == {l \in S : InFlight(l)}
             G == {l \in S : InFlight(l)'}
             x == bucket[i].amount
  <2>1. S \in SUBSET Lanes /\ F \in SUBSET S /\ G \in SUBSET F
    BY DEF LanesAt
  <2>2. Within(x, F, S, ProjectCeiling)
    BY DEF SpendInv, BucketWithin
  <2>3. x \in Nat /\ ProjectCeiling \in Nat
    <3>1. bucket[i] \in Buckets
      BY DEF SpendInv, SpendTypeOK
    <3> QED
      BY <3>1, SpendAssumption DEF Buckets
  <2> HIDE DEF S, F, G, x
  <2>4. Within(x, G, S, ProjectCeiling)
    BY <2>1, <2>2, <2>3, FewerWithin
  <2> QED
    BY <2>4 DEF S, G, x
<1> QED
  BY <1>1, <1>2 DEF SpendInv

(* A chat is done and its cost is recorded.                                *)
LEMMA RecordStep ==
  ASSUME SpendInv, SpendTypeOK', NEW l \in Lanes, NEW cost \in 0 .. MaxCost,
         Record(l, cost), UNCHANGED clock, InFlight(l), ~InFlight(l)',
         \A q \in Lanes : owed'[q] <= MaxCost /\ (InFlight(q)' => InFlight(q))
  PROVE  SpendInv'
<1>0. SpendTypeOK
  BY DEF SpendInv
<1>1. cost \in Nat
  BY SpendAssumption
<1>2. /\ spentByKey' = [spentByKey EXCEPT ![LaneHome[l]] =
                     [spentByKey[LaneHome[l]] EXCEPT ![LaneKey[l]] = @ + cost]]
      /\ bucket' = [bucket EXCEPT ![LaneHome[l]] = Topped(bucket[LaneHome[l]], cost)]
  BY <1>0, <1>1, RecordTyped
<1>3. ASSUME NEW i \in SpendInstances, NEW k \in SpendKeys PROVE KeyWithin(i, k)'
  <2> DEFINE S == LanesOf(i, k)
             F == {q \in S : InFlight(q)}
             G == {q \in S : InFlight(q)'}
             x == spentByKey[i][k]
             y == spentByKey'[i][k]
  <2>1. S \in SUBSET Lanes /\ F \in SUBSET S /\ G \in SUBSET F /\ G \in SUBSET (F \ {l})
    BY DEF LanesOf
  <2>2. Within(x, F, S, KeyCeiling)
    BY DEF SpendInv, KeyWithin
  <2>3. x \in Nat /\ KeyCeiling \in Nat
    BY <1>0, SpendAssumption DEF SpendTypeOK
  <2>4. /\ spentByKey[i] \in [SpendKeys -> Nat]
        /\ spentByKey \in [SpendInstances -> [SpendKeys -> Nat]]
    BY <1>0 DEF SpendTypeOK
  <2>5. CASE LaneHome[l] = i /\ LaneKey[l] = k
    <3>1. y = x + cost
      BY <1>2, <2>4, <2>5
    <3>2. l \in F
      BY <2>5 DEF LanesOf
    <3> HIDE DEF S, F, G, x, y
    <3>3. Within(x + cost, F \ {l}, S, KeyCeiling)
      BY <2>1, <2>2, <2>3, <3>2, LeaveWithin
    <3>4. F \ {l} \in SUBSET S /\ x + cost \in Nat
      BY <1>1, <2>1, <2>3
    <3> QED
      BY <2>1, <2>3, <3>1, <3>3, <3>4, FewerWithin DEF KeyWithin, S, G, y, LanesOf, Within
  <2>6. CASE ~(LaneHome[l] = i /\ LaneKey[l] = k)
    <3>1. y = x
      BY <1>2, <2>4, <2>6
    <3> HIDE DEF S, F, G, x, y
    <3>2. Within(y, G, S, KeyCeiling)
      BY <2>1, <2>2, <2>3, <3>1, FewerWithin
    <3> QED
      BY <3>2 DEF KeyWithin, S, G, y, LanesOf, Within
  <2> QED
    BY <2>5, <2>6
<1>4. ASSUME NEW i \in SpendInstances PROVE BucketWithin(i)'
  <2> SUFFICES ASSUME bucket'[i] # NoBucket
               PROVE  Within(bucket'[i].amount, {q \in LanesAt(i) : InFlight(q)'}, LanesAt(i),
                             ProjectCeiling)
    BY DEF BucketWithin, LanesAt, Within
  <2> DEFINE S == LanesAt(i)
             F == {q \in S : InFlight(q)}
             G == {q \in S : InFlight(q)'}
             x == bucket[i].amount
             y == bucket'[i].amount
  <2>1. S \in SUBSET Lanes /\ F \in SUBSET S /\ G \in SUBSET F /\ G \in SUBSET (F \ {l})
    BY DEF LanesAt
  <2>2. bucket[i] # NoBucket => bucket[i] \in Buckets
    BY <1>0 DEF SpendTypeOK
  <2>3. bucket[i] # NoBucket => Within(x, F, S, ProjectCeiling) /\ x \in Nat
    BY <2>2 DEF SpendInv, BucketWithin, Buckets
  <2>4. ProjectCeiling \in Nat \ {0} /\ ProjectCeiling \in Nat
    BY SpendAssumption
  <2>5. bucket \in [SpendInstances -> Buckets \cup {NoBucket}]
    BY <1>0 DEF SpendTypeOK
  <2>6. CASE LaneHome[l] = i
    <3>1. l \in F
      BY <2>6 DEF LanesAt
    <3>2. bucket'[i] = Topped(bucket[i], cost)
      BY <1>2, <2>5, <2>6
    <3>3. F \ {l} \in SUBSET S
      BY <2>1
    <3>4. CASE bucket[i] # NoBucket /\ ~Expired(bucket[i])
      <4>1. bucket'[i] = [bucket[i] EXCEPT !.amount = @ + cost]
        BY <3>2, <3>4 DEF Topped
      <4>2. y = x + cost
        BY <2>2, <3>4, <4>1 DEF Buckets
      <4> HIDE DEF S, F, G, x, y
      <4>3. Within(x + cost, F \ {l}, S, ProjectCeiling)
        BY <2>1, <2>3, <2>4, <3>1, <3>4, LeaveWithin
      <4>4. x + cost \in Nat
        BY <1>1, <2>3, <3>4
      <4>5. Within(y, G, S, ProjectCeiling)
        BY <2>1, <2>4, <3>3, <4>2, <4>3, <4>4, FewerWithin
      <4> QED
        BY <4>5 DEF S, G, y
    <3>5. CASE ~(bucket[i] # NoBucket /\ ~Expired(bucket[i]))
      <4>1. y = cost
        BY <3>2, <3>5 DEF Topped
      <4> HIDE DEF S, F, G, x, y
      <4>2. Within(cost, F \ {l}, S, ProjectCeiling)
        BY <2>1, <2>4, <3>1, StartWithin
      <4>3. Within(y, G, S, ProjectCeiling)
        BY <1>1, <2>1, <2>4, <3>3, <4>1, <4>2, FewerWithin
      <4> QED
        BY <4>3 DEF S, G, y
    <3> QED
      BY <3>4, <3>5
  <2>7. CASE LaneHome[l] # i
    <3>1. bucket'[i] = bucket[i]
      BY <1>2, <2>5, <2>7
    <3>2. Within(x, F, S, ProjectCeiling) /\ x \in Nat
      BY <2>3, <3>1
    <3> HIDE DEF S, F, G, x
    <3>3. Within(x, G, S, ProjectCeiling)
      BY <2>1, <2>4, <3>2, FewerWithin
    <3> QED
      BY <3>1, <3>3 DEF S, G, x
  <2> QED
    BY <2>6, <2>7
<1> QED
  BY <1>3, <1>4 DEF SpendInv

(* The gates let a client in, or turn it away.                             *)
LEMMA GatesStep ==
  ASSUME SpendInv, SpendTypeOK', NEW l \in Lanes, spendPc[l] \in {"capping", "gating"}, Gates(l)
  PROVE  SpendInv'
<1>0. SpendTypeOK
  BY DEF SpendInv
<1>1. /\ UNCHANGED <<route, owed, spentByKey, clock>>
      /\ ~InFlight(l)
      /\ \A q \in Lanes \ {l} : InFlight(q)' => InFlight(q)
  BY <1>0 DEF Gates, SpendTypeOK, InFlight
<1>2. InFlight(l)' => /\ ~ProjectDrained(LaneHome[l]) /\ ~KeyBlown(LaneHome[l], LaneKey[l])
                      /\ bucket' = [bucket EXCEPT ![LaneHome[l]] = Fresh(@)]
  BY <1>0, <1>1 DEF Gates, SpendTypeOK, InFlight
<1>3. ASSUME NEW i \in SpendInstances, NEW k \in SpendKeys PROVE KeyWithin(i, k)'
  <2> DEFINE S == LanesOf(i, k)
             F == {q \in S : InFlight(q)}
             G == {q \in S : InFlight(q)'}
             x == spentByKey[i][k]
  <2>1. S \in SUBSET Lanes /\ F \in SUBSET S /\ G \in SUBSET S
    BY DEF LanesOf
  <2>2. Within(x, F, S, KeyCeiling)
    BY DEF SpendInv, KeyWithin
  <2>3. x \in Nat /\ KeyCeiling \in Nat \ {0} /\ KeyCeiling \in Nat
    BY <1>0, SpendAssumption DEF SpendTypeOK
  <2>4. CASE InFlight(l)' /\ LaneHome[l] = i /\ LaneKey[l] = k
    <3>1. x < KeyCeiling
      BY <1>2, <2>3, <2>4 DEF KeyBlown
    <3> HIDE DEF S, F, G, x
    <3>2. Within(x, G, S, KeyCeiling)
      BY <2>1, <2>3, <3>1, EnterWithin
    <3> QED
      BY <1>1, <3>2 DEF KeyWithin, S, G, x, LanesOf, Within
  <2>5. CASE ~(InFlight(l)' /\ LaneHome[l] = i /\ LaneKey[l] = k)
    <3>1. G \in SUBSET F
      BY <1>1, <2>5 DEF LanesOf
    <3> HIDE DEF S, F, G, x
    <3>2. Within(x, G, S, KeyCeiling)
      BY <2>1, <2>2, <2>3, <3>1, FewerWithin
    <3> QED
      BY <1>1, <3>2 DEF KeyWithin, S, G, x, LanesOf, Within
  <2> QED
    BY <2>4, <2>5
<1>4. ASSUME NEW i \in SpendInstances PROVE BucketWithin(i)'
  <2> SUFFICES ASSUME bucket'[i] # NoBucket
               PROVE  Within(bucket'[i].amount, {q \in LanesAt(i) : InFlight(q)'}, LanesAt(i),
                             ProjectCeiling)
    BY DEF BucketWithin, LanesAt, Within
  <2> DEFINE S == LanesAt(i)
             F == {q \in S : InFlight(q)}
             G == {q \in S : InFlight(q)'}
             x == bucket[i].amount
  <2>0. bucket \in [SpendInstances -> Buckets \cup {NoBucket}]
    BY <1>0 DEF SpendTypeOK
  <2>1. S \in SUBSET Lanes /\ F \in SUBSET S /\ G \in SUBSET S
    BY DEF LanesAt
  <2>2. bucket'[i] = bucket[i] /\ bucket[i] # NoBucket
    BY <2>0 DEF Gates, Fresh
  <2>3. Within(x, F, S, ProjectCeiling)
    BY <2>2 DEF SpendInv, BucketWithin
  <2>4. x \in Nat /\ ProjectCeiling \in Nat
    <3>1. bucket[i] \in Buckets
      BY <2>0, <2>2
    <3> QED
      BY <3>1, SpendAssumption DEF Buckets
  <2>5. CASE InFlight(l)' /\ LaneHome[l] = i
    <3>1. bucket'[i] = Fresh(bucket[i])
      BY <1>2, <2>0, <2>5
    <3>2. x < ProjectCeiling
      BY <1>2, <2>2, <2>4, <2>5, <3>1 DEF ProjectDrained
    <3> HIDE DEF S, F, G, x
    <3>3. Within(x, G, S, ProjectCeiling)
      BY <2>1, <2>4, <3>2, EnterWithin
    <3> QED
      BY <2>2, <3>3 DEF S, G, x
  <2>6. CASE ~(InFlight(l)' /\ LaneHome[l] = i)
    <3>1. G \in SUBSET F
      BY <1>1, <2>6 DEF LanesAt
    <3> HIDE DEF S, F, G, x
    <3>2. Within(x, G, S, ProjectCeiling)
      BY <2>1, <2>3, <2>4, <3>1, FewerWithin
    <3> QED
      BY <2>2, <3>2 DEF S, G, x
  <2> QED
    BY <2>5, <2>6
<1> QED
  BY <1>1, <1>3, <1>4 DEF SpendInv

LEMMA ColdStartStep ==
  ASSUME SpendInv, SpendTypeOK', NEW j \in SpendInstances, SpendColdStart(j)
  PROVE  SpendInv'
<1>0. SpendTypeOK
  BY DEF SpendInv
<1>1. \A q \in Lanes : /\ InFlight(q)' => InFlight(q) /\ LaneHome[q] # j
                       /\ owed'[q] <= MaxCost
  BY <1>0, SpendAssumption DEF SpendColdStart, SpendTypeOK, InFlight, SpendInv
<1>2. ASSUME NEW i \in SpendInstances, NEW k \in SpendKeys PROVE KeyWithin(i, k)'
  <2> DEFINE S == LanesOf(i, k)
             F == {q \in S : InFlight(q)}
             G == {q \in S : InFlight(q)'}
             x == spentByKey[i][k]
             y == spentByKey'[i][k]
  <2>1. S \in SUBSET Lanes /\ F \in SUBSET S /\ G \in SUBSET F /\ G \in SUBSET S
    BY <1>1 DEF LanesOf
  <2>2. Within(x, F, S, KeyCeiling)
    BY DEF SpendInv, KeyWithin
  <2>3. x \in Nat /\ KeyCeiling \in Nat \ {0} /\ KeyCeiling \in Nat /\ 0 < KeyCeiling
    BY <1>0, SpendAssumption DEF SpendTypeOK
  <2>4. y = IF i = j THEN 0 ELSE x
    BY <1>0 DEF SpendColdStart, SpendTypeOK
  <2> HIDE DEF S, F, G, x, y
  <2>5. Within(y, G, S, KeyCeiling)
    <3>1. CASE i = j
      BY <2>1, <2>3, <2>4, <3>1, EnterWithin
    <3>2. CASE i # j
      BY <2>1, <2>2, <2>3, <2>4, <3>2, FewerWithin
    <3> QED
      BY <3>1, <3>2
  <2> QED
    BY <2>5 DEF KeyWithin, S, G, y, LanesOf, Within
<1>3. ASSUME NEW i \in SpendInstances PROVE BucketWithin(i)'
  <2> SUFFICES ASSUME bucket'[i] # NoBucket
               PROVE  Within(bucket'[i].amount, {q \in LanesAt(i) : InFlight(q)'}, LanesAt(i),
                             ProjectCeiling)
    BY DEF BucketWithin, LanesAt, Within
  <2> DEFINE S == LanesAt(i)
             F == {q \in S : InFlight(q)}
             G == {q \in S : InFlight(q)'}
             x == bucket[i].amount
  <2>1. S \in SUBSET Lanes /\ F \in SUBSET S /\ G \in SUBSET F
    BY <1>1 DEF LanesAt
  <2>2. bucket'[i] = bucket[i] /\ bucket[i] # NoBucket
    BY <1>0 DEF SpendColdStart, SpendTypeOK
  <2>3. Within(x, F, S, ProjectCeiling)
    BY <2>2 DEF SpendInv, BucketWithin
  <2>4. x \in Nat /\ ProjectCeiling \in Nat
    <3>1. bucket[i] \in Buckets
      BY <1>0, <2>2 DEF SpendTypeOK
    <3> QED
      BY <3>1, SpendAssumption DEF Buckets
  <2> HIDE DEF S, F, G, x
  <2>5. Within(x, G, S, ProjectCeiling)
    BY <2>1, <2>3, <2>4, FewerWithin
  <2> QED
    BY <2>2, <2>5 DEF S, G, x
<1> QED
  BY <1>1, <1>2, <1>3 DEF SpendInv

-----------------------------------------------------------------------------
(* The invariant.                                                          *)

LEMMA InitSpend == SpendInit => SpendInv
<1> SUFFICES ASSUME SpendInit PROVE SpendInv
  OBVIOUS
<1>1. 0 \in Days
  <2>1. Day(0) = 0 /\ 0 \in 0 .. MaxClock
    BY SpendAssumption DEF Day
  <2> QED
    BY <2>1 DEF Days
<1>2. spendFault \in BOOLEAN
  BY Zenon DEF SpendInit
<1>3. SpendTypeOK
  BY <1>1, <1>2, SpendAssumption DEF SpendInit, SpendTypeOK
<1>4. \A q \in Lanes : owed[q] <= MaxCost
  BY SpendAssumption DEF SpendInit
<1>5. ASSUME NEW i \in SpendInstances, NEW k \in SpendKeys PROVE KeyWithin(i, k)
  <2>1. LanesOf(i, k) \in SUBSET Lanes
    BY DEF LanesOf
  <2>2. {q \in LanesOf(i, k) : InFlight(q)} \in SUBSET LanesOf(i, k)
    OBVIOUS
  <2>3. KeyCeiling \in Nat /\ 0 < KeyCeiling /\ 0 \in Nat
    BY SpendAssumption
  <2>4. spentByKey[i][k] = 0
    BY DEF SpendInit
  <2> QED
    BY <2>1, <2>2, <2>3, <2>4, EnterWithin DEF KeyWithin
<1>6. ASSUME NEW i \in SpendInstances PROVE BucketWithin(i)
  BY DEF SpendInit, BucketWithin
<1> QED
  BY <1>3, <1>4, <1>5, <1>6 DEF SpendInv

LEMMA StepSpend == SpendInv /\ [SpendNext]_spendVars => SpendInv'
<1> SUFFICES ASSUME SpendInv, [SpendNext]_spendVars PROVE SpendInv'
  OBVIOUS
<1>0. SpendTypeOK
  BY DEF SpendInv
<1>1. CASE UNCHANGED spendVars
  <2>1. SpendTypeOK'
    BY <1>0, <1>1 DEF spendVars, laneVars, meterVars, SpendTypeOK
  <2> QED
    BY <1>1, <2>1, QuietStep DEF spendVars, laneVars, meterVars, InFlight, SpendInv
<1>2. CASE SpendNext
  <2>0. SpendTypeOK'
    BY <1>0, <1>2, TypeStep
  <2>1. ASSUME NEW l \in Lanes,
               Arrive(l) \/ RowAnswers(l) \/ OverCap(l) \/ RequestFails(l) \/ DebitFails(l)
        PROVE  SpendInv'
    <3>1. UNCHANGED <<spentByKey, bucket>>
      BY <2>1 DEF Arrive, RowAnswers, OverCap, RequestFails, DebitFails, meterVars
    <3>2. \A q \in Lanes : owed'[q] <= MaxCost
      BY <1>0, <2>1, SpendAssumption
         DEF Arrive, RowAnswers, OverCap, RequestFails, DebitFails, SpendInv, SpendTypeOK
    <3>3. CASE Arrive(l)
      <4>1. \A q \in Lanes : InFlight(q)' => InFlight(q)
        BY <1>0, <3>3 DEF Arrive, Step, InFlight, SpendTypeOK
      <4> QED
        BY <2>0, <3>1, <3>2, <4>1, QuietStep
    <3>4. CASE ~Arrive(l)
      <4>1. \A q \in Lanes : InFlight(q)' => InFlight(q)
        BY <1>0, <2>1, <3>4
           DEF RowAnswers, OverCap, RequestFails, DebitFails, Step, InFlight, SpendTypeOK
      <4> QED
        BY <2>0, <3>1, <3>2, <4>1, QuietStep
    <3> QED
      BY <3>3, <3>4
  <2>2. ASSUME NEW l \in Lanes, UnderCap(l) \/ RowFails(l) PROVE SpendInv'
    BY <2>0, <2>2, GatesStep DEF UnderCap, RowFails
  <2>3. ASSUME NEW l \in Lanes, Debited(l) PROVE SpendInv'
    <3>1. owed[l] \in 0 .. MaxCost
      BY <1>0, SpendAssumption DEF SpendInv, SpendTypeOK
    <3>2. Record(l, owed[l]) /\ UNCHANGED clock
      BY <2>3 DEF Debited
    <3>3. \A q \in Lanes : owed'[q] <= MaxCost /\ (InFlight(q)' => InFlight(q))
      BY <1>0, <2>3, SpendAssumption DEF Debited, Step, SpendInv, SpendTypeOK, InFlight
    <3>4. ~InFlight(l)'
      BY <1>0, <2>3 DEF Debited, Step, SpendTypeOK, InFlight
    <3>5. InFlight(l)
      <4>1. spendPc[l] = "debiting"
        BY <2>3 DEF Debited, Step
      <4> QED
        BY <4>1, Zenon DEF InFlight
    <3> QED
      BY <2>0, <3>1, <3>2, <3>3, <3>4, <3>5, RecordStep
  <2>4. ASSUME NEW l \in Lanes, NEW cost \in RequestCosts, NEW billed \in BOOLEAN,
               ChatDone(l, cost, billed)
        PROVE  SpendInv'
    <3>1. cost \in 0 .. MaxCost /\ cost <= MaxCost
      BY SpendAssumption
    <3>2. InFlight(l) /\ UNCHANGED clock
      BY <2>4 DEF ChatDone, Step, InFlight
    <3>3. \A q \in Lanes : owed'[q] <= MaxCost /\ (InFlight(q)' => InFlight(q))
      <4>1. \A q \in Lanes : owed'[q] <= MaxCost
        BY <1>0, <2>4, <3>1 DEF ChatDone, SpendInv, SpendTypeOK
      <4>2. \A q \in Lanes : InFlight(q)' => InFlight(q)
        BY <1>0, <2>4 DEF ChatDone, Step, SpendTypeOK, InFlight
      <4> QED
        BY <4>1, <4>2
    <3>4. CASE UNCHANGED <<spentByKey, bucket>>
      BY <2>0, <3>3, <3>4, QuietStep
    <3>5. CASE Record(l, cost) /\ spendPc'[l] = "idle"
      <4>1. ~InFlight(l)'
        BY <3>5 DEF InFlight
      <4> QED
        BY <2>0, <3>1, <3>2, <3>3, <3>5, <4>1, RecordStep
    <3> QED
      BY <1>0, <2>4, <3>4, <3>5 DEF ChatDone, Step, SpendTypeOK
  <2>5. ASSUME NEW l \in Lanes, NEW cost \in RequestCosts, NEW billed \in BOOLEAN,
               MessagesDone(l, cost, billed)
        PROVE  SpendInv'
    <3>1. \A q \in Lanes : owed'[q] <= MaxCost /\ (InFlight(q)' => InFlight(q))
      BY <1>0, <2>5 DEF MessagesDone, Step, SpendTypeOK, InFlight, SpendInv
    <3> QED
      BY <2>0, <2>5, <3>1, QuietStep DEF MessagesDone
  <2>6. ASSUME (\E a \in DOMAIN adds : AddLands(a) \/ AddFails(a)) \/ Tick PROVE SpendInv'
    <3>1. UNCHANGED <<laneVars, spentByKey, bucket>>
      BY <2>6 DEF AddLands, AddFails, Tick, meterVars
    <3>2. \A q \in Lanes : owed'[q] <= MaxCost /\ (InFlight(q)' => InFlight(q))
      BY <3>1 DEF laneVars, InFlight, SpendInv
    <3> QED
      BY <2>0, <3>1, <3>2, QuietStep
  <2>7. ASSUME NEW i \in SpendInstances, SpendColdStart(i) PROVE SpendInv'
    BY <2>0, <2>7, ColdStartStep
  <2> QED
    BY <1>2, <2>1, <2>2, <2>3, <2>4, <2>5, <2>6, <2>7 DEF SpendNext
<1> QED
  BY <1>1, <1>2

LEMMA SpendInvariant == SpendSpec => []SpendInv
<1>1. SpendInv /\ [SpendNext]_spendVars => SpendInv'
  BY StepSpend
<1> QED
  BY InitSpend, <1>1, PTL DEF SpendSpec

-----------------------------------------------------------------------------
(* Results.                                                                *)

(* Every state of the meters is of the declared types: no meter of spend.ts *)
(* or project-caps.ts goes below zero.                                     *)
THEOREM SpendTypeCorrect == SpendSpec => []SpendTypeOK
<1>1. SpendInv => SpendTypeOK
  BY DEF SpendInv
<1> QED
  BY SpendInvariant, <1>1, PTL

(* The breaker of spend.ts is passed by at most one dearest request of each *)
(* client of the key, and the project bucket by at most one of each client  *)
(* of the process.                                                          *)
THEOREM AlwaysBreakerOvershoot == SpendSpec => []BreakerOvershoot
<1>1. SpendInv => BreakerOvershoot
  <2> SUFFICES ASSUME SpendInv, NEW i \in SpendInstances
      PROVE /\ \A k \in SpendKeys :
                 spentByKey[i][k] <= KeyCeiling - 1 + Cardinality(LanesOf(i, k)) * MaxCost
            /\ bucket[i] # NoBucket =>
                 bucket[i].amount <= ProjectCeiling - 1
                                     + Cardinality({l \in Lanes : LaneHome[l] = i}) * MaxCost
    BY DEF BreakerOvershoot
  <2>1. ASSUME NEW S \in SUBSET Lanes, NEW F \in SUBSET S, NEW c \in Nat, NEW x \in Nat,
               Within(x, F, S, c)
        PROVE  x <= c - 1 + Cardinality(S) * MaxCost
    <3>1. {} \in SUBSET F
      OBVIOUS
    <3>2. Within(x, {}, S, c)
      BY <2>1, <3>1, FewerWithin
    <3>3. Cardinality({}) = 0
      BY FS_EmptySet
    <3>4. x + 0 * MaxCost <= c - 1 + Cardinality(S) * MaxCost
      BY <3>2, <3>3 DEF Within
    <3> QED
      BY <3>4, SpendAssumption
  <2>2. SpendTypeOK
    BY DEF SpendInv
  <2>3. ASSUME NEW k \in SpendKeys
        PROVE  spentByKey[i][k] <= KeyCeiling - 1 + Cardinality(LanesOf(i, k)) * MaxCost
    <3> DEFINE S == LanesOf(i, k)
               F == {l \in S : InFlight(l)}
    <3>1. S \in SUBSET Lanes /\ F \in SUBSET S
      BY DEF LanesOf
    <3>2. spentByKey[i][k] \in Nat /\ KeyCeiling \in Nat
      BY <2>2, SpendAssumption DEF SpendTypeOK
    <3>3. Within(spentByKey[i][k], F, S, KeyCeiling)
      BY DEF SpendInv, KeyWithin
    <3> HIDE DEF S, F
    <3>4. spentByKey[i][k] <= KeyCeiling - 1 + Cardinality(S) * MaxCost
      BY <2>1, <3>1, <3>2, <3>3
    <3> QED
      BY <3>4 DEF S
  <2>4. ASSUME bucket[i] # NoBucket
        PROVE  bucket[i].amount <= ProjectCeiling - 1 + Cardinality(LanesAt(i)) * MaxCost
    <3> DEFINE S == LanesAt(i)
               F == {l \in S : InFlight(l)}
               x == bucket[i].amount
    <3>1. S \in SUBSET Lanes /\ F \in SUBSET S
      BY DEF LanesAt
    <3>2. x \in Nat /\ ProjectCeiling \in Nat
      <4>1. bucket[i] \in Buckets
        BY <2>2, <2>4 DEF SpendTypeOK
      <4> QED
        BY <4>1, SpendAssumption DEF Buckets
    <3>3. Within(x, F, S, ProjectCeiling)
      BY <2>4 DEF SpendInv, BucketWithin
    <3> HIDE DEF S, F, x
    <3>4. x <= ProjectCeiling - 1 + Cardinality(S) * MaxCost
      BY <2>1, <3>1, <3>2, <3>3
    <3> QED
      BY <3>4 DEF S, x
  <2> QED
    BY <2>3, <2>4 DEF LanesAt
<1> QED
  BY SpendInvariant, <1>1, PTL

-----------------------------------------------------------------------------
(* The three meters tell the same story: every cost goes into all of them, *)
(* at its own time, and until then it is under way or owed.                *)

AddsUsd == [a \in DOMAIN adds |-> adds[a] * a[2]]

OfKey(k) == [i \in SpendInstances |-> spentByKey[i][k]]

ByKey == [k \in SpendKeys |-> RecordedOf(k)]

Agree ==
  /\ OnRows + UnderWay = Recorded + SumFunctionOnSet(owed, Lanes) + viaMessages
  /\ \A k \in WalletBound : debited[k] = RecordedOf(k)

(* Only a request whose debit is awaited is owed anything.                 *)
OwedIsAwaited == \A l \in Lanes : spendPc[l] # "debiting" => owed[l] = 0

MeterInv ==
  /\ SpendTypeOK
  /\ OwedIsAwaited
  /\ ~spendFault => Agree

AddRows == Days \X (RequestCosts \ {0})

(* Days, adds, processes, keys and clients are finitely many.              *)
LEMMA MetersFinite ==
  /\ IsFiniteSet(Days) /\ IsFiniteSet(AddRows) /\ IsFiniteSet(Lanes)
  /\ IsFiniteSet(SpendInstances) /\ IsFiniteSet(SpendKeys)
<1>1. IsFiniteSet(0 .. MaxClock) /\ IsFiniteSet(0 .. MaxCost)
  BY SpendAssumption, FS_Interval
<1>2. IsFiniteSet(Days)
  <2> DEFINE dayOf == [t \in 0 .. MaxClock |-> Day(t)]
  <2>1. dayOf \in Surjection(0 .. MaxClock, Days)
    BY DEF Days, Surjection
  <2> QED
    BY <1>1, <2>1, FS_Surjection
<1>3. IsFiniteSet(RequestCosts \ {0})
  BY <1>1, SpendAssumption, FS_Subset
<1>4. IsFiniteSet(AddRows)
  BY <1>2, <1>3, FS_Product DEF AddRows
<1> QED
  BY <1>2, <1>4, SpendAssumption

(* The tables hold numbers.                                                *)
LEMMA MetersTyped ==
  ASSUME SpendTypeOK
  PROVE  /\ DOMAIN adds = AddRows
         /\ \A d \in Days : dayRow[d] \in Int
         /\ \A a \in AddRows : AddsUsd[a] \in Int /\ a[2] \in Int /\ adds[a] \in Int
         /\ \A k \in SpendKeys, i \in SpendInstances : OfKey(k)[i] \in Int
         /\ \A k \in SpendKeys : RecordedOf(k) \in Int /\ ByKey[k] \in Int
         /\ \A l \in Lanes : owed[l] \in Int
         /\ OnRows \in Int /\ UnderWay \in Int /\ Recorded \in Int
         /\ SumFunctionOnSet(owed, Lanes) \in Int
<1>1. DOMAIN adds = AddRows /\ \A d \in Days : dayRow[d] \in Int
  BY DEF SpendTypeOK, AddRows
<1>2. \A a \in AddRows : AddsUsd[a] \in Int /\ a[2] \in Int /\ adds[a] \in Int
  <2> SUFFICES ASSUME NEW a \in AddRows
               PROVE  AddsUsd[a] \in Int /\ a[2] \in Int /\ adds[a] \in Int
    OBVIOUS
  <2>1. a[2] \in RequestCosts /\ adds[a] \in Nat
    BY DEF AddRows, SpendTypeOK
  <2>2. \A usd \in RequestCosts : usd \in Nat
    BY SpendAssumption
  <2> QED
    BY <1>1, <2>1, <2>2 DEF AddsUsd
<1>3. \A k \in SpendKeys, i \in SpendInstances : OfKey(k)[i] \in Int
  BY DEF SpendTypeOK, OfKey
<1>4. \A k \in SpendKeys : RecordedOf(k) \in Int
  <2> SUFFICES ASSUME NEW k \in SpendKeys PROVE RecordedOf(k) \in Int
    OBVIOUS
  <2>1. RecordedOf(k) = SumFunctionOnSet(OfKey(k), SpendInstances)
    BY Zenon DEF RecordedOf, OfKey
  <2> QED
    BY <1>3, <2>1, MetersFinite, SumOfIntegers
<1>5. \A k \in SpendKeys : ByKey[k] \in Int
  BY <1>4 DEF ByKey
<1>6. \A l \in Lanes : owed[l] \in Int
  BY DEF SpendTypeOK
<1>7. OnRows \in Int /\ SumFunctionOnSet(owed, Lanes) \in Int
  BY <1>1, <1>6, MetersFinite, SumOfIntegers DEF OnRows
<1>8. UnderWay \in Int
  <2>1. UnderWay = SumFunctionOnSet(AddsUsd, AddRows)
    BY <1>1 DEF UnderWay, AddsUsd
  <2> QED
    BY <1>2, <2>1, MetersFinite, SumOfIntegers
<1>9. Recorded \in Int
  <2>1. Recorded = SumFunctionOnSet(ByKey, SpendKeys)
    BY Zenon DEF Recorded, ByKey
  <2> QED
    BY <1>5, <2>1, MetersFinite, SumOfIntegers
<1> QED
  BY <1>1, <1>2, <1>3, <1>4, <1>5, <1>6, <1>7, <1>8, <1>9

(* A product grows by one factor when the other grows by one.              *)
LEMMA OneMore ==
  ASSUME NEW n \in Int, NEW usd \in Int
  PROVE  (n + 1) * usd = n * usd + usd /\ (n - 1) * usd = n * usd - usd
OBVIOUS

(* A change of the number of adds of one day and amount.                   *)
LEMMA UnderWayMoves ==
  ASSUME SpendTypeOK, NEW a \in AddRows, NEW n \in Int,
         adds' = [adds EXCEPT ![a] = n], n = adds[a] + 1 \/ n = adds[a] - 1
  PROVE  UnderWay' = IF n = adds[a] + 1 THEN UnderWay + a[2] ELSE UnderWay - a[2]
<1>1. /\ DOMAIN adds = AddRows /\ DOMAIN adds' = AddRows
      /\ adds[a] \in Int /\ a[2] \in Int /\ UnderWay \in Int
      /\ \A b \in AddRows : AddsUsd[b] \in Int /\ b[2] \in Int
  BY MetersTyped
<1>2. \A b \in AddRows \ {a} : AddsUsd'[b] = AddsUsd[b]
  BY <1>1 DEF AddsUsd
<1>3. AddsUsd[a] = adds[a] * a[2] /\ AddsUsd'[a] = n * a[2]
  BY <1>1 DEF AddsUsd
<1>4. AddsUsd'[a] = IF n = adds[a] + 1 THEN AddsUsd[a] + a[2] ELSE AddsUsd[a] - a[2]
  <2> DEFINE x == adds[a]
             usd == a[2]
  <2>1. x \in Int /\ usd \in Int /\ (n = x + 1 \/ n = x - 1)
    BY <1>1
  <2> HIDE DEF x, usd
  <2>2. n * usd = IF n = x + 1 THEN x * usd + usd ELSE x * usd - usd
    BY <2>1, OneMore
  <2> QED
    BY <1>3, <2>2 DEF x, usd
<1>5. \A b \in AddRows : AddsUsd'[b] \in Int
  BY <1>1, <1>2, <1>4
<1>6. SumFunctionOnSet(AddsUsd', AddRows)
        = SumFunctionOnSet(AddsUsd, AddRows) - AddsUsd[a] + AddsUsd'[a]
  BY <1>1, <1>2, <1>5, MetersFinite, SumChanged
<1>7. /\ UnderWay = SumFunctionOnSet(AddsUsd, AddRows)
      /\ UnderWay' = SumFunctionOnSet(AddsUsd', AddRows)
  BY <1>1 DEF UnderWay, AddsUsd
<1>8. AddsUsd[a] \in Int /\ AddsUsd'[a] \in Int
  BY <1>1, <1>5
<1> QED
  BY <1>1, <1>4, <1>6, <1>7, <1>8

(* An add that is sent is under way.                                       *)
LEMMA SendMoves ==
  ASSUME SpendTypeOK, NEW cost \in RequestCosts, NEW billed \in BOOLEAN,
         SendAdd(cost, billed)
  PROVE  UnderWay' = IF billed THEN UnderWay + cost ELSE UnderWay
<1>1. cost \in Nat /\ UnderWay \in Int /\ clock \in 0 .. MaxClock
  BY SpendAssumption, MetersTyped DEF SpendTypeOK
<1>2. CASE billed /\ cost > 0
  <2> DEFINE a == <<Day(clock), cost>>
  <2>1. a \in AddRows /\ a[2] = cost
    BY <1>1, <1>2 DEF AddRows, Days
  <2>2. adds[a] \in Int
    BY <2>1, MetersTyped
  <2>3. adds' = [adds EXCEPT ![a] = adds[a] + 1]
    BY <1>2 DEF SendAdd
  <2>4. adds[a] + 1 \in Int
    BY <2>2
  <2> HIDE DEF a
  <2>5. UnderWay' = UnderWay + a[2]
    BY <2>1, <2>3, <2>4, UnderWayMoves
  <2> QED
    BY <1>2, <2>1, <2>5
<1>3. CASE ~(billed /\ cost > 0)
  <2>1. UnderWay' = UnderWay
    BY <1>3 DEF SendAdd, UnderWay
  <2> QED
    BY <1>1, <1>3, <2>1
<1> QED
  BY <1>2, <1>3

(* The breaker of one process records a cost of one key.                   *)
LEMMA RecordMoves ==
  ASSUME SpendTypeOK, SpendTypeOK', NEW l \in Lanes, NEW cost \in Nat, Record(l, cost)
  PROVE  /\ Recorded' = Recorded + cost
         /\ \A k \in SpendKeys :
              RecordedOf(k)' = IF k = LaneKey[l] THEN RecordedOf(k) + cost ELSE RecordedOf(k)
<1> DEFINE i == LaneHome[l]
           key == LaneKey[l]
<1>1. i \in SpendInstances /\ key \in SpendKeys
  BY SpendAssumption
<1>2. spentByKey' = [spentByKey EXCEPT ![i] = [spentByKey[i] EXCEPT ![key] = @ + cost]]
  BY RecordTyped
<1>3. /\ spentByKey \in [SpendInstances -> [SpendKeys -> Nat]]
      /\ spentByKey' \in [SpendInstances -> [SpendKeys -> Nat]]
  BY DEF SpendTypeOK
<1> HIDE DEF i, key
<1>4. ASSUME NEW k \in SpendKeys
      PROVE  RecordedOf(k)' = IF k = key THEN RecordedOf(k) + cost ELSE RecordedOf(k)
  <2>1. /\ RecordedOf(k) = SumFunctionOnSet(OfKey(k), SpendInstances)
        /\ RecordedOf(k)' = SumFunctionOnSet(OfKey(k)', SpendInstances)
    BY Zenon DEF RecordedOf, OfKey
  <2>2. \A j \in SpendInstances : OfKey(k)[j] \in Int /\ (OfKey(k)')[j] \in Int
    BY <1>3 DEF OfKey
  <2>3. \A j \in SpendInstances \ {i} : (OfKey(k)')[j] = OfKey(k)[j]
    BY <1>2, <1>3 DEF OfKey
  <2>4. (OfKey(k)')[i] = IF k = key THEN OfKey(k)[i] + cost ELSE OfKey(k)[i]
    BY <1>1, <1>2, <1>3 DEF OfKey
  <2>5. SumFunctionOnSet(OfKey(k)', SpendInstances)
          = SumFunctionOnSet(OfKey(k), SpendInstances) - OfKey(k)[i] + (OfKey(k)')[i]
    BY <1>1, <2>2, <2>3, MetersFinite, SumChanged
  <2>6. OfKey(k)[i] \in Int /\ RecordedOf(k) \in Int
    BY <1>1, <2>2, MetersTyped
  <2> QED
    BY <2>1, <2>4, <2>5, <2>6
<1>5. Recorded' = Recorded + cost
  <2>1. Recorded = SumFunctionOnSet(ByKey, SpendKeys)
        /\ Recorded' = SumFunctionOnSet(ByKey', SpendKeys)
    BY Zenon DEF Recorded, ByKey
  <2>2. \A k \in SpendKeys : ByKey[k] = RecordedOf(k) /\ ByKey'[k] = RecordedOf(k)'
    BY DEF ByKey
  <2>3. \A k \in SpendKeys : RecordedOf(k) \in Int
    BY MetersTyped
  <2>4. /\ \A k \in SpendKeys : ByKey[k] \in Int /\ ByKey'[k] \in Int
        /\ \A k \in SpendKeys \ {key} : ByKey'[k] = ByKey[k]
        /\ ByKey'[key] = ByKey[key] + cost
    BY <1>1, <1>4, <2>2, <2>3
  <2>5. SumFunctionOnSet(ByKey', SpendKeys)
          = SumFunctionOnSet(ByKey, SpendKeys) - ByKey[key] + ByKey'[key]
    BY <1>1, <2>4, MetersFinite, SumChanged
  <2>6. ByKey[key] \in Int /\ Recorded \in Int
    BY <1>1, <2>4, MetersTyped
  <2> QED
    BY <2>1, <2>4, <2>5, <2>6
<1> QED
  BY <1>4, <1>5 DEF key

(* What one client owes changes.                                           *)
LEMMA OwedMoves ==
  ASSUME SpendTypeOK, NEW l \in Lanes, NEW usd \in Nat, owed' = [owed EXCEPT ![l] = usd]
  PROVE  SumFunctionOnSet(owed', Lanes) = SumFunctionOnSet(owed, Lanes) - owed[l] + usd
<1>1. \A m \in Lanes : owed[m] \in Int /\ owed'[m] \in Int
  BY DEF SpendTypeOK
<1>2. \A m \in Lanes \ {l} : owed'[m] = owed[m]
  BY DEF SpendTypeOK
<1>3. owed'[l] = usd
  BY DEF SpendTypeOK
<1>4. SumFunctionOnSet(owed', Lanes) = SumFunctionOnSet(owed, Lanes) - owed[l] + owed'[l]
  <2> DEFINE was == owed
             now == owed'
  <2>1. /\ \A m \in Lanes : was[m] \in Int /\ now[m] \in Int
        /\ \A m \in Lanes \ {l} : now[m] = was[m]
    BY <1>1, <1>2
  <2> HIDE DEF was, now
  <2>2. IsFiniteSet(Lanes)
    BY MetersFinite
  <2>3. SumFunctionOnSet(now, Lanes) = SumFunctionOnSet(was, Lanes) - was[l] + now[l]
    BY <2>1, <2>2, SumChanged
  <2> QED
    BY <2>3 DEF was, now
<1> QED
  BY <1>3, <1>4

(* Nothing has been spent at the start.                                    *)
LEMMA InitMeters == SpendInit => MeterInv
<1> SUFFICES ASSUME SpendInit PROVE MeterInv
  OBVIOUS
<1>1. SpendTypeOK
  BY InitSpend DEF SpendInv
<1>2. OwedIsAwaited
  BY DEF SpendInit, OwedIsAwaited
<1>3. \A k \in SpendKeys, i \in SpendInstances : OfKey(k)[i] = 0
  BY DEF SpendInit, OfKey
<1>4. \A k \in SpendKeys : RecordedOf(k) = 0
  <2> SUFFICES ASSUME NEW k \in SpendKeys PROVE RecordedOf(k) = 0
    OBVIOUS
  <2>1. RecordedOf(k) = SumFunctionOnSet(OfKey(k), SpendInstances)
    BY Zenon DEF RecordedOf, OfKey
  <2> QED
    BY <1>3, <2>1, MetersFinite, SumOfZeros
<1>5. Recorded = 0
  <2>1. Recorded = SumFunctionOnSet(ByKey, SpendKeys)
    BY Zenon DEF Recorded, ByKey
  <2>2. \A k \in SpendKeys : ByKey[k] = 0
    BY <1>4 DEF ByKey
  <2> QED
    BY <2>1, <2>2, MetersFinite, SumOfZeros
<1>6. OnRows = 0
  <2>1. \A d \in Days : dayRow[d] = 0
    BY DEF SpendInit
  <2> QED
    BY <2>1, MetersFinite, SumOfZeros DEF OnRows
<1>7. SumFunctionOnSet(owed, Lanes) = 0
  <2>1. \A l \in Lanes : owed[l] = 0
    BY DEF SpendInit
  <2> QED
    BY <2>1, MetersFinite, SumOfZeros
<1>8. UnderWay = 0
  <2>1. DOMAIN adds = AddRows /\ \A a \in AddRows : a[2] \in Int
    BY <1>1, MetersTyped
  <2>2. \A a \in AddRows : adds[a] = 0
    BY DEF SpendInit, AddRows
  <2>3. \A a \in AddRows : AddsUsd[a] = 0
    BY <2>1, <2>2 DEF AddsUsd
  <2>4. UnderWay = SumFunctionOnSet(AddsUsd, AddRows)
    BY <2>1 DEF UnderWay, AddsUsd
  <2> QED
    BY <2>3, <2>4, MetersFinite, SumOfZeros
<1>9. Agree
  <2>1. viaMessages = 0 /\ \A k \in WalletBound : debited[k] = 0 /\ k \in SpendKeys
    BY SpendAssumption DEF SpendInit
  <2> QED
    BY <1>4, <1>5, <1>6, <1>7, <1>8, <2>1 DEF Agree
<1> QED
  BY <1>1, <1>2, <1>9 DEF MeterInv

(* Who stops waiting for a debit is owed nothing more.                     *)
LEMMA OwedKept ==
  ASSUME SpendTypeOK, OwedIsAwaited, [SpendNext]_spendVars
  PROVE  OwedIsAwaited'
<1> USE DEF OwedIsAwaited, SpendTypeOK, Step
<1>1. CASE UNCHANGED spendVars
  BY <1>1 DEF spendVars, laneVars
<1>2. ASSUME NEW l \in Lanes,
             Arrive(l) \/ RowAnswers(l) \/ OverCap(l) \/ RequestFails(l)
      PROVE  OwedIsAwaited'
  BY <1>2 DEF Arrive, RowAnswers, OverCap, RequestFails
<1>3. ASSUME NEW l \in Lanes, UnderCap(l) \/ RowFails(l) PROVE OwedIsAwaited'
  <2>1. /\ owed' = owed /\ spendPc[l] # "debiting"
        /\ \E p \in {"serving", "idle"} : spendPc' = [spendPc EXCEPT ![l] = p]
    BY <1>3 DEF UnderCap, RowFails, Gates
  <2> QED
    BY <2>1
<1>4. ASSUME NEW l \in Lanes, Debited(l) \/ DebitFails(l) PROVE OwedIsAwaited'
  BY <1>4 DEF Debited, DebitFails
<1>5. ASSUME NEW l \in Lanes, NEW cost \in RequestCosts, NEW billed \in BOOLEAN,
             ChatDone(l, cost, billed) \/ MessagesDone(l, cost, billed)
      PROVE  OwedIsAwaited'
  BY <1>5 DEF ChatDone, MessagesDone
<1>6. ASSUME NEW a \in DOMAIN adds, AddLands(a) \/ AddFails(a) PROVE OwedIsAwaited'
  BY <1>6 DEF AddLands, AddFails, laneVars
<1>7. CASE Tick
  BY <1>7 DEF Tick, laneVars
<1>8. ASSUME NEW i \in SpendInstances, SpendColdStart(i) PROVE OwedIsAwaited'
  BY <1>8 DEF SpendColdStart
<1> QED
  BY <1>1, <1>2, <1>3, <1>4, <1>5, <1>6, <1>7, <1>8 DEF SpendNext

(* A step that touches no meter.                                           *)
LEMMA AgreeStays ==
  ASSUME Agree, UNCHANGED <<dayRow, adds, spentByKey, owed, viaMessages, debited>>
  PROVE  Agree'
<1>1. UNCHANGED <<OnRows, UnderWay>>
  BY DEF OnRows, UnderWay
<1>2. \A k : RecordedOf(k)' = RecordedOf(k)
  BY DEF RecordedOf
<1>3. Recorded' = Recorded
  BY DEF Recorded, RecordedOf
<1> QED
  BY <1>1, <1>2, <1>3 DEF Agree

(* A chat is done: its cost goes out to the row, and to the breaker or to  *)
(* the debit.                                                              *)
LEMMA ChatAgrees ==
  ASSUME MeterInv, SpendTypeOK', Agree, NEW l \in Lanes, NEW cost \in RequestCosts,
         NEW billed \in BOOLEAN, ChatDone(l, cost, billed)
  PROVE  Agree'
<1>1. /\ cost \in Nat /\ OnRows \in Int /\ UnderWay \in Int /\ Recorded \in Int
      /\ viaMessages \in Int /\ SumFunctionOnSet(owed, Lanes) \in Int
      /\ \A k \in SpendKeys : RecordedOf(k) \in Int
      /\ LaneKey[l] \in SpendKeys /\ WalletBound \subseteq SpendKeys
  BY SpendAssumption, MetersTyped DEF MeterInv, SpendTypeOK
<1>2. UnderWay' = IF billed THEN UnderWay + cost ELSE UnderWay
  BY SendMoves DEF ChatDone, MeterInv
<1>3. OnRows' = OnRows /\ UNCHANGED <<viaMessages, debited>>
  BY DEF ChatDone, OnRows
<1>4. CASE billed /\ cost > 0 /\ LaneKey[l] \in WalletBound
  <2>1. owed' = [owed EXCEPT ![l] = cost] /\ spentByKey' = spentByKey /\ owed[l] = 0
    BY <1>4 DEF ChatDone, Step, MeterInv, OwedIsAwaited
  <2>2. SumFunctionOnSet(owed', Lanes) = SumFunctionOnSet(owed, Lanes) - owed[l] + cost
    BY <1>1, <2>1, OwedMoves DEF MeterInv
  <2>3. SumFunctionOnSet(owed', Lanes) = SumFunctionOnSet(owed, Lanes) + cost
    BY <1>1, <2>1, <2>2
  <2>4. Recorded' = Recorded /\ \A k : RecordedOf(k)' = RecordedOf(k)
    BY <2>1 DEF Recorded, RecordedOf
  <2> QED
    BY <1>1, <1>2, <1>3, <1>4, <2>3, <2>4 DEF Agree
<1>5. CASE billed /\ cost > 0 /\ LaneKey[l] \notin WalletBound
  <2>1. Record(l, cost) /\ owed' = owed
    BY <1>5 DEF ChatDone
  <2>2. /\ Recorded' = Recorded + cost
        /\ \A k \in SpendKeys : k # LaneKey[l] => RecordedOf(k)' = RecordedOf(k)
    BY <1>1, <2>1, RecordMoves DEF MeterInv
  <2> QED
    BY <1>1, <1>2, <1>3, <1>5, <2>1, <2>2 DEF Agree
<1>6. CASE ~(billed /\ cost > 0)
  <2>1. UNCHANGED <<owed, spentByKey>>
    BY <1>6 DEF ChatDone
  <2>2. Recorded' = Recorded /\ \A k : RecordedOf(k)' = RecordedOf(k)
    BY <2>1 DEF Recorded, RecordedOf
  <2>3. UnderWay' = UnderWay
    BY <1>1, <1>2, <1>6
  <2> QED
    BY <1>3, <2>1, <2>2, <2>3 DEF Agree
<1> QED
  BY <1>4, <1>5, <1>6

(* A message is done: its cost goes out to the row only.                   *)
LEMMA MessagesAgree ==
  ASSUME MeterInv, Agree, NEW l \in Lanes, NEW cost \in RequestCosts,
         NEW billed \in BOOLEAN, MessagesDone(l, cost, billed)
  PROVE  Agree'
<1>1. /\ cost \in Nat /\ OnRows \in Int /\ UnderWay \in Int /\ Recorded \in Int
      /\ viaMessages \in Int /\ SumFunctionOnSet(owed, Lanes) \in Int
  BY SpendAssumption, MetersTyped DEF MeterInv, SpendTypeOK
<1>2. UnderWay' = IF billed THEN UnderWay + cost ELSE UnderWay
  BY SendMoves DEF MessagesDone, MeterInv
<1>3. /\ viaMessages' = IF billed THEN viaMessages + cost ELSE viaMessages
      /\ UNCHANGED <<dayRow, spentByKey, owed, debited>>
  BY DEF MessagesDone
<1>4. /\ OnRows' = OnRows /\ Recorded' = Recorded
      /\ \A k : RecordedOf(k)' = RecordedOf(k)
  BY <1>3 DEF OnRows, Recorded, RecordedOf
<1> QED
  BY <1>1, <1>2, <1>3, <1>4 DEF Agree

(* A debit is written: the breaker learns of what was owed.                *)
LEMMA DebitAgrees ==
  ASSUME MeterInv, SpendTypeOK', Agree, NEW l \in Lanes, Debited(l)
  PROVE  Agree'
<1>1. /\ OnRows \in Int /\ UnderWay \in Int /\ Recorded \in Int /\ owed[l] \in Nat
      /\ viaMessages \in Int /\ SumFunctionOnSet(owed, Lanes) \in Int
      /\ \A k \in SpendKeys : RecordedOf(k) \in Int
      /\ debited \in [SpendKeys -> Nat]
      /\ LaneKey[l] \in SpendKeys /\ WalletBound \subseteq SpendKeys
  BY SpendAssumption, MetersTyped DEF MeterInv, SpendTypeOK
<1>2. /\ debited' = [debited EXCEPT ![LaneKey[l]] = @ + owed[l]]
      /\ owed' = [owed EXCEPT ![l] = 0]
      /\ Record(l, owed[l])
      /\ UNCHANGED <<dayRow, adds, viaMessages>>
  BY DEF Debited
<1>3. SumFunctionOnSet(owed', Lanes) = SumFunctionOnSet(owed, Lanes) - owed[l] + 0
  BY <1>2, OwedMoves DEF MeterInv
<1>4. /\ Recorded' = Recorded + owed[l]
      /\ \A k \in SpendKeys :
           RecordedOf(k)' = IF k = LaneKey[l] THEN RecordedOf(k) + owed[l] ELSE RecordedOf(k)
  BY <1>1, <1>2, RecordMoves DEF MeterInv
<1>5. OnRows' = OnRows /\ UnderWay' = UnderWay
  BY <1>2 DEF OnRows, UnderWay
<1>6. \A k \in WalletBound : debited'[k] = RecordedOf(k)'
  BY <1>1, <1>2, <1>4 DEF Agree
<1>7. OnRows' + UnderWay' = Recorded' + SumFunctionOnSet(owed', Lanes) + viaMessages'
  <2> DEFINE total == SumFunctionOnSet(owed, Lanes)
             total1 == SumFunctionOnSet(owed', Lanes)
  <2>1. total \in Int /\ total1 = total - owed[l] + 0
    BY <1>1, <1>3
  <2>2. OnRows + UnderWay = Recorded + total + viaMessages
    BY DEF Agree
  <2> HIDE DEF total, total1
  <2>3. OnRows' + UnderWay' = Recorded' + total1 + viaMessages'
    BY <1>1, <1>2, <1>4, <1>5, <2>1, <2>2
  <2> QED
    BY <2>3 DEF total1
<1> QED
  BY <1>6, <1>7 DEF Agree

(* An add that was under way is on its row.                                *)
LEMMA LandAgrees ==
  ASSUME MeterInv, Agree, NEW a \in DOMAIN adds, AddLands(a)
  PROVE  Agree'
<1>1. /\ OnRows \in Int /\ UnderWay \in Int /\ DOMAIN adds = AddRows
      /\ a[2] \in Int /\ adds[a] \in Int
      /\ \A d \in Days : dayRow[d] \in Int
  BY MetersTyped DEF MeterInv
<1>2. a[1] \in Days /\ dayRow \in [Days -> Nat]
  BY <1>1 DEF AddRows, MeterInv, SpendTypeOK
<1>3. /\ adds' = [adds EXCEPT ![a] = adds[a] - 1]
      /\ dayRow' = [dayRow EXCEPT ![a[1]] = @ + a[2]]
      /\ UNCHANGED <<spentByKey, owed, debited, viaMessages>>
  BY DEF AddLands, laneVars
<1>4. UnderWay' = UnderWay - a[2]
  <2>1. adds[a] - 1 \in Int /\ a \in AddRows /\ adds[a] - 1 # adds[a] + 1
    BY <1>1
  <2> QED
    BY <1>3, <2>1, UnderWayMoves DEF MeterInv
<1>5. OnRows' = OnRows + a[2]
  <2> DEFINE was == dayRow
             now == dayRow'
             day == a[1]
  <2>1. /\ \A d \in Days : was[d] \in Int /\ now[d] \in Int
        /\ \A d \in Days \ {day} : now[d] = was[d]
        /\ day \in Days /\ now[day] = was[day] + a[2]
    BY <1>1, <1>2, <1>3
  <2> HIDE DEF was, now, day
  <2>2. SumFunctionOnSet(now, Days) = SumFunctionOnSet(was, Days) - was[day] + now[day]
    BY <2>1, MetersFinite, SumChanged
  <2>3. OnRows = SumFunctionOnSet(was, Days) /\ OnRows' = SumFunctionOnSet(now, Days)
    BY DEF OnRows, Days, was, now
  <2> QED
    BY <1>1, <2>1, <2>2, <2>3
<1>6. Recorded' = Recorded /\ \A k : RecordedOf(k)' = RecordedOf(k)
  BY <1>3 DEF Recorded, RecordedOf
<1> QED
  BY <1>1, <1>3, <1>4, <1>5, <1>6 DEF Agree

(* The meters agree until a write of one of them fails or a process stops. *)
THEOREM MetersKeepTime == SpendSpec => []MeterInv
<1>1. ASSUME MeterInv, [SpendNext]_spendVars PROVE MeterInv'
  <2>1. SpendTypeOK'
    BY <1>1, TypeStep DEF MeterInv, SpendTypeOK, spendVars, laneVars, meterVars
  <2>2. OwedIsAwaited'
    BY <1>1, OwedKept DEF MeterInv
  <2>3. ASSUME ~spendFault' PROVE Agree'
    <3>1. CASE UNCHANGED spendVars
      BY <1>1, <2>3, <3>1, AgreeStays DEF MeterInv, spendVars, laneVars, meterVars
    <3>2. ASSUME NEW l \in Lanes,
                 Arrive(l) \/ RowAnswers(l) \/ OverCap(l) \/ RequestFails(l) \/ UnderCap(l)
          PROVE  Agree'
      <4>1. /\ ~spendFault
            /\ UNCHANGED <<dayRow, adds, spentByKey, owed, viaMessages, debited>>
        BY <2>3, <3>2
        DEF Arrive, RowAnswers, OverCap, RequestFails, UnderCap, Gates, meterVars
      <4> QED
        BY <1>1, <4>1, AgreeStays DEF MeterInv
    <3>3. ASSUME NEW l \in Lanes, RowFails(l) \/ DebitFails(l) PROVE Agree'
      BY <2>3, <3>3 DEF RowFails, DebitFails
    <3>4. ASSUME NEW l \in Lanes, Debited(l) PROVE Agree'
      <4>1. ~spendFault
        BY <2>3, <3>4 DEF Debited
      <4> QED
        BY <1>1, <2>1, <3>4, <4>1, DebitAgrees DEF MeterInv
    <3>5. ASSUME NEW l \in Lanes, NEW cost \in RequestCosts, NEW billed \in BOOLEAN,
                 ChatDone(l, cost, billed) \/ MessagesDone(l, cost, billed)
          PROVE  Agree'
      <4>1. ~spendFault
        BY <2>3, <3>5 DEF ChatDone, MessagesDone
      <4> QED
        BY <1>1, <2>1, <3>5, <4>1, ChatAgrees, MessagesAgree DEF MeterInv
    <3>6. ASSUME NEW a \in DOMAIN adds, AddLands(a) \/ AddFails(a) PROVE Agree'
      <4>1. AddLands(a) /\ ~spendFault
        BY <2>3, <3>6 DEF AddLands, AddFails
      <4> QED
        BY <1>1, <4>1, LandAgrees DEF MeterInv
    <3>7. CASE Tick
      BY <1>1, <2>3, <3>7, AgreeStays DEF MeterInv, Tick, laneVars, meterVars
    <3>8. ASSUME NEW i \in SpendInstances, SpendColdStart(i) PROVE Agree'
      BY <2>3, <3>8 DEF SpendColdStart
    <3> QED
      BY <1>1, <3>1, <3>2, <3>3, <3>4, <3>5, <3>6, <3>7, <3>8 DEF SpendNext
  <2> QED
    BY <2>1, <2>2, <2>3 DEF MeterInv
<1> QED
  BY <1>1, InitMeters, PTL DEF SpendSpec

(* Without failures the rows of the days, the breakers of all processes    *)
(* and the debits account for the same money.                              *)
THEOREM AlwaysMetersAgree == SpendSpec => []MetersAgree
<1>1. MeterInv => MetersAgree
  BY DEF MeterInv, Agree, MetersAgree
<1> QED
  BY <1>1, MetersKeepTime, PTL
=============================================================================
