----------------------- MODULE ConnectionBudgetProofs -----------------------
(***************************************************************************)
(* Theorems about ConnectionBudget for every set of connections and calls, *)
(* every budget, hold and cost.                                            *)
(***************************************************************************)
EXTENDS ConnectionBudget, SumTheorems

-----------------------------------------------------------------------------
(* Type correctness is proved together with CallInv, which knows that a    *)
(* settle in flight has a cost.                                            *)

LEMMA InitTyped == Init => TypeOK
  BY StoreAssumption
  DEF Init, StoreInit, TypeOK, StoreTypeOK, Waiting, Phases, Outcomes, Ended

LEMMA InitCallInv == Init => CallInv
  BY DEF Init, StoreInit, CallInv, CallInvOf, NotYetHeld, HeldWhileServing, ResultKnown,
         SettleIsFinal, RowIsSettled, AnswerAtTheEnd, FaultlessCall, Waiting, Answered, Ended

(* The cost of a billed result is a cost.                                  *)
LEMMA BilledCost ==
  ASSUME NEW r \in Results, r.billed
  PROVE  r.cost \in Costs
  BY DEF Results

(* The three ways a handler moves on keep the types of what they assign.   *)
LEMMA MoveTyped ==
  ASSUME TypeOK, NEW c \in Calls
  PROVE  /\ \A p \in Phases : Goto(c, p) => phase' \in [Calls -> Phases]
         /\ \A p \in Waiting : Call(c, p) =>
              /\ phase' \in [Calls -> Phases]
              /\ pending' \in [Calls -> SUBSET Waiting]
              /\ reply' \in [Calls -> {"none", "ok", "refused", "raised"}]
         /\ \A h \in Outcomes : End(c, h) =>
              /\ phase' \in [Calls -> Phases]
              /\ http' \in [Calls -> Outcomes]
              /\ UNCHANGED <<pending, reply>>
         /\ Catch(c) =>
              /\ phase' \in [Calls -> Phases]
              /\ http' \in [Calls -> Outcomes]
              /\ pending' \in [Calls -> SUBSET Waiting]
              /\ reply' \in [Calls -> {"none", "ok", "refused", "raised"}]
<1> USE DEF TypeOK
<1>1. \A p \in Phases : Goto(c, p) => phase' \in [Calls -> Phases]
  BY DEF Goto
<1>2. \A p \in Waiting : Call(c, p) =>
        /\ phase' \in [Calls -> Phases]
        /\ pending' \in [Calls -> SUBSET Waiting]
        /\ reply' \in [Calls -> {"none", "ok", "refused", "raised"}]
  <2> SUFFICES ASSUME NEW p \in Waiting, Call(c, p)
               PROVE  /\ phase' \in [Calls -> Phases]
                      /\ pending' \in [Calls -> SUBSET Waiting]
                      /\ reply' \in [Calls -> {"none", "ok", "refused", "raised"}]
    OBVIOUS
  <2>1. p \in Phases
    BY DEF Phases
  <2>2. pending[c] \cup {p} \in SUBSET Waiting
    OBVIOUS
  <2>3. QED
    BY <1>1, <2>1, <2>2 DEF Call
<1>3. \A h \in Outcomes : End(c, h) =>
        /\ phase' \in [Calls -> Phases]
        /\ http' \in [Calls -> Outcomes]
        /\ UNCHANGED <<pending, reply>>
  BY <1>1 DEF End, Phases, Ended, netVars
<1>4. Catch(c) =>
        /\ phase' \in [Calls -> Phases]
        /\ http' \in [Calls -> Outcomes]
        /\ pending' \in [Calls -> SUBSET Waiting]
        /\ reply' \in [Calls -> {"none", "ok", "refused", "raised"}]
  BY <1>2, <1>3 DEF Catch, Waiting, Outcomes
<1>5. QED
  BY <1>1, <1>2, <1>3, <1>4

LEMMA StepTypeOK ==
  ASSUME TypeOK, CallInv, [Next]_vars
  PROVE  TypeOK'
<1> USE DEF TypeOK, storeVars, netVars, gatewayVars
<1>1. CASE UNCHANGED vars
  BY <1>1 DEF vars, StoreTypeOK
<1>2. ASSUME NEW c \in Calls, Reserve(c) \/ Handler(c) \/ Crash(c) \/ Network(c)
      PROVE  TypeOK'
  <2>a. /\ "serving" \in Phases /\ "served" \in Phases /\ "closing" \in Phases
        /\ "crashed" \in Phases
        /\ "reserving" \in Waiting /\ "settling" \in Waiting /\ "retrying" \in Waiting
        /\ "freeing" \in Waiting
        /\ "ok" \in Outcomes /\ "error" \in Outcomes /\ "refused" \in Outcomes
        /\ "unavailable" \in Outcomes
    BY DEF Phases, Waiting, Ended, Outcomes
  <2>b. UNCHANGED storeVars => StoreTypeOK'
    BY DEF StoreTypeOK
  <2>1. CASE Reserve(c)
    BY <2>1, <2>a, <2>b, MoveTyped DEF Reserve
  <2>2. CASE Reserved(c)
    BY <2>2, <2>a, <2>b, MoveTyped DEF Reserved
  <2>3. CASE Refused(c)
    BY <2>3, <2>a, <2>b, MoveTyped DEF Refused
  <2>4. CASE ReserveFails(c)
    BY <2>4, <2>a, <2>b, MoveTyped DEF ReserveFails, Throws
  <2>5. CASE Token(c)
    BY <2>5, <2>a, <2>b, MoveTyped DEF Token
  <2>6. CASE ServeOk(c)
    BY <2>6, <2>a, <2>b, MoveTyped DEF ServeOk
  <2>7. CASE ServeFails(c)
    BY <2>7, <2>a, <2>b, MoveTyped DEF ServeFails
  <2>8. CASE FinishFails(c)
    BY <2>8, <2>a, <2>b, MoveTyped DEF FinishFails
  <2>9. CASE Free(c)
    BY <2>9, <2>a, <2>b, MoveTyped DEF Free
  <2>10. CASE Settle(c)
    BY <2>10, <2>a, <2>b, MoveTyped DEF Settle
  <2>11. CASE Settled(c)
    BY <2>11, <2>a, <2>b, MoveTyped DEF Settled
  <2>12. CASE SettleRetry(c)
    BY <2>12, <2>a, <2>b, MoveTyped DEF SettleRetry, Throws
  <2>13. CASE SettleFails(c)
    BY <2>13, <2>a, <2>b, MoveTyped DEF SettleFails, Throws
  <2>14. CASE Freed(c)
    BY <2>14, <2>a, <2>b, MoveTyped DEF Freed, Throws
  <2>15. CASE Abandoned(c)
    BY <2>15, <2>a, <2>b, MoveTyped DEF Abandoned, Throws
  <2>16. CASE Close(c)
    BY <2>16, <2>a, <2>b, MoveTyped DEF Close
  <2>17. CASE CloseFails(c)
    BY <2>17, <2>a, <2>b, MoveTyped DEF CloseFails
  <2>18. CASE Crash(c)
    BY <2>18, <2>a, <2>b, MoveTyped DEF Crash
  <2>19. ASSUME NEW op \in pending[c], Run(c, op)
        PROVE  TypeOK'
    <3>1. StoreTypeOK'
      <4>1. CASE op = "reserving" /\ Debit(c)
        BY <4>1, StoreAssumption DEF Debit, StoreTypeOK
      <4>2. CASE op \in {"settling", "retrying"} /\ StoreSettle(c, result[c].cost)
        <5>1. result[c].cost \in Costs
          BY <4>2, BilledCost DEF CallInv, CallInvOf, SettleIsFinal
        <5>2. spent' \in [Keys -> Nat] /\ reserved' \in [Keys -> Nat]
          <6> DEFINE cost == result[c].cost
          <6>1. cost \in Nat /\ KeyOf[c] \in Keys /\ StoreSettle(c, cost)
            BY <4>2, <5>1, StoreAssumption
          <6> HIDE DEF cost
          <6>2. QED
            BY <6>1, StoreAssumption DEF StoreSettle, StoreTypeOK, Unreserved
        <5>3. ledger' \in [Calls -> Costs \cup {NoRow}]
          BY <4>2, <5>1 DEF StoreSettle, StoreTypeOK
        <5>4. holds' \in [Calls -> {"none", "held", "settled", "released"}]
          BY <4>2 DEF StoreSettle, StoreTypeOK
        <5>5. QED
          BY <5>2, <5>3, <5>4 DEF StoreTypeOK
      <4>3. CASE op \in {"freeing", "abandoning"} /\ StoreRelease(c)
        BY <4>3, StoreAssumption DEF StoreRelease, StoreTypeOK, Unreserved
      <4>4. QED
        BY <2>19, <4>1, <4>2, <4>3 DEF Run, Effect
    <3>2. reply' \in [Calls -> {"none", "ok", "refused", "raised"}]
      BY <2>19 DEF Run, Reply, DebitReply, SettleReply
    <3>3. pending' \in [Calls -> SUBSET Waiting] /\ fault' \in [Calls -> BOOLEAN]
      BY <2>19, ZenonT(60) DEF Run
    <3>4. QED
      BY <2>19, <3>1, <3>2, <3>3 DEF Run
  <2>20. ASSUME NEW op \in pending[c], Lose(c, op)
        PROVE  TypeOK'
    BY <2>20, <2>b DEF Lose
  <2>21. QED
    BY <1>2, <2>1, <2>2, <2>3, <2>4, <2>5, <2>6, <2>7, <2>8, <2>9, <2>10, <2>11, <2>12, <2>13,
       <2>14, <2>15, <2>16, <2>17, <2>18, <2>19, <2>20 DEF Handler, Network
<1>3. QED
  BY <1>1, <1>2 DEF Next
-----------------------------------------------------------------------------
(* What a step of call c does to its own state, and to no other call's.    *)

LEMMA MoveOwn ==
  ASSUME TypeOK, NEW c \in Calls
  PROVE  /\ \A p : Goto(c, p) => phase'[c] = p
         /\ \A p : Call(c, p) => /\ phase'[c] = p
                                 /\ pending'[c] = pending[c] \cup {p}
                                 /\ reply'[c] = "none"
         /\ \A h : End(c, h) => /\ phase'[c] = "done"
                                /\ http'[c] = h
                                /\ UNCHANGED <<pending, reply>>
         /\ \A p : Throws(c, p) => phase[c] = p /\ fault'[c] = TRUE
  BY DEF TypeOK, Goto, Call, End, Throws, netVars

(* d is as it was.                                                         *)
Untouched(d) ==
  /\ holds'[d] = holds[d] /\ ledger'[d] = ledger[d]
  /\ mode'[d] = mode[d] /\ phase'[d] = phase[d] /\ result'[d] = result[d]
  /\ settleAttempted'[d] = settleAttempted[d] /\ delivered'[d] = delivered[d]
  /\ http'[d] = http[d] /\ pending'[d] = pending[d] /\ reply'[d] = reply[d]
  /\ fault'[d] = fault[d]

LEMMA UntouchedKeepsInv ==
  ASSUME NEW d \in Calls, CallInvOf(d), Untouched(d)
  PROVE  CallInvOf(d)'
  BY DEF CallInvOf, Untouched, NotYetHeld, HeldWhileServing, ResultKnown, SettleIsFinal,
         RowIsSettled, AnswerAtTheEnd, FaultlessCall, Answered

LEMMA StepTouchesOne ==
  ASSUME TypeOK, NEW c \in Calls, Reserve(c) \/ Handler(c) \/ Crash(c) \/ Network(c),
         NEW d \in Calls, d # c
  PROVE  Untouched(d)
<1> USE DEF TypeOK, StoreTypeOK, Untouched, storeVars, netVars, gatewayVars
<1>a. \A p : Goto(c, p) => phase'[d] = phase[d]
  BY DEF Goto
<1>b. \A p : Call(c, p) => phase'[d] = phase[d] /\ pending'[d] = pending[d] /\ reply'[d] = reply[d]
  BY DEF Call, Goto
<1>c. \A h : End(c, h) => /\ phase'[d] = phase[d] /\ http'[d] = http[d]
                         /\ UNCHANGED <<pending, reply>>
  BY DEF End, Goto
<1>d. Catch(c) => /\ phase'[d] = phase[d] /\ http'[d] = http[d]
                  /\ pending'[d] = pending[d] /\ reply'[d] = reply[d]
  BY <1>b, <1>c DEF Catch
<1>e. \A p : Throws(c, p) => fault'[d] = fault[d]
  BY DEF Throws
<1>1. CASE Reserve(c)
  BY <1>1, <1>a, <1>b, <1>c, <1>d, <1>e DEF Reserve
<1>2. CASE Reserved(c)
  BY <1>2, <1>a, <1>b, <1>c, <1>d, <1>e DEF Reserved
<1>3. CASE Refused(c)
  BY <1>3, <1>a, <1>b, <1>c, <1>d, <1>e DEF Refused
<1>4. CASE ReserveFails(c)
  BY <1>4, <1>a, <1>b, <1>c, <1>d, <1>e DEF ReserveFails
<1>5. CASE Token(c)
  BY <1>5, <1>a, <1>b, <1>c, <1>d, <1>e DEF Token
<1>6. CASE ServeOk(c)
  BY <1>6, <1>a, <1>b, <1>c, <1>d, <1>e DEF ServeOk
<1>7. CASE ServeFails(c)
  BY <1>7, <1>a, <1>b, <1>c, <1>d, <1>e DEF ServeFails
<1>8. CASE FinishFails(c)
  BY <1>8, <1>a, <1>b, <1>c, <1>d, <1>e DEF FinishFails
<1>9. CASE Free(c)
  BY <1>9, <1>a, <1>b, <1>c, <1>d, <1>e DEF Free
<1>10. CASE Settle(c)
  BY <1>10, <1>a, <1>b, <1>c, <1>d, <1>e DEF Settle
<1>11. CASE Settled(c)
  BY <1>11, <1>a, <1>b, <1>c, <1>d, <1>e DEF Settled
<1>12. CASE SettleRetry(c)
  BY <1>12, <1>a, <1>b, <1>c, <1>d, <1>e DEF SettleRetry
<1>13. CASE SettleFails(c)
  BY <1>13, <1>a, <1>b, <1>c, <1>d, <1>e DEF SettleFails
<1>14. CASE Freed(c)
  BY <1>14, <1>a, <1>b, <1>c, <1>d, <1>e DEF Freed
<1>15. CASE Abandoned(c)
  BY <1>15, <1>a, <1>b, <1>c, <1>d, <1>e DEF Abandoned
<1>16. CASE Close(c)
  BY <1>16, <1>a, <1>b, <1>c, <1>d, <1>e DEF Close
<1>17. CASE CloseFails(c)
  BY <1>17, <1>a, <1>b, <1>c, <1>d, <1>e DEF CloseFails
<1>18. CASE Crash(c)
  BY <1>18, <1>a, <1>b, <1>c, <1>d, <1>e DEF Crash
<1>19. ASSUME NEW op \in pending[c], Run(c, op)
      PROVE  Untouched(d)
  <2>1. holds'[d] = holds[d] /\ ledger'[d] = ledger[d]
    BY <1>19 DEF Run, Effect, Debit, StoreSettle, StoreRelease
  <2>2. QED
    BY <1>19, <2>1 DEF Run
<1>20. ASSUME NEW op \in pending[c], Lose(c, op)
      PROVE  Untouched(d)
  BY <1>20 DEF Lose
<1>21. QED
  BY <1>1, <1>2, <1>3, <1>4, <1>5, <1>6, <1>7, <1>8, <1>9, <1>10, <1>11, <1>12, <1>13, <1>14,
     <1>15, <1>16, <1>17, <1>18, <1>19, <1>20 DEF Handler, Network

LEMMA StepOwnInv ==
  ASSUME TypeOK, NEW c \in Calls, CallInvOf(c),
         Reserve(c) \/ Handler(c) \/ Crash(c) \/ Network(c)
  PROVE  CallInvOf(c)'
<1> USE DEF CallInvOf
<1>a. /\ \A p : Goto(c, p) => phase'[c] = p
      /\ \A p : Call(c, p) => /\ phase'[c] = p
                              /\ pending'[c] = pending[c] \cup {p}
                              /\ reply'[c] = "none"
      /\ \A h : End(c, h) => /\ phase'[c] = "done"
                             /\ http'[c] = h
                             /\ UNCHANGED <<pending, reply>>
      /\ \A p : Throws(c, p) => phase[c] = p /\ fault'[c] = TRUE
  BY MoveOwn
<1>1. CASE Reserve(c)
  <2>1. /\ phase[c] = "idle"
        /\ phase'[c] = "reserving"
        /\ pending'[c] = pending[c] \cup {"reserving"}
        /\ reply'[c] = "none"
        /\ holds'[c] = holds[c] /\ ledger'[c] = ledger[c] /\ mode'[c] = mode[c]
        /\ result'[c] = result[c] /\ settleAttempted'[c] = settleAttempted[c]
        /\ delivered'[c] = delivered[c]
        /\ http'[c] = http[c] /\ fault'[c] = fault[c]
    BY <1>1, <1>a DEF Reserve, TypeOK, storeVars, netVars, Answered, Throws
  <2>2. QED
    BY <2>1 DEF NotYetHeld, HeldWhileServing, ResultKnown, SettleIsFinal,
             RowIsSettled, AnswerAtTheEnd, FaultlessCall, Answered, Waiting, Ended
<1>2. CASE Reserved(c)
  <2>1. /\ Answered(c, "reserving")
        /\ phase'[c] = "serving"
        /\ holds'[c] = holds[c] /\ ledger'[c] = ledger[c] /\ mode'[c] = mode[c]
        /\ result'[c] = result[c] /\ settleAttempted'[c] = settleAttempted[c]
        /\ delivered'[c] = delivered[c]
        /\ http'[c] = http[c] /\ pending'[c] = pending[c] /\ reply'[c] = reply[c]
        /\ fault'[c] = fault[c]
    BY <1>2, <1>a DEF Reserved, TypeOK, storeVars, netVars, Answered, Throws
  <2>2. QED
    BY <2>1 DEF NotYetHeld, HeldWhileServing, ResultKnown, SettleIsFinal,
             RowIsSettled, AnswerAtTheEnd, FaultlessCall, Answered, Waiting, Ended
<1>3. CASE Refused(c)
  <2>1. /\ phase[c] = "reserving" /\ reply[c] = "refused"
        /\ phase'[c] = "done"
        /\ http'[c] = "refused"
        /\ holds'[c] = holds[c] /\ ledger'[c] = ledger[c] /\ mode'[c] = mode[c]
        /\ result'[c] = result[c] /\ settleAttempted'[c] = settleAttempted[c]
        /\ delivered'[c] = delivered[c]
        /\ pending'[c] = pending[c] /\ reply'[c] = reply[c] /\ fault'[c] = fault[c]
    BY <1>3, <1>a DEF Refused, TypeOK, storeVars, netVars, Answered, Throws
  <2>2. QED
    BY <2>1 DEF NotYetHeld, HeldWhileServing, ResultKnown, SettleIsFinal,
             RowIsSettled, AnswerAtTheEnd, FaultlessCall, Answered, Waiting, Ended
<1>4. CASE ReserveFails(c)
  <2>1. /\ phase[c] = "reserving"
        /\ phase'[c] = "done"
        /\ http'[c] = "unavailable"
        /\ fault'[c] = TRUE
        /\ holds'[c] = holds[c] /\ ledger'[c] = ledger[c] /\ mode'[c] = mode[c]
        /\ result'[c] = result[c] /\ settleAttempted'[c] = settleAttempted[c]
        /\ delivered'[c] = delivered[c]
        /\ pending'[c] = pending[c] /\ reply'[c] = reply[c]
    BY <1>4, <1>a DEF ReserveFails, TypeOK, storeVars, netVars, Answered, Throws
  <2>2. QED
    BY <2>1 DEF NotYetHeld, HeldWhileServing, ResultKnown, SettleIsFinal,
             RowIsSettled, AnswerAtTheEnd, FaultlessCall, Answered, Waiting, Ended
<1>5. CASE Token(c)
  <2>1. /\ phase[c] = "serving" /\ mode[c] = "sse"
        /\ delivered'[c] = "partial"
        /\ holds'[c] = holds[c] /\ ledger'[c] = ledger[c] /\ mode'[c] = mode[c]
        /\ phase'[c] = phase[c] /\ result'[c] = result[c]
        /\ settleAttempted'[c] = settleAttempted[c]
        /\ http'[c] = http[c] /\ pending'[c] = pending[c] /\ reply'[c] = reply[c]
        /\ fault'[c] = fault[c]
    BY <1>5, <1>a DEF Token, TypeOK, storeVars, netVars, Answered, Throws
  <2>2. QED
    BY <2>1 DEF NotYetHeld, HeldWhileServing, ResultKnown, SettleIsFinal,
             RowIsSettled, AnswerAtTheEnd, FaultlessCall, Answered, Waiting, Ended
<1>6. CASE ServeOk(c)
  <2>1. /\ phase[c] = "serving"
        /\ phase'[c] = "served"
        /\ result'[c] \in Results
        /\ delivered'[c] = (IF mode[c] = "sse" THEN "full" ELSE delivered[c])
        /\ holds'[c] = holds[c] /\ ledger'[c] = ledger[c] /\ mode'[c] = mode[c]
        /\ settleAttempted'[c] = settleAttempted[c] /\ http'[c] = http[c]
        /\ pending'[c] = pending[c]
        /\ reply'[c] = reply[c] /\ fault'[c] = fault[c]
    BY <1>6, <1>a DEF ServeOk, TypeOK, storeVars, netVars, Answered, Throws
  <2>2. QED
    BY <2>1 DEF NotYetHeld, HeldWhileServing, ResultKnown, SettleIsFinal,
             RowIsSettled, AnswerAtTheEnd, FaultlessCall, Answered, Waiting, Ended
<1>7. CASE ServeFails(c)
  <2>0. ~settleAttempted[c]
    BY <1>7 DEF ServeFails, HeldWhileServing
  <2>1. /\ phase[c] = "serving"
        /\ phase'[c] = "abandoning"
        /\ pending'[c] = pending[c] \cup {"abandoning"}
        /\ reply'[c] = "none"
        /\ holds'[c] = holds[c] /\ ledger'[c] = ledger[c] /\ mode'[c] = mode[c]
        /\ result'[c] = result[c] /\ settleAttempted'[c] = settleAttempted[c]
        /\ delivered'[c] = delivered[c]
        /\ http'[c] = http[c] /\ fault'[c] = fault[c]
    BY <1>7, <2>0, <1>a DEF ServeFails, Catch, TypeOK, storeVars, netVars, Answered, Throws
  <2>2. QED
    BY <2>1, <2>0 DEF NotYetHeld, HeldWhileServing, ResultKnown, SettleIsFinal,
             RowIsSettled, AnswerAtTheEnd, FaultlessCall, Answered, Waiting, Ended
<1>8. CASE FinishFails(c)
  <2>0. ~settleAttempted[c]
    BY <1>8 DEF FinishFails, HeldWhileServing
  <2>1. /\ phase[c] = "served"
        /\ phase'[c] = "abandoning"
        /\ pending'[c] = pending[c] \cup {"abandoning"}
        /\ reply'[c] = "none"
        /\ holds'[c] = holds[c] /\ ledger'[c] = ledger[c] /\ mode'[c] = mode[c]
        /\ result'[c] = result[c] /\ settleAttempted'[c] = settleAttempted[c]
        /\ delivered'[c] = delivered[c]
        /\ http'[c] = http[c] /\ fault'[c] = fault[c]
    BY <1>8, <2>0, <1>a DEF FinishFails, Catch, TypeOK, storeVars, netVars, Answered, Throws
  <2>2. QED
    BY <2>1, <2>0 DEF NotYetHeld, HeldWhileServing, ResultKnown, SettleIsFinal,
             RowIsSettled, AnswerAtTheEnd, FaultlessCall, Answered, Waiting, Ended
<1>9. CASE Free(c)
  <2>1. /\ phase[c] = "served" /\ ~result[c].billed
        /\ phase'[c] = "freeing"
        /\ pending'[c] = pending[c] \cup {"freeing"}
        /\ reply'[c] = "none"
        /\ holds'[c] = holds[c] /\ ledger'[c] = ledger[c] /\ mode'[c] = mode[c]
        /\ result'[c] = result[c] /\ settleAttempted'[c] = settleAttempted[c]
        /\ delivered'[c] = delivered[c]
        /\ http'[c] = http[c] /\ fault'[c] = fault[c]
    BY <1>9, <1>a DEF Free, TypeOK, storeVars, netVars, Answered, Throws
  <2>2. QED
    BY <2>1 DEF NotYetHeld, HeldWhileServing, ResultKnown, SettleIsFinal,
             RowIsSettled, AnswerAtTheEnd, FaultlessCall, Answered, Waiting, Ended
<1>10. CASE Settle(c)
  <2>1. /\ phase[c] = "served" /\ result[c].billed
        /\ phase'[c] = "settling"
        /\ settleAttempted'[c] = TRUE
        /\ pending'[c] = pending[c] \cup {"settling"}
        /\ reply'[c] = "none"
        /\ holds'[c] = holds[c] /\ ledger'[c] = ledger[c] /\ mode'[c] = mode[c]
        /\ result'[c] = result[c] /\ delivered'[c] = delivered[c] /\ http'[c] = http[c]
        /\ fault'[c] = fault[c]
    BY <1>10, <1>a DEF Settle, TypeOK, storeVars, netVars, Answered, Throws
  <2>2. QED
    BY <2>1 DEF NotYetHeld, HeldWhileServing, ResultKnown, SettleIsFinal,
             RowIsSettled, AnswerAtTheEnd, FaultlessCall, Answered, Waiting, Ended
<1>11. CASE Settled(c)
  <2>1. /\ (Answered(c, "settling") \/ Answered(c, "retrying"))
        /\ phase'[c] = "closing"
        /\ holds'[c] = holds[c] /\ ledger'[c] = ledger[c] /\ mode'[c] = mode[c]
        /\ result'[c] = result[c] /\ settleAttempted'[c] = settleAttempted[c]
        /\ delivered'[c] = delivered[c]
        /\ http'[c] = http[c] /\ pending'[c] = pending[c] /\ reply'[c] = reply[c]
        /\ fault'[c] = fault[c]
    BY <1>11, <1>a DEF Settled, TypeOK, storeVars, netVars, Answered, Throws
  <2>2. QED
    BY <2>1 DEF NotYetHeld, HeldWhileServing, ResultKnown, SettleIsFinal,
             RowIsSettled, AnswerAtTheEnd, FaultlessCall, Answered, Waiting, Ended
<1>12. CASE SettleRetry(c)
  <2>1. /\ phase[c] = "settling"
        /\ phase'[c] = "retrying"
        /\ pending'[c] = pending[c] \cup {"retrying"}
        /\ reply'[c] = "none"
        /\ fault'[c] = TRUE
        /\ holds'[c] = holds[c] /\ ledger'[c] = ledger[c] /\ mode'[c] = mode[c]
        /\ result'[c] = result[c] /\ settleAttempted'[c] = settleAttempted[c]
        /\ delivered'[c] = delivered[c]
        /\ http'[c] = http[c]
    BY <1>12, <1>a DEF SettleRetry, TypeOK, storeVars, netVars, Answered, Throws
  <2>2. QED
    BY <2>1 DEF NotYetHeld, HeldWhileServing, ResultKnown, SettleIsFinal,
             RowIsSettled, AnswerAtTheEnd, FaultlessCall, Answered, Waiting, Ended
<1>13. CASE SettleFails(c)
  <2>0. settleAttempted[c]
    BY <1>13 DEF SettleFails, Throws, SettleIsFinal
  <2>1. /\ phase[c] = "retrying"
        /\ phase'[c] = "done"
        /\ fault'[c] = TRUE
        /\ holds'[c] = holds[c] /\ ledger'[c] = ledger[c] /\ mode'[c] = mode[c]
        /\ result'[c] = result[c] /\ settleAttempted'[c] = settleAttempted[c]
        /\ delivered'[c] = delivered[c]
        /\ pending'[c] = pending[c] /\ reply'[c] = reply[c]
    BY <1>13, <2>0, <1>a DEF SettleFails, Catch, TypeOK, storeVars, netVars, Answered, Throws
  <2>2. QED
    BY <2>1, <2>0 DEF NotYetHeld, HeldWhileServing, ResultKnown, SettleIsFinal,
             RowIsSettled, AnswerAtTheEnd, FaultlessCall, Answered, Waiting, Ended
<1>14. CASE Freed(c)
  <2>1. /\ phase[c] = "freeing"
        /\ phase'[c] = "closing"
        /\ (reply[c] = "ok" /\ fault'[c] = fault[c]) \/ fault'[c] = TRUE
        /\ holds'[c] = holds[c] /\ ledger'[c] = ledger[c] /\ mode'[c] = mode[c]
        /\ result'[c] = result[c] /\ settleAttempted'[c] = settleAttempted[c]
        /\ delivered'[c] = delivered[c]
        /\ http'[c] = http[c] /\ pending'[c] = pending[c] /\ reply'[c] = reply[c]
    BY <1>14, <1>a DEF Freed, TypeOK, storeVars, netVars, Answered, Throws
  <2>2. QED
    BY <2>1 DEF NotYetHeld, HeldWhileServing, ResultKnown, SettleIsFinal,
             RowIsSettled, AnswerAtTheEnd, FaultlessCall, Answered, Waiting, Ended
<1>15. CASE Abandoned(c)
  <2>1. /\ phase[c] = "abandoning"
        /\ phase'[c] = "done"
        /\ http'[c] = "error"
        /\ (reply[c] = "ok" /\ fault'[c] = fault[c]) \/ fault'[c] = TRUE
        /\ holds'[c] = holds[c] /\ ledger'[c] = ledger[c] /\ mode'[c] = mode[c]
        /\ result'[c] = result[c] /\ settleAttempted'[c] = settleAttempted[c]
        /\ delivered'[c] = delivered[c]
        /\ pending'[c] = pending[c] /\ reply'[c] = reply[c]
    BY <1>15, <1>a DEF Abandoned, TypeOK, storeVars, netVars, Answered, Throws
  <2>2. QED
    BY <2>1 DEF NotYetHeld, HeldWhileServing, ResultKnown, SettleIsFinal,
             RowIsSettled, AnswerAtTheEnd, FaultlessCall, Answered, Waiting, Ended
<1>16. CASE Close(c)
  <2>1. /\ phase[c] = "closing"
        /\ phase'[c] = "done"
        /\ delivered'[c] = "full"
        /\ http'[c] = "ok"
        /\ holds'[c] = holds[c] /\ ledger'[c] = ledger[c] /\ mode'[c] = mode[c]
        /\ result'[c] = result[c] /\ settleAttempted'[c] = settleAttempted[c]
        /\ pending'[c] = pending[c]
        /\ reply'[c] = reply[c] /\ fault'[c] = fault[c]
    BY <1>16, <1>a DEF Close, TypeOK, storeVars, netVars, Answered, Throws
  <2>2. QED
    BY <2>1 DEF NotYetHeld, HeldWhileServing, ResultKnown, SettleIsFinal,
             RowIsSettled, AnswerAtTheEnd, FaultlessCall, Answered, Waiting, Ended
<1>17. CASE CloseFails(c)
  <2>1. CASE settleAttempted[c]
    <3>1. /\ phase[c] = "closing" /\ settleAttempted[c]
          /\ phase'[c] = "done"
          /\ http'[c] = "error"
          /\ holds'[c] = holds[c] /\ ledger'[c] = ledger[c] /\ mode'[c] = mode[c]
          /\ result'[c] = result[c] /\ settleAttempted'[c] = settleAttempted[c]
          /\ delivered'[c] = delivered[c]
          /\ pending'[c] = pending[c] /\ reply'[c] = reply[c] /\ fault'[c] = fault[c]
      BY <1>17, <2>1, <1>a DEF CloseFails, Catch, storeVars, netVars
    <3>2. QED
      BY <3>1 DEF NotYetHeld, HeldWhileServing, ResultKnown, SettleIsFinal,
             RowIsSettled, AnswerAtTheEnd, FaultlessCall, Answered, Waiting, Ended
  <2>2. CASE ~settleAttempted[c]
    <3>1. /\ phase[c] = "closing" /\ ~settleAttempted[c]
          /\ phase'[c] = "abandoning"
          /\ pending'[c] = pending[c] \cup {"abandoning"}
          /\ reply'[c] = "none"
          /\ holds'[c] = holds[c] /\ ledger'[c] = ledger[c] /\ mode'[c] = mode[c]
          /\ result'[c] = result[c] /\ settleAttempted'[c] = settleAttempted[c]
          /\ delivered'[c] = delivered[c]
          /\ http'[c] = http[c] /\ fault'[c] = fault[c]
      BY <1>17, <2>2, <1>a DEF CloseFails, Catch, storeVars, netVars
    <3>2. QED
      BY <3>1 DEF NotYetHeld, HeldWhileServing, ResultKnown, SettleIsFinal,
             RowIsSettled, AnswerAtTheEnd, FaultlessCall, Answered, Waiting, Ended
  <2>3. QED
    BY <2>1, <2>2
<1>18. CASE Crash(c)
  <2>1. /\ phase[c] \notin Ended \cup {"idle"}
        /\ phase'[c] = "crashed"
        /\ fault'[c] = TRUE
        /\ holds'[c] = holds[c] /\ ledger'[c] = ledger[c] /\ mode'[c] = mode[c]
        /\ result'[c] = result[c] /\ settleAttempted'[c] = settleAttempted[c]
        /\ delivered'[c] = delivered[c]
        /\ http'[c] = http[c] /\ pending'[c] = pending[c] /\ reply'[c] = reply[c]
    BY <1>18, <1>a DEF Crash, TypeOK, storeVars, netVars, Answered, Throws
  <2>2. QED
    BY <2>1 DEF NotYetHeld, HeldWhileServing, ResultKnown, SettleIsFinal,
             RowIsSettled, AnswerAtTheEnd, FaultlessCall, Answered, Waiting, Ended
<1>19. ASSUME NEW op \in pending[c], Run(c, op)
      PROVE  CallInvOf(c)'
  <2>1. /\ mode'[c] = mode[c] /\ phase'[c] = phase[c] /\ result'[c] = result[c]
        /\ settleAttempted'[c] = settleAttempted[c] /\ delivered'[c] = delivered[c]
        /\ http'[c] = http[c]
        /\ reply'[c] = IF phase[c] = op THEN Reply(c, op) ELSE reply[c]
        /\ \/ pending'[c] = pending[c] \ {op} /\ fault'[c] = fault[c]
           \/ pending'[c] = pending[c] /\ fault'[c] = TRUE
    BY <1>19 DEF Run, TypeOK, gatewayVars
  <2>2. CASE op = "reserving" /\ Debit(c)
    <3>1. \/ /\ holds[c] = "none" /\ holds'[c] = "held" /\ ledger'[c] = ledger[c]
             /\ Reply(c, op) = "ok"
          \/ /\ holds'[c] = holds[c] /\ ledger'[c] = ledger[c]
             /\ Reply(c, op) = IF holds[c] # "none" THEN "ok" ELSE "refused"
      BY <2>2 DEF Debit, Reply, DebitReply, storeVars, TypeOK, StoreTypeOK
    <3>2. QED
      BY <2>1, <2>2, <3>1 DEF NotYetHeld, HeldWhileServing, ResultKnown, SettleIsFinal,
             RowIsSettled, AnswerAtTheEnd, FaultlessCall, Answered, Waiting, Ended
  <2>3. CASE op \in {"settling", "retrying"} /\ StoreSettle(c, result[c].cost)
    <3>1. settleAttempted[c] /\ holds[c] \in {"held", "settled"}
      BY <2>3 DEF SettleIsFinal
    <3>2. /\ Reply(c, op) = "ok"
          /\ holds'[c] = "settled"
          /\ holds[c] = "held" => ledger'[c] = result[c].cost
          /\ holds[c] = "settled" => ledger'[c] = ledger[c]
      BY <2>3, <3>1 DEF StoreSettle, Reply, SettleReply, storeVars, TypeOK, StoreTypeOK,
         RowIsSettled
    <3>3. result[c].cost # NoRow
      BY <3>1, BilledCost, StoreAssumption DEF SettleIsFinal
    <3>4. QED
      BY <2>1, <2>3, <3>1, <3>2, <3>3 DEF NotYetHeld, HeldWhileServing, ResultKnown, SettleIsFinal,
             RowIsSettled, AnswerAtTheEnd, FaultlessCall, Answered, Waiting, Ended
  <2>4. CASE op \in {"freeing", "abandoning"} /\ StoreRelease(c)
    <3>1. ~settleAttempted[c] /\ holds[c] # "settled"
      BY <2>4 DEF SettleIsFinal, RowIsSettled
    <3>2. /\ Reply(c, op) = "ok"
          /\ ledger'[c] = ledger[c]
          /\ holds'[c] = IF holds[c] = "held" THEN "released" ELSE holds[c]
      BY <2>4 DEF StoreRelease, Reply, storeVars, TypeOK, StoreTypeOK
    <3>3. QED
      BY <2>1, <2>4, <3>1, <3>2 DEF NotYetHeld, HeldWhileServing, ResultKnown, SettleIsFinal,
             RowIsSettled, AnswerAtTheEnd, FaultlessCall, Answered, Waiting, Ended
  <2>5. QED
    BY <1>19, <2>2, <2>3, <2>4 DEF Run, Effect
<1>20. ASSUME NEW op \in pending[c], Lose(c, op)
      PROVE  CallInvOf(c)'
  <2>1. /\ pending'[c] = pending[c] \ {op}
        /\ fault'[c] = TRUE
        /\ holds'[c] = holds[c] /\ ledger'[c] = ledger[c] /\ mode'[c] = mode[c]
        /\ phase'[c] = phase[c] /\ result'[c] = result[c]
        /\ settleAttempted'[c] = settleAttempted[c]
        /\ delivered'[c] = delivered[c] /\ http'[c] = http[c] /\ reply'[c] = reply[c]
    BY <1>20 DEF Lose, TypeOK, storeVars, gatewayVars
  <2>2. QED
    BY <2>1 DEF NotYetHeld, HeldWhileServing, ResultKnown, SettleIsFinal,
             RowIsSettled, AnswerAtTheEnd, FaultlessCall, Answered, Waiting, Ended
<1>21. QED
  BY <1>1, <1>2, <1>3, <1>4, <1>5, <1>6, <1>7, <1>8, <1>9, <1>10, <1>11, <1>12, <1>13, <1>14,
     <1>15, <1>16, <1>17, <1>18, <1>19, <1>20 DEF Handler, Network

LEMMA StepCallInv ==
  ASSUME TypeOK, CallInv, [Next]_vars
  PROVE  CallInv'
<1>1. CASE UNCHANGED vars
  <2> SUFFICES ASSUME NEW d \in Calls
               PROVE  CallInvOf(d)'
    BY DEF CallInv
  <2>1. CallInvOf(d) /\ Untouched(d)
    BY <1>1 DEF CallInv, Untouched, vars, storeVars, gatewayVars, netVars
  <2>2. QED
    BY <2>1, UntouchedKeepsInv
<1>2. ASSUME NEW c \in Calls, Reserve(c) \/ Handler(c) \/ Crash(c) \/ Network(c)
      PROVE  CallInv'
  <2> SUFFICES ASSUME NEW d \in Calls
               PROVE  CallInvOf(d)'
    BY DEF CallInv
  <2>1. CallInvOf(d)
    BY DEF CallInv
  <2>2. CASE d = c
    BY <1>2, <2>1, <2>2, StepOwnInv
  <2>3. CASE d # c
    BY <1>2, <2>1, <2>3, StepTouchesOne, UntouchedKeepsInv
  <2>4. QED
    BY <2>2, <2>3
<1>3. QED
  BY <1>1, <1>2 DEF Next

-----------------------------------------------------------------------------
(* The specification keeps its types: in particular the reserved counter   *)
(* of the store never falls below zero and every row holds a real cost.    *)
THEOREM TypeCorrect == Spec => []TypeOK
<1>1. Init => TypeOK /\ CallInv
  BY InitTyped, InitCallInv
<1>2. TypeOK /\ CallInv /\ [Next]_vars => TypeOK' /\ CallInv'
  BY StepTypeOK, StepCallInv
<1>3. QED
  BY <1>1, <1>2, PTL DEF Spec

(* What every call can count on in every reachable state.                  *)
THEOREM CallsKeepInv == Spec => [](TypeOK /\ CallInv)
<1>1. Init => TypeOK /\ CallInv
  BY InitTyped, InitCallInv
<1>2. TypeOK /\ CallInv /\ [Next]_vars => TypeOK' /\ CallInv'
  BY StepTypeOK, StepCallInv
<1>3. QED
  BY <1>1, <1>2, PTL DEF Spec

(* connectionReserve: whatever happens to the RPC, a call is served only   *)
(* while its hold counts against the budget of its connection.             *)
THEOREM AlwaysServedUnderHold == Spec => []ServedUnderHold
<1>1. CallInv => ServedUnderHold
  BY DEF CallInv, CallInvOf, HeldWhileServing, ServedUnderHold
<1>2. QED
  BY <1>1, CallsKeepInv, PTL

(* connectionSettle: a JSON answer that is billed is in the ledger when it *)
(* leaves, through every failure and retry of the settle.                  *)
THEOREM AlwaysAnswerIsPaid == Spec => []AnswerIsPaid
<1>1. CallInv => AnswerIsPaid
  BY DEF CallInv, CallInvOf, AnswerAtTheEnd, RowIsSettled, AnswerIsPaid
<1>2. QED
  BY <1>1, CallsKeepInv, PTL

(* ConnectionHold.settleAttempted: no catch block and no late request      *)
(* frees the hold of a call whose settle may have been applied.            *)
THEOREM NeverFreedAfterAttempt == Spec => []AttemptedNeverFreed
<1>1. CallInv => AttemptedNeverFreed
  BY DEF CallInv, CallInvOf, SettleIsFinal, AttemptedNeverFreed
<1>2. QED
  BY <1>1, CallsKeepInv, PTL

(* The ledger charges only calls that completed and are billed, each with  *)
(* the cost it completed with, however often its settle arrives.           *)
THEOREM OnlyServedIsCharged == Spec => []ChargedIsServed
<1>1. ASSUME TypeOK, CallInv
      PROVE  ChargedIsServed
  <2> SUFFICES ASSUME NEW c \in Calls, ledger[c] # NoRow
               PROVE  result[c] # NoResult /\ result[c].billed /\ ledger[c] = result[c].cost
    BY DEF ChargedIsServed
  <2>1. /\ settleAttempted[c]
        /\ ledger[c] = result[c].cost
        /\ result[c] \in Results /\ result[c].billed
    BY <1>1 DEF CallInv, CallInvOf, RowIsSettled, SettleIsFinal
  <2>2. QED
    BY <2>1, NoResultAssumption
<1>2. QED
  BY <1>1, CallsKeepInv, PTL

(* The two directions together.                                            *)
THEOREM AlwaysLedgerMatchesAnswers == Spec => []LedgerMatchesAnswers
<1>1. AnswerIsPaid /\ ChargedIsServed => LedgerMatchesAnswers
  BY DEF LedgerMatchesAnswers
<1> QED
  BY <1>1, AlwaysAnswerIsPaid, OnlyServedIsCharged, PTL

(* Every exit of the handler settles or releases the hold of its call      *)
(* unless the store, the network or the instance failed on the way.        *)
THEOREM NothingLeaksWithoutFault == Spec => []NoLeakWithoutFault
<1>1. CallInv => NoLeakWithoutFault
  BY DEF CallInv, CallInvOf, FaultlessCall, NoLeakWithoutFault
<1>2. QED
  BY <1>1, CallsKeepInv, PTL

-----------------------------------------------------------------------------
(* The audit.  Each of its three sums is the total of one table by call,   *)
(* and a step of the store changes the rows of one call.                   *)

Rows == [c \in Calls |-> IF ledger[c] = NoRow THEN 0 ELSE ledger[c]]

Held == [c \in Calls |-> IF holds[c] = "held" THEN HoldUsd ELSE 0]

Overruns == [c \in Calls |->
               IF ledger[c] # NoRow /\ ledger[c] > HoldUsd THEN ledger[c] - HoldUsd ELSE 0]

(* The calls of a connection are finitely many.                            *)
LEMMA CallsOfFinite ==
  ASSUME NEW k
  PROVE  IsFiniteSet(CallsOf(k)) /\ CallsOf(k) \subseteq Calls
BY StoreAssumption, FS_Subset DEF CallsOf

LEMMA AuditTables ==
  /\ \A k : LedgerSum(k) = SumFunctionOnSet(Rows, CallsOf(k))
  /\ \A k : HeldSum(k) = SumFunctionOnSet(Held, CallsOf(k))
  /\ \A k : OverrunSum(k) = SumFunctionOnSet(Overruns, CallsOf(k))
BY Zenon DEF LedgerSum, HeldSum, OverrunSum, Rows, Held, Overruns

LEMMA TablesTyped ==
  ASSUME TypeOK
  PROVE  \A c \in Calls : Rows[c] \in Nat /\ Held[c] \in Nat /\ Overruns[c] \in Nat
<1> SUFFICES ASSUME NEW c \in Calls
             PROVE  Rows[c] \in Nat /\ Held[c] \in Nat /\ Overruns[c] \in Nat
  OBVIOUS
<1>1. ledger[c] # NoRow => ledger[c] \in Nat
  BY StoreAssumption DEF TypeOK, StoreTypeOK
<1> QED
  BY <1>1, StoreAssumption DEF Rows, Held, Overruns

(* A change of the row of one call moves the total of its connection by    *)
(* that row, and no other total.                                           *)
LEMMA OneRowChanges ==
  ASSUME NEW f, NEW h, \A d \in Calls : f[d] \in Int /\ h[d] \in Int,
         NEW c \in Calls, \A d \in Calls \ {c} : h[d] = f[d],
         NEW k \in Keys
  PROVE  /\ SumFunctionOnSet(f, CallsOf(k)) \in Int
         /\ SumFunctionOnSet(h, CallsOf(k)) =
              IF k = KeyOf[c] THEN SumFunctionOnSet(f, CallsOf(k)) - f[c] + h[c]
                              ELSE SumFunctionOnSet(f, CallsOf(k))
<1>1. IsFiniteSet(CallsOf(k)) /\ \A d \in CallsOf(k) : f[d] \in Int /\ h[d] \in Int
  BY CallsOfFinite
<1>2. SumFunctionOnSet(f, CallsOf(k)) \in Int
  BY <1>1, SumOfIntegers
<1>3. CASE k = KeyOf[c]
  <2>1. c \in CallsOf(k) /\ \A d \in CallsOf(k) \ {c} : h[d] = f[d]
    BY <1>3 DEF CallsOf
  <2>2. SumFunctionOnSet(h, CallsOf(k)) = SumFunctionOnSet(f, CallsOf(k)) - f[c] + h[c]
    BY <1>1, <2>1, SumChanged
  <2> QED
    BY <1>2, <1>3, <2>2
<1>4. CASE k # KeyOf[c]
  <2>1. \A d \in CallsOf(k) : h[d] = f[d]
    BY <1>4 DEF CallsOf
  <2>2. SumFunctionOnSet(h, CallsOf(k)) = SumFunctionOnSet(f, CallsOf(k))
    BY <1>1, <2>1, SumSame
  <2> QED
    BY <1>2, <1>4, <2>2
<1> QED
  BY <1>3, <1>4

(* The hold of a call is one of those its connection's total is made of.   *)
LEMMA HoldIsInTotal ==
  ASSUME TypeOK, NEW c \in Calls, holds[c] = "held"
  PROVE  HeldSum(KeyOf[c]) >= HoldUsd
<1> DEFINE S == CallsOf(KeyOf[c])
<1>1. IsFiniteSet(S) /\ c \in S /\ \A d \in S : Held[d] \in Nat
  BY CallsOfFinite, TablesTyped DEF CallsOf
<1>2. SumFunctionOnSet(Held, S) = SumFunctionOnSet(Held, S \ {c}) + Held[c]
  BY <1>1, SumWithout
<1>3. SumFunctionOnSet(Held, S \ {c}) \in Nat
  BY <1>1, FS_Subset, SumOfNats
<1>4. Held[c] = HoldUsd /\ HoldUsd \in Nat
  BY StoreAssumption DEF Held
<1>5. HeldSum(KeyOf[c]) = SumFunctionOnSet(Held, S)
  BY AuditTables
<1> HIDE DEF S
<1> QED
  BY <1>2, <1>3, <1>4, <1>5

(* The audit balances at the start.                                        *)
LEMMA InitZeroDrift == Init => ZeroDrift
<1> SUFFICES ASSUME Init, NEW k \in Keys
             PROVE  /\ spent[k] = LedgerSum(k)
                    /\ reserved[k] = HeldSum(k)
                    /\ spent[k] + reserved[k] <= Budget + OverrunSum(k)
  BY DEF ZeroDrift
<1>1. IsFiniteSet(CallsOf(k)) /\ CallsOf(k) \subseteq Calls
  BY CallsOfFinite
<1>2. \A c \in Calls : Rows[c] = 0 /\ Held[c] = 0 /\ Overruns[c] = 0
  BY DEF Init, StoreInit, Rows, Held, Overruns
<1>3. LedgerSum(k) = 0 /\ HeldSum(k) = 0 /\ OverrunSum(k) = 0
  BY <1>1, <1>2, SumOfZeros, AuditTables
<1>4. spent[k] = 0 /\ reserved[k] = 0
  BY DEF Init, StoreInit
<1> QED
  BY <1>3, <1>4, StoreAssumption

(* After a step the sums are those of the new tables.                      *)
LEMMA NewAuditTables ==
  ASSUME NEW k
  PROVE  /\ LedgerSum(k)' = SumFunctionOnSet(Rows', CallsOf(k))
         /\ HeldSum(k)' = SumFunctionOnSet(Held', CallsOf(k))
         /\ OverrunSum(k)' = SumFunctionOnSet(Overruns', CallsOf(k))
<1>1. LedgerSum(k)' = SumFunctionOnSet(Rows', CallsOf(k))
  BY Zenon DEF LedgerSum, Rows, CallsOf
<1>2. HeldSum(k)' = SumFunctionOnSet(Held', CallsOf(k))
  BY Zenon DEF HeldSum, Held, CallsOf
<1>3. OverrunSum(k)' = SumFunctionOnSet(Overruns', CallsOf(k))
  BY Zenon DEF OverrunSum, Overruns, CallsOf
<1> QED
  BY <1>1, <1>2, <1>3

(* What a change to the hold and the row of one call does to the audit.    *)
LEMMA AuditMoves ==
  ASSUME TypeOK, TypeOK', NEW c \in Calls, NEW k \in Keys,
         \A d \in Calls \ {c} : holds'[d] = holds[d] /\ ledger'[d] = ledger[d]
  PROVE  /\ LedgerSum(k) \in Nat /\ HeldSum(k) \in Nat /\ OverrunSum(k) \in Nat
         /\ k # KeyOf[c] => UNCHANGED <<LedgerSum(k), HeldSum(k), OverrunSum(k)>>
         /\ k = KeyOf[c] =>
              /\ LedgerSum(k)' = LedgerSum(k) - Rows[c] + Rows'[c]
              /\ HeldSum(k)' = HeldSum(k) - Held[c] + Held'[c]
              /\ OverrunSum(k)' = OverrunSum(k) - Overruns[c] + Overruns'[c]
<1>1. \A d \in Calls : Rows[d] \in Nat /\ Held[d] \in Nat /\ Overruns[d] \in Nat
  BY TablesTyped
<1>2. \A d \in Calls : Rows'[d] \in Nat /\ Held'[d] \in Nat /\ Overruns'[d] \in Nat
  <2> SUFFICES ASSUME NEW d \in Calls
               PROVE  Rows'[d] \in Nat /\ Held'[d] \in Nat /\ Overruns'[d] \in Nat
    OBVIOUS
  <2>1. ledger' \in [Calls -> Costs \cup {NoRow}]
    BY DEF TypeOK, StoreTypeOK
  <2>2. ledger'[d] # NoRow => ledger'[d] \in Nat
    BY <2>1, StoreAssumption
  <2> QED
    BY <2>2, StoreAssumption DEF Rows, Held, Overruns
<1>3. \A d \in Calls \ {c} :
        Rows'[d] = Rows[d] /\ Held'[d] = Held[d] /\ Overruns'[d] = Overruns[d]
  BY DEF Rows, Held, Overruns
<1>4. LedgerSum(k) \in Nat /\ HeldSum(k) \in Nat /\ OverrunSum(k) \in Nat
  BY <1>1, CallsOfFinite, SumOfNats, AuditTables
<1>5. LedgerSum(k)' = IF k = KeyOf[c] THEN LedgerSum(k) - Rows[c] + Rows'[c] ELSE LedgerSum(k)
  BY <1>1, <1>2, <1>3, OneRowChanges, AuditTables, NewAuditTables
<1>6. HeldSum(k)' = IF k = KeyOf[c] THEN HeldSum(k) - Held[c] + Held'[c] ELSE HeldSum(k)
  <2>1. \A d \in Calls : Held[d] \in Int /\ Held'[d] \in Int
    BY <1>1, <1>2
  <2>2. \A d \in Calls \ {c} : Held'[d] = Held[d]
    BY <1>3
  <2> QED
    BY <2>1, <2>2, OneRowChanges, AuditTables, NewAuditTables
<1>7. OverrunSum(k)' =
        IF k = KeyOf[c] THEN OverrunSum(k) - Overruns[c] + Overruns'[c] ELSE OverrunSum(k)
  BY <1>1, <1>2, <1>3, OneRowChanges, AuditTables, NewAuditTables
<1> QED
  BY <1>4, <1>5, <1>6, <1>7

(* Every function of the store keeps the audit balanced: a hold is taken   *)
(* only within the budget, and a settle or release gives back a hold that  *)
(* is in the total, so the clamp at zero never bites.                      *)
LEMMA StoreKeepsAudit ==
  ASSUME TypeOK, TypeOK', CallInv, ZeroDrift, NEW c \in Calls,
         Debit(c) \/ StoreRelease(c) \/ \E cost \in Costs : StoreSettle(c, cost)
  PROVE  ZeroDrift'
<1> SUFFICES ASSUME NEW k \in Keys
             PROVE  /\ spent'[k] = LedgerSum(k)'
                    /\ reserved'[k] = HeldSum(k)'
                    /\ spent'[k] + reserved'[k] <= Budget + OverrunSum(k)'
  BY DEF ZeroDrift
<1>1. /\ spent[k] = LedgerSum(k) /\ reserved[k] = HeldSum(k)
      /\ spent[k] + reserved[k] <= Budget + OverrunSum(k)
  BY DEF ZeroDrift
<1>2. /\ spent \in [Keys -> Nat] /\ reserved \in [Keys -> Nat]
      /\ holds \in [Calls -> {"none", "held", "settled", "released"}]
      /\ ledger \in [Calls -> Costs \cup {NoRow}]
      /\ KeyOf[c] \in Keys /\ HoldUsd \in Nat /\ Budget \in Nat
      /\ Costs \subseteq Nat /\ NoRow \notin Nat
  BY StoreAssumption DEF TypeOK, StoreTypeOK
<1>3. ledger[c] # NoRow <=> holds[c] = "settled"
  BY DEF CallInv, CallInvOf, RowIsSettled
<1>4. CASE UNCHANGED storeVars
  <2>1. UNCHANGED <<Rows, Held, Overruns>>
    BY <1>4 DEF storeVars, Rows, Held, Overruns
  <2>2. UNCHANGED <<LedgerSum(k), HeldSum(k), OverrunSum(k)>>
    BY <2>1, AuditTables, NewAuditTables
  <2> QED
    BY <1>1, <1>4, <2>2 DEF storeVars
<1>5. CASE Debit(c) /\ ~UNCHANGED storeVars
  <2>1. /\ holds[c] = "none" /\ Fits(c)
        /\ reserved' = [reserved EXCEPT ![KeyOf[c]] = @ + HoldUsd]
        /\ holds' = [holds EXCEPT ![c] = "held"]
        /\ UNCHANGED <<spent, ledger>>
    BY <1>5 DEF Debit
  <2>2. /\ Rows[c] = 0 /\ Rows'[c] = 0 /\ Held[c] = 0 /\ Held'[c] = HoldUsd
        /\ Overruns[c] = 0 /\ Overruns'[c] = 0
    BY <1>2, <1>3, <2>1 DEF Rows, Held, Overruns
  <2>3. /\ LedgerSum(k) \in Nat /\ HeldSum(k) \in Nat /\ OverrunSum(k) \in Nat
        /\ LedgerSum(k)' = LedgerSum(k) /\ OverrunSum(k)' = OverrunSum(k)
        /\ HeldSum(k)' = IF k = KeyOf[c] THEN HeldSum(k) + HoldUsd ELSE HeldSum(k)
    BY <1>2, <2>1, <2>2, AuditMoves
  <2>4. /\ spent'[k] = spent[k]
        /\ reserved'[k] = IF k = KeyOf[c] THEN reserved[k] + HoldUsd ELSE reserved[k]
        /\ k = KeyOf[c] => spent[k] + reserved[k] + HoldUsd <= Budget
    BY <1>2, <2>1 DEF Fits
  <2> QED
    BY <1>1, <1>2, <2>3, <2>4
<1>6. ASSUME NEW cost \in Costs, StoreSettle(c, cost), ~UNCHANGED storeVars
      PROVE  /\ spent'[k] = LedgerSum(k)'
             /\ reserved'[k] = HeldSum(k)'
             /\ spent'[k] + reserved'[k] <= Budget + OverrunSum(k)'
  <2>1. /\ holds[c] = "held" /\ ledger[c] = NoRow
        /\ reserved' = [reserved EXCEPT ![KeyOf[c]] = Unreserved(@)]
        /\ spent' = [spent EXCEPT ![KeyOf[c]] = @ + cost]
        /\ ledger' = [ledger EXCEPT ![c] = cost]
        /\ holds' = [holds EXCEPT ![c] = "settled"]
    BY <1>3, <1>6 DEF StoreSettle
  <2> DEFINE over == IF cost > HoldUsd THEN cost - HoldUsd ELSE 0
  <2>2. /\ Rows[c] = 0 /\ Rows'[c] = cost /\ Held[c] = HoldUsd /\ Held'[c] = 0
        /\ Overruns[c] = 0 /\ Overruns'[c] = over
    BY <1>2, <2>1 DEF Rows, Held, Overruns
  <2>3. cost \in Nat /\ over \in Nat /\ over >= cost - HoldUsd
    BY <1>2
  <2>4. HeldSum(KeyOf[c]) >= HoldUsd
    BY <2>1, HoldIsInTotal
  <2> HIDE DEF over
  <2>5. /\ LedgerSum(k) \in Nat /\ HeldSum(k) \in Nat /\ OverrunSum(k) \in Nat
        /\ k # KeyOf[c] => UNCHANGED <<LedgerSum(k), HeldSum(k), OverrunSum(k)>>
        /\ k = KeyOf[c] => /\ LedgerSum(k)' = LedgerSum(k) + cost
                           /\ HeldSum(k)' = HeldSum(k) - HoldUsd
                           /\ OverrunSum(k)' = OverrunSum(k) + over
    BY <1>2, <2>1, <2>2, <2>3, AuditMoves
  <2>6. /\ k # KeyOf[c] => spent'[k] = spent[k] /\ reserved'[k] = reserved[k]
        /\ k = KeyOf[c] => spent'[k] = spent[k] + cost /\ reserved'[k] = Unreserved(reserved[k])
    BY <1>2, <2>1
  <2>7. k = KeyOf[c] => Unreserved(reserved[k]) = HeldSum(k) - HoldUsd
    BY <1>1, <2>4 DEF Unreserved
  <2> QED
    BY <1>1, <1>2, <2>3, <2>5, <2>6, <2>7
<1>7. CASE StoreRelease(c) /\ ~UNCHANGED storeVars
  <2>1. /\ holds[c] = "held" /\ ledger[c] = NoRow
        /\ reserved' = [reserved EXCEPT ![KeyOf[c]] = Unreserved(@)]
        /\ holds' = [holds EXCEPT ![c] = "released"]
        /\ UNCHANGED <<spent, ledger>>
    BY <1>3, <1>7 DEF StoreRelease
  <2>2. /\ Rows[c] = 0 /\ Rows'[c] = 0 /\ Held[c] = HoldUsd /\ Held'[c] = 0
        /\ Overruns[c] = 0 /\ Overruns'[c] = 0
    BY <1>2, <2>1 DEF Rows, Held, Overruns
  <2>3. HeldSum(KeyOf[c]) >= HoldUsd
    BY <2>1, HoldIsInTotal
  <2>4. /\ LedgerSum(k) \in Nat /\ HeldSum(k) \in Nat /\ OverrunSum(k) \in Nat
        /\ k # KeyOf[c] => UNCHANGED <<LedgerSum(k), HeldSum(k), OverrunSum(k)>>
        /\ k = KeyOf[c] => /\ LedgerSum(k)' = LedgerSum(k)
                           /\ HeldSum(k)' = HeldSum(k) - HoldUsd
                           /\ OverrunSum(k)' = OverrunSum(k)
    BY <1>2, <2>1, <2>2, AuditMoves
  <2>5. /\ spent'[k] = spent[k]
        /\ k # KeyOf[c] => reserved'[k] = reserved[k]
        /\ k = KeyOf[c] => reserved'[k] = Unreserved(reserved[k])
    BY <1>2, <2>1
  <2>6. k = KeyOf[c] => Unreserved(reserved[k]) = HeldSum(k) - HoldUsd
    BY <1>1, <2>3 DEF Unreserved
  <2> QED
    BY <1>1, <1>2, <2>4, <2>5, <2>6
<1> QED
  BY <1>4, <1>5, <1>6, <1>7

(* Whatever happens, the store moves by one of its three functions, run    *)
(* for one call, and a settle comes with a cost.                           *)
StoreStep(c) ==
  Debit(c) \/ StoreRelease(c) \/ \E cost \in Costs : StoreSettle(c, cost)

LEMMA StepReachesStore ==
  ASSUME TypeOK, CallInv, [Next]_vars
  PROVE  UNCHANGED storeVars \/ \E c \in Calls : StoreStep(c)
<1>1. CASE UNCHANGED vars
  BY <1>1 DEF vars
<1>2. ASSUME NEW c \in Calls, NEW op \in pending[c], Run(c, op)
      PROVE  StoreStep(c)
  <2>1. CASE op = "reserving"
    BY <1>2, <2>1 DEF Run, Effect, StoreStep
  <2>2. CASE op \in {"settling", "retrying"}
    <3>1. settleAttempted[c] /\ result[c] \in Results /\ result[c].billed
      BY <2>2 DEF CallInv, CallInvOf, SettleIsFinal
    <3>2. result[c].cost \in Costs
      BY <3>1, BilledCost
    <3>3. StoreSettle(c, result[c].cost)
      BY <1>2, <2>2 DEF Run, Effect
    <3> QED
      BY <3>2, <3>3 DEF StoreStep
  <2>3. CASE op \in {"freeing", "abandoning"}
    BY <1>2, <2>3 DEF Run, Effect, StoreStep
  <2> QED
    BY <1>2, <2>1, <2>2, <2>3 DEF Run, Effect
<1>3. ASSUME NEW c \in Calls, Reserve(c) \/ Handler(c) \/ Crash(c)
      PROVE  UNCHANGED storeVars
  <2>1. CASE Reserve(c) \/ Crash(c)
    BY <2>1 DEF Reserve, Crash
  <2>2. CASE Handler(c)
    BY <2>2 DEF Handler, Reserved, Refused, ReserveFails, Token, ServeOk, ServeFails,
       FinishFails, Free, Settle, Settled, SettleRetry, SettleFails, Freed, Abandoned,
       Close, CloseFails
  <2> QED
    BY <1>3, <2>1, <2>2
<1>4. ASSUME NEW c \in Calls, NEW op \in pending[c], Lose(c, op)
      PROVE  UNCHANGED storeVars
  BY <1>4 DEF Lose
<1> QED
  BY <1>1, <1>2, <1>3, <1>4 DEF Next, Network

(* The counters of a connection and its tables never drift apart, and the  *)
(* budget is overshot by no more than charges exceeded their holds.        *)
THEOREM AlwaysZeroDrift == Spec => []ZeroDrift
<1>1. Init => TypeOK /\ CallInv /\ ZeroDrift
  BY InitTyped, InitCallInv, InitZeroDrift
<1>2. ASSUME TypeOK, CallInv, ZeroDrift, [Next]_vars
      PROVE  TypeOK' /\ CallInv' /\ ZeroDrift'
  <2>1. TypeOK' /\ CallInv'
    BY <1>2, StepTypeOK, StepCallInv
  <2>2. CASE UNCHANGED storeVars
    <3>1. UNCHANGED <<Rows, Held, Overruns>>
      BY <2>2 DEF storeVars, Rows, Held, Overruns
    <3>2. \A k : UNCHANGED <<LedgerSum(k), HeldSum(k), OverrunSum(k)>>
      BY <3>1, AuditTables, NewAuditTables
    <3> QED
      BY <1>2, <2>1, <2>2, <3>2 DEF storeVars, ZeroDrift
  <2>3. CASE \E c \in Calls : StoreStep(c)
    BY <1>2, <2>1, <2>3, StoreKeepsAudit DEF StoreStep
  <2> QED
    BY <1>2, <2>1, <2>2, <2>3, StepReachesStore
<1> QED
  BY <1>1, <1>2, PTL DEF Spec

-----------------------------------------------------------------------------
(* The refinement: the escrow ledger decides by the audit, the store by    *)
(* its counters, and the two agree because nothing drifts.                 *)

(* The sum of the escrow ledger is the sum of the store's module.          *)
LEMMA SameSum == \A f, S : Escrow!SumFunctionOnSet(f, S) = SumFunctionOnSet(f, S)
BY DEF SumFunctionOnSet, FoldFunctionOnSet, MapThenFoldSet, Escrow!SumFunctionOnSet,
       Escrow!FoldFunctionOnSet, Escrow!MapThenFoldSet

(* What a connection is committed to is what its two counters add up to.   *)
LEMMA CommitmentIsCounted ==
  ASSUME TypeOK, CallInv, ZeroDrift, NEW k \in Keys
  PROVE  Escrow!Commitment(k) = spent[k] + reserved[k]
<1> DEFINE Owed == [c \in Calls |->
                      IF (CASE holds[c] = "none" -> "open" [] holds[c] = "held" -> "held"
                            [] holds[c] = "settled" -> "charged" [] OTHER -> "freed") = "held"
                      THEN HoldUsd
                      ELSE IF ledger[c] = NoRow THEN 0 ELSE ledger[c]]
<1>1. ASSUME NEW c \in Calls PROVE Owed[c] = Rows[c] + Held[c]
  <2>1. ledger[c] # NoRow <=> holds[c] = "settled"
    BY DEF CallInv, CallInvOf, RowIsSettled
  <2>2. Rows[c] \in Nat /\ Held[c] \in Nat
    BY TablesTyped
  <2> QED
    BY <2>1, <2>2, StoreAssumption DEF Rows, Held
<1>2. SumFunctionOnSet(Owed, CallsOf(k))
        = SumFunctionOnSet(Rows, CallsOf(k)) + SumFunctionOnSet(Held, CallsOf(k))
  <2>1. \A c \in CallsOf(k) : Rows[c] \in Int /\ Held[c] \in Int /\ Owed[c] = Rows[c] + Held[c]
    BY <1>1, TablesTyped, CallsOfFinite
  <2> HIDE DEF Owed
  <2> QED
    BY <2>1, CallsOfFinite, SumOfBoth
<1>3. Escrow!Commitment(k) = Escrow!SumFunctionOnSet(Owed, CallsOf(k))
  BY DEF Escrow!Commitment, Escrow!CallsOf, CallsOf
<1> HIDE DEF Owed
<1>4. Escrow!Commitment(k) = SumFunctionOnSet(Owed, CallsOf(k))
  BY <1>3, SameSum
<1> QED
  BY <1>2, <1>4, AuditTables DEF ZeroDrift

(* Nothing was asked of the escrow ledger at the start.                    *)
LEMMA EscrowStarts == Init => Escrow!Init
BY DEF Init, StoreInit, Escrow!Init

(* The escrow ledger does not move when the store does not.                *)
LEMMA EscrowStutters == UNCHANGED storeVars => UNCHANGED Escrow!vars
BY DEF storeVars, Escrow!vars

(* A debit admits, a settle charges and a release frees, or they find it   *)
(* done and change nothing.                                                *)
LEMMA StoreImplementsEscrow ==
  ASSUME TypeOK, TypeOK', CallInv, ZeroDrift, NEW c \in Calls, StoreStep(c)
  PROVE  [Escrow!Next]_Escrow!vars
<1>1. /\ holds \in [Calls -> {"none", "held", "settled", "released"}]
      /\ ledger \in [Calls -> Costs \cup {NoRow}]
      /\ KeyOf[c] \in Keys /\ NoRow \notin Costs
  BY StoreAssumption DEF TypeOK, StoreTypeOK
<1>2. ledger[c] # NoRow <=> holds[c] = "settled"
  BY DEF CallInv, CallInvOf, RowIsSettled
<1>3. CASE UNCHANGED storeVars
  BY <1>3, EscrowStutters
<1>4. CASE Debit(c) /\ ~UNCHANGED storeVars
  <2>1. holds[c] = "none" /\ Fits(c) /\ holds' = [holds EXCEPT ![c] = "held"] /\ ledger' = ledger
    BY <1>4 DEF Debit
  <2>2. Escrow!Commitment(KeyOf[c]) + HoldUsd <= Budget
    BY <1>1, <2>1, CommitmentIsCounted DEF Fits
  <2>3. Escrow!Admit(c)
    BY <1>1, <2>1, <2>2 DEF Escrow!Admit
  <2> QED
    BY <2>3 DEF Escrow!Next
<1>5. ASSUME NEW cost \in Costs, StoreSettle(c, cost), ~UNCHANGED storeVars
      PROVE  Escrow!Next
  <2>1. /\ holds[c] = "held" /\ holds' = [holds EXCEPT ![c] = "settled"]
        /\ ledger' = [ledger EXCEPT ![c] = cost]
    BY <1>2, <1>5 DEF StoreSettle
  <2>2. Escrow!Charge(c, cost)
    BY <1>1, <2>1 DEF Escrow!Charge
  <2> QED
    BY <2>2 DEF Escrow!Next
<1>6. CASE StoreRelease(c) /\ ~UNCHANGED storeVars
  <2>1. holds[c] = "held" /\ holds' = [holds EXCEPT ![c] = "released"] /\ ledger' = ledger
    BY <1>6 DEF StoreRelease
  <2>2. Escrow!Free(c)
    BY <1>1, <2>1 DEF Escrow!Free
  <2> QED
    BY <2>2 DEF Escrow!Next
<1> QED
  BY <1>3, <1>4, <1>5, <1>6 DEF StoreStep

(* The gateway, its retries, its crashes and the network implement the     *)
(* escrow ledger, for any number of calls and connections: a call is       *)
(* admitted under a full audit of its key and charged or freed once.       *)
THEOREM ImplementsEscrow == Spec => EscrowSpec
<1>1. ASSUME TypeOK, TypeOK', CallInv, ZeroDrift, [Next]_vars
      PROVE  [Escrow!Next]_Escrow!vars
  BY <1>1, StepReachesStore, EscrowStutters, StoreImplementsEscrow
<1> QED
  BY <1>1, EscrowStarts, CallsKeepInv, AlwaysZeroDrift, PTL
  DEF Spec, EscrowSpec, Escrow!Spec

=============================================================================
