------------------------- MODULE OAuthConnectProofs -------------------------
(***************************************************************************)
(* The safety properties of OAuthConnect, for any number of codes, keys,   *)
(* requests and instances, any time to live and any length of the run.     *)
(*                                                                         *)
(* Two invariants carry them.  CodeInv says what the position of an        *)
(* exchange implies of its code and key; CacheInv says that what a cache   *)
(* or a read under way takes for active was active when it was asked.      *)
(***************************************************************************)
EXTENDS OAuthConnect, TLAPS

(* An exchange in one of these positions has won the mark of its code.     *)
HasKey == {"linking", "linkedUp", "answered"}
Winner == HasKey \cup {"marked", "issuing", "burnt"}

(* One exchange at most wins a code, and a won code is consumed.           *)
OneWinner ==
  /\ \A x \in Exchanges : pc[x] \in Winner => CodeOf[x] \in consumed
  /\ \A x, y \in Exchanges :
       CodeOf[x] = CodeOf[y] /\ pc[x] \in Winner /\ pc[y] \in Winner => x = y

(* A code that has a key has no exchange that may still get one.           *)
KeyEndsCode ==
  /\ OneKeyPerCode
  /\ \A k \in Keys : from[k] # NoCode => from[k] \in consumed
  /\ \A x \in Exchanges : pc[x] \in {"marked", "issuing", "burnt"} =>
       \A k \in Keys : from[k] # CodeOf[x]

(* Keys on their way into the table are fresh and each has one exchange.   *)
FreshKeys ==
  /\ \A k \in Keys : from[k] # NoCode <=> row[k] # "none"
  /\ \A x \in Exchanges : pc[x] = "issuing" =>
       target[x] \in Keys /\ row[target[x]] = "none"
  /\ \A x \in Exchanges : pc[x] \in HasKey =>
       target[x] \in Keys /\ from[target[x]] = CodeOf[x]
  /\ \A x, y \in Exchanges :
       pc[x] = "issuing" /\ pc[y] = "issuing" /\ target[x] = target[y] => x = y

(* What a code's record names is the key issued for it.                    *)
Links ==
  /\ \A c \in Codes : linked[c] # NoKey => from[linked[c]] = c
  /\ \A x \in Exchanges : pc[x] \in {"linkedUp", "answered"} =>
       linked[CodeOf[x]] = target[x]

(* A late exchange is on its way to revoke the key of its code.            *)
Replays ==
  \A x \in late :
    /\ linked[CodeOf[x]] \in Keys
    /\ target[x] = linked[CodeOf[x]]
    /\ pc[x] \in {"patching", "patched", "refused", "unpatched", "failed"}
    /\ pc[x] \in {"patched", "refused"} => row[target[x]] = "revoked"

CodeInv == OneWinner /\ KeyEndsCode /\ FreshKeys /\ Links /\ Replays

-----------------------------------------------------------------------------

(* Whoever asked at time t and was told k is active was told the truth of  *)
(* some moment after t.                                                    *)
Truthful(k, t) ==
  /\ t <= now
  /\ row[k] # "none"
  /\ row[k] = "revoked" => t <= diedAt[k]

CacheInv ==
  /\ \A i \in Instances, k \in Keys :
       cache[i][k] # NoEntry /\ cache[i][k].live => Truthful(k, cache[i][k].at)
  /\ \A r \in Auths \cup Revokes :
       /\ pc[r] \in {"reading", "read", "accepted"} => target[r] \in Keys
       /\ pc[r] \in {"reading", "read"} => asked[r] <= now
       /\ pc[r] = "reading" => row[target[r]] # "none"
       /\ pc[r] = "read" /\ found[r] => Truthful(target[r], asked[r])
  /\ \A x \in Exchanges : pc[x] \notin {"reading", "read", "accepted"}

(* A revoke that has run its update has a dead key, and where it is        *)
(* complete no read is about to bring the key back.                        *)
CutInv ==
  /\ \A r \in Requests : pc[r] \in {"patching", "patched"} => target[r] \in Keys
  /\ \A r \in Requests : pc[r] = "patched" => row[target[r]] = "revoked"
  /\ \A i \in Instances, k \in Keys : <<i, k>> \in cut =>
       row[k] = "revoked" /\ ~StaleRead(i, k)
  /\ CutIsLocal

-----------------------------------------------------------------------------

USE OAuthAssumption, KeyStoreAssumption

LEMMA InitTyped == Init => TypeOK
  BY DEF Init, KeyInit, TypeOK, KeyTypeOK, Times

LEMMA StepTyped ==
  ASSUME TypeOK, CutInv, [Next]_vars
  PROVE  TypeOK'
<1> USE DEF TypeOK, KeyTypeOK, Times, Queries, Resumed, Ends, Requests, Goto, Aim, Answered
<1>1. CASE Tick
  BY <1>1 DEF Tick, codeVars, reqVars
<1>2. ASSUME NEW c \in Codes, Approve(c) PROVE TypeOK'
  BY <1>2 DEF Approve, CodeExpiry, keyVars, reqVars
<1>3. ASSUME NEW x \in Exchanges, ReadCode(x) PROVE TypeOK'
  BY <1>3 DEF ReadCode, ReplayKey, keyVars, codeVars
<1>4. ASSUME NEW x \in Exchanges, Mark(x) PROVE TypeOK'
  BY <1>4 DEF Mark, keyVars
<1>5. ASSUME NEW x \in Exchanges, CheckFails(x) PROVE TypeOK'
  BY <1>5 DEF CheckFails, keyVars, codeVars
<1>6. ASSUME NEW x \in Exchanges, CheckPasses(x) PROVE TypeOK'
  BY <1>6 DEF CheckPasses, keyVars, codeVars
<1>7. ASSUME NEW x \in Exchanges, Insert(x) PROVE TypeOK'
  BY <1>7 DEF Insert, InsertRow, codeVars
<1>8. ASSUME NEW x \in Exchanges, Link(x) PROVE TypeOK'
  BY <1>8 DEF Link, keyVars
<1>9. ASSUME NEW x \in Exchanges, Answer(x) PROVE TypeOK'
  BY <1>9 DEF Answer, keyVars, codeVars
<1>10. ASSUME NEW r \in Auths \cup Revokes, Resolve(r) PROVE TypeOK'
  BY <1>10 DEF Resolve, Bearer, keyVars, codeVars
<1>11. ASSUME NEW r \in Auths \cup Revokes, ReadRow(r) PROVE TypeOK'
  BY <1>11 DEF ReadRow, IsActive, keyVars, codeVars
<1>12. ASSUME NEW r \in Auths \cup Revokes, Return(r) PROVE TypeOK'
  BY <1>12 DEF Return, Remember, codeVars
<1>13. ASSUME NEW v \in Revokes, RevokeToken(v) PROVE TypeOK'
  BY <1>13 DEF RevokeToken, keyVars, codeVars
<1>14. ASSUME NEW v \in Revokes, RevokeConnection(v) PROVE TypeOK'
  BY <1>14 DEF RevokeConnection, keyVars, codeVars
<1>15. ASSUME NEW r \in Exchanges \cup Revokes, Patch(r) PROVE TypeOK'
  <2>1. row' \in [Keys -> {"none", "active", "revoked"}] /\ diedAt' \in [Keys -> Times]
    BY <1>15 DEF Patch, RevokeRow
  <2>2. pc' \in [Requests -> {"idle"} \cup Queries \cup Resumed \cup Ends]
    BY <1>15 DEF Patch, RevokeEnd
  <2> QED
    BY <1>15, <2>1, <2>2 DEF Patch, codeVars
<1>16. ASSUME NEW r \in Exchanges \cup Revokes, PatchRefused(r) PROVE TypeOK'
  BY <1>16 DEF PatchRefused, keyVars, codeVars
<1>17. ASSUME NEW r \in Exchanges \cup Revokes, Drop(r) PROVE TypeOK'
  <2>1. cache' \in [Instances -> [Keys -> [live : BOOLEAN, at : Times] \cup {NoEntry}]]
    BY <1>17 DEF Drop, Forget
  <2>2. cut' \subseteq Instances \X Keys
    BY <1>17 DEF Drop, CutInv
  <2> QED
    BY <1>17, <2>1, <2>2 DEF Drop, RevokeEnd, codeVars
<1>18. ASSUME NEW r \in Requests, Throws(r) PROVE TypeOK'
  BY <1>18 DEF Throws, keyVars, codeVars
<1>19. CASE UNCHANGED vars
  BY <1>19 DEF vars, keyVars, codeVars, reqVars
<1> QED
  BY <1>1, <1>2, <1>3, <1>4, <1>5, <1>6, <1>7, <1>8, <1>9, <1>10, <1>11, <1>12, <1>13,
     <1>14, <1>15, <1>16, <1>17, <1>18, <1>19
  DEF Next, ExchangeStep, ResolveStep, RevokeStep
-----------------------------------------------------------------------------

LEMMA InitCodeInv == Init => CodeInv
  BY DEF Init, KeyInit, CodeInv, OneWinner, KeyEndsCode, OneKeyPerCode, FreshKeys, Links,
         Replays, Winner, HasKey, Requests

(* A step of a gateway call or a revoke that leaves the tables alone.      *)
LEMMA UntouchedCodes ==
  ASSUME TypeOK, CodeInv,
         UNCHANGED <<row, codeVars, from, late>>,
         \A x \in Exchanges : pc'[x] = pc[x] /\ target'[x] = target[x]
  PROVE  CodeInv'
<1> USE DEF CodeInv, codeVars
<1>1. OneWinner'
  BY DEF OneWinner
<1>2. KeyEndsCode'
  BY DEF KeyEndsCode, OneKeyPerCode
<1>3. FreshKeys'
  BY DEF FreshKeys
<1>4. Links'
  BY DEF Links
<1>5. Replays'
  BY DEF Replays, TypeOK
<1> QED
  BY <1>1, <1>2, <1>3, <1>4, <1>5

LEMMA StepCodeInv ==
  ASSUME TypeOK, CodeInv, CacheInv, CutInv, [Next]_vars
  PROVE  CodeInv'
<1> USE DEF Requests, Goto, Aim, Answered, Winner, HasKey
<1>1. CASE Tick
  BY <1>1, UntouchedCodes DEF Tick, codeVars, reqVars
<1>2. ASSUME NEW c \in Codes, Approve(c) PROVE CodeInv'
  BY <1>2 DEF Approve, CodeInv, OneWinner, KeyEndsCode, OneKeyPerCode, FreshKeys, Links,
              Replays, keyVars, reqVars
<1>3. ASSUME NEW x \in Exchanges, ReadCode(x) PROVE CodeInv'
  <2>1. /\ UNCHANGED <<row, codeVars, from>>
        /\ pc' = [pc EXCEPT ![x] = pc'[x]]
        /\ target' = [target EXCEPT ![x] = target'[x]]
        /\ pc[x] = "idle" /\ pc'[x] \in {"marking", "patching", "refused"}
    BY <1>3 DEF ReadCode, keyVars, TypeOK
  <2>2. OneWinner' /\ KeyEndsCode' /\ FreshKeys' /\ Links'
    BY <2>1 DEF CodeInv, OneWinner, KeyEndsCode, OneKeyPerCode, FreshKeys, Links, codeVars, TypeOK
  <2>3. Replays'
    BY <1>3, <2>1 DEF ReadCode, ReplayKey, HandedOut, CodeInv, OneWinner, FreshKeys, Links,
                      Replays, codeVars, TypeOK
  <2> QED
    BY <2>2, <2>3 DEF CodeInv
<1>4. ASSUME NEW x \in Exchanges, Mark(x) PROVE CodeInv'
  <2>1. OneWinner' /\ KeyEndsCode'
    BY <1>4 DEF Mark, MarkWins, CodeInv, OneWinner, KeyEndsCode, OneKeyPerCode, keyVars, TypeOK
  <2>2. FreshKeys' /\ Links' /\ Replays'
    BY <1>4 DEF Mark, CodeInv, FreshKeys, Links, Replays, keyVars, TypeOK
  <2> QED
    BY <2>1, <2>2 DEF CodeInv
<1>5. ASSUME NEW x \in Exchanges, CheckFails(x) PROVE CodeInv'
  BY <1>5 DEF CheckFails, CodeInv, OneWinner, KeyEndsCode, OneKeyPerCode, FreshKeys, Links,
              Replays, keyVars, codeVars, TypeOK
<1>6. ASSUME NEW x \in Exchanges, CheckPasses(x) PROVE CodeInv'
  <2>1. OneWinner' /\ KeyEndsCode' /\ Links' /\ Replays'
    BY <1>6 DEF CheckPasses, CodeInv, OneWinner, KeyEndsCode, OneKeyPerCode, Links, Replays,
                keyVars, codeVars, TypeOK
  <2>2. FreshKeys'
    BY <1>6 DEF CheckPasses, CodeInv, FreshKeys, keyVars, codeVars, TypeOK
  <2> QED
    BY <2>1, <2>2 DEF CodeInv
<1>7. ASSUME NEW x \in Exchanges, Insert(x) PROVE CodeInv'
  <2>1. OneWinner' /\ KeyEndsCode'
    BY <1>7 DEF Insert, CodeInv, OneWinner, KeyEndsCode, OneKeyPerCode, FreshKeys, codeVars, TypeOK
  <2>2. FreshKeys'
    BY <1>7 DEF Insert, InsertRow, CodeInv, FreshKeys, codeVars, TypeOK, KeyTypeOK
  <2>3. Links' /\ Replays'
    BY <1>7 DEF Insert, InsertRow, CodeInv, FreshKeys, Links, Replays, codeVars, TypeOK, KeyTypeOK
  <2> QED
    BY <2>1, <2>2, <2>3 DEF CodeInv
<1>8. ASSUME NEW x \in Exchanges, Link(x) PROVE CodeInv'
  <2>1. OneWinner' /\ KeyEndsCode' /\ FreshKeys'
    BY <1>8 DEF Link, CodeInv, OneWinner, KeyEndsCode, OneKeyPerCode, FreshKeys, keyVars, TypeOK
  <2>2. Links' /\ Replays'
    BY <1>8 DEF Link, CodeInv, OneWinner, KeyEndsCode, OneKeyPerCode, FreshKeys, Links, Replays,
                keyVars, TypeOK
  <2> QED
    BY <2>1, <2>2 DEF CodeInv
<1>9. ASSUME NEW x \in Exchanges, Answer(x) PROVE CodeInv'
  BY <1>9 DEF Answer, CodeInv, OneWinner, KeyEndsCode, OneKeyPerCode, FreshKeys, Links,
              Replays, keyVars, codeVars, TypeOK
<1>10. ASSUME NEW r \in Auths \cup Revokes, ResolveStep(r) PROVE CodeInv'
  BY <1>10, UntouchedCodes
  DEF ResolveStep, Resolve, ReadRow, Return, keyVars, codeVars, TypeOK
<1>11. ASSUME NEW v \in Revokes, RevokeToken(v) \/ RevokeConnection(v) PROVE CodeInv'
  BY <1>11, UntouchedCodes DEF RevokeToken, RevokeConnection, keyVars, codeVars, TypeOK
<1>12. ASSUME NEW r \in Exchanges \cup Revokes, Patch(r) PROVE CodeInv'
  <2>1. OneWinner' /\ KeyEndsCode' /\ Links'
    BY <1>12 DEF Patch, RevokeEnd, CodeInv, OneWinner, KeyEndsCode, OneKeyPerCode, Links, codeVars,
                 TypeOK
  <2>2. FreshKeys'
    BY <1>12 DEF Patch, RevokeEnd, RevokeRow, IsActive, CodeInv, FreshKeys, codeVars, TypeOK,
       KeyTypeOK
  <2>3. Replays'
    BY <1>12 DEF Patch, RevokeEnd, RevokeRow, IsActive, CodeInv, FreshKeys, Links, Replays,
                 codeVars, TypeOK, KeyTypeOK
  <2> QED
    BY <2>1, <2>2, <2>3 DEF CodeInv
<1>13. ASSUME NEW r \in Exchanges \cup Revokes, PatchRefused(r) PROVE CodeInv'
  BY <1>13 DEF PatchRefused, CodeInv, OneWinner, KeyEndsCode, OneKeyPerCode, FreshKeys, Links,
               Replays, keyVars, codeVars, TypeOK
<1>14. ASSUME NEW r \in Exchanges \cup Revokes, Drop(r) PROVE CodeInv'
  BY <1>14 DEF Drop, RevokeEnd, CodeInv, OneWinner, KeyEndsCode, OneKeyPerCode, FreshKeys, Links,
               Replays, codeVars, TypeOK
<1>15. ASSUME NEW r \in Requests, Throws(r) PROVE CodeInv'
  BY <1>15 DEF Throws, Queries, Resumed, CodeInv, OneWinner, KeyEndsCode, OneKeyPerCode, FreshKeys,
               Links, Replays, keyVars, codeVars, TypeOK
<1>16. CASE UNCHANGED vars
  BY <1>16, UntouchedCodes DEF vars, keyVars, codeVars, reqVars
<1> QED
  BY <1>1, <1>2, <1>3, <1>4, <1>5, <1>6, <1>7, <1>8, <1>9, <1>10, <1>11, <1>12, <1>13,
     <1>14, <1>15, <1>16
  DEF Next, ExchangeStep, RevokeStep
-----------------------------------------------------------------------------

LEMMA InitCacheInv == Init => CacheInv /\ CutInv
  BY DEF Init, KeyInit, CacheInv, CutInv, CutIsLocal, Requests

(* A key the app holds is in the table.                                    *)
LEMMA BearerIsIssued ==
  ASSUME TypeOK, CodeInv, NEW k \in Bearer
  PROVE  k \in Keys /\ row[k] # "none"
  BY DEF CodeInv, FreshKeys, HasKey, Bearer

(* What was true of a key stays true: rows only die, and only now.         *)
LEMMA TruthLasts ==
  ASSUME TypeOK, [Next]_vars, CodeInv, CutInv, TypeOK',
         NEW k \in Keys, NEW t \in Times, Truthful(k, t)
  PROVE  Truthful(k, t)'
<1> USE DEF Truthful, TypeOK, KeyTypeOK, Times
<1>1. CASE Tick
  BY <1>1 DEF Tick
<1>2. ASSUME NEW x \in Exchanges, Insert(x) PROVE Truthful(k, t)'
  <2>1. target[x] # k
    BY <1>2 DEF Insert, CodeInv, FreshKeys
  <2> QED
    BY <1>2, <2>1 DEF Insert, InsertRow
<1>3. ASSUME NEW r \in Exchanges \cup Revokes, Patch(r) PROVE Truthful(k, t)'
  BY <1>3 DEF Patch, RevokeRow, IsActive
<1>4. CASE UNCHANGED <<now, row, diedAt>>
  BY <1>4
<1>5. \/ Tick
      \/ \E x \in Exchanges : Insert(x)
      \/ \E r \in Exchanges \cup Revokes : Patch(r)
      \/ UNCHANGED <<now, row, diedAt>>
  BY DEF Next, ExchangeStep, ResolveStep, RevokeStep, Approve, ReadCode, Mark, CheckFails,
         CheckPasses, Link, Answer, Resolve, ReadRow, Return, RevokeToken, RevokeConnection,
         PatchRefused, Drop, Throws, vars, keyVars
<1> QED
  BY <1>1, <1>2, <1>3, <1>4, <1>5

(* Rows are never taken out of the table, and a revoked row stays revoked. *)
LEMMA RowsLast ==
  ASSUME TypeOK, [Next]_vars, CodeInv, NEW k \in Keys
  PROVE  /\ row[k] # "none" => row'[k] # "none"
         /\ row[k] = "revoked" => row'[k] = "revoked"
<1> USE DEF TypeOK, KeyTypeOK
<1>1. ASSUME NEW x \in Exchanges, Insert(x), row[k] # "none" PROVE row'[k] = row[k]
  <2>1. target[x] # k
    BY <1>1 DEF Insert, CodeInv, FreshKeys
  <2> QED
    BY <1>1, <2>1 DEF Insert, InsertRow
<1>2. ASSUME NEW r \in Exchanges \cup Revokes, Patch(r)
      PROVE  row'[k] = row[k] \/ row'[k] = "revoked"
  BY <1>2 DEF Patch, RevokeRow
<1>3. \/ \E x \in Exchanges : Insert(x)
      \/ \E r \in Exchanges \cup Revokes : Patch(r)
      \/ row' = row
  BY DEF Next, Tick, ExchangeStep, ResolveStep, RevokeStep, Approve, ReadCode, Mark, CheckFails,
         CheckPasses, Link, Answer, Resolve, ReadRow, Return, RevokeToken, RevokeConnection,
         PatchRefused, Drop, Throws, vars, keyVars
<1> QED
  BY <1>1, <1>2, <1>3

(* A request moves by a step of its own, or keeps its fields.              *)
LEMMA StepMovesOne ==
  ASSUME TypeOK, [Next]_vars, NEW r \in Requests
  PROVE  \/ /\ pc'[r] = pc[r]
            /\ target'[r] = target[r]
            /\ asked'[r] = asked[r]
            /\ found'[r] = found[r]
         \/ r \in Exchanges /\ ExchangeStep(r)
         \/ r \in Auths \cup Revokes /\ ResolveStep(r)
         \/ r \in Revokes /\ (RevokeToken(r) \/ RevokeConnection(r))
         \/ r \in Exchanges \cup Revokes /\ RevokeStep(r)
         \/ Throws(r)
<1> USE DEF TypeOK, Requests, Goto, Aim, Answered
<1> DEFINE Kept == /\ pc'[r] = pc[r]
                   /\ target'[r] = target[r]
                   /\ asked'[r] = asked[r]
                   /\ found'[r] = found[r]
<1>1. CASE Tick \/ (\E c \in Codes : Approve(c)) \/ UNCHANGED vars
  BY <1>1 DEF Tick, Approve, vars, reqVars
<1>2. ASSUME NEW x \in Exchanges, ExchangeStep(x), x # r PROVE Kept
  BY <1>2 DEF ExchangeStep, ReadCode, Mark, CheckFails, CheckPasses, Insert, Link, Answer
<1>3. ASSUME NEW q \in Auths \cup Revokes, ResolveStep(q), q # r PROVE Kept
  BY <1>3 DEF ResolveStep, Resolve, ReadRow, Return
<1>4. ASSUME NEW v \in Revokes, RevokeToken(v) \/ RevokeConnection(v), v # r PROVE Kept
  BY <1>4 DEF RevokeToken, RevokeConnection
<1>5. ASSUME NEW q \in Exchanges \cup Revokes, RevokeStep(q), q # r PROVE Kept
  BY <1>5 DEF RevokeStep, Patch, PatchRefused, Drop
<1>6. ASSUME NEW q \in Requests, Throws(q), q # r PROVE Kept
  BY <1>6 DEF Throws
<1> QED
  BY <1>1, <1>2, <1>3, <1>4, <1>5, <1>6 DEF Next

LEMMA StepCacheInv ==
  ASSUME TypeOK, CodeInv, CacheInv, CutInv, [Next]_vars, TypeOK'
  PROVE  CacheInv'
<1> USE DEF Requests, Goto, Aim, Answered
<1>1. ASSUME NEW i \in Instances, NEW k \in Keys, cache'[i][k] # NoEntry, cache'[i][k].live
      PROVE  Truthful(k, cache[i][k].at)'
  <2>1. PICK t \in Times : t = cache'[i][k].at
    BY <1>1 DEF TypeOK, KeyTypeOK
  <2>2. CASE cache'[i][k] = cache[i][k]
    <3>1. Truthful(k, t)
      BY <1>1, <2>1, <2>2 DEF CacheInv
    <3>2. Truthful(k, t)'
      BY <3>1, TruthLasts
    <3> QED
      BY <2>1, <3>2 DEF Truthful
  <2>3. CASE cache'[i][k] # cache[i][k]
    <3>1. PICK r \in Auths \cup Revokes : Return(r)
      <4>1. (\E r \in Auths \cup Revokes : Return(r))
             \/ (\E r \in Exchanges \cup Revokes : Drop(r)) \/ cache' = cache
        BY DEF Next, Tick, ExchangeStep, ResolveStep, RevokeStep, Approve, ReadCode, Mark,
               CheckFails, CheckPasses, Insert, Link, Answer, Resolve, ReadRow, RevokeToken,
               RevokeConnection, Patch, PatchRefused, Throws, vars, keyVars
      <4>2. ASSUME NEW r \in Exchanges \cup Revokes, Drop(r) PROVE FALSE
        BY <4>2, <1>1, <2>3 DEF Drop, Forget, TypeOK, KeyTypeOK
      <4> QED
        BY <4>1, <4>2, <2>3
    <3>2. k = target[r] /\ found[r] /\ t = asked[r] /\ pc[r] = "read"
      BY <1>1, <2>1, <2>3, <3>1 DEF Return, Remember, TypeOK, KeyTypeOK
    <3>3. Truthful(k, t)
      BY <3>2 DEF CacheInv
    <3>4. Truthful(k, t)'
      BY <3>3, TruthLasts
    <3> QED
      BY <2>1, <3>4 DEF Truthful
  <2> QED
    BY <2>2, <2>3
<1>2. ASSUME NEW r \in Auths \cup Revokes
      PROVE  /\ pc'[r] \in {"reading", "read", "accepted"} => target'[r] \in Keys
             /\ pc'[r] \in {"reading", "read"} => asked'[r] <= now'
             /\ pc'[r] = "reading" => row'[target'[r]] # "none"
             /\ pc'[r] = "read" /\ found'[r] => Truthful(target[r], asked[r])'
  <2> DEFINE Goal == /\ pc'[r] \in {"reading", "read", "accepted"} => target'[r] \in Keys
                     /\ pc'[r] \in {"reading", "read"} => asked'[r] <= now'
                     /\ pc'[r] = "reading" => row'[target'[r]] # "none"
                     /\ pc'[r] = "read" /\ found'[r] => Truthful(target[r], asked[r])'
  <2>1. ASSUME pc'[r] = pc[r], target'[r] = target[r], asked'[r] = asked[r], found'[r] = found[r]
        PROVE  Goal
    <3>1. now <= now'
      BY DEF Next, Tick, ExchangeStep, ResolveStep, RevokeStep, Approve, ReadCode, Mark,
             CheckFails, CheckPasses, Insert, Link, Answer, Resolve, ReadRow, Return,
             RevokeToken, RevokeConnection, Patch, PatchRefused, Drop, Throws, vars, keyVars,
             TypeOK, KeyTypeOK, Times
    <3>2. /\ pc[r] \in {"reading", "read", "accepted"} => target[r] \in Keys
          /\ pc[r] \in {"reading", "read"} => asked[r] <= now
          /\ pc[r] = "reading" => row[target[r]] # "none"
          /\ pc[r] = "read" /\ found[r] => Truthful(target[r], asked[r])
      BY DEF CacheInv
    <3>3. PICK t \in Times : t = asked[r]
      BY DEF TypeOK
    <3>4. ASSUME pc[r] \in {"reading", "read", "accepted"}
          PROVE  Goal
      <4>1. PICK k \in Keys : k = target[r]
        BY <3>2, <3>4
      <4>2. row[k] # "none" => row'[k] # "none"
        BY RowsLast
      <4>3. Truthful(k, t) => Truthful(k, t)'
        BY TruthLasts
      <4>4. pc[r] = "read" /\ found[r] => Truthful(k, t)'
        BY <3>2, <3>3, <4>1, <4>3
      <4>5. pc[r] = "read" /\ found[r] => Truthful(target[r], asked[r])'
        BY <2>1, <3>3, <4>1, <4>4 DEF Truthful
      <4>6. asked[r] <= now => asked[r] <= now'
        BY <3>1, <3>3 DEF TypeOK, KeyTypeOK, Times
      <4> QED
        BY <2>1, <3>2, <4>1, <4>2, <4>5, <4>6
    <3> QED
      BY <2>1, <3>4
  <2>2. CASE Resolve(r)
    <3>1. PICK k \in Bearer : target'[r] = k
      BY <2>2 DEF Resolve, TypeOK
    <3>2. k \in Keys /\ row[k] # "none"
      BY <3>1, BearerIsIssued
    <3> QED
      BY <2>2, <3>1, <3>2 DEF Resolve, keyVars, TypeOK, KeyTypeOK, Times
  <2>3. CASE ReadRow(r)
    BY <2>3 DEF ReadRow, IsActive, CacheInv, Truthful, keyVars, TypeOK, KeyTypeOK
  <2>4. CASE Return(r)
    BY <2>4 DEF Return, CacheInv, TypeOK
  <2>5. CASE pc'[r] \notin {"reading", "read", "accepted"}
    BY <2>5
  <2>6. \/ /\ pc'[r] = pc[r]
           /\ target'[r] = target[r]
           /\ asked'[r] = asked[r]
           /\ found'[r] = found[r]
        \/ ResolveStep(r)
        \/ pc'[r] \notin {"reading", "read", "accepted"}
    BY StepMovesOne
    DEF RevokeToken, RevokeConnection, RevokeStep, RevokeEnd, Patch, PatchRefused, Drop, Throws,
        Queries, Resumed, TypeOK
  <2> QED
    BY <2>1, <2>2, <2>3, <2>4, <2>5, <2>6 DEF ResolveStep
<1>3. ASSUME NEW x \in Exchanges PROVE pc'[x] \notin {"reading", "read", "accepted"}
  BY StepMovesOne, SMTT(30)
  DEF CacheInv, ExchangeStep, ReadCode, Mark, CheckFails, CheckPasses, Insert, Link, Answer,
      RevokeStep, RevokeEnd, Patch, PatchRefused, Drop, Throws, Queries, Resumed, TypeOK
<1> QED
  BY <1>1, <1>2, <1>3 DEF CacheInv

LEMMA StepCutInv ==
  ASSUME TypeOK, CodeInv, CacheInv, CutInv, [Next]_vars, TypeOK'
  PROVE  CutInv'
<1> USE DEF Requests, Goto, Aim, Answered
<1>1. ASSUME NEW r \in Requests, pc'[r] \in {"patching", "patched"}
      PROVE  target'[r] \in Keys
  BY <1>1, StepMovesOne, SMTT(30)
  DEF CutInv, CacheInv, ExchangeStep, ReadCode, Mark, CheckFails, CheckPasses, Insert, Link,
      Answer, ResolveStep, Resolve, ReadRow, Return, RevokeToken, RevokeConnection,
      RevokeStep, RevokeEnd, Patch, PatchRefused, Drop, Throws, Queries, Resumed, TypeOK
<1>2. ASSUME NEW r \in Requests, pc'[r] = "patched"
      PROVE  row'[target'[r]] = "revoked"
  <2>1. PICK k \in Keys : k = target'[r]
    BY <1>1, <1>2
  <2>2. \/ pc[r] = "patched" /\ target[r] = k
        \/ r \in Exchanges \cup Revokes /\ Patch(r)
    BY <1>2, <2>1, StepMovesOne
    DEF ExchangeStep, ReadCode, Mark, CheckFails, CheckPasses, Insert, Link,
        Answer, ResolveStep, Resolve, ReadRow, Return, RevokeToken, RevokeConnection,
        RevokeStep, RevokeEnd, PatchRefused, Drop, Throws, Queries, Resumed, TypeOK
  <2>3. CASE pc[r] = "patched" /\ target[r] = k
    BY <2>1, <2>3, RowsLast DEF CutInv
  <2>4. CASE Patch(r)
    BY <1>2, <2>1, <2>4 DEF Patch, RevokeRow, RevokeEnd, IsActive, TypeOK, KeyTypeOK
  <2> QED
    BY <2>2, <2>3, <2>4
<1>3. ASSUME NEW i \in Instances, NEW k \in Keys, <<i, k>> \in cut'
      PROVE  row[k] = "revoked" /\ ~StaleRead(i, k)
  <2>1. <<i, k>> \in cut \/ \E r \in Exchanges \cup Revokes : Drop(r)
    BY <1>3
    DEF Next, Tick, ExchangeStep, ResolveStep, RevokeStep, Approve, ReadCode, Mark,
        CheckFails, CheckPasses, Insert, Link, Answer, Resolve, ReadRow, Return,
        RevokeToken, RevokeConnection, Patch, PatchRefused, Throws, vars, keyVars
  <2> QED
    BY <1>3, <2>1 DEF CutInv, Drop
<1>4. ASSUME NEW i \in Instances, NEW k \in Keys, <<i, k>> \in cut', StaleRead(i, k)'
      PROVE  FALSE
  <2>1. PICK r \in Requests :
          InstanceOf[r] = i /\ target'[r] = k /\ pc'[r] = "read" /\ found'[r]
    BY <1>4 DEF StaleRead
  <2>2. \/ pc[r] = "read" /\ target[r] = k /\ found[r]
        \/ ReadRow(r)
    BY <2>1, StepMovesOne
    DEF ExchangeStep, ReadCode, Mark, CheckFails, CheckPasses, Insert, Link,
        Answer, ResolveStep, Resolve, Return, RevokeToken, RevokeConnection,
        RevokeStep, RevokeEnd, Patch, PatchRefused, Drop, Throws, Queries, Resumed, TypeOK
  <2>3. ~ReadRow(r)
    BY <1>3, <1>4, <2>1 DEF ReadRow, IsActive, TypeOK
  <2> QED
    BY <1>3, <1>4, <2>1, <2>2, <2>3 DEF StaleRead
<1>5. ASSUME NEW i \in Instances, NEW k \in Keys, <<i, k>> \in cut'
      PROVE  cache'[i][k] = NoEntry \/ ~cache'[i][k].live
  <2>1. CASE cache'[i][k] = cache[i][k]
    <3>1. CASE <<i, k>> \in cut
      BY <2>1, <3>1 DEF CutInv, CutIsLocal
    <3>2. CASE <<i, k>> \notin cut
      <4>1. PICK r \in Exchanges \cup Revokes : Drop(r)
        BY <1>5, <3>2
        DEF Next, Tick, ExchangeStep, ResolveStep, RevokeStep, Approve, ReadCode, Mark,
            CheckFails, CheckPasses, Insert, Link, Answer, Resolve, ReadRow, Return,
            RevokeToken, RevokeConnection, Patch, PatchRefused, Throws, vars, keyVars
      <4> QED
        BY <1>5, <3>2, <4>1 DEF Drop, Forget, TypeOK, KeyTypeOK
    <3> QED
      BY <3>1, <3>2
  <2>2. ASSUME NEW r \in Auths \cup Revokes, Return(r)
        PROVE  cache'[i][k] = cache[i][k] \/ ~cache'[i][k].live
    <3>1. CASE InstanceOf[r] = i /\ target[r] = k
      <4>1. ~found[r]
        BY <1>3, <1>5, <2>2, <3>1 DEF StaleRead, Return
      <4> QED
        BY <2>2, <3>1, <4>1 DEF Return, Remember, TypeOK, KeyTypeOK
    <3>2. CASE ~(InstanceOf[r] = i /\ target[r] = k)
      BY <2>2, <3>2 DEF Return, Remember, TypeOK, KeyTypeOK
    <3> QED
      BY <3>1, <3>2
  <2>3. ASSUME NEW r \in Exchanges \cup Revokes, Drop(r)
        PROVE  cache'[i][k] = cache[i][k] \/ cache'[i][k] = NoEntry
    BY <2>3 DEF Drop, Forget, TypeOK, KeyTypeOK
  <2>4. (\E r \in Auths \cup Revokes : Return(r))
         \/ (\E r \in Exchanges \cup Revokes : Drop(r)) \/ cache' = cache
    BY DEF Next, Tick, ExchangeStep, ResolveStep, RevokeStep, Approve, ReadCode, Mark,
           CheckFails, CheckPasses, Insert, Link, Answer, Resolve, ReadRow, RevokeToken,
           RevokeConnection, Patch, PatchRefused, Throws, vars, keyVars
  <2> QED
    BY <2>1, <2>2, <2>3, <2>4
<1>6. \A i \in Instances, k \in Keys : <<i, k>> \in cut' => row'[k] = "revoked"
  BY <1>3, RowsLast
<1> QED
  BY <1>1, <1>2, <1>4, <1>5, <1>6 DEF CutInv, CutIsLocal

-----------------------------------------------------------------------------

IInv == TypeOK /\ CodeInv /\ CacheInv /\ CutInv

LEMMA Inductive == Spec => []IInv
<1>1. Init => IInv
  BY InitTyped, InitCodeInv, InitCacheInv DEF IInv
<1>2. IInv /\ [Next]_vars => IInv'
  BY StepTyped, StepCodeInv, StepCacheInv, StepCutInv DEF IInv
<1> QED
  BY <1>1, <1>2, PTL DEF Spec

(* The state of the tables, caches and requests is well typed.             *)
THEOREM TypeCorrect == Spec => []TypeOK
<1>1. IInv => TypeOK
  BY DEF IInv
<1> QED
  BY <1>1, Inductive, PTL

(* However many exchanges race, a code becomes one key at most.            *)
THEOREM AlwaysOneKeyPerCode == Spec => []OneKeyPerCode
<1>1. IInv => OneKeyPerCode
  BY DEF IInv, CodeInv, KeyEndsCode
<1> QED
  BY <1>1, Inductive, PTL

(* The record of a code names the key that the app holds from it.          *)
THEOREM AlwaysHeldKeyIsLinked == Spec => []HeldKeyIsLinked
<1>1. IInv => HeldKeyIsLinked
  BY DEF IInv, CodeInv, Links, HeldKeyIsLinked
<1> QED
  BY <1>1, Inductive, PTL

(* A replay refused after the app had its key leaves that key revoked.     *)
THEOREM AlwaysReplayKills == Spec => []ReplayKills
<1>1. IInv => ReplayKills
  <2> SUFFICES ASSUME IInv, NEW x \in late, pc[x] = "refused",
                      NEW k \in Keys, from[k] = CodeOf[x]
               PROVE  row[k] = "revoked"
    BY DEF ReplayKills
  <2>1. x \in Exchanges /\ CodeOf[x] \in Codes
    BY DEF IInv, TypeOK
  <2>2. /\ linked[CodeOf[x]] \in Keys
        /\ from[linked[CodeOf[x]]] = CodeOf[x]
        /\ row[linked[CodeOf[x]]] = "revoked"
    BY <2>1 DEF IInv, CodeInv, Replays, Links
  <2>3. k = linked[CodeOf[x]]
    BY <2>1, <2>2 DEF IInv, CodeInv, KeyEndsCode, OneKeyPerCode
  <2> QED
    BY <2>2, <2>3
<1> QED
  BY <1>1, Inductive, PTL

(* An attempt that fails its checks uses the code up for good.             *)
THEOREM AlwaysBurntStaysBurnt == Spec => []BurntStaysBurnt
<1>1. IInv => BurntStaysBurnt
  BY DEF IInv, CodeInv, KeyEndsCode, BurntStaysBurnt
<1> QED
  BY <1>1, Inductive, PTL

(* A code is spent once, by the exchange that gets its key or by an        *)
(* attempt that fails.                                                     *)
THEOREM AlwaysCodeIsSpentOnce == Spec => []CodeIsSpentOnce
  BY AlwaysOneKeyPerCode, AlwaysBurntStaysBurnt, PTL DEF CodeIsSpentOnce

(* A replay finds the key the app holds, and revokes it.                   *)
THEOREM AlwaysReplayReaches == Spec => []ReplayReaches
  BY AlwaysHeldKeyIsLinked, AlwaysReplayKills, PTL DEF ReplayReaches

(* A revoked key is out of the cache of the instance that revoked it.      *)
THEOREM AlwaysCutIsLocal == Spec => []CutIsLocal
<1>1. IInv => CutIsLocal
  BY DEF IInv, CutInv
<1> QED
  BY <1>1, Inductive, PTL

(* No instance accepts a key longer than the cache time after its revoke,  *)
(* other than in a call that began before.                                 *)
THEOREM OnlyRecentAccepted == Spec => AcceptedIsRecent
<1> DEFINE Recent(r) ==
      pc[r] # "accepted" /\ pc'[r] = "accepted" =>
        LET k == target'[r] IN
        \/ row[k] = "active"
        \/ row[k] = "revoked" /\ now < diedAt[k] + CacheTtl
        \/ row[k] = "revoked" /\ pc[r] = "read" /\ asked[r] <= diedAt[k]
<1>1. ASSUME IInv, [Next]_vars, NEW r \in Auths \cup Revokes PROVE Recent(r)
  <2> SUFFICES ASSUME pc[r] # "accepted", pc'[r] = "accepted"
               PROVE  LET k == target'[r] IN
                      \/ row[k] = "active"
                      \/ row[k] = "revoked" /\ now < diedAt[k] + CacheTtl
                      \/ row[k] = "revoked" /\ pc[r] = "read" /\ asked[r] <= diedAt[k]
    OBVIOUS
  <2>1. Resolve(r) \/ Return(r)
    BY <1>1, StepMovesOne
    DEF IInv, ResolveStep, ReadRow, RevokeToken, RevokeConnection, RevokeStep, RevokeEnd, Patch,
        PatchRefused, Drop, Throws, Queries, Resumed, TypeOK, Requests, Goto, Answered
  <2>2. CASE Resolve(r)
    <3>1. PICK k \in Bearer :
            target'[r] = k /\ CacheHit(InstanceOf[r], k) /\ cache[InstanceOf[r]][k].live
      BY <1>1, <2>2 DEF Resolve, IInv, TypeOK, Requests, Goto, Aim
    <3>2. k \in Keys /\ InstanceOf[r] \in Instances
      BY <1>1, <3>1, BearerIsIssued DEF IInv, Requests
    <3>3. Truthful(k, cache[InstanceOf[r]][k].at)
      BY <1>1, <3>1, <3>2 DEF IInv, CacheInv, CacheHit
    <3>4. PICK t \in Times : t = cache[InstanceOf[r]][k].at
      BY <1>1, <3>1, <3>2 DEF IInv, CacheHit, TypeOK, KeyTypeOK
    <3>5. now - t < CacheTtl /\ (row[k] = "revoked" => t <= diedAt[k]) /\ row[k] # "none"
      BY <3>1, <3>3, <3>4 DEF CacheHit, Truthful
    <3>6. now \in Nat /\ t \in Nat /\ diedAt[k] \in Nat /\ row[k] \in {"none", "active", "revoked"}
      BY <1>1, <3>2 DEF IInv, TypeOK, KeyTypeOK, Times
    <3>7. row[k] = "revoked" => now < diedAt[k] + CacheTtl
      BY <3>5, <3>6
    <3> QED
      BY <3>1, <3>5, <3>6, <3>7
  <2>3. CASE Return(r)
    <3>1. pc[r] = "read" /\ found[r] /\ target'[r] = target[r] /\ target[r] \in Keys
      BY <1>1, <2>3 DEF Return, IInv, CacheInv, TypeOK, Requests, Goto
    <3>2. Truthful(target[r], asked[r])
      BY <1>1, <3>1 DEF IInv, CacheInv
    <3> QED
      BY <1>1, <3>1, <3>2 DEF Truthful, IInv, TypeOK, KeyTypeOK
  <2> QED
    BY <2>1, <2>2, <2>3
<1>2. IInv /\ [Next]_vars => [\A r \in Auths \cup Revokes : Recent(r)]_vars
  BY <1>1
<1> QED
  BY <1>2, Inductive, PTL DEF Spec, AcceptedIsRecent
=============================================================================
