---------------------------- MODULE OAuthConnect ----------------------------
(***************************************************************************)
(* A third-party app connects through OAuth: a user approves, the app      *)
(* exchanges the code for a gateway key, uses the key, and the key is      *)
(* revoked by its user, by the app, or because its code came again.        *)
(*                                                                         *)
(* Requests run on instances that share the tables of codes and of keys.   *)
(* Between two awaited queries a handler is a single step; pc names the    *)
(* query it awaits.  A query may throw, and its instance may stop: then    *)
(* the handler is gone, and the table may still run what was sent.         *)
(***************************************************************************)
EXTENDS ApiKeys

CONSTANTS
  Codes,      (* authorization codes                                       *)
  Exchanges,  (* calls of POST /oauth/token                                *)
  Auths,      (* calls of the gateway that resolve a bearer key            *)
  Revokes,    (* calls of /oauth/revoke and /oauth/connections/:id/revoke  *)
  CodeOf,     (* the code an exchange presents                             *)
  InstanceOf, (* the instance that serves a request                        *)
  CodeTtl,    (* CODE_TTL_MS                                               *)
  NoKey, NoCode

Requests == Exchanges \cup Auths \cup Revokes

ASSUME OAuthAssumption ==
  /\ CodeOf \in [Exchanges -> Codes]
  /\ InstanceOf \in [Requests -> Instances]
  /\ CodeTtl \in Nat
  /\ NoKey \notin Keys
  /\ NoCode \notin Codes
  /\ Exchanges \cap (Auths \cup Revokes) = {}
  /\ Auths \cap Revokes = {}

VARIABLES
  approved,  (* the codes a user has approved, whose records exist         *)
  expiresAt, (* AuthCodeRecord.expiresAt                                   *)
  consumed,  (* AuthCodeRecord.consumed                                    *)
  linked,    (* AuthCodeRecord.issuedKeyId                                 *)
  pc,        (* the query a request awaits, or how it ended                *)
  gone,      (* its handler no longer waits for the query it sent          *)
  target,    (* the key a request issues, resolves or revokes              *)
  asked,     (* the time resolve takes before its query                    *)
  found,     (* what the query of resolve found                            *)
  from,      (* the code each key was issued for; only properties read it  *)
  late,      (* exchanges that came after the app had its key; likewise    *)
  cut        (* where a revoke is complete and no older read of the key is
                under way; likewise                                        *)

codeVars == <<approved, expiresAt, consumed, linked>>
reqVars  == <<pc, gone, target, asked, found>>
vars     == <<keyVars, codeVars, reqVars, from, late, cut>>

(* A request awaits these queries.                                         *)
Queries == {"marking", "issuing", "linking", "patching", "reading"}
(* Here it has the answer of a query and has not gone on.                  *)
Resumed == {"marked", "linkedUp", "patched", "read"}
Ends    == {"answered", "refused", "burnt", "unpatched", "failed", "accepted", "done"}

TypeOK ==
  /\ KeyTypeOK
  /\ approved \subseteq Codes
  /\ expiresAt \in [Codes -> 0..(MaxTime + CodeTtl)]
  /\ consumed \subseteq Codes
  /\ linked \in [Codes -> Keys \cup {NoKey}]
  /\ pc \in [Requests -> {"idle"} \cup Queries \cup Resumed \cup Ends]
  /\ gone \subseteq Requests
  /\ target \in [Requests -> Keys \cup {NoKey}]
  /\ asked \in [Requests -> Times]
  /\ found \in [Requests -> BOOLEAN]
  /\ from \in [Keys -> Codes \cup {NoCode}]
  /\ late \subseteq Exchanges
  /\ cut \subseteq Instances \X Keys

Init ==
  /\ KeyInit
  /\ approved = {}
  /\ expiresAt = [c \in Codes |-> 0]
  /\ consumed = {}
  /\ linked = [c \in Codes |-> NoKey]
  /\ pc = [r \in Requests |-> "idle"]
  /\ gone = {}
  /\ target = [r \in Requests |-> NoKey]
  /\ asked = [r \in Requests |-> 0]
  /\ found = [r \in Requests |-> FALSE]
  /\ from = [k \in Keys |-> NoCode]
  /\ late = {}
  /\ cut = {}

-----------------------------------------------------------------------------

Goto(r, p) == pc' = [pc EXCEPT ![r] = p]

(* The table has run a query: its handler goes on, if there still is one.  *)
Answered(r, p) == Goto(r, IF r \in gone THEN "failed" ELSE p)

Aim(r, k) == target' = [target EXCEPT ![r] = k]

Tick ==
  /\ now < MaxTime
  /\ now' = now + 1
  /\ UNCHANGED <<row, diedAt, cache, codeVars, reqVars, from, late, cut>>

(* Mutant: a code that lives twice as long.                                *)
CodeExpiry_twice == now + 2 * CodeTtl

CodeExpiry == now + CodeTtl

(* POST /oauth/authorize: the user approves and the code's record is put.  *)
Approve(c) ==
  /\ c \notin approved
  /\ approved' = approved \cup {c}
  /\ expiresAt' = [expiresAt EXCEPT ![c] = CodeExpiry]
  /\ UNCHANGED <<keyVars, consumed, linked, reqVars, from, late, cut>>

-----------------------------------------------------------------------------
(* POST /oauth/token.                                                      *)

(* The app has been given the key of code c.                               *)
HandedOut(c) == \E x \in Exchanges : CodeOf[x] = c /\ pc[x] = "answered"

(* Mutant: a replay is refused and the key lives on.                       *)
ReplayKey_none(c) == NoKey

(* The key a replay of c kills, if the code's record names one.            *)
ReplayKey(c) == linked[c]

(* getCode and what follows it: a live code is marked next, a replay goes  *)
(* on to revoke the key the code's record names, or is refused.            *)
ReadCode(x) ==
  LET c == CodeOf[x] IN
  /\ pc[x] = "idle"
  /\ c \in approved
  /\ Aim(x, IF c \in consumed THEN ReplayKey(c) ELSE NoKey)
  /\ Goto(x, IF c \notin consumed THEN "marking"
             ELSE IF ReplayKey(c) # NoKey THEN "patching" ELSE "refused")
  /\ late' = IF HandedOut(c) THEN late \cup {x} ELSE late
  /\ UNCHANGED <<keyVars, codeVars, gone, asked, found, from, cut>>

(* Mutant: marking what is marked already succeeds too.                    *)
MarkWins_always(c) == TRUE

MarkWins(c) == c \notin consumed

(* markCodeConsumed, one conditional update.                               *)
Mark(x) ==
  /\ pc[x] = "marking"
  /\ consumed' = consumed \cup {CodeOf[x]}
  /\ Answered(x, IF MarkWins(CodeOf[x]) THEN "marked" ELSE "refused")
  /\ UNCHANGED <<keyVars, approved, expiresAt, linked,
                 gone, target, asked, found, from, late, cut>>

(* The code has expired, or client, redirect or verifier do not match.     *)
CheckFails(x) ==
  /\ pc[x] = "marked"
  /\ Goto(x, "burnt")
  /\ UNCHANGED <<keyVars, codeVars, gone, target, asked, found, from, late, cut>>

(* All checks pass; a fresh random key is sent to the table.               *)
CheckPasses(x) ==
  /\ pc[x] = "marked"
  /\ now <= expiresAt[CodeOf[x]]
  /\ \E k \in Keys :
       /\ row[k] = "none"
       /\ \A y \in Requests : target[y] # k
       /\ Aim(x, k)
  /\ Goto(x, "issuing")
  /\ UNCHANGED <<keyVars, codeVars, gone, asked, found, from, late, cut>>

(* The insert of issue; then updateCode is sent.  An insert that lacks the *)
(* display columns and is sent again changes nothing in between.           *)
Insert(x) ==
  /\ pc[x] = "issuing"
  /\ InsertRow(target[x])
  /\ from' = [from EXCEPT ![target[x]] = CodeOf[x]]
  /\ Answered(x, "linking")
  /\ UNCHANGED <<now, cache, codeVars, gone, target, asked, found, late, cut>>

(* updateCode.  It reads the record and writes it back; the only other     *)
(* writer of a consumed code's record is a mark that loses.                *)
Link(x) ==
  /\ pc[x] = "linking"
  /\ linked' = [linked EXCEPT ![CodeOf[x]] = target[x]]
  /\ Answered(x, "linkedUp")
  /\ UNCHANGED <<keyVars, approved, expiresAt, consumed,
                 gone, target, asked, found, from, late, cut>>

(* The response with the access token.                                     *)
Answer(x) ==
  /\ pc[x] = "linkedUp"
  /\ Goto(x, "answered")
  /\ UNCHANGED <<keyVars, codeVars, gone, target, asked, found, from, late, cut>>

-----------------------------------------------------------------------------
(* ApiKeyStore.resolve, for a call of the gateway or of /oauth/revoke.     *)

(* A bearer key is one the app was given.                                  *)
Bearer == {target[x] : x \in {y \in Exchanges : pc[y] = "answered"}}

Resolve(r) ==
  /\ pc[r] = "idle"
  /\ \E k \in Bearer :
       LET i == InstanceOf[r] IN
       /\ Aim(r, k)
       /\ asked' = [asked EXCEPT ![r] = now]
       /\ Goto(r, IF ~CacheHit(i, k) THEN "reading"
                  ELSE IF cache[i][k].live THEN "accepted" ELSE "refused")
  /\ UNCHANGED <<keyVars, codeVars, gone, found, from, late, cut>>

(* The select runs.                                                        *)
ReadRow(r) ==
  /\ pc[r] = "reading"
  /\ found' = [found EXCEPT ![r] = IsActive(target[r])]
  /\ Goto(r, "read")
  /\ UNCHANGED <<keyVars, codeVars, gone, target, asked, from, late, cut>>

(* Its rows arrive and are cached.                                         *)
Return(r) ==
  /\ pc[r] = "read"
  /\ Remember(InstanceOf[r], target[r], found[r], asked[r])
  /\ Goto(r, IF found[r] THEN "accepted" ELSE "refused")
  /\ UNCHANGED <<now, row, diedAt, codeVars, gone, target, asked, found, from, late, cut>>

-----------------------------------------------------------------------------
(* revokeInProject, on its way from a replay or from one of two endpoints. *)

(* /oauth/revoke, once the token has resolved.                             *)
RevokeToken(v) ==
  /\ pc[v] = "accepted"
  /\ Goto(v, "patching")
  /\ UNCHANGED <<keyVars, codeVars, gone, target, asked, found, from, late, cut>>

(* /oauth/connections/:keyId/revoke, for a key in the user's list.         *)
RevokeConnection(v) ==
  /\ pc[v] = "idle"
  /\ \E k \in Keys : row[k] # "none" /\ Aim(v, k)
  /\ Goto(v, "patching")
  /\ UNCHANGED <<keyVars, codeVars, gone, asked, found, from, late, cut>>

RevokeEnd(r) == IF r \in Exchanges THEN "refused" ELSE "done"

(* The update runs; its reply names the row if it was still active.        *)
Patch(r) ==
  /\ pc[r] = "patching"
  /\ RevokeRow(target[r])
  /\ Answered(r, IF IsActive(target[r]) THEN "patched" ELSE RevokeEnd(r))
  /\ UNCHANGED <<now, cache, codeVars, gone, target, asked, found, from, late, cut>>

(* The table refuses the update (!res.ok) and revokeInProject gives up.    *)
PatchRefused(r) ==
  /\ pc[r] = "patching"
  /\ Answered(r, "unpatched")
  /\ UNCHANGED <<keyVars, codeVars, gone, target, asked, found, from, late, cut>>

(* A call on instance i has read the row of k while it was active, and     *)
(* will cache it.                                                          *)
StaleRead(i, k) ==
  \E r \in Requests :
    InstanceOf[r] = i /\ target[r] = k /\ pc[r] = "read" /\ found[r]

(* The reply arrives and this instance forgets the key.                    *)
Drop(r) ==
  LET i == InstanceOf[r]
      k == target[r] IN
  /\ pc[r] = "patched"
  /\ Forget(i, k)
  /\ Goto(r, RevokeEnd(r))
  /\ cut' = IF StaleRead(i, k) THEN cut ELSE cut \cup {<<i, k>>}
  /\ UNCHANGED <<now, row, diedAt, codeVars, gone, target, asked, found, from, late>>

-----------------------------------------------------------------------------
(* An awaited query throws, or the instance stops.  A query that may write *)
(* stays where the table can still run it.                                 *)
Throws(r) ==
  /\ \/ /\ pc[r] \in Queries \ {"reading"}
        /\ r \notin gone
        /\ gone' = gone \cup {r}
        /\ UNCHANGED pc
     \/ /\ pc[r] \in Resumed \cup {"reading"}
        /\ Goto(r, "failed")
        /\ UNCHANGED gone
  /\ UNCHANGED <<keyVars, codeVars, target, asked, found, from, late, cut>>

ExchangeStep(x) ==
  \/ ReadCode(x) \/ Mark(x) \/ CheckFails(x) \/ CheckPasses(x)
  \/ Insert(x) \/ Link(x) \/ Answer(x)

ResolveStep(r) == Resolve(r) \/ ReadRow(r) \/ Return(r)

RevokeStep(r) == Patch(r) \/ PatchRefused(r) \/ Drop(r)

Next ==
  \/ Tick
  \/ \E c \in Codes : Approve(c)
  \/ \E x \in Exchanges : ExchangeStep(x)
  \/ \E r \in Auths \cup Revokes : ResolveStep(r)
  \/ \E v \in Revokes : RevokeToken(v) \/ RevokeConnection(v)
  \/ \E r \in Exchanges \cup Revokes : RevokeStep(r)
  \/ \E r \in Requests : Throws(r)

Spec == Init /\ [][Next]_vars

-----------------------------------------------------------------------------

(* A code becomes one key at most, however many exchanges present it and   *)
(* whatever order their reads and marks run in: "two concurrent exchanges  *)
(* cannot both win".                                                       *)
OneKeyPerCode ==
  \A k, l \in Keys : from[k] # NoCode /\ from[k] = from[l] => k = l

(* A key the app holds is named by its code's record, so that a later      *)
(* replay finds it: the token is sent after updateCode, never before.      *)
HeldKeyIsLinked ==
  \A x \in Exchanges : pc[x] = "answered" => linked[CodeOf[x]] = target[x]

(* When a replay of a code whose key the app holds has been refused in the *)
(* ordinary way, that key is revoked; a replay the table failed is another *)
(* matter (unpatched, failed).                                             *)
ReplayKills ==
  \A x \in late :
    pc[x] = "refused" => \A k \in Keys : from[k] = CodeOf[x] => row[k] = "revoked"

(* "Any attempt with the live code consumes it": once an attempt has       *)
(* failed its checks, no exchange gets a key for that code.                *)
BurntStaysBurnt ==
  \A x \in Exchanges :
    pc[x] = "burnt" => \A k \in Keys : from[k] # CodeOf[x]

(* A code is spent once: by the exchange that becomes a key, or by an      *)
(* attempt that fails (OneKeyPerCode, BurntStaysBurnt).                    *)
CodeIsSpentOnce == OneKeyPerCode /\ BurntStaysBurnt

(* A replay reaches the key: the record of a code names the key the app    *)
(* holds, and a replay refused since has revoked it (HeldKeyIsLinked,      *)
(* ReplayKills).                                                           *)
ReplayReaches == HeldKeyIsLinked /\ ReplayKills

(* A key is accepted only if its row is active, was active less than a TTL *)
(* ago, or was active after the accepting call began, wherever the revoke  *)
(* ran and however slow the queries are.                                   *)
AcceptedIsRecent ==
  [][\A r \in Auths \cup Revokes :
       pc[r] # "accepted" /\ pc'[r] = "accepted" =>
         LET k == target'[r] IN
         \/ row[k] = "active"
         \/ row[k] = "revoked" /\ now < diedAt[k] + CacheTtl
         \/ row[k] = "revoked" /\ pc[r] = "read" /\ asked[r] <= diedAt[k]]_vars

(* On the instance where a revoke is complete the key is out of the cache  *)
(* for good, unless a read from before the revoke was still under way.     *)
CutIsLocal ==
  \A i \in Instances, k \in Keys :
    <<i, k>> \in cut => cache[i][k] = NoEntry \/ ~cache[i][k].live
=============================================================================
