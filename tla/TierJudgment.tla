----------------------------- MODULE TierJudgment -----------------------------
(***************************************************************************)
(* The tier a request is routed at: createJevTierInferrer asks a chain of  *)
(* decision backends to judge the request, and keeps what they said in a   *)
(* cache of the process.  The last backend is the stub, which always       *)
(* answers, with no confidence.                                            *)
(*                                                                         *)
(* The state sent to a backend leaves out what follows the latest message  *)
(* of the user, and the cache is keyed by that state: requests of one turn *)
(* share a key and may differ in size.  A tier is its TIER_RANK.           *)
(***************************************************************************)
EXTENDS Integers, Sequences, FiniteSets, SequencesExt

CONSTANTS
  Askers,          (* requests under way, each followed by others          *)
  Asks,            (* what requests ask: state, bounded, floor, structural *)
  LiveBackends,    (* backends before the stub                             *)
  Answers,         (* what a live backend may answer                       *)
  OnLow,           (* onLowConfidence: escalate or fallback                *)
  TopTier,         (* maxTier; 2 when there is no cap                      *)
  DecisionTtl, DecisionMax,
  MaxAsks, MaxTierClock,   (* bounds on requests and on the clock          *)
  NoAsk, NoVerdict

Tiers == 0 .. 2

ASSUME TierAssumption ==
  /\ IsFiniteSet(Askers)
  /\ \A q \in Asks : /\ q.bounded \in BOOLEAN
                     /\ q.floor \in Tiers /\ q.structural \in Tiers
  /\ LiveBackends \in Nat \ {0}
  /\ \A w \in Answers : /\ w.choice \in Tiers /\ w.sure \in BOOLEAN
                        /\ w.reasoning \in {"weak", "strong", "very"}
  /\ TopTier \in Tiers
  /\ DecisionTtl \in Nat
  /\ DecisionMax \in Nat \ {0}
  /\ MaxAsks \in Nat
  /\ MaxTierClock \in Nat
  /\ NoAsk \notin Asks

VARIABLES
  asking,      (* where the inferrer stands for each request               *)
  ask,         (* what the request asks                                    *)
  backend,     (* the backend being asked, in the order of the chain       *)
  verdict,     (* the tier it is routed at, who judged it and how sure     *)
  decisions,   (* cache, in the order of its entries                       *)
  tierClock, asks

tierVars == <<asking, ask, backend, verdict, decisions, tierClock, asks>>

Backends == 1 .. LiveBackends + 1
Stub == LiveBackends + 1

Verdicts == [tier : Tiers, source : {"jev", "structural"}, by : Backends, sure : BOOLEAN]

(* Mutant: one key for requests that may fall back and those that may not. *)
Key_shared(q) == <<q.state>>

(* The key of a request in the cache.                                      *)
Key(q) == <<q.bounded, q.state>>

CacheEntries == [key : {Key(q) : q \in Asks}, at : 0 .. MaxTierClock, verdict : Verdicts]

TierTypeOK ==
  /\ asking \in [Askers -> {"idle", "judging", "routed", "refused"}]
  /\ ask \in [Askers -> Asks \cup {NoAsk}]
  /\ backend \in [Askers -> Backends]
  /\ verdict \in [Askers -> Verdicts \cup {NoVerdict}]
  /\ decisions \in Seq(CacheEntries)
  /\ tierClock \in 0 .. MaxTierClock
  /\ asks \in 0 .. MaxAsks

TierInit ==
  /\ asking = [a \in Askers |-> "idle"]
  /\ ask = [a \in Askers |-> NoAsk]
  /\ backend = [a \in Askers |-> 1]
  /\ verdict = [a \in Askers |-> NoVerdict]
  /\ decisions = <<>>
  /\ tierClock = 0
  /\ asks = 0

-----------------------------------------------------------------------------
(* The cache: a Map, whose entries keep the place of their first set.      *)

Entries(q) == {n \in DOMAIN decisions : decisions[n].key = Key(q)}

Fresh(n) == tierClock - decisions[n].at <= DecisionTtl

(* The oldest entry makes room, before the judgment is awaited.            *)
Evicted(s) == IF Len(s) >= DecisionMax THEN Tail(s) ELSE s

Place(q) == CHOOSE n \in Entries(q) : TRUE

Without(q) == IF Entries(q) = {} THEN decisions ELSE RemoveAt(decisions, Place(q))

With(q, v) ==
  LET entry == [key |-> Key(q), at |-> tierClock, verdict |-> v]
  IN IF Entries(q) = {}
     THEN Append(decisions, entry)
     ELSE [decisions EXCEPT ![Place(q)] = entry]

-----------------------------------------------------------------------------
(* A request comes in.                                                     *)

Asked(a, q) ==
  /\ asking[a] # "judging"
  /\ asks < MaxAsks
  /\ asks' = asks + 1
  /\ ask' = [ask EXCEPT ![a] = q]
  /\ backend' = [backend EXCEPT ![a] = 1]
  /\ UNCHANGED tierClock

CacheHit(a, q) ==
  /\ Asked(a, q)
  /\ \E n \in Entries(q) :
       /\ Fresh(n)
       /\ verdict' = [verdict EXCEPT ![a] = decisions[n].verdict]
  /\ asking' = [asking EXCEPT ![a] = "routed"]
  /\ UNCHANGED decisions

CacheMiss(a, q) ==
  /\ Asked(a, q)
  /\ \A n \in Entries(q) : ~Fresh(n)
  /\ decisions' = Evicted(Without(q))
  /\ asking' = [asking EXCEPT ![a] = "judging"]
  /\ verdict' = [verdict EXCEPT ![a] = NoVerdict]

-----------------------------------------------------------------------------
(* The chain is asked.  A bounded request asks the first backend only.     *)

(* The catch block: a bounded request is refused, any other is routed by   *)
(* the heuristics on its size, and nothing is kept.                        *)
GivesUp(a) ==
  /\ IF ask[a].bounded
     THEN asking' = [asking EXCEPT ![a] = "refused"] /\ UNCHANGED verdict
     ELSE /\ asking' = [asking EXCEPT ![a] = "routed"]
          /\ verdict' = [verdict EXCEPT ![a] =
               [tier |-> ask[a].structural, source |-> "structural",
                by |-> backend[a], sure |-> FALSE]]
  /\ UNCHANGED <<ask, backend, decisions, tierClock, asks>>

BackendFails(a) ==
  /\ asking[a] = "judging"
  /\ backend[a] # Stub
  /\ ~ask[a].bounded
  /\ backend' = [backend EXCEPT ![a] = @ + 1]
  /\ UNCHANGED <<asking, ask, verdict, decisions, tierClock, asks>>

(* The first backend fails a bounded request, or the timeout of the whole  *)
(* chain fires (an answer after it is dropped), or a live backend answers  *)
(* something else than it was asked.                                       *)
JudgmentFails(a) == asking[a] = "judging" /\ GivesUp(a)

AnswersOf(b) == IF b = Stub THEN {[choice |-> 0, sure |-> FALSE, reasoning |-> "weak"]} ELSE Answers

Rejected(a, w) == ~w.sure /\ (OnLow = "fallback" \/ ask[a].bounded)

AtLeast(m, n) == IF m < n THEN n ELSE m
AtMost(m, n)  == IF m > n THEN n ELSE m

(* One tier up when unsure, then the floors: of a need for reasoning, and  *)
(* of the size of the request; then the cap.                               *)
Judged(q, w) ==
  LET raised == IF w.sure THEN w.choice ELSE AtMost(w.choice + 1, 2)
      need   == CASE w.reasoning = "very" -> 2 [] w.reasoning = "strong" -> 1 [] OTHER -> 0
  IN AtMost(AtLeast(AtLeast(raised, need), q.floor), TopTier)

BackendAnswers(a, w) ==
  /\ asking[a] = "judging"
  /\ w \in AnswersOf(backend[a])
  /\ IF Rejected(a, w)
     THEN GivesUp(a)
     ELSE LET v == [tier |-> Judged(ask[a], w), source |-> "jev",
                    by |-> backend[a], sure |-> w.sure]
          IN /\ verdict' = [verdict EXCEPT ![a] = v]
             /\ decisions' = With(ask[a], v)
             /\ asking' = [asking EXCEPT ![a] = "routed"]
             /\ UNCHANGED <<ask, backend, tierClock, asks>>

TierTick ==
  /\ tierClock < MaxTierClock
  /\ tierClock' = tierClock + 1
  /\ UNCHANGED <<asking, ask, backend, verdict, decisions, asks>>

TierNext ==
  \/ TierTick
  \/ \E a \in Askers :
       \/ \E q \in Asks : CacheHit(a, q) \/ CacheMiss(a, q)
       \/ BackendFails(a) \/ JudgmentFails(a)
       \/ \E w \in AnswersOf(backend[a]) : BackendAnswers(a, w)

TierSpec == TierInit /\ [][TierNext]_tierVars

-----------------------------------------------------------------------------
(* Properties.                                                             *)

(* A request that allows no fallback is routed by a judgment that the      *)
(* first backend made and was sure of, even when it is served by the cache *)
(* and others, of the same state, were judged by whoever answered          *)
(* (infer, decideOnce).                                                    *)
BoundedIsJudged ==
  \A a \in Askers :
    asking[a] = "routed" /\ ask[a].bounded =>
      verdict[a].source = "jev" /\ verdict[a].by = 1 /\ verdict[a].sure

(* Room in the cache is made before a judgment is awaited and taken after  *)
(* it: the cache grows beyond its maximum, by no more than one entry per   *)
(* other request being judged (infer).                                     *)
DecisionsOvershoot == Len(decisions) <= DecisionMax - 1 + Cardinality(Askers)

(* What the doc comment of combine says of 'max': the effective tier is    *)
(* the higher of the judgment and of the floor, so a request known to be   *)
(* big is never undercut.                                                  *)
FloorIsNeverUndercut ==
  \A a \in Askers :
    asking[a] = "routed" /\ verdict[a].source = "jev" =>
      verdict[a].tier >= AtMost(ask[a].floor, TopTier)
=============================================================================
