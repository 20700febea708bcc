------------------------------ MODULE SpendGates ------------------------------
(***************************************************************************)
(* The three spend meters of the gateway and the gates that read them: the *)
(* per-key breaker and the project bucket, which a process keeps in memory *)
(* (spend.ts), and the project's row of the UTC day in the shared store    *)
(* (project-caps.ts).  A gate reads its meter when a request comes in; the *)
(* meter is written when the request is done.                              *)
(*                                                                         *)
(* A lane is a client that sends one request after another.  The estimate  *)
(* of a request is the constant 0 of the code, so a gate looks at what was *)
(* spent only.                                                             *)
(***************************************************************************)
EXTENDS Integers, FiniteSets, Functions

CONSTANTS
  Lanes,           (* clients, each with one request at a time             *)
  SpendInstances,  (* gateway processes                                    *)
  SpendKeys,       (* API keys of the project                              *)
  LaneHome,        (* the process a lane is routed to                      *)
  LaneKey,         (* the key a lane uses                                  *)
  WalletBound,     (* keys whose account has a wallet: requests are debited *)
  KeyCeiling, ProjectCeiling, DayCap,
  RequestCosts, MaxCost,        (* what requests cost; the dearest         *)
  Window, DayLength, MaxClock,  (* bound of the clock                      *)
  MaxRequests,     (* bound on the requests of a behaviour                 *)
  NoBucket

ASSUME SpendAssumption ==
  /\ LaneHome \in [Lanes -> SpendInstances]
  /\ LaneKey \in [Lanes -> SpendKeys]
  /\ WalletBound \subseteq SpendKeys
  /\ IsFiniteSet(Lanes)
  /\ IsFiniteSet(SpendInstances)
  /\ IsFiniteSet(SpendKeys)
  /\ KeyCeiling \in Nat \ {0}
  /\ ProjectCeiling \in Nat \ {0}
  /\ DayCap \in Nat
  /\ MaxCost \in Nat
  /\ RequestCosts \subseteq 0 .. MaxCost
  /\ Window \in Nat \ {0}
  /\ DayLength \in Nat \ {0}
  /\ MaxClock \in Nat
  /\ MaxRequests \in Nat

VARIABLES
  spendPc,   (* where the request of a lane stands                         *)
  route,     (* chat or messages                                           *)
  asked,     (* the day whose row it asked for                             *)
  rowSaid,   (* what the row answered                                      *)
  owed,      (* the cost whose debit is awaited                            *)
  spentByKey, (* MemorySpendTracker.spentByKey, per process                *)
  bucket,    (* MemorySpendTracker.projectBuckets, per process             *)
  dayRow,    (* shipyard_spend_windows.spent_usd of the project, per day   *)
  adds,      (* adds under way to the store: how many of a day and amount  *)
  debited,   (* credit ledger: what requests of a key were debited         *)
  clock,
  arrived,   (* number of requests so far                                  *)
  viaMessages, spendFault  (* billed on /v1/messages; a fault happened;
                              only properties read them                    *)

laneVars  == <<spendPc, route, asked, rowSaid, owed>>
meterVars == <<spentByKey, bucket, dayRow, adds, debited>>
spendVars == <<laneVars, meterVars, clock, arrived, viaMessages, spendFault>>

Day(t) == t \div DayLength
Days == {Day(t) : t \in 0 .. MaxClock}
Buckets == [amount : Nat, start : 0 .. MaxClock]

SpendTypeOK ==
  /\ spendPc \in [Lanes -> {"idle", "capping", "gating", "serving", "debiting"}]
  /\ route \in [Lanes -> {"chat", "messages"}]
  /\ asked \in [Lanes -> Days]
  /\ rowSaid \in [Lanes -> Nat]
  /\ owed \in [Lanes -> Nat]
  /\ spentByKey \in [SpendInstances -> [SpendKeys -> Nat]]
  /\ bucket \in [SpendInstances -> Buckets \cup {NoBucket}]
  /\ dayRow \in [Days -> Nat]
  /\ adds \in [Days \X (RequestCosts \ {0}) -> Nat]
  /\ debited \in [SpendKeys -> Nat]
  /\ clock \in 0 .. MaxClock
  /\ arrived \in 0 .. MaxRequests
  /\ viaMessages \in Nat
  /\ spendFault \in BOOLEAN

SpendInit ==
  /\ spendPc = [l \in Lanes |-> "idle"]
  /\ route = [l \in Lanes |-> "chat"]
  /\ asked = [l \in Lanes |-> 0]
  /\ rowSaid = [l \in Lanes |-> 0]
  /\ owed = [l \in Lanes |-> 0]
  /\ spentByKey = [i \in SpendInstances |-> [k \in SpendKeys |-> 0]]
  /\ bucket = [i \in SpendInstances |-> NoBucket]
  /\ dayRow = [d \in Days |-> 0]
  /\ adds = [a \in Days \X (RequestCosts \ {0}) |-> 0]
  /\ debited = [k \in SpendKeys |-> 0]
  /\ clock = 0
  /\ arrived = 0
  /\ viaMessages = 0
  /\ spendFault = FALSE

Step(l, from, to) ==
  /\ spendPc[l] = from
  /\ spendPc' = [spendPc EXCEPT ![l] = to]

-----------------------------------------------------------------------------
(* The gates, in the order of the handler.                                 *)

(* overProjectCap: the day is taken before the read is awaited.            *)
Arrive(l) ==
  /\ arrived < MaxRequests
  /\ Step(l, "idle", "capping")
  /\ route' \in {[route EXCEPT ![l] = r] : r \in {"chat", "messages"}}
  /\ asked' = [asked EXCEPT ![l] = Day(clock)]
  /\ arrived' = arrived + 1
  /\ UNCHANGED <<rowSaid, owed, meterVars, clock, viaMessages, spendFault>>

RowAnswers(l) ==
  /\ Step(l, "capping", "gating")
  /\ rowSaid' = [rowSaid EXCEPT ![l] = dayRow[asked[l]]]
  /\ asked' = [asked EXCEPT ![l] = 0]
  /\ UNCHANGED <<route, owed, meterVars, clock, arrived, viaMessages, spendFault>>

OverCap(l) ==
  /\ rowSaid[l] >= DayCap
  /\ Step(l, "gating", "idle")
  /\ rowSaid' = [rowSaid EXCEPT ![l] = 0]
  /\ UNCHANGED <<route, asked, owed, meterVars, clock, arrived, viaMessages, spendFault>>

Expired(b) == b # NoBucket /\ clock - b.start >= Window

(* projectBucket: a bucket whose window is over is dropped when it is read. *)
Fresh(b) == IF Expired(b) THEN NoBucket ELSE b

(* Mutant: the project is blocked only beyond its ceiling.                 *)
ProjectDrained_beyond(i) == Fresh(bucket[i]) # NoBucket /\ bucket[i].amount > ProjectCeiling

ProjectDrained(i) == Fresh(bucket[i]) # NoBucket /\ bucket[i].amount >= ProjectCeiling

KeyBlown(i, k) == spentByKey[i][k] > 0 /\ spentByKey[i][k] >= KeyCeiling

(* checkProject and check, which only chat completions run.  What comes    *)
(* next, the body, the balance and the connection's hold, may refuse too.  *)
Gates(l) ==
  LET i == LaneHome[l] IN
  /\ IF route[l] = "chat" /\ (ProjectDrained(i) \/ KeyBlown(i, LaneKey[l]))
     THEN spendPc' = [spendPc EXCEPT ![l] = "idle"]
     ELSE spendPc' \in {[spendPc EXCEPT ![l] = p] : p \in {"serving", "idle"}}
  /\ bucket' = IF route[l] = "chat" THEN [bucket EXCEPT ![i] = Fresh(@)] ELSE bucket
  /\ rowSaid' = [rowSaid EXCEPT ![l] = 0]
  /\ asked' = [asked EXCEPT ![l] = 0]
  /\ UNCHANGED <<route, owed, spentByKey, dayRow, adds, debited, clock, arrived,
                 viaMessages>>

UnderCap(l) ==
  /\ spendPc[l] = "gating"
  /\ rowSaid[l] < DayCap
  /\ Gates(l)
  /\ UNCHANGED spendFault

(* The store fails and the cap fails open.                                 *)
RowFails(l) ==
  /\ spendPc[l] = "capping"
  /\ Gates(l)
  /\ spendFault' = TRUE

-----------------------------------------------------------------------------
(* The end of a request.                                                   *)

(* Mutant: what was not billed is added too.                               *)
SendAdd_anyOutcome(cost, billed) ==
  adds' = IF cost > 0 THEN [adds EXCEPT ![<<Day(clock), cost>>] = @ + 1] ELSE adds

(* recordProjectSpend: an add to the row of this moment's day, in the
   background.                                                             *)
SendAdd(cost, billed) ==
  adds' = IF billed /\ cost > 0
          THEN [adds EXCEPT ![<<Day(clock), cost>>] = @ + 1]
          ELSE adds

Topped(b, cost) ==
  IF b # NoBucket /\ ~Expired(b)
  THEN [b EXCEPT !.amount = @ + cost]
  ELSE [amount |-> cost, start |-> clock]

(* tracker.record and tracker.recordProject.                               *)
Record(l, cost) ==
  LET i == LaneHome[l] IN
  /\ spentByKey' = [spentByKey EXCEPT ![i][LaneKey[l]] = @ + cost]
  /\ bucket' = [bucket EXCEPT ![i] = Topped(@, cost)]

(* recordSpend after a chat: the add goes out, then the debit is awaited,  *)
(* and the breaker learns of the cost after that.                          *)
ChatDone(l, cost, billed) ==
  /\ route[l] = "chat"
  /\ SendAdd(cost, billed)
  /\ IF billed /\ cost > 0
     THEN IF LaneKey[l] \in WalletBound
          THEN /\ Step(l, "serving", "debiting")
               /\ owed' = [owed EXCEPT ![l] = cost]
               /\ UNCHANGED <<spentByKey, bucket>>
          ELSE /\ Step(l, "serving", "idle")
               /\ Record(l, cost)
               /\ UNCHANGED owed
     ELSE Step(l, "serving", "idle") /\ UNCHANGED <<owed, spentByKey, bucket>>
  /\ UNCHANGED <<route, asked, rowSaid, dayRow, debited, clock, arrived, viaMessages, spendFault>>

(* /v1/messages records on the day row and nowhere else.                   *)
MessagesDone(l, cost, billed) ==
  /\ route[l] = "messages"
  /\ Step(l, "serving", "idle")
  /\ SendAdd(cost, billed)
  /\ viaMessages' = IF billed THEN viaMessages + cost ELSE viaMessages
  /\ UNCHANGED <<route, asked, rowSaid, owed, spentByKey, bucket, dayRow, debited, clock,
                arrived, spendFault>>

(* The upstream failed, or its stream broke: nothing is recorded.          *)
RequestFails(l) ==
  /\ Step(l, "serving", "idle")
  /\ UNCHANGED <<route, asked, rowSaid, owed, meterVars, clock, arrived, viaMessages, spendFault>>

(* debitRequest has written its row.                                       *)
Debited(l) ==
  /\ Step(l, "debiting", "idle")
  /\ debited' = [debited EXCEPT ![LaneKey[l]] = @ + owed[l]]
  /\ owed' = [owed EXCEPT ![l] = 0]
  /\ Record(l, owed[l])
  /\ UNCHANGED <<route, asked, rowSaid, dayRow, adds, clock, arrived, viaMessages, spendFault>>

(* The debit throws, before or after its row was written: the breaker never
   learns of the cost.                                                     *)
DebitFails(l) ==
  /\ Step(l, "debiting", "idle")
  /\ debited' \in {debited, [debited EXCEPT ![LaneKey[l]] = @ + owed[l]]}
  /\ owed' = [owed EXCEPT ![l] = 0]
  /\ spendFault' = TRUE
  /\ UNCHANGED <<route, asked, rowSaid, spentByKey, bucket, dayRow, adds, clock, arrived,
                viaMessages>>

-----------------------------------------------------------------------------
(* The store, the clock and cold starts.                                   *)

AddLands(a) ==
  /\ adds[a] > 0
  /\ adds' = [adds EXCEPT ![a] = @ - 1]
  /\ dayRow' = [dayRow EXCEPT ![a[1]] = @ + a[2]]
  /\ UNCHANGED <<laneVars, spentByKey, bucket, debited, clock, arrived, viaMessages,
                spendFault>>

(* The error of an add is logged and swallowed.                            *)
AddFails(a) ==
  /\ adds[a] > 0
  /\ adds' = [adds EXCEPT ![a] = @ - 1]
  /\ spendFault' = TRUE
  /\ UNCHANGED <<laneVars, spentByKey, bucket, dayRow, debited, clock, arrived, viaMessages>>

Tick ==
  /\ clock < MaxClock
  /\ clock' = clock + 1
  /\ UNCHANGED <<laneVars, meterVars, arrived, viaMessages, spendFault>>

(* A new process starts with an empty tracker; the requests of the old one *)
(* are gone.                                                               *)
SpendColdStart(i) ==
  /\ spentByKey' = [spentByKey EXCEPT ![i] = [k \in SpendKeys |-> 0]]
  /\ bucket' = [bucket EXCEPT ![i] = NoBucket]
  /\ spendPc' = [l \in Lanes |-> IF LaneHome[l] = i THEN "idle" ELSE spendPc[l]]
  /\ owed' = [l \in Lanes |-> IF LaneHome[l] = i THEN 0 ELSE owed[l]]
  /\ spendFault' = TRUE
  /\ UNCHANGED <<route, asked, rowSaid, dayRow, adds, debited, clock, arrived, viaMessages>>

SpendNext ==
  \/ \E l \in Lanes :
       \/ Arrive(l) \/ RowAnswers(l) \/ OverCap(l) \/ UnderCap(l) \/ RowFails(l)
       \/ RequestFails(l) \/ Debited(l) \/ DebitFails(l)
       \/ \E cost \in RequestCosts, billed \in BOOLEAN :
            ChatDone(l, cost, billed) \/ MessagesDone(l, cost, billed)
  \/ \E a \in DOMAIN adds : AddLands(a) \/ AddFails(a)
  \/ Tick
  \/ \E i \in SpendInstances : SpendColdStart(i)

SpendSpec == SpendInit /\ [][SpendNext]_spendVars

-----------------------------------------------------------------------------
(* Properties.                                                             *)

LanesOf(i, k) == {l \in Lanes : LaneHome[l] = i /\ LaneKey[l] = k}

(* What a key, or all keys together within a window, can spend on one      *)
(* process beyond the ceiling is one dearest request for each of its       *)
(* clients: the requests admitted before the ceiling was reached, however  *)
(* many requests were sent, windows passed and debits awaited              *)
(* (check, checkProject, record, recordProject).                           *)
BreakerOvershoot ==
  \A i \in SpendInstances :
    /\ \A k \in SpendKeys :
         spentByKey[i][k] <= KeyCeiling - 1 + Cardinality(LanesOf(i, k)) * MaxCost
    /\ bucket[i] # NoBucket =>
         bucket[i].amount <= ProjectCeiling - 1
                             + Cardinality({l \in Lanes : LaneHome[l] = i}) * MaxCost

(* The meters: the rows of the days, the adds under way to them, and what  *)
(* the breakers of all processes have recorded of a key, or of all keys.   *)
OnRows == SumFunctionOnSet(dayRow, Days)

UnderWay == SumFunctionOnSet([a \in DOMAIN adds |-> adds[a] * a[2]], DOMAIN adds)

RecordedOf(k) ==
  SumFunctionOnSet([i \in SpendInstances |-> spentByKey[i][k]], SpendInstances)

Recorded == SumFunctionOnSet([k \in SpendKeys |-> RecordedOf(k)], SpendKeys)

(* Without failures the three meters tell the same story: what is on the   *)
(* rows of the days or under way to them is what the breakers of all       *)
(* processes have recorded, what is being debited and what /v1/messages    *)
(* served; and the keys with a wallet were debited what their breakers     *)
(* recorded (recordSpend, recordProjectSpend, debitRequest).               *)
MetersAgree ==
  ~spendFault =>
    /\ OnRows + UnderWay = Recorded + SumFunctionOnSet(owed, Lanes) + viaMessages
    /\ \A k \in WalletBound : debited[k] = RecordedOf(k)
=============================================================================
