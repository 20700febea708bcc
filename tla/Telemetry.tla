------------------------------ MODULE Telemetry ------------------------------
(***************************************************************************)
(* Telemetry from its reporters to the hub: each source queues its events  *)
(* and sends them in batches, one after the other (makeReporter); the hub  *)
(* keeps a ring of recent events, appends every batch to the store, and    *)
(* rebuilds the ring from the store page by page (TelemetryHub, the        *)
(* Supabase store).  The hosted app boots the hub for every dashboard      *)
(* read, while batches come in.                                            *)
(*                                                                         *)
(* The store is external.  A page is asked for in order of time; rows of   *)
(* one time come in any order, and in another when the next page is asked. *)
(***************************************************************************)
EXTENDS Integers, Sequences, FiniteSets, SequencesExt, FiniteSetsExt

CONSTANTS
  Sources,
  Local,           (* sources in the process of the hub; others POST       *)
  BatchSize, MaxQueue,     (* of each source                               *)
  Retention, RingMax, PageSize,
  Kept,            (* rows of earlier processes, numbered per source       *)
  MaxMade,         (* bound on the events of all sources                   *)
  MaxClk,          (* bound of the clock                                   *)
  MaxRestarts      (* bound on restarts of the hub's process               *)

(* An event: its source, the number it has there, and its time.            *)
Events == [source : Sources, nr : Nat, at : Int]

ASSUME TelemetryAssumption ==
  /\ IsFiniteSet(Sources)
  /\ Local \subseteq Sources
  /\ BatchSize \in [Sources -> Nat \ {0}]
  /\ MaxQueue \in [Sources -> Nat]
  /\ Retention \in Nat
  /\ RingMax \in Nat \ {0}
  /\ PageSize \in Nat \ {0}
  /\ MaxMade \in Nat
  /\ MaxClk \in Nat
  /\ MaxRestarts \in Nat
  /\ Kept \in Seq(Events)
  /\ \A s \in Sources : \A n \in 1 .. Cardinality({e \in ToSet(Kept) : e.source = s}) :
       \E e \in ToSet(Kept) : e.source = s /\ e.nr = n
  /\ IsInjective(Kept)

VARIABLES
  made,       (* events of a source so far                                 *)
  queue,      (* queue of its reporter                                     *)
  chain,      (* inFlight: batches to be sent, the first being sent        *)
  heldBy,     (* where the first batch is: at the reporter or the hub      *)
  life,       (* open, closing, or closed                                  *)
  late,       (* batches given up by their reporter and still on the way   *)
  ring, rows, (* the hub's ring; the store's rows as inserted              *)
  appends,    (* batches whose append is under way                         *)
  boot,       (* the replay under way: where it started, what it has read;
                 for properties, the rows it owes, whether an append landed
                 meanwhile (torn), the times a page ended amid (cut), and
                 whether the ring was replayed so (ragged, tied)            *)
  clk, restarts,
  heard,      (* events the hub has heard                                  *)
  given       (* events dropped, or given to onError; with heard, read by
                 properties only                                           *)

reporterVars == <<made, queue, chain, heldBy, life, late>>
hubVars == <<ring, rows, appends, boot, heard>>
telemetryVars == <<reporterVars, hubVars, clk, restarts, given>>

NoBoot == [reading |-> FALSE, since |-> 0, out |-> <<>>, owed |-> {},
           torn |-> FALSE, cut |-> {}, ragged |-> FALSE, tied |-> FALSE]

TelemetryTypeOK ==
  /\ made \in [Sources -> Nat]
  /\ queue \in [Sources -> Seq(Events)]
  /\ chain \in [Sources -> Seq(Seq(Events))]
  /\ heldBy \in [Sources -> {"reporter", "hub"}]
  /\ life \in [Sources -> {"open", "closing", "closed"}]
  /\ \A b \in late \cup appends : b \in Seq(Events)
  /\ ring \in Seq(Events) /\ Len(ring) <= RingMax
  /\ rows \in Seq(Events)
  /\ boot.reading \in BOOLEAN /\ boot.out \in Seq(Events) /\ boot.owed \subseteq Events
  /\ boot.cut \subseteq Int
  /\ clk \in 0 .. MaxClk
  /\ restarts \in 0 .. MaxRestarts
  /\ heard \cup given \subseteq Events

TelemetryInit ==
  /\ made = [s \in Sources |-> Cardinality({e \in ToSet(Kept) : e.source = s})]
  /\ queue = [s \in Sources |-> <<>>]
  /\ chain = [s \in Sources |-> <<>>]
  /\ heldBy = [s \in Sources |-> "reporter"]
  /\ life = [s \in Sources |-> "open"]
  /\ late = {}
  /\ ring = <<>>
  /\ rows = Kept
  /\ appends = {}
  /\ boot = NoBoot
  /\ clk = 0
  /\ restarts = 0
  /\ heard = ToSet(Kept)
  /\ given = {}

-----------------------------------------------------------------------------
(* Order by time, as a stable sort leaves it.                              *)

InsertByAt(s, e) ==
  InsertAt(s, 1 + Cardinality({i \in DOMAIN s : s[i].at <= e.at}), e)

ByAt(s) == FoldLeft(InsertByAt, <<>>, s)

SortedByAt(s) == \A i, j \in DOMAIN s : i < j => s[i].at <= s[j].at

(* One order of the rows that at=gte.t, order=at.asc allows.               *)
RowsSince(t) ==
  LET older == Cardinality({i \in DOMAIN rows : rows[i].at < t})
  IN  SubSeq(ByAt(rows), older + 1, Len(rows))

(* What the store may answer with an offset n and a limit: the times of    *)
(* the page are settled, which rows of a time it has is not.               *)
PagesAt(t, n) ==
  LET hits == RowsSince(t)
      upto == IF n + PageSize < Len(hits) THEN n + PageSize ELSE Len(hits)
  IN  {page \in [1 .. IF n < upto THEN upto - n ELSE 0 -> ToSet(hits)] :
         IsInjective(page) /\ \A i \in DOMAIN page : page[i].at = hits[n + i].at}

(* The time that a page up to the n-th row cuts in two, if it does.        *)
CutAt(t, n) ==
  LET hits == RowsSince(t)
  IN  {hits[i].at : i \in {j \in DOMAIN hits :
                             j = n /\ j < Len(hits) /\ hits[j].at = hits[j + 1].at}}

-----------------------------------------------------------------------------
(* The reporter.                                                           *)

(* drain: the queue becomes the last batch of the chain.                   *)
Drained(s, q) ==
  /\ queue' = [queue EXCEPT ![s] = <<>>]
  /\ chain' = [chain EXCEPT ![s] = IF q = <<>> THEN @ ELSE Append(@, q)]

(* enqueue: the oldest events are dropped beyond maxQueue.                 *)
Enqueue(s) ==
  LET e == [source |-> s, nr |-> made[s] + 1, at |-> clk]
      q == Append(queue[s], e)
      over == IF Len(q) > MaxQueue[s] THEN Len(q) - MaxQueue[s] ELSE 0
      kept == SubSeq(q, over + 1, Len(q))
  IN
  /\ life[s] = "open"
  /\ MapThenSumSet(LAMBDA x : made[x], Sources) < MaxMade
  /\ made' = [made EXCEPT ![s] = @ + 1]
  /\ IF Len(kept) >= BatchSize[s]
     THEN Drained(s, kept)
     ELSE queue' = [queue EXCEPT ![s] = kept] /\ UNCHANGED chain
  /\ given' = given \cup ToSet(SubSeq(q, 1, over))
  /\ UNCHANGED <<heldBy, life, late, hubVars, clk, restarts>>

(* The timer, or flush.                                                    *)
Drain(s) ==
  /\ life[s] = "open"
  /\ queue[s] # <<>>
  /\ Drained(s, queue[s])
  /\ UNCHANGED <<made, heldBy, life, late, hubVars, clk, restarts, given>>

Close(s) ==
  /\ life[s] = "open"
  /\ life' = [life EXCEPT ![s] = "closing"]
  /\ Drained(s, queue[s])
  /\ UNCHANGED <<made, heldBy, late, hubVars, clk, restarts, given>>

(* Mutant: close does not wait for the batches before its own.             *)
CloseReturns_early(s) ==
  /\ life[s] = "closing"
  /\ Len(chain[s]) <= 1
  /\ life' = [life EXCEPT ![s] = "closed"]
  /\ UNCHANGED <<made, queue, chain, heldBy, late, hubVars, clk, restarts, given>>

CloseReturns(s) ==
  /\ life[s] = "closing"
  /\ chain[s] = <<>>
  /\ life' = [life EXCEPT ![s] = "closed"]
  /\ UNCHANGED <<made, queue, chain, heldBy, late, hubVars, clk, restarts, given>>

(* The send of the first batch is over.                                    *)
NextBatch(s) ==
  /\ chain' = [chain EXCEPT ![s] = Tail(@)]
  /\ heldBy' = [heldBy EXCEPT ![s] = "reporter"]

-----------------------------------------------------------------------------
(* The hub.                                                                *)

(* prune: from the front while expired, then down to maxEvents.            *)
Pruned(r) ==
  LET expired(n) == \A i \in 1 .. n : r[i].at < clk - Retention
      start == CHOOSE n \in 0 .. Len(r) : expired(n) /\ (n = Len(r) \/ ~expired(n + 1))
      kept == SubSeq(r, start + 1, Len(r))
  IN IF Len(kept) > RingMax THEN SubSeq(kept, Len(kept) - RingMax + 1, Len(kept)) ELSE kept

(* Mutant: a batch is put behind the ring as it is.                        *)
Fold_unsorted(b) == ring \o b

(* The ring is sorted only when the batch is out of order with its end.    *)
Fold(b) ==
  LET end == IF ring = <<>> THEN <<>> ELSE <<Last(ring)>> IN
  IF SortedByAt(end \o b) THEN ring \o b ELSE ByAt(ring \o b)

(* ingest, up to the append it awaits.                                     *)
Ingest(b) ==
  /\ ring' = Pruned(Fold(b))
  /\ appends' = appends \cup {b}
  /\ heard' = heard \cup ToSet(b)

(* The send reaches the hub, by a call or a POST.                          *)
Arrives(s) ==
  /\ chain[s] # <<>>
  /\ heldBy[s] = "reporter"
  /\ heldBy' = [heldBy EXCEPT ![s] = "hub"]
  /\ Ingest(Head(chain[s]))
  /\ UNCHANGED <<made, queue, chain, life, late, rows, boot, clk, restarts, given>>

(* The append is settled: ingest returns, and with it the send.            *)
Returns(s) ==
  /\ heldBy[s] = "hub"
  /\ Head(chain[s]) \notin appends
  /\ NextBatch(s)
  /\ UNCHANGED <<made, queue, life, late, hubVars, clk, restarts, given>>

(* A POST fails: its batch is given to onError and never sent again,       *)
(* whether it has arrived, still will, or never does.                      *)
PostFails(s) ==
  /\ s \notin Local
  /\ chain[s] # <<>>
  /\ NextBatch(s)
  /\ given' = given \cup ToSet(Head(chain[s]))
  /\ \/ UNCHANGED late
     \/ heldBy[s] = "reporter" /\ late' = late \cup {Head(chain[s])}
  /\ UNCHANGED <<made, queue, life, hubVars, clk, restarts>>

LateArrives(b) ==
  /\ late' = late \ {b}
  /\ Ingest(b)
  /\ UNCHANGED <<made, queue, chain, heldBy, life, rows, boot, clk, restarts, given>>

AppendLands(b) ==
  /\ appends' = appends \ {b}
  /\ rows' = rows \o b
  /\ boot' = [boot EXCEPT !.torn = boot.reading]
  /\ UNCHANGED <<reporterVars, ring, clk, restarts, heard, given>>

(* A failed append is swallowed.                                           *)
AppendFails(b) ==
  /\ appends' = appends \ {b}
  /\ UNCHANGED <<reporterVars, ring, rows, boot, clk, restarts, heard, given>>

-----------------------------------------------------------------------------
(* boot: replay from the store.                                            *)

BootStarts ==
  LET since == clk - Retention IN
  /\ ~boot.reading
  /\ boot' = [reading |-> TRUE, since |-> since, out |-> <<>>,
              torn |-> FALSE, cut |-> {}, ragged |-> boot.ragged, tied |-> boot.tied,
              owed |-> {e \in ToSet(rows) : e.at >= since}]
  /\ UNCHANGED <<reporterVars, ring, rows, appends, heard, clk, restarts, given>>

(* Mutant: a full page is taken for the last one.                          *)
LastPage_full(page) == Len(page) <= PageSize

LastPage(page) == Len(page) < PageSize

BootOver(r, d) == [NoBoot EXCEPT !.ragged = r, !.tied = d]

EndBoot == boot' = BootOver(boot.ragged, boot.tied)

(* The next page, at the offset of what was read; behind the last one the  *)
(* ring is replaced, unless nothing was read.                              *)
BootReads ==
  /\ boot.reading
  /\ \E page \in PagesAt(boot.since, Len(boot.out)) :
       LET out == boot.out \o page IN
       \/ LastPage(page) /\ out = <<>> /\ EndBoot /\ UNCHANGED ring
       \/ /\ LastPage(page) /\ out # <<>>
          /\ boot' = BootOver(boot.torn, boot.cut # {})
          /\ ring' = Pruned(out)
       \/ /\ ~LastPage(page)
          /\ boot' = [boot EXCEPT !.out = out, !.cut = @ \cup CutAt(boot.since, Len(out))]
          /\ UNCHANGED ring
  /\ UNCHANGED <<reporterVars, rows, appends, heard, clk, restarts, given>>

BootFails ==
  /\ boot.reading
  /\ EndBoot
  /\ UNCHANGED <<reporterVars, ring, rows, appends, heard, clk, restarts, given>>

-----------------------------------------------------------------------------
Passes ==
  /\ clk < MaxClk
  /\ clk' = clk + 1
  /\ UNCHANGED <<reporterVars, hubVars, restarts, given>>

(* The hub's process starts anew: its ring and its local reporters are     *)
(* empty, and the POSTs it was serving fail.                               *)
Restarts ==
  LET gone(s) == s \in Local \/ heldBy[s] = "hub"
      lost(s) == IF s \in Local
                 THEN ToSet(queue[s]) \cup UNION {ToSet(b) : b \in ToSet(chain[s])}
                 ELSE ToSet(Head(chain[s]))
  IN
  /\ restarts < MaxRestarts
  /\ restarts' = restarts + 1
  /\ queue' = [s \in Sources |-> IF s \in Local THEN <<>> ELSE queue[s]]
  /\ chain' = [s \in Sources |-> IF s \in Local THEN <<>>
                                 ELSE IF gone(s) THEN Tail(chain[s]) ELSE chain[s]]
  /\ heldBy' = [s \in Sources |-> "reporter"]
  /\ given' = given \cup UNION {lost(s) : s \in {x \in Sources : gone(x)}}
  /\ ring' = <<>>
  /\ boot' = NoBoot
  /\ UNCHANGED <<made, life, late, rows, appends, heard, clk>>

TelemetryNext ==
  \/ \E s \in Sources :
       \/ Enqueue(s) \/ Drain(s) \/ Close(s) \/ CloseReturns(s)
       \/ Arrives(s) \/ Returns(s) \/ PostFails(s)
  \/ \E b \in late : LateArrives(b)
  \/ \E b \in appends : AppendLands(b) \/ AppendFails(b)
  \/ BootStarts \/ BootReads \/ BootFails
  \/ Passes \/ Restarts

TelemetrySpec == TelemetryInit /\ [][TelemetryNext]_telemetryVars

-----------------------------------------------------------------------------
(* Properties.                                                             *)

(* When close has returned, every event of the source was heard by the hub *)
(* or accounted for: dropped as the oldest of a full queue, or in a batch  *)
(* whose failure onError was told, batches sent before included            *)
(* (drain, close; the promise chain inFlight).                             *)
ClosedIsDelivered ==
  \A s \in Sources : life[s] = "closed" =>
    \A n \in 1 .. made[s] : \E e \in heard \cup given : e.source = s /\ e.nr = n

(* The ring is what aggregates are computed from: in order of time, each   *)
(* event once, whatever came late, failed or was replayed.  Two replays    *)
(* are excepted, until the next: one during which an append landed, whose  *)
(* pages may overlap, and, for each event once, one of whose pages ended   *)
(* amid rows of one time, which the order asked for does not tell apart    *)
(* (ingest, prune, boot; supabase-store.ts:79 and :89).                    *)
RingOrdered ==
  ~boot.ragged => SortedByAt(ring) /\ (~boot.tied => IsInjective(ring))

(* A replay brings every row that was in the store when it started, unless *)
(* it has expired since or the ring is full, however many pages it takes   *)
(* and whatever is appended between them - except rows of a time amid      *)
(* which a page ended, of which one may never come (boot, replay).         *)
BootCoversStored ==
  [][boot.reading /\ ~boot'.reading /\ ring' # ring /\ restarts' = restarts
       => \A e \in boot.owed :
            e.at >= clk - Retention /\ e.at \notin boot.cut
              => e \in ToSet(ring') \/ Len(ring') = RingMax
    ]_telemetryVars
=============================================================================
