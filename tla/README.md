# Shipyard inference gateway: a verification project

TLA+ models of the Shipyard inference gateway (`src/` of the repository), the
TLC runs that check them and the theorems that TLAPS proves about them.
Paths below are relative to the repository.

## 1. The system

One Node process (or one serverless instance among several) serves an OpenAI
and an Anthropic style chat endpoint. A request is authenticated, checked
against caps and balances, given to a router that picks a provider and fails
over between providers, and billed when it is done. Persistent state lives in
Postgres behind PostgREST (Supabase); each store also has an in-memory version
for local use. The state that can go wrong is money: budgets, credit, holds,
ledger rows.

| Component | State | Operations | Talks to |
|---|---|---|---|
| Connection budget (`src/gateway/connection-budget.ts`, `scripts/shipyard-gateway-tables.sql`) | spent and reserved of each connection, one hold and at most one ledger row per call | reserve (debit), settle, release, drift | called by the handlers over the network |
| Request handlers (`src/gateway/server.ts`) | a request context per call: cost, billed flag, hold | `/v1/chat/completions`, `/v1/messages`, JSON and SSE | everything below |
| Router (`src/router/router.ts`) | none of its own across requests | chat, chatStream, plan, retry, failover | providers, health, cache |
| Provider health (`src/router/health.ts`) | consecutive failures and opening time per candidate | recordSuccess, recordFailure, isAvailable | router |
| Tier judgment (`src/router/jev-tier.ts`, `src/decisions/chain.ts`) | judgments of a process, cached by turn | infer, decide | router, decision backends |
| Video router (`src/router/video.ts`) | none; jobs live at the providers | generate, queue, retrieve, complete | handlers, providers |
| Streams (`src/providers/`, `src/stream.ts`, `src/openai-compat/`, `src/anthropic-compat/`) | the assembly of one answer, the encoder of one response | chatStream, responseToStream, forEvent | router, handlers, clients |
| Response caches, pricing (`src/router/`) | cached answers | get, set | router |
| API keys (`src/gateway/keys.ts`, `owner-keys.ts`, `keys-wallet.ts`, `auth.ts`) | key rows, a 60 s resolve cache, spent nonces | issue, resolve, revoke, challenge | handlers |
| OAuth and handoff (`src/gateway/oauth.ts`, `handoff.ts`) | authorization codes, consent, issued key of a code | authorize, token, revoke | key store |
| Wallet credit (`src/gateway/topup.ts`, `drawdown.ts`, `channels.ts`, `channel-close.ts`, `src/tender/credit-store.ts`) | balances, claimed request ids, channels | top up, debit, open, close | handlers, chain |
| x402 (`src/gateway/x402.ts`, `x402-upto.ts`, `topup.ts`) | consumed transfers of a process | verify, settle, top up | chain, credit store |
| Spend breaker, project caps (`src/gateway/spend.ts`, `project-caps.ts`) | spend per key and per project bucket in a process, a row per UTC day in the store | check, record, add | handlers, store |
| Anchor (`src/gateway/anchor.ts`) | last good provider of an account | get, set | router hints |
| Tender (`src/tender/`, `app.ts`) | campaign rows, one auction per instance, the developers' credits, sweep holds | create, verify, load, bid, credit, draw down, sweep | handlers, chain |
| Operator control plane (`src/operator/`) | a reporter's queue and promise chain, the hub's ring, stored events, aggregates | report, drain, close, ingest, boot | gateway telemetry, store |
| Upstream payment (`src/payment/`) | spend of the process, challenges already settled | fetch, pay | upstreams, chain, card API |
| Connect, catalogue, UsePod, MCP | little or none | set-up | - |

Behaviours that are hard here: RPCs whose outcome is unknown, retries of what
may already be done, a process that dies between two writes, several requests
over one budget or one circuit, clients that leave in the middle of an await,
catch blocks that serve many exits. `PROJECT.json` lists the hazards with the
line where each bites and the properties that watch it.

What makes each component correct:

* Connection budget: the counters agree with the ledger and the holds; a call
  is charged at most once, only if served, and never both charged and freed;
  concurrent calls cannot pass the budget by more than costs above the hold.
* Router: no call after content was sent or the client left; everything
  planned is tried before a failure is surfaced; every request ends.
* Provider health: an open circuit stays open for its cooldown; only failures
  of the provider count.
* API keys and OAuth: a revoked key stops within the cache time; a code yields
  at most one live key; a replayed code kills the key it issued.
* Wallet credit: what was credited less what was debited is the balance; a
  signature credits once, a request debits once, a channel closes once.
* Tender: only a campaign whose deposit is on chain serves and pays; an
  impression is credited once and drawn from the campaign that won; no credit
  is swept twice, and a transfer of unknown outcome is not made again.
* Tier judgment: a request that allows no fallback is routed by a sure answer of
  the first backend, through the cache too; no request is judged below the floor
  its size gives (which the code does not keep).
* Video: a second job is made only after a provider failed, and a client finds the
  job again.
* Streams: the frames a client sees follow its protocol, and what the client puts
  together from them is the answer the upstream gave.
* Spend gates: overspend is bounded by the requests in flight; without failures
  the three meters agree.
* x402 and the paying fetch: one payment buys one call or one credit, unless two
  deliveries of it overlap or the gateway forgot it; what is taken was paid, and a
  transfer that pays is turned away only if an RPC failed, it died, or it was taken
  before; a challenge is paid twice only by Paybox charges that overlap or whose
  outcome is not known; the cap of a process is passed by payments in flight only.
* Telemetry: every event is heard or accounted for; the ring is in order; and it has
  each event once and is complete after a replay, as far as pages of rows without an
  order among ties allow.

## 2. The modules

```
EscrowLedger            abstract: open, held, charged or freed
   ^ implemented by
ConnectionBudget        gateway handler + network   --EXTENDS-->  ConnectionLedger  the store
RouterFailover          chat, chatStream            --EXTENDS-->  ProviderHealth    the circuits
OAuthConnect            codes, tokens, revokes      --EXTENDS-->  ApiKeys           the key store
PrepaidAccount          abstract: channels credited and debited once, chats admitted and charged once
   ^ implemented by
WalletCredit            upto top-up, chat, close over a ledger, a registry and the chain
X402Exact               calls and top-ups paid with a signed transfer
PayingFetch             the paying client and its providers of payment
SpendGates              breaker, project bucket, day rows, and the requests that meet them
TenderCampaigns         campaigns, auctions, impressions
TenderSweep             the credit ledger and its sweeps
TierJudgment            the tier inferrer, its cache and the chain of backends
VideoRouter             jobs over the providers of a model
StreamTranslation       upstream chunks -> router events -> frames -> the client's answer
Telemetry               reporters, hub, store
```

The modules a run takes together are combined in a harness: `MCBudgets`
(ConnectionBudget, PayingFetch, X402Exact, SpendGates), `MCLedgers` (WalletCredit, both
Tender modules), `MCRouter` (RouterFailover, TierJudgment, StreamTranslation,
VideoRouter, Telemetry) and `MCLive` (ConnectionBudget, RouterFailover, for
liveness). The parts of a harness share no state in the code either, or share it
through an outcome that the other part leaves open; a variable `part` (`half`)
picks the one that moves in a behaviour, and the others stay at one fixed initial
state. So a harness has the sum of its parts' states, not their product, and checks
of each part what a run of its own would. `MCRouterProbe` adds a history variable
to the router; `MCConnectionBudget`, `MCRouterFailover`, `MCOAuthConnect`,
`MCWalletCredit`, `MCTender` and `MCTier` give the constants their values.
`MCLive` drops initial states that differ by the names of calls or requests only
(`OneOfEachMode`, `OrderedKinds`), since symmetry sets are unsound for liveness.
The modules named `...Proofs` hold the theorems.

One convention runs through all of them. What a handler does between two awaits
is one step, since the event loop runs nothing else meanwhile; a phase or `pc`
names what it awaits; and an await may throw in any phase, because it is a query
over a network. An instance that stops is an await that never comes back.

### ConnectionLedger

The SQL functions `shipyard_connection_debit`, `_settle`, `_release`, `_drift`
and the memory store that mirrors them. Each takes a row lock for its whole
body (in memory: has no await), so each is one step. `spent` and `reserved`
are the counters of `shipyard_connection_budgets`, `holds` the status column
of `shipyard_connection_holds`, `ledger` the `cost_usd` of the one row a
unique idempotency key allows. A call `c` stands for the idempotency key
`conn:<key>:<request>`; money is a small natural number, and the rounding of
the memory store is left out.

### ConnectionBudget

The handlers of `/v1/chat/completions` and `/v1/messages` from the reserve on.
`phase` is where the handler of a call stands; the phases that await an RPC
name the request they sent: `reserving`, `settling`, `retrying`, `freeing`
(release of an unbilled call) and `abandoning` (release in the catch block).
`pending` holds requests the store may still run, `reply` the answer of the
awaited one. The await may throw at any time (`Throws`), and then the request
may still run, may have run, or may be lost: `Run` and `Lose` go on without the
handler, and a request may run twice. `Crash` stops the handler in any phase.
The router is reduced to its outcomes: `Token`, `ServeOk` with a cost and a
billed flag, `ServeFails`. What follows the settle (`recordSpend`,
`recordAnchor`, the response) is `Close`, and `CloseFails` when the debit of the
wallet throws. `fault` marks a call that met a failure of the network, the store
or its instance; only properties read it.

### EscrowLedger

What the store promises, with no counters, messages or retries. The refinement
maps a hold's status and a ledger row to `status` and `charge`; the audit
`Commitment` in its `Admit` guard is what the two counters stand for.

### ProviderHealth and RouterFailover

`failures` and `openedAt` are the fields of `CircuitState`. A request is
`chat`, `bounded` (chat with `noFallback`), `pinned` (chat with a pin) or
`stream`. `PlanRoute` makes the plan once from the circuits of that moment;
the strategy's ranking is any order, over which the router puts candidates on
the caller's own key first and models above the ceiling last. A call in flight
is phase `trying`; an answer whose cache write is awaited is `answered`; a
backoff is `backoff`. `Catch` is the catch block of both loops: it records the
failure, then retries, fails over or throws. `calls` keeps the upstream calls of
a request in order, `senders` those that have sent content.

### ApiKeys and OAuthConnect

`ApiKeys` is `SupabaseApiKeyStore`: the key rows, and a resolve cache per
instance whose entries live `CacheTtl`. A revoke changes the row and drops the
entry of its own instance only. `OAuthConnect` runs the requests over it: the
user's approval writes a code (`approved`, `expiresAt`), `POST /oauth/token`
marks it consumed, issues a key and links the key to the code's record, a code
that comes again revokes the linked key, a gateway call resolves its bearer key,
and `/oauth/revoke` or the dashboard revokes it. `pc` names the query a request
awaits; a request whose query threw is in `gone`, and the table may still run
what was sent. `from`, `late` and `cut` are read by properties only. Left out:
consent page and hand-off token, rate limits, renaming a key; the checks of
client, redirect and verifier are one choice, `CheckPasses` or `CheckFails`, after
the code is marked, as in the source.

### WalletCredit

`entry` is the ledger row a handler wrote; every handler writes at most one, so
the balance is the sum of the rows. `escrow` and `paid` are the chain as the code
expects it of the facilitator, external: a channel is opened once, and an open
channel is sealed once, for a draw clamped to its ceiling. `registered` and
`closable` are the `MemoryChannelStore`, lost at a restart. A top-up opens the
channel and then credits (`OpenOnChain` is the request and what the chain does of
it); a chat claims its request id and debits; a close reads the balance or its
`drawUsd`, settles, debits what was settled and swallows a debit that fails
(`adrift`). One account on one process, since accounts share nothing. Request ids of chats
are fresh, so their claim succeeds.

### PrepaidAccount

What a wallet is promised of its credit: a channel is opened once, settled once for
its ceiling at most, credited once by its ceiling and debited once by what it was
settled for; a chat is admitted under an `Audit` of all channels and chats, and
charged once. No handlers, replies, registry or restarts. The mapping makes of the
rows that top-ups and closes wrote what the account has of each channel (`worth`,
over `RowsOf`), of the rows themselves the sets of channels credited and debited, and
of the rows of chats what each was charged.

### TenderCampaigns and TenderSweep

A campaign is a row (`status`, `remaining`) and, on each instance, an entry of
its auction (`auction`) that was copied when the instance loaded the rows.
`CreateCampaign`, the deposit on chain, the four steps of verify (`ReadCampaign`,
`VerifyDeposit`, `Activate`, `GoLive`), the loading of an instance (`ListRows`,
`FoldRows`), the auction of a routed request (`Select`, `Waited`, `Finish`) and
the impression endpoint (`Ask`, `Pick`, `Credit`, `DrawDown`) are each cut where
the code awaits. `Stream` starts once `ensureCampaigns` has ended; `Pick` is the
reply of the list and what the handler does with it. The deployment is the one
the money is in: a treasury is set and the store is shared. What a throwing
await had sent happened by then or never does. Left out: targeting, signatures of
attestations (what makes them pass is `Passes`), listing, deployments without a
treasury. `TenderSweep` is the `CreditLedger` of one process with its sweep holds
and `sweepCredits` over an external rail; `RailThrows` covers both a transfer that
went through unseen and one that did not; `markSwept`, which only a test calls, is
not in it.

### SpendGates

A `lane` is a client with one request at a time: it asks the row of the day
(`capping`), passes the gates (`Gates`: the day cap, the breaker of its key, the
bucket of the project), is served and recorded. `/v1/chat/completions` adds to
the day row, awaits the debit of a wallet and then records in the breaker
(`ChatDone`, `Debited`); `/v1/messages` only adds to the row, and has no breaker.
`adds` are the writes to the row that nothing awaits, which land late or fail. `SpendColdStart` empties what a process kept in memory.

### PayingFetch

The fetch that pays for a 402 and tries again. `due` is the challenge whose
payment is awaited; `settled` the provider's memory of what it paid, and with the
Solana provider callers that meet a challenge under way join it (`Joins`). `Paid`
counts the amount against the cap of the process, which `WithinCaps` looked at
before the await. `blurred` is for properties: challenges paid by overlapping
charges, or after a charge of unknown outcome.

### X402Exact

`verifyX402Payment` from the decoded proof to the answer, for paid calls and for
top-ups (`TopUps`), which use one map of consumed transfers. The map is read in
`Deliver`, before the three awaits (`sending`, `polling`, `checking`), and
written in `Accept`. A top-up then writes its credit row and reads the balance
(`booking`). A call goes on to the rest of its handler (`serving`), which may still
refuse it (`CallRefused`: a breaker, an invalid body, the balance of its account, a
routing error) or serve it (`CallServed`); its transfer is consumed either way. The
chain takes a transfer or not and decides its fate once; any
RPC may throw after it was done. `pruneConsumed` is the ageing in `Deliver`, and
`GatewayRestarts` loses the map. Not in it: the challenge, and the `upto` scheme,
which is WalletCredit's.

### TierJudgment

`createJevTierInferrer` in the deployment of `app.ts`: `combine` max, low
confidence escalates, decisions cached. A request asks the cache by a key that
leaves out what follows the user's latest message, or asks one backend after the
other; the last is the stub, which answers without confidence. The sizes the
heuristics tell apart are two numbers of the request, its `floor` and its
`structural` tier. The router's own clamps around the judgment are not in it:
RouterFailover takes any ranking.

### VideoRouter

`generate` queues and polls a job on one provider and moves on at a retryable
error; `queue` leaves polling to the client, whose `retrieve` and `complete` ask
the first candidate of the model. `Completing` are the calls whose provider has the
optional `complete`; without it `complete` does nothing. `jobs` are the jobs that exist at
the providers,
also those whose answer was lost.

### StreamTranslation

One answer on its way from an upstream to a client. `OpenAIToolChunk` is one entry
of `delta.tool_calls` with any of id, name and a piece of the arguments, for any
index; `AnthropicBlockStart` and `AnthropicInputDelta` are the blocks of the
other protocol, which come one after the other; `WholeAnswer` is
`responseToStream` of an answer from a cache or a provider that does not stream.
What a chunk makes is in `events` until `Forward` encodes it. `enc` is the state
of `createAnthropicSSEEncoder`; the chunk encoder of the other endpoint has none
that matters. An attempt may fail between two chunks, or after its last one when
the cache write throws (`AttemptFails`): before the first event another provider
is tried, into the same encoder. Text and arguments are numbered pieces. The
`client` follows the frames by the rules of its protocol; it is external.

### Telemetry

`makeReporter` of each source (`queue`, the promise chain `chain`, overflow of the
oldest, `onError`, `close`), the hub's `ring` and its appends to the store, and
`boot`, which reads pages of rows while batches come in and then replaces the ring.
Sources in the hub's process call it; others POST, and a batch given up may
still arrive (`late`). A page is asked for by offset, limit and `order=at.asc`, and
nothing orders rows of one time, in one query or from one query to the next: the store
answers with any page whose times are those of its places (`PagesAt`). So a page that
ends amid rows of one time may be followed by one that has a row of that time again,
or never the one that is missing. `torn`, `cut`, `ragged`, `tied` and `owed` are for
properties: whether an append landed between the pages, the times a page ended amid,
what the last replay was in both respects, and the rows it found. Assumed of the
process: one boot at a time. Aggregation is not in it.

## 3. The runs

Passing runs:

| Run | Part and bounds | Shows |
|---|---|---|
| Budgets | calls: 2 calls of either mode, one connection, budget 3, hold 2, costs 0, 1, 3 | the counters agree with ledger and holds; no call is served uncovered, answered unpaid or charged unserved; refinement of EscrowLedger |
| | pay: 2 callers, 3 challenges of 1 and 2, cap 3, at most 5 payments, either provider | a challenge is paid once, blurred charges of Paybox excepted; how far the cap is passed |
| | exact: one proof delivered 3 times, once to the top-up endpoint, and one that pays too little; life of an entry 1, clock to 2 | what one payment buys; what is taken is paid, and why a payment is turned away |
| | spend: 2 clients of one key, ceilings 4 and 2, day cap 2, costs 0 and 2, 4 requests, clock to 2 | overspend, agreement of the meters |
| Ledgers | credit: 2 channels, 3 top-ups of which 2 carry one payment, 2 closes, 1 chat | credit, debit and chain agree; refinement of PrepaidAccount |
| | tender: 2 campaigns (blocks of 2 and 1), 3 handlers at a time out of 2 requests, 2 impressions, 2 verifies; 3 sweeps, 3 credits, a spend of 2 wallets | funded serving, earned kickbacks, sweeps |
| OAuthConnect | 1 code; an exchange and a revoke on one instance, an exchange and 2 calls on another; 2 keys, cache time 2, code time 1, clock to 2 | one key per code, replay and revocation |
| Router | router: 2 requests (any kind), 2 candidates, 3 decisions, threshold 2, cooldown 1, 1 retry | committed is last, the plan is walked in order, circuits are fair, every step counts |
| | tier: 2 requests at a time, 3 in all, of 2 turns, one also grown and one bounded; a cache of 1 decision for 1 tick; 2 live backends and the stub | bounded requests are judged |
| | stream: 2 tool calls, 4 pieces, 2 attempts, 3 kinds of upstream, both endpoints | frames nest, the client gets the answer |
| | video: 2 videos, 3 providers, 2 of them tried, 2 polls, `complete` for one of them | a second job only after a failure; found again |
| | telemetry: a reporter with batches below its queue, one that overflows first, or two in the hub's process that make one event each, after two that were stored before, at times -1 and 0; ring 3, page 2, 1 restart, 5 events, clock to 1 | delivery, order, replay |
| Live | 2 calls of cost 3; 2 requests, 2 decisions | holds resolve, requests end |

Why the bounds are enough. The connection store serialises the calls of one
key and the keys share nothing, so one key is enough; a race for admission
needs two calls and room for one hold; costs below, at and above the hold and
zero are all there. A request needs one retry and one failover to mix the two
counters, and two requests to move a circuit under each other's feet. A race for
a code needs two exchanges, a stale cache entry a second instance and a clock
that passes the cache time. A payment sent twice, a channel opened during a close
and two closes of one channel need no more handlers than the run has. The
instances of Tender share rows only, so what another instance does to a row any
handler of the same instance does as well: one instance, with cold starts, is
enough, and `active` picks the three handlers of a behaviour, or the sweep ledger,
which shares no state with the campaigns. Two clients pass a gate together, and
two that were paying at once pass a cap. A proof needs a delivery before, during
and after another, and an entry that ages between them. A call of two needs a
piece before its name, one between the other's and text in between, which four
pieces allow. A ring of three with pages of two lets an append land between pages
and overflow the ring, lets a page end between two times and amid rows of one, and
makes a store of two rows one full page. Clocks are bounded and handlers run once, so every state
space ends and deadlock is not an error there.

### What the violation runs show

* `ConnectionTruncated`: a stream that fails after its first token releases its
  hold; `docs/billing-outcomes.md` says such a stream is billed.
* `RouterAbort`: `chatStream` counts its client's abort as a provider failure.
* `RouterProbe`: after its cooldown a circuit lets every caller through until the
  first has an answer; the comment in `health.ts` says one probe.
* `CreditDraw`: a close without `drawUsd` settles the balance, which is what the
  key has left, so the treasury is paid the unspent part and the payer gets the
  spent part back; the comment says the payee is paid the draw.
* `CreditReopen`: a close writes the channel it read over one that a top-up
  recorded while the settle was awaited; the comment says a re-open replaces it.
* `TenderCap`: impressions that overlap read one `remainingImpressions` and all
  write it less one, so all are credited and the campaign is drawn down once;
  the comment calls this the hard cap on payouts.
* `TierCache`: a cached decision is used for a later request of its turn that has
  grown, below the floor of its size; the comment says the judgment can only raise
  the floor, and that the cache is keyed by the exact state.

### Fairness

`HoldResolves` assumes weak fairness of each call's handler and of each call's
network: an instance that is not killed runs on, every `fetch` ends in a reply
or an error, and a request in flight arrives or is lost. Nothing makes a client
start a call or an instance crash. `EveryRequestEnds` assumes weak fairness of
each request: providers answer, fail or close their stream, the cache write
ends, timers fire. The clock and the clients need no fairness. The other
specifications have no fairness, and state safety only.

### Other places where a comment and the code part

Met while modelling and stated by no run of their own:

* `app.ts:351` says a neutral answer of the stub falls back to the structural
  heuristic; with low confidence escalated it is routed at the standard tier and cached.
* `jev-tier.ts:53` calls the size of the cache a maximum; entries are evicted
  before the await and added after it (`AlwaysDecisionsOvershoot` bounds it). The
  structural fallback does not look at `maxTier`.
* `spend.ts:126` bounds overspend by an estimate per request that the gateway
  passes as 0; `server.ts:813` says requests without a key skip the breaker, whose
  key is then the account.
* `x402.ts:15` says one payment serves one request: the map of consumed transfers is
  looked up before three awaits and entered after them (`x402.ts:226`, `:297`), so
  deliveries that overlap may all be served (`ServedOnceUnlessOverlapping` says how).
* A call that is refused after its transfer was consumed (`server.ts:829`, `:897`,
  `:915`, `:1091`) has paid for nothing, and its retry is refused as consumed.
* `paybox.ts:93` and `types.ts:53` say a retried request is never charged twice: the
  charge is remembered when its answer is there (`paybox.ts:109`), so a charge that
  overlaps another, or follows one whose answer was lost, is a second one.
* `supabase-store.ts:71` says a busy window never silently truncates the replay: the
  pages are ordered by `at` only, so of the rows of one time that a page ends amid one
  may be skipped or come twice.
* `paying-fetch.ts:76` states a cap on the process that is looked at before the
  payment only (`CapOvershoot` bounds it).
* `reporter.ts:19` and `:46` speak of a bounded queue whose oldest events are
  dropped; with a batch no larger than the queue nothing is dropped, and the
  promise chain of batches has no bound.
* `/v1/video/retrieve` asks for `queueId`; the answer of queue has `queue_id`.
* `AnthropicProvider.parseResponse` keeps the last text block of a message, while
  its stream joins all of them; a stream that ends without a stop reason is
  reported as a complete answer.
* After the last frame of a stream the handlers still settle: a settle that throws
  sends an error frame after `message_stop`.

## 4. Proofs

Every theorem holds for all values of the constants that satisfy the named
assumptions of the module it is about. These say that the sets of handlers do not
overlap, that the sets a sum ranges over are finite, that a map of ids goes to ids,
that amounts are numbers, and of Telemetry's store that a row is kept once. Each
follows from an inductive invariant: type correctness and, because no property is
inductive alone, what each phase of a handler knows of the state it shares.

`SumTheorems` has no component of its own. The code keeps every meter up to date one
row at a time, and a property about a meter speaks of the whole table: the theorems
here say what a sum over a finite set is when one entry changes (`SumChanged`), a
member comes or goes (`SumWith`, `SumWithout`), and how it is bounded (`SumAtMost`,
`SumOfPart`, `SumOfSmall`). The sum is the community fold, a CHOOSE of a recursive
function on subsets; it is shown to exist by induction on the size of the subsets
(`SubsetInduction`, over a set of sets, from the well-founded order of the naturals)
and everything else follows from its one step.

`ConnectionBudgetProofs`: `AlwaysServedUnderHold`, `AlwaysLedgerMatchesAnswers`,
`NeverFreedAfterAttempt`, `NothingLeaksWithoutFault`: the safety properties of a
single call, by `TypeOK /\ CallInv`. That a release never meets an attempted settle
depends on which requests can be in flight in which phase, so `CallInvOf(c)`
says for each call what its phase, its pending requests, its hold and its row
imply of each other. A step changes the state of one call only
(`StepTouchesOne`), so the proof is a case per action on that call
(`StepOwnInv`), each first reduced to what the action does to the call's own
fields, and `UntouchedKeepsInv` for the others. `AlwaysZeroDrift`: the counters
are the sums of the ledger and of the open holds; it is inductive with `CallInv`,
since a settle adds to one sum what the row gains and takes from the other what
the hold had. `ImplementsEscrow`: every step is a step of `EscrowLedger` under the
refinement mapping or leaves it alone; an admission of the detailed store keeps
within the budget because `ZeroDrift` makes its counters the account's commitment.

`PayPerCallProofs`: `AlwaysServedOnce` and `AlwaysPaidIsTaken` of X402Exact (who is
past the lookup has its transfer in the map, gone from it or under another's
verification; what was accepted is confirmed and covers its price; a delivery that
is turned away has a reason), `AlwaysOnePayment` of PayingFetch (what was moved for a
challenge, settled or being paid for) and `AlwaysCapOvershoot`: of those who await a
payment one was within the cap, and the others pay at most the largest amount each
(`CapInv`); what the Solana provider has signed away was counted or will be by a
fetch that awaits it (`MovedInv`).

`SpendingProofs`, wallet credit: `AlwaysCreditIsEscrowed`, `AlwaysSealIsPaid`,
`AlwaysAnsweredIsBooked`, by `TypeOK /\ OpenInv /\ CloseInv /\ ChatInv`:
what each kind of handler knows of its channel and its row in each phase; above all
that at most one handler was told by the chain that it opened a channel, and at
most one that it sealed it. `AlwaysReconciles`, by `BooksInv`: what the ledger has,
with what handlers have sent to it or still will (`Coming`), is what the chain holds
less what chats cost. `ImplementsAccount`: every step of the handlers, of a failing
await and of a restart is a step of PrepaidAccount or leaves it alone. That a row
credits a channel not credited before is `AlwaysCreditIsEscrowed`'s invariant, that a
close debits what the chain paid is `AlwaysSealIsPaid`'s; and the balance a chat is
admitted under is the account's audit because the rows of the ledger fall into those of
each channel and those of the chats (`SumByGroup`). Spend gates: `AlwaysBreakerOvershoot`; the invariant bounds what
is recorded plus one dearest request for each client that was admitted and is not
recorded yet, and a step of a client moves its share from the second to the first.
`AlwaysMetersAgree`, by `MeterInv`: every cost goes into all meters at its own time,
and until then it is under way or owed.

`TenderProofs`: `AlwaysOnlyFundedServes` by `FundedInv`, which carries "the deposit
is on chain" from the verify that saw it to the row, the lists taken of the row, the
auctions and the choices made from them. `AlwaysKickbackIsEarned` adds that what is
credited was billed (`BilledFirst`), that what an auction has left and what it has
served together are at most what was bought, no copy of a row having more
(`StockInv`), and that impressions one at a time draw a row down once each
(`DrawdownInv`). Of the sweeps: `NeverRetried`, by `HoldInv`, which ties the hold of a
wallet to the one sweep that may own it, and `AlwaysCreditsConserved`, by `SweepInv`:
a sweep reserves the entries it takes out of the balance, all at once.

`OAuthConnectProofs`: all the properties of its run, `AcceptedIsRecent` among them,
by `TypeOK /\ CodeInv /\ CacheInv /\ CutInv`: which exchange owns the
key of a code at each query, how old a cache entry and a reading under way can
be against the revocation of their key, and where nothing older than a revoke is
left.

`RoutingProofs`: every safety property of RouterFailover. `GoodRequest(r)` ties
a request's place in its plan to the calls it has made: those before its place were
all called, in order, and no more often than retries allow; content was sent by the
last one only. `AlwaysCircuitsAreFair` follows from the actions and the types.
`AlwaysEveryStepCounts` is the safety half of `EveryRequestEnds`: `StepsLeft(r)`, the
tries that the plan and the retries leave a request with a call, an answer and a
backoff each, is a natural number that every step of its loop makes smaller and no
other step changes (content that is passed on, a client that leaves, other requests).
So the loop takes at most `3 * MaxAttempts * (MaxRetries + 1) + 2` steps, whatever
fails; that it takes them is what fairness is for.
`AlwaysOneJobAtHome` of VideoRouter; `AlwaysBoundedIsJudged` and
`AlwaysDecisionsOvershoot` of TierJudgment (entries of the cache are good for their
key; entries and requests being judged together fit). Of StreamTranslation:
`AlwaysFramesNest`, by `FramesInv`: the client's view of what is open, begun and
ended is the encoder's; and `AlwaysClientGetsAnswer`, by `AnswerInv`: the events not
yet encoded are a path (`Leads`) from the answer the client has put together to the
one the provider has given. A chunk extends the path at its end (a lemma per kind of
chunk says what its events put where), `Forward` takes its first event, and the frames
of one event take the client one step along it.

`TelemetryProofs`: `AlwaysClosedIsDelivered`, by `Located`: every event of a source is
in its queue, in a batch of its chain, heard or given up, so a source that has nothing
queued and nothing to send has lost none. `ByAtSorts`: the stable sort by insertion
sorts and keeps its elements. `AlwaysRingOrdered`, by `RingInv`: no event is in two
batches on their way or in the store and on its way, and what a replay has read, no
append having torn it, has the times of the first places of the sorted rows and, no
page having ended amid rows of one time, none of them twice (`PartRead`, `NextPage`).
`AlwaysBootCoversStored`, by `OwedInv`: what a replay owes is read, or of a time a page
ended amid, or ahead: as many rows as were read are older than it (`Ahead`). An append
never takes a row out of that (`AheadAppended`, `AheadJoined`): an older row adds to
both counts, any other to neither or to the larger. A page that reaches past the first
place of a time either ends amid its rows or has all its places, and then all its rows,
there being as many as places and none twice (`PageHasAll`, `PageBrings`); and a page
that is not full has reached the end.

Induction over a sequence or a number uses `NatSetInduction`, whose hypothesis is a
set, and folds are unfolded to their recursive functions by definition.

Each component's types are a theorem of their own (`...TypeCorrect`) for its own
specification; the harnesses state none, and of the runs OAuthConnect alone checks
them once more. They are not for free: `TelemetryTypeCorrect` says that the ring stays
within its bound by whatever way events come into it, and rests on what `Fold`,
`Pruned` and `RowsSince` return for any sequence. Where the model bounds a counter only
for TLC (events made, pieces of an answer) the type takes any number.

Model-checked only: `HoldResolves` and `EveryRequestEnds`, being liveness under
fairness, and with them ENABLED (of the second the variant is proved,
`AlwaysEveryStepCounts`), and the statements of the violation runs, which do not hold.

## 5. What is left

Not modelled, with the reason for each in `PROJECT.json`: response caches (one bit
in the router's model), owner and wallet keys and hand-off tokens (signatures and
single-use nonces in front of everything else), the conversation anchor (a
preference), the translation of requests and of whole answers, usage, prices and
prompt heuristics (pure functions), aggregation and dashboards, the wait observer and
the payout of Tender (no caller in the gateway), the command line, catalogue and
set-up code. The vendored browser bundles under `examples/` are no part of the system.

Plan, in order of what matters:

1. The nonces of wallet keys and the hand-off tokens, as single-use registries like
   the map of X402Exact.
2. The order of all gates, holds and meters in one request: SpendGates,
   ConnectionBudget and WalletCredit composed.
3. The router's clamps around the tier judgment, guardrails and feedback.
