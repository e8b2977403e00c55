# Verification of Agentic-RAG-Paywall

This directory holds TLA+ specifications of the backend and of the browser
application, TLC configurations that check them on small instances, and theorems
about them that the TLA+ proof system checks. Paths such as `rag_service.py:88` are
below `backend/app/`, and files ending in `.ts` or `.tsx` below `frontend/src/`,
unless they start with another directory.

The program is a FastAPI server that sells answers. A caller pays on the Stellar
network (x402), gets credits, and spends one credit for each question to a
retrieval-augmented knowledge base, or several for a call to a marketplace of
specialised providers. Money, conversations and providers live in SQLite, chunks
and vectors in a Chroma collection; answers come from the Gemini API and may be
streamed as Server-Sent Events. A Next.js application shows the protocol to
visitors: a console, a library, a page that routes a request through the
marketplace, a swarm and a fleet of paying agents, a guided demonstration.

## Conventions

* One action is one step the program takes without letting anything else in: a
  `with transaction()` block, a single SQL statement outside one, or the code of a
  coroutine between two `await run_in_threadpool(...)`. A read whose result is used
  later is a step of its own.
* `pc[r]` is where a request is in its handler. Its labels name the call that
  comes next.
* An operator whose comment begins with **Slip:** is not part of the model. It is
  the definition that follows it with a plausible bug. For every property checked
  by a passing run, `PROJECT.json` names a slip that must make that run fail, so
  each property is known to notice something.
* `Nobody` stands for SQL's NULL or for a missing row.
* In the browser one action is one turn of the event loop: a click's handler up to
  its first `await`, what follows an `await` up to the next, a timer, the handlers
  of one event of a stream. A closure that was started stays until its last
  `await` returns, whatever the page shows meanwhile, and keeps the values of the
  render it was made in. What the page draws is an operator (`StepRow`,
  `VerdictLine`, `StageList`), so that the properties speak of what a visitor sees.
* A page's module includes the server as that page meets it: a call is answered,
  refused or cut off at any later time, and what it did on the server before the
  answer was lost stays done.

## Inventory

### Credit store (`db/database.py`, `db/repository.py`)
*State:* the tables `agents` (credits, running totals) and `credit_ledger`
(append-only: delta, balance_after, reason). *Operations:* `create_agent`,
`get_or_create_agent`, `grant_credits`, `consume_credits`, `refund_credit(s)`, each a
`BEGIN IMMEDIATE` transaction; `get_or_create_agent` reads before it opens one.
*Used by* every component that moves money. *Hard:* every call runs on its own
worker thread and connection. *Correct when* no interleaving loses or makes
credits, a balance is never negative, and the ledger accounts for the balance.

### x402 settlement (`services/stellar_service.py`, `api/endpoints/payments.py`, `api/deps.py`)
*State:* the tables `challenges` and `payments`. *Operations:* the 402 answer and
`POST /payments/challenge` (`get_or_create_challenge`), `POST /payments/verify`
(`verify_payment`: replay check, challenge check, Horizon or sandbox, `record_payment`,
`grant_credits`, `consume_challenge`). *Hard:* six statements without a common
transaction around a network call that may take 12 seconds; concurrent requests
with one hash or one challenge; expiry; a crash between the payment row and the
credits. *Correct when* a transaction hash buys credits at most once and only for
money that was really paid, and a challenge is redeemed for its own agent.

### Paid queries (`api/endpoints/rag.py`)
*State:* the credit store, `query_log`, and what each request holds. *Operations:*
`POST /rag/query` and `POST /rag/stream`: find or create the conversation, look in the
semantic cache, debit, generate, then save and log, or refund. *Hard:* three refund
paths and a `finally` block that must pay back exactly once; a client that leaves a
stream; a crash. *Correct when* the price of a request agrees with how it ended.

### Conversations (`api/endpoints/conversations.py`, `db/repository.py`)
*State:* `conversations` and `messages` (foreign key with cascade). *Operations:*
created by a query, appended to after the answer, read, deleted by their owner.
*Hard:* the owner is checked before the generation and the rows are written after it.
*Correct when* a conversation holds only its owner's turns, each answer after its
question.

### Agents and tokens (`api/endpoints/agents.py`, `core/security.py`)
Registration writes the row of the credit store. Tokens are HMAC-signed claims
(agent, expiry) checked without state.

### Corpus (`services/rag_service.py`, `vector_store.py`, `answer_cache.py`, `documents.py`)
*State:* the collection of chunks, the `documents` table, an in-memory snapshot of the
collection, and an answer cache of 256 entries keyed by the corpus revision.
*Operations:* `ingest_file`, `delete_document`, `get_corpus`, `corpus_revision`, `lookup`,
`store`, `invalidate`, `answer`, `stream_answer`. *Hard:* two stores without a common
transaction, a checked-then-filled snapshot, an answer stored under the revision
read after it was generated, LRU and TTL eviction. *Correct when* the cache never
serves an answer from a corpus that has changed and both stores list the same
documents.

### Marketplace (`services/marketplace.py`, `registry.py`, `reputation.py`, `router_agent.py`)
*State:* `providers`, `provider_events`, `routing_decisions`, the credit store.
*Operations:* `discover`, `invoke`, `route_and_execute`, `compare`, `record_outcome`,
`register_provider`, `set_scope`, `set_status`. *Hard:* the debit precedes a call that
may fail in ways that are not refunded; spend and revenue are recorded in
different transactions; price and status are read at discovery and used later.
*Correct when* a failed call costs nothing and spend, revenue and events reconcile.

### Bootstrap (`services/bootstrap.py`)
A thread that seeds the knowledge base and the providers of an empty instance.
*Hard:* a restart in the middle. *Correct when* an instance ends up fully seeded.

### Rate limiter (`core/rate_limit.py`)
A sliding window of request times per key, in memory. *Correct when* no window of
the given length admits more than the limit and no caller is refused for longer
than a window.

### Retrieval, generation, chunking, atlas (`services/…`)
Ranking arithmetic (BM25, cosine, fusion, a diversity cap), calls to Gemini,
`FollowUpSplitter` (which hides a delimiter that may arrive split over several
deltas), text splitting, a cached projection of the embeddings.

### HTTP shell, analytics, health (`main.py`, `config.py`, `core/…`, `endpoints/analytics.py`, `endpoints/health.py`)
Wiring, settings, error formatting; reads.

### Browser: session and paywall (`components/providers/SessionProvider.tsx`, `components/console/PaywallDialog.tsx`)
*State:* one access token with its expiry, a shared mint, the balance, the purchase
under way; the dialog's stage, busy flag and close timers, which outlive its being
closed. *Operations:* `getToken`, `refresh`, `setCredits`, `purchaseCredits`; open, close,
Escape, pay. *Hard:* callers that share a mint, a token that ages between its being
handed out and its use, a dialog closed in the middle of a payment and opened again.
*Correct when* no request leaves with an expired token and no stage is shown for a
payment that did not happen.

### Browser: event streams (`lib/stream.ts`, `lib/routeStream.ts`)
*State:* a buffer of text. *Operations:* read a chunk, take off whole frames,
dispatch, parse the rest at the end. *Hard:* chunks are cut anywhere; bodies break
off. *Correct when* every frame is dispatched once, in order, as soon as it is there.

### Browser: routing pages (`components/discover/…`)
`DiscoverWorkspace` routes one request and draws a pipeline, a scoreboard and cards
from its events; `NetworkDemo` runs a fleet of such requests from one wallet.
*Hard:* Stop and leaving the page at any await, errors after any event, closures of
an earlier render. *Correct when* no step is ticked that the server did not complete
for this request, and what spends can be stopped.

### Browser: protocol page (`components/protocol/…`)
`ProtocolWorkspace` walks through the x402 handshake; `SwarmSimulator` launches agents
that each pay and ask, and reconciles their balances. *Hard:* a stopped launch whose
awaits still return beside the next launch, one `abortRef` for both; an error that is
reported by a callback and not thrown. *Correct when* ticks, banner and verdict stand
for payments the server redeemed, and a stopped lane spends nothing.

### Browser: demonstration (`components/demo/…`)
A timeline of nine phases on timers that waits for nothing, beside warm-ups, rankings
and purchases that land when they land. *Hard:* starts and stops that overlap.
*Correct when* every figure was produced by the run that is shown.

### Browser: console, library, palette (`components/console/ConsoleWorkspace.tsx`, `components/library/…`, `components/layout/CommandPalette.tsx`)
A streamed conversation with New, Open, Delete and Stop; uploads, deletions and
reloads of a list that is also patched in place; a search as one types. *Hard:* answers
of calls made before the screen changed. *Correct when* the next question is filed
under the conversation shown, the counts agree with the list, and the matches are
those of the text.

### Browser: polling pages and atlas (`components/marketplace/…`, `components/dashboard/…`, `components/landing/LivePulse.tsx`, `components/atlas/…`)
Loads on intervals that overlap and fail in part; projections of queries onto a plot,
of the visitor and of the demonstration. *Correct when* the pages come to show what
the API reports, and a spinner is a call under way.

Command-line clients (`backend/scripts/`, `scripts/`) are sequential callers.

### How they interact

```
 browser / CLI ──HTTP──▶ deps (token, 402) ──▶ payments ──▶ challenges, payments ─┐
                              │                    └────▶ Horizon                 │
                              ├──▶ rag ─▶ answer cache ─▶ retrieval ─▶ Gemini     ├─▶ credit store
                              │      └─▶ conversations, query_log                 │   (agents, ledger)
                              └──▶ marketplace ─▶ registry, reputation, router ───┘
 documents ─▶ ingestion ─▶ vector store, documents table ─▶ invalidates snapshot and cache
```

Browser pages share the session; what they share otherwise is on the server. The
command palette and the stream reader are on every page.

The credit store is the only state that settlement, paid queries and the
marketplace share. `CreditStore.tla` therefore defines its transactions once, and
the modules of the callers extend it.

## Modules

| Module | Models | Kind |
|---|---|---|
| `CreditStore` | tables `agents` and `credit_ledger`, their transactions | state and operators |
| `CreditLedger` | concurrent callers of those transactions | specification |
| `Wallet` | what the store promises | abstract specification |
| `Settlement` | challenges, payments, verification, the 402 answer | specification, extends `CreditStore` |
| `Redemption` | what settlement promises about a hash | abstract specification |
| `PaidQuery` | `/rag/query`, `/rag/stream`, conversations, query log | specification, extends `CreditStore` |
| `Escrow` | what the paywall promises about a credit | abstract specification |
| `Corpus` | vector store, `documents`, snapshot, answer cache, questions | specification |
| `EventStream` | the reader of an event stream | specification |
| `RouteStream` | one routed call, between server and browser | operators on a record |
| `Discover` | discovery page | specification, extends `RouteStream` |
| `Fleet` | fleet of routed calls | specification, extends `RouteStream` |
| `Handshake` | x402 walkthrough | specification |
| `Swarm` | swarm simulator | specification |
| `DemoTour` | guided demonstration | specification |
| `BrowserSession` | token, balance, purchases | state and operators |
| `Paywall` | the dialog over the session | specification, extends `BrowserSession` |
| `Console` | knowledge console | specification |
| `Library` | library page and its routes | specification |
| `Palette` | command palette | specification |
| `Polling` | marketplace, provider, dashboard and landing page | specification |
| `Atlas` | atlas page | specification |
| `Visits` | a visitor with one of the pages open | composition, instances of the pages |
| `MC…` | instances for TLC | model values, symmetry |
| `FiniteSums` | sums over finite sets | lemmas |
| `…Proofs` | theorems | proofs |

### CreditStore and CreditLedger

`rows`, `credits`, `spent` are the table `agents`. The ledger's rows are abstracted to
what an audit reads: `posted[a][reason]` is the sum of an agent's entries per reason,
`lastBalance[a]` the `balance_after` of the newest one. `OpenAccount` is the transaction
of `create_agent` and `get_or_create_agent`, with `INSERT OR IGNORE` and the ledger entry
that follows it whether or not a row was inserted; `GrantCredits` covers an agent
without a row, as the code does; `ConsumeCredits` is the guarded `UPDATE`.

`CreditLedger` gives each caller one call. `GetOrCreateRead` and `GetOrCreateInsert` are
the two halves of `get_or_create_agent`, with other callers in between. A caller that
debited may later refund (`Refund`) or keep (`Keep`) the debit.

### Settlement

| Variable | Code |
|---|---|
| `issuedTo`, `consumed`, `expired` | rows of `challenges`, `consumed_at`, `expires_at` against the clock |
| `payer`, `amount`, `settles` | the row of `payments` for a hash (`UNIQUE tx_hash`) |
| `receipts` | how many ledger entries name that row |
| `submitted`, `memo`, `paid` | the Stellar network as Horizon reports it (outside the program) |
| `pc`, `who`, `hash`, `chal`, `found` | the local variables of a request |

`Receive`/`ReceiveUnpaid` start a request, `FindChallenge` and `MintChallenge` are
`get_or_create_challenge`; `CheckReplay`, `CheckChallenge`, `VerifySandbox`/`VerifyOnChain`,
`RecordPayment`, `GrantPayment`, `ConsumeChallenge` are the statements of `verify_payment` in
their order. `Submit`, `Expire` and `Crash` are the surroundings. A crash loses the
requests in flight and keeps the tables. Horizon may be unreachable or late at any
time.

### PaidQuery

| Variable | Code |
|---|---|
| `minted`, `owner`, `messages` | tables `conversations` and `messages` |
| `log` | status of the `query_log` row of a request |
| `debits`, `refunds` | the `credit_ledger` entries of a request |
| `pc`, `who`, `conv`, `streams` | the request; `streams` are the ones to `/rag/stream` |
| `left` | streams whose client has disconnected |

Both endpoints share their first steps (`Receive` to `Debit`) and their last ones
(`SaveQuestion`, `SaveAnswer`, `LogSuccess`: the body of `query` after the answer, the
`finally` block of the stream). Retrieval and generation are one step, `Generate` or
`StreamEvents`, with the outcomes the endpoints tell apart: an answer, an empty
answer, an `AppError`, another exception. `KeepsConversation` is the ownership check;
`AddMessage` fails when the conversation was deleted meanwhile, which nobody
catches. `CutOff` is external: the web server (Starlette on uvicorn) cancels the
body iterator of a client that is gone. A generator that was never started has no
`finally` to run; in one that was started, the cancelled scope raises again at the
awaits of its `finally` block. `DeleteConversation` is the endpoint together with the
cascade.

### Corpus

| Variable | Code |
|---|---|
| `vectors`, `row` | the Chroma collection, the table `documents` |
| `minted` | document ids that `new_id` has given out |
| `snapshot` | `vector_store._corpus_cache` |
| `cache`, `older` | `answer_cache._entries` by question, and its order from the least recently used |
| `pc`, `file`, `doc`, `question` | a job: one upload, deletion or question, and its argument |
| `seen`, `copy`, `searched` | what the last `get_corpus()` returned, what one in progress has read, what retrieval has searched |
| `raced` | history: a question and a change were in flight together |

A corpus is the set of documents with chunks in it; `corpus_revision`, a hash of the
sorted chunk ids, is that set itself. `Upload`, `Index`, `DropSnapshot`, `InsertRow`,
`Invalidate` are `ingest_file`; `Delete`, `Unindex`, `DropSnapshot`, `DropRow`, `Invalidate`
are `delete_document`. `ReadSnapshot`, `ReadCollection` and `FillSnapshot` are `get_corpus`,
which a question calls up to four times: for the revision of the lookup, for the
lexical index, for the candidates and for the revision of the store. The test at
line 243 and the return at 244 are one step, as are the assignment and the return at
254–258: CPython 3.12, which the Dockerfile installs, switches threads at calls and at
backward jumps, and there is none in between. The answer itself is abstracted to the
documents retrieval searched to find it.

### The browser's modules

| Module | Main variables | Code |
|---|---|---|
| `RouteStream` | record `sent`, `seen`, `client`, `fate`, `refunded` | events yielded by `route_and_execute`, dispatched by `routeRequest`, how either side ended |
| `Discover` | `stage`, `listed`, `passed`, `chosen`, `result`, `routing` | the state of `DiscoverWorkspace`; `runStep`, `listedThen`, `stopped`, `call`: the closure of `run` |
| `Fleet` | `lanePhase`, `fleetRunning`, `fleetAbort` | the state of `NetworkDemo`; `route[i]`: the call of a lane |
| `Handshake` | `step`, `walking`, `wire`, `total` | the state of `ProtocolWorkspace`; `walk`: the await `run` is at; `redeemed`, `answered`: the server |
| `Swarm` | `phase`, `column`, `swarmRunning`, `reconciled`, `swarmAbort` | the state of `SwarmSimulator`; `lane[l][i]`, `launch[l]`: the closures of each launch; `bought`, `asked`: the server |
| `DemoTour` | `status`, `tally`, `run`, `timers` | state and refs of `DemoProvider`; `warm`, `look`, `deal`: its calls by the start they belong to |
| `EventStream` | `buffer`, `got` | `buffer` of the reader, frames dispatched; `arrived`: the text read |
| `BrowserSession` | `token`, `minting`, `waiting`, `held`, `funded`, `purchase` | `tokenRef`, `inflight` and its callers, `credits > 0`, `purchaseCredits` |
| `Paywall` | `dialog`, `payStage`, `busy`, `closeTimers` | the state of `PaywallDialog` |
| `Console` | `turnStatus`, `conversationId`, `streaming`, `seeded` | the state of `ConsoleWorkspace`; `stream`, `opening`, `deleting`: its calls; `kept`, `files`: the server |
| `Library` | `listing`, `totalShown`, `job`, `readTimers` | the state of `LibraryWorkspace`; `ingest`, `list`, `removal`: its calls; `indexed`: the server |
| `Palette` | `text`, `found`, `searching`, `cursor`, `debounce` | the state of `CommandPalette`; `current`, `outdated`: searches under way, by whether they were aborted |
| `Polling` | `figure`, `pageLoading`, `pageOffline`, `load` | state and requests of the pages that poll; `reported`, `apiUp`: the API |
| `Atlas` | `plot`, `projecting`, `projection` | the state of `AtlasWorkspace`; `demoTimer`, with the `projecting` it captured |

`RouteStream` keeps a routed call as one record, so that a page with one call and a
fleet with several use the same operators. `ServerSteps` is `route_and_execute`: it
yields its events in order, debits between "authorising" and "settled", refunds in
its `except AppError` and not after another exception. The browser is at most `Lag`
events behind.

`Swarm` and `DemoTour` keep closures apart by launch: a launch that was stopped lives
on until its last await, and writes the same component state as the next one. That
is where their properties could fail: `StoppedLanesSpendNothing`, for instance, needs
`if (signal.aborted) return` after each await and not only at the start.

`BrowserSession` is extended by the paywall and abstracted in the other pages:
`getToken` gives a token or throws. Balances are only positive or not. Tokens have
three ages; a caller uses a token before it has aged twice, which is what
`REFRESH_MARGIN` (90 s) is for: a request is sent within it.

`Console` keeps as history which questions have had their "start" (`begun`) and whether
the screen and `conversationId` come from different calls (`crossed`); `Library` keeps
`overtaken`, `Atlas` `crowded`. These name the cases in which the code does let go of
the property: an opened conversation that lands on a running question, a reload that
overtakes a deletion, a demonstration's projection beside a visitor's. Each is
cleared by the step that mends it.

`Visits` instantiates the pages and opens one of them: `page` is chosen at the start,
and only that page moves. Its state space is the sum of the pages', not their
product, which is sound because the components under one page change no state of
another. It also holds the assumptions on the pages' constants, and `PagesInv`, the
conjunction of the pages' inductive invariants.

## Runs

| Run | Specification | States | Result |
|---|---|---|---|
| `ledger` | `CreditLedger` | 5,450 | passes |
| `signup_race` | `CreditLedger` | – | violates `LedgerAgreesWithBalance` |
| `settlement` | `Settlement`, fair | 101,898 | passes |
| `challenge_reuse` | `Settlement` | – | violates `ChallengeRedeemedOnce` |
| `paid_query` | `PaidQuery`, fair | 246,968 | passes |
| `dropped_stream` | `PaidQuery` | – | violates `DroppedConnectionIsFree` |
| `corpus` | `Corpus` | 106,479 | passes |
| `stale_answer` | `Corpus` | – | violates `NoStaleAnswers` |
| `visits` | `Visits` | 765,769 | passes |
| `visits_live` | `Visits`, fair, five pages | 235,679 | passes |
| `exact_swarm` | `Visits`, one page | – | violates `ExactIsAudited` |
| `failed_lane` | `Fleet` | – | violates `FailedLanesAreRefunded` |

### What they show

* **`ledger`** – whatever four concurrent callers do, a balance is the free credits
  given once plus payments and refunds less debits (`BalanceIsFunded`), never negative
  (the type invariant within `LedgerInv`), and equal to the `balance_after` of the newest entry
  (`NewestEntryIsBalance`). The store implements `Wallet`.
* **`signup_race`** – two first requests of one browser both find no row; the second
  transaction ignores the row but writes another `signup_grant` entry. The balance is
  right, the ledger sums to one grant too many.
* **`settlement`** – with three requests, two hashes, two challenges and a crash: a hash
  is credited at most once and only behind the `UNIQUE` constraint (`RedeemedOnce`);
  payment rows stand for real money and the payer's own challenge although the checks
  lie several statements earlier (`PaymentsAreBacked`); the ledger's payments are those
  of the credited rows, in proportion to what was paid (`CreditsMatchPayments`); a row
  without its credits belongs to a request that is about to grant them, or to one
  lost in a crash (`UncreditedIsInFlight`); a challenge is consumed only after its
  payment was credited (`ConsumedIsCredited`). Settlement implements `Redemption`.
  Every request ends (`RequestsEnd`); a recorded payment is credited as long as the
  server stays up (`RedemptionsAreCredited`). With a crash it is not: a retry is
  rejected as a replay, and nothing else looks for such a row. `UncreditedIsInFlight`
  states the exception.
* **`challenge_reuse`** – two verifications with different hashes read a challenge before
  either consumes it, and both settle it.
* **`paid_query`** – an answer costs one credit, a cached one nothing, a refused, failed
  or aborted request nothing (`AnswerOrMoneyBack`); the query log agrees
  (`LogMatchesBill`); conversations hold only turns of their owner
  (`ConversationsArePrivate`) and an answer stands after its question
  (`TurnsAreComplete`). The endpoints implement `Escrow`: a credit is held once, then
  kept or returned once, to the agent it came from. While the server stays up, clients
  stay and no conversation is deleted, a credit that was taken is returned or its
  answer goes on record (`ChargesAreSettled`).
* **`dropped_stream`** – the debit comes before the response's generator is started, the
  refund is in the generator. A client that is gone in between is charged.

* **`corpus`** – a listed document is searchable unless a deletion is under way or a
  crash cut one short (`ListedIsSearchable`); chunks without a row come from an upload
  in flight, one that lost the race for its checksum, or a crash
  (`OrphansAreExplained`): those no call can delete. As long as no question overlaps a
  change, the cache never serves an answer that was not found in the present corpus
  (`NoStaleAnswersUnraced`), also after an upload that failed before it could clear the
  cache: there the revision alone protects.
* **`stale_answer`** – a question that overlaps an upload assigns a snapshot it read before
  the upload, after the upload has dropped it. Revision and lexical search stay with
  the old corpus until the next change, and so do the answers that are cached.
* **`visits`** – page by page, for every order of clicks, timers and answers:
  * *streams*: however the text is cut, each frame is dispatched once and in order,
    the last one also without its blank line (`FramesSurviveChunking`);
  * *swarm*: after Stop no lane redeems a payment or asks a question
    (`StoppedLanesSpendNothing`), and in a swarm of fewer agents than a bundle has
    credits (on a server with the three trial credits the page reckons with) "Exact" is
    said only when every agent whose balance was read bought its bundle and paid for
    one answer (`ExactMeansPaid`), although balances are read later and a cached answer
    costs nothing;
  * *discovery*: a stage is ticked only after the server completed it for this very
    request, and the crown and the reputation card tell of it as well
    (`NoStepThatDidNotHappen`);
  * *fleet*: while calls are read the page offers Stop and the click reaches them, a
    lane with an answer was charged, and no lane stays busy
    (`SpendingFleetCanBeStopped`);
  * *paywall and handshake*: "issued", the ticked answer and the banner stand for a hash
    the server redeemed, through failures, resets and reopened dialogs
    (`ClaimedPaymentsHappened`);
  * *demonstration*: payments and transactions are counted from the calls of the run
    that is shown (`FiguresAreOfThisRun`);
  * *palette*, *console*, *session*, *library*: `MatchesAreOfTheText`,
    `ShownIsContinued`, `NoExpiredTokenIsSent`, `TileCountsTheList`;
  * *handshake, library, atlas*: what spins is a request under way
    (`SpinnersTurnForARequest`).
  * *all pages*: `PagesInv`, which is what the proofs rest on.

  `LedgerInv`, `SettlementInv`, `PaidQueryInv` and `CorpusInv` are the inductive invariants of
  the other components, checked by their runs before they were proved.
* **`visits_live`** – a routed request, the walkthrough, a question and the timeline of
  the demonstration come to an end whatever fails; a page that polls comes to show
  what the API reports once it stays up, though loads overtake one another and one
  may hang for good (`RunsEnd`). A question that was stopped is the exception: its turn
  keeps the look of a running one.
* **`exact_swarm`** – the page compares two sums. Two agents and a bundle of two credits
  are enough: one that was answered from the cache has a credit too many, one that
  bought nothing one too few, and the page says "Exact". With the default bundle of
  ten it takes nine of the former to one of the latter, which the swarm of twelve has
  room for.
* **`failed_lane`** – a lane whose call fails on the server with anything but an
  `AppError` after the debit keeps its charge, under the line that promises a refund.

### Bounds, and why they are enough

* *Ledger*: two agents (one id chosen by a browser, one minted by the server), four
  callers, amounts 1 and 2, one free credit. Two callers can race to open the account
  while two others move its balance; amounts differ so that a debit can be affordable
  for one and not for the other.
* *Settlement*: two agents, two challenges, one sandbox and one live hash, three
  requests: two race with the same hash or challenge and the third moves either.
  `Price` is 2 and a transaction brings in 1, 2 or 4: too little, the price, twice the
  price. `IdsLeft` admits a request that may need a challenge only while an unused id
  is left for each of them, so that the finite set of ids disables no step of a
  request.
* *PaidQuery*: two agents with one free credit each, two requests, two conversation
  ids – one per request, so that creation is never blocked. Requests may race for the
  last credit, for a conversation, or with its deletion.
* *Corpus*: two documents from before the start, ids and a file for new ones, two
  phrasings of one question, three jobs. Three jobs let a change overlap with two
  questions, two changes race for a checksum, or a deletion lie between two questions
  (the last needs the second document: on an empty corpus no answer is found). The
  cache has one entry, so that a second phrasing evicts the first.
* *Visits*: two of everything that can overlap – two launches of a swarm (of two lanes
  and one), two routed requests, two fleets of two lanes, two walks, two starts of the
  demonstration with one agent (its agents do not interact), two token callers, two
  purchases, two questions beside an earlier conversation, two batches (one with a file
  that is too large, one with a duplicate), two loads of two sources – because a stale
  closure needs one later run to disturb. Three frames of two payload symbols, a field
  name and a separator are cut at every place. Three of the three considered providers,
  of which two pass, let "n of m" be wrong. `Lag` is 1: a server further ahead only
  repeats what one event ahead shows, since the events are dispatched in order.
* `exact_swarm` is the page of the swarm alone, with a bundle of two credits.
* `visits_live` has one question instead of two, to keep the graph of the fairness check
  small, and only the pages with a liveness property.
* `MaxCrashes` is 1 in the runs: what a crash loses is a set of requests, and a second
  crash loses another such set. The theorems hold for every bound.
* Symmetry is used in `settlement` and `challenge_reuse`, over requests, agents and
  challenges, and in `corpus` and `stale_answer`, over jobs, phrasings and new document
  ids: the specifications treat them alike. Hashes are not symmetric (one is a sandbox
  hash). In `settlement` it holds with liveness as
  well, against TLC's warning: the fairness (some request steps) and the two
  properties single out no request, agent or challenge, so a path of the reduced graph
  lifts to a behaviour with the same fairness and the same violation, and back. Without
  symmetry the run has 1,660,892 states and the same result.
* Deadlock checking is off everywhere: each client makes its calls and stops.

### Fairness

`FairSpec` of `PaidQuery` asks weak fairness of `Step(q)` for each request: the steps of
the server's own handler. `Settlement` asks less, that *some* request steps as long as
one can, and needs no more, since each request takes few steps and comes once. This is
justified because handlers run on a thread pool or the event loop without waiting for
one another (SQLite's writers wait at most the busy timeout) and every external call
has a timeout. In the browser, `Visits`' `FairSpec` asks weak
fairness of timers, of the answers to the calls of a run (which may be failures: a
`fetch` ends) and of what follows them, for the page that is open; for polling pages
only of some request being answered, not of each, so that one may hang. The
demonstration's timeline gets no fairness but that of its timers. Nothing is assumed
of a visitor. Nothing is assumed of clients (they need not
call or leave), of payers, of expiry, of the web server's `CutOff`, or of crashes.

## Proofs

The theorems hold for all sets of agents, challenges, hashes, callers, requests,
documents, questions, conversations and jobs, finite or not, any prices, bundle, trial
credits and cache limit, and any bound on crashes, from the `ASSUME`s of the modules: ids are
distinct from `Nobody`, amounts are positive integers, the price is positive, settings
are natural numbers; of the pages, that a fleet, a cast, a swarm and a library's files
are finite, and that no text has more commands of the palette than the empty one, which
has them all. All safety invariants and action properties of the passing runs are
proved, the type invariants included, and so are the three refinements.

* **`CreditStoreProofs`** – one lemma per transaction: it preserves `StoreInv`, the
  inductive invariant of the two tables. `StoreInv` strengthens `BalanceIsFunded` and
  `NewestEntryIsBalance` by `NoRowNoMoney` (an id without a row has no money and no
  history, needed when the row appears) and by "at least one grant per row" (so that a
  second signup entry, which leaves `lastBalance` stale, falsifies the hypothesis
  `SignedUpOnce`). The proofs of its callers use the same lemmas.
* **`FiniteSums`** – the sums of `Functions` (`SumFunctionOnSet`) over finite sets: they are
  integers (`SumIsInt`), one element can be taken out (`SumWithout`) or put in (`SumWith`),
  and bounds of the terms bound the sum (`SumBetween`). The library's induction theorems
  take an operator as a parameter, which the provers cannot instantiate.
  `FiniteInduction` says the same with a *family of sets* in place of the predicate, and
  follows from the well-foundedness of ⊂ on finite sets: with it the recursive function
  under the fold exists (`SumsExist`) and the order in which `CHOOSE` picks elements does
  not matter (`SumsAgree`).
* **`CreditLedgerProofs`** – `LedgerInvariance` (`Spec => []LedgerInv`), its consequences
  `BalanceAlwaysFunded` and `NewestEntryAlwaysBalance`, and the refinement
  `StoreImplementsWallet`. The refinement needs the invariant: an `OpenAccount` on an
  existing row must be a stutter, a refund must be a deposit of one of `Amounts`.
* **`SettlementProofs`** – `SettlementInv` strengthens the safety properties by what each
  request has established at its step (`RequestInv`): at `record` the payment is backed
  whatever others did since the check, because `issuedTo`, `memo` and `paid` never change
  once set; at `grant` the row of the hash is the request's own and has no receipt. Two
  requests at `grant` have different hashes – the `UNIQUE` constraint – which is why a
  second receipt is impossible. `StepSuffices`, `OthersKeepInv` and
  `SurroundingsPreserve` split the induction into the request that moves, the requests
  that do not, and network, clock and crash. On `SettlementInvariance` rest
  * `UncreditedAlwaysInFlight`: a row becomes uncredited only by the `INSERT` of a request
    that goes on to the grant (`RecordedIsInFlight`), and stops being so only with that
    grant (`GrantedIsCredited`), or else the server has crashed;
  * `CreditsAlwaysMatchPayments`: `Reconciled` adds that the rows of an agent are finite in
    number, so that the sums of `FiniteSums` apply. A recorded row adds a term of zero, a
    grant turns one term from zero into what it posts to the ledger, and every other step
    leaves both alone;
  * `SettlementImplementsRedemption`;
  * `RequestsAlwaysAdvance`: every change of a request's label, by whomever, lowers
    `StepsLeft`, and every step of its own changes it. It is the ranking under
    `RequestsEnd`; with `UncreditedAlwaysInFlight` it is that under
    `RedemptionsAreCredited`;
  * `FreshIdsAlwaysSuffice`: by counting (`IdsCounted`), there is an unused challenge id for
    each request that may ask for one, so that `IdsLeft`, which bounds what arrives,
    never disables `MintChallenge`. Of requests and challenges it assumes that they are
    finitely many.
* **`PaidQueryProofs`** – `PaidQueryInv` is the conjunction of four parts: `BillInv` says, per
  label of a request, how often it was debited and refunded and what the log may hold;
  `TurnInv`, whose conversation it is in and which of its messages are there;
  `ConversationInv`, that an id that was never given out has neither owner nor rows, that
  every row comes from a request of the owner, and that an answer stands after its
  question; `StoreInv`. The two endpoints share labels, and the lemmas are grouped by
  what the steps change (`ReadsKeepInv`, `LogsKeepInv`, `RefundsKeepInv`, `SavesKeepInv`, …). The
  refinement of `Escrow` maps `Debit` to Hold, a refund to Return, an ending with a net
  charge, or the crash that cuts one off, to Keep, and `Register` to Fund – the last needs
  `NoRowNoMoney`: the new row must not overwrite a balance. Three more theorems are about
  how requests end: `QueriesAlwaysAdvance`, the ranking; `EndedChargesAlwaysSettled`, the
  safety half of `ChargesAreSettled`, for which `EndInv` gives each end that keeps a charge
  without an answer a cause that lasts (a crash, a client that left, a conversation whose
  row is gone for good); `FreshConversationsAlwaysSuffice`, by which a conversation id per
  request leaves no behaviour out.
* **`CorpusProofs`** – `CorpusInv` says of the two stores that an upload with its chunks in
  owns them alone and has no row yet (`UploadsOwnTheirDocument`), and that a document id
  never comes back, so that what a deletion removed stays removed (`DeletionsRemove`).
  With that `ListedAlwaysSearchable` and `OrphansAlwaysExplained` are inductive. For
  `UnracedAnswersAreFresh` it needs `QuestionsReadThePresent`: as long as nothing raced, a
  snapshot, a copy in progress and what a question has searched are the present corpus,
  or a change is about to drop the snapshot; and every cached answer was found in the
  corpus it is filed under. `CacheTypesNext` shows that LRU eviction keeps any limit.
* **`PageProofs`** – `CallInv` is the inductive invariant of one routed call: `seen` never
  passes `sent`, "done" is the end of the list, and a refund goes with a failure.
  `EventPlaces` computes the places of the events once, so that no later step unfolds the
  list. `FleetInv` adds that launch and button agree and, per lane, what its phase says
  of its call (`LaneInv`): a lane may show an answer only with the whole call behind it.
  `FleetShowsItsCalls` follows for any number of lanes and launches. `DiscoverInv` says
  what the properties of the discovery page only imply of the present state: a stage is
  done only when the event that completes it was *dispatched* (not merely emitted), an
  open token request has an unread call (so a new run starts with nothing done), and
  crown and reputation card come with their events. `EventCompletes` is the heart of it:
  from the stages done after `n` events, the handler of the next one ticks only what it
  and the events before it complete, although `Advance` ticks every earlier stage at
  once. `StepsShownHappened` follows. `FramesReassembled` is about the stream reader, for
  any number of frames and chunks cut anywhere. `StreamInv` says that after `arrived`
  symbols the buffer is the text from the last whole frame on, and that the frames before
  it were handed over. `Piece` is a stretch of the text; the proof computes where in it
  an empty line ends (at multiples of the frame's length and nowhere else) and what the
  block between two of them yields, whole or cut off (`BlockByBlock`). `PieceDispatched` adds
  the blocks up: `Dispatchable` recurses over the ends of blocks, the function that gives
  the right answer at each of them solves the recursion, and every solution agrees with
  it, since otherwise there were a last place where it does not. `FundsInv` is what the types of
  the discovery page need: a charge that can still be refunded leaves room for it.
* **`VisitsProofs`** – a step of a visit is a step of the open page and leaves the others
  alone, so what each page keeps holds of visits: `PagesKeepTheirInvariants`, and from it
  every property of the run `visits`.
  * *Routed calls and streams*: `VisitsShowFleets`, `VisitsShowDiscovery` and
    `VisitsShowStreams` carry `PageProofs` over to `FleetsAlwaysStoppable`,
    `ShownStepsHappened` and `FramesAlwaysSurvive`.
  * *Paywall*: `TokensInv` – a caller holds a token that was fresh when it was given, or one
    in its margin that it has held since, and `older` says which; `StageInv` for what the
    dialog shows.
  * *Handshake*: the step whose call is awaited runs and no other does while the page is
    open (`RunsWhereItWaits`), a question is asked of a redeemed payment and has a
    controller that whoever resets or leaves can reach (`QuestionsArePaidFor`), and the
    lines of the wire come in the order of the steps (`WirePrinted`). With `StageInv` of
    the paywall: `ClaimedPaymentsAlwaysHappened`.
  * *Swarm*: `EvenSumMeansPaid` is the arithmetic of `ExactAlwaysMeansPaid`: an agent that
    bought nothing is short by more than all others together can be ahead, so if the
    sums agree everyone bought, none can be below, and so none is above. That uses
    `SumBetween`, and fails exactly where `exact_swarm` fails. `StoppedLanesNeverSpend` is an
    action property: an aborted launch stays aborted, and each await is followed by the
    test of its own controller (`StoppedStaysStopped`).
  * *Demonstration*: the run that is shown is the current one or a stopped one
    (`RunsInOrder`), and a run has no call before its payment phase (`CallsComeWithPayment`),
    so that a run begins, and comes to that phase, with nothing on the counters; from
    there each event that is dispatched adds one to a counter and to the set whose
    cardinality the counter is.
  * *Console*: each question is filed once, after its "start" (`QuestionsFiled`), and one that
    was not stopped is on the screen and continues what is there
    (`QuestionContinuesScreen`): whoever takes the screen from it stops it or is recorded as
    having crossed it.
  * *Library*: a document whose deletion is under way is in the list unless a reload came
    without it (`ViewInv`), so that taking it off the list takes one off the count;
    `JobsInv` for the lines of the batches. *Palette*: a search that was not aborted is for
    the text above it. *Atlas*: until two queries run beside each other, one runs at most.
  * *Types* (`PagesAreWellTyped`): most of the pages' variables keep their sets by a look at
    each action. The ranges of the counters do not: each needs to know what is counted.
    A swarm's balance is not below zero because a lane that was charged had bought
    (`ChargedLanesBought`); the demonstration's tallies count looks and deals of the cast
    (`LooksCounted`); a conversation has a question that began it, and each question begins
    one at most (`OneConversationEach`); a batch's loop stands at one of its files
    (`AtItsFile`), a timer of the library belongs to a batch that is over, and one of the
    paywall to a purchase that is (`CloseTimersInv`). The library's tile may fall below
    zero when a reload overtakes a deletion, as the page does; `CountInRange` says how
    far: by the documents that are off the list.

**Only model-checked:** the liveness properties (`RequestsEnd`, `RedemptionsAreCredited`,
`ChargesAreSettled`, `RunsEnd`): fairness needs ENABLED, which the prover cannot handle. Their
safety halves – the rankings, the ids that suffice, what holds of a request that has
ended – are theorems of `SettlementProofs` and `PaidQueryProofs`; for `RunsEnd` they are not
stated, since the pages' runs pass through several closures and no one rank. The
properties of the runs that expect a violation are false and have no proof.

## Findings

1. `db/repository.py:85` – `get_or_create_agent` can write two signup entries
   (`signup_race`), against "it must agree with the balance"
   (`backend/tests/test_ledger_concurrency.py:81`).
2. `services/stellar_service.py:104` – a challenge can be redeemed by two payments
   (`challenge_reuse`), against "This challenge was already redeemed." (line 105). Both
   payments are real and both are credited.
3. `api/endpoints/rag.py:250` – a stream whose client leaves before its first event is
   charged (`dropped_stream`), against the docstring at line 217.

4. `services/vector_store.py:254` and `services/rag_service.py:203` – a stale answer can be
   cached under a revision that lookups accept (`stale_answer`), against the docstring
   at `vector_store.py:211`.

5. `services/marketplace.py:251` – a routed call that fails with anything but an
   `AppError` after the debit is not refunded (`failed_lane`), against "Failed calls are
   refunded automatically and recorded against the provider's reliability."
   (`components/discover/NetworkDemo.tsx:403`).

6. `components/protocol/SwarmSimulator.tsx:213` – the reconciliation compares two sums, in
   which deviations of several agents cancel out (`exact_swarm`), against "every agent
   bought one bundle and spent exactly one credit, so the balances must agree to the
   credit." (line 199).

## Not modelled

The float tolerance `AMOUNT_TOLERANCE` (amounts are whole units), SQLite's busy timeout
running out, the history read by `recent_turns` (it only goes into the prompt),
tokens and their expiry, wording, formatting, latency and token counts; analytics
and other reads; ranking arithmetic over floats; calls to Gemini beyond their
outcome. In the browser: layout, charts, the atlas canvas, sorting and filtering of
what was loaded, the theme (one remembered choice), toasts (shown and dropped by a
timer), the type declarations of `lib/types.ts` and the formatting of `lib/utils.ts`;
`lib/api.ts`, whose functions are one request each, appears as the calls of the
pages. Several tabs of one browser share `localStorage` only when they are opened, so
a page is modelled alone. Of the backend, the provider's side of the marketplace
(revenue, `invoke`, `compare`, the registry), the seeding thread, the rate limiter and
`FollowUpSplitter` are left out. `PROJECT.json` gives the reason component by
component.

## Plan

1. **Proofs** – rankings for the pages' runs, as there are for the requests of the server.
2. **Marketplace** – extends `CreditStore`: `invoke`, `compare`, the provider's revenue,
   registration, status, outcomes, behind the calls that `RouteStream` models.
3. **Corpus, continued** – the scope of a question (`document_ids`, a provider's scope),
   which the cache ignores, and `retrieve`'s selection with its fallback.
4. **Bootstrap**, **RateLimiter**, **FollowUpSplitter** – small modules, the last two
   against reference definitions.
