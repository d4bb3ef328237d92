# TLA+ models of the ERP backend

This directory holds TLA+ specifications of the ERP backend in `src/`, TLC configurations
that check them on small instances, and TLAPS proofs of some of their theorems for all
instances.  Paths below are relative to the repository; the code is in `src/`, docs in
`docs/`, the schema in `prisma/schema.prisma` (in `PROJECT.json` they carry the prefix
`src/` of the checkout).  `PROJECT.json` maps every definition to the lines it translates
and lists components, runs, mutants, findings, hazards and theorems.

To check a run: `tlc -config Receipts.cfg MCGoodsReceipts.tla`.  To check the proofs:
`tlapm GoodsReceipts_proofs.tla`.

## 1. The system

A NestJS application: HTTP controllers call services, services call Postgres through Prisma.
Every organisation (tenant) has rows of its own.  Beside them the process keeps state in its
own memory: the AI platform and its job queue, the payment adapters, the schedules.  Nothing
in the application serialises two requests: a request runs until its next `await`, and any
number of others run in between.  What holds across requests holds because of the database
(atomic increments, unique keys, row locks, a few `$transaction`s) or does not hold.

Four facts about the code shape all models:

* **A statement is a step.**  Each awaited Prisma call is one atomic step; between two of them
  any other request runs, the connection may drop or the process die.  What was written
  stays written unless a `$transaction` contained it.
* **Check, then write.**  Almost every service method reads a row, checks it, and writes later
  without a condition on what it then finds.  What a check has established may be false
  when the write happens.
* **Count plus one.**  Document numbers are one more than the rows there are.  Where the schema
  has a unique key (purchase orders, goods receipts, journal entries) the second of two equal
  numbers fails; sales orders, invoices and quotations have only an index.
* **In memory, real waits only.**  In the services without a database a step is what runs
  between two waits that may take time: a timer, a connection, a model, a tool, a store behind
  an interface.  A promise that is resolved already is no step of its own.

### Components

| Part | State | Operations | Interacts with |
| --- | --- | --- | --- |
| Stock service (`inventory/stock`) | `stock` rows (available, reserved), `stock_ledger` | reserve, release, increase, decrease, adjust, transferStock | called by transfers, goods receipts and the controller |
| Transfers (`inventory/transfer`) | transfer status and items | create, approve, complete, cancel | `complete` calls transferStock per item |
| Purchase orders, goods receipts (`procurement`) | orders, items, receipts, numbers | create, update, approve, cancel, duplicate; receive | the stock service |
| Payments (`payments`) | payments, allocations | createManual, captureGateway, allocate, refund, reconcile | read and write the invoice |
| Quotations, sales orders, invoices (`sales`, `invoices`) | status, lines, totals, numbers | create, edit, item operations, status changes, convert, duplicate, archive, restore | each made of the one before; payments |
| CRM (`crm`, `contacts`, `deals`, `activities`) | leads, companies, contacts, pipelines, deals, activities; timeline | create, update, assign, move, convert, win, lose, archive | timeline rows tell each change |
| Accounting (`accounting`) | accounts, journal entries, fiscal years | create, update, post, reverse, close; ledger, trial balance, statements | - |
| Registers (`products`, `inventory/warehouse`, `procurement/vendors`, `hrms`) | catalogue, warehouses, vendors, employees, leave, attendance | create, update, default, delete; apply, approve, check in and out | referred to by documents |
| Workflows (`workflows`) | definitions, execution logs | emit, evaluate, run actions, log | an event bus within the process |
| Access (`auth`, `rbac`, `authorization`) | users, sessions, refresh tokens; roles, grants, role version | register, login, refresh, logout; roles and permissions | the guard of every route |
| HTTP routes (the controllers) | - | 385 routes with the permission each asks for | the services |
| Subscriptions (`subscriptions`, `super-admin`, `organizations`) | plans, features, subscriptions, use counters | trial, activate, change, renew, cancel, suspend, sweep; check, increment | the organisation's plan |
| Billing (`billing`, `billing-portal`) | coupons, billing invoices, payments, addresses | apply and record, pay, refund, default address | the gateways |
| Payment gateways (`billing/providers`) | ids of webhooks seen | checkout, refund, webhook | Stripe, Razorpay (external) |
| AI job queue (`ai/queue`) | queue, timers, records, progress, circuit breakers, dead letters; schedules | enqueue, delay, cancel, retry, pause, drain, purge; schedule | processors |
| MCP (`ai/mcp`) | registry, adapters, transports, sessions, pending requests | register, connect, session, heartbeat, call a tool | tool servers (external) |
| Agents (`ai/agents`, `ai/multi-agent`, `ai/sandbox`) | orchestrations, load, scheduled tasks, messages | route, plan, delegate, execute, cancel; schedule; send and wait | tools |
| Conversations (`ai/conversation`) | conversations, messages, the user's session, memories | start, add, end, delete; context window | the storage provider |
| Cache (`ai/cache`) | entries, indexes by organisation, category, tag | get, set, getOrSet, invalidate, evict | - |
| Knowledge (`ai/knowledge`) | documents, versions, chunks, vectors | ingest, delete, query | embeddings (external) |
| AI gateway (`ai/core`, `ai/providers`) | registered providers | select, hand over | models (external) |
| Dashboards, searches, settings, audit log, metrics, bootstrap | none that others read | queries, single rows | - |

### What is hard, and what correctness means

* **Stock**: the check is made on a row read before; row and ledger entry are two statements.
  Correct: no row below zero, each quantity is what its ledger says, the ledger is an unbroken
  chain, a call is as good as one indivisible movement (the two updates of a transfer can be torn apart).
* **Transfers and receipts**: several items by as many calls, a status written at the end;
  checks outside the transaction and stock increased on another connection in its midst.
  Correct: what was moved or received is what the status and the rows say, nothing twice.
* **Sales documents**: six paths compute totals, and conversions copy them.  Correct: totals are
  those of the lines, a document is converted once and from a final one, what was sent is frozen.
* **Payments**: the overpayment check uses an amount that other calls write later; gateways repeat
  themselves.  Correct: not overpaid, captured once, the four payment fields belong together.
* **CRM, accounting, registers, workflows**: change and record of the change are two statements;
  flags that one row of many may have; periods checked for overlap before they are inserted.
* **Access**: refresh against refresh and logout; whoever changes permissions must raise the version.
* **Subscriptions and billing**: a sweep over a list read earlier, a plan kept in two tables, limits
  checked and counters incremented by separate calls.
* **Queue, MCP, agents**: timers, answers, disconnects, cancellations and retries race.  Correct: no
  job is lost or run twice, no timer outlives its session, nothing waits for ever.
* **Conversations, cache, knowledge**: several indexes of one thing, kept by separate calls; state read
  before a wait and used after it.
* **Gateways**: a lost answer is tried again, a webhook is delivered again.

`PROJECT.json`, "hazards", has each of these at its line with the properties that cover it.

## 2. The modules

| Module | Models | Composes or implements |
| --- | --- | --- |
| `AtomicStock` | what the stock service promises: each call one indivisible, checked movement, made at most once | - |
| `StockService` | `stock.service.ts`, every statement of every call | implements `AtomicStock` when calls do not overlap and no transfer is torn |
| `TransferService` | `transfer.service.ts` | contains `StockService` (INSTANCE): completion drives its calls |
| `InvoicePayments` | `payments.service.ts` and what `invoices.service.ts` writes of status, total and lines | two services on one row |
| `GoodsReceipts` | `goods-receipt.service.ts`, `purchase-orders.service.ts` | two services on the same order items |
| `JobQueue` | `ai/queue`: manager, provider, dispatcher, retries, dead letters, scheduler, records | processors external |
| `Rows` | the database as a table of rows, calls as queues of statements | extended by the next nine |
| `SalesDocuments` | quotations, sales orders, invoices, prices | three services and the way through them |
| `Crm` | leads, companies, contacts, deals, activities, timeline | - |
| `Accounting` | chart of accounts, journal, fiscal years, financial reports | - |
| `Registers` | products, warehouses, vendors, human resources | - |
| `Workflows` | event bus, definitions, engine, logs | - |
| `Access`, `Endpoints` | registration, sessions, roles; the routes and what each asks for | `Endpoints` extends `Access`: what a user may call |
| `Subscriptions` | organisations, plans, features, subscriptions, use; super admin | - |
| `Billing` | coupons, billing invoices, payments, addresses | - |
| `Services` | one behaviour, one of the nine | composes them; `MCServices` |
| `McpSessions` | `ai/mcp` | tool servers external |
| `AgentPlans`, `AgentRuns`, `AgentServices` | the agents' rules and plans; orchestrations down to the tools; scheduler and messages | `AgentRuns` extends `AgentPlans` |
| `Conversations`, `Caches`, `Knowledge` | `ai/conversation`, `ai/cache`, `ai/knowledge` | - |
| `Providers` | `ai/core`, `ai/providers` | models external |
| `PaymentGateways` | `billing/providers` | gateways external |
| `Schedules` | recurring schedules of `ai/queue` | - |
| `Platform` | one behaviour, one of the in-memory services | composes them; `MCPlatform` |
| `MC...` | instances for TLC: values of the constants, symmetry | extend the above |
| `Sums_proofs` | lemmas about sums over finite sets | used by the next |
| `StockService_proofs`, `TransferService_proofs`, `InvoicePayments_proofs`, `GoodsReceipts_proofs`, `Platform_proofs`, `Services_proofs`, `Documents_proofs` | theorems and their proofs | extend the module they name (`Platform_proofs` has those of `JobQueue` too, `Documents_proofs` continues `Services_proofs`) |

An operator that stands before a definition of the same parameters under the word *Mutant* is a
plausible mistake in the code; `PROJECT.json` pairs it with the property that finds it.

### One module, one service: stock, transfers, payments, receipts

A *request* is one call of a service method.  `call[r]` holds its arguments, `pc[r]` the next
statement or the outcome, `local[r]` (or `seen`, `wrote`) what it has read and still uses.  Each
action is what happens at one awaited statement, together with all the code up to the next one.
A request that throws keeps what it has written.

`StockService`: rows are named by `<<warehouse, product>>`, the table's unique key.  `Find` and
`Create` are `getOrCreateStock`.  `Update` is the increment, decrement, or absolute write (`adjust`),
and returns the row from which `PostLedger` takes the new quantity.  A transfer runs the two updates of
its `Promise.all` in either order, reads the destination again, and writes two entries.  `moved` and
`posted` are history.  A ledger entry's quantity has the sign of what was done (`Entry`), which `TypeOK` includes.
For the refinement a transfer counts as made with the first of its two updates (`Committed` adds what the other still
owes a row), and `made` of `AtomicStock` is the call that has moved something.  `serial`, chosen at the start, says that calls do not overlap; failures are always
possible.  `TransferService`: `MoveItem`, `ItemMoved`, `ItemFailed` are the loop of `complete` around
`transferStock`, whose own statements are steps of the embedded `StockService`.

`InvoicePayments`: `createManual` and `captureGateway` read the invoice, check void and room, look for
the gateway's transaction id, insert payment and allocation, and reconcile in three steps
(`ReadInvoiceRow`, `SumPayments`, `WriteBack`), since Prisma's `include` is a second query.  `allocate` takes any integer, since
its route has no DTO (`payments.controller.ts:54-55`) and the service looks only whether it is more than what remains.  A behaviour
has `mode` serial or overlapping.  Item lines are one number, their price; `SalesDocuments` has the rest.

`GoodsReceipts`: a receipt counts receipts for its number and opens a transaction; for every line it
increments the item and calls `StockService.increase` on another connection.  What an open transaction
has added is in `incremented[r]`, seen by itself only (READ COMMITTED); its row locks make another
increment wait (`Locked`); the unique number makes an equal insert wait, then fail.  An edit of an order
replaces its items: `generation` counts that, because a receipt with ids of deleted items violates a
foreign key.  `Midnight` is the only clock.

### The services on rows

`Rows` has what the others share.  A *row* is a record with its `kind`; the variable `row` maps ids to
rows, and ids are used in order and never again.  A method reads and checks when it begins (`Begin`); the
statements it has decided on are a queue, `todo[c]`, executed one by one: `Update` (which throws for a
row that is gone, or a code the schema's unique key refuses), `Create`, `Deletion`.  A later read is a statement of
its own, which fills in what follows.  A caller may `Die` before any statement.  `overlapped` and `died`
are history: most services promise something only of calls that do not overlap (`~overlapped`) or that
have come one after another to their end (`Orderly`), and each property says which.  `Quiet` says that no
call is in progress.

Columns no guard and no property reads (names, notes, addresses) are left out; of dates, what is compared.
Columns added for the properties (`allowed`, `replayed`, `manual`, `returned`) are marked where they are declared.

`Endpoints` is data with two properties: the routes of all controllers in the order of their registration,
each with its `@Permissions`, and the guard.  It extends `Access`, whose users have the permissions.

### The services in memory

* `McpSessions`: `session`, `connected`, `link`, `request` follow the session manager, the adapters, their
  sockets and the promises of sent requests.  A call that waits for a connection is kept in `calls`.  Timers are
  flags; a timer that is set may fire at any time.
* `AgentPlans` translates each agent's `canHandle` and `plan` into rules over the set of words of a text; `AgentRuns`
  has orchestrations by their levels, tasks by their steps, and tools (`tool`) that are asked whether they accept their input, start,
  return, are refused or are cut off; the answer of `validate()` is awaited without a time limit and may never come.
* `AgentServices`: the scheduler's timers (`timers` is the map, `due` the tasks) and messages that wait for answers.
* `Conversations`: a call is cut at each call of the storage provider; `inUse` is the one session of the user.
* `Caches`: `store` and three indexes; `Fills` are computations between a miss and its `set`.
* `Knowledge`: `ingest[d]` says how far an ingestion is, `deletion[d]` how far a deletion; the vector store and the
  chunk repository are two sets.  A text is a sequence of sections, and a chunk the set of positions it contains, so
  that `FixedSizeChunks` and `HeadingAwareChunks` are the strategies themselves.
* `Providers`: the selection asks one provider after another, which may come up and go down in between.
* `PaymentGateways`: an attempt is answered, loses its answer, or does not arrive; `keys` is what an external gateway remembers.
* `Schedules`: the two maps of timers of an id, and the timers of the process themselves, which a map may lose.
* `JobQueue`: a job may be waiting (`queue`), with a retry timer (`delayed`), with a scheduler timer (`scheduled`) or running.
  The provider holds a *copy* of the job with its own attempts count; the record has another.  A retry timer
  whose `enqueue` is refused rejects with nobody to catch it, and Node ends the process (`TimerKillsProcess`).

None of the services composed in `Services` works on the rows of another, nor in `Platform` on another's memory:
each behaviour exercises the one that `part` names, and the others stay.  This adds their states instead of
multiplying them, so that one run asks the questions of several.

## 3. The runs

| Run | Instance and bounds | What it shows |
| --- | --- | --- |
| `stock` | 2 warehouses, 1 product, 3 units, 3 calls overlapping or one after another, failures | quantities are the ledger's sums plus what is still unposted; one at a time: no overdraft, ledger unbroken, implements `AtomicStock` but for torn transfers |
| `stock_overdraft` | 2 overlapping reservations | violated: a row goes below zero |
| `stock_torn` | 1 transfer that may fail | violated: half of the transfer stays |
| `transfers` | 1 transfer of 2 items, 3 callers, failures | complete moves, approval, no double move but after a death |
| `invoices` | 2 invoices of 3 units, 4 calls one after another, or 3 overlapping, failures | paid as recorded; money taken once; the payment fields never torn |
| `invoice_unvoided` | payments, refunds and voids, one after another | violated: the VOID invoice becomes PARTIALLY_PAID |
| `queue` | 2 jobs, 2 workers, three settings: full and paused, circuit closing, endless retries; fairness | one place per job, cancelled never starts, a drain takes every waiting job |
| `queue_delayed` | 2 jobs, fairness | violated: a delayed job is never queued |
| `receipts` | 2 orders, 2 products, 3 overlapping calls, 2 days, failures | received is booked and in stock, numbers gapless, status true within a day |
| `receipt_midnight` | 2 receipts around midnight | violated: a fully received order stays PARTIALLY_RECEIVED |
| `services` | each service that keeps rows: 10 ids, 3 calls, 2 where they overlap or die | 17 properties, section 4 |
| `platform` | each in-memory service: 1 to 4 of each thing; fairness | 5 safety properties and `CallsSettle`, section 4 |

**Bounds and why they are enough.**  The hazards of these services are between two calls, or two calls and a
third that observes or completes them.

* In the runs before `services` three callers cover that (four in `invoices`, where payment, refund, allocation and
  edit follow each other).  Quantities are chosen so that one call fits and two do not: 3 units with movements of
  1 and 2, invoices of 3 with payments of 1 and 2, allocations of -1, 0 and 1, orders of 2 and 1 with receipts of 2, 1 and of both items.
  In the queue, capacity 1 with two jobs is a queue at its limit; `Threshold` 2 and `MaxRetries` 1 reach the
  open circuit and the end of the attempts.
* `services` starts each service in states with what the longest chains need already there (a fulfilled order, a
  posted entry, a subscription in grace, a session with a token), so that three calls one after another
  (`MaxCalls`), or two that overlap or die at any statement (`MaxMixed`), reach the end of them: convert, edit, convert
  again; reverse, then close; login, refresh, logout.  `Ids` has room for every row such calls insert; a call begins only while there is
  an id for what it inserts.  Starts, forms and vouchers are in `MCServices`: one unbalanced voucher, a
  header discount larger than the total, quantities and percentages that round.
* `platform`: two sessions over two adapters with three connections and one request; two orchestrations of the agents in
  every mode; one task and one message with up to three failures; two chats, one memory, limits of 2; two organisations
  sharing a category, two overlapping fills under one tag and a cache of two entries; texts with short, long and missing sections;
  three deployments of providers; two calls to the gateways, with two refunds that differ and two that do not;
  three events where two are remembered; four timers.  One document and one question in `Knowledge`: documents
  touch each other only in `DeleteOrganizationIndex`, which is a deletion of each, and a deletion in the name of
  another organisation is exercised on one as well as on two.
* Ids of things (sessions, chats, messages, errands) are each used once: they bound how many there are, and the code never reuses them.

Symmetry is over requests, callers, jobs and workers, which are interchangeable, and never in a run with a liveness
property.  Behaviours end when everybody has called what the bounds let him: deadlock is not checked.  In the queue and
the platform too a state without steps is one in which nobody calls and nothing is waited for; what has to happen is
stated as liveness.

**Overlap.**  The services promise less when calls overlap than when they do not.  Each property says which it is about:
`serial` (stock), `mode` (invoices), `overlapped` or `Orderly` (the others), or neither.  The difference is the point of the
violated runs, and what may go wrong under overlap is listed in section 6.

**Fairness.**  `FairSpec` of `JobQueue`: the loop of `processAllPending` goes on as long as the promise it awaits settles, a
processor returns or throws (one that never settles stops its worker, and the code has no timeout), and timers
fire.  `PlatformFairness`: a timer that was set and is not cleared fires (request timeouts, scheduler, awaited answers);
a level whose tasks have all ended is followed by the next; a tool that executes is cut off by its timer at the latest
(`Goes`); a provider asked for its health answers or is given up, because each `checkAvailability` has an
`AbortSignal.timeout`.  That a server, tool, agent or model answers, a connection opens, or anybody calls is
never assumed, nor that a tool's `validate()` settles, which no timer cuts off (`execution-pipeline.service.ts:35` awaits it before
`executeWithTimeout`): `CallsSettle` excepts the orchestration that waits for one for ever.  What is assumed is that Postgres answers or
fails, as the permission check and the audit row of a tool ask it.  Calls of models have no timeout in the code, and nothing is claimed about their end.

## 4. The properties, and what each is about

* *stock*: `NonNegative`, `LedgerTells` (`previousQty` comes from the read and `newQty` from the update) and
  `AtomicSpec` for calls that do not overlap and may die anywhere: each makes its movement once, whole and when it is allowed, but for the
  transfer that dies between its two updates.  `TransfersAtomic`, without that exception, is what the doc says and is violated.  `Reconciled`
  for any interleaving without adjustments, and with them for calls that do not overlap.
* *transfers*: `StockFollowsStatus`: a completed transfer has moved everything and stock moves only for an approved one,
  for any interleaving, although two completions may both run; `MovedOncePerAttempt` without overlap.
* *invoices*: `PaidAsRecorded` until a call has died; `MoneyTakenOnce` (allocations, negative ones included, within a captured payment,
  of a refunded one nothing more but what its refund clears, a gateway's transaction once, nothing for a void invoice) also when calls die; `NeverTorn` for any interleaving.
* *receipts*: `ReceiptsHold`; `NumbersGapless` and `CommittedStatusCurrent` until midnight.  That statuses are true within a day
  rests on an accident: receipts that overlap have counted the same number, so the unique key kills all but one.
* *queue*: `EachJobOnce` (one place, settled is over, dead-lettered once, nothing lost where nothing is refused),
  `CancelledNeverStarts`, `DrainTakesAll`.
* *sales documents*: `NumbersRun` (with the numbers of `Billing`), `Conversions`, `AmountsAgree` (every path of computing totals
  against one definition; the books, below), `SentIsFrozen`, `PriceCarriesOver`.
* *CRM and registers*: `HistoryTells`: the timeline replays to the row, although its entries take the old value from an
  earlier read; `OnePrimary` contact of an owner; `RegistersHold`: one default warehouse, and no two leaves share a day.
* *accounting*: `AmountsAgree`: at every date the trial balance has equal sides and the balance sheet balances, whatever was
  moved, retyped, reversed; `BooksHold`: an entry is REVERSED only if its mirror is posted, and exactly then, with one
  mirror, while calls do not overlap; no two fiscal years share a day.
* *workflows*: `LogsTell`: what a log says is what ran, also when the definition changes under a run.  FAILED is also what an execution gets whose
  conditions throw, or whose SUCCESS cannot be written: then all actions ran.
* *access*: `SessionsHold`: one live token per session and none after logout or reuse; `RolesHold`: whoever remembers the role
  version remembers the permissions, and the owner stays; `RoutesHold`: no route is shadowed by one
  registered before it, and a user with nothing but the reading permissions changes nothing.
* *subscriptions, billing*: `PlanAgrees` between the two tables, `ExpiredIsOver`, `SpentAsAllowed`; `MeteredWithinLimit`: a client that asks first
  adds to a counter only while it is below the limit, whatever amount it adds, and so passes it by less than one report.
* *platform*: `TimersHold` (no timer of an ended session or a cancelled schedule, except one whose id came to lead to
  another; no schedule executes too often), `CallsSettle` (requests, orchestrations, delayed tasks, awaited answers and
  selections end, but for an orchestration that waits for a tool's `validate()` for ever), `AgentsTell` (the load is what runs, nothing is synthesised without findings, every agent has a plan
  of tools it declares for every two words), `ConversationsHold`, `IndexesHold` (the cache's three indexes
  cover it; an indexed document is in both stores, a failed or deleted one in none; no answer from another
  organisation's chunks; chunks lose and repeat no section but those named), `AdaptersHold` (what is tried again under
  a key is done once and so is a webhook; a provider that is up all the while is found).

## 5. The proofs

For every value of the constants: any warehouses, products, invoices, orders, jobs, calls, amounts, and any finite number
of requests.  The assumptions on the constants are what the DTOs and the schema enforce (a quantity, a payment and a refund are positive integers, a
transfer is between two warehouses, a receipt has a line, a report of use is positive; an allocation has no DTO and is any integer of the schema's column), and that a service has been called finitely often, which sums
and cardinalities need.  TLC evaluates all of them in the runs, and has checked every invariant below on the run of
its module before it was proved.

`Sums_proofs`: what the proofs need of the library's sums over finite sets.  A fold is a recursive function that the
provers cannot unfold, and induction theorems that take an operator are not available: `SubsetInduction` is stated of a set of
subsets, from the library's minimal-element principle (`WFMin`), and `IterationExists` and `IterationsAgree` get the fold's recursion by it.  From it: the sum of
a set is one element plus the sum of the rest (`SumRemove`, `SumAdd`), depends on the summands only (`SumCongruence`), and
follows a change of one summand (`SumUpdate`), and sums of sums and differences are those of the sums (`SumCombine`); it is monotone.  The same for left folds over sequences: the library's `FoldLeft` is a fold over
sets of positions, and an iteration of a function over them is taken position by position (`PositionsIterate`, `IterationTyped`), so that a
fold over one more element is one step more (`FoldsAppended`); with `SequenceInduction`, induction over sequences stated of a set of them.

`StockService_proofs`
* `TypeCorrect`: `Spec => []TypeOK`; that entries have the sign of their type (`EntryIsTyped`) needs that only transfers reach a transfer's statements,
  which `TypeOK` includes.
* `NeverOverdrawn`: `Spec => []NonNegative`.  A check is made on a row that was read some statements
  before, so `NonNegative` alone is not inductive.  `SerialInv` adds that at most one call is
  in flight (`OneAtATime`), that what it has read is still true (`Fresh`), and that rows that do not exist count as
  empty (`RowsFound`).
* `ImplementsAtomic`: `Spec => AtomicSpec`: without overlaps every step is one of `AtomicStock`, a stutter, or the failure that tears a transfer.  By
  `SerialInv` and `Stages` a request has moved nothing before its first update.  `UpdateIsAtomic` and `TransferIsAtomic`: that update is the whole
  movement of `Committed`, the second update of a transfer is none (`StepCommits` follows the sum of what is outstanding), and every other
  step leaves all three mapped variables alone (`StepStutters`).
* `AlwaysReconciled`: `Spec => []Reconciled`, which asks nothing where an adjustment overlaps other calls (it
  writes a sum of what it has read, and an overlapping one does break it: section 6).  `Stages` says what a call has moved and posted at each
  statement; then each statement changes the row, its ledger's sum and the sum owed by the same amount (`SumUpdate`).
* `LedgersTell`: `Spec => []LedgerTells`.  `TellInv` adds that what a call has read and written is where the chain of
  its row ends (`Informed`, `Links`), so that the entry it posts is the next link.

`TransferService_proofs`, of `TransferService` with the stock service inside
* `StatusTellsOfStock`: `Spec => []StockFollowsStatus`.  `StockInv` repeats types and stages for the embedded service; `CallerInv` says at which
  item each completion is, that its earlier items are settled "done" and its later ones not begun; `WrittenInv` that every
  status was written by a call entitled to it, which still is to be found among the callers that are done; `SoloInv` that without overlaps a
  running call is alone and the status is the one it has read.
* `MovedOnceForEachAttempt`: `Spec => []MovedOncePerAttempt`.  Of the completions that have moved a line all but one have died: two
  that have not would be one running and one done, and the status would be both IN_TRANSIT and COMPLETED.

`InvoicePayments_proofs`, in layers, each resting on those before
* `TypeCorrect` and `NoMoneyFromNothing` from `StageInv` (what each call was asked for and has found at each statement) and
  `MoneyInv`: `NoPhantomMoney` holds because a sum read long ago was of payments that were made, and these only become more.
* `RowsStayWhole`: `Spec => []NeverTorn`, given that overlapping behaviours contain no edits, as in the run; with them it is false, because an edit
  writes totals from the amount it has read.  `FieldInv`: the total that a reconciliation goes by is the row's.
* `MoneyIsTakenOnce`: `Spec => MoneyTakenOnce`, an action property, from `TurnInv`: alone, what a call has checked holds until it acts on it.  Allocations
  are any integers: a step that lowers or clears them is bounded as the property says.
* `InvoicesTell`: `Spec => []PaidAsRecorded`.  `RecordInv`: every invoice is accurate, or the one running call is on its way from the
  change of its payments to the write-back.

`GoodsReceipts_proofs`
* `TypeCorrect`: with the cursor of a receipt (`Cursor`): at a line, that line exists.
* `GaplessNumbers`: `Spec => []NumbersGapless`.  `NumbersInv` says who holds which number while day 1 lasts: a receipt
  about to insert holds one that is taken or the next one; one whose transaction is open holds the next one; there is at
  most one such.  So an insert that finds its number free holds the next one and is alone, and a commit takes exactly
  the next number.  This also shows that transactions of receipts within a day never run side by side, on which the
  truth of the status rests.
* `ReceiptsAlwaysHold`: `Spec => []ReceiptsHold`.  `BookInv`: what a transaction has incremented is what the lines before its cursor ask for, and
  the stock of a product is at least what is booked and what is pending, two nested sums.  `SoloInv`: without overlaps what a
  receipt has checked still fits its order.
* `StatusIsCurrent`: `Spec => CommittedStatusCurrent`, an action property, from `NumbersInv` and `StatusInv`: the status that an open transaction is
  about to commit is RECEIVED exactly when its order will be complete, as no other commits before it.

`Platform_proofs`, of `JobQueue`
* `JobsOnce`: `Spec => []EachJobOnce`.  `QueueInv`: `Singles` (no two workers and no two places of the queue hold copies of one job), `JobInv` (what a job's
  record says of where it is) and the capacity.  `FirstMatchRemoved`, `TakenOut`, `Appended` are about the sequences.
* `CancelledStays`: `Spec => CancelledNeverStarts`, an action property: by `QueueInv` a cancelled job that no worker runs is in no place from which one is taken.

`Platform_proofs`, of `Platform`: `PlatformInv` has one invariant for each in-memory service, none of which needs another's.  No assumption on overlaps:
any number of calls, timers and answers, in any order.
* `TimersAreStopped`: `PlatformSpec => []TimersHold`.  `McpInv`: whatever timer runs is that of a session in the table.  `ScheduleInv`: every timer
  that ticks is the one its schedule's id leads to (`Followed`) or has been recorded as lost, and no count of executions is above the limit
  (`CountsWithin`).
* `AdaptersAlwaysHold`: `PlatformSpec => []AdaptersHold`.  `GatewayInv`: an order with a key has been done once if the gateway knows the key, else never (`KeysTell`); an attempt that has not succeeded
  has done no more than answers were lost (`AttemptsTell`).  `WebhookInv`: handed over once exactly if the id is remembered.  `ProviderInv`:
  a provider that has been up since the prompt was sent is still among those left to ask (`Selecting`), and is found in the end (`Selected`);
  of the candidates the one asked for is the first, and every provider is one (`CandidatesTell`).
* `IndexesAlwaysHold`: `PlatformSpec => []IndexesHold`.  `CacheInv`: a stored key is in each index it belongs to.  `KnowledgeInv`: `StoresTell` (which
  store has a document at each statement of its ingestion), `DeletionTells`, and `QuestionTells` (what a question has found is of
  its own organisation), one document at a time.  `TextsTold`: of every text the chunks are as `ChunksCover` says.  A chunker is a fold over the
  sections, and `Sound` is what the pieces collected so far say of the sections passed.
* `ConversationsAlwaysHold`: `PlatformSpec => []ConversationsHold`.  `ConversationInv`: calls that have still to open a session, or to close it,
  have their conversation in the status they found it in (`CallTells`); the tokens of a session are those of its messages, also when the oldest is dropped
  (`PushCounts`, `TokensOfTail`); what is trimmed keeps all system messages and takes others as long as they fit (`TakingFits`, `TrimmedFits`).
* `AgentsAlwaysTell`: `PlatformSpec => []AgentsTell`.  `AgentInv`: the load of an agent is the number of coordinations in which its task runs (`LoadTells`); of
  an orchestration (`Told`) the levels are disjoint and never empty, those ahead have not begun, one has begun only after the one
  before has answered, and success is that of all.  Each step is one of four changes of the statuses of one orchestration (`FirstBegins`, `NextBegins`, `OneEnds`, `AllEnds`).  The
  levels come from the plan of the subtasks, which names nobody twice (`SubtasksTell`, `LevelsTell`); and the rules of every agent
  have only tools that it declares, whatever the text (`PlansTell`; the run looks at texts of two words).

Assumptions of `Platform_proofs` on the constants: `ScheduleAssumption` (a limit on executions is positive: zero is no limit in
`recordExecution`), `SetupAssumption` (what is registered is among the providers there are), `TextAssumption` (the defaults of `constants.ts`
are naturals, the overlap below the size; of two sections next to each other one is a heading, as `splitByHeadings` makes them),
`ConversationAssumption` (sizes and limits are naturals, memories are finitely many; no conversation has the id that stands for none), `AgentAssumption` (who is registered is one of the agents; a list
of agents asked by name has somebody and nobody twice, which is a bound of the model and not a check of the code, since a task is known by its agent).

`Services_proofs`, of sessions, roles and permissions (`Rows` with `Access`): the theorems are of `ServicesSpec` for the behaviours
that exercise them (`part = "access"`; in the others there are no rows of theirs), and of `AccessSpec` by itself (`AccessAlwaysHolds`).
`AccessInv`, any number of calls that overlap and die:
* the rows (`AccessRows`): what a row refers to is there, ids are given in order, the owner's role is somebody's and a grant is within
  one organisation, which is `OwnerStays`; and what each call has left is one of the lists that an operation decides on (`Scripts`),
  whose references go on leading somewhere as rows are only added, altered in columns that nobody relies on, or grants taken (`Grows`).
* `SessionsAlwaysHold`: `SessionsTold`.  Without overlaps a session has one live token at most, and one that was revoked or replayed has none
  or the call in progress is about to revoke them; a call about to insert a token finds its session unended, and in it no token (a
  login) or the one it replaces (a refresh): `Prepared`.
* `RolesAlwaysHold`: `VersionsTold`, also for calls that overlap.  An organisation's users may do what they might when its version was
  last raised, or some call still owes the raise (`Owing`).  A statement about one organisation changes nobody's rights in another
  (`RightsElsewhere`), as grants lead to roles of the user's own.

`Services_proofs` goes on with the other services on rows.  Each theorem is of `ServicesSpec` for the behaviours that exercise the service
(`part = "..."`); each has an invariant of the rows and one of what every call has still to execute, which a statement of another call, where calls may
overlap, or of the call itself must not spoil.
* `RegistersAlwaysHold`: `RegistersHold`.  `RegisterInv`: without overlaps one call at most is in progress, the tables are `SoundRegister`
  (one default warehouse, leaves of an employee apart) and every list of statements is `Sound` (the default is cleared before another is set; a leave that
  will be inserted shares no day with those there are).
* `BooksAlwaysHold`: `BooksHold`.  `BookInv`: `BookRows` (an entry that is REVERSED has a posted one that reverses it) and `BookScript` (a status is set
  after the mirror is entered) hold whatever overlaps and dies; `NeatBooks` (one mirror, years apart) and `BookPrepared` (what a call
  has checked still holds) without overlaps.
* `HistoriesAlwaysTell`, `PrimariesStayApart`: `HistoryTells`, `OnePrimary`.  `CrmInv` is `AssignedInv`, of any overlap (whoever a call will make assignee
  of a lead is recorded, or about to be: `Recording`), and `TimelineInv`, while calls come one after another to their end: every field
  told of replays but for the one whose row the call in progress is about to write (`AllTold`, `Noting`), the primary contacts not claimed are
  apart, and each call has left one of nine forms (`Left`), which each statement makes a shorter one (`SetTells`, `NoteWritten`, `TimelineClears`).
* `LogsAlwaysTell`: `LogsTell`, for overlapping executions, changes and deletions, and calls that die.  `WorkflowInv`: each log is told of by one
  call at most, and is PENDING only as long as one tells of it or after some call has died; what is left of a run counts its actions, and a SUCCESS that
  turns into FAILED leaves the count as it is (`SuccessBecomesFailed`).

`Documents_proofs` continues it with what is sent to customers and what they pay for
* `ConversionsAlwaysHold` (`Conversions`) and `NumbersAlwaysRun` (`NumbersGapless` and `BillsRun`).  `SalesInv`: without overlaps, whichever calls die, the tables are
  `NeatSales`, and what the one call in progress has left is plain (no column that is compared), one move along `VALID_TRANSITIONS`, one
  deletion or restoration, or an insert with what precedes it: the look for another conversion, the count, and then a number that is the
  next (`Making`).  `BillingInv` is about any overlap: a number was one past the newest when it was read.
* `SentStaysFrozen`: `SentIsFrozen`, an action property.  `SentInv`: whatever of a call writes lines or totals is about drafts, and stays so
  until it is executed, as nobody sends the document meanwhile.
* `PlansAlwaysAgree`, `ExpiredStaysOver`, `MeteredStaysWithin`: `PlanAgrees`, `ExpiredIsOver`, `MeteredWithinLimit`, while calls come one after another to their
  end.  `SubscriptionInv`: a plan on record that does not agree with the subscription is about to be written (`Orderly`, `Syncs`), and each call has left
  one of a few forms (a trial, a change of plan, a renewal, a sweep, a metered use).
* `SpentStaysAllowed`: `SpentAsAllowed`.  `SpendInv`: what a call has read of a coupon, a payment or an address holds when it acts on it.
* `TotalsAlwaysAgree`: `TotalsAgree`, and `PriceAlwaysCarriesOver`: `PriceCarriesOver`, while calls come one after another to their end.  `TallyInv`: the totals of
  each document are those of its lines (`Tallied`), but for the one that the call in progress edits, and that call still has the computation ahead
  (`Revising`), with the shipping the row has by then (`ShippingKnown`), or the write of what it computed (`Totalling`).  So what a conversion copies is tallied, and what it inserts
  asks for the same (`Carries`).  That the net amounts of the lines add up to the three sums the code makes of them is `SumCombine`.

Assumptions of these two: `RowsAssumption` (ids are 1 to n); `AccessAssumption`, `RegisterAssumption`, `BookAssumption`, `CrmAssumption`, `WorkflowAssumption`, `SalesAssumption`,
`BillingAssumption`, `SubscriptionAssumption` say of the tables a behaviour starts with what the operations leave (no warehouse is a second
default, no log is PENDING, numbers have no gap, plans agree, totals are those of the lines).  `SalesAssumption` also has the amounts that a
client sends natural numbers, as the DTOs' `@Min(0)` do (`create-quotation-item.dto.ts:16-34`).  TLC evaluates them for the tables of the run.

A proof attempt found one thing the run had not: that an entry has *one* posted mirror is not so when two posts overlap a reversal of both
(`journal-entries.service.ts:164-172` does not look at the entry it mirrors, although `docs/sprint-8-accounting.md:122-128` has one reversal per entry).  TLC confirmed it
on larger starts; `ReversalsMatch` says since then what holds of overlapping calls and what of others, and the hazard is listed.

Only model-checked, and why:
* liveness (`DrainTakesAll`, `CallsSettle`): out of the prover's reach;
* of `AmountsAgree` the half about accounts, `BooksBalance`: it needs sums over accounts, entries and lines taken in either order; the other
  half is `TotalsAlwaysAgree`;
* `RoutesHold` is a computation with the table of routes, which TLC evaluates and nothing could make more general.

## 6. Where the code differs from its docs, and what may go wrong

The five violated runs, with the quoted lines, are in `PROJECT.json`, "findings".  The other properties leave room for more
that the models can do; each exception they make is one of these.

*Stock, transfers, receipts*
* An `adjust` overlapping another movement overwrites it; half of a transfer stays when the other half fails, although
  `docs/sprint-6-inventory.md:130` has it atomic (`stock_torn`); a call that dies
  between update and ledger leaves the row unposted.
* Overlapping completions of one transfer move its items twice; a cancellation overlapping a completion can turn COMPLETED
  into CANCELLED.
* A receipt that names a product in two lines, or two that overlap around midnight, receive too much; an edit dying
  between delete and insert leaves an order without items.
* `docs/sprint-6-inventory.md:146-148` has the confirmation of a sales order reserve stock; nothing in `src/sales` calls the
  stock service.
* Making a warehouse the default with the code of a deleted one clears the old default, then fails.

*Sales, payments*
* Overlapping payments overpay an invoice; overlapping captures of one transaction are both recorded; an overlapping
  reconciliation leaves stale amounts.
* `docs/sprint-5.2-sales-orders.md:108` promises one order per quotation: archive, convert again and restore
  makes two, and so do overlapping conversions.  A quotation's header discount is lost on conversion.
* Two overlapping creations get the same number.
* `allocate` takes zero and negative amounts.  A negative one makes room to allocate more of the payment elsewhere; a refund then sets the negative one
  to zero (`Math.max(0, ...)`, `payments.service.ts:401`), and more of the refunded payment is allocated than it ever was.

*Accounting, registers*
* Deleting an account that was used only deactivates it, and it drops out of the balance sheet.  Of a reversed pair the reports
  count only the reversal.  Of the P&L's two filters on a date the second overwrites the first (`reports.service.ts`).
* `isClosed` of a fiscal year is documented to prevent postings; nothing reads it.  An update of a year does not look for overlap;
  moving an account under its own descendant is not prevented.
* Two overlapping reversals both post.

*Access*
* `failedLoginAttempts` is only counted, no account is ever locked; nothing compares a token's `roleVersion`; login and refresh do not look at
  the organisation's status.  Two overlapping refreshes both rotate.  Two overlapping `setRolePermissions` may leave a union.
* `prisma/seed.ts` seeds 63 permissions; 86 of the 133 that the controllers ask for are not among them, so that only
  an owner reaches those routes; `docs/sprint-5.0-product-catalog.md:134` says the seed carries them.

*Subscriptions and billing*
* `canUse` does not look at the amount it is asked about, and a report of use adds any amount without looking at the limit: a client that always
  asks first still passes a hard limit (`MeteredWithinLimit` says by how much), where `docs/SAAS_PLATFORM_ARCHITECTURE.md:545` says "Operation blocked".
* `docs/ARCHITECTURE.md` has all transitions enforced by `VALID_TRANSITIONS`; `renew` moves CANCELED and PAST_DUE to ACTIVE without it.
  A downgrade is immediate, where the service's comment and `SAAS_PLATFORM_ARCHITECTURE` say at the end of the period.
* An expired, suspended or cancelled subscription keeps all its features.  A trial is never expired by the sweep.  Renewal after
  a suspension leaves the organisation FREE; a change of plan on a suspended subscription writes the paid tier.
* The super admin's operations on plans commit and then throw, because the audit row names an organisation that does not exist.
  His overrides write a limit that `checkUsage` does not read.  A deleted organisation can never be found to be reactivated.
* A cancelled billing invoice can be marked paid; a partially refunded payment cannot be refunded again, and the amount of the first
  refund is not checked.  `recordUsage` of coupons has no caller.

*Queue and schedules*
* Retrying a dead letter deletes it and enqueues nothing; the attempts on the queued copy stay 0, so the circuit breaker
  and not `maxRetries` ends the retries; cancelling a running job is overwritten by its outcome; a job submitted while paused stays
  "queued" in its record and nowhere else.  Nothing in `src/` calls `processAllPending`.
* A second `schedule` or `resume` of one id makes it lose the timer it had, which `cancel` and `pause` cannot stop then.  A cron
  expression becomes an interval of undefined length.  What fires only logs.

*AI platform*
* MCP: a socket that fails before it opens leaves `createSession` waiting for ever; a late close of a transport marks the adapter that
  replaced it disconnected; the end of one session cuts off the others of its adapter; a failed HTTP send is told to nobody, and its
  request waits for the timer; reconnecting a server that was unregistered stays "reconnecting"; tools fetched while it is unregistered are cached again.
* Agents: a tool whose `validate()` never settles keeps its orchestration waiting for ever, since the time limit begins after it; the executor and the pipeline answer failures and never throw, so delegation never fails over, a workflow never fails, and
  the branch "Dependencies not met" is not reached.  No module registers the tools the plans name.  Cancelling stops nothing.
  A retry timer revives a task that was cancelled.  `sendAndWait` with a target is answered by its own
  request: `deliver` finds the correlation id pending and resolves it with the payload that was sent.  `acknowledge` of a broadcast may remove another agent's copy.
* Conversations: counters lose updates; a user's one session takes the messages of other conversations; messages stored during a deletion stay;
  a window's sum may be of a list that grew meanwhile.
* Cache: invalidating a category for one organisation drops the category's index of all, so that another's later
  invalidation finds nothing (`docs/sprint-12.10-semantic-cache.md`, "Organization isolation").  A value computed before an invalidation is stored after it.
* Knowledge: `IndexingService` and `HybridRetrievalService` take parameters typed by interfaces without an injection token and read the
  embedding provider before it is registered: the model has the wiring of the unit tests.  A deletion by another organisation's
  id removes the record and leaves the index; one overtaken by an ingestion leaves an index that is cited as "Unknown";
  deleting an organisation's index leaves the chunks.  Text before the first chunk that is too short is in no chunk, nor
  is the heading of a section that was added to the chunk before.
* Providers: the capability asked for is not looked at, so that an embedding may be handed to Claude or Bedrock, which refuse it; the last resort
  chooses a provider that runs but is not enabled, which then refuses.
* Gateways: Razorpay's refunds carry no idempotency key, and a lost answer refunds twice; two intended refunds by Stripe of the same payment, amount and
  reason share a key, and one is made.  Webhook ids are forgotten after 10000 and at a restart; without a webhook secret Stripe's events
  are not compared at all.  `PaymentGatewayService` has no caller in `src/`.

## 7. Not modelled

* Names, descriptions, addresses and dates that no guard reads; listings, searches, dashboards, exports, events, logs and audit rows.
  They read and format, and their routes are in `Endpoints`.  Organisation settings are one row that is read and written.
* Organisations, where every row and every query carries the tenant's id (stock, procurement, sales): rows of two tenants never meet.
  Where they share memory (cache, knowledge) there are two.
* Cancelling a goods receipt: it asks for a DRAFT, and `create` makes none.  The status SENT of purchase orders: nothing sets it.
* `StockService.increase` inside a receipt is one step there; its statements are those of `StockService`.
* Prices in `InvoicePayments` are one number; discounts and tax are in `SalesDocuments`.  Unit costs are nowhere read.
* Passwords, access tokens and signatures, which only ever refuse; expiry of tokens likewise.
* Of the queue: statistics, the worker manager and metrics, which nothing consults; per-type retry policies, which `shouldRetry`
  does not read.  Of MCP: authentication, resources and prompts, which are fetched and cached as the tools are; stdio.
  Of the agents: their own `execute`, which the executor never calls; shared memory; consensus, whose pending votes no request can reach since `evaluate`
  does not give out its id.  Of the gateways: `verifyPayment`, which only asks.  Of the models: formats, streaming, token counts.
* Registries of prompts and built-in metadata, filled once at start-up; bootstrap, configuration, health checks, Prisma.
* Gateways, language models, tool servers, Prisma and Postgres themselves.  Isolation is READ COMMITTED, Postgres' default.

With that, what is left of the code are declarations (DTOs, interfaces, the schema), wiring, queries and layout; each part
has its reason in `PROJECT.json`, "components".

## 8. Plan

Done: every part of section 1 that changes state, and of what the runs show all invariants and action properties but
those that section 5 lists as only model-checked.  What is left:

1. `BooksBalance`: an invariant of the entries (debits equal credits, every line's account is there) and the exchange of two sums.
