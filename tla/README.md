# A TLA+ verification project for ai-e-commerce

ai-e-commerce collects products from Ozon with Chrome agents, keeps them in a
product library, lists them on Wildberries (WB) and follows sales and purchase
orders. It is a NestJS API over PostgreSQL (Prisma), with BullMQ queues in
Redis, a Chrome extension that polls for work, and a web application.

This directory holds TLA+ models of its concurrent core, the TLC runs that check
them on small instances, and proofs, checked by TLAPS, of the properties that
should hold for every size. `PROJECT.json` is the index: components, runs,
the mutation that each property detects, the source lines behind every
definition, hazards, findings and theorems.

## 1. Inventory

Paths are relative to the repository. "State" is what outlives a call.

| Component | State | Operations | Model |
|---|---|---|---|
| Collection tasks: `apps/api/src/modules/crawler`, `queues/crawler-*.processor.ts`, `packages/collector-core/src/listing-quota.ts` | `CrawlTask` (status, config.listingPool), `CrawlTaskItem` (status, assignedAgentId, retryCount), prepare and retry jobs | create, prepare, claim, report result / page / failure, retry, release, back-fill, refresh status, cancel, delete, ingestDirect | `CrawlerTask`, `Dispatch`; ingestion in `AiSelection` |
| Collector extension: `apps/collector-extension/background.js` | claimed items, tabs, flags, alarm in `chrome.storage` | poll loop, alarm, START, STOP, claim, open and close tabs, report | agent side in `CrawlerTask`, the rest in `CollectorPolling` |
| Page harvesting: `content.js`, `ozon-harvest.js`, `seller-bridge.js`, the merging in `background.js` | what was read of one page so far | read links; ask widgets; rank measures; gather stock and variants | `ListingHarvest`, `HarvestWidgets`, `HarvestMeasures`, `HarvestStock`, `HarvestVariants` |
| WB listing jobs: `modules/product/product.service.ts` | `Product` (status, wbListingStatus), `ProductShopListing` per shop (status, wbNmId), jobs of the wb-listing queue, cards at WB | shelf, unlist, processWbListing, sync summary, remove; closing a shop | `WbListing` |
| Shop listing lock: `queues/wb-listing-concurrency.ts`, `redis-listing-lock.store.ts`, `wb-listing.processor.ts` | keys in Redis with a time to live | acquire, extend, release, delay | `ShopListingLock` |
| Shelf prices: `modules/product/shelf-price.ts` | the product's prices | price, list price and discount of a shelving | `ShelfPrice` |
| Category mappings: `wb-category-mapping.service.ts` | one row per category | upsert, remove, resolve, remember, recordFailure | `CategoryMapping` |
| Stock and warehouse memory: `setStocks`, `wb-stock-warehouses.ts`, `wb-listing-adapter.factory.ts` | `shop.extra` | rank, put, re-rank, rememberWarehouse; brand edit | `WbStocks` |
| AI selection: `ingestSuccess`, `ai-selection.processor.ts`, `runAiSelection` | snapshots, products, `AiSelection` rows, queue | ingest, score, stall | `AiSelection` |
| Packages: `package-dims.ts`, `package-estimate.ts` | specifications | estimate, parcel of a product | `ProductPackages` |
| WB adapter: `packages/platform-core/src/wb-listing.adapter.ts` | the card, WB's error list and its cache | upload, find, confirm, repair, recreate, unlist; sizes; media | `WbCards`, `WbSizes`, `WbPhotos` |
| WB rate limiter and client: `wb-rate-limiter.ts`, `wb-listing.client.ts` | slots, waiters, next start, penalty | acquire, try again, back off | `WbLimiter` |
| WB catalogue store: `wb-catalog.store.ts` | memory, files, loads in flight | load, back-fill, evict, sweep | `WbCatalog` |
| WB card mapper: `wb-listing.mapper.ts` | brand directory | brand, subject, characteristics, description | `WbMapper` |
| Orders and warehouse: `modules/order`, `modules/warehouse` | sales, purchases, alerts, inbound and outbound records | create, advance, batch, fail, resolve, sync, inbound, outbound | `OrderFulfillment` |
| Tenants, users, roles, shops, guards: `modules/iam`, `common/shop`, `common/tenant`, `common/guards` | accounts and grants | changes to them; the guards of every request; shop access | `Accounts` |
| Signing in, encryption, passwords | none per request | checks | not modelled: stateless |
| `ozon-html-extract.ts`, `ozon-widget-parse.ts`, CSV, proxy and URL helpers | none | parsing and formatting | not modelled: see section 6 |
| Web application, Electron window | screens | calls to the API | not modelled: no state of their own that the API does not hold |
| Schema, seed, deployment | — | — | the status enumerations and unique keys are used by the models |

### How the parts interact

* The web application and the extension call the API over HTTP. A handler is an
  `async` method with several database calls and, with few exceptions, no
  transaction: handlers of one process interleave at every `await`.
* The API adds jobs to BullMQ and runs its own workers in the same process:
  `prepare` (45 s timeout, which fails the job but does not stop the method),
  `retry` (delayed), `wb-listing` (up to 8 at once, 6 attempts, job id per product
  and shop, so that a second job of that id is silently ignored).
* Agents only pull. An answer may be lost in either direction: the claim's answer
  (an item RUNNING with nobody at it) or the report's (the agent then posts a
  failure for an item the API has settled).
* A listing job first takes one of its shop's keys in Redis
  (`ShopListingLock`), then runs `processWbListing` (`WbListing`), whose calls to
  WB go through the rate limiter.
* The product's own status and listing summary are derived from its listings;
  the task's status is derived from its items. Both are read, computed and written
  in separate calls.

### What is hard, and what makes each part correct

* Collection tasks. An item has at most one agent; a cancelled task stays
  cancelled; TOP N is neither exceeded nor left short; every retry is released; no
  candidate of the category page is lost; the task comes to an end. Hard because of
  claims that race, late and repeated reports, retry jobs that outlive a
  cancellation, read-modify-write of the pool, timeouts and restarts.
* Listing jobs. A row that is busy has a job that will end it; what was taken off
  stays off; row and card agree; the product says what its listings say; a removed
  product leaves no known card for sale. Hard because a listing is cancelled while
  its job is queued, running, failing or between two attempts.
* Listing lock. Capacity; nobody releases another's key; no key is lost; everybody
  has a turn. Hard because keys expire under a running job and stay after a crash.
* Orders and warehouse. The sales order says what its purchase says, goods are bought,
  booked in and shipped once. Hard because each handler writes two or three rows and
  calls a platform, and any of these calls may throw.
* Accounts. Nobody reaches a shop of another tenant or one never granted. Hard because
  users, shops and grants change under requests that were let in.
* Category mappings, warehouse memory. What an operator set by hand stands; a
  warehouse that takes the goods is found. Hard because jobs learn at the same time.
* AI selection. A product is scored on what it names, and stays in the catalogue
  whatever the model answers. Hard because two items may meet the same SKU.
* Adapter. One card per vendor code whatever answers get lost; each size with its own
  barcode, and its own label as far as the options' texts allow; photographs in order. Hard
  because WB takes uploads at once and makes cards later, refuses some, and may answer nothing.
* Limiter and catalogue. Nobody waits while slots are free; starts are spaced; an entry is
  loaded once. Hard because a newcomer may take the slot a woken caller was meant for.
* Extension. The poll lock is neither lost nor left locked, polling that is on goes on,
  two polls are kept apart, items are worked on until answered. Hard because the browser kills
  the worker at any await, a stuck poll comes back late, and any call may fail.
* Harvesting. Several sources say the same thing in any order, or fail: the right one
  wins and the first N products are the first N.
* Prices and parcels. Repeated shelvings do not let a price drift; a parcel is not declared
  smaller or lighter than what counts of the specifications and texts, and which of them
  count depends on what else is there.

`PROJECT.json` lists every hazard at its source line with the property that
covers it, or says why none does.

## 2. Modules

| Module | Contents |
|---|---|
| `Dispatch` | abstract: items are offered, taken by one worker, parked, removed |
| `Semaphore` | abstract: permits are taken while one is free, given back one by one or all together; who is over takes none |
| `CrawlerTask`, `MCCrawlerTask`, `CrawlerTask_proofs` | one task with its items, jobs, agents and handlers, implements `Dispatch`; symmetry; theorems |
| `CrawlerSerial_proofs` | theorems about `CrawlerTask` with its handlers one after the other |
| `ShopListingLock`, `ShopListingLock_proofs` | one shop's semaphore in Redis and the worker around it, implements `Semaphore`; theorems |
| `WbListing`, `MCWbListing`, `WbListing_proofs` | one product, its listings in the tenant's shops, jobs, cards, summary; symmetry; theorems |
| `OrderFulfillment`, `Accounts`, `CategoryMapping`, `AiSelection`, `ProductPackages`, `ShelfPrice` | the rest of the API's state |
| `CollectorPolling`, `ListingHarvest`, `HarvestWidgets`, `HarvestMeasures`, `HarvestStock`, `HarvestVariants`, `PageReading` (the last two together) | the extension |
| `Platform_proofs` | theorems about `OrderFulfillment`, `CategoryMapping`, `Accounts`, `AiSelection`, `ProductPackages`, `PageReading` and `ShelfPrice` |
| `Extension_proofs` | theorems about `CollectorPolling`, `HarvestMeasures`, `HarvestWidgets` and `ListingHarvest`; the types of all twelve, for `MCPlatform` |
| `MCPlatform` | these twelve side by side, with inputs for TLC |
| `WbStocks`, `WbLimiter`, `WbCatalog`, `WbCards`, `WbSizes`, `WbMapper`, `WbPhotos` | the way to Wildberries |
| `MCWildberries` | these seven side by side, with inputs for TLC |
| `Wildberries_proofs` | theorems about these seven; their types together, for `MCWildberries` |
| `Lists`, `Lists_proofs` | lists that take each thing once, which `ListingHarvest` and the card's modules compute with; lemmas |

`MCPlatform` and `MCWildberries` do not compose: their components share no state. The
variable `part` says which component is at work in a behaviour; the others rest in one
initial state. So each property keeps its name and holds for its own component's
behaviours, all of them, and one run answers for several components.

### Common form

A handler runs in a slot of `Call`: `call[c].pc` names its next database, queue or
WB call, and what it has read travels in the other fields of the slot until it
is used. One action is one such call together with the code up to the next.
With one slot handlers run one after the other; with two they interleave at their
awaits. A reader who knows a method finds its actions in order: `ClaimStart`,
`ClaimFind`, `ClaimTake` are the three calls of `claimItem`. Variables whose
comment begins with "history" are not in the code: they count what the bounds limit
or remember what a property has to except.

### CrawlerTask

State: `taskStatus`, `pool` (`config.listingPool`), `itemStatus`, `assigned`,
`retryCount` are columns; `prepare` and `retryJobs` the queues; `work` what each
agent believes it holds. An item is named by its URL: a product by its rank on the
category page, `Listing` is the page. Abstractions:

* `ClaimFind` offers any PENDING item of a claimable task (the code: the oldest).
* No clock: "stuck for POLL_STUCK_MS" is any RUNNING item of the agent, a delayed
  job may run at any time.
* Snapshot and product rows are left out, except that writing to a deleted item
  fails; filters are the choice `mismatch`.
* One task. `ingestDirect`, which makes an item that no queue or agent ever meets,
  is left out, and so is PAUSED, which nothing in the code writes.
* `pageItems` purges listing items that only older versions wrote: left out.

### ShopListingLock

`key[k]` is the owner in Redis, `pc[j]` the job's next Redis command. `SetIfAbsent`,
`GetOwner`, `Extend` are `SET NX`, `GET`, `PEXPIRE` of one slot in the loop of
`acquire`; `Release` is one slot of the loop of `release`. A key may expire at any
time, also between `GET` and `PEXPIRE` and under a running listing: `lapsed`
remembers whom it happened to. A job delayed for want of a slot waits again
without using up an attempt. A command that throws, or whose reply is lost, is left out: it
may leave a key, until that expires, without a crash. After a crash the job, queued again, may find its own key.
`Permit` maps the lock to `Semaphore`: who lists with a key that has not run out has a permit,
whoever is done is finished, and the commands in between are stutters.

### WbListing

`product` and `summary` are `Product.status` and `.wbListingStatus`; CATALOG stands
for every status before the shelf. `row`, `numbered` are the listing's status and
"wbNmId is known"; `card` is what WB has; `job`, `tries` the queue. The calls of
the adapter that cannot fail a job (pictures, price, stock: their errors become
warnings) are part of `JobUpload`, as is the polling for the card's number; its
failures, before or after the card exists, are `JobUploadFails`. The first reads of
a handler are one step, the product and its rows are read together by the sync.
Sales orders (which forbid a removal), prices and the queue-less mode are left out.

The code has windows in which it loses a request, and the model lets them happen.
Each is recorded in `gap`, so that a property can say "but for these, nothing goes
wrong":

| gap | opened when |
|---|---|
| late | UNLISTED is written after the job looked, or as it is about to write the row |
| overwritten | the job's catch block writes over UNLISTED |
| blind | the card is (re)made, or listed, between the withdrawal and the row's write |
| cleanup | WB refuses the withdrawal of a cancelled job's card: only logged |
| again | asked for again while the older job of the same id is active |
| closed | the shop is closed when the job starts: it is dropped, the row stays |
| outrun | a removal overtaken by a request, or with a job still active |
| halfway | the API stops between card and row, or before the job looked |
| unanswered | the card is withdrawn but the answer lost or an error: the call throws, the row stays |

Redis that takes the job id for one already there is left out (`product.service.ts:897`): BullMQ
passes over a second job of an id in silence, it does not throw.

### OrderFulfillment

One purchase per sales order (a unique key), which share a name. `sales`, `purchase`,
`alerts`, `inbounds`, `outbounds` are rows; `placed` counts what Ozon took. A handler
reads in one step and makes each later write or platform call in another; `Break` is any
call that throws. The platforms' adapters are stubs that only throw
(`platform-core/src/index.ts:21-31`); they are modelled by their interfaces (13-19). Two handlers at work on one
order are not guarded by the code (`order.service.ts:130`, `warehouse.service.ts:117`):
`raced` remembers those orders, and those a handler broke on, and the properties except
them where the code gives no protection.

### Accounts

`user`, `grants`, `modules`, `shop`, `active` are rows. A request (`visit`) passes
`JwtAuthGuard`, `TenantGuard`, `PermissionsGuard`, then runs one of the services' operations
one database call at a time, or a shop-scoped operation after `assertShopsAccessible`.
A user has the one role it is created with (`user.service.ts`), the super administrator is
the seed's; names, passwords and lists are left out.

### CategoryMapping

One category of one tenant: `mapping` is the row. A job resolves it, lists, reads the row and
writes what it used; a manual save between that read and that write is overwritten:
`crossed` excepts it from `ManualStands`.

### AiSelection

One SKU that several task items meet. `ingestSuccess` is followed write by write
(snapshot, product, item, selection row, job) and may break at each; the worker stalls, is
run again, fails, or has no key. `gaps` holds the products whose ingestion broke after making
them ("lost") and those two ingestions wrote together ("mixed").

### ProductPackages, ShelfPrice

Pure rules over rows that are written back. `Parcel` and `MergeEstimate` follow
`package-dims.ts` and `package-estimate.ts` with the numbers as they are (mm, g) and texts as
what the patterns make of them. Named edges come first; A x B x C specifications count while
one is missing, then even the size of a lid and the agent's own reason (the code's second
loop skips neither); texts count while an edge is missing still. An estimate's rows are known by
their names alone, so `ai` says that a row bears such a name, whoever wrote it. `ComputeWbShelfPrice` has all modes and the rounding of
`shelf-price.ts` in whole roubles and per cents; `Shelve` writes the sale price back to the
product, as `shelfMany` does. Modes that multiply the present price are excepted from
`RelistKeepsPrice`, since repeating them multiplies again.

### CollectorPolling

A step runs from one await of the service worker to the next; `Die` may come between
any two. `pollGeneration` is abstracted to whether a poll's number is the latest one, the
clock to unset, recent or stuck. START is clicked only when the worker is up, and a poll
takes at most two items, as in the code. `LoopFails` is a heartbeat that throws. `owed` are the
items the server handed to this worker and awaits an answer for, `forgotten` those of them
nothing here works on: the first item of a poll whose second claim failed. The server hands a
forgotten one out again when its lease is over. `overrun` marks a poll at work whose stuck lock
another took over.

### Harvest modules

* `ListingHarvest`: ranks instead of links; the mounted window around the scroll position,
  the paginator's cursor, two harvests at most, the time budget at any moment. It assumes
  that one scroll passes no more tiles than are mounted above the view
  (`ScrollStep <= Overscan`): 700 px, where some 32 tiles are mounted. Without it a
  virtualised list may drop tiles between two scans. And it assumes that only the listing's
  own tiles link to products: the code takes every product link of the page.
* `HarvestWidgets`: which widgets are queued, with what data, in any order of answers,
  and which are posted within the limit.
* `HarvestMeasures`: from which source a size or weight comes (objects, rows, panel,
  harvest, content script, back office), the panel filling at any moment. A
  harvest that met only a part of the panel is excepted from `PanelWins` (section 4).
* `HarvestStock`: counts and warehouse of page, panel, delivery text and back office,
  merged, and the task's verdict on them. The back office's number replaces the others', and one it
  leaves null is 0 by then.
* `HarvestVariants`: chips of one group from data, buttons and links; what the server keeps.
  That a chip's address names the SKU is left out: the extension posts none.
* `PageReading`: both of them, read off one page, with the property they share.

### Wildberries modules

* `WbCards`: one product in one shop. WB takes an upload and makes the card later, or
  lists a refusal; a listing looks up, uploads, polls, repairs and recreates; any answer may
  be lost. `unsure` excepts lookups and deletions that failed unseen, or a lookup that
  missed a card WB had taken and not yet made: the code cannot tell them from "none". Each
  kind of repair is made once (the code may drop other characteristics in a later round), and
  the product is taken off between listings only (in the middle of one, see `WbListing`).
* `WbSizes`: the card's sizes over a series of drafts. Labels are texts, and `Numbered` gives the
  label of a text met again, in any way: TLC has the code's, the proofs assume nothing of it, so
  labels may collide. `marred` remembers that a listing sent one label twice, or that WB
  returned a size without barcodes. `WbPhotos`: the slots of the gallery over failed and
  throttled uploads.
* `WbStocks`: one job walks the shop's warehouses; the memory in `shop.extra` is read and
  written back whole, as the brand edit does. Left out: the give-up while the card's sizes have
  no ids, a warehouse set for the process, and that the preference is of the job's start.
* `WbLimiter`: `active`, `waiters`, `lead` (`nextAt` minus now), `penalty`; a caller keeps
  its slot over its retries. `WbCatalog`: memory with its order, files that other
  processes write, `inflight`, the sweep of a new process. Memory is bounded in entries, not bytes.
* `WbMapper`: choices over classes of texts. A subject's name meets a query in one of six ways,
  with how many characters or words they share, and is scored by the code's points.

## 3. Runs

| Run | Instance | Question | States, time |
|---|---|---|---|
| crawler_serial | 3 products, TOP 1, 1 agent, 1 handler at a time | status, quota, retries, jobs and items agree in every order of handlers | 3.1 M, 75 s |
| crawler_handout | 1 item, 2 agents, 2 handlers, 1 restart | one agent at a time (refines `Dispatch`), never RUNNING without owner | 1.7 M, 80 s |
| crawler_pool | 2 products, 2 handlers | back-fills that race lose no candidate | 228 k, 8 s |
| crawler_live | as serial, fair | the task ends | 44 k, 40 s |
| crawler_cancel_queued | 1 item | finding 1 | violation |
| crawler_refresh_race | 1 item, 2 handlers | finding 2 | violation |
| shop_lock | 3 jobs, 2 slots, 3 workers, 1 crash, fair | the keys are a semaphore (refines `Semaphore`, so capacity holds); ownership, no leak, everybody's turn | 418 k, 40 s |
| listing | 1 shop, 2 handlers, 4 requests, 2 attempts, 1 restart | row, job and card agree but for the gaps | 3.1 M, 35 s |
| listing_shops | 2 shops, 2 handlers, 2 requests, 2 attempts | the product follows its listings | 2.3 M, 33 s |
| listing_last_try | 1 shop, 1 request, 2 attempts | finding 3 | violation |
| platform | see `MCPlatform.cfg` | twelve components, each by its own property | 775 k, 120-160 s |
| wildberries | see `MCWildberries.cfg` | seven components, each by its own property | 1.3 M, 160-220 s |

What `platform` and `wildberries` show, property by property:

| Property | Shows |
|---|---|
| `OrdersAgree` | sales, purchase and goods of an order agree; bought, booked in and shipped once |
| `ServedWithinGrants` | grants stay in the tenant; a request works on granted shops of one tenant |
| `ManualStands` | a manual mapping outlives what jobs learn |
| `SelectionSettles` | each new product is scored or fails, and stays in the catalogue |
| `ShipsEnough` | no parcel below the edges and weights that count: of names, then triples, then texts; a plain weight not beside a net one alone |
| `RelistKeepsPrice` | a repeated shelving changes nothing |
| `PollingHolds` | lock and loop survive stuck polls, errors and deaths; two polls are apart; a claimed item is worked on, but for one forgotten by a failed second claim |
| `TopOfListing` | the links are the first of the listing, in order, within the cap |
| `DeliveriesAsked` | a delivery widget whose data turned up is asked with it |
| `PanelWins` | a panel's measure beats guesses |
| `PageReadRight` | the warehouse is one some source named; the count is the back office's (0 for null), else no less than page and panel showed; the variant is the product's own |
| `SyncFindsWarehouse` | stock is given up only after each warehouse refused, none is asked twice |
| `TurnsKept` | no caller waits beside a free slot; first tries are spaced |
| `LoadedOnce` | one load of an entry at a time, none of what was just loaded |
| `OneCard` | one card per product outside the trash, the one reported |
| `CardSizes` | no barcode and no label twice, but for a label sent for two options and barcodes WB left out |
| `ValuesAccepted` | brand, characteristics and description are ones WB takes; the subject is the one named, unless one outranks it by the lengths and counts stated |
| `GalleryInOrder` | no gap in the gallery, photographs in the product's order |

### Why the bounds are enough

* Crawler: with TOP 1 of three products there is one to deliver, one to replace it
  with and one to keep in the pool; a replacement may fail and be replaced in turn.
  `MaxRetry = 1` has a first, a retried and a last failure; `RetryCap = 2` lets an
  operator's retry fail once more. Two category pages exercise a repeated report.
  Two agents and two handlers are enough for any race over one item, since no
  handler treats a third one differently; the theorems drop that bound.
* Lock: three jobs for two slots make delays, a taken slot 0 with a free slot 1,
  and a returning job that finds its own key in either; one crash may hit all
  three. With `MaxTries = 2` the run also passes (140 s). No deadlock check: done
  jobs do stop.
* Listing: four requests allow listed, taken off, listed again, removed, or closing
  and opening the shop in between; two handlers are a request and a job, or two
  requests. Shops meet only in the product's summary, and `listing_shops` has two
  for that. Deadlock is not checked since requests run out.
* Orders: two orders and two desks give a race on one order and a batch over both; four
  errands are a purchase from creation to shipping or two that cross. Accounts: two
  tenants, an administrator, two users, one shop, two requests at once: one that changes what the
  other was let in with. Mapping: two jobs and a manual save or removal; three rows or
  listings. Polling: two polls (one stuck, one after it), two items, one tab, one loop.
  Selection: two items, two products one after the other, two scores.
* Harvest: nine tiles, four mounted, pages of two, limits below, at and above them.
  Widgets: four answers of five kinds, two numbers, four posted at most, so that the limit
  bites. Variants: three chips of two values. Pages, panels, prices and answers are the
  sets in `MCPlatform.tla`, chosen to reach each branch of the rules: they are cases,
  not all inputs.
* Wildberries: three callers for two slots; three entries, one pinned and one not kept on
  disk, for a memory of one; two cards, listings and refusals, with the complaints that
  make and unmake a size; fleets of three warehouses; three options, the least that
  collide in their labels, with three barcodes; names that share 4, 29 or 35 characters, or 1 or 5
  words, on both sides of where they outrank an exact name; three photographs.
* Symmetry is used over slots, agents and shops only in runs without liveness.
* Neither pack is checked for deadlock: each component may stop at its bounds.

### What was expected to be serial

`SettledStatus`, `RetryingHasJob`, `QuotaHolds` and `CancelIsFinal` are checked with handlers one after the other (crawler_serial), in
every order, with lost answers. With two at once they do fail: the code derives and
writes statuses in separate calls. `crawler_refresh_race` shows one such case;
the hazards list has the others. What the code does protect against true
interleaving, claims and back-fills, is checked with two handlers at once.

### Fairness

* `LiveSpec` (crawler): a handler in progress proceeds (weak: Node resumes it when its
  database call returns); the prepare job and each retry job are run one day
  (strong: a worker takes another job in between); each agent keeps polling, its
  claim is one day answered, and it one day reports instead of restarting for ever
  (strong). The extension's alarm and poll loop justify the polling as long as
  somebody leaves the browser open: nothing in the API requeues the items of an agent
  that never returns, so without that assumption `Settles` does not hold.
* `FairSpec` (lock): a job's own commands go on (weak), and a waiting job is taken
  one day (strong: it is offered again after each delay of 2 s, whoever holds the
  slots meanwhile). A listing ends since a call of the adapter is tried at most eight
  times (`wb-listing.client.ts:473`) and Node's `fetch` gives up on a silent connection.

## 4. Findings

1. `NeverClaimableAgain`: a task cancelled while QUEUED is set RUNNING by its prepare
   job (`crawler.service.ts:376`), against `crawler-security.ts:25`.
2. `RefreshKeepsCancelled`: a refresh that read the task before the cancellation
   writes over it (`crawler.service.ts:920`), against the test named in
   `crawler-security.spec.ts:54`.
3. `RetryPending`: the last attempt's retryable failure leaves the row PROCESSING and
   "正在重试" with no job (`product.service.ts:618`, `619`). The listing can then
   neither be listed again nor the product removed, until it is taken off by hand.
Further divergences were met. They have no run of their own: the models let them happen
and the properties except them, by the history variable or condition named.

* A cancellation between two attempts of a job that made a card but has not got its number
  leaves the card for sale (`product.service.ts:920`).
* `README.md:260` of the repository says that listings of one shop are serial ("同店串行"),
  where the code gives a shop four slots (`wb-listing-concurrency.ts:5`).
* A purchase that failed stays failed: no transition leaves PURCHASE_FAILED
  (`OrderFulfillment`). Two operators who advance one purchase both pass the check
  (`order.service.ts:130`; `raced`).
* A brand edit and a job that remembers its warehouse rewrite the same `shop.extra`; the
  later write loses the other's (`WbStocks`).
* Without `LLM_API_KEY` a selection stays RUNNING (`product.service.ts:655`), and a
  product removed between an ingestion's look-up and its upsert is never scored
  (`AiSelection`, "lost").
* A harvest that met a panel still filling takes it for read, and its guess wins
  (`background.js:404`; excepted in `PanelWins`).
* An edge of the bare goods is posted under the package's name
  (`ozon-harvest.js:984-1002`), so that a parcel may come from the goods' size.
* Retries of a call are not spaced by the limiter, whose option is the least gap between
  neighbouring requests ("相邻请求的最小发起间隔", `wb-rate-limiter.ts:4`): `StartsSpaced` is
  about first tries.
* A second claim that fails throws out of the poll, and the first item is forgotten
  (`background.js:1029`; `forgotten`).
* A stock the back office leaves null becomes 0 and replaces what page and panel showed
  (`seller-bridge.js:22`, `background.js:186`): a task for goods in stock turns the product
  away. `PageReadRight` says so.
* Beside a net weight, one that is neither net nor gross is not heeded
  (`package-dims.ts:334`): 2000 g with 300 g net ships as 400 g. `WeightEnough` excepts it.
* The size of a lid, left out by the first loop, counts in the second (`package-dims.ts:291`),
  and so does a size in the reason an agent gave (`package-estimate.ts:502`): parcels only grow.
* A collected specification that bears an estimate's name goes with the next estimate, and an
  estimate for the weight alone takes away the size of the one before
  (`package-estimate.ts:42`, `484`).
* A label met again is numbered without looking whether another option bears that text: options
  M, M and M-2 are sent with the label M-2 twice (`wb-listing.mapper.ts:949`), where line 909 says
  that every SKU has a label of its own ("每个可下单 SKU 对应一个 WB techSize"). On the next update
  both take the one size the card has of that label (981; `marred`).
* A size without barcodes is sent with the one at its place, which may be another's
  (`wb-listing.mapper.ts:990`; `marred`).
* A subject outranks the exactly named one when it shares 30 characters or four words with a query
  (`wb-listing.mapper.ts:511`, `519`; `Outranks`).
* A limit under 80 for descriptions is taken for 80 (`wb-listing.mapper.ts:346`).
* Wildberries may withdraw a card and not say so; the row stays LISTED
  (`product.service.ts:921`; gap "unanswered").
* Fewer photographs on a relisting leave the old tail in the gallery (`WbPhotos`):
  `GalleryInOrder` speaks of the slots this listing filled.

## 5. Proofs

Proved for every value of the constants, from the assumptions named in each module
(`CrawlerAssumptions`, `LockAssumptions`, `ListingAssumptions` and so on: what is finite, what
is a number, that a null value is no agent, job or mapping). TLC evaluates them in the runs.
Each inductive invariant below was checked by TLC on a small instance before it was proved.

`CrawlerTask_proofs`, for any number of concurrent handlers:

* `TypeCorrect`: `Spec => []TypeOK`. `TypeOK` is inductive because it says what a
  slot must carry to its next step (`LoadedSlots`: a handler about to write a status
  has one, a claiming one has an agent). The lemmas before it go operation by operation.
* `RunningOwned`: `Spec => []RunningHasOwner`, inductive together with `TypeOK`.
* `HandoutImplemented`: `Spec => ImplementsDispatch`. Lemma `NextIsItemStep` reduces
  every action to what it does to the items (set one status, requeue, park, remove all),
  `HandoutStep` maps each of these to a step of `Dispatch` or a stutter.
* `CandidatesKept`: `Spec => NoCandidateLost`. `PoolKept` says that every product harvested
  has a row, is in the pool, or is in the hands of the handler that expands or back-fills:
  `Accounts` relates what that one has read, and is to write, to the rows written since.

`CrawlerSerial_proofs`, for one handler at a time (`Serial`), as when nothing overlaps. The
hypothesis is needed: run `crawler_refresh_race` shows a second handler undo a cancellation.

* `CancelledForGood`: `Serial => (Spec => CancelIsFinal)`, restarts included. `CancelKept`: a
  cancelled task has no open item but in the middle of the cancellation itself.
* `StatusSettles`, `OneJobPerRetry`, `QuotaMet`: the three properties of the crawler that
  speak of the whole task, also without restarts (`MaxRestarts = 0`), since a handler that
  dies leaves its refresh, its retry job or its back-fill undone. `SettledKept`, `JobsKept` and
  `QuotaKept` say for each step of a handler what is still to be put right by the steps
  after it. `OneJobPerRetry` assumes that a file of URLs names no category page
  (`ConfigUrls \subseteq Product`): TLC finds it violated otherwise, see the hazard at
  `crawler.service.ts:862`. `QuotaMet` needs a fact about the first n of a set of naturals,
  `FirstBound`, by induction on numbers.

`ShopListingLock_proofs`:

* `TypeCorrect`, then `LockInvariant`: `Spec => []LockInv`, where `LockInv` says of each
  job that (`Holds`) having found its key, or listing, it has it unless it expired;
  (`Scanned`) the slots its loop left behind hold no key of its; (`Rewound`) a loop
  starts at slot 0; (`Accounted`) at rest it owns a key only after a crash.
  `NothingLeaked` alone is not inductive: that `release` leaves no key needs
  `Scanned` at the loop's end, and `Scanned` needs `Rewound` at its beginning.
  `OthersKeep` and `OneJob` reduce each step to the job that takes it.
* `HolderSafe`, `NoLeak`: the two safety invariants of the run; `CapacityKept`, which the refinement
  implies and rests on.
  Capacity follows by an injection from the listing jobs to their slots (`HoldersOwnSlots`).
* `LockIsSemaphore`: `Spec => ImplementsSemaphore`. `BeginEnters`: a job that begins to list had
  no permit, and with it there are no more permits out than slots (capacity of the state after), so
  that one was free before; `StepsMap` maps each other step to a return, a finish or a
  stutter, a crash to the return of all permits.

`WbListing_proofs`, for any shops, handlers, attempts, requests and restarts:

* `ListingInvariant`: `Spec => []ListingInv`, ten parts, proved one after the other from those
  before. An active job has exactly one handler (`OneHandler`); a job about to write over a
  row taken off had looked before (`Late`); who is about to write UNLISTED has withdrawn the
  card (`Withdrew`); a job past its upload has a card or is losing its listing (`Uploaded`); a
  QUEUED row has a job or the handler about to add one (`Queued`); and whoever changed a row
  owes the product its summary until it has read the rows (`Owes`, `Synced`). Each gap a
  property excepts is there as a record in `gaps`, which no step takes back (`GapsGrow`).
* `QueuedListingsHaveJobs`, `RowsTellOfCards`, `SummariesAgree`: the three invariants of the
  runs; `CancelledListingsStay` and `RemovalForgetsNoCard`: the two action properties.

`Platform_proofs`, in parts that share nothing:

* `OrderInvariant`: `OrderSpec => []OrderInv`; then `OrdersKeepAgreeing`, `[]OrdersAgree`. A
  desk alone on an order `Knows`, at each of its steps, where the four records of the order
  stand; an order nobody works on agrees (`RestAgrees`); a second desk that meets it puts it
  in `raced`, which the property excepts. `GoodsApart`: no goods belong to two orders, so
  a desk cannot disturb another's order.
* `MappingTypeCorrect`, then `ManualMappingStands`: `MappingSpec => []ManualStands`. The
  strengthening is `ReadsManual`: unless a save crossed it, a job about to write over the
  present row knows when that row is an operator's. Without it, a job that took a manual
  row for a learned one would write its own subject over it. `UpsertKeepsManual` and
  `WriteKeepsManual` are the two writers, the save and the job.

* `AccountsInvariant`: `AccountsSpec => []AccountsInv`; then `AccountTypesCorrect` and
  `GrantsBoundService`, `[]ServedWithinGrants`. A request checks rows in one call and writes
  or serves in a later one, so `RequestTold` says what it still knows then. It holds
  because a user, once made, keeps tenant and role and a shop its tenant: no other
  request can make a check stale (`StillTold`, from `Tame`: what any step may do to the
  rows). What an operator was ever granted only grows, hence the history `granted`.
* `SelectionInvariant`: `SelectionSpec => []SelectionInv`; then `NewProductsScored`,
  `[]SelectionSettles`. `Scored` says that a product not given up has its row or an item
  that is to write it, and that a row still to be scored has a job that can score it or an
  item that is to add one. `ScoreFits` (a score is of the row's own snapshot) needs to know
  whose a job is (`JobOrigins`), whose a row is (`RowOrigins`, `RowsMet`), and that
  two items which found one product new are recorded as having written it together
  (`SharedKnown`).
* `ShippedEnough`: `PackageSpec => []ShipsEnough`. The property follows from the types alone,
  `PackageInv` (`PackageAssumptions` types what collections, texts and agents give); the work
  is in the lemmas on what the parcel is computed by: `GreatestOf` (a finite set of integers
  has a greatest), `SizedEnough` for names and triples, `FoundEnough` with the texts, `EdgeCovers`,
  `WeightCovers`, and `CuboidTypes` for what an estimate may write. A value the parser reads as no
  number (0) counts as not given.
  `PackageTypesCorrect` is about what estimates leave behind: the rows that are not an
  estimate's by name are those collected (`KeptStep`), and of the others there are, unless they
  were collected, five at most (`FiveAtMost`: three edges, a weight and the reason). A collected
  row may bear such a name, and is then lost to the first estimate.
* `PageIsReadRight`: `PageReadSpec => []PageReadRight`; before it `StockTypesCorrect` and
  `VariantTypesCorrect`. For stock and warehouse, `WarehouseHeard` says that from the
  extraction on a product's warehouse is one some source named, and that it has none, and no
  counts of either kind, only while nobody named one but the harvest, whose reading is still
  to be merged; `StockHeard` carries the largest number shown through the three merges until
  the back office gives its own, which may be a null that counts as 0 (`StockAssumptions` types
  what the sources say). For the
  variant, `VariantInv` adds that a chip of the page's own SKU is one the page tied to it;
  `SentChips`, `OptionIs` and `CurrentIs` then show that page and server, which work it out
  apart, take the same first own chip.
* `RelistingKeepsPrice`: `ShelfSpec => RelistKeepsPrice`, and `PriceTypesCorrect`. The invariant,
  `ShelfInv`, says that the price in hand is the one the last shelving wrote back, computed from
  some price of the same page (`ShelvedFrom`). The rest is arithmetic: a discount rounded to whole
  per cents gives a price which gives the same discount (`DiscountStands`), a list price worked
  out from a sale price leads back to it (`SaleStands`), and so `PricesStand` for every mode.
  `RoundIs` turns the rounding into two inequalities. `PriceAssumptions` types pages and requests.

`Wildberries_proofs`:

* `LimiterTypeCorrect` and `CallersKeepTurns`: `LimiterSpec => []TurnsKept`, from one
  invariant, `LimiterInv`. That nobody is stranded in the queue needs that a slot given
  back was taken (`SlotsCounted`: `active` is the number of callers past the gate) and
  that who is woken was waiting (`Lined`). That starts are spaced needs that the next
  start is behind every sleeper by the sleeper's gap (`Behind`). `KeepStep` and
  `ReleaseStep` reduce most actions to what they do to one caller's slot; `TickStep` is
  the passing of time. `Counting` holds the facts on cardinalities.
* `CardInvariant`: `CardSpec => []CardInv`; then `CardTypesCorrect` and `OneCardStands`,
  `[]OneCard`. The card a listing has in hand is for sale (`HoldsLiveCard`); and, unless a
  look-up or a deletion failed unseen (`unsure`), the listing has met every card of the
  product that is not in the trash by the time it makes one (`KnowsCards`).
* `StockFindsWarehouse`: `StockSpec => []SyncFindsWarehouse`, and `StockTypesCorrect`. `Offering`
  says of a job at work that its list names no warehouse twice, that those before the one at hand
  are those it has tried, and that every warehouse of the shop is on it; `RerankKeeps` that a new
  ranking of the rest leaves that so; `RankLists` that a ranking is a list of its set, each
  once: being ahead is a strict total order (`AheadOrders`), so that as many are ahead of an id
  as its place says. It needs that a shop's warehouses are finitely many and their ids are
  positive (`StockAssumptions`): the code takes an id of 0 for none.
* `MissesLoadOnce`: `CatalogSpec => LoadedOnce`, from `CatalogInv`: who owns a load is
  registered under its entry and nobody else is (`Registered`), and what an owner's second look
  did not find is still missing, unless it came by a file (`SecondLook`).
* `MemoryKeepsBound`: `CatalogSpec => []CatalogTypeOK`. The order of use lists what memory holds,
  each entry once, within the bound unless all that is left is pinned (`MemoryInv`). What is used
  moves to the end (`UsedLast`); `EvictedFits` shows that dropping the oldest that are not pinned
  reaches the bound or leaves pinned entries only. It needs no induction over the list: what is
  dropped are the first so many places of those not pinned, and lemmas on `Sublist` count the rest.
* `WildberriesTypesCorrect`: `Spec => []TypesOK`, for the pack that the run checks. `PartsHold`:
  a behaviour of the pack is a behaviour of each of its parts, as the parts at rest
  stutter (`PartsApart`); so each component's own invariant carries over.
* `GalleryStaysInOrder`: `PhotosSpec => []GalleryInOrder`, and `PhotoTypesCorrect`. With the types
  the property is inductive but for one bound, that the upload is at most one place past its list
  (`GalleryInv`); `AlbumPhotos` says that the list has no photograph twice, so that a photograph
  has one place (`PlaceOf`). `PhotoAssumption` types the albums: lists of numbered links.
* `CardSizesStay`: `SizesSpec => []CardSizes`, and `SizeTypesCorrect`. The invariant, `SizesInv`,
  adds that the barcodes in use are among those given out, without which a new one need not be
  new, and keeps the two exceptions for as long as the card stands. Nothing is assumed of
  `Numbered`. `ClashIs`: the wanted labels differ unless the listing is marred by them; `OwnIs` and
  `PositionalIs`: whose barcode a size that stays is sent with; `MergedIs` and `MergeIs`: what that
  makes of the card, with the new sizes that `MissingNumbers` numbers.
* `ValuesStayAccepted`: `MapperSpec => []ValuesAccepted`. `CompactIs`: the brand directory cut down
  to its cap holds brands of Wildberries only; `ScoreIs`: a subject named as the first query scores
  124, and one that does not outrank it at most 123; the other parts go by cases.
  `MapperAssumptions` says that the directory is a list, of any length, and that lengths and counts
  of words are numbers, of any size.

`Extension_proofs`:

* `WorkerKeepsItsPromises`: `PollingSpec => []PollingHolds`, for any polls, tabs and items,
  from two invariants. `LockInv` adds to `LockMatchesPoll` that one poll at most has the
  latest number (`OneLatest`: two would free each other's lock), and to `LoopSurvives`
  that a worker which is still starting polls nothing (`StartsQuiet`). `WorkInv` says
  where items are that are owed and not forgotten: in a slot (`DueInSlots`), and a poll fills or
  clears only slots that are free or whose item it gives up (`SlotsFree`). That two polls are
  apart (`OneAtWork`) needs that who works and was not run over has the lock (`HasLock`).
* `PollingTypesCorrect`: `PollingSpec => []PollingTypeOK`. That timers are never more than those
  started and the polls together is not inductive, as a poll that leaves becomes a timer again:
  `TimersBound` counts timers and the polls that carry a loop (`TurnBound`, `LeaveBound`). It needs
  finitely many polls (`PollingAssumptions`).
* `PlatformTypesCorrect`: `Spec => []TypesOK`, from the twelve parts' own theorems, in the same way
  as `WildberriesTypesCorrect`. The widgets' part needs that what an answer lays out are places of the
  page (`ContentsAssumption`).
* `PanelStands`: `MeasureSpec => []PanelWins`, and `MeasureTypesCorrect`. What was read of
  the panel is in hand from the harvest on and in the sheet from the extraction on
  (`PanelInHand`): the panel scores 10 and nothing found on a page more than 2.
* `LaidIsAsked`: `WidgetSpec => []DeliveriesAsked`, for any bounds. Data is never taken from
  an entry (`TakenKeeps`), what a layout gave is among the entries with data, and if those
  are no more than may be posted all of them are chosen (`CutTakesReady`).
* `TopOfListingKept`: `ListingSpec => []TopOfListing`, and `ListingTypesCorrect`. The invariant,
  `ListingInv`, says that the links are the listing's first ones, that everything above the visible
  part has been read, and that what the cursor asks next begins no later than one past the links.
  So what is read next starts at or before the end of the links (`ScanJoins`, `CursorStays`) and joins
  them without a gap (`LinksJoin`): a scroll passes no more tiles than are mounted above the visible
  part (`ListingAssumption`), and with `ScrolledFar` in its place TLC finds the gap.

`Lists_proofs` has the lemmas on lists that take each thing once. The code builds them in a loop;
`Lists` says by place what such a loop leaves, the n-th of a finite set of places being the one with
n - 1 before it. So a proof can speak of the n-th element by cardinality (`NthOfIs`) where a fold
would need induction over data: `SublistIs` (a filter keeps elements and order), `JoinedIs` (the old
list first, then what it had not, each once), `CountsFromOne` (a rising list without a gap).

Every invariant, action property and refinement of the passing runs is so proved. Model-checked
only: liveness (`Settles`, `EveryJobDone`), which needs fairness and ENABLED, out of this prover's
reach. No module declares a RECURSIVE operator, so every module can be extended by one with theorems.

## 6. Not modelled

* `ozon-html-extract.ts` and `ozon-widget-parse.ts`: twins of the extension's scripts that only
  their tests call. The scripts that run are modelled.
* Crawling all SKUs of a family and merging them: switched off
  (`CRAWL_ALL_SKUS_ENABLED = false`, `packages/shared/src/types.ts:48`).
* Prices, photographs and descriptions on Ozon's page, and the patterns that read texts: text to
  text. Where a decision hangs on a text, the models have the classes it may fall into.
* The prompts of the language model and the reading of its answer: any answer, or none.
* Lists, exports, statistics, imports of products, notifications: they read, or write rows
  nobody else writes.
* Signing in, encryption, request formats, the SDK's transport.
* The web application and the Electron window: they hold no state the API does not.
* Several tasks in one poll, PAUSED tasks (nothing writes that status), the purge of items
  that only older versions made, the queue-less mode.

## 7. Plan

Done: the core (`CrawlerTask`, `ShopListingLock`, `WbListing`) and the first proofs; then the
other components in their two packs; proofs of all they are checked for. Left, in order:

1. A composition of `ShopListingLock` with `WbListing`'s jobs, so that `JobStart` needs a key.
2. `WbCards` as an implementation of the upload and withdrawal steps of `WbListing`.
3. Liveness of the poll loop and of the limiter under fairness of timers.
