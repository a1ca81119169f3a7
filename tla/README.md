# WooSaaS: TLA+ models, checks and proofs

WooSaaS collects storefront events and orders of WooCommerce and ShopBase shops
and shows analytics about them.  The Go API (`api/cmd/server`) puts events and
orders on Redis streams; the worker (`api/cmd/worker`) moves events to
ClickHouse and orders to PostgreSQL; carriers and shops call back with parcel
states and order changes.  The Next.js dashboard shows and edits what the API
has.  The hard part of the services is what happens between those stores:
nothing spans two of them in one transaction.  The hard part of the dashboard is
what happens while it waits for answers: choices, edits, other answers and other
tabs come in between.

- [1 Inventory](#1-inventory)
- [2 Modules](#2-modules)
- [3 How the models correspond to the code](#3-how-the-models-correspond-to-the-code)
- [4 Runs](#4-runs)
- [5 Fairness](#5-fairness)
- [6 Proofs](#6-proofs)
- [7 Where the code and its documents disagree](#7-where-the-code-and-its-documents-disagree)
- [8 What is not modelled](#8-what-is-not-modelled)
- [9 Plan](#9-plan)

## 1 Inventory

| Component | State | Operations | Interacts with | What makes it correct |
|---|---|---|---|---|
| Event collection (`api/handlers/collect.go`, `ingest/collector.go`) | Redis: quota counter per user and month, one dedupe key per event (24 h), `events:stream` | `CollectEvent`, `CollectBatch` | clients (retry, overlap); billing for the limit; the event consumer through the stream | the quota is never exceeded, rejected requests use up nothing, an event enters the stream once per key, and a lost one has a cause |
| Event consumer (`worker/consumer.go`) | in memory: one batch per process; Redis: the consumer group's position and pending list, retry keys, `events:dead`; ClickHouse: `analytics_events` | `run`, `readOnce`, `flush`, `handleFlushError`, `moveMessageToDead` | replicas through the group | no acknowledged event is lost; duplicates only through faults; events are given up only after `MaxRetries` failures; no event in two memories; held events settle |
| Order ingestion (`api/handlers/orders.go`, `orders/queue.go`) | `orders:stream` | `SyncOrders` | the shop's plugin, the order consumer | orders of a request enter one by one |
| Order consumer (`worker/consumer.go`, `orders/analytics_bridge.go`) | `orders:dead`, retry keys; the order's row and its `analytics_purchase_tracked_at`; the dedupe key of its purchase event | `processOrderMessage`, `bridgeAnalyticsPurchase`, `moveOrderMessageToDead` | order snapshots, event collection (it is a client of the collector) | acknowledged snapshots are stored and paid ones tracked; a purchase is queued once per key |
| Order snapshots (`orders/repository.go`) | `commerce_orders`, items, contacts, sync state | `UpsertOrderSnapshot`, `MarkOrderDeleted`, `PrepareAnalyticsPurchaseEvent` | order consumer, ShopBase consumer, backfill, shipment tracking, all on one row | the freshest snapshot wins, statuses only advance, deleted orders stay deleted |
| Order status (`order_status/status.go`) | none | `Normalize`, `FromOrderInput`, `FromTrackingStatus`, `Merge` | all writers of an order | `Merge` never goes back |
| ShopBase (`worker/shopbase_consumer.go`, `api/handlers/shopbase*.go`, `sites/shopbase.go`) | webhook stream, backfill lock, cursor and status in `shopbase_sync_state` | `Receive`, `processWebhookEvent`, `runBackfill`, `checkBackfillJobs` | order snapshots; replicas through the lock | a changed order is eventually stored; one backfill at a time; the cursor does not pass an order that was not stored |
| Shipment tracking (`shipment_tracking`) | `shipment_trackings`, status of the order, push status, quota counter | `Add`, `AddBatch`, `Refresh`, `ApplyTrackingMoreWebhook`, `pushToWoo` | carriers' webhooks, the shop | the last known parcel state wins and reaches order and shop |
| Sites and API keys (`sites`, `api/middleware`) | `sites`, members, `api_keys`; 5-minute caches in Redis | create, rotate, revoke; `APIKeyAuth`, `requireSiteAccess` | every request | one active key, caches no staler than promised, site limit |
| Billing (`billing`, ticker in `cmd/worker/main.go`) | `subscriptions` | plan changes, access check, expiry job | quota checks | access ends once, after the grace period |
| Dashboard pages that show (27 pages under `dashboard/src/app/dashboard`, `hooks/use-date-range.ts`) | what is asked for (range, filter, page of the list), the answer shown, loading, refreshing, error; the range also in the address, in localStorage and in the settings | choose, turn, reload; the loading effect and its clean-up; the comparison | the API's queries | an overtaken answer does not win, what is shown is what is asked for, a load is marked and no mark stays, the chosen range prevails |
| Dashboard pages that edit (15 pages: teams, templates and their form, trackings, sites, onboarding, integrations, settings, administration) | the list shown, the marks of busy buttons, the reason dialog, error and notice, what was typed | add, change, remove, start a backfill; confirm; reload and poll | the API's rows, the backfill job | no edit twice at once, failures are told truthfully, the page comes to show what the API has, marks go away |
| Dashboard session (`store/auth.ts`, `lib/auth-storage.ts`, `lib/api.ts`, layout, login, activation) | the session in each tab's memory and in localStorage; the token of each request | sign in, sign out, activate, impersonate, save the profile; the interceptors; redirects | all other tabs through localStorage; JWT middleware | the account shown is the one acted for, a sign-out lasts, a good session does not end by itself, tabs come to rest |
| The rest: authentication, users, analytics queries, exports, administration, mail, presence, bot scores, migrations, other dashboard pages | rows edited by single statements, or none | | | |

What is hard here: stops of a worker between two stores, replies that are lost
after the command was applied, replicas on one stream, handlers that read, then
act on what they read (quota, dedupe keys, order rows), snapshots and webhooks
that come twice or in the wrong order.  In the dashboard: clean-ups that abort
only some of a load's requests, `finally` blocks of loads that are over,
variables shared by the buttons of all rows, polling that depends on what was
loaded last, and a session that tabs share without telling each other.  `PROJECT.json` lists every such hazard
at its line, with the properties that cover it.

## 2 Modules

| Module | What it is |
|---|---|
| `MessageDelivery` | abstract specification of a stream consumer: what is accepted is stored or buried at some time, and discharged only after that |
| `EventPipeline` | `events:stream` to ClickHouse: any number of worker replicas, step by step; implements `MessageDelivery` |
| `EventPipelineProofs` | its theorems |
| `OrderConsumer` | `orders:stream` to PostgreSQL and the purchase events: replicas, dedupe key, tracked mark, dead letters; implements `MessageDelivery` |
| `OrderConsumerProofs` | its theorems |
| `EventCollection` | the API handlers between quota, dedupe keys and stream |
| `EventCollectionProofs` | its theorems |
| `OrderStatus` | the functions of `order_status/status.go` |
| `OrderSnapshots` | one order row and everything that writes it |
| `OrderSnapshotsProofs` | its theorems |
| `DashboardPages` | a page that loads what is asked for; the 27 pages as records of their traits, five of which load only once |
| `DashboardPagesProofs` | its theorems |
| `DashboardEdits` | a page that edits; the 15 pages as records of their traits |
| `DashboardEditsProofs` | its theorems |
| `DashboardSession` | the session in the tabs of one browser |
| `DashboardSessionProofs` | its theorems |
| `MC*` | inputs and symmetry sets for TLC |

`OrderSnapshots` extends `OrderStatus`.  `EventPipeline` instantiates
`MessageDelivery` with a refinement mapping: accepted are the entries of the
stream, stored those with a row, buried those with a copy in `events:dead`,
discharged those the group no longer lists as pending.  `OrderConsumer`
instantiates it too: accepted are the messages of its stream, stored the
delivered ones whose order has its row and, if it is paid, its tracked mark,
buried those with a copy in `orders:dead`.  `OrderConsumer` keeps only which orders have a row, `OrderSnapshots` models what the row says.

Each module has a few operators whose comment begins with "Mutant:".  They are
plausible bugs of the definition that follows them and are used by no
specification: replacing that definition by one of them makes TLC report the
property named in `PROJECT.json`, which shows that the property can fail.

## 3 How the models correspond to the code

A step is one Redis command, one ClickHouse insert or one PostgreSQL
transaction, because that is where other processes, clients and stops come in
between; straight-line Go code before the next call belongs to the step before
it.  Every call that reports an error has a `...Fails` action, and it may have
been applied all the same (timeouts), so that such actions have two outcomes.
Program counters (`pc`) name the call a goroutine makes next.

**EventPipeline.**  `pc[w]` is `off` (no process), `run` (in `readOnce` or the
select), `send`, `ack` (in `flush`), `retry` (in `handleFlushError`), `bury`
and `buryack` (in `moveMessageToDead`), and `halted` when `ensureConsumerGroup`
failed and `run` returned while the process lives on.  `inbox` is the part of
the reply that the loop of `readOnce` has not seen; `todo` the part of the batch
that `handleFlushError` has not seen.  An entry is its position in the stream
and `cursor` is the group's last delivered id.  What an event says is left out
except whether it parses.  `Shutdown` is a stop that reaches the select and
flushes once more; `Crash` is any other end, a `main` that does not wait for
that flush included.

**OrderConsumer.**  A message is an order and a kind: it does not parse, has
a time that `UpsertOrderSnapshot` rejects and `validateWooOrder` let pass, is a
snapshot of a paid order (of a site whose purchase bridge is on), or of another.  The row is only *saved* and *tracked*
here; a snapshot that `UpsertOrderSnapshot` finds stale leaves even the sync
status alone, because the deferred rollback undoes `markSyncSuccess`.  The
worker's flush of events is independent of this and left to `EventPipeline`.

**EventCollection.**  Requests are slots that clients use again and again.  A
request is a set of events with valid ids and a number of events that count for
the quota but go no further (invalid ones, and copies within the batch are
duplicates of each other).  `admitted` counts what a quota check that worked
has let in.  The counter is an integer, as in Redis; that it never falls below
what was let in is part of `RefundsBalance`.  A limit of zero, an inactive
subscription and a site without a user are decided before the counter and change
nothing.

**OrderStatus, OrderSnapshots.**  Statuses are strings that have been trimmed,
lowered and freed of dashes.  The row is `modified_at_woo`, `status`,
`fulfillment_status` and the version the other columns were copied from.  The
platform of the shop is chosen initially and decides which statuses a version can
carry, whether parcels write to the order, and whether it can be deleted.  The shop's versions of an order carry times in whole seconds; any version may be
handed to any writer at any time (the plugin repeats, webhooks repeat, backfill
re-reads).  `UpsertOrderSnapshot` is two steps: the SELECT, and INSERT to COMMIT,
since the INSERT holds the row until then.  `overtaken` is a history variable:
some commit replaced a row other than the one its writer had read.

**DashboardPages.**  JavaScript runs to completion, so a step is an event: an
act of the user, a timer, an answer, or an effect that a render runs.  The pages
are written alike (one effect, one `loadData`, `try`/`catch`/`finally`) and
differ in traits, which were read off each page: does the clean-up abort all
requests, some, none, or set a flag; is every load marked, or only one that
starts from a blank page; are failures told; does a failure without data
replace the page; does the page turn back on a new filter.  A load is what it
asked for and how many rows matched when it was sent; the answer reads any
number between that and the present one.  A request the clean-up aborts is gone
at once, but its `finally` runs before anything else can happen, and clears the
marks of the load that has just begun (`AbortClears`); `crossed` remembers that.
`useDateRange` is three actions: the choice with its `router.replace`
(`ChooseRange`, `RangeLands`), the effect that follows the address
(`FollowUrl`), and the one that follows the settings (`DefaultArrives`).
The overview's comparison has an effect of its own and is never given up: any
number of them are under way, and `compared` remembers how the newest ended, and
whether an older one was answered after it.

**DashboardEdits.**  A row is the number of the edit that wrote it, so that what
is shown can be compared with what the API has.  A mark is the key its state
variable holds; `displaced` remembers that one edit took over or cleared the mark
of another.  Edits pass through `sent`, `stored` or `refused`, and `reloading`
where the handler awaits the reload; one whose answer was lost is `given up` by
the page and may still be carried out.  The API may also carry an edit out and
answer an error (`Misreport`, stage `erred`): the SMTP settings are stored before
they are loaded (`api/internal/api/handlers/platform_admin.go:440`), a template
is written before it is read back (`api/internal/export/template_repository.go:208`),
and any database may fail to confirm.  The page cannot tell that from a refusal.  A load reads the API's state in `Serve`
and shows it in `Show`; without a flag an older load may show last, so the
older loads are kept, marked as not the newest.  The backfill's job is `idle`,
`running` or `done`, started by an edit of an integration in whatever state, and
finished by the worker, or never: the worker looks for jobs of connected
integrations only (`api/internal/worker/shopbase_consumer.go:224`).

**DashboardSession.**  The store's `persist` writes the whole session whenever it
is set, and hydrates when a document is loaded; a tab is never told of another's
writes.  Requests carry the token stored when they are sent.  `Load` is a new
document (memory becomes what is stored, what the old one awaited is gone),
`Navigate` a client-side navigation (memory and requests stay).  The login page
lets every signed-in tab in; the activation page only one that was activated on
it, 900 ms later (`activated`), and otherwise shows a link (`BackToLogin`).
A 401 answers a request without a good token, wrong credentials of a shop, and a
good token whose account `JWTAuth` fails to look up
(`api/internal/api/middleware/middleware.go:158`); `faults` counts the last kind.
`UpdateProfile` answers `{"member": ...}` to every token the API takes, and the
page stores that whole object as the user: in the model the account becomes
`Unnamed`, and `profiled` remembers the token beside it.  `revived` remembers
that such an answer wrote a session back after a sign-out.

## 4 Runs

Every run exhausts its state space.

| Run | Question | Instance | Why it is enough |
|---|---|---|---|
| `pipeline_faults` | safety of one worker, size of its batch, refinement | 1 worker, 4 events, batches of 2, 2 retries, 3 failing flushes, 1 partial insert, 2 Redis errors, 1 stop | a full and a partial batch, events that arrive during an outage until the batch is at its greatest, every error path followed by every other, one entry given up while another is kept |
| `pipeline_replicas` | exclusive delivery, progress | 2 fair workers, 3 events, 2 failing flushes, 1 Redis error, 1 stop | each worker has a batch while the other reads, fails or restarts; failing flushes and counters cannot starve an entry in memory |
| `order_consumer_replicas` | purchases, failures counted once, refinement, progress | 2 fair workers, 3 snapshots of one order, a fault, a stop, an expiry | two snapshots at once in both workers, a third one for the time after a fault; orders share nothing but the stream |
| `collection_overlap` | quota, deduplication | 2 request slots, 2 events, limit 3, 4 requests, 2 faults, a dying process, an expiry | requests that overlap at the limit, a retry of the same event after each fault |
| `snapshots` | the row under consumers, parcels and deletion; the inductive invariant | 2 writers, 3 versions, either platform, any parcel status, a deletion | two versions of equal time, an overtaken commit, an update of each kind in between, a snapshot in flight across a deletion |
| `dashboard_pages` | what every page shows | 27 pages, 2 ranges, 2 filters with lists of 2 pages and of 1, 3 acts, 1 row that goes away, 1 half-answered load | a load overtaken, the overtaking one overtaken, and a third for what the first two left behind; the range in the address and the state apart; every page of a list too far |
| `dashboard_edits` | edits of every page | 15 pages, 2 rows, 3 edits (2 on a page with one row), 2 edits and 2 loads under way, 1 fault, 1 act besides | two edits that share a mark or a dialog and a third after them; an old load that ends last; a lost answer, an error after the edit was carried out or a failing load at each point |
| `dashboard_session` | the session across tabs | 2 tabs, 2 accounts, 2 tokens, 2 requests of a tab under way, 2 requests or page loads by the user, 1 failing look-up | an answer for the first session after the second has begun, in the same or the other tab, also after a sign-out |
| `order_consumer_uncounted`, `order_consumer_isolation`, `snapshots_backward`, `comparison_overtaken` | see section 7 | minimal | TLC finds the counterexample |

The bounds (`MaxEvents`, `MaxFaults`, `MaxStops`, ...) are constants and guards
of the actions that count; none of them is in the code.  The theorems of
section 6 hold for every value of them.  Deadlock is not checked: with every
bound used up and nothing queued a model has no step left, as the program waits
for input there.

`StatusAdvances`, `FreshestKept` and `DeletedStays` name the exceptions the code
really has (a parcel update; a commit that overtook another writer).  Without
the exceptions they are false; with them they say that there are no others.

So do the properties of the dashboard, and their exceptions are what a reader of
its code should know:

- `LabelExplained` (and `NewestWins`, which is proved): the overview, products, refunds, retention and
  contacts pages do not abort all of a load, and an overtaken answer may replace
  a newer one (`products/page.tsx:32`).
- `MarkedUnlessCrossed`: on a page that aborts, the aborted load's `finally`
  clears the next load's mark (`sources/page.tsx:36`): the old figures stand
  unmarked under the new range.
- `EmptyPageExplained`: the contacts page keeps its page number when the query
  changes, and the orders page lets Next be pressed by the total of the previous
  filter.
- `OverlapExplained`: trackings and templates mark the edits of all rows in one
  variable, which an edit of another row takes over or clears; creating a site is not marked at all.
- `ComparisonExplained`: the comparison beside the figures is for another period
  when the newest one failed, or when an older one, which nothing cancels, was
  answered after it (`overview/page.tsx:135`).
- `FailureTruthful`: an edit whose answer was lost, or that the API carried out and
  answered with an error of its own (`platform_admin.go:447`,
  `template_repository.go:211`), is told as failed.  So is adding, refreshing or
  deleting a tracking when only the reload after it failed
  (`orders/[orderId]/page.tsx:503`).
- `ListSettles`, `JobSeen`: a load begun before a backfill was started, or one
  that fails on the site's home page, ends the polling while the job runs.
- `SavedMeansStored`: the profile form keeps what was typed while it saved and
  says Saved beside it.
- `IdentityExplained`: after a profile was saved the tab, and what is stored, names
  no account at all (`settings/authentication/page.tsx:29`, `api/handlers/auth.go:138`),
  until somebody signs in.
- `SignedOutExplained`: `updateUser` persists the session of its tab, also after
  another tab signed out (`store/auth.ts:25`).
- `LiveSessionEnds`: a 401 ends whichever session is stored by then; wrong
  ShopBase credentials are answered with one, and so is a good token whose
  account could not be looked up (`middleware.go:158`).

Deadlock is not checked in the dashboard's runs either: a user need do nothing.

## 5 Fairness

Of the runs of the services only `pipeline_replicas`, `order_consumer_replicas`
and `order_consumer_isolation` assume fairness: a goroutine whose next call is
possible makes it (weak fairness of `Step(w)`: Go's scheduler runs every
goroutine and every call has a timeout), and a process that stopped is started
again (weak fairness of `Start(w)`: the compose files run the worker with a
restart policy).  Nothing obliges clients to send, faults to happen or to
cease (they are bounded by constants).  `QueuedSettles` excuses runs with a
Redis error or a stop, because the code does: entries whose worker stopped stay
pending for good, which is what `StrandedForGood` says.  That of
`OrderConsumer` also leaves out the snapshots that `UpsertOrderSnapshot`
rejects; `order_consumer_isolation` shows what becomes of them.

The dashboard's runs assume that requests end, with an answer or an error (the
browser ends them, and the API has timeouts), the loads that follow an edit
included, that effects run after the render they belong to, that navigations
land, and that an interval or the timer after an activation fires.  Nothing is
assumed of the backfill's job: it is begun for an integration of any state
(`api/internal/api/handlers/shopbase.go:324`), and the worker only looks at
connected ones (`api/internal/worker/shopbase_consumer.go:224`), so that it may run for ever, and the page poll
for ever; `JobSeen` speaks of a job that is over.  Nothing obliges the user to do anything, and no
answer to be of one kind.  The realtime page reloads itself on an interval; its
ticks are bounded like acts, so that the run says nothing of answers that take
longer than the interval for ever.

## 6 Proofs

Checked by `tlapm`, for all values of the constants that satisfy
`ConfigAssumption` (positive batch size and retry limit), `PlatformAssumption`
and `BoundAssumption` (the bounds are natural numbers).  The type invariants, the
inductive invariants of `EventPipeline` and of the proof modules, and
`AckedOrderSettled`, which `Implements` says in another form, have no run of
their own: they are proved.

**EventPipelineProofs.**  `IInv` is inductive, and all safety theorems follow
from it.  `AckedHasOutcome` alone is not: `Ack` acknowledges the batch, so one
has to know that in `ack` every entry of the batch has a row (`HeldOutcomes`
with `JustWritten`).  `OutcomesBounded` needs to know of every entry *in memory*
that its outcomes are paid for by faults with one to spare, so `HeldOutcomes`
bounds them more tightly than those of entries that have left; that this bound
survives a step of another worker needs `HeldByOne`; and that entries read
for the first time have no outcome needs `UndeliveredUntouched`.  For
`DeadLetterEarned` `RetryKeys` relates retry counters to failed flushes, with
entries that `handleFlushError` has still to visit one behind.  `MemoryShape`
says how inbox, batch, `todo` and `focus` relate.

- `TypeCorrect`, `Invariance`, `NoAckedLoss`, `DuplicatesNeedFaults`,
  `DeadLettersEarned`, `ExclusiveDelivery`: invariants.
- `StrandedStaysStranded`: an action property, from `IInv` and the fact that
  no step reads a pending entry.
- `DeliveryImplemented`: every step of the consumer is a step of
  `MessageDelivery` or leaves its variables unchanged.
- `BatchesBounded`: during an outage of ClickHouse `readOnce` goes on reading into
  a batch that is full, and every entry it adds has the batch flushed again; so
  one has to know how fast the batch grows and when it shrinks.  `Growth` counts, for every `a`, the entries of
  a batch that have failed at most `a` flushes (`Crowd`): they are fewer than the
  batch size and `a` together.  With `Young`, which says that no entry stays after
  `MaxRetries` failures, the case `a = MaxRetries - 1` is all of the batch but for
  the entry that is being given up.  For every batch size, retry limit
  and length of the outage.
- `NothingIsStranded`: while Redis works and no process stops, a pending event
  is in the memory of a worker, whatever ClickHouse does.  With
  `StrandedStaysStranded` this says when an event can be left behind, and that
  it then stays so.
- `FlushDoesEnd`: an action property.  A worker that is not at the select has, after each
  of its steps, fewer entries of the reply to look at, or as many and less of the
  flush to do (`FlushLeft`), unless it starts or stops; no step of anyone else touches it.

**OrderConsumerProofs.**  For any finite set of workers.  `InHand` (what a worker
holds was delivered) goes with the types.  `AckedOrderSettled` needs `Progress`:
from its place in the handler one can tell what has been done for the message in
hand, and rows, marks and dead letters are never taken back.  `PurchaseBounded`
follows from `OnceInv`, a balance: purchases queued, workers about to queue one
and the free key of an order are together never more than one and the keys that
expired; so it does not matter how often an XADD that failed was applied.
`UncountedExplained` follows from `CountedInv`: without faults whoever finds a
key finds a purchase, or a worker that is about to queue it.

`NeverRetried` needs `OnceHandled`: no two workers have the same message, what no
worker has looked at has no failure counted, and from the place in the handler
(`Ledger`) one can tell whether the failure of the message in hand has been.

- `TypeCorrect`, `AckSafe`, `PurchaseSafe`, `UncountedSafe`, `OrdersNeverRetried`:
  invariants.
- `DeliveryImplemented`: the refinement of `MessageDelivery`, from `Progress` (what
  is acknowledged is stored or buried) and `RecordsGrow` (no outcome is taken
  back).
- `NothingIsStranded`: while no call fails and no process stops, every pending
  message is in the hands of a worker, or is one that the repository rejected.
- `HandlingDoesEnd`: an action property.  Every step of a worker lowers
  `Remaining`, what it has still to do with what it has read, unless it starts,
  stops, or reads with nothing left; no step of anyone else touches it.  This is
  the variant behind `QueuedSettles`: under weak fairness of the worker's steps
  what was read is dealt with.

**EventCollectionProofs.**  For finite sets of handlers and events, under
`LimitAssumption`.  What requests over the limit still owe the counter is the
set `Owed` of pairs of a request and one of its events, so that their sum is a
cardinality and can be reasoned about without induction: `OwedStep` says that a
step of a handler changes it by that handler's part.  `QuotaHolds` is inductive
only together with `RefundsBalance`, whose first half says that the counter
covers all that was let in.  `OncePerKey` has the balance of `PurchaseBounded`.

- `TypeCorrect`, `QuotaSafe`, `RefundsSafe`, `OnceSafe`, `LossSafe`: invariants.

**OrderSnapshotsProofs.**  `MergeKeepsRank` is the lemma about `Merge` that the
action properties rest on: for any two statuses, listed or not, the result ranks
no lower than the current one.  `FreshestKept` is inductive only together with
`NotStaleWhenRead` (a writer's version was not older than the row it read) and
`VersionsOrdered` (later versions have later or equal times, and their number
bounds it, which type correctness needs).

- `Invariance`, `TypeCorrect`, `FreshestIsKept`, `FulfillmentIsConsistent`:
  invariants; `StatusOnlyAdvances`, `DeletedOrderStays`: action properties.
- `MergeIsLater`: the switches of `Merge` over two tables of priorities amount to
  one comparison of ranks, where the status that came last wins among equals.  So
  `MergeOrderIndependent`: two updates that rank differently lead to the same
  status in either order; and `MergeRepeats`: the same update again changes
  nothing.  Of any statuses, the unlisted ones included.

**DashboardPagesProofs.**  For any set of pages with these traits, any ranges,
filters, totals and bounds, under `PagesAssumption`, `ChoicesAssumption` and
`UrlAssumption`.  The invariant says which loads can be under way: where loads are
given up, only the newest, and it asks for what the page wants; everywhere, none
is newer than `last`, and the newest is under way exactly while `ended` is open.
From that follow what may be shown, told and marked: an answer or an error that
arrives belongs to the newest load or to a page that does not give loads up.
`UncrossedIsNewest` keeps older loads, whose end would clear the mark, apart from
a load that began alone.  The comparison marked as newest has the range wanted now,
whether the figures have arrived or not, and while `compared` is `shown` the one
on the screen has it too, which `ComparisonExplained` needs.

- `Invariance`, `TypeCorrect`, `ErrorsAreCurrent`, `LabelsAreExplained`,
  `MarksAreQuiet`, `LoadsAreMarked`, `ComparisonsAreExplained`: invariants;
  `NewestAlwaysWins`: an action property.
- `EmptyPagesAreExplained`, with the invariant `Counted`: as long as no row has
  gone away, every total, under way or shown, is the true one of its filter, and
  a page that turns back on a new filter asks for no turn behind its list's end
  unless it was turned by another filter's total.
- `RangeIsNotLost`: the chosen range is on its way to the address, in the address,
  or, while the address has none, what the page asks for.  It is what
  `RangeKept` needs besides fairness.

**DashboardEditsProofs.**  For any set of pages with these traits, any rows and
bounds, under `EditStyleAssumption` (which traits go together) and the bounds'.
`Sound` is inductive and has a part for each of what a page knows of its edits.
`Typed` says that edits have numbers of their own, and that what is stored, told
or awaited has the number of an edit that was begun; `Kept` that a page which adopts an answer has a row to adopt it in.
`Staged` and `Awaits` tie the stage of an edit to what the API has stored (one that
is `erred` is stored too) and to the load its handler waits for, and `ToldFailure` and `ToldSuccess` follow the
messages shown back to it.  `Marks` says which button's mark belongs to which
awaited edit, until a mark is `displaced`; it takes a view of all actions by what
they do to the awaited edits (`Moves`).  `Untroubled` holds while no answer was
lost and no load failed: the newest load, and what it brought, is current, apart
from edits whose answer is still to come (`Fresh`).  That needs `IdleJob` and
`OneRow`, for pages that have no job, and forms that have one row.

- `SoundCorrect`, `TypeCorrect`, `OverlapIsExplained`, `DialogsDoSerialize`,
  `FailuresAreTruthful`, `SavedIsStored`, `ListDoesSettle`: invariants, all of
  `dashboard_edits`.
- `NoMarkIsLeft`: every mark is that of an edit the page still awaits, which is
  what `MarksCleared` needs besides fairness.

**DashboardSessionProofs.**  For any tabs, accounts and bounds, under
`SessionAssumption`.  `TypeOK` is inductive because tokens are only ever copied
from where they were issued.  `IdentityExplained` is inductive with it: an account
is written together with its token everywhere but in `TakeProfile`, which writes
no account, beside a token it records in `profiled`; and every other step copies
sessions whole.  `SignedOutExplained` is inductive with `revived`.

- `TypeCorrect`, `IdentityIsExplained`, `SignOutLasts`: invariants;
  `SessionsEnd`: an action property.

Model-checked only: liveness (`BatchedSettles`, `QueuedSettles`, `RangeKept`,
`JobSeen`, `MarksCleared`, `TabsSettle`), which is out of the prover's reach.  Of
all but `JobSeen` and `TabsSettle` the theorems above prove the part that is
safety: `NothingIsStranded`, `FlushDoesEnd`, `HandlingDoesEnd`, `RangeIsNotLost`,
`NoMarkIsLeft`.  Every other property of a passing run is
proved.

## 7 Where the code and its documents disagree

| Run | The document says | The code does |
|---|---|---|
| `order_consumer_uncounted` | `docs/project analysis.md:61`: deduplication avoids skewed revenue when synchronisation is repeated | the dedupe key is set before the purchase is queued; if queueing fails, the repetition marks the order as tracked without it |
| `order_consumer_isolation` | `docs/project analysis.md:62`: `orders:dead` isolates broken payloads | a message is read once, also one whose `created_at_woo` the repository rejects; its retry count never exceeds 1, so with a limit above 1 it is neither retried nor isolated |
| `snapshots_backward` | `order_status/status_test.go:99`: progress does not move backward | `ApplyTrackingStatusToOrder` overwrites the status without `Merge` |
| `comparison_overtaken` | `dashboard/src/app/dashboard/[siteId]/overview/page.tsx:118`: compare period, the previous same-length period for the deltas | `loadComparison` is never given up: one for an earlier range that is answered last replaces that of the figures shown, and stays |

Seen while modelling, with no run of their own: the site wizard catches a failing
verification with "Could not connect. Check your credentials."
(`dashboard/src/app/dashboard/sites/page.tsx:102`), which is never read, because
the API answers wrong credentials with 401 and the interceptor has taken the tab
to the login page by then (the exception `"store"` of `LiveSessionEnds`).  The
onboarding page says of a regenerated key "Old key will stop working
immediately" (`dashboard/src/app/dashboard/sites/[siteId]/onboarding/page.tsx:362`),
while a cached key is accepted until its entry expires.  Saving the profile stores
`{"member": ...}` as the user of the session
(`dashboard/src/app/dashboard/settings/authentication/page.tsx:29`,
`api/internal/api/handlers/auth.go:138`), so that name, address and role are
missing until the next log-in.  A database error while `JWTAuth` looks an account
up signs its user out (`api/internal/api/middleware/middleware.go:158`).
SMTP settings that were stored, and a template that was written, are told as
failed when what the API does next fails
(`api/internal/api/handlers/platform_admin.go:447`,
`api/internal/export/template_repository.go:211`).  A backfill requested for an
integration that is not connected stays `running`.

The collector has the hazard of `order_consumer_uncounted` too: an event whose
XADD failed after its key was set is a duplicate when the client repeats it, and
no property says otherwise; `LossExplained` says when this happens.

## 8 What is not modelled

- Inside the modelled parts: the 24-hour expiry of retry keys and of the month's
  quota key; the Redis client's own retries of a command (a retried XADD can
  append twice; the models let a failed XADD have been applied, and callers
  repeat it); one event that ClickHouse's `Append` rejects fails its whole
  batch, which `SendFails` covers without naming the culprit; trimming of
  streams (the code does not trim); enrichment, bot scores and presence; resets
  of a site's data; the detail of the sync state rows.
- Components without a module, with the reason, are in `PROJECT.json`: read-only
  queries and exports, mail, cryptography, single-statement edits; and those the
  plan has yet to reach.
- In the dashboard: the administration's audit page, the item details and the
  download of the export dialog, the import of a file of trackings (one edit
  here), the password form, a site's deletion and reset, the steps of the
  ShopBase wizard, what a form refuses before it sends, the administrator's own
  token and console, the legacy token entry, registration beyond its redirect,
  the landing redirect of the home page.  Of the onboarding page Generate and
  Regenerate, of which it shows one, are one button.  On a site's home page
  `handleInstallScript` awaits a second reload, that of the site, after the
  integration's (`sites/[siteId]/page.tsx:173`); the model ends the edit with the first.  Sorting, searching and tabs within an
  answer change nothing a request sees.  What a page derives from an answer, and
  how it looks, is left out.
- `OrderConsumer.Start` leaves out that `ensureConsumerGroup` fails; the state of a
  process whose `run` has returned is modelled in `EventPipeline` (`halted`).
- Between tabs: `storage` events (the code listens to none), and pages restored
  from the browser's back-forward cache.

## 9 Plan

Next modules, most important first:

1. `ShopBaseBackfill`: lock without owner, pages and cursor, skipped orders,
   composed with the abstract "every changed order is eventually stored";
   `ShopBaseWebhook`: swallowed XADD errors, acknowledgement of failed work.
2. `ShipmentTracking`: tracking rows, webhooks out of order, multi-row updates,
   push to WooCommerce, the tracking quota.
3. `ContactAggregates` and `SyncState`: what `UpsertOrderSnapshot` does beside
   the order row.
4. `ApiKeys`, `SiteAccess`, `SiteLimit`, `Subscription`, `SiteData`.
5. A composition of `EventCollection` with the promise of `MessageDelivery`, and
   of `DashboardEdits` with `ShopBaseBackfill`, whose job it starts and polls.

Hazards of these parts that no property covers yet: the backfill's lock, cursor
and pages; webhooks whose XADD fails; parcel webhooks out of order; rotated keys
and cached permissions; contacts under two snapshots at once; the sync state row
that backfill, realtime sync and errors all write (`orders/repository.go:562`),
and whose success the stale path rolls back (`:70`); the count before the insert
of a site (`sites/service.go:29`); a subscription that becomes `past_due` after
the same seven days the access check grants on top (`cmd/worker/main.go:95`); a
reset of a site's data while its events are still in the streams
(`sites/site_data_service.go:37`); a ShopBase status of `processing` beside a
fulfillment of `fulfilled` (`shopbase/mapper.go:115`).

Then proofs: the safety halves of `JobSeen` and `TabsSettle`; a variant of the
request handlers of `EventCollection`, like `HandlingDoesEnd`; the invariants and
refinements of the new modules.
