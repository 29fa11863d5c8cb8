# RRFive OS: a TLA+ verification of the operational core

RRFive OS is a restaurant ERP and point of sale. A NestJS API (`src/apps/api`)
keeps everything in one PostgreSQL database through Prisma
(`src/packages/database`), talks to Mercado Pago Point terminals, iFood and
other providers, and runs background work in a durable queue. A Next.js front
end (`src/apps/web`) renders it. All state that survives a request is in the
database; the processes (API replicas, workers, cron schedulers) hold only what
they read between two awaits. The hard part is therefore what lies between two
statements: which other statements can run there, and which processes can die.
Most transactions run at PostgreSQL's default READ COMMITTED; a few ask for
SERIALIZABLE.

Paths below are relative to `src/apps/api/src` unless they start with `src/` or
`specs/` (which is `src/specs/`).

## 1. Inventory

| Component | State | Operations | What is hard | What makes it correct | Module |
|---|---|---|---|---|---|
| Background jobs (`common/background-jobs`) | `background_jobs`, their attempts; per worker the job and its lease version | enqueue, claimNext, heartbeat, complete, retryOrFail, recoverExpired | leases, stale owners, crashes, decisions on old reads | fencing, attempt history, one active job per key, every job ends | `BackgroundJobs`, `JobQueue` |
| Exports (`management/exports`) | `export_jobs` beside the queue, a file | request, boot sweep, build, notify, download | equal requests at once, a worker that ends in the middle | built once, what is offered is whole, forgotten by nobody | `Exports` |
| Payment charges (`payments`) | `payment_charges`, payments, allocations, exceptions; the provider's orders | create, refresh, cancel, webhook, reconciliation, settle, manual payment, reversal | answers out of order or lost, a balance read too early | legal status changes, no approval lost, one open charge per balance, duplicates reported | `PointCharges` |
| Idempotency (`common/idempotency`) | `idempotency_records` | claim, run, complete, fail | keys that expire under a running request | a command runs once per key | `Idempotency` |
| Service tabs, counter orders, responsibility (`ordering/tabs`, `counter-sales`, `assignments`, `payments/manual`) | `service_tabs`, orders, payments | open, update, checkout, reopen, cancel, assign, order, pay, reverse | compare-and-set on versions that users saw | a version names a content, PAID means paid, one active tab per number | `TabCheckout` |
| Orders of the menu and stock (`ordering`, `operations/inventory`, `order-profitability`) | `orders`, `stock_movements`, snapshots | place, status commands, edit, remove, reserve, release, consume | statements of one command that commit one by one | legal moves, stock taken once, one set of snapshots | `OrderStock` |
| Kitchen display, gateway, order screen (`ordering/kds`, `orders.gateway`, `src/apps/web/app/admin/orders`) | orders; the screen's cards, request, poller, keys | poll, message, reconnect, F2/F3, command | messages lost or joined to an older request; a list that moves under the hands | the screen catches up; what is cancelled is what was shown | `Kitchen` |
| Sales import (`management/sales-integrations`, `ordering/historical-order-import`) | import runs, movements, identities | preview, confirm, claim, link, release, resume, upload | restart between claim and order, overlapping runs | a sale becomes one order, nothing is skipped | `SalesImport` |
| CSV files of past sales (`historical-order-import`) | orders, claims | upload, edit, remove | overlapping and repeated uploads | a line is imported once | `CsvSales` |
| iFood orders (`management/integrations/ifood`, `external-order-ingestion`) | platform events, links, disputes, attempts | poll, ingest, acknowledge, synchronise, answer | at-least-once events, unknown outcomes | nothing acknowledged before its effect; the provider follows the order | `PlatformOrders` |
| Accounts payable (`financial/accounts-payable`) | payables, payments | create, recur, pay, change, cancel, reverse | reads without a lock | status and payments agree, series in order | `Payables` |
| Cash flow (`financial/cash-flow`) | movements | move, reverse, position, projection, statement | queries at moments of their own | each amount counted once, accounts add up, statements join | `CashFlow` |
| Mercado Pago connection (`.../mercado-pago`, operation lock) | credentials, status, lock | authorize, refresh, disconnect | rotation lost, lease shorter than the work | the active credential works, disconnection holds | `ProviderToken` |
| Mercado Pago notifications and reconciliation | notifications, the mirror of a payment | accept, process, reconcile | two writers that compare with one older state | no rollback, nothing told is lost | `PaymentStates` |
| MCP authorization server (`management/mcp/oauth`) | requests, connections, pairs of tokens | approve, deny, exchange, refresh, revoke, purge | lost answers, reuse, overlapping approvals | a grant once, a revoked one never, a limit | `McpOAuth` |
| MCP server (`management/mcp`) | settings, call log | authorize, call, time out, log | answers before the effect, counts after it | hourly limit, no duplicate bill unasked, truthful answers | `McpTools` |
| Access and authentication (`management/access`, `platform/auth`) | users, letters | update, login, request and confirm a reset | decisions on old reads | a master remains, who is stopped stays out, a letter once | `StoreAccess` |
| Stores, branding, product codes, platform users | drafts and publications, codes, profile, administrators | publish, restore, map, update, create, deactivate | several statements without a transaction | a look stays published, codes and profile survive, every store has an owner | `StoreSetup` |

Not modelled, with the reasons in `PROJECT.json` and in section 7: delivery
integrations, financial imports of iFood and PagBank, complements and the public
menu, counter pricing, the public order queue, platform configuration, technical
sheets, pricing and reports, notifications, runtime policies, the web application
(but for the order screen).

How they interact: the web client and providers' webhooks call services, which
call each other directly; components share state only through tables
(`service_tabs`, `orders`, `payment_charges`, `stock_movements`); cron
schedulers enqueue or run jobs; a websocket gateway broadcasts changes and only
makes screens ask again. `PROJECT.json` lists every component with its sources,
and under `hazards` each place where this can go wrong, at its line.

## 2. How the project is built

A module per component, in the order above by weight. `JobQueue` is the abstract
queue: `BackgroundJobs` implements it (checked, and proved), and `Exports` is
written over it instead of over leases. `CashFlow` extends `Payables`, whose
payments it reports. `PointCharges` and `TabCheckout` meet at the automaton of a
charge: `TabCheckout` uses of a charge only what `PointCharges` shows of it.

`MC...` modules give instances. Components that share no state are checked as
*scenes* of one run: the initial state chooses the scene, and only its module
takes steps. So a behavior of `MCStaff` is one of `OrderStock`, `StoreAccess`,
`StoreSetup` or `McpTools`; scenes are never interleaved, since nothing could
depend on it. `...Proofs` modules hold the theorems.

Several properties of a module are conjunctions of named parts with its type
invariant: `OAuthSafe == OAuthTypeOK /\ SingleUse /\ RevokedForGood /\ LimitHeld`.
A run checks the conjunction; each part is stated and commented on its own.

Some modules keep history variables (`overtaken`, `crowded`, `lost`, `raced`,
`cut`, `torn`...). No action reads one. They record that an overlap or fault
happened that the code does not defend against, so that a property can say
"unless" precisely; each such exception is listed in section 6.

Left for later: the financial reconciliation of iFood, the figures of reports.

## 3. The modules

In every module an action is one statement, or one transaction, together with
what the process does up to its next await. A process that has read something
and not yet written is a state of its own, so that everything else can run in
between.

### BackgroundJobs

`jobs` is the table, `ledger` the attempt table, `own` the object
`JobLeaseOwner` a worker holds, `seen` what `recoverExpired` read before its
updates, `beat` the heartbeat nobody awaits. `claimNext` is a transaction
(`FOR UPDATE SKIP LOCKED`) that first recovers; `runOnce` is the path
claimed, executing, finishing or failing. `Crash` loses everything but the
tables. Time is relative to the present and saturates, so it needs no bound
beyond `AgeCap`, which an assumption ties to the leases.

Conditions of the UPDATE statements are operators of their own (`Expired`,
`Holds`, `Leased`, `Conflicts`), since they are what the correctness rests on.

### PointCharges

Each charge is at once a row (`status`, `linked`, `payment`), an order at the
provider (`order`) and the request that creates it (`pc`). `Callers` are users,
webhook workers and the reconciliation, all of which end in
`applyProviderOrder`, a read (`ReadStatus`), a conditional update
(`UpdateStatus`, `UpdateLost`) and a settlement (`SettleApproved`, `Detect`).
The provider and the customer move an order along `Moves`, which is external.
The reconciliation asks about the charges of one page (`PageSize`, 25 in the code) of
those that are not finished, those first that were not checked for longest: `older` is
the order of their `lastCheckedAt`, which a check renews, unless the answer is a
status that no transition leads to.
The two SERIALIZABLE transactions (`createAutomatic`, manual confirm) are one
step each.

### TabCheckout

A user has a screen (`screen`: the last tab looked at, with its version) and at
most one request (`req`). Commands are compare-and-set on the version shown
(`Current`, `Write`); `StartX`/`FinishX` are the read and the write of commands
that decide in between. Orders only matter by their total, charges by what
`PointCharges` shows of them. The confirm of a manual payment is a serializable
transaction (`manual-payment.service.ts:222`): `StartConfirm` is its snapshot,
`FinishConfirm` its commit, or its end without one. It aborts when the row of the tab
was written since, and every writer of that row gives it a new version. Orders,
charges and settlements are written by other transactions, at READ COMMITTED, to rows
it never writes: they commit in between, unseen.

### OrderStock

A status command is read and check, update, then read and write of stock, then
read and write of snapshots, each a commit of its own. Commands with
`expectedVersion` (the board of the kitchen display and of the counter) compare
the version in the update, commands without it (`PATCH :id/status`) do not; the
constant choice `by` says per order whether only the former are used on it.
Edits and deletions are one transaction that locks the row first (`lock`). An edit may
change the delivery method and raises no version, so a command keeps the method
its check saw (`how`).
Movements are added up by kind, apart for the current item and for none,
because releases are computed per item and deleting an item sets the item of
its movements to NULL. `Die` ends any request between two statements.

### JobQueue, and its implementation

A job is waiting, running or ended, a worker runs one attempt of it. `Accept` takes
a job when no live one has its key; `Start`, `Succeed`, `Fail`, `Quit` and
`GiveBack` are what the leases of `BackgroundJobs` amount to: only the run of the
last attempt can end a job. `BackgroundJobs` maps its rows and workers to it
(`ImplementsQueue`).

### Exports

`row` is the export row with its link to a job, `create` the request between its
statements, `sweep` the boot that enqueues rows without a job, `at` the steps of
`ExportJobWorker.process`, `file` what is stored, `told` the notices. The request
inserts, enqueues, and on a key collision deletes its own row or links it. With
local storage a second write of a file fails and removes it.

### Idempotency, ProviderToken, McpOAuth

One key, one connection with the provider, one authorization server. Every query
is a step. `Reclaim` compares the expiry only; `Complete` addresses the record by
its id, whoever holds it. `ProviderToken` keeps beside the rows what the provider
still takes (`valid`); `Send` and `Store` are apart, so everything can happen
between the rotation at the provider and its commit. In `McpOAuth` an approval is a
count and a write; an exchange or a refresh is a read, a conditional update and an
issue; a revocation a read and a cut. Ages are flags that time sets at any moment.

### SalesImport, CsvSales

`run` and `row` are the import run and its movements, `identity` the claim table,
`jobs` the live jobs by active key, `proc` the workers, `boot` what a starting
process read, `upload` a PagBank file. A preview fetches its one day and records the
sales one by one; `day` is the status of that day. A statement that throws in between
is caught (`CatchDay`): the day is FAILED, but was counted as ready before, so the run
ends PARTIALLY_READY with some of its sales and can be confirmed. A confirmation claims, creates and links per
sale, releases what failed, and counts. `CsvSales` goes through parsed lines, each
with the keys its layout gives it (`SIMPLE`, `MERCADO_PAGO`, `PAGBANK`), and lets
orders be edited or removed.

### PlatformOrders

`poll` is one poll with its batch and the step of its event, `row` the stored
event, `order`, `synced` and `dispute` what it leads to, `told` and `answers` what
the provider accepted, `command` an operator between the update of the order, the
call and its record. Events are delivered in any order until acknowledged. An event
that names a dispute may name its status too (`Says`), which is written over whatever
the row shows; once it was handled, a copy of it may find neither (`summed`), and is
then PENDING, or starts a dispute of its own (`strays`).

### Payables, CashFlow

A command on a payable is its checks (`request`) and its write; nothing is locked in
between. Series follow `payable-recurrence` over a calendar of short months. `CashFlow`
adds movements and receipts, and reports whose queries each read at a moment of
their own (`report.view`). A day has three instants: its midnight (UTC), as which a
date is stored, the hours until the day begins in Sao Paulo, and the rest. The moment
of a report and its end are asked for separately (`world.asked`), or are now and
`Horizon` days later.

### PaymentStates

A notification is a row, a job and a handler (`notice`, `work`, `reader`); the
reconciliations of the last day and of the last week run under the lock of the
connection. Both read the version of the payment at the provider, compare it with
the `mirror`, and write.

### Kitchen

`kept` are the orders, `wire` messages on their way, `link` the socket with its
verification, `shown` the cards, `fetch` the one request in flight, shared by all
who ask, `poller` its timer; `selected` and `armed` the keyboard's state. A new
poller aborts the request of the one before.

### McpTools, StoreAccess, StoreSetup

A call of a write tool is authorized, limited, checked for duplicates, run beside a
timeout, and logged. The duplicate check reads one page (`PageSize`, 100 in the code)
of the bills of the day, and the first of a series, whose description ends in
"(1/n)", equals none. `StoreAccess` has the updates of users (read, rules, write),
logins, and letters of a password; `StoreSetup` four subjects, one per behavior:
the look of a store, the codes of a product, the profile, creation of stores and
the administrators; each request is a few statements and may die between any two.

## 4. What is checked

Every (run, property) pair has a mutant of the code in `PROJECT.json` (a dropped
condition, a missing reset, a lost version) under which TLC finds the property
violated, so none of them holds vacuously.

| Run | Instance | Properties |
|---|---|---|
| `jobs_lease` (`MCPolling`) | 1 job, 2 workers, 1 scheduler, 2 attempts, lease 1; or 1 screen on 2 orders | `AttemptLedger`, `LeaseSafe` (fencing, no stranded job, timely reads), `LeaseHolds` (no early take-over, only the owner completes), `ImplementsQueue`; `KitchenSafe`, `BoardCatchesUp` |
| `jobs_queue` (`MCBackgroundJobs`) | 2 jobs of one key, fair | `OneActivePerKey`, `TerminalIsFinal`, `EveryJobEnds` |
| `charges_target` (`MCCounter`) | 2 charges, a manual payment, one balance, fair; or 3 charges of three balances and pages of 2, fair; or 4 requests of one key | `OneActiveCharge`, `DuplicatesReported`, `EndedChargesClose`; `CommandOnce` |
| `charges_double` (violation) | 1 charge, 1 manual payment | `NoDoubleSettlement` |
| `tabs_serve` (`MCTabCheckout`) | 2 users, 2 tabs of a number, 1 order, 2 manual payments, 1 charge | `VersionNamesContent`, `PaidHasPayment`, `OneActivePerNumber`, `CheckoutByResponsible`, `PaidInFull` |
| `exports_build` (`MCExports`) | 2 equal requests, 2 workers, boots, every fault | `ExportSafe` |
| `sales_import` (`MCSalesImport`) | 2 runs of a period, or 1 run, with faults of each kind, 2 workers, a file | `ImportSafe`, `CompletedStays` |
| `platform_orders` (`MCPlatformOrders`) | 1 order, 4 events (2 of a dispute), 2 polls; or 1 poll and 2 operators; fair | `EventsKept`, `ProviderTold`, `EventsEnd` |
| `cash_reports` (`MCCashFlow`) | overlapping commands on a payable; series; commands beside a report of a moment and an end; movements; receipts just after midnight | `PayablesCorrect`, `ReportsAgree` |
| `singleuse_claims` (`MCSingleUse`) | 3 calls on 1 request; or 2 refreshes beside 2 authorizations | `OAuthSafe`, `ProviderSafe` |
| `payments_records` (`MCPayments`) | 1 charge with 8 provider states; or 1 payment told of and reconciled; or 2 uploads | `NoApprovalLost`, `SettledByProvider`, `ChargeLifecycle`; `NoticesSafe`, `NoRollback`; `FilesSafe` |
| `staff_store` (`MCStaff`) | 2 users on 1 order; 2 masters and a letter; each subject of `StoreSetup`; 2 tool calls, a page of 1, another bill | `StockSafe`, `LegalMoves`; `AccessSafe`; `SetupSafe`, `DraftsApart`; `ToolsSafe` |

The bounds, and why they are worth something. Every race here is between two
requests over one row (or, for keys, numbers and balances, two rows), so two
actors and one or two rows show each pairwise interleaving; a third process (the
scheduler, the provider, a notification, a third call) is there where the code has
one. Two attempts show one that may be repeated and one that may not; a lease of
one tick with transactions of up to one tick shows both sides of each comparison
(`AgeCap` lets time saturate, `MaxDelay` and `Batch` follow). A total of up to 2
tells no, part and full payment apart. In `MCTabCheckout` `Versions` admits the longest round of
a tab, open, checkout, paid, reversed, paid again; `Served` lets the second tab
only be opened, which is all the number needs. In `MCStaff` `MaxVersion` 4 is the
full life of an order, `MaxItem` 2 one correction, `HourLimit` 1 and `Edits` 1 a limit and a
change of settings met by two calls, `Visits` and `Requests` the requests a
behavior may begin. `PairBound` 3 is the smallest at which a token rotated twice
shows, `ConnectionBound` 2 a limit of 1 exceeded, `TokenBound` 4 two
authorizations and two refreshes. `AgeBound` 1 lets one thing expire, `VersionBound`
2 a payment change once, `TryBound` 2 an attempt be repeated, `EditBound` 2 an
order be edited and removed. `OthersBound` and `FaultBound` limit what others and the network do to a
screen; no timer is bounded. Of a page, the smallest size that leaves something out will do: `PageSize` 2 for three
charges, 1 for a bill and another (`OtherBills` 1). Reports are of now, of a day
with an end that day, or with an end before it (`asked`). Months of 4 and 3 days show the carry of a date past a
shorter month. `Worlds` in three modules lists which of those bounds a behavior
combines. Deadlock checking is off throughout: requests are finite in number and
users may stop, so a state without a successor is legal. Symmetry is used only in
runs without liveness.

### Fairness

`BackgroundJobs` `FairSpec`: the clock runs; the loops of `runOnce` and of the
scheduler come round after every error (`background-job.worker.ts:142`); a dead
worker is restarted by its supervisor; handlers end; and a transaction that is
possible again and again is not aborted for ever (strong fairness, since it
competes for the same rows). `PointCharges` `Fairness`: requests that started go
on; the reconciliation, a cron, gets an answer about a charge that is on its page again
and again. Nothing is assumed of a charge that never comes to the page, so
`EndedChargesClose` allows for a page that is full for good of charges that no answer
moves (`Stuck`).
`PlatformOrders` `FairSpec`: the scheduler polls again and again, and a poll or a
command that started goes on; that events arrive is not assumed. `KitchenFairness`: timers fire, a request
that was sent is answered or fails, a message on its way arrives or is lost with the
connection, commands go on. Users, customers,
terminals and operators promise nothing.

## 5. What is proved

Each theorem holds for every value of the constants under the named assumptions
of its module. None assumes fairness, and the bounds
of the runs are constants of which the theorems ask no particular value.

- `PollingProofs`: `TypeCorrect`, `LedgerCorrect`, `TerminalStays`,
  `KeysStayUnique`. What a step may do to a row is stated once (`RowStep`: kept,
  inserted, claimed, released) and the three invariants follow from
  that case by case; a heartbeat keeps a row as far as they look at it. `AttemptLedger` is inductive with `TypeOK`: the equality of
  `attempts` and `lease_version` is needed because `complete` addresses the
  attempt by one and `retryOrFail` by the other.
- `PollingProofs` also: `LeasesSafe`, `LeasesHold`, `QueueImplemented`. The
  invariant is `LeaseInv`: `TypeOK`, `AttemptLedger`, `Owners` (a worker at rest
  owns nothing), `Young` (no heartbeat is older than a statement may be), `Fencing`,
  `TimelyReads` and `NotStranded`. `Young` is what makes a late heartbeat harmless:
  by the time it could touch a job again, the version has moved. The refinement maps
  a row to waiting, running or ended and a worker to the run of the version it owns;
  each action of the leases is then one step of `JobQueue` or none.
- `PollingProofs` also, for the screen: `ScreenIsSafe`. Whatever a screen or a request
  holds of an order is the order as it was (`Old`): at an older version, or as it is
  now, or as it was when it was deleted. So a command that finds the version it carries
  changes what was shown. That the selection falls on a card again after the list has
  moved needs that the places of a list are numbered without a gap (`Places`,
  `CardThere`), by an injection of a finite set into an interval of its size.
- `PaymentsProofs`: `TypeCorrect`, `OneActive`, `PaidForReal`,
  `ApprovalKept`, `Lifecycle`. The strengthening `IInv` adds what requests carry
  (`Carried`; `Seen`: a final answer still agrees with the order when it is
  applied, since money taken stays taken) and what linked rows have recorded
  (`Written`: a charge is written off only when its order ended).
- `PaymentsProofs` also, for duplicates: `DuplicatesAreReported`, for charges of a
  whole balance (`WholeBalances`, as in the run: beside a charge of a part, a manual
  payment of the rest is no duplicate, and the code reports none). `Settling` says
  that what is approved is paid, or its request is about to pay it and to look for
  duplicates after; so a manual payment is confirmed only before the charge is paid,
  since afterwards no balance is left. That last fact needs that a sum over a finite
  set is no less than each of its terms (`SumBounds`), which is proved by induction over sets
  of numbers (`ByInduction`), and that finitely many rows are paid (`FinitelyPaid`).
- `SingleUseProofs`, for tabs: `VersionCorrect`, `PaidCorrect`, `NumberCorrect`,
  `CheckoutCorrect`. `Shown` says that a screen with a version below the tab's is
  merely old and one with the same version is equal; `Responsible` that a request
  for checkout whose version is still current was made by the responsible user;
  `Opened` that a payment is one of a tab that was opened. Each action is first reduced to its
  effect on tabs (`TabEffect`), and the invariants are proved against that.
- `SingleUseProofs` also, for what may be used once: `KeysCorrect`, `TokensCorrect`, `GrantsCorrect`. A request that
  holds a key finds it pending, alone, unless the key was overtaken (`Alone`). Until a
  lease runs out under its owner, who refreshes holds the lock, and what it is
  about to send is still valid at the provider as far as any answer told
  (`LockedRun`). For the pairs of tokens: each pair has one successor or one call that
  is about to write it (`RotatedOnce`), an approved connection one first pair or one
  call that is about to issue it (`SpentOnce`), and what is issued under a revoked
  connection is known as late and renews nothing (`LateIsLast`).
- `StaffProofs`: `ToolsCorrect`, `AccessCorrect`, `SetupCorrect`, `DraftsStayApart`.
  For the tools, the calls that count are those logged or running beside each other
  (`RunsCounted`, `RunAbreast`), and a call that looked for a duplicate and found none had
  none among the oldest bills of the day, or none to equal (`Found`). For accounts, who is about to remove a master has
  counted another one, unless somebody wrote in between (`CountHolds`), and a letter
  has one reader (`ReadOnce`). The four subjects of `StoreSetup` have an invariant
  each. The newest draft of a store exists by the principle of the least number,
  proved there from the well-foundedness of the naturals (`Least`).
- `StaffProofs` also, for orders: `CommandsAreLegal`, `StockCorrect`. A command in progress was legal at the
  version it carries, for the delivery method its check saw, and the version grows with the status; so a compare that
  succeeds compares with the very status that was checked. `StockCorrect`: since only legal moves happen, an order of
  the board enters CANCELLED or DELIVERED once, so at most one request follows it
  (`Followed`), and what this request read stays true until it writes (`Pursuing`).
  `Stocked` says the rest: the reservation is written once, and released or consumed
  as a whole, only after the end. Orders that the desk may command or correct are
  typed and nothing more, as in the property.
- `PlatformOrdersProofs`: `EventsAreKept`, `ProviderIsTold`. `Trace` says what an event
  leaves behind, and since orders and disputes never go away (`Lasting`) it lasts;
  a poll that is about to acknowledge holds an event with a trace (`PollFits`). The answer
  that a dispute shows is one that the store gave or an event named (`Named`). For
  the orders, `InStep` says what a command still has to do before the provider knows,
  for an order that only this command works on, and `Follows` what holds when none
  does. That versions stay bounded needs the count of the commands that may still
  write (`Writers`), by the cardinality of a finite set.
- `PaymentsProofs` also: `NoticesCorrect`, `MirrorKept`, `FilesCorrect`,
  `EverySaleHasARow`. What a handler has read is at least as new as what it was told
  and as what it compares with (`Newer`), and a notice that is open has a job or a
  handler at work (`Attended`). For files, an upload has dealt with the rows before
  the one in hand and knows the orders of the others, but for those hidden from it
  (`Upheld`); a claim says whether its order is there (`Claimed`).
- `ExportsProofs`: `ExportsServe`. The queue gives an export one current worker
  (`QueueInv`, `OneCurrent`). For an export of which no run was cut off, that worker
  knows the row it works for (`Works`), any other one has only to leave (`Held`), and
  a row that says PROCESSING or COMPLETED has the worker or the file it speaks of
  (`Kept`). A step is about one export, and `OnlyExport` says once that the others
  are as they were.
- `SalesImportProofs`: `ImportsAreSafe`, `CompletedRunsStay`. A sale with an identity
  is in the hands of one execution, or of the upload, at most, and before its order
  exists; without an order it is in somebody's hands or was left by one who had it
  (`SaleOK`). That somebody has dealt with a sale lasts (`Met`), and whatever is
  recorded of a sale, but that it is new, says so (`RowMet`, `ProcMet`). A run that was
  previewed once, can be confirmed and calls its day READY has therefore recorded its
  sales; of a day that FAILED nothing follows. An
  execution that confirms it has met each of them or still has it to do (`RunFits`,
  `ConfirmFits`); the only preview of a run works alone (`PreviewFits`).

- `CashFlowProofs`: `PayablesAreCorrect`. A request that was checked carries a view of
  its payable which still holds, or is known as stale (`Requested`): what was paid then
  is paid now, so the write keeps within what is expected (`Settled`). That a
  payment raises, and a reversal lowers, what its payable is paid with is a fact on sums
  over the growing set of payments. For the series, every
  occurrence counts its days from the start's own day of the month, so it is due after the one
  before it as soon as each month has a day at least (`MonthsFollow`, `DueFollows`).
- `CashFlowProofs` also: `ReportsAlwaysAgree`, for every set of receipts, moment and end. `ReportInv` says that what
  a report has read, unless something was written meanwhile, is what is stored, and
  is a whole view when all is read (`ViewOK`). The rest are identities of sums on such a
  view: a balance is the sum of its kinds of entries, a transfer adds nothing to all
  accounts together, entries sorted by account or by payable add up to the whole, and
  what is paid of a payable is found among its payments. They rest on a few lemmas on the
  sums of a function over a finite set (`SumTakes`, two disjoint sets, another index
  set, a set sorted by what its elements belong to), by induction over its subsets. The
  models therefore write their sums with `SumFunction`. For the statements, a ledger is
  cut at its first day into what is before it, its midnight, the hours after it and the
  rest; the third part is shown a day early, which is all by which statements differ
  from the ledger.

Every strengthened invariant was model-checked on the instance of its run before it
was proved.

Only model-checked:

- Liveness (`EveryJobEnds`, `EndedChargesClose`, `EventsEnd`, `BoardCatchesUp`) and all
  that rests on ENABLED, which is out of the prover's reach.
- `PaidInFull`, which compares sums before and after a step.
- The violated property of `charges_double`, by its nature.

## 6. Where code and documents part

With a run (`findings` in `PROJECT.json`): a manual payment between approval and
settlement pays twice.

Met while modelling, in the models as the code has them, without a run of their own:

- Jobs: `recoverExpired` does not raise `lease_version` (line 23 of the data-model.md of specs/018
  says it does; the status condition makes up for it). An enqueue that collides
  with a job which ends before it is looked up is answered with an error. Two
  heavy jobs of a tenant may run at once. Handlers run at least once.
- Charges: a charge still CREATED whose order expires stays open
  (`charge-status.ts:18`; specs/016-pos-kds-commands/spec.md:69). A charge APPROVED
  by a process that dies before `settleApproved` is never settled, since the
  reconciliation lists open charges only. A page of 25 charges still CREATED whose
  orders expired (`payment-charge.service.ts:160`) is at the head of every round
  (`point-reconciliation.service.ts:49`): no other charge is reconciled until
  somebody closes them. A creation whose answer is lost leaves an
  open order at the provider beside a FAILED charge. `assertTarget` counts cancelled
  orders and allocations. A refund does not change the payment.
- Tabs: an order added or edited (`counter-order.service.ts:63`, `:269`), or a charge made,
  while the transaction of a manual payment runs is seen by neither: the tab is PAID with
  a sum that is no longer its total. Orders enter a tab in checkout (`counter-order.service.ts:48`;
  specs/016-pos-kds-commands/spec.md:218), and the order of a paid tab can be changed
  (`counter-order.service.ts:249`; data-model.md:430 there). An automatic settlement
  never changes the tab, which then can neither be paid nor cancelled. A stale
  reversal can move a tab that was paid again back to checkout, or bring back a
  cancelled one. A cancellation may miss an order that is being inserted.
- Stock: a reservation written after the cancellation stays
  (`ordering.service.ts:180`; specs/002-gestao-cmv-precificacao/data-model.md:360).
  The edit of a READY order releases its reservation and makes none
  (specs/005-order-maintenance/data-model.md:80), so its delivery consumes nothing.
  `PATCH :id/status` compares no version. An edit that overlaps a release gives the
  stock back twice. An edit changes the delivery method without a new version
  (`order-maintenance.service.ts:76`), so an order that has become one for pickup may
  be SHIPPED by a command that was checked before. Counter and iFood orders never reserve (specs/002, spec.md:155).
- Screen: a message that joins a request already read, or the refresh at a
  reconnection that joins an aborted one, shows only with the next poll (15 or 60
  seconds; specs/016 spec.md:295, :302 ask for 3 and 10). Edits, deletions and
  assignments emit nothing. An older answer may bring back an ended order until the
  next poll.
- Exports: a worker that dies, or whose last update fails, leaves the row
  PROCESSING while the job succeeds (specs/018 data-model.md:88), and equal requests
  are answered with it. A failed notice turns COMPLETED back; on local storage the
  retry then removes the file. A sweep on a stale page can delete an export
  (specs/018 spec.md:147).
- Sales import: a claim without order after a crash makes the resumed run count a
  DUPLICATE (specs/013-pagbank-sales-integration/spec.md:132). A statement that
  fails after its day was counted as ready (`sales-import-preview.service.ts:196`, `:272`)
  leaves a FAILED day in a PARTIALLY_READY run, which can be confirmed and ends
  COMPLETED without the sales not recorded. A run whose job is
  exhausted blocks new runs until a boot. A stale boot executes a preview again
  during its import. Confirmation accepts COMPLETED_WITH_ERRORS (specs/013
  data-model.md:147).
- CSV: the key of a SIMPLE line contains its row number, so a shifted file imports
  again; an edit that clears the notes does too (specs/002 spec.md:168). Overlapping
  uploads of MERCADO_PAGO and SIMPLE both create. A failure in the middle leaves a prefix.
- iFood orders: an event that throws ends the poll with the rest of its batch.
  Events for an order not linked yet are acknowledged and lost. A provider's
  CANCELLED leaves the order. RETRYABLE attempts are never retried. Both answers of
  a dispute can be sent, and an event of a dispute that is redelivered or late
  overwrites the answer shown (`ifood-dispute.service.ts:62`;
  specs/008-ifood-delivery-integration/data-model.md:373): with the status it names, with
  PENDING, or in a second dispute, named after the event, which the provider does not know.
- Payables and cash flow: overlapping payments may exceed the amount, or a
  cancellation commit after a payment (specs/006 data-model.md:97). OVERDUE and
  PARTIALLY_PAID have two orders of precedence. A receipt in the hours after
  midnight UTC is shown the day before (`cash-flow.service.ts:573`), so consecutive
  statements do not join, and what is dated the first day is counted twice. A position
  whose end is before its moment leaves out receipts in between; an order without an
  expected date is projected whatever the end. A series with only an end is
  cut at 12.
- Provider connection: any failure of a refresh sets REAUTHORIZATION_REQUIRED, also
  over DISABLED or a fresh ACTIVE. A crash leaves REFRESHING, which no scheduler
  selects. Two overlapping activations can leave two active credentials. An answer
  lost after the rotation loses the token (specs/014-mercado-pago-oauth/spec.md:56).
- Reconciliation: the owner of its lock is a constant per window, so two replicas of one window
  both run and the first to end frees the lock of the other. A refused token cannot
  be renewed under that lock. A crash leaves a notification PROCESSING.
- Authorization server: of two overlapping approvals the second puts a consumed
  request back to APPROVED, and a second exchange of the first code then passes
  (`oauth-token.service.ts:98`; docs/ARCHITECTURE.md:304). Overlapping approvals
  exceed the limit. A lost answer makes the client's retry revoke its connection.
- Idempotency: the take-over compares the expiry alone, so a record completed
  meanwhile is taken over; a first request completes the record of the second.
- MCP server: a write that timed out goes on, and is not counted when it commits;
  overlapping calls exceed the hourly limit (specs/028-mcp-write-actions/spec.md:137); the
  duplicate check is check-then-create over the first 100 bills of the day, and never
  finds a series (`payables-actions.tools.ts:264`), which the tool's description covers
  (`:41`).
- Access: two overlapping removals leave no master (specs/007-store-access-management/spec.md).
  Login and the confirmation of a reset set ACTIVE over what was decided meanwhile.
  A letter may be used twice at once. A reset revokes no session.
- Stores: `publishDraft` archives before it publishes, without a transaction.
  `restorePrevious` twice toggles. A refused mapping has already deleted the old
  codes. A crash leaves a store without owner. Two overlapping deactivations leave
  no SUPER_ADMIN.

Read but not modelled:

- iFood reconciliation: the overlap check ignores PARTIAL runs, which their job
  retries; the cursor lets a resumed run compare new settlements with old events;
  every settlement is compared with the sum of all events of its payment date; equal
  events collapse and corrected ones stay beside their first version; ranges over 90
  days always fail after their events were stored.
- Reports: the acquired net revenue of the statement of results counts an order once
  per item (`dre.service.ts:69`); the queries of a sales report are not one snapshot;
  the last share of a real fee may be negative after rounding.
- Delivery configuration: two concurrent saves can leave two active credentials; a
  validation puts an active integration back to DRAFT.
- Web: panels send a fresh key at each submit, so a retry after a lost answer
  repeats the command; most screens apply answers in the order of arrival.

## 7. What is not modelled

Wording, logging, audit records, responses; tenants (every
statement carries its tenant, and no two tenants share a row); decimals (amounts
are small naturals; the arithmetic is exact in the code); HTTP clients and
mappers of providers other than the statuses they deliver; page sizes, but for those of the
reconciliation and of the duplicate check; the retry of
a request answered with 401; stock of more than one ingredient.

The map covers about an eighth of the implementation's lines. The rest is mostly
the web client (25 000 of 70 000 lines: screens, forms, formatting), and, in
the API, controllers, DTOs, modules, mappers, report queries, file layouts and
configuration edited record by record. None of these has a state machine of its own,
and a model of them would restate them.

Components marked not_modelled in `PROJECT.json` are there with their reasons.
