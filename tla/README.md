# TLA+ models of the e-commerce platform

These modules model the backend of the repository (the FastAPI services under
`src/backend/services` and the library they share, `src/backend/libs/common`),
the gateway's authentication, and the HTTP client and session the two web apps
share. They are written from the code. The design documents under `src/docs`
were used to find out what the code is meant to do; where the two disagree, the
module follows the code, and section 3 says so.

## 1. Inventory of the system

The services with tables keep one PostgreSQL database each, the cart a Redis.
They talk in two ways: HTTP calls (order-service and cart-service to
catalog-service), and events that a service writes to its own `outbox_events`
table in the business transaction, a scheduled job publishes to RabbitMQ, and
the consumers of other services handle at least once. Browsers reach them
through a gateway that asks gateway-auth about each call.

| Component | State | Operations | What is hard | What makes it correct | Status |
|---|---|---|---|---|---|
| catalog: inventory | `inventories` (stock, reserved, sold), `stock_reservations`, `inventory_transactions` | reserve, confirm, release, expiry job, manual adjustment | calls race on one row; calls are repeated; the expiry job settles one line of an order; the adjustment writes over what it did not read | counters are the sum of the reservations; all lines or none; ledger agrees; reserved exceeds stock only through an adjustment; nothing reserved for ever | modelled |
| catalog: products, categories | `spus`, `skus`, `categories` with their paths | create, publish, take off sale | requests of two administrators overlap; paths are made of ids that a clock makes | the subtree by path is the subtree by parent | modelled |
| order-service: order | `orders`, `order_status_logs`, outbox | create, cancel, ship, confirm receipt, `payment.succeeded` handler | the handler decides on a status it read before its lock; redelivery; a consumer that dies | status follows the table; each change announced | modelled |
| checkout saga | none of its own | reserve over HTTP, insert, compensate, then events | timeouts, lost calls, lost commit answers, a dying process, events in any order | no order without stock, no stock sold without payment, no stock leaked | modelled |
| payment-service | `payments`, `refunds`, `payment_transactions`, outbox | create, channel callback, refund | callbacks and refunds race on one row | entered once; refunds stay within the payment | modelled |
| libs/common: outbox, mq | `outbox_events`, publisher, queue | dispatch job, publish, consume | several processes, one failing publish of a batch, a crash before the commit, no broker at startup | no event forgotten; duplicates only after faults | modelled |
| notification-service | `notification_records` | handle events | two deliveries of one event; the process dies or starts without its queue | one record per event; no message lost but by a refusal | modelled |
| cart-service | a Redis hash of lines and one with their summary | add, change, remove, select, purge | read-modify-write of concurrent requests, call by call; expiry; the article is withdrawn meanwhile | summary agrees with the lines unless a request was overlapped or broke off; one line per article | modelled |
| user: accounts, sessions, codes | `users`, `refresh_tokens`, `verification_codes` | register, login and its lock, refresh, logout, block, close, verify, reset | refreshes, logouts and blocks overtake each other between read and write | ended sessions stay ended; rotation leaves one token; guesses are limited | partly |
| user: addresses | `user_addresses` | add, update, set default, delete | two requests each set a default | one default | modelled |
| libs/common: ids and others | last timestamp and sequence | `next_id` | a clock that stands or steps back | ids grow | partly |
| gateway authentication | none | verdict on a call | a token outlives its account and its session | only verified calls get through | partly |
| front ends: client and session | auth store of a tab, calls, the refresh in flight | call, refresh once, repeat, log out | calls are refused before, while and after the refresh; the refresh ends after the logout | no call waits for ever; none but a failed login is served twice | partly |
| migrations, deployment, scripts | - | - | - | - | not modelled |

`PROJECT.json` lists the same components with what their status means, and under
`hazards` each hard-to-test behaviour at its line. A hazard without a property
says why.

## 2. Modules

| Module | Models | Extends / uses |
|---|---|---|
| `Inventory` | `inventory_service.py`, `release_expired_job`, `adjust_inventory` | - |
| `StockPromise` | what the inventory promises an order; an abstract specification | implemented by `Inventory` |
| `InventoryTx` | `inventory_service.py` statement by statement, with row locks | implements `Inventory` (an instance of it) |
| `OrderService` | `order_service.py`, and `on_message` of `mq.py` for its consumer | - |
| `Checkout` | `create_order` with `catalog_client.py`, the events between the services, the consumers of the catalogue | instances of `Inventory` and `OrderService` over one state |
| `Payment` | payment-service's `services/payment_service.py` | - |
| `Outbox` | `outbox.py`, `mq.py`, the scheduler and lifespan of a service | - |
| `Notification` | `notification_service.py` with its consumer and lifespan | extends `Outbox`, implements its consumer |
| `Sessions` | `auth_service.py` and `user_service.py`: accounts and refresh tokens | - |
| `Accounts` | verification codes and password reset | extends `Sessions` |
| `Addresses` | `address_service.py` | - |
| `Browser` | `api-client.ts`, `session.ts`, gateway-auth's `auth_required` | - |
| `UserService` | requests that reach over these four | extends `Accounts`, `Addresses`, `Browser` |
| `Snowflake` | `ids.py` | - |
| `Catalog` | `catalog_service.py`: categories and products | extends `Snowflake` |
| `Cart` | `cart_service.py` and its routes | extends `Catalog` |
| `Storefront` | catalog-service and cart-service together | extends `Cart` |
| `MC*` | constants for TLC | the component |
| `*Proofs` | theorems about the module they are named after and those it extends | that module and TLAPS |

A definition whose comment begins with `Variant:` belongs to no behaviour of
the model. It is the definition after it with a plausible mistake in it, kept to
show that a property would notice.

### Inventory

`stock`, `reserved`, `sold` are the columns of the row; `resv[o][s]` is the
status of the reservation row (order, SKU); `ledger` counts the ledger rows by
type; `tail` is the `*_after` columns of the newest ledger row. `reserve`,
`confirm` and `release` are one transaction each, every change in them is a
conditional UPDATE, and any error rolls the call back. They are atomic actions:
`Reserve`, `Confirm`, `ReleaseItems` (an event names the items), `ReleaseOpen`
(the compensation names none), `Expire` (the job, one line a call). A call that
is refused changes nothing and is not an action. `adjust_inventory` reads
without a lock and writes absolute values later: `AdjustRead`, `AdjustWrite`.
It checks a SET and a DECREASE against the reserved units it saw and an
INCREASE against nothing, while the route passes any integer: `AdjustQty` holds
integers of either sign, as does `InitialStock`, and `AdjustTargets` is the three
branches. So an available amount is pushed below zero, or further below, by two
kinds of adjustment and by nothing else: one that writes over a reservation made
since it read, and an INCREASE by a negative quantity. `NoOverReserve` says that
as an action property.
Time is not modelled; any RESERVED line may be overdue.

`StockPromise` says the same for an order that knows nothing of stock: its lines
are open, then held together, then sold together or returned, each for good.
`Inventory` maps the status of a line to it (`Outcome`) and has it as the
property `KeepsPromise`.

### InventoryTx

Why a call may be one action in `Inventory`. Here each statement is an action:
`FindLine`, `ConfirmLine`, `ReleaseLine` (the reservation row), `UpdateRow` (the
inventories row), `Commit`. PostgreSQL is modelled from how the code uses it: at
READ COMMITTED a statement sees what is committed, waits for the lock of a row it
changes and then looks again; a session keeps its locks to its end; `Victim` is
the transaction it aborts when sessions wait in a circle; `Fail` is any other
error. The sessions do not autoflush (`db.py`), so the rows of reserve are
inserted by its commit, where the unique index may refuse them. A session that
has loaded a line as RESERVED (release without items, the expiry job) sees its own
target status after an UPDATE that hit no row, since SQLAlchemy applies the UPDATE
to loaded objects: it skips the line where a fresh session raises CAT-5012.
The committed rows are refined to `Inventory` with no adjustment
(`Atomic`): every call is one step of it, at its commit, or nothing.

One assumption about callers is in the guards (`Runs`): no release of an order
runs while its reserve does. The compensation and `order.cancelled` follow the
answer of the reserve call. Without it a release of the items can skip a line
that reserve is about to insert and release another, which is no step of `Inventory`
(one call releases only a part). The one caller that could do it is a compensation
of an order number used twice.

### OrderService

`status`, `log` (the status log), `emitted` (outbox rows by type), `msg` (the
`payment.succeeded` messages and what their handlers have read). `cancel`,
`ship` and `confirm_receipt` first load the row with `FOR UPDATE`: atomic.
`handle_payment_succeeded` loads the order without a lock and later selects it
again with `FOR UPDATE`; the session keeps the object it has, so the second
select locks but does not refresh. Hence `Load` and `Apply`, with any call
between them. `Transition` keeps the UPDATE's condition and the fact that its
row count is not looked at. `NotPending` is the handler's
`except` branch, which returns for PAID only.

### Checkout

Composes the two: it declares their variables, instantiates both and uses their
actions unchanged, so a change of an inventory definition is a change of the
saga. It adds `client[o]` (where `create_order` stands), the reserve request
(`call`), the compensation's request (`undo`), and catalog-service's queue
(`inbox`). A request can be served after its caller gave up, or be lost.
`InsertFails` covers both an insert that failed and a commit whose answer was
lost. `Die` is a process that dies between two steps; orders it was working on
count as failed. Adjustments, shipping and redelivery to order-service are left
to the two modules.

### Payment

`pay` (the rows), `refunds`, `income[p]` and `settled[p]` (IN rows and
`payment.succeeded` events), `totals[p]` (the amount and the running total of
each `payment.refunded` event). `settle_paid` and `create_refund` read, and
then change the row by a conditional UPDATE; what follows is committed under
that row's lock. Each is two actions (`HookLoad`/`HookSettle`,
`RefundLoad`/`RefundApply`), so two callbacks or two refunds can both have read
before one writes. The unique indexes of the migration are `IdIsFree`,
`KeyIsFree` and, for the one active payment of an order and channel, the guard of
`CreatePayment`.

### Outbox and Notification

Every service with events has the same table, job and lifespan (catalogue, order,
payment, user); `Outbox` is any of them. One run of `dispatch_pending` is one transaction: `Select` locks the first
`BatchSize` due rows that no other process has locked (`SKIP LOCKED`),
`PublishOk`/`PublishFails` take them one by one, `Commit` writes what the run
has noted, `RunFails` and `Restart` lose it. `up[d]` is FALSE for a process that
could not connect when it started (it stays so until a restart), `bound` whether
the consumer's queue exists. `due` stands for `next_retry_at <= now`. `Bind`,
`Handle`, `Reject`, `DieUncommitted` and `DieUnacknowledged` say what any consumer
may do.

`Notification` puts notification-service in the place of that consumer. `life`
is its process: a consumer that cannot be started is given up until the next
start ("deaf"). `Take` is the handler up to its SELECT of the record, `Insert`
the commit and the acknowledgement, or the death between them; the unique index
on event and template refuses the second of two inserts, whose handler raises, so
that message is rejected. That each of its steps is a step `Outbox` allows
(`DeliversAsOutbox`) lets what is shown of any consumer hold with this one.

### Sessions, Accounts, Addresses

In all three a request reads rows without locks and writes later by id; `req[h]`,
`work[h]`, `task[h]` hold what it read. Only what it changed is written (the ORM
writes the columns that differ): a login that has nothing to reset leaves the
lock alone although another request set it meanwhile (`Unlocked`).

`Sessions`: `user` and `token` are the rows, `announced` the `user.registered`
outbox rows. `Sweep` is `revoke_refresh_tokens_by_user`. Two kinds of history
tell the legal exceptions from the mistakes: a token's `swept` and `late`, and
`forked` families. `ChangePassword` is the one of `user_service.py`, which the
route calls; `auth_service.py` has a copy without a caller. `refresh` reads the token, then its user, then writes:
`RefreshRow`, `RefreshUser`, `RefreshWrite`; a token read as USED is a replay
and ends all sessions (`Replay`). `failed` stops counting at `MaxFailures`. Two
registrations may both have found the address free; the unique index refuses the
second (`RegisterFails`).

`Accounts`: codes of one account and one scene; `Checked` is the row a
verification leaves, `overlapped` tells that it wrote over a newer one. A reset
is a verification that goes on (`ResetWrite`).

`Addresses`: `clear_defaults` and the write are one commit under the partial
unique index on defaults; a request that finds another default committed in
between fails and writes nothing, so it is not an action.

### Browser

One tab: `pairs` are the tokens it was given so far, `store` the ones in its
auth store, `ask[c]` its calls, `refreshing` the single-flight promise of
`api-client.ts`. A call is verified by the gateway by its access token alone.
`signedOut` tells whether the session was cleared with a refresh under way.

A login is one of the calls. Its page can be opened while logged in, its call
carries the token of the store if there is one, and the gateway does not look at
it. user-service answers a failed login with 401 (`DenyLogin`), which the client
treats like a 401 of the gateway (`TurnAway`): it refreshes and makes the call
again. The password is then compared, and counted, once more. That is the one
way a service gets a call twice (`ForwardedOnce`). The other routes that need no
token never answer 401: a call of one would only be sent and answered, so `Routes`
leaves them out.

The client posts its refresh to `/api/v1/auth/refresh`, while the service has
`/token/refresh` under another prefix, so at this commit only the failing answer
occurs. `RefreshOutcomes` says which answers may come; the run allows both, so
that what is shown does not rest on that mismatch.

### UserService

What reaches over the parts: a closed account takes its addresses along, a reset
ends sessions, a tab someone is logged in with calls the address routes with the
identity the gateway gives it, the logins and refreshes of the tab are answered by
requests of `Sessions`. All requests of `Sessions` run here (`SessionStep`), the
administrator's `set_status` among them: it enables a closed account as well,
which can log in with its kept password and add addresses from then on. `gone`
holds the accounts of which nothing was left at some time after they were closed or
disabled (no access token that is verified, no request that still signs in or adds
an address) and that nobody has enabled since; `GoneGetsNothing` is about those. A repeated
login is another request to `Sessions`; the model does not hold it to the account
and password of the first, so it allows more than the client does.

### Snowflake, Catalog, Cart, Storefront

`Snowflake` is one process of `next_id` under its lock: `NextId`, and for the
millisecond whose numbers are used up `Exhaust` and `SpinEnds`; the clock ticks
and steps back at any time. An id is the pair of its time and its number.

`Catalog` builds category rows with those ids. `publish` and `unpublish` read
and write like the requests of user-service.

`Cart` takes a request apart into its Redis calls: the read of all lines, one
`HSET` or `HDEL` after the other, the summary of the lines as the request saw
and changed them. Between any two of them the request may end, by an error of
Redis or with its process (`Break`): what it wrote stays and the summary is not
written. The routes check no quantity, so `Quantities` holds any integers and a
line may have zero or fewer units; only the maximum is enforced. A line is identified by the millisecond at which it was
added, as in the code. The public routes call `resolve_owner()` themselves, so
no header reaches it and all shoppers have one cart (`Owner`); the internal routes
name users. `Storefront` lets administrators and shoppers run together.

## 3. Runs

| Run | Shows |
|---|---|
| `inventory_calls` | Counters equal the sum of the reservations (`Conservation`), each line is counted once in the ledger (`LedgerOnce`), no call but two kinds of adjustment brings the available amount below zero (`NoOverReserve`), the newest ledger row tells the truth unless overwritten (`LedgerTail`), no reservation stays for ever (`ReservationSettles`), and all this keeps `StockPromise`: confirmed whole, settled for good (`KeepsPromise`). |
| `inventory_tx` | Every call of `Inventory`, run statement by statement among others, is one step of it or nothing (`Atomic`); calls of reserve alone never deadlock whatever item lists they get (`ReservesInOrder`; with a release or a confirm among them they can, and the victim is rolled back). |
| `order_payments` | The status follows the table (`FollowsTable`), paid orders are announced (`PaidIsAnnounced`), cancelled ones exactly once (`CancelledIsAnnouncedOnce`), a delivered payment is applied (`PaymentApplied`). |
| `checkout_saga` | No order without reserved stock (`OrdersWereReserved`), no sale without a payment (`SoldOnlyIfPaid`), an accepted `order.paid` sold every line (`AcceptedMeansSold`), a failed checkout holds nothing in the end (`FailedOrdersHoldNothing`), a cancelled order leaves no line RESERVED unless its event was rejected (`CancelledGivesBack`). |
| `payment_money` | A payment is entered once (`SettledOnce`), refunds add up and, once there is one, stay within it (`RefundsAddUp`; a payment may have been created with a negative amount, see below), the events tell the running total (`TotalsRun`). |
| `outbox_dispatch` | Duplicates are at most as many as faults (`DuplicatesNeedFaults`); an event has at most one record (`NotifTypeOK`) and, once handled, exactly the one it should have (`HandledIsRecorded`); every event written after the queue is bound arrives or is refused, FAILED rows included (`WrittenArrives`); notification-service is a consumer as `Outbox` has it (`DeliversAsOutbox`). |
| `user_sessions` | Ended sessions stay ended (`SweptStaysOut`), a blocked account keeps only what was under way (`BlockedOnlyLate`), rotation leaves one working token of a login unless refreshes overlapped (`OneActivePerFamily`). |
| `user_accounts` | A code is compared with `MaxAttempts` guesses unless requests overlapped (`GuessesLimited`); a user has one default address (`OneDefault`), which is moved and not dropped (`DefaultMoves`); a refresh is under way exactly while a call waits (`WaitsForRefresh`), only a login that failed is served again (`ForwardedOnce`), a signed-out tab stays so (`SignedOutStaysOut`); a closed account gets no address once its tokens have expired, until it is enabled (`GoneGetsNothing`). |
| `catalog_tree` | Ids grow unless the clock stepped back (`IdsGrow`); even then the subtree by path is the subtree by parent (`SubtreeByPath`). |
| `storefront` | The summary counts the lines but for overlaps, requests that broke off and expiry, and the next undisturbed request puts it right (`SummaryCounts`), a cart has one line per article unless requests overlapped (`OneLinePerSku`), only published articles get into carts (`CartedWasPublished`). |

The type invariants are theorems (section 4); they are left out of the runs, with
the exception of `NotifTypeOK`, which says something about the code.

Two runs show where the code departs from its documents. Each finds the shortest
behaviour that breaks what the document says:

| Run | Document | Behaviour |
|---|---|---|
| `inventory_oversell` | requirements: no overselling | `confirm` moves units to `sold` and leaves `stock`; `reserve` looks at `stock - reserved`; the units are sold again. |
| `order_paid_event` | design: `order.paid` after a successful change to PAID | a cancel commits between the handler's read and its lock: the UPDATE hits no row, and `order.paid` is written for a cancelled order (the catalogue may then sell its stock). |

### Disagreements without a run

Met while modelling; the modules follow the code.

Orders and inventory:

- A reserve call that times out may be served: the comment in `create_order`
  (`order_service.py:95`) says nothing was reserved. Only the expiry job gives the
  stock back (`Checkout` has it, and `FailedOrdersHoldNothing` shows the job does).
- `from_status` of the status log is the status *after* the UPDATE, because the
  session applies it to the loaded object first (`order_service.py:71`; design,
  `04-订单服务.md:2224`).
- A second `payment.succeeded` can write a second `order.paid`
  (`order_service.py:262`; acceptance table at `04-订单服务.md:4414`).
- The order number keeps six digits of the id (`order_service.py:40`), of which the
  low bits are the sequence: two orders of a day can have the same. The second
  reserve then replays the first one's, its insert fails, and the compensation
  releases the stock of the other order.
- DEBT-002 of `known-debt.md` says that a retry with the same Idempotency-Key
  leaks its reservation; in the code the failed insert is compensated.
- Nothing closes an unpaid order before its reservation expires (DEBT-001).
- An adjustment can leave `reserved > stock` although the design lists a CHECK
  against it (`02-商品目录服务.md:289`): when a reservation is made between its read
  and its write (`catalog_service.py:209`), and when it increases by a negative
  quantity, which no check refuses (`catalog_service.py:218`).

Payments and events:

- A payment is retried in another channel, or after it succeeded, and charges
  the order twice (`payment_service.py:56`; `01-需求规格说明书.md:396`).
- A refund of a negative amount passes (`payment_service.py:118`;
  `05-支付服务.md:466`), and so does a payment of one (`payment_service.py:53`).
- Events of one order may overtake each other: a failed row waits for its
  backoff, later rows do not, and two processes take rows side by side
  (`04-订单服务.md:3824`).
- A process that started without RabbitMQ never publishes until it is restarted,
  while the docstring of its job relies on retries (`tasks/scheduler.py:15`).
- An event published before a queue is bound is dropped by the exchange and its row
  is SENT (`mq.py:48`; `00-通用约定.md:367`).
- A message whose handler raises once is dropped (DEBT-005). In notification-service
  that includes the second of two concurrent deliveries, which is harmless, and a
  record number (eight digits of an id) that is taken, which loses the message.

Users and browsers:

- Two overlapping refreshes with one token both rotate it (`auth_service.py:198`;
  `01-用户服务.md:2615`, `:3378`): `OneActivePerFamily` excepts it by `forked`.
- The clients' refresh route does not exist on the service
  (`08-买家商城端.md:81`; `01-用户服务.md:878`); see `RefreshOutcomes` above.
- Logout everywhere lies under a prefix for which the gateway sends no identity,
  so it always answers 401; the logout button calls no route at all. The session
  modules keep the operation as the service has it.
- A failed login is answered 401 (`auth_service.py:158`), which the client takes for
  an expired session: the failure is counted twice when the tab has tokens, and the
  tab is sent to the login page when it has none.
- `set_status` looks at no status (`user_service.py:103`): it enables an account its
  owner has closed.

Catalogue and cart:

- All shoppers have one cart (`cart.py:17` calls `resolve_owner()` without the
  headers its docstring at `deps.py:29` speaks of), and the internal routes work on
  `u:{id}`, which nothing fills.
- The summary of a cart does not expire with its lines
  (`03-购物车服务.md:1424`, `:1940`).
- A full cart refuses an article it has already: the comparison is of a string
  with numbers (`cart_service.py:45`).
- Negative and zero quantities are added (`cart.py:33`), negative ones set
  (`cart.py:54`).
- A request that ends between its lines and the summary leaves the summary wrong until
  the next one (`cart_service.py:64`, `:35`).
- A publication that read the product ON_SALE and is overtaken by a withdrawal
  answers ON_SALE for a product that is off sale (`catalog_service.py:188`).

### Bounds, and why they are enough

- Inventory: two orders that both want both SKUs, of which one has a single
  unit. A call can be refused on one line and must not move the other; the
  expiry job can settle one line of two; one administrator writes over either
  SKU between any two calls. `MaxQty` = 2. `AdjustQty` = {-1, 1}, and `Targets`
  = -1..2 bounds what an adjustment aims at (`AdjustRead` has the guard): enough for
  a SET, a DECREASE and either INCREASE on a row with reserved units, and for
  a stock below zero. The oversell run has a third order.
- InventoryTx: three sessions (a circle of two and one more that waits or
  commits between), two orders that list the same two SKUs in opposite order, one
  SKU that suffices for one order only.
- OrderService: three messages, two for the same order, so two handlers race and
  a message meets an order in every status. `MaxCrashes` = 1; a crash only puts
  a message back in the queue, a second one repeats the first.
- Checkout: two orders over two SKUs, each can be refused because of the other;
  one payment message, so one order can be paid and the other not. No bound on
  duplicates: `Duplicate` puts an event that was handled back in the queue.
- Payment: two payments of one order, two channels that use the same id, two
  callbacks and two refund requests at a time, three keys, amounts 1 and 2 of
  3: a pair of refunds fits, or only one of them does.
- Outbox and Notification: two events of one order of which one has a recipient,
  two processes, two handlers, `MaxFaults` = 2 and `MaxRetry` = 1, so a row fails
  twice, becomes FAILED and is selected again, or a fault is spent on each side
  of the broker.
- Sessions: two rows for one address, of which `MaxAccounts` = 1 is inserted, so
  registrations race; two requests at a time (a third would only be overtaken in
  the same two ways), three tokens: one is rotated and one replayed or rotated
  twice. `MaxFailures` = 2: a lock after a failure that did not lock.
- UserService: `MaxRequests` = 5 requests of any kind, two at a time, two calls
  of the tab at a time, two pairs of tokens of it, three refresh tokens, two codes with two attempts, three
  address rows of which two may be live. Five are enough to register, log in,
  add two addresses and close the account, or for three guesses around a new code.
- Catalog: three milliseconds with two ids each and three levels, so a clock
  that steps back draws ids again under another parent.
- Storefront: one product with two articles, a clock of two milliseconds (lines
  added in one of them collide), two lines at most, quantities -1, 0 and 2 with a maximum
  of 2, four requests, two of each kind at a time: two that overlap or one that
  breaks off, and others after them.

Handlers, sessions and rows nothing names are interchangeable (symmetry), in runs
without a liveness property. Runs over components that may rest set
`CHECK_DEADLOCK FALSE`. In Inventory, InventoryTx and Payment a step is always
possible, so TLC checks deadlock there.

### Fairness

Fairness is assumed only of what a scheduler, the broker or the container
runtime drives.

- `InvFairSpec`: the expiry job runs every minute (`scheduler.py` of
  catalog-service) and selects every overdue line; a line that stays RESERVED
  becomes overdue. Weak fairness of `Expire` for each line.
- `OrdFairSpec`: the consumer runs its handler on every message. Weak fairness of
  `Load` and `Apply`; `Reject` and `Crash` may still happen (at most `MaxCrashes`
  crashes).
- `ExpiryRuns` and `EventsRun` in Checkout are stated in the properties, because
  the two liveness properties assume different things: one only that requests
  end and the job runs, the other only that the outbox publishes and the
  consumers run.
- `NotifFairSpec`: the job of each process runs every five seconds and goes on to
  its end, time passes, messages are handed to a free handler, handlers end, and
  a service that is down is started (`restart: unless-stopped` in
  `infra/docker-compose.yml`). Nothing forces a binding to succeed, a restart of a
  process that is up, or a successful publish: `PublishOk` or `PublishFails`, and the
  faults are bounded, which is the assumption that the broker works again some
  time. A process that started without the broker, or without its consumer, is
  excepted in `WrittenArrives`, as nothing in the code makes it try again.

No buyer, administrator or payment channel is assumed to do anything.

## 4. Proofs

Every safety property the passing runs check is a theorem: the invariants, the
action properties and the four refinements (`KeepsPromise`, `Atomic`,
`DeliversAsOutbox`, and `UserSpec => SessSpec`). They hold for any sets of orders,
SKUs, payments, messages, processes, users, requests, carts and calls and any
bounds, from the assumptions named in the modules (`InventoryAssumption`,
`TxAssumption`, `SagaAssumption`, `OrderAssumption`, `PaymentAssumption`,
`OutboxAssumption`, ...; TLC evaluates them in the runs).

| Module | Theorems | Argument |
|---|---|---|
| `InventoryProofs` | types; `Conservation`, `ConfirmedTogether`, `LedgerOnce`, `NoOverReserve`, `LedgerTail`, `SettledIsFinal`, `KeepsPromise` (the refinement to `StockPromise`) | The sum of the quantities is the cardinality of a set of units, so moving a line is moving a finite set; `Post` is described by lemmas about what it does to the row, the lines and the ledger, and each action is an instance of `Post`. `NoOverReserve` needs to know of every adjustment in flight that its target covers the reserved units it saw or that it is an INCREASE by a negative quantity; every other call leaves the available amount at zero or above, or does not lower it. For the refinement each call maps to one step of `StockPromise`: `Reserve` to `Hold`, `Confirm` to `Sell`, a release to `Return` of the lines that were RESERVED, an adjustment to a stutter. |
| `InventoryTxProofs` | types; `Atomic` (the refinement to `Inventory`), `ReservesInOrder` | `TxInv`: what a transaction has found out about a line stays true while it is open (`Progress`), because it holds the lock of the row, because the status it found is final, or because no other call may touch the line meanwhile (`CallsApart`, where the assumption on callers enters). So the statements it executed add up, at its commit, to the one `Post` of the call in `Inventory`; every other statement is a stutter. `ReservesInOrder`: a reserve call takes its rows in the order of the SKUs (`Sorted`), so whoever a waiting call waits for is at a greater SKU itself, and among the calls of a circle the one that is furthest waits for none of them. |
| `OrderServiceProofs` | types; `PaidIsAnnounced`, `CancelledIsAnnouncedOnce`, `FollowsTable` | Every step does one of a few things to an order: create it, pay it, cancel it, ship it, receive it, write an event, or nothing. Each theorem is proved over these, not over the actions. |
| `CheckoutProofs` | `Spec => Inv!InvSpec`, `Spec => Ord!OrdSpec`; types; `OrdersWereReserved`, `SoldOnlyIfPaid`, `AcceptedMeansSold` | Every step of the saga is a step or a stutter of each component, so the component's theorems hold in the saga and are cited, not proved again (`SagaStockAddsUp`, `SagaAnnounces`). `ReservedFirst`: a line that has a reservation row keeps one, so what held when the reserve was served holds when the order is inserted, however late. `SoldOnlyIfPaid` is inductive with `SeenWasEmitted`: an `order.paid` event the catalogue has seen was committed, and no event is taken back from the outbox. `AcceptedMeansSold` needs that no step of the inventory moves a sold line (`SettledIsFinal` there). |
| `PaymentProofs` | types; `SettledOnce`, `RefundsAddUp`, `TotalsRun` | Typing needs that a refund request in flight names an existing payment (`Loaded`). `SettledOnce` needs no fact about what a callback read: the condition of the UPDATE decides. `MoneyInv`: the refund rows are finitely many, their sum is the column, and the last event of a payment states it. That the sum of the rows grows by the new row's amount is a lemma about the fold of the community module (`SumOfMore`), shown by taking a smallest set for which its recursion would fail. |
| `NotificationProofs` | `Outbox`: types; `DuplicatesNeedFaults`, `SentWasPublished`. `Notification`: types with at most one record; `HandledIsRecorded`; `DeliversAsOutbox` | Neither of the first two is inductive. `Locks`: no row is held by two runs, a held row is PENDING or FAILED, the parts of a run are disjoint, and what a run noted as sent the broker has taken. `CopiesPaid`: copies of an event are at most the faults, plus one while a run has noted it sent or its row is SENT. The refinement maps every step of the service to the step of the consumer it contains, or to a stutter. `HandledIsRecorded` needs that a record that a handler found is there, and that only events with a recipient have one. |
| `StorefrontProofs` | ids: types, `IdsGrow`. Catalogue: types; `CategorySpec => IdSpec`, `IdsGrow` under it, `SubtreeByPath`. Storefront: types; `CartedWasPublished`, `SummaryCounts`, `OneLinePerSku` | `IdInv`: as long as the clock never stepped back, no id issued is greater than the last time and number, and the last time is not after the clock. `TreeInv`: a row is at the top or extends the path of its parent's row by its own id, ids are keys and every path starts with a top row's; that the subtree by path is the subtree by parent is shown level by level (`LevelsByPath`), and holds with a clock that steps back. `CartInv`: the lines a request has read and not written yet equal the cart's, unless it was overlapped, and a summary that is wrong belongs to a stale cart or to a request that has written and is still there (`SummaryInv`); what a request will write has one line per article if the cart has (`LinesInv`); every article in a cart, or asked for, is of a product that has been published, and publication is for good (`PublishedInv`, `SaleInv`). Types: no line is over the maximum, though it may be zero or below. That the sums in a summary are numbers is shown of the community module's fold as in `PaymentProofs` (`QuantityRecurs`). |
| `UserServiceProofs` | `Sessions`: types; `SweptStaysOut`, `BlockedOnlyLate`, `OneActivePerFamily`. `UserService`: `UserSpec => SessSpec`; types of codes, addresses and the tab; `GuessesLimited`, `OneDefault`, `DefaultMoves`, `ForwardedOnce`, `WaitsForRefresh`, `SignedOutStaysOut`, `GoneGetsNothing` | Every step of the sessions issues a token, rotates one, or only weakens tokens (`Weakened`). `BlockedOnlyLate` needs that a request that may still issue a token to a blocked account was overtaken (`LateRequests`); `OneActivePerFamily` that the family of a token is named by a token that exists (`Owned`). The service moves each part by one of the part's actions or not at all (`StepOfSessions`, `StepIsTabMove`, `StepIsAddrMove`), which is how the theorems of the parts carry over; a reset is a sweep of an account that exists (`ResetsExist`). `OneDefault`: pair by pair (`SameDefault`), with the row a request read still there (`TaskOfRow`). A call that is under way or waits was not served yet, or was a login that a service denied (`OnceInv`); a signed-out tab has no token in its store and its refresh, if any, was begun without one (`SignedInv`). `GoneInv`: while an account is blocked nothing is left of it and nothing comes back (`Gone`): no request that could still sign it in is under way, a pair of its tokens that has expired stays expired, so no call is let through as this user, a login or a refresh answered for it is not possible, and no request to add an address begins; enabling the account takes it out of `gone`. |

Only model-checked:

- The liveness properties: `ReservationSettles`, `PaymentApplied`,
  `FailedOrdersHoldNothing`, `CancelledGivesBack`, `WrittenArrives`. The proof
  system cannot reason about fairness (ENABLED).
- The absence of deadlock in the runs that check it.

The two disagreements of section 3 are counterexamples and need no proof.

## 5. Not modelled

- Reads, formatting, validation of requests, wording of errors.
- user-service: profiles, avatars, roles, third-party logins and the operation
  log (each writes one row that nothing else here depends on); the expiry time of
  refresh tokens (an expired one is refused without a write); the exact count of
  failed logins above the limit, and the delivery of codes.
- Quantities of order lines are positive. Those of carts and adjustments, the initial
  stock and the amounts of payments and refunds are any integers, as the routes let
  them through.
- `TIMEOUT_CLOSE`, `CLOSE_RELEASED`, `AUTO_COMPLETE` and the two refund actions of the
  order's table: no code requests them.
- The amount of a payment is not compared with the order (DEBT-003), and the
  model does not compare it either.
- Order numbers and record numbers are distinct; what a collision does is told in
  section 3. It takes far more orders than an instance can have.
- `idempotency.py`: it has no caller. `db.py` and the error classes hold no protocol.
- gateway-auth's `auth_optional`, in front of the cart: the cart does not look at
  the identity.
- Pages and components of the web apps: no protocol beyond the client's.
- Migrations, deployment files, seed data and end-to-end scripts. The unique
  indexes of the migrations are guards of the modules of their tables.
- Statements of the other services' transactions (`InventoryTx` does it for the
  inventory); the manual adjustment among the statements of `InventoryTx`.

## 6. What could follow

1. What the circle argument of `ReservesInOrder` still gives when a confirm or an
   expiry runs among the reserves: who the victim is, and that it repeats nothing.
2. `payment.succeeded` through `Outbox` into `OrderService`, as `Notification` does
   for notification-service, with its refinement proved the same way.
3. Idempotency keys of `create_order` in Checkout, and order numbers that collide.
4. Roles: `assign_roles` deletes and inserts rows and two administrators overlap.
