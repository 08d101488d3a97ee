# TLA+ models of the E-Motorcycle sales backend

The backend (NestJS, TypeORM 0.3, PostgreSQL) sells motorcycles online: customers
order and pay, staff confirm, export from the warehouse and deliver. This directory
models what is hard about it, requests that overlap on the same rows, checks the
models with TLC and proves the invariants of orders, payments, the warehouse and the shop
front with TLAPS.

## 1. The system

### 1.1 How a request works

There is no lock, no version column and no isolation level in the source, so every
transaction is READ COMMITTED. A handler *finds* an entity, *checks* it, *assigns* a
few fields in memory and *saves* it. `EntityManager.save` reads the row again, keeps
the columns whose value in memory differs from the row, and updates those. A row that
is gone is inserted. For a relation that is present in the entity the loaded list is
compared too, and rows that are not in it lose their foreign key. So a handler is
four steps at least (find, other awaits, re-read, update), each of which sees what
other requests committed before it. That is the grain of OrderLifecycle, the two
payment models and Inventory. The shop front's models take the re-read and the UPDATE
of a save as one step: what their properties tell apart happens between the check and
the save.

A handler that throws before it has written anything changes nothing and takes no
step. One that throws or dies later is an `Abort`: in a transaction nothing of it stays,
without one all that it has written so far.

### 1.2 Components

| component | state | operations | hard because | what makes it correct |
|---|---|---|---|---|
| Order lifecycle (`order`) | `order_status`, `payment_status`, payment method, details | create, update, confirm ... deliver, cancel, generic status step, remove | requests overlap; checks are commented out or incomplete; stale saves | no stage of the fulfilment is skipped; cash is recorded; cancelled is final |
| Export (`export`) | one export row per order and its lines | createExportOrder, createManyExport, UpdateExport, remove | unique `order_id` is the only guard; absolute writes to lots | exported once, only after confirmation, no more than ordered |
| PayOS payment (`payos`) | `payment_transaction`, the gateway's link | createOrderPayment, cancelOrderPayment, webhook, check, cron | a gateway call in the middle; webhooks repeat, race with polling and are not verified | a transaction says what the gateway or a notification said; PAID means money, or a notification; a payment is recorded |
| ZaloPay payment (`zalo-payment`) | options `app_trans_id`, `zp_trans_id` of an order | createOrder, verifyCallback, checkOrderStatus, cron | a success is never acknowledged; unique options; stale saves; the day is part of the payment's name | a failure was answered; PAID means money; a payment is recorded |
| Inventory (`detail_import`, `import`) | lots: imported, sold, remaining | import, update, export, recount, updateQuantitySold | absolute writes computed from stale reads; no reservation | a lot never promises more than it has; only goods of ended orders are sold |
| Vouchers (`vourchers`) | vouchers, `user_voucher`, `count_user_get` | create, give, claim, update, remove, spend | check and act in four statements without a transaction | at most `limit` claims; a voucher pays once |
| Cart (`cart`, `cart_item`) | carts and items | add, update, remove, clear, order | absolute quantities; items removed after the order | the cart holds what was asked for; an item is ordered once |
| Receive addresses (`receive_address`) | addresses, `is_default` | create, update, remove, set default | a count before the insert; a save of all that was read | at most three, at most one default |
| Accounts (`auth`, `user`, `customers`) | accounts, `codeId` | register, activate, forgot, reset, staff variants | one code column for several uses; mail before save; no unique e-mail | one account per address; a mailed code works, once |
| Catalogue (`products`, `skus`) | products, variants, their codes | create, update, hide, remove | looked up before inserted; cascades | codes are unique; orders keep their details |
| Reviews (`review`) | reviews, pictures, files | create, update, remove | file and row removed one after the other | a picture has its file |
| Roles (`role`, `permission`) | roles, permissions, junction table | create, update, remove | many statements without a transaction | a role has the permissions asked for |
| Categories (`category`) | the tree of categories | create, update, remove, hide | a parent is checked against a copy | the tree stays a tree |
| Reference data (`brand`, `payment_method`, `delivery_method`) | rows with a file | create, update, remove | the file goes first; calls that nobody awaits | a row's file is there |
| Blogs (`blog`, `blog-categories`) | blogs, categories, files | create, update, remove | categories saved with lists read before | a blog is where it was put |
| Statistics (`order`) | none | revenue by month, day, year; orders by status | sums over joins, ends of ranges | the parts add up to the whole |
| Chat, mail, provinces, branches, contacts | single rows | append, send, read | nothing that relates two of them | not modelled |

Components meet in the order's row: staff endpoints, PayOS and ZaloPay handlers and
two cron jobs all read it and save it. The export handler writes it together with the
lots; the status step writes lots through the export. `createOrderPayment` spends
vouchers, `createOrderFromCartItem` empties the cart. A removed product, category or
address takes rows of orders with it.

PROJECT.json lists every component with its status, and under `hazards` the lines
where each of these problems bites.

## 2. Modules

```
Settlement (abstract) <-- implemented by PayosPayment and ZaloPayment

OrderLifecycle <-- also implemented by both, which extend it
   |        |
   |        +-- ZaloPayment ---- MCZaloPayment,   ZaloPayment_proofs
   +-- PayosPayment ------------ MCPayosPayment,  PayosPayment_proofs
   +---------------------------- MCOrderLifecycle, OrderLifecycle_proofs

Inventory ---------------------- MCInventory,     Inventory_proofs

Parties <-- Vouchers, Cart, Addresses, Accounts, Catalogue, Reviews, Roles,
   |        Categories, Logos, Blogs, Statistics
   +------- Shop (all of these) - MCShop,         Shop_proofs, ShopPeople_proofs,
                                                  ShopRecords_proofs, ShopTypes_proofs
```

### OrderLifecycle

The order's row and everything that staff do to it.

* `order[o]` is the row (`order_status`, `payment_status`, payment method), `live` the
  orders that have one, `export[o]` the export row (`loose`: without its `order_id`),
  `credited[o]` how often `updateQuantitySold` added the order's goods.
* `job[r]` is a request in flight. A handler's action (`ConfirmOrder`,
  `UpdateNormalOrderStatus`, ...) finds, checks and assigns; `Diff` is the re-read of
  save, `Commit` its UPDATE with the rest of the transaction, `Abort` a rollback or a
  crash.
* `updateNormalOrderStatus` saves twice in a transaction. If the first save wrote the
  row it holds the row's lock, and the second rewrites all that differs; if it had
  nothing to write, the second compares anew (`Resave`). It loads every relation,
  so its save detaches an export (and, in PayosPayment, transactions) committed since.
* `UpdateNormalPaymentFailed` is the branch for a failed payment. For an order that is
  not COD, `cancelOrder` saves CANCELLED and the caller then saves the copy it loaded
  before: the cancellation is lost.
* `SavedRow` of a row that was deleted is an INSERT: a request that was in flight
  brings a removed order back.
* `PaymentHandlerSave` is what any payment handler may do to the row, the abstract
  specification that PayosPayment and ZaloPayment implement.
* `seen` and `clean` are ghosts: the statuses ever committed, and whether requests on
  the order always took turns.

### Settlement

What the shop promises about money whoever handles it: `funded` only grows, and the
orders in `paid` are funded. The payment modules instantiate it with `funded` as the
orders that the gateway took money for or that were delivered (for PayOS, also those that an
unchecked notification said were paid), and `paid` as the orders that show PAID. A payment may stop showing: a stale save reverts it.

### PayosPayment

Extends OrderLifecycle with the gateway's links (`link`), table `payment_transaction`
(`txn`), notifications to deliver (`hooks`), payment requests (`pjob`) and the
transactions that a staff request loaded (`held`). `createOrderPayment` is
`CreateLoad`, `CreateLink` (the gateway call), `PDiff`, `PCommit`;
`cancelOrderPayment` calls the gateway first (`CancelLink`); `handleWebhook` is
`HookKnown` or `Hook`, or `StrayHook` when PayOS did not send the notification; `CheckPayosPaymentStatus`, also called by the cron job, is
`CheckLoad`, `CheckAnswer`. `PAbort` is a failure at any point: after `CancelLink` the
link stays cancelled. A notification is in `hooks` until it is acknowledged, so it
is repeated, and may be handled twice at once; the answer to one that was committed may
get lost, and the gateway calls again (`HookKnown`). The UPDATE of the order locks its row,
so the transaction row that is saved next is compared and written in one step; without
the lock both are compared at `PDiff`. The gateway is modelled
from its use: a link is PENDING and then PAID, FAILED, EXPIRED or CANCELLED, and it
refuses to cancel one that is not PENDING.

### ZaloPayment

Extends OrderLifecycle with the gateway's payments (`trans`, named by order and day),
the option rows of each order (`opt[o]`: the day in `app_trans_id` and the number of the
`zp_trans_id` row), `expiry` (`payment_url_expired`), payment requests (`zjob`) and the
expiry that each staff request loaded (`stale`). `today` advances (`NextDay`), because
an `app_trans_id` is made of the day and the order: on the same day the gateway refuses
a second payment, on the next only the option rows do. `createOrder` is `CreateLoad`,
`CreateAnswer`; `verifyCallback` is `Callback`; `checkOrderStatus` is `CheckLoad`,
`CheckAnswer`, or `CheckUnknown` when the gateway answers with a return_code that the switch
does not know; each then runs through `ZDiff` and `ZCommit`, where the lists of options
are compared too: the callback finds the order by a condition on its options and so has
only one of the rows, and the unique key of the table makes an insert fail (`Attaches`,
`InsertsApp`, `InsertsZp`). A callback is never acknowledged: it stays enabled as long as
its payment is PAID. `told` are the payments recorded, `calm` the orders whose
requests took turns (both ghosts).

### Inventory

Lots with their three numbers (`lot`), which of them have a row (`stock`, `removed`), the
`status` of each order as far as these handlers look at it, `exports`, and `lines`, the
pieces that export lines name: a line's quantity is how many pieces of a lot it names. A
request in flight (`job`) holds copies of the lots it will save (`copy`, `touch`), those
it will delete (`gone`), and the columns its re-read found different (`dirty`).
`StartExport` and `CommitExport` are createExportOrder and createManyExport; `UpdateImport`,
`UpdateRemainingQuantity` and `UpdateQuantitySold` run through `Diff` and `Save`;
`RemoveImport`, `RemoveExport`, `UpdateExport` and `CreateOrder` are one step each. The
ghosts: a lot is `balanced` until something named in the property's comment puts it out of
balance, an export is `revised` by UpdateExport, `left` are lots whose goods went out with
an order that ended, and a copy is `sound` while its lot is as it was read.

### The shop front

*Parties* declares the customers, variants, request slots (`Clerks`) and the bounds. In each
module a table is the sequence of rows that were ever inserted and the set of the numbers of
those still there, so that a row keeps its identity when it is removed; each slot of
the module's job variable is a request in flight, with what it has read. *Shop* composes the
modules: the server runs any of them, one step at a time.

| module | models | what its ghosts say |
|---|---|---|
| Vouchers | VourchersService, the socket's selectedVoucher, the spending in createOrderPayment; a claim in four steps | the most claims at any time that `count_user_get` did not count; payments per row |
| Cart | CartService, createOrderFromCartItem; loads, then saves, inserts or removes one item | what requests in turn would leave; overlaps; orders per item |
| Addresses | ReceiveAddressService; setDefaultReceiveAddress clears and sets in two steps | addresses given away; customers whose requests overlapped |
| Accounts | AuthService, UserService, CustomersService: open, issue, spend, reset, save, remove | the code mailed last, how often a code was spent, codes put back or spent by an account that has moved to another address, addresses out of turn |
| Catalogue | ProductsService, SkusService, removals of a category or brand; cascades to variants and order details | what orders asked for; orders torn; codes repeated in one request |
| Reviews | ReviewService with files one by one | files named twice; removals that stopped half way |
| Roles | RoleService, PermissionService, statement by statement | the permissions asked for in turn; roles out of turn |
| Categories | CategoryService on the tree | categories put below themselves or moved at the same time |
| Logos | PaymentMethodService, DeliveryMethodService, BrandService; removals of files that nobody awaits (`doomed`), and the crash (`LRestart`) when one fails | rows out of turn |
| Blogs | BlogService, BlogCategoriesService; categories saved with lists | where a blog was last put; files lost |
| Statistics | the revenue queries of OrderService as operators over any `book` of orders | none: read only |

## 3. What is checked

| run | instance | properties | what it shows |
|---|---|---|---|
| order_lifecycle | 1 COD order, 2 requests, 8 endpoints; 1.0M states | `StatusTrail`, `WarehouseTrail`, `CodSettled` | overlapping requests never skip a stage, never credit undelivered goods; requests in turn leave cash recorded |
| order_with_payments | 1 PayOS order, 1 request and payment handlers, 9 endpoints; 148k | `LifecycleInv` | the inductive invariant, trails included, under payment handlers that write at any moment |
| payos_payment | 1 order, 1 code, 2 payment requests, 1 confirmation, any unsent notification; 386k | `GatewayAgreement`, `ImplementsLifecycle`, `SettlesMoney` | transactions say what the gateway or a notification said, the handlers refine `PaymentHandlerSave` and `Settlement` |
| payos_delivery | 1 order, 1 code, 1 payment and 1 staff request, 6 endpoints, any unsent notification; 3.4M | `PaidIsFunded`, `CalmMoneyShows` | the money when staff switch to cash, cancel or deliver |
| payos_liveness | 2 codes, 2 payment requests, no staff, one unsent notification; 127k | `PayosInv`, `PaidIsRecorded` | the inductive invariant with two links for an order; a notified payment ends up in its transaction |
| zalo_payment | 1 order, 2 payment requests, 2 days; 551k | `ZaloInv`, `FailureIsReal`, `CalmMoneyShows`, `CalmLinkIsKnown` | polling fails only what failed, ran out or was answered with an unknown return_code; requests in turn keep options, link and money together |
| zalo_with_staff | 1 order, 2 requests of any kind, a confirmation, 1 day; 383k | `SettlesMoney`, `ZImplementsLifecycle`, `ZPaidIsRecorded` | ZaloPay refines the same two specifications, and a payment is recorded in the end |
| inventory | 2 lots of 1 import, 2 orders, 2 requests; 395k | `InventoryInv`, `BooksBalance`, `ExportFitsOrder`, `SoldWasSent` | a lot that no stale save has put out of balance never promises more than it holds |
| shop | 2 requests, 38 mixes of endpoints; 704k | `ShopTypeOK` and 17 below | checks made before a write are missed by no more than what overlaps; requests in turn leave what they asked for |
| update_keeps_status | violation | `UpdateKeepsStatus` | `PUT /order/:id` reverts a confirmation |
| cancelled_is_final | violation | `CancelledIsFinal` | a cancelled order can be confirmed |
| payos_one_transaction | violation | `OneTransaction` | two links for one order |

*StatusTrail* is the property to argue about: with stale saves all over the place an
order can go backwards at any time, but whatever it shows now, the stages that must
come before were committed at some time. *CodSettled* and *CalmMoneyShows* are what
holds of the money if requests take turns; with overlaps both fail (a stale save
reverts `payment_status`), which is why they have `clean` and `calm` in front.
*PaidIsFunded* needs no such condition: no stale copy makes up a payment, though one may
lose it. But it holds only of what the handlers were told. `POST payos/webhook-url` is
public, `handleWebhook` never looks at the `signature` of the body and does not ask PayOS
(payos.service.ts:431-490), so a notification that PayOS did not send marks an order of a
known code as PAID or FAILED (`StrayHook`, with the ghost `strays`). `GatewayAgreement`,
`PaidIsFunded` and `SettlesMoney` therefore count such a notification as a source beside the
link (`Told`): without `strays`, that is if every notification came from PayOS, they say
that PAID means money; with it, that what is recorded was at least said. In the same way
*FailureIsReal* counts an order as refused when a status check was answered with a
`return_code` other than 1, 2 and 3 (`CheckUnknown`, with the ghost `puzzled`): the default
branch of `checkOrderStatus` (zalo-payment.service.ts:528-532) then fails and cancels an
order whose payment may be alive, or made. *PaidIsRecorded* excepts a transaction that lost its order to a second
`createOrderPayment`: its webhook throws a TypeError at every retry. *ZPaidIsRecorded*
excepts a payment whose order points at another day's by now: the callback does not find
it. (The run has one day, so that the exception does not arise in it.) *BooksBalance* bounds from above what the stale absolute writes can do: it names every
way in which a lot gets out of balance, and any other would be found.

The properties of the shop run:

| module | property | says |
|---|---|---|
| Vouchers | `ClaimsNearLimit`, `SpentOnce` | claims pass the limit by the overlap and the uncounted ones; a row pays once per overlapping payment |
| Cart | `CartAsAsked`, `OrderedOnce` | the cart of a customer whose requests take turns; an item becomes part of one order |
| Addresses | `AtMostThree`, `OneDefault` | three and what overlaps; one default while requests take turns |
| Accounts | `OneAccountEach`, `MailedCodeWorks`, `CodeSpentOnce` | addresses are unique without overlap; the mailed code is the stored one; a code works once |
| Catalogue | `SkuCodesUnique`, `OrdersKeepDetails` | codes repeat only by overlap; a variant that was ordered is not removed |
| Reviews | `PicturesHaveFiles` | no row without its file, but for interrupted removals |
| Roles | `RolesAsAsked` | a role has the permissions that requests in turn gave it |
| Categories | `RootsReachable` | every category is reached from a root, unless a request tied the knot |
| Logos | `LogosHaveFiles` | no row without its file, but for the ways named |
| Blogs | `BlogsAsAsked` | a blog is in its category, with its pictures |
| Statistics | `RevenueAddsUp` | months, days and the year against a reference sum; what is counted twice or left out |

Many of them except the rows a ghost has marked (`stirred`, `mixed`, `upset`, ...). A ghost
marks a row for a reason the property's comment names: its requests overlapped, one stopped
half way, or a request asked for the thing itself (a role with an empty list of permissions is
granted all). What the property adds is that there is no other way. That means that the
fault the ghost stands for is modelled, and happens in the run, but is not reported as a
violation: `hazards` in PROJECT.json says of each property what it excepts.

### Bounds

No handler of the order and payment models touches two orders, so one order shows every
interleaving; the proofs cover any number. Two requests are the least that overlap,
and with two the second still sees every row the first can leave. Two codes are
needed for two links on one order, two days for two ZaloPay payments of one order, and
`MaxRow` = 2 to tell apart a new `zp_trans_id` row from one still in use. `MaxInFlight`
bounds the requests of all kinds at once in ZaloPayment. `CreditBound` bounds
`credited`: a delivered order can be credited without end, and once is enough for the
properties. `MaxDay` bounds `today`. An order is
created once per id (`seen[o] = {}`). `PaymentWrites` is what
the payment handlers may write: nothing where only staff are studied, everything where
the payment modules supply the real handlers.

In Inventory, `MaxQty` = 2 pieces in a lot and one piece per order are the least with which a
lot can serve two orders; `SoldBound` stops `quantity_sold`, which can be counted up or down
without end. In the shop, each table gets at most the rows that a mix names
(`MaxRows`, `MaxReviews`, `MaxRoles`, `MaxBlogs`): five addresses for the limit of three, and
two or three rows elsewhere, so that a duplicate shows. `MaxCartQty` caps a quantity
in both directions: `addToCart` takes 0 and negative ones.
Statistics has a year of two months (`Calendar`) of two days and one, two sales
(`MaxSales`), each of up to two lines (`MaxLines`) and one of two `Totals`.

`Mixes` lists the endpoints that a behaviour uses together, and is the bound to argue about.
Endpoints that share no row cannot disturb each other, so all of a module's are not needed at
once; a mix has a writer of each column that its properties read, and the endpoints that read
it before they write.

Symmetry is used over requests, codes and slots, in Inventory over lots and orders (`Mixes1`
has every lot and order), in the shop over slots and over the exchange of all the pairs at
once (`Exchange`); never with a liveness property. Deadlock is not checked: with no request
in flight and no endpoint enabled the system is idle.

### Fairness

`PFairness`: a payment request that runs is answered or dies (weak fairness of its
next step or its abort); the gateway repeats an unacknowledged notification, and of
those attempts the database does not fail every one (strong fairness of handling,
comparing and committing). The code contains no retry of its own, and relies on the
gateway for it: an exception in `handleWebhook` becomes an error response. A
notification that the gateway gives up on is outside the property. `ZFairness` is the
same for ZaloPay, where every answer is return_code 0 and so every callback is repeated.
Nothing is assumed of the cron jobs, which skip links that have expired.

## 4. What is proved

For any sets of orders, lots, requests, codes and slots, and for any `Mixes`, the proof
modules show every invariant that the passing runs check, and every refinement. Only liveness
stays with TLC.

### Orders, payments and the warehouse

* `LifecycleInvariant`: `Spec => []LifecycleInv`. Type and trail alone are not
  inductive: a request in flight may write a status from long ago. `JobInv` says that
  the precursors of any status a request holds are in `seen`, that a column it will not
  write holds a value from the past, and, on a clean order, that the request still sees
  the row it read. `Typing`, `StatusesHaveATrail`, `WarehouseHasATrail` and
  `CodIsSettled` follow.
* `PayosInvariant`: `PSpec => [](PayosInv /\ LifecycleInv)`. `PJobInv` says that a
  payment request holds PENDING, its link's outcome or one that a notification claimed, and
  an order status from the past, PENDING or CANCELLED. `GatewayAgrees` and `PayosStatusesHaveATrail` follow.
* `PayosPaidIsFunded` and `PayosSettlesMoney`: an order shows PAID only when funded, and
  the whole model implements Settlement. A copy in flight may hold PAID too, so the
  invariant (`PayosMoneyInv`) extends the claim to what payment requests hold, and
  `StaffHonest` to what staff requests hold: a copy shows PAID only if its order
  was funded, and being funded is for good.
* `PayosImplementsLifecycle`: every step of PayosPayment is a step of OrderLifecycle
  (a commit is a `PaymentHandlerSave`) or leaves its variables alone.
* `ZaloInvariant`, with `ZaloImplementsLifecycle`, `ZaloSettlesMoney` and
  `ZaloFailureIsReal`: the same for ZaloPay. `ZJobInv` also says that a `createOrder`
  that has its answer is the only one that can make the payment known, and `Honest`
  bounds FAILED by the payments refused, and by the orders of which an answer was not
  understood, as well as PAID by the payments made.
* `PayosCalmInvariant`, with `PayosCalmMoneyShows`: the money of an order whose requests
  took turns. That a transaction shows and so does the order is not inductive, for in
  between a request may be about to save an old `payment_status`, to insert a second
  transaction or to detach the first. `CalmPayer` and `CalmStaff` say what turns give:
  the one request that is busy with such an order (`Peace`) has a copy that shows the
  payment if the row does, has the order's transaction in its list if it loads one, and
  detaches nothing; `CalmCode` adds that the order has one transaction, up to date once the
  notification was handled.
* `ZaloCalmInvariant`, with `ZaloCalmMoneyShows` and `ZaloCalmLinkIsKnown`: the same for the
  option rows. `CalmCaller` says that a request's list of options is the order's, less the
  `zp_trans_id` row that the callback's own query does not load, and that an order with a
  payment that can still be paid has no room for another.
* `InventoryInvariant`: `Spec => []InventoryInv`; `BooksAlwaysBalance`, `ExportsFitOrders` and
  `SoldIsSent` follow. The books alone are not inductive, for what a save writes was
  computed before. `JobInv` says of a sound copy that the remainder in it is the lot's, less
  what the request takes, or together with what is out no more than was imported; and of
  any copy that it shows something sold only if goods of an ended order came from the lot. The
  lemma `JobsSurvive` is the frame of all steps: a copy stays as good as it was unless
  its lot changes, and then it is no longer sound. `LinesInv` keeps the lines of different
  exports apart, so that pieces can be counted by sums of disjoint sets.

### The shop front

`Shop_proofs` has the frame: a step of one part leaves the variables of the others alone, and
what is there to know of slots (`ClerksCount`) and tables. `ShopPeople_proofs` and
`ShopRecords_proofs` prove an inductive invariant for each part, of the whole of Shop:

| theorem | follows | what the invariant adds to the property |
|---|---|---|
| `AddressesInvariant` | `AtMostThreeHolds`, `OneDefaultHolds` | creators that have counted take places in advance; an address counts as default if an update that is alone will make it one again |
| `AccountsInvariant` | `OneAccountEachHolds`, `MailedCodeWorksHolds`, `CodeSpentOnceHolds` | what a request that is alone has found is still so (`KTurn`); requests that will spend a code count as spends; a new code is nowhere else |
| `CartInvariant` | `OrderedOnceHolds` | an order under way counts as an order of its items |
| `AskedInvariant` | `CartAsAskedHolds` | at most one item of a variant; what a request has read is still so, and its sum is on top of that |
| `VouchersInvariant` | `ClaimsNearLimitHolds`, `SpentOnceHolds` | claims that were read as allowed count as claims, payments under way as spends |
| `CatalogueInvariant` | `SkuCodesUniqueHolds`, `OrdersKeepDetailsHolds` | requests that looked for a code count as variants with it; a removal saw no order with its variant |
| `ReviewsInvariant` | `PicturesHaveFilesHolds` | a file that was named once is in one place, a picture or a request |
| `RolesInvariant` | `RolesAsAskedHolds` | a role may lack no more than what removals have unlinked, and what a drop that is alone has dropped |
| `CategoriesInvariant` | `RootsReachableHolds` | a move that ties no knot stays above the category until it is saved |
| `LogosInvariant` | `LogosHaveFilesHolds` | no file belongs to two rows, new files of requests included; a row lacks its file only after a request has begun to remove it |
| `BlogsInvariant` | `BlogsAsAskedHolds` | a picture is in one blog, or with the request that creates one |
| `RevenueAddsUpHolds` | `RevenueAddsUp` | (in `ShopTypes_proofs`) nothing but the type of `book`: see below |
| `ShopTypes` | `ShopTypeOK` | (in `ShopTypes_proofs`) each part's invariant gives its types, and requests hold rows that exist |

They follow one of two arguments. *Counting*: a check made before a write is right at most
once per request that has made it and not yet written, so the invariant bounds rows and such
requests together, and a limit is passed by at most one less than there are slots. *Turns*:
what a request read is still true while no other is about the same thing, and the ghost takes
the thing out of the claim as soon as one is.

`RevenueAddsUp` is about sums over any number of orders, and so about what the fold under
`MapThenSumSet` computes. The library's induction theorems take a predicate, which the provers
cannot instantiate, but that every set of numbers has a least one (`WFMin`) is first order:
`LeastNumber` and `LeastSet` make induction the choice of a least counterexample. A sum over
orders 1 .. n is then a function of sets of orders (`IsSum`), which exists (`SumExists`), is the
only solution of the fold's recursion (`SumOfFunction`), and adds up over disjoint sets
(`SumUnion`) and over days (`SumOfSums`).

Two properties turned out to be false when they were to be proved, in interleavings of three
requests that no mix had, and now say what the code does. `changePassword` finds the account by
address and code, and then clears the code in whatever accounts have the address: if
`updateCustomer` has moved the account to another address in between, the code stays and works
once more (such codes are now in `again`). And a claim may be allowed because an update has just
saved an old `count_user_get`, which another update, that had read the newer one, saves again
after that: `uncounted` is therefore the most claims that were missing at any time, not those
that are missing now.

### Assumptions

The assumptions are `LifecycleAssumption` (the constants are subsets of what the code
has), `PayosAssumption` (PayOS is in use; `Unsent`, the notifications that
may come though PayOS does not send them, is any set of codes and claims; `remove` is not, because a deleted order
takes its transactions with it and the model does not delete them) and `ZaloAssumption`
(nor are `updateNormalOrderStatus` and its failed branch, which load the option rows).
`InventoryAssumption` asks for finitely many lots and orders, and that mixes are mixes.

For the shop, `PartiesAssumption` asks for finitely many slots, at least one, and mixes that keep
to `MaxRows`; `CartAssumption` for quantities up to `MaxCartQty` and a `Nobody` who is no
customer; `CatalogueAssumption` for a `NoCode` that is no code; `RolesAssumption` for
finitely many routes; the others say that bounds are numbers.

Only model-checked: `PaidIsRecorded` and `ZPaidIsRecorded`. Liveness under fairness is beyond
the prover.

## 5. What is left out

Everywhere:

* Roles and guards: an action is taken by a caller who passes them. On the server they
  decide on the name of the first role and never look at permissions.
* Columns that decide nothing (notes, times, prices, texts). They may make a save dirty, so
  `Commit` of a status step is allowed where `Resave` is.

Orders and payments:

* `isFailedDelivery` of `updateNormalOrderStatus`: its only caller never passes it. Nor
  does any caller pass `isReturnRequest`.
* Order details: `update` with a non-empty list reads `skus.detail_import`, which it did
  not load, and throws; with an empty list it deletes the details and saves the order.
* Of the other relations that the status step loads (reviews, delivery statuses, and the
  ZaloPay options where PayOS is modelled) none is modelled.
* A loose export that createExportOrder replaces is forgotten.
* `checkZaloPayOrderStatus` of OrderService always throws (it reads options it did not
  load); the cron job swallows that.
* A payment that names no voucher its customer owns fails when it saves `[undefined]`.
* `verifyCallback` never tells ZaloPay of a success, although
  zalo-payment.controller.ts:121 documents return_code 1: the function given to the
  transaction returns, the method goes on. The model takes what the code does.

Inventory:

* Quantities are not negative. The DTOs of order and export lines only ask for an integer
  (create-order_detail.dto.ts:25, create-detail_export.dto.ts:20); what a negative one does to
  a lot is not modelled. (In Cart negative quantities are.)
* One line per order and lot. `UpdateExport` is one step: it reads and writes lines, no row of
  a lot, and two updates of one export that overlap, which can cut lines off from it, are left
  out, as are updates that move a line to another lot.
* Lots that a stale save inserts again; new lots in an update of an import, which are as
  `CreateImport`.
* `syncInventory` selects a column that its table does not have, and swallows the error;
  `create` of an export (the transfer between warehouses) inserts lots without a name,
  which the table requires: neither changes anything.

Shop front:

* Duplicates that a unique constraint refuses, and codes or vouchers out of date, are
  requests that abort.
* A voucher's limit never changes; defaults that the DTO of its update fills in are
  what the client sent. The counter `uses` is never saved.
* Removing an address, a customer or a payment method deletes orders with it (onDelete
  CASCADE); only the cascade from the catalogue to order details is followed.
* Passwords and tokens. `changePasswordAdmin` verifies the code of a user and writes the
  password of a customer; no route leads to it. `updateRole` of a user always throws.
  `refreshAccessToken` asks handleValidation for no token and answers without one.
* review.entity.ts:31 says that only buyers review; createReview does not look.
* `restore` of a category always fails; the update of a delivery method is never saved (its
  file is removed all the same, which Logos does model).
* Profits and best sellers are summed like revenue.
* The upload of a file is part of the initial state: each request has uploaded its own.

Not modelled at all: chat (saveMessage always throws; getOrCreateConversation finds and then
creates), mail, provinces, branches and contacts, for the reasons PROJECT.json gives.

## 6. What could come next

1. *Inventory*: overlapping updates of one export, with lines that lose their export.
2. *Accounts*: longer mixes, with an update of the address between mail and answer.
3. *Orders*: the details, once `update` reads what it loads.
