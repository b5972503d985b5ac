# A verification project for ark-shop-back

ark-shop-back is the back end of a shop that sells digital goods: product keys
and accounts. A customer fills a cart, orders, pays (PIX or another method,
through the provider Asaas), and receives the keys as soon as the payment is
approved. It is a NestJS application on PostgreSQL, accessed through Prisma.

This directory holds TLA+ modules that model it, TLC configurations that check
them on small instances, and proofs, checked by TLAPS, that hold for any number
of requests, orders, items, units, users and tokens. The sale itself - where money
meets goods - is modelled as one system with payments, provider and deliveries; the
components around it have a module each.
Paths below are relative to the repository's root.

## 1. The system

| component | state | operations that change it | talks to |
|---|---|---|---|
| orders (`src/modules/orders`) | `Order.status`, `OrderItem.keyId/accountId` | create, updateStatus, cancel, deliverOrder | keys, accounts, products (stock), coupons |
| payments (`src/modules/payments`) | `Payment`, one per order; charges at Asaas | createPayment, refundPayment, webhook events | orders (delivers, cancels), provider |
| keys, accounts (`src/modules/keys`, `accounts`) | `Key`, `Account`: status, orderItemId | create, createBatch, update, delete | products (stock) |
| products (`src/modules/products`) | `Product.stock`, `isActive` | create, update, activate, CSV import | keys, accounts |
| coupons (`src/modules/coupons`) | `Coupon.usedCount` and limits | validate, count a use | orders |
| cart (`src/modules/cart`) | `CartItem` | addItem, updateItem, removeItem, clear | products |
| wallet (`src/modules/wallet`) | balance, cashback, transactions | credit, debit, cashback, page through the history | nobody yet: no controller uses it |
| auth (`src/auth`) | refresh tokens, reset secrets, pending registrations, requests to change the address | register, verify, login, refresh, logout, reset, change of e-mail | user, email |
| antifraud (`src/modules/antifraud`) | `FraudLog` | analyse an order (a score) | called by orders before an order is created |
| categories (`src/modules/categories`) | the category tree | create, update (any new parent), delete | products, admin (demo data) |
| sellers (`src/modules/sellers`) | `Seller`, sub-accounts at Asaas | create (row, then sub-account), update, delete | payments (split of a charge, notice of a sale), provider |
| user (`src/user`) | `User.role`, profile, `UserDeletionLog` | update profile, change role, delete, delete oneself | auth, orders and payments (restrict deletion) |
| admin (`src/modules/admin`) | none of its own | the others' operations, demo data, listings, statistics | all |
| notifications, email, upload, contact, health, metrics | records and output | | |
| Prisma service, configuration, guards, logger | the connection | connect with retries | |

**What makes it hard.** Every request is a chain of `await`s on one Node process,
and the process may run several times; between two awaits anything else may
happen. Some handlers use a transaction (`deliverOrderAtomic`, `approvePayment`),
some do not (`updateStatus`, `createPayment`, `refundPayment`). Transactions run
at READ COMMITTED and wait for each other's row locks. The provider delivers
events late, repeatedly, and for charges the shop has replaced. The process may
stop anywhere.

**What makes each component correct.**

- Units: a key is data that can be copied, so what one customer got must not be
  sold to another; what a row says (`orderItemId`) and what the item says
  (`keyId`) must agree; `stock` must not promise what is not there.
- Orders: a delivered order has all its goods; a decided order stays decided.
- Payments: goods only against money; money is followed by goods, or by
  something an operator can see; an event that is repeated changes nothing.
- Inventory: an import accounts for every line; `stock` follows the rows, or a later
  recount repairs it; a sold row is not deleted by a request that runs alone.
- Checkout: a coupon is used at most as often as allowed, and a use is counted if
  and only if there is an order; a total is not negative.
- Cart: no item exceeds the maximum or what the product had; no lone addition is
  lost. Wallet: the balances are the sums of the recorded transactions; a debit is
  covered, or the overdraft is bounded by the debits that overlapped.
- Auth: one refresh token per login; what a reset revoked stays revoked; a secret
  or code counts once; an address belongs to one account, which answered from it.
- Staff: the last SUPERADMIN stays. Catalogue: what is put on sale has a unit to
  sell. Import: what the sheet says is what is listed. Categories: a deletion leaves
  no orphans. Listings: no row that stands still is hidden by those that come. Sellers:
  the share that is announced is the share that is paid.

Most of the last group hold only up to a race that the code leaves open. Their
properties name that race: "X, unless something happened between these two
statements". They fail when the code loses a check, and they tell a reader how far
the code's own protection goes.

`PROJECT.json` lists the places where each of these could go wrong (`hazards`).

## 2. The modules

```
ShopDomain          enumerations, the table of status transitions
UnitSale            abstract: which unit each order item got
PaidSale            EXTENDS UnitSale; abstract: goods against money
Fulfilment          deliverOrder and updateStatus, statement by statement
FulfilmentProofs      theorems about Fulfilment
MCFulfilment          the instance TLC checks
Payments            EXTENDS Fulfilment: payments, provider, webhook, refunds
PaymentsProofs        theorems about Payments
MCPayments            the instance TLC checks
Inventory           import, update, delete, recount of units     (InventoryProofs)
Checkout            POST /orders with coupons and antifraud      (CustomerProofs)
Cart                one customer's cart                          (CustomerProofs)
Wallet              one customer's wallet and its history        (CustomerProofs)
Sessions            login, refresh, logout, password resets      (UserProofs)
Registration        registration, verification, e-mail changes   (UserProofs)
Staff               roles and the deletion of users              (UserProofs)
CsvImport           importing a file of products in batches
CsvParser           the parser behind it, a pure function        (CsvParserProofs)
Categories          the categories and their deletion
Marketplace         sellers, the split of a charge and the notice of a sale
                      the rest of these four: CatalogProofs
MCShop                one instance of each of the last eleven    (ShopProofs)
Catalog             one product and its stock                    (CatalogProofs)
Listings            the paged listings                           (CatalogProofs)
MCCatalog             one instance of these two
```

The eleven, Catalog and Listings share no variable. Where one of them needs what another does - a
delivery beside a deletion of keys, a sale that makes a user a buyer - it has that
effect as one action of its own, named for it. Eleven are composed in MCShop, only to
be checked together; the other two, which have the most states, in MCCatalog.

### Fulfilment

The tables are functions: `status` (`Order.status`), `link` (`OrderItem.keyId` or
`accountId`), `unit` and `owner` (status and orderItemId of a key or account),
`stock` and `active` (`Product`). A request in progress is a *worker*; `job[w]` is
everything its handler remembers between two statements: where it is, the
arguments, the items as they were read (`seen`), and the uncommitted writes of its
transaction (`taken`, `sync`).

| action | code |
|---|---|
| StartDeliver, FindOrder, FindItems | `orders.service deliverOrder`: `findById` reads the order, then its items; PAID or an exception |
| BeginDelivery | `deliverOrderAtomic` reads the status again, inside the transaction |
| FindUnit / NoUnitAvailable | `findFirst` of an AVAILABLE unit |
| TakeUnit | `updateMany ... status AVAILABLE`, `count === 0` throws; `orderItem.update` |
| BeginSync, CountStock, CommitDelivery | `syncProductStock` for the products touched, `order.update`, commit |
| StartUpdate, ReadOrder, ReadItems | `updateStatus`: read, compare with `validTransitions` |
| ReleaseKeys, ReleaseAccounts | the two `updateMany` of a cancellation or refund |
| CountStock, StoreStock | `syncProductStock` outside a transaction: count, then write |
| WriteStatus | the final, unconditional `order.update` |
| PaymentApproved, PaymentRejected | what the payments side writes to an order, at any time |
| StatementFails, Crash, Return | any statement throws; the process stops; the request is answered |

How the database is modelled: a statement sees what is committed and what its
own transaction wrote. A row that an open transaction has updated is locked
(`LockedByOther`, `ItemLockedByOther`); `TakeUnit` and the releases wait for the
lock and then look at the committed row, as PostgreSQL re-evaluates an UPDATE's
condition. The unique indexes on `orderItemId`, `keyId` and `accountId` are the
conjuncts of `StillFree`. A transaction that waits for ever is ended by the
deadlock detector or Prisma's timeout (`StatementFails`).

Abstractions: keys and accounts are both *units* (the code treats them alike;
`ProductType` orders the two releases); an order item is one unit, which is what
`deliverOrderAtomic` insists on and throws otherwise; prices, encryption and
listings are absent; an order's items are served in any order, because `findById`
asks for none. Prisma reads included rows with a SELECT of their own, so the
status and the items of an order are read in two steps. Reading `isActive`
and counting are one step of `syncProductStock`: nothing modelled here changes
`isActive` except another recount, which can only agree or be stale either way.

### UnitSale

The promise behind it, in one variable: `sold[i]` is the unit item `i` got. The
only step serves a whole order with units of the right products that no other
item ever got; nothing is ever taken back. `SaleRefinement` says that Fulfilment
implements it with `sold` read as `link`.

### Payments

Adds the payment of each order (`payStatus`, `payCharge`, `payExpired`), the
charges at the provider (`charge`, `chargeOrder`) and what a payment request is
doing (`call[w]`). A payment request that delivers or demotes an order does it
through the actions of Fulfilment with the same worker: `call[w]` waits at
"delivering" or "demoting" while `job[w]` runs.

| action | code |
|---|---|
| StartPay, LookupPayment, CreateIntent, IntentFails, CreatePayment, ReplacePix | `createPayment`: lookup, await the provider, insert or overwrite |
| ReceiveEvent, LookupEvent | the webhook: find the payment by the charge, early returns |
| ReadForApproval, CommitApproval | the transaction `approvePayment` |
| AlreadyDelivered, DeliverPaidOrder, DeliveryReturns, DemoteOrder, DemotionReturns | `deliverOrderByPayment`: deliver, on any error set PROCESSING |
| MarkRefunded, RejectPayment | PAYMENT_REFUNDED, PAYMENT_CANCELLED |
| StartRefund, CheckRefund, RefundAtProvider, StoreRefund | `refundPayment` (admin) |
| PixExpires, CustomerPays, ChargeCancelled, ProviderRefunds | the clock, the customer and Asaas (external) |
| OrderRequest, OrderStep, ... | requests on orders without payment logic |

The webhook answers HTTP 200 on every path, so an exception is simply the end of
the event (`Answer`). PAYMENT_REFUND_REQUESTED is handled as PAYMENT_REFUNDED and
is not told apart from it. Amounts, ownership and signature checks only reject
requests and are left out; so is the authorisation of
withdrawals. The customer record at the provider and the notice to sellers are in
Marketplace.

### PaidSale

The promise behind Payments, without events, requests and transactions. To `sold`
it adds the orders for which money came in (`paid`), went back (`returned`) or of which a
charge was cancelled (`cancelled`), and what the shop says of each payment (`said`). An
order is served only when it is paid, and APPROVED, REFUNDED and REJECTED are said only
of what happened. Saying PENDING is always allowed, since a renewed PIX does that to a
decided payment (a finding); which of several true things is said last is not promised
either. `PaidSaleRefinement` reads `said` as `payStatus`, and
the three sets off the charges at the provider: an order is in `returned` if one of
its charges is refunded, and so on.

### Conventions of the other modules

A request in progress is an element of a set named after who sends it (clerks, buyers,
tabs, tellers, devices, visitors, officers, editors, files, curators, intents). Its
record holds `pc`, the statement it is at, its arguments, what it has read, and the
uncommitted writes of its transaction. Every `await` that reads or writes the database
is an action, but for those that are merged according to "What each abstracts". An
exception, a rollback or a stop of the process is one action (`...Fails`, in Marketplace
RefuseIntent up to the charge and CutNoticeOff after its approval), allowed at every
statement of a request of which something is then left undone. In CsvImport and in
`createSeller` it is the line and the sub-account that fail; in Listings, where
nothing is written, no page fails. Fields such as `alone`,
`stale`, `fresh`, `raced`, `era` are history: they say whether something else happened
since the request read what it acts on, and only properties look at them. "Answered"
and "ended" mark the moment of the answer.

| module | state | actions and the code they stand for |
|---|---|---|
| Inventory | `row` (`Key`, `Account`), `goodStock`, `clerk` | StartImport, EnsureAccountProduct, CreateMany, CreateManyFails, InsertOne, InsertedAll: `importKeys` / `importAccounts`, with the row-by-row fallback; StartUpdateRow, StartDeleteRow, ReadRow, WriteRow: `update`, `delete`; CountRows, WriteCount: `syncProductStock`; DeliverRow: a sale beside it |
| Checkout | `ware` (price, stock, isActive), `onSale`, `coupon`, `sales`, `buyer` | StartOrder, Quote, ValidateCoupon, AnalyseRisk: `orders.service create`; LoadProducts, CheckStock, InsertOrder, CountWare, WriteWare, CountUse, CommitOrder: the transaction; EditCoupon, DeleteCoupon, CouponClock, EditWare, UnitsChange: the rest of the shop |
| Cart | `offer`, `hasCart`, `quantity`, `tab` | EnsureCart ... WriteItem: `addItem`, `updateItem`; FindItemToRemove, DeleteItem, ClearCart: `removeItem`, `clearCart`; OfferChanges: stock and state of a product change |
| Wallet | `wallet`, `ledger`, `teller`, `walk` | ReadWallet, UpdateWallet, CommitOperation: `addBalance`, `deductBalance`, `addCashback`; StartWalk, NextPage, EndWalk: the cursor of `getTransactions` |
| Sessions | `session` (`RefreshToken`), `secret` (`PasswordResetToken`), `device` | Login, StoreToken; PresentToken (the strategy), FindToken, ExchangeToken: `refreshTokens`; DeleteToken: logout; NewLink, ForgotWithCode, CreateCode; PresentSecret, WriteReset, RevokeAll: both resets |
| Registration | `account`, `pending`, `change`, `visitor` | Register, FindPending, InsertPending; VerifyEmail, CreateAccount; ResendVerification, RenewCode; RequestChange, DeleteChanges, InsertChange; ConfirmChange, FindInUse, FindChange, SpendChange; UpdateProfile, WriteProfile |
| Staff | `role`, `buyers`, `deletionLog`, `officer` | StartUserUpdate, StartUserDelete, ReadTarget, WriteRole, DeleteUser: `adminUpdateUser`, `deleteUser`; StartSelfDelete, ReadSelf, LogDeletion: `selfDelete`; Permitted: RolesGuard |
| Catalog | `good`, `shelf`, `refs`, `editor`, `counter` | StartCreate, CheckKeys, CheckAccounts, InsertProduct; StartUpdate, CountUnits, WriteProduct; StartProductDelete, CountOrderItems, DeleteProduct; StartClearDemo, ClearDemoKeys, ClearDemoCarts, CreateDemo: admin's demo data; ShelfChanges: imports, deliveries, cancellations, deletions; StartRecount, CountAvailable, StoreCount, RecountFails: the three `syncProductStock`, apart from the change they follow |
| CsvImport | `listed`, `sellable`, `heading`, `file` | StartImportFile, LookUp, CountInventory, InsertLine, LineFails, EndImportFile: `importFromCsv`; CreateByHand, DeleteListed, ShopChanges |
| CsvParser | `layout`, `sheet` | no actions of the code: AddColumn enumerates sheets, and `Parsed` is the parser: ParseLine, ExtractPlatforms, ReadProduct, ParsePrice, Sanitize, ExtractRegion, CleanName |
| Categories | `parent`, `demo`, `filed`, `curator` | CreateCategory, UpdateCategory; StartDeletion, CountProducts, CountChildren, DeleteCategory: `delete`; ClearDemoCategories |
| Listings | `place`, `reader` | ReadRows, ReadTotal: the two statements of a page, in one transaction or side by side; TurnPage: the caller; RowComes, RowLeaves, RowMoves: the rest of the shop |
| Marketplace | `seller`, `enrolled`, `opening`, `customer`, `intent` | CreateSeller, OpenSubAccount, SubAccountFails, UpdateSeller, DeleteSeller; ReadSeller, ReadCustomer, CreateCustomer, SaveCustomer, CreateCharge, RefuseIntent: `createAsaasIntent`; ApproveCharge, ReadSellers, TellSeller, CutNoticeOff: the approval and the notice after it |

What each abstracts:

- **Inventory**: keys and accounts are rows with a table, since the two repositories are
  written alike and differ in four places that are kept (transaction, type check,
  count of failures, fallback). Contents and encryption are absent; a line is valid
  or not.
- **Checkout**: one coupon. Prices and discounts are small integers; percentage
  discounts of the instance divide evenly, so rounding is not modelled. The reputation
  and device checks of antifraud are placeholders in the code and so in the model. Their
  scores being zero, the others add up to 45 of the 70 that a rejection needs: no order
  is ever rejected. That is the state of the code and not a promise of it, so no
  property says so.
- **Wallet**: an operation is told apart by its kind and amount. The cursor is the
  repository's; the service's `getTransactions` passes none, so today a caller sees
  the first page whatever `page` it asks for. Two transactions created in the same millisecond, whose order
  `createdAt` leaves open, are not modelled.
- **Sessions**: one user. A wrong password or secret ends the request and changes
  nothing. Tokens are identities; that two of them are equal is not modelled.
- **Registration**: addresses are values with a lower-case form. The address an
  administrator writes is looked up and written as in `updateProfile`.
- **Catalog**: one product; the rows of other products are the constant `Elsewhere`.
  The two counts of a kind (any, available) are taken at one instant. Some changes of the
  units share a transaction with their recount and some do not (`createBatch` of the
  accounts, `updateStatus`); the model separates them always: a change counts as made
  when it commits, and a recount that did not see it comes before. The recount of the
  orders reads `isActive` at its start.
- **CsvParser**: a cell is a sequence of tokens: words, groups of digits, and the
  characters the parser looks at, by their names. The sub-header's "Carimbo de
  data/hora" is one token. There is one row of data, since the parser treats each row
  alike and by itself. Names with angle brackets (sanitizeInput removes tags), with
  parentheses of their own, or equal to the sub-header's token are excluded by
  `CsvParserAssumption`: the parser alters or skips them on purpose. That sanitizeInput
  cuts a name after 500 characters is left out. The exporting
  spreadsheet and `parseFloat` are external.
- **Categories**: slugs are left out. `UpdateCategory` takes any parent, the category
  itself included, as the code does.
- **Listings**: of a row only its place in the order is kept, which it may share with
  others: rows that tie are shown in any order, and not in the same one twice. What a
  listing selects and sorts by is reduced to what may happen to its rows: they come, at
  any place; leave, where they are deleted or filtered by something that changes; move,
  where the stock sorts. Each of the fifteen listings is a record of this, of the uses of
  the limit it caps and of how its two statements are run. Cursors are in Wallet.
- **Marketplace**: Asaas is external; a call may have acted when it fails. The delivery
  between the approval and the notice is left out: no error of it gets out. Every user
  has an address.

## 3. What TLC checks

Each run is one question. `OrderOf`, `ItemProduct` etc. get their values in
MCFulfilment and MCPayments.

| run | instance | shows |
|---|---|---|
| fulfilment_concurrent | 2 workers, 2 orders (2 items and 1), 3 units, 2 products, target REFUNDED | TypeOK, UnitCustody, RowLocks, DeliveredIsServed |
| fulfilment_sequential | the same with 1 worker and every target | StockCovered, SaleRefinement |
| fulfilment_sales | 2 workers, target PROCESSING, 1 unit per product | JobsFinish under FairSpec |
| payments_safety | 2 workers, 1 order, 1 unit, 2 charges, all requests, events and faults | PayTypeOK, GoodsOnlyAgainstMoney, ApprovalNamesPaidCharge, PaidSaleRefinement |
| payments_liveness | 2 workers, 2 orders, 1 unit, no faults | PaidIsServed |
| shop | MCShop: eleven components, two requests at a time | the 24 properties below |
| catalog | 1 editor, 1 recount, up to 1 AVAILABLE unit of each kind; 3 rows, 3 places, one row that leaves or moves, limits 1 to 3 against a maximum of 2 | FocusTypeOK (the types of both modules), StockIsCounted, ActivatedWithUnits; MissesAreBounded |
| fulfilment_partial | 1 worker | DeliveredKeepsUnits fails (finding) |
| payments_crash | 1 worker, crashes, persistent provider | PaidIsServed fails (finding) |
| payments_redelivery | refund, then the event once more | RefundIsFinal fails (finding) |
| payments_newpix | 2 workers, PIX renewed while it is paid | DecidedStaysDecided fails (finding) |
| payments_release | a cancellation overlapping with a delivery | AvailableIsSellable fails (finding) |

What `shop` shows, component by component (641,641 distinct states):

| component | property | what holds |
|---|---|---|
| all | ShopTypeOK | the type invariant of every module |
| Inventory | RecountHeals | a recount that nothing overlapped leaves the stock right, however wrong it was |
| | ImportAddsUp | imported plus failed is the number of lines, and what is reported was inserted |
| | LoneDeletionSparesSold | a sold row is deleted only if a delivery or another request came in between |
| Checkout | CouponWithinLimits | never more uses than some limit the coupon has had |
| | UsesAreOrders | one use per order, although the use is counted mid-transaction |
| | NegativeOnlyIfRepriced | a negative total needs a price lowered since the coupon was validated |
| Cart | QuantityWasAllowed, LoneAddAdds | overlapping requests lose additions but never exceed a limit |
| Wallet | LedgerExplainsWallet | balance and cashback are the sums of their transactions |
| | OverdraftIsBounded | overlapping debits overdraw by at most all but one of them |
| | WalkIsComplete | following the cursor shows every transaction once, in order |
| Sessions | OneTokenPerLogin, ResetEndsSessions, SecretUsedOnce | see section 4 |
| Registration | RegisteredOnce, SpentWithAddress, ChangedAddressAnswered | see section 4 |
| Staff | DemotionLeavesSuperadmin, SuperadminOutOfReach | see section 4 |
| CsvImport | RepeatsOnlyRaced | a title is listed twice only if it appeared between look-up and insert |
| CsvParser | RowsSurviveImport | export and parse give back platforms, names, regions and prices |
| Categories | OrphansOnlyRaced | an unforced deletion orphans only products filed after their count and categories moved after theirs |
| Marketplace | NoticeMatchesSplit | while no seller changes, the seller of the split is told of that share, but for a commission of zero; once all mails are out it was told or its mail was lost |

`catalog` (4,315,622 distinct states, depth 32) shows that the stock is the number of AVAILABLE
units, but for four named drifts: an edit or a recount that the units changed under, a
change that is not recounted, or not yet, a recount of the other kind. And what is put on
sale had a unit of its own during the request. Of the listings it shows
how much a reader who turns all pages can miss of the rows that stood still: one for
each row that left or moved meanwhile and one for each that came between the last count
and the rows beside it. However many rows come, or tie elsewhere, they hide nothing.
Rows that tie themselves may be missed, and of a listing that caps one use of a limit and
not another nothing is said once the limit is above the maximum.

`OverdraftIsBounded` is the weaker of two statements: a comment in `wallet.service.ts`
says that one transaction for the check and the decrement prevents races between
them. At READ COMMITTED it does not: two debits that read the balance before either has
written are both found covered. The property says what is left of it.

**How `shop` is composed.** A behaviour has a `focus`, chosen at the start: the component
it is about. The others are parked in one of their initial states. Since no action
reads another component's variables, this loses nothing, and the states of eleven
components add up where interleaving would multiply them. `ShopView` makes TLC tell
states apart by the focused component only. The two values a1 and a2 are the actors,
and r1 and r2 the rows, of several components; a behaviour never shows them in two
roles, so permuting each pair is a symmetry of all.
`ShopInit` restricts the starting states where a module allows many (a price not above
the first one, one discount per limit, an account that exists at the start), which
leaves out no kind of case. There is no fairness: the run has no liveness property.
CHECK_DEADLOCK is FALSE because the histories are bounded, so a behaviour may end; in
`catalog`, composed in the same way, it is FALSE for the same reason.

**Bounds of `shop`.** Two requests at a time, since every race here is between two
(one file in CsvImport, whose lines race with each other: three lines in batches of two, so that a
batch ends and another begins). Two rows or tokens: one that exists and one that is
created meanwhile. Two orders and one change by administrators (`MaxOrders`,
`MaxEdits`) make a limit of one run out and let it be changed between validation and
use. Three wallet transactions with pages of two: more than one page, and a last page
that is not full. In CsvParser three headings, one of them unknown to the
parser, two platforms, four titles with commas and quotation marks, and prices in the
three formats.

**Bounds of `catalog`.** One editor, one recount and the changes of the
units, which anybody makes at any time, are three parties; a second editor adds only
an order of writes that the changes already show. One AVAILABLE unit of a kind tells
none from some, and a stock of one can be too high as well as too low. Three listed rows
at three places give pages of one row, a last page that is not full, ties of
two and of three rows, and rows that pass the reader in both directions; limits of one to
three against a maximum of two are on every side of it. One row may leave or move, while
any number may come.

**Bounds of the other runs.** Two workers are what every race here needs: each hazard is between two
requests, and the proofs cover the rest for the invariants. Two orders compete for
two units of product p1 (in fulfilment_sales for one, so that one of them must
fail), and o1 has a second item, so a delivery can fail after it has taken a unit
and two deliveries can lock rows in opposite orders. Two charges are enough for one replacement
of a PIX. Requests are not counted: a worker starts over for ever, so nothing but
these sets bounds the behaviours, and TLC exhausts them. Workers, units of one
product and charges are interchangeable and declared symmetric in runs that check
invariants only. A charge is created at most `Cardinality(Charges)` times; when
none is left, only IntentFails remains.

**Single worker runs.** StockCovered and SaleRefinement do not hold for two
concurrent requests that release units, and the model says why: two recounts can
store an old count, and a delivery that works on items read before a release
gives an item a second unit (`link` changes from one unit to another). With one
request at a time both hold for every target; without releases SaleRefinement
also holds concurrently, which is a theorem (section 4). The two restrictions are the
hazards `orders.repository.ts:53` and `orders.service.ts:146` of PROJECT.json. The
same holds of PaidSaleRefinement. payments_safety checks it with two
requests and releases, but with a single unit, so that an item cannot get another one:
what it shows is the part about money, for every interleaving.

**Fairness.** `Fairness` and `HandlersRun`: a handler that can take a step takes
one, because Node runs every resolved promise; a transaction that may be waiting
for a lock is eventually ended, by PostgreSQL's `deadlock_timeout` or by Prisma's
limit for interactive transactions. Nothing is assumed about customers, new
requests or the provider. `ProviderPersists`, used only by payments_crash, lets the
provider repeat the event of a paid charge for ever: the order stays PAID even so.

**Money.** GoodsOnlyAgainstMoney is checked with `AdminTargets` = CANCELLED and
REFUNDED. An administrator may also set PAID through `PATCH /orders/:id/status`
and thereby give goods away; that is a decision, not a defect, and is left out.

**Findings.** Five statements of the repository are contradicted by a run; each is in
PROJECT.json with the sentence it contradicts. In short: an interrupted refund
leaves an order that can be DELIVERED with units that are for sale; a crash
between approval and delivery strands a paid order; a repeated event
undoes a refund; renewing a PIX can overwrite an approval; a released unit cannot
be sold again because `OrderItem.keyId` still names it.

Four more can be read off one or two actions of the modules, and have no run:

- `payments.service.ts:264` logs of a failed delivery that the order remains PAID for a manual
  retry. The next statement sets it to PROCESSING, where `deliverOrder` refuses it
  (DemoteOrder in Payments).
- `user.service.ts:193` says that a self-deletion writes an audit entry before removal. The
  entry is a child of the user's row with `onDelete: Cascade` and goes with it
  (LogDeletion, DeleteUser in Staff).
- `payments.service.ts:321` notifies the "active seller about the split payment". The notice
  goes to every active seller with a wallet, and the split names the newest only
  (ReadSellers, SellerOfOrder in Marketplace).
- `wallet.service.ts:82` says that the check and the decrement cannot race; see above.

**Mutants.** Definitions marked "Mutant:" in the modules are plausible bugs (a
dropped `orderItemId: null`, a recount on the wrong connection, a missing demotion).
For every property of a passing run one of them, put in place of the definition
that follows it, makes TLC report the property violated.

## 4. What is proved

`FulfilmentProofs` proves for any sets of workers, orders, items and products and
any finite set of units:

- `TypeCorrect`: the type invariant.
- `Custody`: UnitCustody.
- `Locks`: RowLocks. `NoSharedUnit`: no unit is the unit of two items.
- `Served`: unless "DELIVERED" is one of the targets, DeliveredIsServed.
- `SaleImplemented`: unless DELIVERED, CANCELLED or REFUNDED is one of the targets,
  SaleRefinement, for any number of concurrent requests.
- `SaleImplementedAlone`: if there is only one worker, SaleRefinement, for every target.
- `StockCoveredAlone`: if there is only one worker, StockCovered, for every target.

Assumptions: the catalogue functions have the types of the foreign keys, `None` is
no entity and no pending recount, the targets are statuses, and the set of units is finite (needed for a
count to be a number).

*Custody.* UnitCustody is not inductive: CommitDelivery publishes pairs that were
chosen many steps before. `IInv` adds RowLocks, which says what stays true of a pair
while its transaction is open - the unit is AVAILABLE in the tables, no other
transaction has the unit or an item's second unit, and no committed row names
either in a way the commit would contradict. TakeUnit establishes it from the row
locks, the re-checked status and the unique indexes (all three are needed, and the
proof of `TakeUnitStep` shows where); ReleaseStep keeps it because releases wait
for locks; CommitDeliveryStep cashes it in. FoundUnit carries what findFirst
returned over to the lock, and OneItemPerUnit is the index on the item side.

*Served.* The snapshot may be old, but `link` never returns to None, so an item the
snapshot shows as served is served at the commit; BeginSync guarantees the rest
(`LoopLeavesNone`). The assumption on the targets is needed: PATCH can write
DELIVERED on a PAID order without delivering anything.

*Sale.* `LinksStay` says that the unit an item names is owned by that item; it holds
because, without releases (`NoReleases`), an owner is never reset. It follows with
RowLocks that an open transaction only takes units for items that have none, so a
commit changes no link, and with LoopLeavesNone that it leaves no item of the order
without one. Every other step is a stutter of UnitSale. Both conditions on the targets
exclude what breaks the refinement: releases, and DELIVERED written by PATCH.

*Sale, one at a time.* With releases an item may name a unit that was given back, so
LinksStay fails. What carries the proof instead is `SnapshotsHold`: while the only
request delivers, the items say what its snapshot says, and what it has taken is for
items that name nothing. With a second worker this is false as soon as the other commits
between `findById` and the transaction, which is the hazard `orders.service.ts:146`.

*Stock.* `CountsHold` says what a count that is not written yet knows: it exceeds
nothing the transaction will leave AVAILABLE, and a delivery has counted, or will count,
every product it takes from. With a second worker this is false as soon as the other
commits between the count and the write.

`PaymentsProofs` proves, for any set of charges as well:

- `PaymentsAreFulfilment`: PaySpec implies Spec. Every request, event, provider
  action and failure is a step of Fulfilment or leaves its variables alone, so the
  theorems above hold of the system with payments (`PaymentsKeepCustody` and
  `PaymentsKeepSale` state two of them).
- `PaymentTypes`: the type invariant. `ApprovedWasPaid`: ApprovalNamesPaidCharge.
- `GoodsAgainstMoney`: unless "PAID" is one of `AdminTargets`,
  GoodsOnlyAgainstMoney.
- `PaidSaleImplemented`: unless PAID, DELIVERED, CANCELLED or REFUNDED is one of the
  targets, PaidSaleRefinement, for any number of concurrent requests and events.
- `PaidSaleImplementedAlone`: if there is only one worker, PaidSaleRefinement, for
  every status administrators may ask for but PAID.

Assumptions: `None` is no charge, and the statuses asked for by administrators and
by the demotion are among `Targets`.

*ApprovedWasPaid.* Between the event of a paid charge and the write of APPROVED the
payment may be given another charge, be rejected or refunded. `ApprovalTrail` says
what a request knows all along: the charge it carries was created for its order,
and on the way to an approval it was paid. It rests on two facts about the
provider, proved for every step as `Forward`: a charge keeps its order, and what was
paid stays paid or refunded. CommitApproval writes that charge, so it does not
matter which one the payment named meanwhile.

*GoodsAgainstMoney.* `GoodsTrail` adds that a PAID order is paid for, that no request
is about to write PAID, and that a delivery past its first check has seen PAID.
The delivery's own reads lose their value as soon as they are made - the order may
be cancelled or refunded before the commit - but that money came in stays true.
RowLocks is needed once more: it says that what a transaction took belongs to its
own order, so the commit links units to paid items only.

*PaidSale.* Three kinds of steps are not a stutter. What the provider does is the same
step of the abstract specification, and sets read off the charges only grow (`Forward`).
A write of the payment is a Says: that its cause is there is ApprovalTrail for APPROVED
and `CausesKnown` for the others - a request on its way to write REFUNDED or REJECTED
carries a charge of the payment's order of which that is true, and a refund is sent for
such a charge only. CausesKnown breaks when the shop writes REFUNDED without awaiting the
provider (the mutant `RefundNotAwaited`). A commit is a Serve (`CommitIsSale` in
FulfilmentProofs, under either of the two conditions on releases), and GoodsTrail says
that its order is paid. Everything administrators do besides is a stutter.

`CustomerProofs` proves of Cart, for any number of requests and products:

- `QuantityCorrect`: QuantityWasAllowed. `LoneAddCorrect`: LoneAddAdds.
  `CartTypeCorrect`: the type invariant.

A request writes a sum it computed from a row that may have changed, so the bound on
the row is not inductive. `CartInvariant` adds `CheckedTotals` (a request about to write
carries a quantity that was checked against the maximum and a stock), `PeakIsReached` (the
history never lies below the present stock) and `LoneTabs` (beside a request that
is still alone nothing is under way, and its sum is what is there plus what it asks for).
Assumed: the maximum is a positive number.

It proves of Wallet, for any finite set of requests and of amounts, and any page size:

- `LedgerCorrect`: LedgerExplainsWallet. `OverdraftCorrect`: OverdraftIsBounded.
- `WalkCorrect`: WalkIsComplete. `WalletTypeCorrect`: the type invariant.

`WalletInvariant` adds `LedgerHasRoom`, `DebitsAreCovered` and `WalkDescends`. The
second makes the bound on the overdraft inductive: while k debits are found covered and
not committed, one of them can be paid without the balance falling below `Floor(k)`, the
most that the other tellers may owe. A debit that passes its check can itself be paid
in full; one that commits leaves the others a floor lower by the largest amount.
`WalkDescends` describes a walk by the positions
received so far: they fall by one, without a gap, from the newest, and the cursor is the
last of them. Assumed: amounts are positive numbers, and there are requests and amounts.

It proves of Checkout, for any numbers of requests, products, orders and limits:

- `CouponCorrect`: CouponWithinLimits. `UsesCorrect`: UsesAreOrders.
- `TotalsCorrect`: NegativeOnlyIfRepriced.
- `CheckoutTypeCorrect`: the type invariant.

The first two are part of the inductive invariant `CheckoutInvariant`, which adds what an order in
progress knows: the limit it validated is one the coupon has had (`LimitKnown`), and an
uncommitted use belongs to one order at a time, which names the coupon and still fits
under that limit (`OpenUse`, from the row lock and the condition on `usedCount`).
`Numbered` makes every committed order a new one, so that a commit adds one to both sides
of UsesAreOrders. Assumed: limits are numbers or the value for "no limit", which is no
number; prices, quantities and discounts are numbers.

The last two rest on `PricedInvariant`, which says of every request (`Granted`) that its
discount is at most the subtotal the coupon was validated against, and is nothing
without a coupon. For a total to be negative the subtotal at creation must then be below
the quoted one, and a sum is lower only if some price is (`SumFunctionOnSet` is monotone).
The facts about sums are proved without induction: a finite set of products
for which one fails has a smallest subset for which it fails (`SmallestNumber`,
`SmallestSet`), and taking one product away from it is a contradiction. This needs
that the products of a basket are finite in number.

`UserProofs` proves of Sessions, for any numbers of requests, tokens, logins and secrets:

- `OneTokenCorrect`: a login never has two live refresh tokens, nor one beside an
  exchange that is still to store its successor.
- `ResetCorrect`: sessions opened with a former password are gone once the revocation
  has run, except those stored by a request that was under way.
- `SecretCorrect`: a secret is used again only by a request that had accepted it before.
- `SessionsTypeCorrect`: the type invariant.

`SessionsInvariant` adds `HoldsWhatItNeeds` (a request that is to find, exchange or delete
a token carries one, and a refresh that is to store one knows its login) and
`SecretHistory` (only a used secret has uses, and a request that holds a used one
shared it). Assumed: links and codes
are different rows, and the values for "none" are none of the rows.

It proves of Staff, for any numbers of requests and users:

- `ReachCorrect`: a request of an ADMIN neither changes nor deletes a SUPERADMIN, unless
  the target became one after the request had read it.
- `DemotionCorrect`: a change of role leaves a SUPERADMIN, unless the requester's own
  row has changed since the request was let in.
- `StaffTypeCorrect`: the type invariant.

`StaffInvariant` adds `Informed`: a request that is not stale knows the requester's role
as it is, and one that is about to write does not change the requester's own role
and, from an ADMIN, no role at all. SuperadminOutOfReach is a part of it too.

It proves of Registration, for any numbers of requests, users, addresses and rows:

- `RegisteredOnceCorrect`, `ChangedAddressCorrect`, `SpentCorrect`: RegisteredOnce,
  ChangedAddressAnswered and SpentWithAddress.
- `RegistrationTypeCorrect`: the type invariant.

`RegistrationInvariant` adds `SignupsApart` (a pending registration that is still there
has made no account, and no two addresses share one) and `RequestsHold` (a request
keeps the address in the form it looked up, and a row it found is the account's own).
Assumed: lower-casing twice is lower-casing once, and identities of different tables
differ.

`InventoryProofs` proves for any number of requests and products and any finite set of rows:

- `RecountCorrect`: RecountHeals. `ImportCorrect`: ImportAddsUp.
- `DeletionCorrect`: LoneDeletionSparesSold.
- `InventoryTypeCorrect`: the type invariant.

`InventoryInvariant` says of every request that its lines are inserted, failed or still to
be tried (`Tally`), that its draft is empty until it writes (`Prepared`), and that what it
has read and counted is still so while it is alone (`UpToDate`). The last part is kept by
the steps of others because beside a request that is alone all others are idle
(`LoneClerks`), and a delivery ends that state for everyone. Assumed: the rows are
finite, and the values for "no row" and "unchanged" are none of the rows, products
or records.

`CatalogProofs` proves of the catalogue's modules, for any number of requests, products,
files, categories, rows and sellers, the type invariant of each (`CatalogTypeCorrect`,
`CsvImportTypeCorrect`, `CategoriesTypeCorrect`,
`ListingsTypeCorrect`, `MarketplaceTypeCorrect`) and:

- `StockCorrect`: StockIsCounted. `ActivationCorrect`: ActivatedWithUnits.
  `CatalogInvariant` says what an update knows before it writes: as long as the shelf
  stays, what it has counted is what is there (`CountsWhatIsThere`), and an update that
  activates gets past the checks only if there was a unit (`KnowsOfStock`); and what a
  recount knows: its number is the number there is, until the units change (`Counts`).
- `RepeatsCorrect`: RepeatsOnlyRaced, for any length of file and of batch.
  `LinesFoundNothing`: a line past its look-up that is not raced has a title nobody lists.
- `OrphansCorrect`: OrphansOnlyRaced. `DeletesWhatIsEmpty`: a deletion that is not forced
  and has counted its products has none if none was filed since that query, and the same
  for its children and the other query. The two are kept apart since a category may get
  the one between them and not the other.
- `MissesCorrect`: MissesAreBounded, for any page size, limit and number of rows and places.
  A row that stood still is missed if it slips behind the pages that were read.
  `SlippedAreFew`: at most so many have as rows left or moved, since a row that comes pushes the
  others onward, and each that leaves lets one slip (no two rows that never tied
  have one position). `TiedAreShaky` is why; `CountIsAlmost` says that the
  last count falls short of the rows there are by those that came since,
  and `OnTheLastPage` that behind the last page there are no more than these.
- `NoticeCorrect`: NoticeMatchesSplit. `FreshSplits`: as long as no seller changes,
  the split of a charge is the one that would be decided now, and the mails sent, lost and
  still to be sent are those to the sellers there are now. It needs that a row is
  enrolled once (`SellersEnrolledOnce`): the split goes to the newest active seller,
  and that has to be one row, one of those the notice is sent to.


Assumed: sizes and limits are numbers (positive where they divide), the categories
are not the values for "no parent" and "no row", there are titles, and commissions are
percentages.

`CsvParserProofs` proves of the parser, for any headings, names, regions and codes and
a sheet of any number of platforms:

- `RowsCorrect`: RowsSurviveImport. `CsvParserTypeCorrect`: the type invariant.

This is the correctness of a function, not of an interleaving, and the proof follows the
parser. `RoundTrip` says that any line of cells is read back as it was written:
after the characters of the first n cells the reading function has just these
n cells (`ReadsCell`), whether a cell was quoted (`ReadsDoubled`: a doubled quote is one
quote) or not. `HeaderIsRead` and `SubHeaderIsRead` use that every block has the same width
and one heading, one time; by `PlatformsAre` the parser finds the platforms of the
sheet, each at its own column, in both layouts. `PriceSurvives` goes through the
styles and shapes of a price: with and without thousands separators, with and without
decimals; a lone comma is a decimal one if and only if at most two digits follow it.
`NameRead` says that sanitizing, cutting the note and reading its
region give the name without the dropped characters and a region the note hints
at. `RowRead` puts these together for one platform, and `Gathered` for the sheet: what is
read of the blocks, one after the other, is what was written in them, empty ones left out.

An induction in it is over a set of numbers up to n, of which the least that is missing is
a contradiction (`UpTo`, from the well-foundedness of the numbers), and never over an
operator. What `FlattenSeq` and `Picked` return is characterised first, by the place at
which each piece is found (`Pieces`) and by ranks (`PickedAre`).
Assumed: `CsvParserAssumption`, that is, the restrictions on names stated in section 2,
regions that sanitizing leaves alone, and prices of one to three groups of digits in the
formats that the comment in parsePrice lists.

`ShopProofs` proves that the composition adds nothing of its own:

- `ShopIsItsParts`: a behaviour of ShopSpec is a behaviour of each of its eleven
  components, for any values of their constants, so their theorems hold of it.
- `ShopTypeCorrect`: ShopTypeOK.

**Only model-checked.** JobsFinish and PaidIsServed, which are liveness under fairness
and out of the prover's reach. The properties of the five findings are violated, so there
is nothing to prove of them. All other properties the runs check are theorems, every
invariant among them (FocusTypeOK as CatalogTypeCorrect and ListingsTypeCorrect); the runs show what the proofs cannot, that
the states they speak of are reached, and the mutants that the properties notice a bug.
With releases and more than one worker SaleRefinement, PaidSaleRefinement and
StockCovered are false, and the theorems exclude that case by their assumptions.

## 5. Not modelled, and what is left

- **Payments**: the authorisation of withdrawals, which answers the provider and
  stores nothing; amounts and signatures, which only reject requests.
- **Coupons**: the creation of a coupon (the initial state has one). **Antifraud**:
  the log it writes, which only listings read.
- **User**: names and avatars. **Notifications**: marking a record as read.
- **E-mail, upload, contact, health, metrics**: output or files; no state that another
  component reads. A failure to send is logged and changes nothing.
- **Start-up, configuration, logging, the other guards**: they only reject requests
  or run before there are any. Scripts and containers.
- **Code nobody calls**: the `auth-*.service.ts` twins, `reserveAvailableKey` and its like,
  `markAsUsed`, `updateBalance`, `processPayment` of the payments service.
- **Capacity of the machine**: the sizes of pools, memory and bodies.

What would come next: one model of Checkout, Inventory and Fulfilment over the same
tables, in place of the effects each has of the others; and a history of what each
customer was told, to state which of several true things a payment says last.
