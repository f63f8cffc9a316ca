# Verification of the restaurant QR ordering system

TLA+ models of the parts of this system where money, tables, seats, sessions and
screens can get out of step, the TLC runs that check them on small instances, and
theorems about them whose proofs TLAPS checks for every instance. Everything is modelled
from the sources: `server/src` (Express, Prisma, PostgreSQL, Socket.IO) and
`client/src` (React, React Query). Paths below are relative to the repository.

    tlc -workers 2 -config OrderFloor_floor.cfg MCOrderFloor      # one run
    tlapm OrderFloorProofs.tla                                    # one proof module

`PROJECT.json` lists the runs, maps every definition to the lines it models, and
names the hazards each property is for.

## 1. The system

| component | state | operations | interacts with |
|---|---|---|---|
| **Order workflow** `services/order.service.ts` | `Order` rows: status, lines, totals, advance, who approved and handled it | place, add items, set status, serve, cancel, approve, reject, cancel by the guest | menu prices, settings (gates, tax), tables, payments, sockets, audit |
| **Payments and refunds** `services/payment.service.ts` | `Payment` rows; the order's `paymentStatus`, a summary of them | start and confirm an online payment, webhook, cash advance, cash payment, settle by hand, refund | the gateway; releases held orders through `releaseAfterPayment` |
| **Gateway adapters** `utils/paymentProvider.ts`, `client/lib/razorpay.ts` | none; the choice of gateway is read from the settings per request | create an intent, verify a confirmation | payments, the checkout |
| **Tables and QR codes** `services/table.service.ts` | `Table` rows: status, active flag, QR token; the code's image file | create, edit, delete, (de)activate, rotate the token, render the image again | orders and reservations write a table's status |
| **Menu, offers, categories** `services/food.service.ts`, `category.service.ts`, `utils/offer.ts` | `Food` rows: list price, offer columns, derived offer price, category, picture; `Category` rows | create, update, delete, availability | `priceItems` charges from the columns |
| **Bill arithmetic, invoices** `utils/money.ts`, `services/invoice.service.ts` | none | percentages, minor units, the papers of an order | every amount |
| **Reservations** `services/reservation.service.ts` | bookings, seats per stretch of the evening | create under an advisory lock, edit, status, cancel by reference | table status |
| **Staff sessions** `services/auth.service.ts`, `client/lib/api.ts` | refresh tokens, the cookie, the client's access token | login, refresh with rotation, logout | every authenticated route |
| **Users, roles, permissions** `services/user.service.ts`, `role.service.ts`, `config/permissions.ts` | accounts, roles, their permissions | create, edit, deactivate, reset, assign | sessions, pages, sockets |
| **Live updates** `socket/`, `client/lib/socket.ts`, `client/hooks/useLiveOrders.ts` | socket rooms, query caches | subscribe, emit after commit, refetch | order and payment operations |
| **Cart** `client/context/CartContext.tsx` | lines and the orders of the device in browser storage | add, change, remove, submit | menu, order placing |
| **Checkout** `client/components/DemoCheckout.tsx`, `TrackOrder.tsx` | the payment sheet, the calls it began | open, pay, cancel, close | payments, gateway |
| **Trading day, reports, exports** `utils/tradingDay.ts`, `services/report.service.ts` | none | dashboard, charts, breakdown, order book | reads the orders |
| **Settings, content** `services/settings.service.ts`, `content.service.ts` | one row each, images, reviews | save, moderate | gates and tax; the back office's forms |
| **Client screens** `client/pages/` | query caches, forms | the buttons and forms staff and guests see | every route |
| **Notifications, audit, HTTP plumbing, API documents** | rows of their own | see `PROJECT.json` | append-only or stateless with respect to the above |

What is hard in it:

* **Every decision is made on a row read without a lock.** PostgreSQL runs at its
  default isolation, READ COMMITTED: a `findUnique` takes no lock, an
  `update({ where: { id } })` is a blind write that waits for the row's lock and is
  not re-checked after the wait. Status machine, approval, additions, refunds, bookings,
  menu edits, accounts and deletions all read, decide and then write by id.
* **Three paths to one hold.** An order may be created `NEEDS_APPROVAL` or
  `AWAITING_ADVANCE_PAYMENT`, and is let into the kitchen by an approval, by money
  arriving, or by a status set by hand.
* **One summary, many writers.** `paymentStatus`, a table's `status`, a dish's
  `offerPrice` and a report's headline all say again what other rows say, and each is
  written or computed in several places.
* **The gateway's events** come late, more than once, out of order, and race the
  browser's own confirmation; which gateway is in use is decided twice, by the browser
  and by the server.
* **Requests die half way**: a transaction times out, the server restarts, the guest
  closes the checkout, an answer is lost. Between a commit and its socket event there is
  a gap, and between revoking a refresh token and issuing its heir another.
* **Copies.** A cart outlives the menu it was filled from, a form the row it was filled
  from, a token the permissions it was signed with, a screen the order it shows.
* **Two files that must agree**: what a button sends and what its route accepts, what a
  link leads to and what the page behind it needs, which room an event goes to and who
  is in it.

What makes each component correct (the properties are in section 4):

* orders: no held order reaches the kitchen except through its gate; the bill is never
  more than its lines; a table is OCCUPIED exactly while an order is open; an open order
  can always be carried on, with a button somebody is shown;
* payments: only money the gateway accepted counts, captured money is always booked
  in the end, PAID means covered and always has a receipt; nobody is asked for more than
  is owed; the screen says "paid" only over a booked payment;
* menu: the price charged is within the list price and is the one displayed;
* reservations: never more seats promised than the house has; sessions: one live
  successor per refresh token, no undeserved logout, and a reset that ends them all;
* rows and files: every reference resolves, every picture is there, somebody is always
  able to administer the house;
* copies: a screen eventually shows the committed state and never an older one after a
  newer; a save changes what its editor changed and is shown; a page offers what its
  user may do; the cart plus the orders hold what the guest asked for, once.

## 2. The modules

| module | models | kind |
|---|---|---|
| `Billing` | `utils/money.ts`, `utils/offer.ts`, `computeTotals`, `evaluateHold` | operators |
| `OrderStatus` | the status machine and its subsets | operators |
| `OrderFloor` | orders, tables and the requests in flight on them | state machine |
| `FloorPromise` | the atomic workflow the comments of `order.service.ts` promise | abstract specification |
| `Reports` | the calendar, the dashboard, charts, breakdown and order book over `OrderFloor` and any clock | operators over `OrderFloor` |
| `OrderScreens` | what the four order screens offer on a row, and what their routes accept | operators over `OrderFloor` |
| `Invoices` | the papers of an order and the amounts its screens ask for | operators over `OrderScreens` |
| `PaymentLedger` | the payments of one order, the gateway, retries and refunds | state machine |
| `GuestCart` | the cart, the submit and its answer, the QR session | state machine |
| `Checkout` | the payment sheet over a placed order, on either gateway | state machine extending `GuestCart` |
| `MenuPricing` | the price and offer of one dish under overlapping edits | state machine |
| `Registry` | dishes, categories, accounts, roles, tables, and the files they point at | state machine |
| `Reservations` | the reservation book under its capacity lock | state machine |
| `ReservationDesk` | what the guest's form and the staff's list offer over the book | operators over `Reservations` |
| `Sessions` | refresh tokens, the cookie, tabs and their calls | state machine |
| `LiveUpdates` | commit, emit, socket, invalidation and load | state machine |
| `BackOffice` | the forms of the back office over one row and one browser's cache | state machine |
| `Access` | routes, pages, links, buttons and rooms, and the four copies of a permission | state machine |
| `MC*` | instances for TLC: values, symmetry, views, constraints; `MCBackOffice` holds three components | |
| `OrderFloorProofs` | theorems about `OrderFloor`, `Reports`, `OrderScreens`, `Invoices` | proofs |
| `GuestProofs` | theorems about `MenuPricing`, `GuestCart`, `Checkout` | proofs |
| `ReservationsProofs` | theorems about `Reservations`, `ReservationDesk` | proofs |
| `BackOfficeProofs` | theorems about `BackOffice`, `Access` | proofs |
| `PaymentLedgerProofs`, `SessionsProofs`, `LiveUpdatesProofs`, `RegistryProofs` | theorems about the module of that name | proofs |

`OrderFloor` charges with `Billing`, moves by `OrderStatus` and is shown to implement
`FloorPromise`; `Reports`, `OrderScreens` and `Invoices` are composed with it, so that
what they promise is checked in every state the floor reaches. `PaymentLedger` refines
what `OrderFloor` keeps as two columns (`collected`, `paid`) into rows and uses
`OrderStatus` for the workflow around it; `Checkout` is the browser's side of its two
online requests. `MenuPricing` prices with `Billing`. `MenuPricing` and `Access` name their
specifications `MenuSpec` and `AccessSpec`, so that one module can hold proofs about two
components. The components of `MCBackOffice` (`BackOffice`, `Access`, `MenuPricing`)
share no state: there a behaviour is about one of the three, and the others stand still. No module declares a RECURSIVE
operator: sums are folds (`MapThenSumSet`).

### How a request is modelled

A handler (`Handlers`, the requests the server has in flight) is idle or carries a
record of what its request has read and decided. An operation is

1. a **Read** step: every guard and early return of the code up to the first write,
   evaluated on the committed rows, and the values it computes from them;
2. where the code reads again while it already holds a row lock (the count of open
   orders in `applyStatusChange`, the second sum of the ledger in `releaseAfterPayment`,
   the count in `refundPayment`), a **second read** that takes the lock;
3. a **Commit** step that writes what was decided, by id, whatever was committed in
   between, and together with everything the same transaction writes.

A row updated and not yet committed is locked; another update of it waits. `Abort` ends a
request at any point without a trace: a failed guard inside the transaction, a timeout,
a restart. That is also what a crash leaves, as nothing outside the database decides
anything. Where a handler is not one transaction (`Sessions`, `Registry`, the table write
of `Reservations`), each statement is a step and a crash leaves the steps before it.
`placeOrder` upserts the guest's `Customer` row before it reads the open balance,
so two placings of one guest exclude each other (the guard of `ReadPlace`); nothing
excludes two guests of one table.

With one handler, requests are served one after the other, which is what the code's
comments describe; with two they interleave. Properties that only hold in the first
case are checked in runs with one handler, and those that hold in both are checked with
two and proved for any number.

Operators whose comment begins with "(mutant)" are plausible mistakes in the definition
they stand above (a dropped guard, a shorter window, a filter too many). No specification
uses them; `PROJECT.json` says which property each of them breaks.

### OrderFloor

| TLA+ | code |
|---|---|
| `order[o]` | the `Order` row; `lines` is the sum of its `OrderItem.lineTotal`, `receipts` its payments, zero once refunded, `collected` the sum of those that are SUCCESS, `advance` is 0 for null |
| `table[t]`, `accepting` | `Table.status`/`isActive`, `RestaurantSettings.isAcceptingOrders` |
| `request[h]` | local variables of a request between its statements |
| `waived`, `crossed`, `hold`, `recent` | history: holds left by hand, money given back while another request about the order was in flight, the status at creation, placed within `SESSION_WINDOW_HOURS` |
| `ReadPlace`, `CommitPlace` | `placeOrder` with `openBalanceMinor` and `evaluateHold` |
| `ReadUpdate`, `CheckVoid`/`ReadVoid`, `CountOpen`, `CommitStatus` | `updateStatus`, `serveOrder`, `cancelOrder`; `rejectOrder`, `cancelHeldOrderByToken`; `applyStatusChange` |
| `ReadApprove`, `CommitApprove`; `ReadAdd`, `CommitAdd` | `approveOrder`; `addItems` |
| `CheckCashAdvance`, `CheckCashPayment`, `InitiateOnline`, `ReadBook`, `ReadRelease`, `CommitBook` | the payments of `payment.service.ts` with `reconcileAfterPayment` and `releaseAfterPayment` |
| `ReadSettle`, `CommitSettle`; `ReadRefund`, `ReadSettleRefund`, `CommitRefund` | `settleOrderPayment` to PAID and UNPAID; `refundPayment`, and `settleOrderPayment` to REFUNDED |
| `SetTableActive`, `SetAccepting`, `WindowPasses` | `setTableActive`, settings, the clock |

A cart is the sum of its lines (which dishes it holds decides nothing here; their price
is `MenuPricing`'s subject). What a payment row goes through before it is booked, and the
gateway, are in `PaymentLedger`. An online payment occupies its handler from its intent to
its capture here, and is the separate requests it is in the code there. The count of
`refundPayment`, which comes between its two writes, is taken when the payment is read
here and is a step of its own there.

### FloorPromise

Status, seat and occupied tables, with placing and moving as single steps. It says what
the comment on `applyStatusChange` says: everything a transition implies happens
atomically. The refinement mapping is the identity on the status and the table of each
order and `{t : table[t].status = "OCCUPIED"}`; every Read, money and admin step is a
stutter.

### Reports, OrderScreens, Invoices

They read the rows of `OrderFloor` and change nothing, so they are operators over its
state: `DashboardSummary`, `SalesReport`, `RevenueBreakdown`, `DishSales`, `SpentBy`,
`OrderBook` for `report.service.ts` and `export.service.ts`; `StaffOrders`, `WaiterServe`,
`TrackOrder`, the kitchen's `Ticket` for the buttons of the pages, `RoutePermission` and
`Guard` for what `order.routes.ts`, `payment.routes.ts` and their services accept;
`Invoice`, `InvoiceSheet`, `ThermalSlip`, `AdvanceDialog`, `CheckoutAmount`, `CashAmount`
for `invoice.service.ts` and the amounts the screens print. What
`OrderFloor` has no use for, the time an order was placed and the time a report is read,
`Reports` quantifies over: its properties hold on every clock of `Clocks`. Time is
counted in slots of UTC, and the reporting zone is its offset at each of them, which is
what `tradingDay.ts` asks `Intl` for. A report is read in one state; the code's reports
are several statements under READ COMMITTED, so figures of one answer may be moments apart.

### PaymentLedger

| TLA+ | code |
|---|---|
| `order` | status, total, advance and `paymentStatus` of one order |
| `payment[p]` | its `Payment` rows; `ref` is `providerRef`: the intent's id, then that of the attempt that settled it |
| `attempt`, `acked` | external: each attempt at the gateway; captures answered with 200 |
| `stale`, `overtaken` | history: requests whose order or ledger changed since they read it; whether one of those has written |
| `ReadInitiate`, `CommitIntent` | `initiateOnlinePayment` |
| `ReadConfirm`, `WebhookFailed`, `WebhookCaptured`, `WebhookRepeated`, `CommitFail` | `confirmOnlinePayment`, `handleRazorpayWebhook` |
| `CashAdvance`, `CashPayment` | `recordCashAdvance`, `recordCashPayment` |
| `ReadBook`, `CommitBook` | the settlement transaction: row, `reconcileAfterPayment`, `releaseAfterPayment` |
| `ReadPaid`, `CommitPaid`, `ReadSettle`, `CommitSettle` | `settleOrderPayment` |
| `ReadRefund`, `CountLeft`, `CommitRefund` | `refundPayment` |
| `Workflow` | the order module moving the order or adding to its bill |

One order suffices because no operation of `payment.service.ts` touches the rows of two.
Amounts are small integers; only their sums and comparisons matter. The gateway is
external and modelled from how the code uses it: an intent is attempted until one
attempt is authorised, an authorised attempt may be captured, signatures exist only for
accepted attempts, webhooks report an attempt any number of times in any order. The
gateway is the live one throughout: that a server which cannot read its settings falls back
to the demo gateway is in `Checkout`. A correctly signed confirmation may still be refused, because the keys are read from the
settings per request and may have been changed. An authorisation the gateway itself
lets expire is an attempt that is never captured.

### GuestCart and Checkout

| TLA+ | code |
|---|---|
| `items`, `mine`, `qrToken` | `CartContext`'s lines (each known by the tap that made it, as the code knows it by its id), `context/cart.ts`'s orders of the device, the scanned session, all in browser storage |
| `requests`, `pending`, `orders` | the submits and how far each got, the mutation whose answer the cart screen awaits, the server's orders |
| `addItem`, `increase`, `decrease`, `removeItem`, `setNotes` | the reducers of `CartContext`: the first by dish and note, the others by dish |
| `Submit`, `placeOrder`, `RequestLost`, `onPlaced`, `onRefused`, `AnswerLost` | `CustomerCart`'s mutation, the guards of `placeOrder`, a request or an answer that is lost, the two ends of the mutation |
| `Scan`, `rotateQrToken`, `Reload`, `RunTheHouse` | `ScanTable`, a rotated code, a reload, what staff switch meanwhile |
| `sheet`, `calls`, `rows`, `receipt` | `DemoCheckout`'s state, its mutations (a closed sheet does not stop one), the `Payment` rows, the "Payment received" on the screen |
| `validateFormAndPay`, `TapTile`, `DemoTimer`, `CancelWaiting`, `CloseSheet`, `Dismiss` | the sheet's forms and tiles, its timers, its ways out, the gateway's window closed |
| `initiateOnlinePayment`, `openRazorpayCheckout`, `confirmOnlinePayment`, `handleRazorpayWebhook` | the four stations of a payment; `getActivePaymentProvider` picks the gateway, `Blip` is a moment in which the settings cannot be read |

Prices are left out (the server reads them again), and a bill is two units, an advance one;
`PaymentLedger` has the amounts. A confirmation is one step here and a read and a commit
there. An order's answer that arrives over the sheet of an earlier order is left out.

### MenuPricing

`updateFood` reads the row, merges the patch into it, checks and derives the offer from
the merged row, and writes the patched columns plus **all** offer columns. `edit[e]`
holds that pending write. `offer.type = "NONE"` and `Null` stand for null columns.
`UnitPrice` is what `priceItems` charges: it derives the price again and does not trust
the stored one. `overtaken` is history: the last update derived its offer from a row that
had changed meanwhile and left the list price alone; the next update clears it.

### Registry

Every handler checks first and writes afterwards, in statements of its own: a request is
a step that reads and decides (`CountFoods`, `CheckNewFood`, `CheckFoodPatch`,
`CheckUserPatch`, `CountAdministrators`, `CountUsers`, `ClearPermissions`, `RenderCode`,
`CountOrders`, `FindTable`), a step that writes (`deleteCategory`, `createFood`,
`updateFood`, `updateUser`, `deactivateUser`, `deleteRole`, `GrantPermissions`,
`createTable`, `ReplaceCode`, `deleteTable`, `placeOrder`) and, for a picture, a step that
removes the old file (`remove`). `disk` is the upload directory; a file has a fresh name. `Abort`
stops a request between any two of them, which may leave a file nobody points at, never
the reverse. Foreign keys are what the database checks when a row is written. `raced` is
history: rows two requests met on. Whoever calls a route of the accounts is any account, of
whatever role and still there or not (`IsAccount`): the routes ask for a permission in the
caller's token, which may be older than the account. The three areas share no rows, so a behaviour
is about one; what a request reads before its first write is one step.

### Reservations

| TLA+ | code |
|---|---|
| `booking[b]`, `table[t]` | `Reservation` and `Table` rows; a claim is a party size, a start and a length |
| `LockCreate`, `CommitCreate` | `createReservation`: the advisory lock, `seatsTakenDuring`, the insert |
| `ReadEdit`, `CheckEdit`, `CommitEdit` | `updateReservation`: the row is read before the lock; the lock is taken only when size or time changes |
| `ReadStatus`, `CommitStatus`, `WriteTable` | `updateReservationStatus` and `cancelByReference`: the table is written after the booking, in a transaction of its own |
| `SetTableActive` | `setTableActive` |
| `breaches` | history: what has been done that the lock does not guard |

`ReservationDesk` reads the book and changes nothing. `Offered` is what the form offers a
guest whose page has just loaded (`AvailableTimes`, the sitting it opens on, and the
alternatives of `suggestSlots` where the selected one is full), `Accepted` what
`POST /reservations` then takes; `ActionsOf`, `TablesFor` and `Listed` are the buttons, the
table picker and the rows of `AdminReservations`. A sitting of the form is a moment of
`Times`, a day is `DayLength` of them, and the limit of the list (100 rows) is `PageLimit`.

### Sessions

| TLA+ | code |
|---|---|
| `live`, `account` | `RefreshToken` rows neither revoked nor expired; the `User` row with a version |
| `cookie`, `tab[t]`, `flight[c]` | the browser's cookie jar, a tab's access token and user, what each call waits for |
| `ReadToken`, `ReadAccount`, `Revoke`, `Issue` | `refresh` (and `login` from `StartLogin`), statement by statement |
| `Unauthorized`, `Settle`, `Receive`, `Refused`, `Bounce`, `Lose` | the response interceptor of `api.ts` with its single-flight `refreshPromise`, and a lost answer |
| `Load`, `Expire`, `Lapse`, `Logout`, `LogoutAll` | restore on mount, the two expiries, the two ways to leave |
| `ResetPassword`, `DeactivateUser`, `SetActive`, `ChangeRole` | what an administrator does to the account meanwhile |

### LiveUpdates

| TLA+ | code |
|---|---|
| `version`, `outbox` | the order as committed; what its handler has still to emit |
| `link`, `room`, `wire`, `stale`, `asking` | a screen's socket, its session and rooms with connection state recovery, packets under way, the token of its handshake, its `order:subscribe` |
| `Commit`, `Place`, `ChangeOrder`, `SettleOrderPayment`, `Emit`, `Crash` | a handler commits, then emits to rooms; a payment settled by hand is not announced |
| `Resume`, `Handshake`, `Subscribe`, `Drop`, `TokenExpires` | `lib/socket.ts` and the server's `socket/index.ts` |
| `Hear`, `Invalidate`, `Poll`, `Read`, `Show`, `Retry`, `GiveUp` | `useLiveOrders`, React Query's `invalidateQueries` (cancelling the load under way, unless it is the first), `refetchInterval`, the request and its retries |

An event carries no data into a screen; it only makes it load again.

### BackOffice

A behaviour is about one row (settings, content, a dish, a category, a review, a role) and
one browser at the desk that edits it; everybody else is `OthersSave`, which writes
anything their forms could send. `Refetch`, `AnswerRead`, `FailRead` are the page's query,
`Open`, `Submit`, `Tap`, `Close` the form and the one-tap switches, `Save`, `AnswerSave`,
`FailSave` the request. What the forms do differently is `Fill` (what is shown of what is
stored: a secret never), `Refilled` (React's uncontrolled boxes keep what they were filled
with, and an empty one follows a new answer), `Omitted` (what a blank box sends),
`GoneOnError` and `FormWhileLoading` (the banking form, shown even after a failed first
load, goes away while the next is under way). `Invalidate` is React Query's: a load in flight
is cancelled and started again, but a first load, which has nothing to fall back on, is
joined.

### Access

The left half is tables, each read off its file: what every route needs (`Needs`), the
permission that opens each page (`Guard`) and shows its link (`LinkNeeds`), where a
role lands (`HomeRouteFor`), what each page asks of the server and offers as buttons
(`Asks`), what the seeded roles hold (`SeededRoles`), who joins which room (`JoinStaffRooms`) and
which room each event is sent to (`Audience`). The right half is the four copies of a role: the database's, the token's, the
page's, the socket's, moved by `Login`, `Renew`, `Reload`, `Expire` and an administrator's
`SetRolePermissions`, `MoveTo`, `Suspend`, `Deactivate`, `ResetPassword`.
`HalfOpen` and `Ungated` name the twelve places where page and route disagree.

## 3. The runs

| run | instance | shows |
|---|---|---|
| `floor` | 2 orders, 2 guests, 2 tables + takeaway, 1 handler, session windows pass | the exposure cap, and refinement of `FloorPromise`, tables included |
| `overlap` | 1 takeaway order, 2 handlers, both gates, a large cart, one addition, 2 payments | the gates, the bill and a way on for the order, with the statements of two requests in any order; with one order a table decides none of it, and tables are in `floor` |
| `reports` | 1 order, 1 handler, both gates, small and large carts, additions, 2 payments, tables and opening switched, every clock of 7 slots | the figures, the amounts asked for, the takings and the buttons |
| `order_book` | as `reports`, a small cart and no additions | that the order book and the charts cut their days differently (a violation, section 6) |
| `ledger` | 2 handlers, 2 payments, 1 attempt each, bill 4 (+2), advance 2 | what the ledger and the summary say of each other |
| `ledger_live` | 1 handler, 2 payments, 2 attempts each, fairness | captured money is booked |
| `guest` | 2 dishes, 2 notes, 3 changes to the cart, 2 submits, 2 calls of the sheet, 2 faults | nothing is lost or ordered twice, nothing is called paid that is not |
| `registry` | 2 handlers; 2 categories, 1 dish; 3 accounts, 2 roles, 2 keys; 1 table, 1 order; 3 files | references, files, the last administrator |
| `reservations` | 2 handlers, 2 bookings, 1 table of 2 seats, 4 kinds of edit; days of 4 moments, a notice of 1, a list of 1 row | no more seats promised than there are; form and list offer what is accepted |
| `sessions` | 1 tab, 2 calls, 3 tokens, 1 login, 2 administrative changes, fairness | rotation, resets, undeserved logouts, permissions that catch up |
| `live` | a diner's or a staff screen, 3 changes, 3 faults, fairness | no silent staleness, no going back, catching up |
| `backoffice` | 6 desks, one text, 2 saves; or every permission alone, every one missing, each button's page with its route's permission, the seeded roles, 2 changes; or 2 editors, prices 300 and 501, discounts 0, 400, 10000 | what was saved is shown and a save changes what was edited; page, route and room agree; the price charged under overlapping edits; but for what is named |

Why the bounds are enough to be interesting. *Two handlers*: every hazard listed is a
pair of requests, one of which reads before and writes after the other. *Two orders and two
tables*: enough for "another order is open on this table" and for an order on another table
to be irrelevant. *Carts of 2,000 and 4,000 with 5% tax against a threshold of 3,000*: one
small cart passes both gates and two of them exceed the approval threshold, one large cart
exceeds it alone and owes an advance of 30%. *MaxLines* allows one addition to the large
cart and several to the small one. *Bill 4, advance 2, addition 2*: two advances cover the
bill exactly, an addition uncovers it, and an advance and the bill exceed it. *Two
payments* (`MaxPayments`) give partial sums, a refund that is not the last and one that is;
`floor` and `order_book`, whose properties do not depend on a second, allow one. *Two attempts*
give a failure before a capture. *300 and 501*: a discount of 400 fits one and exceeds
the other, 4.00% of 501 must be rounded, 10000 is 100%. *Two slots a day, seven in all, an
offset of one slot until the fifth and none after*: days before, on and after a change of
clocks, and midnights of the zone that are not midnights of UTC. *Two dishes, two notes,
three changes, two submits*: twin lines of one dish, an edit while an order is out, a
second submit after a lost answer. *Two calls of the sheet*: one closed and outlived, one
of its successor. *Two seats, sizes 1 and 2, starts 0 and 2, a length of 1 that staff may
stretch to 3*: two bookings that fit together or do not, at one moment or only because one
was stretched. *Days of four moments, a notice of one, offsets -2, 1 and 2, one row a page*: a
sitting that is gone, one about to begin, an alternative that is over, and a list that
overflows. *Three tokens*: a token, its heir and an orphan. *Three versions, three
faults*: a change heard while an older one is still being loaded, and a fault at each of
commit, socket and load. *Three accounts*: two administrators and one who is created or
moved meanwhile. *Three files*: a picture, its successor, and another request's. *One text
and a cleared box* are all the forms tell apart.

What keeps the runs small: handlers, orders, tables, editors, dishes, bookings, categories, accounts and
keys are symmetric in the runs that say so, and no liveness run uses symmetry. `ledger`
compares states by `SafetyView`, which leaves out `acked`, and `stale` once `overtaken` is
true: without fairness no step and none of the checked properties reads them there.
`reservations` merges the closed statuses and leaves out a table's status, which nothing
reads back, and stops at the first breach, after which its property says nothing. `guest`
checks the cart and the sheet each to its bounds, not every interleaving of the two
(`TwoActs`): they share one order and nothing else. `live` opens one screen at a
time (`OneScreen`): screens share nothing but the order and the process, and the
constraint removes the opening of a second screen, never a step of the first.

`OrderFloor` has finitely many orders that are placed once and end SERVED or CANCELLED,
so it may really stop, in `floor`, `overlap`, `reports` and `order_book`; `guest`,
`registry` and `backoffice` stop when their bounded counters are used up. These
configurations say `CHECK_DEADLOCK FALSE`. The others are checked for deadlock.

### Fairness

`FairSpec` of `PaymentLedger`:

* `WF(Commit(h) \/ Abort(h))`: a request in flight ends, by committing or by failing
  (Prisma's transactions time out; a restart ends all of them). It may always fail.
* `SF` on redelivery: as long as a capture is unanswered the gateway delivers it again
  and again (Razorpay retries any answer but 2xx; `payment.routes.ts:53-55` relies on
  it). Strong, because the handlers may be busy in between.
* `SF` on the two steps of handling a captured webhook: a delivery that is handled over
  and over does not fail every time.

`FairSpec` of `LiveUpdates`: the process emits what it has to (a straight line after the
commit), a disconnected client reconnects (Socket.IO's default; a refused one does not, and
none is assumed to), a connected diner's screen asks for its room, the interval of a
visible page fires (`refetchInterval`), packets received are handled, and requests are
answered. All weak. Crashes, drops, lost loads and reloads are bounded by `MaxFaults`:
eventual agreement is promised once they stop.

`FairSpec` of `Sessions`: the server carries on with a request, the browser with an answer
or its loss, and an access token expires (its fifteen minutes pass). All weak.

Nothing is assumed of the guest, the staff, the browser's confirmation, any capture
taking place, or any page being opened.

## 4. The properties

**Under every interleaving.** `GateHonoured`, `ApprovalHonoured`, `NeverOverbilled`: the
gates and the bill, refunds included (checked with two handlers, proved for any number), and
`NeverStranded`: an open order has somebody whose button moves it on;
`OnlyAcceptedMoney`: late, repeated and reordered gateway answers book nothing that was not
accepted; `ChargedWithinList`; `LiveRowsAreMoney`: what the real gateway's branch books was
captured; `PaidScreenIsPaid`: "Payment received" stands over a booked payment;
`OffersStand`: the form offers a guest what the house then books, but for a moment that is
gone, and turns away only whom it would refuse; the list leaves no booking without a way
out and, until it overflows, shows every active one of the day;
`NoSilentStaleness`: a screen that is behind has an event or a load under way, unless a
fault took it or none was ever sent; `NeverGoesBack`: overlapping loads never bring an
older order after a newer one; `SavedIsShown`: overlapping refetches end on what was
saved, but for a banking save that joins a first load; `AlertsReach`: who may act on an event is in a room it goes to.

**Served one at a time.** `KeepsPromise`, `ExposureCapped`, and of one order in every state
the floor reaches: `HeadlineIsLastBar` ("the headline figure and the last bar of the chart
always describe the same set of orders"), `FiguresAgree`, `TakingsStand`, `AskedIsOwed`,
`OfferedIsAccepted`. They, and `NeverStranded`, carry the disagreements of section 6
by name, as small operators a reader can look up (`PaidInPart`, `TooEarly`,
`GrownSincePaid`, `PartlyRefunded`, `SameDate`, ...). `KeepsPromise` and `ExposureCapped` fail with two handlers, and
`ExposureCapped` with additions, which no gate looks at (section 6).

**Until a write overtakes what it read.** `CoveredIsPaid`, `PaidHasReceipt`,
`PaidWhenCovered` (ledger), `OneHeir`, `ResetKills` (sessions); and `ShownIsCharged` (menu)
until the last update did, so that any later one makes it good.
These modules interleave requests, and carry a history variable (`overtaken`, `late`) that
becomes true when a request writes although the rows it decided on have changed since.
Up to that moment the properties must hold, however requests overlap, wait for locks and
die. This states exactly how far the code's promises go: they survive concurrency that does
not conflict.

**But for what is named.** `NeverOversold` holds until one of four things the capacity lock
does not guard (`breaches`); `ReferencesResolve`, `SomeoneAdministers`, `PictureIsThere`
but for rows two requests met on (`raced`), and an administrator demoted by
a PATCH (`patched`); `BasketKept` but for dishes the cart blurs (`blurred`: twin lines,
edits while an order is out, a lost answer); `UntouchedIsKept` but for boxes whose row
changed after the form was filled; `GateHonoured` but for an order PATCHed out of its hold and
for money given back between the sum another request made of it and its next step
(`crossed`); `OfferedIsAllowed` but for twelve named places, none of
which the seeded roles need (`BuiltInRolesWork`); `HeadlineIsLastBar` but for a day on
which the clocks change (`Steady`). Each exception was found by a counterexample and is as
narrow as the code allows; section 6 says what each one is.

**Under fairness.** `CapturedIsBooked`, served one at a time: with two handlers it fails,
as a failure that was read before a capture overwrites the captured row, whose webhook has
been answered and is not delivered again. `EventuallyShown`: a visible screen ends up
showing the order as it is, by its poll if nothing else. `EventuallyCurrent`: once an
account stops changing, every valid access token comes to say what the account is.
`NeverBounced` is a safety property: a tab alone with the cookie is not logged out by
its own expiries, however many calls meet one at once.

Every property of a passing run has a mutant of a mapped definition in `PROJECT.json` that
breaks it. `BookIsTradingDay`, in `order_book`, states what `tradingDay.ts` says of every
report, and the code breaks it.

## 5. The proofs

TLAPS proves the theorems below from the named assumptions of the modules (amounts are
naturals, prices and bills positive, `Nobody` is not a member of staff, `NoTable` is not a
table; where something is summed or counted, the set it is taken over is finite). They hold
for any numbers of orders, tables, guests, staff, handlers, payments, attempts, bookings,
calls, tokens, screens, rows and files, and any amounts. What is proved under a further
condition has it in its statement: requests served one at a time in `WorkflowIsKept`
(`OneAtATime`), `SplittingDoesNotHelp` (`Alone`), and `ButtonsWork`, `AskedForWhatIsOwed`,
`FiguresAddUp` and `TakingsNeverFall` (`OneByOne`); a single tab in `LoneTabNeverBounced` (`OnlyTab`).

* `OrderFloorProofs`
  * `TypeCorrect`, `DecisionsStayTrue`, `AdvanceBeforeKitchen`, `ApprovedBeforeKitchen`,
    `NeverBilledForMore`. The gates are not inductive: an approval or a status change in
    flight writes a decision made earlier. The invariant is
    `TypeOK /\ InFlightSound /\ Gated`. `InFlightSound` says what each kind of request
    still knows when it commits: an order seen in the kitchen has been approved, and has its
    advance while an approval is still on its way to it; an approval to PENDING, and a
    payment that releases, were for collected money; a computed total is no more than the
    lines will come to. It survives other requests' commits because no step un-approves or
    removes lines (`Keeps`, `FinishSound`), and because only a refund un-collects money, which
    records in `crossed` that it met another request about its order. `GateHonoured` is of
    steps, not of states: once an order is in the kitchen its advance may be given back. Totals are monotone in the lines (`PercentMonotone`,
    `TotalMonotone`), whatever the percentages and the rounding.
  * `WorkflowIsKept`: with one handler and the floor plan left alone (`OneAtATime`), the
    floor implements `FloorPromise`. Initial states map to initial states; every read, and
    every step that touches money only, leaves the mapped variables alone (`Stutters`);
    each commit is one `Place` or `Move`, because what it read is what it overwrites
    (`StillTrue`: the status it saw, and whether its closing frees the table).
  * `SplittingDoesNotHelp`: with one handler and no additions (`Alone`), `ExposureCapped`.
    The invariant adds what the request in flight has decided (`Decided`: a placing that
    goes straight to the kitchen leaves its table below the threshold; a payment that
    settles covers the bill), that a paid order that gave nothing back is covered
    (`PaidUp`), and that no table is over the cap (`Capped`); orders that gave money back are
    left out of it, as nothing asks a refund what the table then owes. Every step but a placing makes each order owe no more than
    before (`Lightens`), and a sum of smaller values over a smaller set is no larger
    (`SumsCompare`).
  * `ButtonsWork` and `AskedForWhatIsOwed`. What a screen shows is computed from one row, so
    they follow from what is true of every row, `RowSound`: the total is the bill of the
    lines, an advance is at most the total (`AdvanceAtMostTotal`), an unpaid order has
    collected less than its total, and a paid one has collected it, or had before its last
    additions or a refund that was not the last. That is inductive together with what the one request in flight has read and
    is still so (`Current`); the whole is `BInv`. `OneByOne` is one handler (two lose each
    other's writes, section 6), no cart that costs nothing (with one, "unpaid" and "nothing
    left to collect" are both true; only an offer of 100% on everything in the cart makes
    one), and additions that add up to additions: what two of them bring, one could have
    brought. The instance of `reports` meets all three.
  * `NobodyStranded` needs neither: by its types alone, an open order has a status from which
    somebody's button moves it. It holds for any number of handlers.
  * `HeadlineMatches` is arithmetic of the calendar: on a steady day the slots of a trading
    day are an interval of UTC that begins where `StartOfTradingDay` says (`StartOfDay`,
    `TodayIsSinceMidnight`). The attempt showed that it is not enough for the slots of the
    day to share an offset: where clocks go forward at midnight (00:00 becomes 01:00), the
    midnight computed with the offset of now lies an hour before the change, and that hour
    is yesterday's to the chart and today's to the headline. `Steady` now excludes it.
  * `FiguresAddUp`: a figure that is summed by day, by guest or by class is the figure summed
    at once, as the classes partition the orders (`SumsByClass`, `BarsAddUp`, `GuestsAddUp`,
    `BreakdownAddsUp`); where the zone and UTC agree on the day, book and bar take the same
    orders (`BooksOfTheDay`); and what the dishes brought in, with the charges on each bill,
    is what the guests have spent, because a bill is that of its lines
    (`BillsAreLinesAndCharges`). The last is why requests are served one at a time: an
    addition that loses another leaves dishes on the report that are on no bill.
  * `TakingsNeverFall`: an order the kitchen knows of stays revenue, and its total does not
    shrink, unless it is cancelled; a served one stays served with its lines (`RowStands`).
    Every step keeps that of every row (`StepStands`), and sums compare. With two handlers
    it is false: a cancelled order comes back and a total is written over a larger one.
* `PaymentLedgerProofs`
  * `TypeCorrect`, `OnlyAcceptedMoneyCounts`, `PaidAlwaysHasReceipt`. Type correctness needs
    that the row a request is about to update exists (`Existing`). The second invariant adds
    that every row about to be booked names an accepted attempt (`BackedRequest`; attempts
    never leave "captured", nor "authorised" except for it), that two requests never create
    the same row (`NewRow`), and that a request that is not stale still knows that the
    payment it fails was not SUCCESS and, if it is not the last refund, that another payment
    has succeeded (`Fresh`).
  * `CoveredAlwaysReadsPaid`, `DepositsDoNotSettle`. `CInv` adds what such a request still
    knows of the sum (`Knows`: a booking settles exactly if the ledger with its row covers
    the total; a last refund leaves nothing). That each step keeps it rests on how one row
    changes the sum of the ledger (`SumMonotone`, `SumZero`).
* `GuestProofs`
  * `MenuTypeCorrect`, `NeverChargedAboveList`, `MenuTellsThePrice`, `OffersStayCoherent`. The
    second follows from the types alone, by what `DiscountMinor` clamps
    (`EffectiveWithinList`). The others need `EditSound`: a pending update carries a
    coherent offer and, while fresh, the price the row will have.
  * `BasketAlwaysKept`: for any dishes, notes, taps and submits. `BasketInv` adds to the
    property that lines are numbered by the taps that made them, that a request has an order
    exactly when the server placed it, and that the dishes with twin lines are among those
    blurred: without that, one stepper moves two lines at once. What a step does to
    the portions of one dish in the cart is a sum over its lines that changes at one of them.
  * `ReceiptsArePaid`, `PaidRowsAreMoney`, `VisitTypes`: for any numbers of calls and payment
    rows. Whether a row may be booked is decided by a call that was begun for it, steps
    before: `PayInv` says of every call what its stage implies of its row (`CallSound`: a
    live call that confirms has a captured row, one that has answered a booked one), and
    that no two calls through the gateway are about one row (`RowsApart`), so that one call's
    capture cannot be taken for another's. The attempt found two overlapping guards in the
    `CASE` by which `initiateOnlinePayment` goes on, which TLC had silently taken in order;
    they are exclusive now.
* `ReservationsProofs`: `TypeCorrect`, `SeatsAreNeverOversold`, `OneDecisionAtATime`,
  `WindowLosesNoClash`, `DeskKeepsItsWord`. A request that has been granted seats commits
  them later. One request at a time holds the lock (`OneHolder`), and what it was granted is still free when
  it commits (`RoomKept`), because every step of anybody else only frees seats (`Frees`)
  until one of the `breaches`. `WindowIsComplete`, that looking back no further than the
  longest sitting misses no clash, follows from the bound on a sitting. `DeskKeepsItsWord`
  holds of every well formed book: the form and the endpoint count the same seats
  (a time it leaves out is one the house would refuse), and a page of the list that lost a
  booking of the day is full.
* `SessionsProofs`: `TypeCorrect`, `OneHeirOfALogin`, `ResetEndsSessions`,
  `LoneTabNeverBounced`. A refresh that has revoked its token and not yet issued the heir has no living relative and no rival
  (`SoleIssuer`); one that has read a token's row still knows what the row says, or the token
  is dead (`KnowsRow`); every living token has the account's password (`Killed`). All but
  `KnowsRow` hold until a request comes `late`. For one tab and any number of calls, a tab
  that is owed its session has one refresh at most under way, and the cookie is alive
  for as long as that refresh does not hold the token that is to replace it (`Kept`).
* `LiveUpdatesProofs`: `TypeCorrect`, `NoScreenIsForgotten`, `ScreensMoveForward`. A load
  that has read the order and has not been shown is owed the same events as the screen
  (`LoadsCaught`); a screen has one load at a time, no older than what it shows (`InOrder`).
* `RegistryProofs`: `TypeCorrect`, `NothingIsOrphaned`, `SomeoneIsInCharge`,
  `PicturesAreThere`. A request relies on what it has checked: that
  still holds, or the two that disagree have met and what they are about is in `raced`
  (`AllMet`, `Finds`). A file on its way into a row belongs to one request; one on
  its way off the disk belongs to no row but the one that request is to overwrite
  (`Carried`, `MenuPictures`, `FloorPictures`). `SomeoneIsInCharge`
  assumes nothing of who may deactivate whom, and rests on the count in `deactivateUser`: with
  more than one active super administrator, one is left when the one in question goes
  (`AnotherIsLeft`).
* `BackOfficeProofs`
  * `TypeCorrect`, `WhatWasSavedIsShown`, `NothingElseChanges`. A form and
    the payload sent from it say how each box relates to the row it was filled from
    (`IsForm`, `FormSave`); after a save is told, what the query in flight, or else the last
    one, answers is that save or a later one (`Latest`, `Reflects`), unless the save was told while a
    first load was under way. Only the banking form can be submitted before a first answer
    (`NothingRead`).
  * `OfferedAlwaysAllowed`, `BuiltInRolesAlwaysWork`, `AlertsAlwaysReach`: for any sets of
    permissions and any number of changes. A copy made since the last change is the
    role, and whoever is signed in has a token and sits in the staff room (`CopiesTrue`).
    Page and token then have one role, and the rest is a case analysis over the fifteen
    pages (`TablesAgree`) and the four seeded roles, that holds for any holder of any
    permissions.

The sums (of balances, ledgers, takings and cart lines) are folds over sets. What is needed
of them (a fold exists, adds each value once, is natural, and is monotone) is proved by the
least counterexample on the size of the set (`NatSet`, from `NatLessThanWellFounded`), as
induction rules with an operator parameter cannot be instantiated here.

The runs check two handlers, one order or one tab where `GateHonoured`, `ApprovalHonoured`,
`NeverOverbilled`, `NeverStranded`, `FiguresAgree` and the rest are proved for any number.
`InFlightSound`, `OneHolder`, `WindowIsComplete`, `OfferCoherent` and the type invariants of
all modules but the floor are proved and not run. The inductive invariants of the last
proofs (`BasketInv`, `PayInv`, `BInv`, `KInv`, `CopiesTrue`) were checked by TLC on the instances of
their runs before they were proved.

Every invariant and every action property that a run checks is proved. Only model-checked is
the liveness (`CapturedIsBooked`, `EventuallyShown`, `EventuallyCurrent`), which TLAPS cannot
prove from fairness. Not proved either, for want of room and not of reach: `OfferedIsAccepted`
and `AskedIsOwed` for several handlers, where they are false as they stand (section 6) and
would need an exception like `overtaken`. `BookIsTradingDay` is false.

## 6. Where the code and its comments disagree

What was met while modelling, with the models in which it happens. Each is either outside
what the properties claim (one handler, until overtaken), one of their named exceptions, or
the violation that `order_book` shows.

**Orders and tables.**

* A cancelled order is confirmed by a request that read it before, although
  `order.service.ts:71` calls SERVED and CANCELLED terminal; with two handlers two members
  of staff can both stamp an approval (687), the first handler can be overwritten, a guest
  can void an order that has just been released, an addition can be lost or reach an order
  that is cooking.
* Two guests of one table place at once and both pass the approval gate, which the comment
  at `order.service.ts:506` says the transaction prevents.
* An addition is measured by no gate (`addItems` never calls `evaluateHold`): an order of a
  small cart may grow past the threshold that it would have been held at.
* A closing that overlaps a placing, or another closing, leaves the table's status wrong
  (`order.service.ts:959` "happens here, atomically").
* `PATCH status: PENDING` releases a held order without approval or money
  (`order.validation.ts:20`); `cancelOrder` demands a reason, `PATCH status: CANCELLED`
  does not.
* The advance gate compares the single order (`order.service.ts:342`), although
  239-242 says both gates measure the table's open balance.
* Closing the last order of a table that was deactivated meanwhile writes AVAILABLE over
  INACTIVE, and reactivating a table writes AVAILABLE over open orders.
* A held order is announced to the kitchen after all: the comment on
  `emitOrderNeedsApproval` (`socket/index.ts`) says it is not, the room it uses holds the
  kitchen too. `emitTableStatusChanged` is never called.

**Payments and bills.**

* A refund asks nothing of where the order is: an advance given back after the release leaves
  the kitchen cooking, and one given back between the sum of an approval or a release and its
  write lets the order out without it (`crossed`), although `order.service.ts:660` says "a
  part-paid advance stays held". An order with one of several payments given back stays PAID
  and reads "Paid in Full" (`PartlyRefunded`; `payment.service.ts:655` calls it "still paid").
* Settling a held order by hand takes the whole bill and leaves it held for good
  (`order.service.ts:624`); this is `NeverStranded`'s exception.
* A capture event that arrives after a refund turns the row back to SUCCESS
  (`payment.service.ts:884` against `schema.prisma:825`).
* `recordCashPayment` books the whole bill even if an advance was collected; the checkout,
  the cash modal and the invoice's balance ask for it too (`PaidInAdvance`), although
  `TrackOrder.tsx:617-623` "keeps the amount on screen honest". The "Mark paid" button is
  then refused (`settleOrderPayment`, 547-549; `PaidInPart`).
* A PAID order that is still PENDING accepts items, stays PAID and reads "Paid in Full"
  (`GrownSincePaid`).
* Two overlapping refunds can leave an order PAID with nothing collected, two overlapping
  deposits can cover a bill and leave it UNPAID, and a failure that was read before a
  capture can overwrite the captured row, as can a live confirmation answered while the
  settings cannot be read, until the webhook repairs it.
* `getActivePaymentProvider` says a database blip "must not silently downgrade a live
  restaurant to the demo gateway" and then returns the demo gateway
  (`paymentProvider.ts:293-299`).
* The thermal slip halves the tax in floating point and may differ from the invoice by a
  paisa; invoice and slip print rates from the settings of today, not of the order; the
  advance dialog prints the settings' 20% beside an amount of 20% and 10% per thousand, and
  `client/lib/money.ts` hard-codes 3,000 and 20%.

**Cart and checkout.**

* The service-charge opt-out is shown and never sent (`CustomerCart.tsx:168-176`); the
  preferences of the dish sheet are dropped (`CustomerMenu.tsx:423`).
* Twin lines of one dish change together (`CartContext.tsx:101-124`); the answer to an
  order empties the cart of whatever was added meanwhile; a lost answer invites a second
  order, as nothing makes the request idempotent.
* The demo sheet's timer may confirm a payment a second time (`DemoCheckout.tsx:255`), its
  UPI tile waits for ever on a live gateway, Escape closes it while it authorises, and
  "Waiter Notified!" (717-755) sends nothing. A payment captured after the window was
  closed or a failure reported is booked by its webhook only.
* A guest is offered a bill above the threshold before a waiter has been at the table
  (`TooEarly`).

**Menu, tables, accounts, files.**

* Overlapping menu edits can leave an `offerPrice` that is not charged, although
  `schema.prisma:292-294` stores it so that no two readers can disagree on the price.
* `deleteCategory` and `deleteTable` count first and delete afterwards, so a dish or an
  order that arrives between loses its parent (`category.service.ts:164`,
  `table.service.ts:205`).
* Two overlapping saves of a role leave the union of both sets (`role.service.ts:150`:
  "exactly the given set"); two super administrators can deactivate each other, and a
  PATCH that demotes the last one is not counted at all (`user.service.ts:121-140`).
* Rendering a table's image again while its token is rotated prints the old code
  (`table.service.ts:145-178`).

**Reservations.**

* The form opens on the first sitting of today, gone or not (`Preselected`), although
  `Reserve.tsx` says "Times already gone today must not be selectable"; the booking is then
  refused. The list stops at 100 rows, and the rest of a day is nowhere.
* A party that grows is not checked against the table it was given, and one that is larger
  than every table can be accepted and confirmed, but never seated.
* `updateReservation` takes the capacity lock only when the size or the time changes and
  checks the row it read before; a longer sitting, a write over a row that moved
  meanwhile, a closed booking revived by a status written late, and a deactivated table
  are the four `breaches`.
* A guest who cancels a SEATED booking, or staff who move one to another table, never free
  the table (`reservation.service.ts:403-409`, 471-495).

**Sessions and access.**

* Two refreshes of one token at once both get an heir, although the comment on `refresh`
  says a crash cannot leave two live tokens; two tabs that share a cookie log each other out
  (`api.ts:69-73` shares its promise within one tab only).
* Deactivation does not end access "immediately" (`user.service.ts:172`): the access token
  lives out its fifteen minutes and the socket stays in its rooms.
* A staff socket refused once, after its token has expired, never comes back
  (`socket.ts:28-30`); a session that expires leaves it connected; its listeners stay on a
  socket that was replaced.
* The session is restored by two requests that may read two versions of the account; a
  `/me` that fails keeps the access token; the query cache survives a logout, so the next
  person on a shared tablet briefly sees the previous one's.
* The pages and the buttons of `HalfOpen` and `Ungated` (`Access`); a role without dashboard,
  kitchen or order permissions lands on `/serve`, which it cannot open; the Kitchen link
  asks for `kitchen:access`, its page for `order:read`; `emitWaiterOrderReady` "Only waiters
  receive this" uses the room of all staff; `ProtectedRoute` keeps where one wanted to go,
  and `Login.tsx` goes to "/".

**Reports.**

* On a day the clocks change, be it at midnight itself, `startOfTradingDay` takes the offset
  of now, not of midnight, for the rest of the day; its comment (`tradingDay.ts:88-90`) says "within the hour".
  This is `Steady`.
* The export cuts its days in UTC (`ExportOrdersButton.tsx:68-80`), the reports in the
  reporting zone, although `tradingDay.ts:6-8` says every report uses the same one: the
  violation of `order_book`. "Collected" is the totals of PAID orders, not the money in the ledger; a
  refunded order is revenue and neither collected nor outstanding; the guests' totals count
  held orders.
* `StaffOrders` filters its "open" tab from the newest 50 orders, `WaiterServe` (407) its
  held ones from the newest 60.

**The back office.**

* A form left open writes what it was filled with over what others saved, `isAcceptingOrders`
  included, and over one-tap switches; the banking form after a failed read saves its
  placeholders, and if a second read is under way when its save comes back, that read is joined
  and may show the row from before it (`joined`, `AdminBanking.tsx:72` and 113); the settings are refused until every optional box is filled
  (`admin.validation.ts:136-148`); a cleared optional box of a dish, a category or a review
  comes back (`KeptWhenCleared`).
* A failed refetch takes the settings and content editors away with what was typed; a save
  that ends closes whichever form is open by then; `AdminUsers` keeps a typed password when
  another account is chosen.
* Reviews are "not user-submitted" (`schema.prisma:755-758`), `createReview` accepts them,
  and one sent from a browser signed in as staff is published unmoderated.
* "Mark all read" marks notifications that were never listed; the badge and the list are
  read by two statements; `notifyOrderHeld` compares with a status that does not exist.

## 7. Not modelled

Each component is listed in `PROJECT.json` with its status and reason.

* *Audit trail*: append-only, decides nothing, and nothing reads it back in a decision.
* *HTTP plumbing, API documents, scripts*: Express wiring, rate limits, validation that only
  refuses, generated documents, one-off scripts. The upload directory is in `Registry`,
  the seeded roles are in `Access`.
* *Notifications*: only whom an event reaches (`Access`). The bell's marks are single updates;
  nothing deeper than the update itself could be said of them.
* *Tables*: `updateTable`, which renames and resizes; and the composition of `OrderFloor`
  and `Reservations` over one table's status, whose two writers each ignore the other.
* *Users and roles*: `createRole` and `updateRole`, which name a role.
* *Settings and content*: the content page's images, the public review form, and the effect of
  each setting elsewhere, where it is a constant or a switch.
* *Screens*: `Landing`, `AdminUsers`, `AdminPayments` are where inputs come from. The
  newest-50, 60 and 100 limits of the lists are left out of
  `OrderScreens`; small orders are paid after SERVED there. Public reads are left out of
  `Access`, and requests in it leave the state alone but for a renewal; drops of the socket are
  in `LiveUpdates`.
* *Sessions*: one login name, and one tab at a time in the run (two tabs bounce each other,
  section 6).
* *In all models*: names, phone numbers, notes, which dish a line of a placed order is of,
  wording and layout.

## 8. Plan

Done, in this order: the order floor with its gates and its abstract specification, the
menu's prices, the payment ledger and the theorems above; then the reservation book, the
sessions, the live updates, the cart and the checkout, the reports, screens and papers of
an order, the registry, the back office and the access tables.

Then the proofs: the book, the sessions, the live updates, the registry, the forms, the
refinement and the exposure cap of the floor, the sums of the ledger; and then the lone
tab, the screens, papers and reports of an order, the desk of the book, the cart, the
checkout and the access tables.

What would come next, most important first:

1. `OrderFloor` and `Reservations` over one table's status, whose two writers ignore each
   other, and the status that a deactivated table is given back.
2. `OfferedIsAccepted` and `AskedIsOwed` with several handlers, until a write overtakes what
   it read, as in `PaymentLedger`.
3. `Checkout` over `PaymentLedger`: the browser's two requests refined to the ledger's reads
   and commits.
4. The notifications and the content page's images.
