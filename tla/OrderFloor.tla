----------------------------- MODULE OrderFloor ------------------------------
(***************************************************************************)
(* The restaurant floor: order rows, table rows and the requests in flight *)
(* that change them (services/order.service.ts, the settling half of       *)
(* services/payment.service.ts, setTableActive of table.service.ts).       *)
(*                                                                         *)
(* Every request runs in a handler.  Its database transaction runs at      *)
(* Postgres' default isolation, READ COMMITTED: a read takes no lock and   *)
(* sees what is committed at that moment, an update by id is a blind write *)
(* that waits for the row's lock and is not re-checked after the wait, and *)
(* the writes of a transaction appear together when it commits.  So a      *)
(* request is a Read step, which evaluates the guards and keeps what it    *)
(* decided, and a Commit step, which writes that decision whatever has     *)
(* been committed in between.  A status change also counts the table's     *)
(* open orders while it holds the lock of its row: the Count step; and a   *)
(* payment adds the ledger up once more while it does: the Release step.   *)
(*                                                                         *)
(* A row that some transaction has updated and not committed is locked.    *)
(* With one handler requests are served one after the other; with more,    *)
(* they interleave.                                                        *)
(***************************************************************************)
EXTENDS Integers, Sequences, FiniteSets, FiniteSetsExt, Billing, OrderStatus

CONSTANTS
    Orders, Tables, Guests, Staff,
    Handlers,        \* requests the server can have in flight at once
    NoTable,         \* the table of a takeaway order
    Nobody,          \* a staff column that is still null
    Subtotals,       \* carts a guest may order, in minor units
    Extras,          \* additions staff may make to a running order
    MaxLines,        \* bound: what the lines of one order may add up to
    MaxPayments,     \* bound: an order this often paid begins no other payment
    TaxPercent, ServicePercent,
    Gates,           \* the walk-out gate settings
    AllowCashAdvance,
    AdminActs,       \* whether the floor plan and the opening switch change
    LongSittings     \* whether a session window can pass over an open order

ASSUME OrdersAssumption == IsFiniteSet(Orders)
ASSUME NobodyAssumption == Nobody \notin Staff
ASSUME GuestsAssumption == Guests # {}
ASSUME NoTableAssumption == NoTable \notin Tables
ASSUME AmountsAssumption ==
    /\ Subtotals \subseteq Nat /\ Extras \subseteq Nat
    /\ MaxLines \in Nat /\ MaxPayments \in Nat
    /\ TaxPercent \in Nat /\ ServicePercent \in Nat
ASSUME GatesAssumption ==
    Gates \in [threshold: Nat, approvalRequired: BOOLEAN, advanceRequired: BOOLEAN]
ASSUME SwitchesAssumption ==
    AllowCashAdvance \in BOOLEAN /\ AdminActs \in BOOLEAN /\ LongSittings \in BOOLEAN

VARIABLES
    order,      \* the Order rows
    table,      \* the Table rows
    accepting,  \* RestaurantSettings.isAcceptingOrders
    request,    \* what each handler is doing
    waived,     \* history: orders PATCHed out of a hold by hand
    crossed     \* history: orders that gave money back while another request about
                \* them was in flight

vars == <<order, table, accepting, request, waived, crossed>>

TotalOf(lines) == TotalAmount(lines, TaxPercent, ServicePercent, 0)

PaymentStatuses == {"UNPAID", "PAID", "REFUNDED"}

OrderRow ==
    [ status:     OrderStatuses \union {"UNPLACED"},
      table:      Tables \union {NoTable},
      guest:      Guests,
      lines:      Nat,                    \* the sum of the OrderItem line totals
      total:      Nat,
      advance:    Nat,                    \* zero for a null advanceAmount
      receipts:   Seq(Nat),               \* the payments booked; zero once refunded
      collected:  Nat,                    \* the sum of the SUCCESS payments
      payment:    PaymentStatuses,        \* paymentStatus
      approvedBy: Staff \union {Nobody},
      handledBy:  Staff \union {Nobody},
      recent:     BOOLEAN,                \* placed within SESSION_WINDOW_HOURS
      hold:       OrderStatuses ]         \* history: the status it was created in

TableRow == [status: {"AVAILABLE", "OCCUPIED", "INACTIVE"}, isActive: BOOLEAN]

\* A handler is idle or carries what its request has read and decided so far.
Idle       == [op |-> "none"]
PlaceReq   == [op: {"place"}, o: Orders, row: OrderRow]
VoidReq    == [op: {"void"}, o: Orders, actor: Staff \union {Nobody}]
StatusReq  == [op: {"status"}, o: Orders, actor: Staff \union {Nobody},
               seen: OrderStatuses, next: OrderStatuses, first: BOOLEAN]
CountedReq == [op: {"counted"}, o: Orders, actor: Staff \union {Nobody},
               seen: OrderStatuses, next: OrderStatuses, first: BOOLEAN, frees: BOOLEAN]
ApproveReq == [op: {"approve"}, o: Orders, actor: Staff, next: OrderStatuses]
AddReq     == [op: {"add"}, o: Orders, extra: Nat, total: Nat]
PayReq     == [op: {"pay"}, o: Orders, amount: Nat]
BookReq    == [op: {"book"}, o: Orders, amount: Nat, settles: BOOLEAN]
ReleaseReq == [op: {"release"}, o: Orders, amount: Nat, settles: BOOLEAN, releases: BOOLEAN]
SettleReq  == [op: {"settle"}, o: Orders, amount: Nat, payment: PaymentStatuses]
RefundReq  == [op: {"refund"}, o: Orders, gone: SUBSET Nat, closes: BOOLEAN]
Request    == {Idle} \union PlaceReq \union VoidReq \union StatusReq \union CountedReq
                \union ApproveReq \union AddReq \union PayReq \union BookReq
                \union ReleaseReq \union SettleReq \union RefundReq

Placed(o)  == order[o].status # "UNPLACED"
IsIdle(h)  == request[h].op = "none"
Doing(h, op) == request[h].op = op
\* The row lock of an order, held from the update to the end of the transaction.
Locked(o)  == \E h \in Handlers : request[h].op \in {"counted", "release"} /\ request[h].o = o
Finish(h)  == request' = [request EXCEPT ![h] = Idle]
Start(h, req) == IsIdle(h) /\ request' = [request EXCEPT ![h] = req]
Continue(h, req) == request' = [request EXCEPT ![h] = req]

\* An update by id rewrites one order row.
Update(o, row) == order' = [order EXCEPT ![o] = row]

Balance(o) == AtLeastZero(order[o].total - order[o].collected)

\* What the house stands to lose on a table; on the guest, for a takeaway.
Unsettled(t, g) ==
    { o \in Orders : /\ order[o].status \notin {"UNPLACED", "CANCELLED"}
                     /\ order[o].payment # "PAID"
                     /\ order[o].recent
                     /\ IF t # NoTable THEN order[o].table = t ELSE order[o].guest = g }
OpenBalance(t, g) == MapThenSumSet(Balance, Unsettled(t, g))

Unplaced(g) ==
    [ status |-> "UNPLACED", table |-> NoTable, guest |-> g, lines |-> 0, total |-> 0,
      advance |-> 0, receipts |-> <<>>, collected |-> 0, payment |-> "UNPAID",
      approvedBy |-> Nobody, handledBy |-> Nobody, recent |-> FALSE, hold |-> "PENDING" ]

Init ==
    /\ order = [o \in Orders |-> Unplaced(CHOOSE g \in Guests : TRUE)]
    /\ table = [t \in Tables |-> [status |-> "AVAILABLE", isActive |-> TRUE]]
    /\ accepting = TRUE
    /\ request = [h \in Handlers |-> Idle]
    /\ waived = {} /\ crossed = {}

-----------------------------------------------------------------------------
(* placeOrder *)

\* Settings, table, menu and the open balance are read; the hold is decided.  The
\* guest's Customer row was updated before that and stays locked: placings of one
\* guest exclude each other.
ReadPlace(h, o, t, g, subtotal) ==
    /\ ~Placed(o)
    /\ \A k \in Handlers : Doing(k, "place") => request[k].o # o /\ request[k].row.guest # g
    /\ accepting
    /\ t # NoTable => table[t].isActive /\ table[t].status # "INACTIVE"
    /\ LET total == TotalOf(subtotal)
           hold  == EvaluateHold(OpenBalance(t, g) + total, total, Gates)
       IN  Start(h, [op |-> "place", o |-> o, row |->
               [ Unplaced(g) EXCEPT !.status = hold.status, !.hold = hold.status,
                                    !.advance = hold.advance, !.table = t,
                                    !.lines = subtotal, !.total = total, !.recent = TRUE ]])
    /\ UNCHANGED <<order, table, accepting, waived, crossed>>

\* (mutant) a held order does not take its table
CommitPlaceUnseated(h) ==
    /\ Doing(h, "place")
    /\ LET o == request[h].o
           t == request[h].row.table
       IN  /\ Update(o, request[h].row)
           /\ table' = IF t = NoTable \/ request[h].row.status \in HELD_STATUSES THEN table
                       ELSE [table EXCEPT ![t].status = "OCCUPIED"]
    /\ Finish(h)
    /\ UNCHANGED <<accepting, waived, crossed>>

\* The order row appears and its table reads as occupied.
CommitPlace(h) ==
    /\ Doing(h, "place")
    /\ LET o == request[h].o
           t == request[h].row.table
       IN  /\ Update(o, request[h].row)
           /\ table' = IF t = NoTable THEN table
                       ELSE [table EXCEPT ![t].status = "OCCUPIED"]
    /\ Finish(h)
    /\ UNCHANGED <<accepting, waived, crossed>>

-----------------------------------------------------------------------------
(* applyStatusChange, and the requests that end in it *)

\* The transaction reads the row and checks the transition.
StatusRead(o, next, actor) ==
    [ op |-> "status", o |-> o, actor |-> actor, seen |-> order[o].status, next |-> next,
      first |-> actor # Nobody /\ order[o].handledBy = Nobody ]

\* updateStatus, serveOrder and cancelOrder: staff set a status.
ReadUpdate(h, o, next, actor) ==
    /\ Placed(o)
    /\ CanTransition(order[o].status, next)
    /\ Start(h, StatusRead(o, next, actor))
    /\ UNCHANGED <<order, table, accepting, waived, crossed>>

\* rejectOrder by staff, cancelHeldOrderByToken by the guest (actor Nobody):
\* the hold is checked before the transaction opens ...
CheckVoid(h, o, actor) ==
    /\ Placed(o)
    /\ order[o].status \in HELD_STATUSES
    /\ Start(h, [op |-> "void", o |-> o, actor |-> actor])
    /\ UNCHANGED <<order, table, accepting, waived, crossed>>

\* ... and the transaction itself asks only for a legal transition.
ReadVoid(h) ==
    /\ Doing(h, "void")
    /\ CanTransition(order[request[h].o].status, "CANCELLED")
    /\ Continue(h, StatusRead(request[h].o, "CANCELLED", request[h].actor))
    /\ UNCHANGED <<order, table, accepting, waived, crossed>>

OpenOn(t) == { p \in Orders : /\ order[p].table = t
                              /\ order[p].status \notin TerminalStatuses \union {"UNPLACED"} }

\* The update takes the row's lock; then what else is open on the table is counted.
CountOpen(h) ==
    /\ Doing(h, "status")
    /\ LET o == request[h].o
           r == request[h]
       IN  /\ ~Locked(o)
           /\ Continue(h,
                [ op |-> "counted", o |-> o, actor |-> r.actor, seen |-> r.seen,
                  next |-> r.next, first |-> r.first,
                  frees |-> /\ order[o].table # NoTable
                            /\ r.next \in TerminalStatuses
                            /\ OpenOn(order[o].table) \subseteq {o} ])
    /\ UNCHANGED <<order, table, accepting, waived, crossed>>

CommitStatus(h) ==
    /\ Doing(h, "counted")
    /\ LET r == request[h]
           o == r.o
       IN  /\ Update(o, [order[o] EXCEPT !.status    = r.next,
                            !.handledBy = IF r.first THEN r.actor ELSE order[o].handledBy])
           /\ table' = IF r.frees THEN [table EXCEPT ![order[o].table].status = "AVAILABLE"]
                       ELSE table
           /\ waived' = IF r.seen \in HELD_STATUSES /\ r.next = "PENDING"
                        THEN waived \union {o} ELSE waived
    /\ Finish(h)
    /\ UNCHANGED <<accepting, crossed>>

-----------------------------------------------------------------------------
(* approveOrder *)

\* (mutant) an advance that was given back still counts
ReadApproveOnReceipts(h, o, actor) ==
    /\ order[o].status = "NEEDS_APPROVAL"
    /\ Start(h, [ op |-> "approve", o |-> o, actor |-> actor, next |->
            IF order[o].collected < order[o].advance /\ order[o].receipts = <<>>
            THEN "AWAITING_ADVANCE_PAYMENT" ELSE "PENDING" ])
    /\ UNCHANGED <<order, table, accepting, waived, crossed>>

\* Where an approved order goes depends on the money already collected.
ReadApprove(h, o, actor) ==
    /\ order[o].status = "NEEDS_APPROVAL"
    /\ Start(h, [ op |-> "approve", o |-> o, actor |-> actor, next |->
            IF order[o].collected < order[o].advance THEN "AWAITING_ADVANCE_PAYMENT"
                                                     ELSE "PENDING" ])
    /\ UNCHANGED <<order, table, accepting, waived, crossed>>

\* (mutant) the approver is not recorded
CommitApproveAnonymously(h) ==
    /\ Doing(h, "approve")
    /\ LET r == request[h]
       IN  /\ ~Locked(r.o)
           /\ order' = [order EXCEPT ![r.o].status = r.next]
    /\ Finish(h)
    /\ UNCHANGED <<table, accepting, waived, crossed>>

CommitApprove(h) ==
    /\ Doing(h, "approve")
    /\ LET r == request[h]
       IN  /\ ~Locked(r.o)
           /\ Update(r.o, [order[r.o] EXCEPT !.status = r.next, !.approvedBy = r.actor])
    /\ Finish(h)
    /\ UNCHANGED <<table, accepting, waived, crossed>>

-----------------------------------------------------------------------------
(* addItems *)

\* (mutant) the stored total is trusted and taxed again
ReadAddOnTotal(h, o, extra) ==
    /\ order[o].status \in EDITABLE_STATUSES
    /\ order[o].lines + extra <= MaxLines
    /\ Start(h, [ op |-> "add", o |-> o, extra |-> extra,
                  total |-> TotalOf(order[o].total + extra) ])
    /\ UNCHANGED <<order, table, accepting, waived, crossed>>

\* The new total is computed from the lines the transaction has read.
ReadAdd(h, o, extra) ==
    /\ order[o].status \in EDITABLE_STATUSES
    /\ order[o].lines + extra <= MaxLines
    /\ Start(h, [ op |-> "add", o |-> o, extra |-> extra,
                  total |-> TotalOf(order[o].lines + extra) ])
    /\ UNCHANGED <<order, table, accepting, waived, crossed>>

\* The total is overwritten; the new lines are inserted beside those there are.
CommitAdd(h) ==
    /\ Doing(h, "add")
    /\ LET r == request[h]
       IN  /\ ~Locked(r.o)
           /\ Update(r.o, [order[r.o] EXCEPT !.total = r.total, !.lines = order[r.o].lines + r.extra])
    /\ Finish(h)
    /\ UNCHANGED <<table, accepting, waived, crossed>>

-----------------------------------------------------------------------------
(* Money.  A payment is first checked against the order outside any         *)
(* transaction; the amount is fixed there.  Then its transaction books it.  *)

Payable(o) == Len(order[o].receipts) < MaxPayments

AdvanceDue(o) == order[o].advance - order[o].collected

\* (mutant) the double-tap guard is missing
CheckCashAdvanceTwice(h, o) ==
    /\ AllowCashAdvance
    /\ order[o].status = "AWAITING_ADVANCE_PAYMENT"
    /\ Payable(o)
    /\ Start(h, [op |-> "pay", o |-> o, amount |-> AdvanceDue(o)])
    /\ UNCHANGED <<order, table, accepting, waived, crossed>>

\* recordCashAdvance: what is left of the advance, in cash.
CheckCashAdvance(h, o) ==
    /\ AllowCashAdvance
    /\ order[o].status = "AWAITING_ADVANCE_PAYMENT"
    /\ AdvanceDue(o) > 0 /\ Payable(o)
    /\ Start(h, [op |-> "pay", o |-> o, amount |-> AdvanceDue(o)])
    /\ UNCHANGED <<order, table, accepting, waived, crossed>>

\* recordCashPayment: the whole bill, in cash, whatever was collected before.
CheckCashPayment(h, o) ==
    /\ Placed(o) /\ Payable(o)
    /\ order[o].payment # "PAID"
    /\ Start(h, [op |-> "pay", o |-> o, amount |-> order[o].total])
    /\ UNCHANGED <<order, table, accepting, waived, crossed>>

\* initiateOnlinePayment: the advance while it is owed, else what is outstanding.
\* The guest is then at the gateway; the capture arrives later or never.
InitiateOnline(h, o) ==
    /\ order[o].status \notin {"UNPLACED", "CANCELLED", "NEEDS_APPROVAL"}
    /\ order[o].payment # "PAID" /\ Payable(o)
    /\ LET due == IF order[o].status = "AWAITING_ADVANCE_PAYMENT"
                  THEN AdvanceDue(o) ELSE order[o].total - order[o].collected
       IN  /\ due > 0
           /\ Start(h, [op |-> "pay", o |-> o, amount |-> due])
    /\ UNCHANGED <<order, table, accepting, waived, crossed>>

\* The settlement transaction inserts the payment and adds up the ledger.
ReadBook(h) ==
    /\ Doing(h, "pay")
    /\ LET o == request[h].o
       IN  Continue(h, [ op |-> "book", o |-> o, amount |-> request[h].amount,
               settles |-> order[o].collected + request[h].amount >= order[o].total ])
    /\ UNCHANGED <<order, table, accepting, waived, crossed>>

\* reconcileAfterPayment writes the summary, which locks the row; then
\* releaseAfterPayment reads the status and adds the ledger up once more.
ReadRelease(h) ==
    /\ Doing(h, "book")
    /\ LET r == request[h]
           o == r.o
       IN  /\ ~Locked(o)
           /\ Continue(h, [ op |-> "release", o |-> o, amount |-> r.amount,
                            settles |-> r.settles,
                            releases |-> /\ order[o].status = "AWAITING_ADVANCE_PAYMENT"
                                         /\ order[o].collected + r.amount >= order[o].advance ])
    /\ UNCHANGED <<order, table, accepting, waived, crossed>>

\* A payment of the ledger, and its share in what has been collected.
Booked(row, amount) == [row EXCEPT !.receipts  = Append(row.receipts, amount),
                                   !.collected = row.collected + amount]

CommitBook(h) ==
    /\ Doing(h, "release")
    /\ LET r == request[h]
       IN  Update(r.o, [ Booked(order[r.o], r.amount) EXCEPT
                !.payment = IF r.settles THEN "PAID" ELSE order[r.o].payment,
                !.status  = IF r.releases THEN "PENDING" ELSE order[r.o].status ])
    /\ Finish(h)
    /\ UNCHANGED <<table, accepting, waived, crossed>>

\* settleOrderPayment, to PAID (books the bill) or to UNPAID, from the staff
\* screen: only while nothing has been collected.
ReadSettle(h, o, payment) ==
    /\ Placed(o)
    /\ order[o].collected = 0
    /\ payment = "PAID" => Payable(o)
    /\ Start(h, [ op |-> "settle", o |-> o, payment |-> payment,
                  amount |-> IF payment = "PAID" THEN order[o].total ELSE 0 ])
    /\ UNCHANGED <<order, table, accepting, waived, crossed>>

CommitSettle(h) ==
    /\ Doing(h, "settle")
    /\ LET r == request[h]
       IN  /\ ~Locked(r.o)
           /\ Update(r.o, [ (IF r.payment = "PAID" THEN Booked(order[r.o], r.amount)
                                                  ELSE order[r.o])
                             EXCEPT !.payment = r.payment ])
    /\ Finish(h)
    /\ UNCHANGED <<table, accepting, waived, crossed>>

\* The payments that are still SUCCESS.
Standing(o) == { i \in DOMAIN order[o].receipts : order[o].receipts[i] > 0 }

\* refundPayment reverses one payment; the summary follows when no other stands.
ReadRefund(h, o, i) ==
    /\ Placed(o) /\ i \in Standing(o)
    /\ Start(h, [op |-> "refund", o |-> o, gone |-> {i}, closes |-> Standing(o) = {i}])
    /\ UNCHANGED <<order, table, accepting, waived, crossed>>

\* settleOrderPayment to REFUNDED reverses whatever stands.
ReadSettleRefund(h, o) ==
    /\ Placed(o) /\ Standing(o) # {}
    /\ Start(h, [op |-> "refund", o |-> o, gone |-> Standing(o), closes |-> TRUE])
    /\ UNCHANGED <<order, table, accepting, waived, crossed>>

SumOf(receipts) == MapThenSumSet(LAMBDA i : receipts[i], DOMAIN receipts)
Without(receipts, gone) == [i \in DOMAIN receipts |-> IF i \in gone THEN 0 ELSE receipts[i]]

\* The payments are reversed in place.  Nothing asks where the order is by then, and
\* only a refund that changes the summary waits for the row.
CommitRefund(h) ==
    /\ Doing(h, "refund")
    /\ LET r    == request[h]
           o    == r.o
           left == Without(order[o].receipts, r.gone)
       IN  /\ r.closes => ~Locked(o)
           /\ Update(o, [order[o] EXCEPT !.receipts  = left,
                                        !.collected = SumOf(left),
                                        !.payment   = IF r.closes THEN "REFUNDED"
                                                      ELSE order[o].payment ])
           /\ crossed' = IF \E k \in Handlers \ {h} : ~IsIdle(k) /\ request[k].o = o
                         THEN crossed \union {o} ELSE crossed
    /\ Finish(h)
    /\ UNCHANGED <<table, accepting, waived>>

-----------------------------------------------------------------------------
(* Around the orders *)

\* A request ends without a trace: its guard fails in the transaction, the guest
\* leaves the gateway, the transaction times out or the server restarts.
Abort(h) ==
    /\ ~IsIdle(h)
    /\ Finish(h)
    /\ UNCHANGED <<order, table, accepting, waived, crossed>>

\* setTableActive writes the flag and the status together.
SetTableActive(t, isActive) ==
    /\ AdminActs
    /\ table' = [table EXCEPT ![t] =
          [isActive |-> isActive, status |-> IF isActive THEN "AVAILABLE" ELSE "INACTIVE"]]
    /\ UNCHANGED <<order, accepting, request, waived, crossed>>

SetAccepting(b) ==
    /\ AdminActs
    /\ accepting' = b
    /\ UNCHANGED <<order, table, request, waived, crossed>>

\* SESSION_WINDOW_HOURS pass over an order.
WindowPasses(o) ==
    /\ LongSittings
    /\ order[o].recent
    /\ order' = [order EXCEPT ![o].recent = FALSE]
    /\ UNCHANGED <<table, accepting, request, waived, crossed>>

-----------------------------------------------------------------------------
Guest(h) ==
    \E o \in Orders :
        \/ \E t \in Tables \union {NoTable}, g \in Guests, s \in Subtotals :
               ReadPlace(h, o, t, g, s)
        \/ CheckVoid(h, o, Nobody)
        \/ InitiateOnline(h, o)

Staffed(h) ==
    \E o \in Orders, a \in Staff :
        \/ \E next \in SettableStatuses : ReadUpdate(h, o, next, a)
        \/ CheckVoid(h, o, a)
        \/ ReadApprove(h, o, a)
        \/ \E extra \in Extras : ReadAdd(h, o, extra)
        \/ CheckCashAdvance(h, o)
        \/ CheckCashPayment(h, o)
        \/ \E payment \in {"PAID", "UNPAID"} : ReadSettle(h, o, payment)
        \/ \E i \in DOMAIN order[o].receipts : ReadRefund(h, o, i)
        \/ ReadSettleRefund(h, o)

Proceed(h) ==
    \/ CommitPlace(h) \/ ReadVoid(h) \/ CountOpen(h) \/ CommitStatus(h)
    \/ CommitApprove(h) \/ CommitAdd(h) \/ ReadBook(h) \/ ReadRelease(h)
    \/ CommitBook(h) \/ CommitSettle(h) \/ CommitRefund(h) \/ Abort(h)

Environment ==
    \/ \E t \in Tables, b \in BOOLEAN : SetTableActive(t, b)
    \/ \E b \in BOOLEAN : SetAccepting(b)
    \/ \E o \in Orders : WindowPasses(o)

Next == (\E h \in Handlers : Guest(h) \/ Staffed(h) \/ Proceed(h)) \/ Environment

Spec == Init /\ [][Next]_vars

-----------------------------------------------------------------------------
TypeOK ==
    /\ order \in [Orders -> OrderRow]
    /\ table \in [Tables -> TableRow]
    /\ accepting \in BOOLEAN
    /\ request \in [Handlers -> Request]
    /\ waived \subseteq Orders /\ crossed \subseteq Orders

\* The statuses in which the kitchen has been told, or has already cooked.
Cooked == KitchenQueue \union {"SERVED"}

(* What holds however the requests interleave. *)

\* An order that owes an advance is not let out of its hold before the advance has been
\* collected and not given back, unless staff PATCH it out: no stale approval, status
\* change or settlement lets one through (approveOrder, releaseAfterPayment,
\* refundPayment).  Only a refund can fall between the moment another request about the
\* order adds up its money and the moment it acts on that sum.
GateHonoured ==
    [][ \A o \in Orders \ (waived' \union crossed') :
            /\ order[o].status \in HELD_STATUSES \union {"UNPLACED"}
            /\ order'[o].status \in Cooked
            => order'[o].collected >= order'[o].advance ]_vars

\* An order created for approval is past that gate only with an approver's name
\* on it, or PATCHed out by hand.
ApprovalHonoured ==
    \A o \in Orders \ waived :
        order[o].hold = "NEEDS_APPROVAL"
          => \/ order[o].status \in {"UNPLACED", "NEEDS_APPROVAL", "CANCELLED"}
             \/ order[o].approvedBy # Nobody

\* Lost updates between additions may lose money for the house, but no guest is
\* ever billed for more than the lines of the order (addItems).
NeverOverbilled ==
    \A o \in Orders : order[o].total <= TotalOf(order[o].lines)

(* Why: what a request in flight has decided stays true of its order until   *)
(* it is written, although the order's status may have moved.                *)

Cleared(o)  == o \in waived \union crossed \/ order[o].collected >= order[o].advance
Approved(o) == \/ o \in waived
               \/ order[o].approvedBy # Nobody
               \/ order[o].hold # "NEEDS_APPROVAL"

\* Whether the order can still be on its way out of a hold.
Unsure(o)   == \/ order[o].status \in HELD_STATUSES
               \/ \E h \in Handlers : Doing(h, "approve") /\ request[h].o = o

\* No two requests place the same order.
NoRival ==
    \A h, k \in Handlers : h # k /\ Doing(h, "place") /\ Doing(k, "place")
                             => request[h].o # request[k].o

PlacingSound(r) ==
    /\ ~Placed(r.o)
    /\ r.row.status \in HELD_STATUSES \union {"PENDING"} /\ r.row.hold = r.row.status
    /\ r.row.status = "PENDING" => r.row.advance = 0
    /\ r.row.total = TotalOf(r.row.lines)

StatusSound(r) ==
    /\ CanTransition(r.seen, r.next) /\ r.next \in SettableStatuses
    /\ r.seen \in Cooked => Approved(r.o) /\ (Unsure(r.o) => Cleared(r.o))

ApprovingSound(r) ==
    /\ r.next \in {"AWAITING_ADVANCE_PAYMENT", "PENDING"}
    /\ r.next = "PENDING" => Cleared(r.o)

ReleasingSound(r) ==
    r.releases => /\ Approved(r.o)
                  /\ \/ r.o \in crossed
                     \/ order[r.o].collected + r.amount >= order[r.o].advance

AddingSound(r) == r.total <= TotalOf(order[r.o].lines + r.extra)

Sound(r) ==
    /\ r.op = "place" => PlacingSound(r)
    /\ r.op \notin {"none", "place"} => Placed(r.o)
    /\ r.op \in {"status", "counted"} => StatusSound(r)
    /\ r.op = "approve" => ApprovingSound(r)
    /\ r.op = "release" => ReleasingSound(r)
    /\ r.op = "add" => AddingSound(r)

\* What each request in flight (placeOrder, applyStatusChange, approveOrder,
\* releaseAfterPayment, addItems) still knows of its order when it commits; and a
\* cooked order an approval is still on its way to has its advance.
InFlightSound ==
    /\ NoRival
    /\ \A h \in Handlers : Sound(request[h])
    /\ \A o \in Orders : order[o].status \in Cooked /\ Unsure(o) => Cleared(o)

-----------------------------------------------------------------------------
(* What holds when requests are served one at a time: two that overlap on a  *)
(* table or an order can break each of them.                                 *)

\* A payment of the order has been given back.
GaveBack(row) == \E i \in DOMAIN row.receipts : row.receipts[i] = 0

\* With the approval gate on, the orders that went straight to the kitchen never
\* leave a table owing the threshold or more, but for money that was given back:
\* splitting an order does not beat it.
ExposureCapped ==
    Gates.approvalRequired /\ Gates.threshold > 0 =>
        \A t \in Tables :
            MapThenSumSet(Balance, { o \in Unsettled(t, CHOOSE g \in Guests : TRUE) :
                    order[o].hold = "PENDING" /\ ~GaveBack(order[o]) }) < Gates.threshold

\* Served one at a time, the requests implement the atomic workflow that the
\* comments of order.service.ts promise.
Promise == INSTANCE FloorPromise WITH
    status   <- [o \in Orders |-> order[o].status],
    seat     <- [o \in Orders |-> order[o].table],
    occupied <- { t \in Tables : table[t].status = "OCCUPIED" }
KeepsPromise == Promise!Spec
=============================================================================
