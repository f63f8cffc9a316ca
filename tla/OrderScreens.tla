---------------------------- MODULE OrderScreens -----------------------------
(***************************************************************************)
(* The buttons the screens of an order offer (StaffOrders, KitchenDisplay, *)
(* WaiterServe, TrackOrder) against what the server does when they are     *)
(* tapped: the permission of the route, then the guard of the handler.     *)
(* Both sides decide for themselves.  This module says what each decides   *)
(* for an order row and a role, and where they agree; it is checked on     *)
(* every row the floor reaches.                                            *)
(*                                                                         *)
(* The row a screen shows is taken to be up to date (LiveUpdates is about  *)
(* when it is), and on the page of the list it has fetched.                *)
(***************************************************************************)
EXTENDS OrderFloor

\* DEFAULT_ROLE_PERMISSIONS, as far as the screens of an order look at them.
Granted == [ ADMIN   |-> {"order:read", "order:updateStatus", "order:cancel", "order:approve"},
             KITCHEN |-> {"kitchen:access", "order:read", "order:updateStatus"},
             STAFF   |-> {"order:read", "order:updateStatus", "order:approve"} ]
Roles == DOMAIN Granted

\* The permission that opens the page (the ProtectedRoute of App.tsx).
PagePermission == [ kitchen |-> "order:read", staff |-> "order:read",
                    serve |-> "order:updateStatus" ]
Screens == DOMAIN PagePermission

\* (mutant) a new ticket goes straight to the stove
NextActionSkipping == [ PENDING |-> "PREPARING", CONFIRMED |-> "PREPARING",
                        PREPARING |-> "READY", READY |-> "SERVED" ]

\* NEXT_ACTION, the same table in both files: the move the one button makes.
NEXT_ACTION == [ PENDING |-> "CONFIRMED", CONFIRMED |-> "PREPARING",
                 PREPARING |-> "READY", READY |-> "SERVED" ]

When(act, condition) == IF condition THEN {act} ELSE {}

-----------------------------------------------------------------------------
(* What is offered *)

\* A ticket of KitchenDisplay: one tap, for whoever opened the page.
Ticket(row) == When("advance", row.status \in DOMAIN NEXT_ACTION)

\* A card of StaffOrders, every button behind its permission.
StaffOrders(row, role) ==
    LET can(permission) == permission \in Granted[role]
    IN  UNION { When("approve", row.status = "NEEDS_APPROVAL" /\ can("order:approve")),
                When("reject", row.status = "NEEDS_APPROVAL" /\ can("order:approve")),
                When("cashAdvance",
                     row.status = "AWAITING_ADVANCE_PAYMENT" /\ can("order:approve")),
                When("advance", row.status \in DOMAIN NEXT_ACTION /\ can("order:updateStatus")),
                When("markPaid",
                     row.payment = "UNPAID" /\ row.status # "CANCELLED" /\ can("order:updateStatus")),
                When("cancel", row.status \notin TerminalStatuses /\ can("order:cancel")) }

\* (mutant) a bill paid in part cannot be taken in cash
CashPaidInFull(row) == /\ row.status = "SERVED" /\ row.payment # "PAID"
                       /\ row.collected = 0

\* "Cash Paid" on a card, among its receipts.
CashPaid(row) == row.status = "SERVED" /\ row.payment # "PAID"

\* WaiterServe: the cards of the tabs, and the held orders pinned above them.
WaiterServe(row) ==
    UNION { When("serve", row.status = "READY"),
            When("cash", CashPaid(row)),
            When("cashAdvance", row.status = "AWAITING_ADVANCE_PAYMENT"),
            IF row.status = "NEEDS_APPROVAL" THEN {"approve", "reject"} ELSE {} }

\* TrackOrder and its advance dialog.  Below the 3,000 the payment section waits
\* for the meal to be served; a held order can be walked away from.
TrackOrder(row) ==
    UNION { When("pay", /\ row.status # "CANCELLED" /\ row.payment # "PAID"
                        /\ \/ row.status \in {"AWAITING_ADVANCE_PAYMENT", "SERVED"}
                           \/ row.total > 300000),
            When("void", row.status \in HELD_STATUSES) }

Offered(screen, role, row) ==
    IF PagePermission[screen] \notin Granted[role] THEN {}
    ELSE CASE screen = "kitchen" -> Ticket(row)
           [] screen = "staff"   -> StaffOrders(row, role)
           [] screen = "serve"   -> WaiterServe(row)

-----------------------------------------------------------------------------
(* What is accepted *)

\* authorize(...) on the routes of order.routes.ts and payment.routes.ts.
RoutePermission ==
    [ advance |-> "order:updateStatus", serve |-> "order:updateStatus",
      approve |-> "order:approve", reject |-> "order:approve", cancel |-> "order:cancel",
      markPaid |-> "order:updateStatus", cashAdvance |-> "order:approve",
      cash |-> "order:updateStatus" ]

\* The guard of the handler behind each button.
Guard(act, row) ==
    CASE act = "advance"     -> CanTransition(row.status, NEXT_ACTION[row.status])
      [] act = "serve"       -> CanTransition(row.status, "SERVED")
      [] act = "approve"     -> row.status = "NEEDS_APPROVAL"
      [] act = "reject"      -> row.status \in HELD_STATUSES
      [] act = "cancel"      -> CanTransition(row.status, "CANCELLED")
      [] act = "markPaid"    -> row.collected = 0
      [] act = "cashAdvance" -> /\ AllowCashAdvance /\ row.status = "AWAITING_ADVANCE_PAYMENT"
                                /\ row.advance > row.collected
      [] act = "cash"        -> row.payment # "PAID"
      [] act = "void"        -> row.status \in HELD_STATUSES
      [] act = "pay"         -> /\ row.status \notin {"CANCELLED", "NEEDS_APPROVAL"}
                                /\ row.payment # "PAID"
                                /\ IF row.status = "AWAITING_ADVANCE_PAYMENT"
                                   THEN row.advance > row.collected
                                   ELSE row.total > row.collected

Accepted(act, role, row) == RoutePermission[act] \in Granted[role] /\ Guard(act, row)

-----------------------------------------------------------------------------
(* Where the two disagree *)

\* The serve screen shows the buttons of a held order to everyone who opens it; the
\* kitchen may open it, and its route wants order:approve.
UngatedHold(screen, act, role) ==
    /\ screen = "serve" /\ act \in {"approve", "reject", "cashAdvance"}
    /\ "order:approve" \notin Granted[role]

\* "Mark paid" looks at paymentStatus, settleOrderPayment at the ledger: once an
\* advance is in, the rest cannot be taken with that button.
PaidInPart(act, row) == act = "markPaid" /\ row.collected > 0

\* The house does not take advances in cash, or this one was paid with the bill.
NoCashAdvance(act, row) ==
    act = "cashAdvance" /\ (~AllowCashAdvance \/ row.collected >= row.advance)

\* The guest is offered a bill the house refuses to take before a waiter has been at
\* the table, or an advance that is in already.
TooEarly(act, row) ==
    act = "pay" /\ (row.status = "NEEDS_APPROVAL" \/ row.collected >= row.advance)
                /\ row.status \in HELD_STATUSES

Rows == { order[o] : o \in { p \in Orders : Placed(p) } }

\* A button that is shown works: what a screen offers on a row is what its route and
\* handler accept, but for the four disagreements above.
OfferedIsAccepted ==
    \A row \in Rows :
        /\ \A role \in Roles, screen \in Screens :
               \A act \in Offered(screen, role, row) :
                   \/ Accepted(act, role, row) \/ UngatedHold(screen, act, role)
                   \/ PaidInPart(act, row) \/ NoCashAdvance(act, row)
        /\ \A act \in TrackOrder(row) : Guard(act, row) \/ TooEarly(act, row)

\* Someone can always carry the order on: while it is open, a button that works moves
\* it towards the table; when the food is served and not paid for, one takes the money.
\* Only an advance paid as part of something else leaves nothing but the cancel button.
NeverStranded ==
    \A row \in Rows :
        LET working(acts) == \E role \in Roles, screen \in Screens :
                                 \E act \in Offered(screen, role, row) \intersect acts :
                                     Accepted(act, role, row)
            guest(act) == act \in TrackOrder(row) /\ Guard(act, row)
        IN  /\ row.status \notin TerminalStatuses =>
                 \/ working({"advance", "serve", "approve", "cashAdvance"}) \/ guest("pay")
                 \/ /\ row.status = "AWAITING_ADVANCE_PAYMENT" /\ working({"cancel"})
                    /\ row.payment = "PAID" \/ row.collected >= row.advance
            /\ row.status = "SERVED" /\ row.payment # "PAID" => working({"cash"})
=============================================================================
