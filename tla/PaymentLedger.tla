---------------------------- MODULE PaymentLedger ----------------------------
(***************************************************************************)
(* The payment rows of one order, the summary the order keeps of them, the *)
(* gateway and the requests that settle, fail, refund and retry            *)
(* (services/payment.service.ts).  No operation of that file touches the   *)
(* rows of two orders, so one order is enough.                             *)
(*                                                                         *)
(* Requests run as in OrderFloor: a step that reads and decides, and a     *)
(* commit that writes by id what was decided.  A transaction that has      *)
(* updated a payment row keeps it locked while it adds up or counts the    *)
(* others.  The gateway is external: each intent is attempted until one    *)
(* attempt is authorised, an authorised attempt is captured, and every     *)
(* attempt is reported by webhooks that may come late, out of order and    *)
(* more than once.                                                         *)
(***************************************************************************)
EXTENDS Integers, OrderStatus

CONSTANTS
    Handlers,        \* requests the server can have in flight at once
    MaxPayments,     \* bound: payment rows of the order
    MaxAttempts,     \* bound: attempts the guest makes on one intent
    Total, Advance,  \* the order's bill and, if it is held, its advance
    Extra, MaxTotal  \* what one addition adds to the bill; bound on the bill

ASSUME BoundsAssumption == MaxPayments \in Nat /\ MaxAttempts \in Nat
ASSUME AmountsAssumption ==
    /\ Total \in Nat \ {0} /\ Advance \in 1..Total
    /\ Extra \in Nat /\ MaxTotal \in Nat

VARIABLES
    order,      \* the Order row: status, total, advance and payment summary
    payment,    \* its Payment rows
    attempt,    \* at the gateway: the state of each attempt on each intent
    acked,      \* at the gateway: intents whose capture was answered with 200
    request,    \* what each handler is doing
    stale,      \* history: handlers whose order or ledger changed since they read it
    overtaken   \* history: such a handler has written

vars == <<order, payment, attempt, acked, request, stale, overtaken>>

Payments == 1..MaxPayments
Attempts == 1..MaxAttempts
Intent   == 0      \* providerRef: the id of the intent, until an attempt's replaces it

OrderRow == [ status: OrderStatuses, total: Nat, advance: Nat,
              summary: {"UNPAID", "PAID", "REFUNDED"} ]
Row == [ status: {"PENDING", "SUCCESS", "FAILED", "REFUNDED"}, amount: Nat,
         online: BOOLEAN, ref: {Intent} \union Attempts ]
NoRow == [status |-> "ABSENT"]

Idle       == [op |-> "none"]
IntentReq  == [op: {"intent"}, p: Payments, row: Row]
MoneyReq   == [op: {"money"}, p: Payments, row: Row, hook: BOOLEAN]
BookReq    == [op: {"book"}, p: Payments, row: Row, hook: BOOLEAN, settles: BOOLEAN]
FailReq    == [op: {"fail"}, p: Payments]
RefundReq  == [op: {"refund"}, p: Payments]
CountedReq == [op: {"counted"}, p: Payments, last: BOOLEAN]
PaidReq    == [op: {"paid"}, p: Payments, row: Row]
SettleReq  == [op: {"settle"}, to: {"UNPAID", "REFUNDED"}]
Request    == {Idle} \union IntentReq \union MoneyReq \union BookReq \union FailReq
                \union RefundReq \union CountedReq \union PaidReq \union SettleReq

Init ==
    /\ \E s \in HELD_STATUSES \union {"PENDING"} :
          order = [ status |-> s, total |-> Total, summary |-> "UNPAID",
                    advance |-> IF s = "PENDING" THEN 0 ELSE Advance ]
    /\ payment = [p \in Payments |-> NoRow]
    /\ attempt = [p \in Payments |-> [a \in Attempts |-> "none"]]
    /\ acked = {}
    /\ request = [h \in Handlers |-> Idle]
    /\ stale = {}
    /\ overtaken = FALSE

Succeeded == { p \in Payments : payment[p].status = "SUCCESS" }
Credited  == [p \in Payments |-> IF payment[p].status = "SUCCESS" THEN payment[p].amount ELSE 0]
Sum(f)    == LET upto[n \in 0..MaxPayments] == IF n = 0 THEN 0 ELSE upto[n - 1] + f[n]
             IN  upto[MaxPayments]
Collected == Sum(Credited)

Doing(h, op)     == request[h].op = op
Start(h, req)    == Doing(h, "none") /\ request' = [request EXCEPT ![h] = req]
Continue(h, req) == request' = [request EXCEPT ![h] = req]
Finish(h)        == request' = [request EXCEPT ![h] = Idle]

\* A payment row some transaction has updated and not committed.
Locked(p) == \E h \in Handlers : request[h].op \in {"book", "counted"} /\ request[h].p = p

\* The next row to be created: none is there, and no request is about to insert it.
Used(p) == \/ payment[p] # NoRow
           \/ \E h \in Handlers : request[h].op \in {"intent", "money", "book", "paid"}
                                  /\ request[h].p = p
Free(p) == ~Used(p) /\ \A q \in 1..(p - 1) : Used(q)

\* The request of h writes: it outdates what the others have read.
Writes(h) ==
    /\ Finish(h)
    /\ overtaken' = (overtaken \/ h \in stale)
    /\ stale' = { k \in Handlers \ {h} : ~Doing(k, "none") }

Unwritten == UNCHANGED <<order, payment, stale, overtaken>>

-----------------------------------------------------------------------------
(* initiateOnlinePayment *)

\* The advance while it is owed, else what is outstanding.
ReadInitiate(h, p) ==
    /\ order.summary # "PAID"
    /\ order.status \notin {"CANCELLED", "NEEDS_APPROVAL"}
    /\ LET target == IF order.status = "AWAITING_ADVANCE_PAYMENT" THEN order.advance ELSE order.total
       IN  /\ target - Collected \in Nat \ {0}
           /\ Start(h, [op |-> "intent", p |-> p, row |->
                  [ status |-> "PENDING", amount |-> target - Collected,
                    online |-> TRUE, ref |-> Intent ]])
    /\ Free(p)
    /\ Unwritten /\ UNCHANGED <<attempt, acked>>

\* The gateway has answered with an intent; its row is created.
CommitIntent(h) ==
    /\ Doing(h, "intent")
    /\ payment' = [payment EXCEPT ![request[h].p] = request[h].row]
    /\ Finish(h)
    /\ stale' = stale \ {h}
    /\ UNCHANGED <<order, attempt, acked, overtaken>>

-----------------------------------------------------------------------------
(* The gateway and the guest at its checkout *)

Accepted(p, a) == attempt[p][a] \in {"authorised", "captured"}

AttemptMade(p, a, outcome) ==
    /\ payment[p] # NoRow /\ payment[p].online
    /\ attempt[p][a] = "none" /\ \A b \in 1..(a - 1) : attempt[p][b] = "failed"
    /\ attempt' = [attempt EXCEPT ![p][a] = outcome]
    /\ Unwritten /\ UNCHANGED <<acked, request>>

Capture(p, a) ==
    /\ attempt[p][a] = "authorised"
    /\ attempt' = [attempt EXCEPT ![p][a] = "captured"]
    /\ Unwritten /\ UNCHANGED <<acked, request>>

-----------------------------------------------------------------------------
(* confirmOnlinePayment and handleRazorpayWebhook *)

Successful(p, a) == [payment[p] EXCEPT !.status = "SUCCESS", !.ref = a]

\* The browser relays the gateway's answer.  A signature exists only for an
\* accepted attempt, and may fail to verify even then: the keys have changed.
ReadConfirm(h, p, a, verified) ==
    /\ payment[p].status = "PENDING"
    /\ verified => Accepted(p, a)
    /\ Start(h, IF verified
                THEN [op |-> "money", p |-> p, row |-> Successful(p, a), hook |-> FALSE]
                ELSE [op |-> "fail", p |-> p])
    /\ Unwritten /\ UNCHANGED <<attempt, acked>>

\* An event carries the ids of the intent and of the attempt.
Matches(p, a) == payment[p] # NoRow /\ payment[p].online /\ payment[p].ref \in {Intent, a}

WebhookFailed(h, p, a) ==
    /\ attempt[p][a] = "failed"
    /\ Matches(p, a)
    /\ payment[p].status # "SUCCESS"
    /\ Start(h, [op |-> "fail", p |-> p])
    /\ Unwritten /\ UNCHANGED <<attempt, acked>>

\* (mutant) any event about the intent settles it
WebhookCapturedByAny(h, p, a) ==
    /\ attempt[p][a] # "none"
    /\ Matches(p, a)
    /\ payment[p].status # "SUCCESS"
    /\ Start(h, [op |-> "money", p |-> p, row |-> Successful(p, a), hook |-> TRUE])
    /\ Unwritten /\ UNCHANGED <<attempt, acked>>

\* (mutant) only a payment that is still pending is settled
WebhookCapturedPending(h, p, a) ==
    /\ attempt[p][a] = "captured"
    /\ Matches(p, a)
    /\ payment[p].status = "PENDING"
    /\ Start(h, [op |-> "money", p |-> p, row |-> Successful(p, a), hook |-> TRUE])
    /\ Unwritten /\ UNCHANGED <<attempt, acked>>

\* Only a capture settles; it settles a payment in any state but SUCCESS.
WebhookCaptured(h, p, a) ==
    /\ attempt[p][a] = "captured"
    /\ Matches(p, a)
    /\ payment[p].status # "SUCCESS"
    /\ Start(h, [op |-> "money", p |-> p, row |-> Successful(p, a), hook |-> TRUE])
    /\ Unwritten /\ UNCHANGED <<attempt, acked>>

\* A capture that was already processed is acknowledged and changes nothing.
WebhookRepeated(h, p, a) ==
    /\ attempt[p][a] = "captured"
    /\ Matches(p, a)
    /\ Doing(h, "none")
    /\ payment[p].status = "SUCCESS"
    /\ acked' = acked \union {p}
    /\ Unwritten /\ UNCHANGED <<attempt, request>>

CommitFail(h) ==
    /\ Doing(h, "fail")
    /\ ~Locked(request[h].p)
    /\ payment' = [payment EXCEPT ![request[h].p].status = "FAILED"]
    /\ Writes(h)
    /\ UNCHANGED <<order, attempt, acked>>

-----------------------------------------------------------------------------
(* recordCashAdvance, recordCashPayment *)

CashRow(amount) == [status |-> "SUCCESS", amount |-> amount, online |-> FALSE, ref |-> Intent]

CashAdvance(h, p) ==
    /\ order.status = "AWAITING_ADVANCE_PAYMENT"
    /\ order.advance - Collected \in Nat \ {0}
    /\ Free(p)
    /\ Start(h, [op |-> "money", p |-> p, row |-> CashRow(order.advance - Collected), hook |-> FALSE])
    /\ Unwritten /\ UNCHANGED <<attempt, acked>>

\* The whole bill, whatever was collected before and whatever the order's status.
CashPayment(h, p) ==
    /\ order.summary # "PAID"
    /\ Free(p)
    /\ Start(h, [op |-> "money", p |-> p, row |-> CashRow(order.total), hook |-> FALSE])
    /\ Unwritten /\ UNCHANGED <<attempt, acked>>

-----------------------------------------------------------------------------
(* reconcileAfterPayment, inside the transaction of every payment that lands *)

\* What the ledger adds up to with this row in it.
CollectedWith(p, row) == Sum([Credited EXCEPT ![p] = row.amount])

\* (mutant) any payment settles the bill
ReadBookDeposit(h) ==
    /\ Doing(h, "money")
    /\ LET r == request[h]
       IN  /\ ~Locked(r.p)
           /\ Continue(h, [ op |-> "book", p |-> r.p, row |-> r.row, hook |-> r.hook,
                            settles |-> TRUE ])
    /\ Unwritten /\ UNCHANGED <<attempt, acked>>

\* (mutant) what was collected before is forgotten
ReadBookAlone(h) ==
    /\ Doing(h, "money")
    /\ LET r == request[h]
       IN  /\ ~Locked(r.p)
           /\ Continue(h, [ op |-> "book", p |-> r.p, row |-> r.row, hook |-> r.hook,
                            settles |-> r.row.amount >= order.total ])
    /\ Unwritten /\ UNCHANGED <<attempt, acked>>

\* The row is written and stays locked while the ledger is added up.
ReadBook(h) ==
    /\ Doing(h, "money")
    /\ LET r == request[h]
       IN  /\ ~Locked(r.p)
           /\ Continue(h, [ op |-> "book", p |-> r.p, row |-> r.row, hook |-> r.hook,
                            settles |-> CollectedWith(r.p, r.row) >= order.total ])
    /\ Unwritten /\ UNCHANGED <<attempt, acked>>

\* The summary is written, and releaseAfterPayment releases a hold the money ends.
CommitBook(h) ==
    /\ Doing(h, "book")
    /\ LET r == request[h]
       IN  /\ payment' = [payment EXCEPT ![r.p] = r.row]
           /\ order' = [ order EXCEPT
                 !.summary = IF r.settles THEN "PAID" ELSE order.summary,
                 !.status  = IF /\ order.status = "AWAITING_ADVANCE_PAYMENT"
                                /\ CollectedWith(r.p, r.row) >= order.advance
                             THEN "PENDING" ELSE order.status ]
           /\ acked' = IF r.hook THEN acked \union {r.p} ELSE acked
    /\ Writes(h)
    /\ UNCHANGED attempt

-----------------------------------------------------------------------------
(* settleOrderPayment, refundPayment *)

\* To PAID: only while nothing has succeeded; the bill is booked by hand.
ReadPaid(h, p) ==
    /\ Succeeded = {}
    /\ Free(p)
    /\ Start(h, [op |-> "paid", p |-> p, row |-> CashRow(order.total)])
    /\ Unwritten /\ UNCHANGED <<attempt, acked>>

CommitPaid(h) ==
    /\ Doing(h, "paid")
    /\ payment' = [payment EXCEPT ![request[h].p] = request[h].row]
    /\ order' = [order EXCEPT !.summary = "PAID"]
    /\ Writes(h)
    /\ UNCHANGED <<attempt, acked>>

\* To UNPAID: only while nothing has succeeded.  To REFUNDED: only if something has.
ReadSettle(h, to) ==
    /\ to = "UNPAID" <=> Succeeded = {}
    /\ Start(h, [op |-> "settle", to |-> to])
    /\ Unwritten /\ UNCHANGED <<attempt, acked>>

\* REFUNDED reverses every payment that reads SUCCESS at that moment.
CommitSettle(h) ==
    /\ Doing(h, "settle")
    /\ LET reversed == IF request[h].to = "REFUNDED" THEN Succeeded ELSE {}
       IN  /\ \A p \in reversed : ~Locked(p)
           /\ payment' = [p \in Payments |-> IF p \in reversed
                             THEN [payment[p] EXCEPT !.status = "REFUNDED"] ELSE payment[p]]
    /\ order' = [order EXCEPT !.summary = request[h].to]
    /\ Writes(h)
    /\ UNCHANGED <<attempt, acked>>

ReadRefund(h, p) ==
    /\ payment[p].status = "SUCCESS"
    /\ Start(h, [op |-> "refund", p |-> p])
    /\ Unwritten /\ UNCHANGED <<attempt, acked>>

\* (mutant) the last refund does not know that it is the last
CountLeftNone(h) ==
    /\ Doing(h, "refund")
    /\ ~Locked(request[h].p)
    /\ Continue(h, [op |-> "counted", p |-> request[h].p, last |-> FALSE])
    /\ Unwritten /\ UNCHANGED <<attempt, acked>>

\* The row is reversed and stays locked while the payments left are counted.
CountLeft(h) ==
    /\ Doing(h, "refund")
    /\ ~Locked(request[h].p)
    /\ Continue(h, [op |-> "counted", p |-> request[h].p,
                    last |-> Succeeded \subseteq {request[h].p}])
    /\ Unwritten /\ UNCHANGED <<attempt, acked>>

CommitRefund(h) ==
    /\ Doing(h, "counted")
    /\ payment' = [payment EXCEPT ![request[h].p].status = "REFUNDED"]
    /\ order' = IF request[h].last THEN [order EXCEPT !.summary = "REFUNDED"] ELSE order
    /\ Writes(h)
    /\ UNCHANGED <<attempt, acked>>

-----------------------------------------------------------------------------
(* Around the ledger *)

\* A request ends without a trace: it times out, or the server restarts.
Abort(h) ==
    /\ ~Doing(h, "none")
    /\ Finish(h)
    /\ stale' = stale \ {h}
    /\ UNCHANGED <<order, payment, attempt, acked, overtaken>>

\* The order workflow (OrderFloor) moves the order or adds to its bill.
Workflow ==
    /\ \/ \E s \in {"AWAITING_ADVANCE_PAYMENT", "PENDING", "CANCELLED"} :
             /\ CanTransition(order.status, s)
             /\ order' = [order EXCEPT !.status = s]
       \/ /\ order.status \in EDITABLE_STATUSES
          /\ order.total + Extra <= MaxTotal
          /\ order' = [order EXCEPT !.total = order.total + Extra]
    /\ stale' = { k \in Handlers : ~Doing(k, "none") }
    /\ UNCHANGED <<payment, attempt, acked, request, overtaken>>

-----------------------------------------------------------------------------
Gateway == \E p \in Payments, a \in Attempts :
    AttemptMade(p, a, "failed") \/ AttemptMade(p, a, "authorised") \/ Capture(p, a)

Webhook(h) == \E p \in Payments, a \in Attempts :
    WebhookFailed(h, p, a) \/ WebhookCaptured(h, p, a) \/ WebhookRepeated(h, p, a)

Guest(h) == \E p \in Payments :
    ReadInitiate(h, p) \/ \E a \in Attempts, v \in BOOLEAN : ReadConfirm(h, p, a, v)

Staffed(h) ==
    \/ \E p \in Payments : CashAdvance(h, p) \/ CashPayment(h, p) \/ ReadPaid(h, p) \/ ReadRefund(h, p)
    \/ \E to \in {"UNPAID", "REFUNDED"} : ReadSettle(h, to)

Commit(h) == CommitIntent(h) \/ CommitFail(h) \/ ReadBook(h) \/ CommitBook(h) \/ CommitPaid(h)
             \/ CommitSettle(h) \/ CountLeft(h) \/ CommitRefund(h)

Next == \/ \E h \in Handlers : Webhook(h) \/ Guest(h) \/ Staffed(h) \/ Commit(h) \/ Abort(h)
        \/ Gateway \/ Workflow

Spec == Init /\ [][Next]_vars

\* The gateway repeats a capture until it is answered, and an event that is
\* handled again and again does not fail every time.  Every request ends.
Redelivery(p) ==
    \E h \in Handlers, a \in Attempts :
        p \notin acked /\ (WebhookCaptured(h, p, a) \/ WebhookRepeated(h, p, a))
Handling(h, p) == request[h].op \in {"money", "book"} /\ request[h].hook /\ request[h].p = p

Fairness ==
    /\ \A p \in Payments :
          /\ SF_vars(Redelivery(p))
          /\ SF_vars(\E h \in Handlers : Handling(h, p) /\ ReadBook(h))
          /\ SF_vars(\E h \in Handlers : Handling(h, p) /\ CommitBook(h))
    /\ \A h \in Handlers : WF_vars(Commit(h) \/ Abort(h))
FairSpec == Spec /\ Fairness

-----------------------------------------------------------------------------
TypeOK ==
    /\ order \in OrderRow
    /\ payment \in [Payments -> {NoRow} \union Row]
    /\ attempt \in [Payments -> [Attempts -> {"none", "failed", "authorised", "captured"}]]
    /\ acked \subseteq Payments
    /\ request \in [Handlers -> Request]
    /\ stale \subseteq Handlers
    /\ overtaken \in BOOLEAN

\* However late, repeated or reordered the gateway's answers, money counts as
\* collected online only if the gateway accepted the very attempt the row names
\* (confirmOnlinePayment, handleRazorpayWebhook).
OnlyAcceptedMoney ==
    \A p \in Payments :
        payment[p].status \in {"SUCCESS", "REFUNDED"} /\ payment[p].online
          => payment[p].ref \in Attempts /\ Accepted(p, payment[p].ref)

(* What holds until a request writes over an order that changed under it. *)

\* The house does not ask for money it has: a bill that is covered reads PAID
\* (reconcileAfterPayment, settleOrderPayment).
CoveredIsPaid == overtaken \/ (Collected >= order.total => order.summary = "PAID")

\* No order reads PAID with nothing in the ledger to show for it
\* (settleOrderPayment, refundPayment).
PaidHasReceipt == overtaken \/ (order.summary = "PAID" => Succeeded # {})

\* A deposit does not settle the bill: an order becomes PAID only when its
\* payments cover its total (reconcileAfterPayment).
PaidWhenCovered ==
    [][ order.summary # "PAID" /\ order'.summary = "PAID"
          => overtaken' \/ Collected' >= order'.total ]_vars

\* Served one at a time: money captured at the gateway is booked, whatever fails
\* and is repeated on the way (handleRazorpayWebhook).
CapturedIsBooked ==
    \A p \in Payments :
        (\E a \in Attempts : attempt[p][a] = "captured")
          ~> payment[p].status \in {"SUCCESS", "REFUNDED"}
=============================================================================
