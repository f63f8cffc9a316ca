------------------------- MODULE PaymentLedgerProofs -------------------------
EXTENDS PaymentLedger, TLAPS, WellFoundedInduction

\* A request of each kind has the fields of its kind.
LEMMA RequestKinds ==
    ASSUME TypeOK, NEW h \in Handlers
    PROVE  /\ request[h] \in Request
           /\ Doing(h, "intent")  => request[h] \in IntentReq
           /\ Doing(h, "money")   => request[h] \in MoneyReq
           /\ Doing(h, "book")    => request[h] \in BookReq
           /\ Doing(h, "fail")    => request[h] \in FailReq
           /\ Doing(h, "refund")  => request[h] \in RefundReq
           /\ Doing(h, "counted") => request[h] \in CountedReq
           /\ Doing(h, "paid")    => request[h] \in PaidReq
           /\ Doing(h, "settle")  => request[h] \in SettleReq
  <1> DEFINE r == request[h]
  <1>1. r \in Request
    BY DEF TypeOK
  <1> HIDE DEF r
  <1>2. /\ r.op = "intent"  => r \in IntentReq
        /\ r.op = "money"   => r \in MoneyReq
        /\ r.op = "book"    => r \in BookReq
        /\ r.op = "fail"    => r \in FailReq
        /\ r.op = "refund"  => r \in RefundReq
        /\ r.op = "counted" => r \in CountedReq
        /\ r.op = "paid"    => r \in PaidReq
        /\ r.op = "settle"  => r \in SettleReq
    BY <1>1 DEF Request, Idle, IntentReq, MoneyReq, BookReq, FailReq, RefundReq, CountedReq,
                PaidReq, SettleReq
  <1> QED BY <1>1, <1>2 DEF r, Doing

\* A payment that has any of a payment's statuses is a row.
LEMMA RowThere ==
    ASSUME TypeOK, NEW p \in Payments
    PROVE  /\ payment[p].status \in {"PENDING", "SUCCESS", "FAILED", "REFUNDED"} => payment[p] \in Row
           /\ payment[p] # NoRow => payment[p] \in Row
           /\ payment[p] \in Row => payment[p] # NoRow
  <1>1. payment[p] \in {NoRow} \union Row
    BY DEF TypeOK
  <1>2. NoRow.status = "ABSENT" /\ \A row \in Row : row.status # "ABSENT"
    BY DEF NoRow, Row
  <1> QED BY <1>1, <1>2

-----------------------------------------------------------------------------
(* Type correctness.  A refund or a failure in flight names a row that is   *)
(* there, and rows are never deleted.                                       *)

Existing(h) == request[h].op \in {"fail", "refund", "counted"} => payment[request[h].p] \in Row
TInv == TypeOK /\ \A h \in Handlers : Existing(h)

LEMMA InitType == Init => TInv
  <1> SUFFICES ASSUME Init PROVE TInv
    OBVIOUS
  <1>1. order \in OrderRow
    BY AmountsAssumption DEF Init, OrderRow, OrderStatuses, HELD_STATUSES, KitchenQueue
  <1>2. request \in [Handlers -> Request] /\ \A h \in Handlers : request[h].op = "none"
    BY DEF Init, Request, Idle
  <1> QED BY <1>1, <1>2 DEF Init, TInv, TypeOK, Existing

\* Reading steps only give the handler a new request.
LEMMA ReadType ==
    ASSUME TInv, NEW h \in Handlers, NEW r \in Request,
           request' = [request EXCEPT ![h] = r],
           r.op \in {"fail", "refund", "counted"} => payment[r.p] \in Row,
           Unwritten, UNCHANGED <<attempt, acked>>
    PROVE  TInv'
  <1>1. TypeOK'
    BY DEF TInv, TypeOK, Unwritten
  <1>2. ASSUME NEW k \in Handlers PROVE Existing(k)'
    BY DEF TInv, TypeOK, Existing, Unwritten
  <1> QED BY <1>1, <1>2 DEF TInv

\* Writing steps leave every row a row, and the handler idle.
LEMMA WriteType ==
    ASSUME TInv, NEW h \in Handlers, Finish(h), order' \in OrderRow,
           payment' \in [Payments -> {NoRow} \union Row],
           \A p \in Payments : payment[p] \in Row => payment'[p] \in Row,
           acked' \subseteq Payments, stale' \subseteq Handlers, overtaken' \in BOOLEAN,
           UNCHANGED attempt
    PROVE  TInv'
  <1>1. TypeOK'
    BY DEF TInv, TypeOK, Finish, Request
  <1>2. ASSUME NEW k \in Handlers PROVE Existing(k)'
    <2>1. CASE k = h
      BY <2>1 DEF TInv, TypeOK, Existing, Finish, Idle
    <2>2. CASE k # h
      <3>1. request'[k] = request[k] /\ Existing(k)
        BY <2>2 DEF TInv, TypeOK, Finish
      <3>2. request[k].op \in {"fail", "refund", "counted"} => request[k].p \in Payments
        BY RequestKinds DEF TInv, Doing, FailReq, RefundReq, CountedReq
      <3> QED BY <3>1, <3>2 DEF Existing
    <2> QED BY <2>1, <2>2
  <1> QED BY <1>1, <1>2 DEF TInv

LEMMA WritesType ==
    ASSUME TInv, NEW h \in Handlers, Writes(h)
    PROVE  Finish(h) /\ stale' \subseteq Handlers /\ overtaken' \in BOOLEAN
  BY DEF TInv, TypeOK, Writes

LEMMA SuccessfulType ==
    ASSUME NEW p \in Payments, NEW a \in Attempts, payment[p] \in Row
    PROVE  /\ Successful(p, a) \in Row
           /\ Successful(p, a).status = "SUCCESS" /\ Successful(p, a).ref = a
           /\ Successful(p, a).online = payment[p].online
  BY DEF Successful, Row

LEMMA CashType ==
    ASSUME NEW amount \in Nat
    PROVE  CashRow(amount) \in Row
  BY DEF CashRow, Row

LEMMA MoneyRequest ==
    ASSUME NEW p \in Payments, NEW row \in Row, NEW hook \in BOOLEAN
    PROVE  [op |-> "money", p |-> p, row |-> row, hook |-> hook] \in Request
  BY DEF Request, MoneyReq

LEMMA WebhookType ==
    ASSUME TInv, NEW h \in Handlers, Webhook(h)
    PROVE  TInv'
  <1> PICK p \in Payments, a \in Attempts :
        WebhookFailed(h, p, a) \/ WebhookCaptured(h, p, a) \/ WebhookRepeated(h, p, a)
    BY DEF Webhook
  <1>m. Matches(p, a) => payment[p] \in Row
    BY RowThere DEF Matches, TInv
  <1>1. CASE WebhookFailed(h, p, a)
    <2>1. [op |-> "fail", p |-> p] \in Request
      BY DEF Request, FailReq
    <2> QED BY <1>1, <1>m, <2>1, ReadType DEF WebhookFailed, Start
  <1>2. CASE WebhookCaptured(h, p, a)
    <2>1. [op |-> "money", p |-> p, row |-> Successful(p, a), hook |-> TRUE] \in Request
      BY <1>2, <1>m, SuccessfulType, MoneyRequest DEF WebhookCaptured
    <2> QED BY <1>2, <2>1, ReadType DEF WebhookCaptured, Start
  <1>3. CASE WebhookRepeated(h, p, a)
    <2>1. TypeOK'
      BY <1>3 DEF WebhookRepeated, TInv, TypeOK, Unwritten
    <2>2. \A k \in Handlers : Existing(k)'
      BY <1>3 DEF WebhookRepeated, TInv, Existing, Unwritten
    <2> QED BY <2>1, <2>2 DEF TInv
  <1> QED BY <1>1, <1>2, <1>3

LEMMA GuestType ==
    ASSUME TInv, NEW h \in Handlers, Guest(h)
    PROVE  TInv'
  <1> PICK p \in Payments :
        ReadInitiate(h, p) \/ \E a \in Attempts, v \in BOOLEAN : ReadConfirm(h, p, a, v)
    BY DEF Guest
  <1>1. CASE ReadInitiate(h, p)
    <2> DEFINE target == IF order.status = "AWAITING_ADVANCE_PAYMENT" THEN order.advance ELSE order.total
               row == [status |-> "PENDING", amount |-> target - Collected, online |-> TRUE, ref |-> Intent]
    <2>1. target - Collected \in Nat
          /\ request' = [request EXCEPT ![h] = [op |-> "intent", p |-> p, row |-> row]]
      BY <1>1 DEF ReadInitiate, Start
    <2>2. row \in Row
      BY <2>1 DEF Row
    <2> HIDE DEF row
    <2>3. [op |-> "intent", p |-> p, row |-> row] \in Request
      BY <2>2 DEF Request, IntentReq
    <2> QED BY <1>1, <2>1, <2>3, ReadType DEF ReadInitiate
  <1>2. ASSUME NEW a \in Attempts, NEW v \in BOOLEAN, ReadConfirm(h, p, a, v)
        PROVE  TInv'
    <2>1. payment[p] \in Row
      BY <1>2, RowThere DEF ReadConfirm, TInv
    <2>2. CASE v
      <3>1. [op |-> "money", p |-> p, row |-> Successful(p, a), hook |-> FALSE] \in Request
        BY <2>1, SuccessfulType, MoneyRequest
      <3> QED BY <1>2, <2>2, <3>1, ReadType DEF ReadConfirm, Start
    <2>3. CASE ~v
      <3>1. [op |-> "fail", p |-> p] \in Request
        BY DEF Request, FailReq
      <3> QED BY <1>2, <2>1, <2>3, <3>1, ReadType DEF ReadConfirm, Start
    <2> QED BY <2>2, <2>3
  <1> QED BY <1>1, <1>2

LEMMA StaffedType ==
    ASSUME TInv, NEW h \in Handlers, Staffed(h)
    PROVE  TInv'
  <1>t. order.total \in Nat
    BY DEF TInv, TypeOK, OrderRow
  <1>1. ASSUME NEW p \in Payments, CashAdvance(h, p) PROVE TInv'
    <2>1. order.advance - Collected \in Nat
      BY <1>1 DEF CashAdvance
    <2>2. [op |-> "money", p |-> p, row |-> CashRow(order.advance - Collected), hook |-> FALSE] \in Request
      BY <2>1, CashType, MoneyRequest
    <2> QED BY <1>1, <2>2, ReadType DEF CashAdvance, Start
  <1>2. ASSUME NEW p \in Payments, CashPayment(h, p) PROVE TInv'
    <2>1. [op |-> "money", p |-> p, row |-> CashRow(order.total), hook |-> FALSE] \in Request
      BY <1>t, CashType, MoneyRequest
    <2> QED BY <1>2, <2>1, ReadType DEF CashPayment, Start
  <1>3. ASSUME NEW p \in Payments, ReadPaid(h, p) PROVE TInv'
    <2>1. CashRow(order.total) \in Row
      BY <1>t, CashType
    <2>2. [op |-> "paid", p |-> p, row |-> CashRow(order.total)] \in Request
      BY <2>1 DEF Request, PaidReq
    <2> QED BY <1>3, <2>2, ReadType DEF ReadPaid, Start
  <1>4. ASSUME NEW p \in Payments, ReadRefund(h, p) PROVE TInv'
    <2>1. [op |-> "refund", p |-> p] \in Request
      BY DEF Request, RefundReq
    <2>2. payment[p] \in Row
      BY <1>4, RowThere DEF ReadRefund, TInv
    <2> QED BY <1>4, <2>1, <2>2, ReadType DEF ReadRefund, Start
  <1>5. ASSUME NEW to \in {"UNPAID", "REFUNDED"}, ReadSettle(h, to) PROVE TInv'
    <2>1. [op |-> "settle", to |-> to] \in Request
      BY DEF Request, SettleReq
    <2> QED BY <1>5, <2>1, ReadType DEF ReadSettle, Start
  <1> QED BY <1>1, <1>2, <1>3, <1>4, <1>5 DEF Staffed

LEMMA SettlingType ==
    ASSUME TInv, NEW h \in Handlers, CommitSettle(h)
    PROVE  TInv'
  <1> DEFINE reversed == IF request[h].to = "REFUNDED" THEN Succeeded ELSE {}
  <1>1. request[h] \in SettleReq
    BY RequestKinds DEF TInv, CommitSettle
  <1>2. order' \in OrderRow
    BY <1>1 DEF CommitSettle, TInv, TypeOK, OrderRow, SettleReq
  <1>3. payment' = [p \in Payments |-> IF p \in reversed
                      THEN [payment[p] EXCEPT !.status = "REFUNDED"] ELSE payment[p]]
    BY DEF CommitSettle
  <1>4. \A p \in reversed : payment[p] \in Row
    BY RowThere DEF Succeeded, TInv
  <1> HIDE DEF reversed
  <1>5. \A p \in reversed : [payment[p] EXCEPT !.status = "REFUNDED"] \in Row
    BY <1>4 DEF Row
  <1>6. /\ payment' \in [Payments -> {NoRow} \union Row]
        /\ \A p \in Payments : payment[p] \in Row => payment'[p] \in Row
    BY <1>3, <1>5 DEF TInv, TypeOK
  <1> QED BY <1>2, <1>6, WriteType, WritesType DEF CommitSettle, TInv, TypeOK

LEMMA CommitsType ==
    ASSUME TInv, NEW h \in Handlers, Commit(h)
    PROVE  TInv'
  <1> DEFINE r == request[h]
             p == request[h].p
  <1>t. TypeOK
    BY DEF TInv
  <1>1. CASE CommitIntent(h)
    <2>1. r \in IntentReq
      BY <1>1, <1>t, RequestKinds DEF CommitIntent
    <2>2. p \in Payments /\ r.row \in Row
      BY <2>1 DEF IntentReq
    <2>3. stale' \subseteq Handlers
      BY <1>1, <1>t DEF CommitIntent, TypeOK
    <2> QED BY <1>1, <1>t, <2>2, <2>3, WriteType DEF CommitIntent, TypeOK
  <1>2. CASE CommitFail(h)
    <2>1. p \in Payments /\ payment[p] \in Row
      BY <1>2, <1>t, RequestKinds DEF CommitFail, FailReq, TInv, Existing, Doing
    <2>2. [payment[p] EXCEPT !.status = "FAILED"] \in Row
      BY <2>1 DEF Row
    <2>3. payment' = [payment EXCEPT ![p] = [payment[p] EXCEPT !.status = "FAILED"]]
      BY <1>2 DEF CommitFail
    <2> QED BY <1>2, <1>t, <2>1, <2>2, <2>3, WriteType, WritesType DEF CommitFail, TypeOK
  <1>3. CASE ReadBook(h)
    <2> DEFINE settles == CollectedWith(p, r.row) >= order.total
               book == [op |-> "book", p |-> p, row |-> r.row, hook |-> r.hook, settles |-> settles]
    <2>1. r \in MoneyReq
      BY <1>3, <1>t, RequestKinds DEF ReadBook
    <2>2. settles \in BOOLEAN
      OBVIOUS
    <2>3. request' = [request EXCEPT ![h] = book]
      BY <1>3 DEF ReadBook, Continue
    <2> HIDE DEF settles
    <2>4. book \in Request /\ book.op = "book"
      BY <2>1, <2>2 DEF MoneyReq, BookReq, Request
    <2> HIDE DEF book
    <2> QED BY <1>3, <2>3, <2>4, ReadType DEF ReadBook
  <1>4. CASE CommitBook(h)
    <2>1. r \in BookReq
      BY <1>4, <1>t, RequestKinds DEF CommitBook
    <2>2. p \in Payments /\ r.row \in Row
      BY <2>1 DEF BookReq
    <2>3. order' \in OrderRow
      BY <1>4, <1>t DEF CommitBook, TypeOK, OrderRow, OrderStatuses, KitchenQueue
    <2>4. payment' = [payment EXCEPT ![p] = r.row] /\ acked' \subseteq Payments
      BY <1>4, <1>t, <2>2 DEF CommitBook, TypeOK
    <2> QED BY <1>4, <1>t, <2>2, <2>3, <2>4, WriteType, WritesType DEF CommitBook, TypeOK
  <1>5. CASE CommitPaid(h)
    <2>1. r \in PaidReq
      BY <1>5, <1>t, RequestKinds DEF CommitPaid
    <2>2. p \in Payments /\ r.row \in Row
      BY <2>1 DEF PaidReq
    <2>3. order' \in OrderRow
      BY <1>5, <1>t DEF CommitPaid, TypeOK, OrderRow
    <2> QED BY <1>5, <1>t, <2>2, <2>3, WriteType, WritesType DEF CommitPaid, TypeOK
  <1>6. CASE CommitSettle(h)
    BY <1>6, SettlingType
  <1>7. CASE CountLeft(h)
    <2> DEFINE last == Succeeded \subseteq {p}
               counted == [op |-> "counted", p |-> p, last |-> last]
    <2>1. p \in Payments /\ payment[p] \in Row
      BY <1>7, <1>t, RequestKinds DEF CountLeft, RefundReq, TInv, Existing, Doing
    <2>2. request' = [request EXCEPT ![h] = counted]
      BY <1>7 DEF CountLeft, Continue
    <2>3. last \in BOOLEAN
      OBVIOUS
    <2> HIDE DEF last
    <2>4. counted \in Request /\ counted.p = p
      BY <2>1, <2>3 DEF Request, CountedReq
    <2> HIDE DEF counted
    <2> QED BY <1>7, <2>1, <2>2, <2>4, ReadType DEF CountLeft
  <1>8. CASE CommitRefund(h)
    <2>1. p \in Payments /\ payment[p] \in Row
      BY <1>8, <1>t, RequestKinds DEF CommitRefund, CountedReq, TInv, Existing, Doing
    <2>2. [payment[p] EXCEPT !.status = "REFUNDED"] \in Row
      BY <2>1 DEF Row
    <2>3. payment' = [payment EXCEPT ![p] = [payment[p] EXCEPT !.status = "REFUNDED"]]
      BY <1>8 DEF CommitRefund
    <2>4. order' \in OrderRow
      BY <1>8, <1>t DEF CommitRefund, TypeOK, OrderRow
    <2> QED BY <1>8, <1>t, <2>1, <2>2, <2>3, <2>4, WriteType, WritesType DEF CommitRefund, TypeOK
  <1> QED BY <1>1, <1>2, <1>3, <1>4, <1>5, <1>6, <1>7, <1>8 DEF Commit

LEMMA AbortType ==
    ASSUME TInv, NEW h \in Handlers, Abort(h)
    PROVE  TInv'
  <1>1. stale' \subseteq Handlers
    BY DEF Abort, TInv, TypeOK
  <1> QED BY <1>1, WriteType DEF Abort, TInv, TypeOK

LEMMA AroundType ==
    ASSUME TInv, Gateway \/ Workflow
    PROVE  TInv'
  <1>1. UNCHANGED <<payment, request>>
    BY DEF Gateway, AttemptMade, Capture, Workflow, Unwritten
  <1>2. CASE Gateway
    <2>1. attempt' \in [Payments -> [Attempts -> {"none", "failed", "authorised", "captured"}]]
      BY <1>2 DEF Gateway, AttemptMade, Capture, TInv, TypeOK
    <2> QED BY <1>1, <1>2, <2>1 DEF Gateway, AttemptMade, Capture, Unwritten, TInv, TypeOK, Existing
  <1>3. CASE Workflow
    <2>1. order' \in OrderRow
      BY <1>3, AmountsAssumption DEF Workflow, TInv, TypeOK, OrderRow, OrderStatuses, HELD_STATUSES,
            KitchenQueue, TerminalStatuses
    <2> QED BY <1>1, <1>3, <2>1 DEF Workflow, TInv, TypeOK, Existing
  <1> QED BY <1>2, <1>3

LEMMA NextType == TInv /\ [Next]_vars => TInv'
  <1> SUFFICES ASSUME TInv, [Next]_vars PROVE TInv'
    OBVIOUS
  <1>1. ASSUME NEW h \in Handlers, Webhook(h) \/ Guest(h) \/ Staffed(h) \/ Commit(h) \/ Abort(h)
        PROVE  TInv'
    BY <1>1, WebhookType, GuestType, StaffedType, CommitsType, AbortType
  <1>2. CASE UNCHANGED vars
    BY <1>2 DEF vars, TInv, TypeOK, Existing
  <1> QED BY <1>1, <1>2, AroundType DEF Next

\* The order, its payments, the attempts at the gateway and the requests stay well
\* formed for any numbers of payments, attempts and handlers and any amounts.
THEOREM TypeCorrect == Spec => []TypeOK
  <1>1. TInv => TypeOK
    BY DEF TInv
  <1> QED BY <1>1, InitType, NextType, PTL DEF Spec

-----------------------------------------------------------------------------
(* Money the gateway accepted.  What a request is about to book is backed   *)
(* by an accepted attempt, what is about to be refunded was booked so, and  *)
(* no row about to be inserted is there or is about to be inserted twice.   *)

Backed(p, row) == row.online => row.ref \in Attempts /\ Accepted(p, row.ref)

Books(h)   == request[h].op \in {"intent", "money", "book", "paid"}
Inserts(h) == \/ request[h].op \in {"intent", "paid"}
              \/ request[h].op \in {"money", "book"} /\ ~request[h].row.online

BackedRequest(h) ==
    /\ request[h].op \in {"money", "book"} =>
          /\ request[h].row.status = "SUCCESS"
          /\ Backed(request[h].p, request[h].row)
          /\ request[h].row.online => payment[request[h].p] \in Row
    /\ request[h].op = "intent" => request[h].row.status = "PENDING" /\ request[h].row.online
    /\ request[h].op = "paid" => request[h].row.status = "SUCCESS" /\ ~request[h].row.online
    /\ request[h].op \in {"refund", "counted"} => Backed(request[h].p, payment[request[h].p])

NewRow(h) ==
    Inserts(h) => /\ payment[request[h].p] = NoRow
                  /\ \A k \in Handlers \ {h} : Books(k) => request[k].p # request[h].p

\* What a request whose ledger nobody has changed still knows of it.
Fresh(h) ==
    h \notin stale =>
        /\ request[h].op = "fail" => payment[request[h].p].status # "SUCCESS"
        /\ request[h].op = "counted" /\ ~request[h].last => ~(Succeeded \subseteq {request[h].p})

\* Only what goes through the gateway is ever pending.
PendingOnline == \A p \in Payments : payment[p].status = "PENDING" => payment[p].online

IInv == /\ TInv
        /\ PendingOnline
        /\ \A h \in Handlers : BackedRequest(h) /\ NewRow(h) /\ Fresh(h)
        /\ OnlyAcceptedMoney
        /\ PaidHasReceipt

LEMMA InitIInv == Init => IInv
  <1> SUFFICES ASSUME Init PROVE IInv
    OBVIOUS
  <1>1. \A h \in Handlers : request[h].op = "none"
    BY DEF Init, Idle
  <1>2. \A h \in Handlers : BackedRequest(h) /\ NewRow(h) /\ Fresh(h)
    BY <1>1 DEF BackedRequest, NewRow, Fresh, Inserts
  <1>3. \A p \in Payments : payment[p].status = "ABSENT"
    BY DEF Init, NoRow
  <1>4. order.summary = "UNPAID"
    BY DEF Init
  <1> QED BY <1>2, <1>3, <1>4, InitType DEF IInv, PendingOnline, OnlyAcceptedMoney, PaidHasReceipt

\* A request that has just read and writes nothing: it owes only its own facts.
LEMMA ReadIInv ==
    ASSUME IInv, TInv', NEW h \in Handlers, UNCHANGED <<order, payment, attempt, stale, overtaken>>,
           NEW r, request' = [request EXCEPT ![h] = r],
           (BackedRequest(h) /\ NewRow(h) /\ Fresh(h))',
           \A k \in Handlers \ {h} : Inserts(k) /\ Books(h)' => request[k].p # r.p
    PROVE  IInv'
  <1>1. request'[h] = r /\ \A k \in Handlers \ {h} : request'[k] = request[k]
    BY DEF IInv, TInv, TypeOK
  <1>2. Succeeded' = Succeeded /\ PendingOnline' /\ OnlyAcceptedMoney' /\ PaidHasReceipt'
    BY DEF IInv, Succeeded, PendingOnline, OnlyAcceptedMoney, PaidHasReceipt, Accepted
  <1>3. ASSUME NEW k \in Handlers \ {h} PROVE (BackedRequest(k) /\ NewRow(k) /\ Fresh(k))'
    <2>1. request'[k] = request[k]
      BY <1>1
    <2>2. BackedRequest(k)'
      BY <2>1 DEF IInv, BackedRequest, Backed, Accepted
    <2>3. Fresh(k)'
      BY <2>1, <1>2 DEF IInv, Fresh
    <2>4. Inserts(k)' <=> Inserts(k)
      BY <2>1 DEF Inserts
    <2>5. ASSUME Inserts(k), NEW j \in Handlers \ {k}, Books(j)' PROVE request'[j].p # request'[k].p
      <3>1. CASE j = h
        BY <1>1, <2>1, <2>5, <3>1
      <3>2. CASE j # h
        BY <1>1, <2>1, <2>5, <3>2 DEF Books, IInv, NewRow
      <3> QED BY <3>1, <3>2
    <2>6. NewRow(k)'
      BY <2>1, <2>4, <2>5 DEF IInv, NewRow
    <2> QED BY <2>2, <2>3, <2>6
  <1> QED BY <1>2, <1>3 DEF IInv

\* A request that rewrites one row and is done: a row that counts is backed, and
\* no other request is about to insert it.
LEMMA WriteIInv ==
    ASSUME IInv, TInv', NEW h \in Handlers, Writes(h), UNCHANGED attempt,
           NEW p \in Payments, NEW row \in Row, payment' = [payment EXCEPT ![p] = row],
           row.status \in {"SUCCESS", "REFUNDED"} => Backed(p, row), row.status # "PENDING",
           payment[p] \in Row /\ Backed(p, payment[p]) => Backed(p, row),
           \A k \in Handlers \ {h} : Inserts(k) => request[k].p # p,
           PaidHasReceipt'
    PROVE  IInv'
  <1>1. /\ request'[h] = Idle
        /\ \A k \in Handlers \ {h} : request'[k] = request[k]
        /\ payment'[p] = row
        /\ \A q \in Payments \ {p} : payment'[q] = payment[q]
    BY DEF IInv, TInv, TypeOK, Writes, Finish
  <1>2. PendingOnline' /\ OnlyAcceptedMoney'
    BY <1>1 DEF IInv, PendingOnline, OnlyAcceptedMoney, Backed, Accepted
  <1>3. (BackedRequest(h) /\ NewRow(h) /\ Fresh(h))'
    BY <1>1 DEF BackedRequest, NewRow, Fresh, Inserts, Idle
  <1>4. ASSUME NEW k \in Handlers \ {h} PROVE (BackedRequest(k) /\ NewRow(k) /\ Fresh(k))'
    <2>1. request'[k] = request[k]
      BY <1>1
    <2>2. BackedRequest(k)'
      <3>1. request[k].op \in {"money", "book", "refund", "counted"} => request[k].p \in Payments
        BY RequestKinds DEF IInv, TInv, Doing, MoneyReq, BookReq, RefundReq, CountedReq
      <3>2. request[k].op \in {"refund", "counted"} => payment[request[k].p] \in Row
        BY DEF IInv, TInv, Existing
      <3>3. ASSUME NEW q \in Payments, payment[q] \in Row, Backed(q, payment[q])
            PROVE  Backed(q, payment'[q])
        BY <1>1, <3>3
      <3>4. ASSUME NEW q \in Payments, payment[q] \in Row PROVE payment'[q] \in Row
        BY <1>1, <3>4
      <3> QED BY <2>1, <3>1, <3>2, <3>3, <3>4 DEF IInv, BackedRequest, Backed, Accepted
    <2>3. Fresh(k)'
      BY <2>1 DEF Writes, Fresh, Doing
    <2>4. NewRow(k)'
      <3>1. Inserts(k)' <=> Inserts(k)
        BY <2>1 DEF Inserts
      <3>2. Inserts(k) => request[k].p \in Payments \ {p}
        BY RequestKinds DEF Inserts, IInv, TInv, Doing, IntentReq, MoneyReq, BookReq, PaidReq
      <3>3. \A j \in Handlers : Books(j)' => Books(j) /\ request'[j] = request[j]
        BY <1>1 DEF Books, Idle
      <3> QED BY <1>1, <2>1, <3>1, <3>2, <3>3 DEF IInv, NewRow
    <2> QED BY <2>2, <2>3, <2>4
  <1> QED BY <1>2, <1>3, <1>4 DEF IInv

LEMMA InsertsBooks ==
    ASSUME NEW h \in Handlers, Inserts(h)
    PROVE  Books(h)
  BY DEF Inserts, Books

LEMMA FreeRow ==
    ASSUME NEW p \in Payments, Free(p)
    PROVE  payment[p] = NoRow /\ \A k \in Handlers : Books(k) => request[k].p # p
  BY DEF Free, Used, Books

LEMMA RowNotInserted ==
    ASSUME IInv, NEW p \in Payments, payment[p] \in Row
    PROVE  \A k \in Handlers : Inserts(k) => request[k].p # p
  BY RowThere DEF IInv, TInv, NewRow

LEMMA WebhookIInv ==
    ASSUME IInv, TInv', NEW h \in Handlers, Webhook(h)
    PROVE  IInv'
  <1> PICK p \in Payments, a \in Attempts :
        WebhookFailed(h, p, a) \/ WebhookCaptured(h, p, a) \/ WebhookRepeated(h, p, a)
    BY DEF Webhook
  <1>m. Matches(p, a) => payment[p] \in Row /\ payment[p].online
    BY RowThere DEF Matches, IInv, TInv
  <1>h. h \in DOMAIN request
    BY DEF IInv, TInv, TypeOK
  <1>1. CASE WebhookFailed(h, p, a)
    <2> DEFINE r == [op |-> "fail", p |-> p]
    <2>1. request' = [request EXCEPT ![h] = r] /\ request'[h] = r
      BY <1>1, <1>h DEF WebhookFailed, Start
    <2>2. (BackedRequest(h) /\ NewRow(h) /\ Fresh(h))' /\ ~Books(h)'
      BY <1>1, <2>1 DEF WebhookFailed, Unwritten, BackedRequest, NewRow, Fresh, Inserts, Books
    <2> QED BY <1>1, <2>1, <2>2, ReadIInv DEF WebhookFailed, Unwritten
  <1>2. CASE WebhookCaptured(h, p, a)
    <2> DEFINE row == Successful(p, a)
               r   == [op |-> "money", p |-> p, row |-> row, hook |-> TRUE]
    <2>1. request' = [request EXCEPT ![h] = r] /\ request'[h] = r
      BY <1>2, <1>h DEF WebhookCaptured, Start
    <2>2. payment[p] \in Row /\ row.status = "SUCCESS" /\ row.online /\ row.ref = a
      BY <1>2, <1>m, SuccessfulType DEF WebhookCaptured
    <2>3. Accepted(p, a) /\ attempt' = attempt /\ payment'[p] \in Row
      BY <1>2, <2>2 DEF WebhookCaptured, Unwritten, Accepted
    <2> HIDE DEF row
    <2>4. (BackedRequest(h) /\ NewRow(h) /\ Fresh(h))'
      BY <2>1, <2>2, <2>3 DEF BackedRequest, NewRow, Fresh, Inserts, Backed, Accepted
    <2> QED BY <1>2, <2>1, <2>2, <2>4, RowNotInserted, ReadIInv DEF WebhookCaptured, Unwritten
  <1>3. CASE WebhookRepeated(h, p, a)
    BY <1>3 DEF WebhookRepeated, Unwritten, IInv, BackedRequest, Backed, Accepted, NewRow, Inserts,
                Books, Fresh, Succeeded, PendingOnline, OnlyAcceptedMoney, PaidHasReceipt
  <1> QED BY <1>1, <1>2, <1>3

LEMMA GuestIInv ==
    ASSUME IInv, TInv', NEW h \in Handlers, Guest(h)
    PROVE  IInv'
  <1> PICK p \in Payments :
        ReadInitiate(h, p) \/ \E a \in Attempts, v \in BOOLEAN : ReadConfirm(h, p, a, v)
    BY DEF Guest
  <1>h. h \in DOMAIN request
    BY DEF IInv, TInv, TypeOK
  <1>1. CASE ReadInitiate(h, p)
    <2> DEFINE target == IF order.status = "AWAITING_ADVANCE_PAYMENT" THEN order.advance ELSE order.total
               row == [status |-> "PENDING", amount |-> target - Collected, online |-> TRUE, ref |-> Intent]
               r   == [op |-> "intent", p |-> p, row |-> row]
    <2>1. request' = [request EXCEPT ![h] = r] /\ row.status = "PENDING" /\ row.online
      BY <1>1 DEF ReadInitiate, Start
    <2> HIDE DEF row
    <2>2. request'[h] = r /\ \A k \in Handlers \ {h} : request'[k] = request[k]
      BY <1>h, <2>1
    <2>3. payment'[p] = NoRow /\ \A k \in Handlers : Books(k) => request[k].p # p
      BY <1>1, FreeRow DEF ReadInitiate, Unwritten
    <2>4. BackedRequest(h)' /\ Fresh(h)'
      BY <2>1, <2>2 DEF BackedRequest, Fresh
    <2>5. NewRow(h)'
      BY <2>2, <2>3 DEF NewRow, Books
    <2>6. \A k \in Handlers \ {h} : Inserts(k) => request[k].p # p
      BY <2>3, InsertsBooks
    <2>7. UNCHANGED <<order, payment, attempt, stale, overtaken>> /\ r.p = p
      BY <1>1 DEF ReadInitiate, Unwritten
    <2> HIDE DEF r
    <2> QED BY <2>1, <2>4, <2>5, <2>6, <2>7, ReadIInv
  <1>2. ASSUME NEW a \in Attempts, NEW v \in BOOLEAN, ReadConfirm(h, p, a, v)
        PROVE  IInv'
    <2>1. payment[p] \in Row
      BY <1>2, RowThere DEF ReadConfirm, IInv, TInv
    <2>2. CASE v
      <3> DEFINE row == Successful(p, a)
                 r   == [op |-> "money", p |-> p, row |-> row, hook |-> FALSE]
      <3>1. request' = [request EXCEPT ![h] = r] /\ request'[h] = r
        BY <1>2, <1>h, <2>2 DEF ReadConfirm, Start
      <3>2. row.status = "SUCCESS" /\ row.online /\ row.ref = a
        <4>1. payment[p].online
          BY <1>2 DEF ReadConfirm, IInv, PendingOnline
        <4> QED BY <2>1, <4>1, SuccessfulType
      <3>3. Accepted(p, a) /\ attempt' = attempt /\ payment'[p] \in Row
        BY <1>2, <2>1, <2>2 DEF ReadConfirm, Unwritten
      <3> HIDE DEF row
      <3>4. (BackedRequest(h) /\ NewRow(h) /\ Fresh(h))'
        BY <3>1, <3>2, <3>3 DEF BackedRequest, NewRow, Fresh, Inserts, Backed, Accepted
      <3> QED BY <1>2, <2>1, <3>1, <3>4, RowNotInserted, ReadIInv DEF ReadConfirm, Unwritten
    <2>3. CASE ~v
      <3> DEFINE r == [op |-> "fail", p |-> p]
      <3>1. request' = [request EXCEPT ![h] = r] /\ request'[h] = r
        BY <1>2, <1>h, <2>3 DEF ReadConfirm, Start
      <3>2. (BackedRequest(h) /\ NewRow(h) /\ Fresh(h))' /\ ~Books(h)'
        BY <1>2, <3>1 DEF ReadConfirm, Unwritten, BackedRequest, NewRow, Fresh, Inserts, Books
      <3> QED BY <1>2, <3>1, <3>2, ReadIInv DEF ReadConfirm, Unwritten
    <2> QED BY <2>2, <2>3
  <1> QED BY <1>1, <1>2

\* A request that reserves the next row for money taken by hand.
LEMMA ReserveIInv ==
    ASSUME IInv, TInv', NEW h \in Handlers, NEW p \in Payments, Free(p),
           UNCHANGED <<order, payment, attempt, stale, overtaken>>,
           NEW r, request' = [request EXCEPT ![h] = r], r.p = p, r.op \in {"money", "paid"},
           r.row.status = "SUCCESS", ~r.row.online
    PROVE  IInv'
  <1>1. request'[h] = r /\ \A k \in Handlers \ {h} : request'[k] = request[k]
    BY DEF IInv, TInv, TypeOK
  <1>2. payment'[p] = NoRow /\ \A k \in Handlers : Books(k) => request[k].p # p
    BY FreeRow
  <1>3. BackedRequest(h)' /\ Fresh(h)'
    BY <1>1 DEF BackedRequest, Backed, Fresh
  <1>4. NewRow(h)'
    BY <1>1, <1>2 DEF NewRow, Books
  <1>5. \A k \in Handlers \ {h} : Inserts(k) => request[k].p # p
    BY <1>2, InsertsBooks
  <1> QED BY <1>3, <1>4, <1>5, ReadIInv

LEMMA CashFacts ==
    ASSUME NEW amount
    PROVE  CashRow(amount).status = "SUCCESS" /\ ~CashRow(amount).online
  BY DEF CashRow

LEMMA StaffedIInv ==
    ASSUME IInv, TInv', NEW h \in Handlers, Staffed(h)
    PROVE  IInv'
  <1>h. h \in DOMAIN request
    BY DEF IInv, TInv, TypeOK
  <1>1. ASSUME NEW p \in Payments, CashAdvance(h, p) PROVE IInv'
    <2> DEFINE row == CashRow(order.advance - Collected)
               r   == [op |-> "money", p |-> p, row |-> row, hook |-> FALSE]
    <2>1. Free(p) /\ request' = [request EXCEPT ![h] = r]
      BY <1>1 DEF CashAdvance, Start
    <2>2. r.p = p /\ r.op = "money" /\ r.row.status = "SUCCESS" /\ ~r.row.online
      BY CashFacts
    <2> HIDE DEF r
    <2> QED BY <1>1, <2>1, <2>2, ReserveIInv DEF CashAdvance, Unwritten
  <1>2. ASSUME NEW p \in Payments, CashPayment(h, p) PROVE IInv'
    <2> DEFINE row == CashRow(order.total)
               r   == [op |-> "money", p |-> p, row |-> row, hook |-> FALSE]
    <2>1. Free(p) /\ request' = [request EXCEPT ![h] = r]
      BY <1>2 DEF CashPayment, Start
    <2>2. r.p = p /\ r.op = "money" /\ r.row.status = "SUCCESS" /\ ~r.row.online
      BY CashFacts
    <2> HIDE DEF r
    <2> QED BY <1>2, <2>1, <2>2, ReserveIInv DEF CashPayment, Unwritten
  <1>3. ASSUME NEW p \in Payments, ReadPaid(h, p) PROVE IInv'
    <2> DEFINE row == CashRow(order.total)
               r   == [op |-> "paid", p |-> p, row |-> row]
    <2>1. Free(p) /\ request' = [request EXCEPT ![h] = r]
      BY <1>3 DEF ReadPaid, Start
    <2>2. r.p = p /\ r.op = "paid" /\ r.row.status = "SUCCESS" /\ ~r.row.online
      BY CashFacts
    <2> HIDE DEF r
    <2> QED BY <1>3, <2>1, <2>2, ReserveIInv DEF ReadPaid, Unwritten
  <1>4. ASSUME NEW p \in Payments, ReadRefund(h, p) PROVE IInv'
    <2> DEFINE r == [op |-> "refund", p |-> p]
    <2>1. request' = [request EXCEPT ![h] = r] /\ request'[h] = r
      BY <1>4, <1>h DEF ReadRefund, Start
    <2>2. payment[p].online => payment[p].ref \in Attempts /\ Accepted(p, payment[p].ref)
      BY <1>4 DEF ReadRefund, IInv, OnlyAcceptedMoney
    <2>3. (BackedRequest(h) /\ NewRow(h) /\ Fresh(h))' /\ ~Books(h)'
      BY <1>4, <2>1, <2>2 DEF ReadRefund, Unwritten, BackedRequest, Backed, Accepted, NewRow, Fresh,
                              Inserts, Books
    <2> QED BY <1>4, <2>1, <2>3, ReadIInv DEF ReadRefund, Unwritten
  <1>5. ASSUME NEW to \in {"UNPAID", "REFUNDED"}, ReadSettle(h, to) PROVE IInv'
    <2> DEFINE r == [op |-> "settle", to |-> to]
    <2>1. request' = [request EXCEPT ![h] = r] /\ request'[h] = r
      BY <1>5, <1>h DEF ReadSettle, Start
    <2>2. (BackedRequest(h) /\ NewRow(h) /\ Fresh(h))' /\ ~Books(h)'
      BY <2>1 DEF BackedRequest, NewRow, Fresh, Inserts, Books
    <2> QED BY <1>5, <2>1, <2>2, ReadIInv DEF ReadSettle, Unwritten
  <1> QED BY <1>1, <1>2, <1>3, <1>4, <1>5 DEF Staffed

\* The steps of a request in which it goes on without writing.
LEMMA OnwardIInv ==
    ASSUME IInv, TInv', NEW h \in Handlers, ReadBook(h) \/ CountLeft(h)
    PROVE  IInv'
  <1> DEFINE p == request[h].p
  <1>h. h \in DOMAIN request /\ TypeOK
    BY DEF IInv, TInv, TypeOK
  <1>1. CASE ReadBook(h)
    <2> DEFINE settles == CollectedWith(p, request[h].row) >= order.total
               r == [ op |-> "book", p |-> p, row |-> request[h].row, hook |-> request[h].hook,
                      settles |-> settles ]
    <2>1. request' = [request EXCEPT ![h] = r] /\ request'[h] = r
      BY <1>1, <1>h DEF ReadBook, Continue
    <2> HIDE DEF settles
    <2>2. r.op = "book" /\ r.p = p /\ r.row = request[h].row /\ Doing(h, "money")
      BY <1>1 DEF ReadBook
    <2> HIDE DEF r
    <2>3. UNCHANGED <<order, payment, attempt, stale, overtaken>>
      BY <1>1 DEF ReadBook, Unwritten
    <2>4. BackedRequest(h)' /\ Fresh(h)'
      BY <2>1, <2>2, <2>3 DEF IInv, BackedRequest, Backed, Accepted, Fresh, Doing
    <2>5. /\ Inserts(h)' <=> Inserts(h)
          /\ Books(h)
          /\ \A k \in Handlers \ {h} : request'[k] = request[k]
      BY <1>h, <2>1, <2>2 DEF Inserts, Books, Doing, TypeOK
    <2>6. NewRow(h)'
      BY <2>1, <2>2, <2>3, <2>5 DEF IInv, NewRow, Books
    <2>7. \A k \in Handlers \ {h} : Inserts(k) => request[k].p # r.p
      BY <2>2, <2>5 DEF IInv, NewRow
    <2> QED BY <2>1, <2>3, <2>4, <2>6, <2>7, ReadIInv
  <1>2. CASE CountLeft(h)
    <2> DEFINE last == Succeeded \subseteq {p}
               r == [op |-> "counted", p |-> p, last |-> last]
    <2>1. request' = [request EXCEPT ![h] = r] /\ request'[h] = r
      BY <1>2, <1>h DEF CountLeft, Continue
    <2>2. UNCHANGED <<order, payment, attempt, stale, overtaken>> /\ Doing(h, "refund")
      BY <1>2 DEF CountLeft, Unwritten
    <2>3. r.op = "counted" /\ r.p = p /\ (r.last <=> Succeeded \subseteq {p})
      OBVIOUS
    <2> HIDE DEF r
    <2>4. BackedRequest(h)'
      BY <2>1, <2>2, <2>3 DEF IInv, BackedRequest, Backed, Accepted, Doing
    <2>5. Fresh(h)'
      BY <2>1, <2>2, <2>3 DEF Fresh, Succeeded
    <2>6. NewRow(h)' /\ ~Books(h)'
      BY <2>1, <2>3 DEF NewRow, Inserts, Books
    <2> QED BY <2>1, <2>2, <2>4, <2>5, <2>6, ReadIInv
  <1> QED BY <1>1, <1>2

\* The intent's row appears where nobody else looks: nothing of it counts yet.
LEMMA IntentIInv ==
    ASSUME IInv, TInv', NEW h \in Handlers, CommitIntent(h)
    PROVE  IInv'
  <1> DEFINE p == request[h].p
             row == request[h].row
  <1>t. TypeOK /\ Inserts(h) /\ Books(h) /\ request[h] \in IntentReq
    BY RequestKinds DEF IInv, TInv, CommitIntent, Inserts, Books, Doing
  <1>1. /\ p \in Payments /\ payment[p] = NoRow /\ row.status = "PENDING" /\ row.online
        /\ \A k \in Handlers \ {h} : Books(k) => request[k].p # p
    BY <1>t DEF IInv, NewRow, BackedRequest, CommitIntent, Doing, IntentReq
  <1>2. /\ payment' = [payment EXCEPT ![p] = row] /\ payment'[p] = row
        /\ \A q \in Payments \ {p} : payment'[q] = payment[q]
    BY <1>t, <1>1 DEF CommitIntent, TypeOK
  <1>3. request'[h] = Idle /\ \A k \in Handlers \ {h} : request'[k] = request[k]
    BY <1>t DEF CommitIntent, Finish, TypeOK
  <1>4. UNCHANGED <<order, attempt, overtaken>> /\ stale' = stale \ {h}
    BY DEF CommitIntent
  <1>5. NoRow.status = "ABSENT"
    BY DEF NoRow
  <1>6. Succeeded' = Succeeded
    BY <1>1, <1>2, <1>5 DEF Succeeded
  <1>7. PendingOnline' /\ OnlyAcceptedMoney' /\ PaidHasReceipt'
    BY <1>1, <1>2, <1>4, <1>6 DEF IInv, PendingOnline, OnlyAcceptedMoney, Accepted, PaidHasReceipt
  <1>8. (BackedRequest(h) /\ NewRow(h) /\ Fresh(h))'
    BY <1>3 DEF BackedRequest, NewRow, Fresh, Inserts, Idle
  <1>9. ASSUME NEW k \in Handlers \ {h} PROVE (BackedRequest(k) /\ NewRow(k) /\ Fresh(k))'
    <2>1. request'[k] = request[k]
      BY <1>3
    <2>2. /\ request[k].op \in {"money", "book"} => request[k].p \in Payments \ {p}
          /\ request[k].op \in {"fail", "refund", "counted"} => request[k].p \in Payments \ {p}
      <3>1. /\ request[k].op \in {"money", "book"} => Books(k) /\ request[k].p \in Payments
            /\ request[k].op \in {"fail", "refund", "counted"} =>
                  request[k].p \in Payments /\ payment[request[k].p] \in Row
        BY <1>t, RequestKinds DEF IInv, TInv, Existing, Books, Doing, MoneyReq, BookReq, FailReq,
                                  RefundReq, CountedReq
      <3>2. payment[p] \notin Row
        BY <1>t, <1>1, RowThere
      <3> QED BY <1>1, <3>1, <3>2
    <2>3. BackedRequest(k)'
      BY <1>2, <1>4, <2>1, <2>2 DEF IInv, BackedRequest, Backed, Accepted
    <2>4. Fresh(k)'
      BY <1>2, <1>4, <1>6, <2>1, <2>2 DEF IInv, Fresh
    <2>5. NewRow(k)'
      <3>1. Inserts(k)' <=> Inserts(k)
        BY <2>1 DEF Inserts
      <3>2. Inserts(k) => request[k].p \in Payments \ {p}
        BY <1>t, <1>1, RequestKinds, InsertsBooks DEF Inserts, Doing, IntentReq, MoneyReq, BookReq, PaidReq
      <3>3. \A j \in Handlers : Books(j)' => Books(j) /\ request'[j] = request[j]
        BY <1>3 DEF Books, Idle
      <3> QED BY <1>2, <2>1, <3>1, <3>2, <3>3 DEF IInv, NewRow
    <2> QED BY <2>3, <2>4, <2>5
  <1> QED BY <1>7, <1>8, <1>9 DEF IInv

LEMMA FailIInv ==
    ASSUME IInv, TInv', NEW h \in Handlers, CommitFail(h)
    PROVE  IInv'
  <1> DEFINE p == request[h].p
             row == [payment[p] EXCEPT !.status = "FAILED"]
  <1>1. p \in Payments /\ payment[p] \in Row /\ TypeOK
    BY RequestKinds DEF IInv, TInv, Existing, CommitFail, Doing, FailReq
  <1>2. row \in Row /\ row.status = "FAILED" /\ row.online = payment[p].online /\ row.ref = payment[p].ref
    BY <1>1 DEF Row
  <1>3. payment' = [payment EXCEPT ![p] = row]
    BY DEF CommitFail
  <1> HIDE DEF row
  <1>4. payment'[p] = row /\ \A q \in Payments \ {p} : payment'[q] = payment[q]
    BY <1>1, <1>3 DEF TypeOK
  <1>5. Backed(p, payment[p]) => Backed(p, row)
    BY <1>2 DEF Backed
  <1>6. PaidHasReceipt'
    <2>1. h \notin stale => Succeeded' = Succeeded
      BY <1>1, <1>2, <1>4 DEF Succeeded, IInv, Fresh, CommitFail, Doing
    <2>2. overtaken' \/ (~overtaken /\ h \notin stale)
      BY DEF CommitFail, Writes
    <2> QED BY <2>1, <2>2 DEF CommitFail, IInv, PaidHasReceipt
  <1> QED BY <1>1, <1>2, <1>3, <1>5, <1>6, RowNotInserted, WriteIInv DEF CommitFail

LEMMA BookIInv ==
    ASSUME IInv, TInv', NEW h \in Handlers, CommitBook(h) \/ CommitPaid(h)
    PROVE  IInv'
  <1> DEFINE p == request[h].p
             row == request[h].row
  <1>1. p \in Payments /\ row \in Row /\ Books(h) /\ TypeOK
    BY RequestKinds DEF IInv, TInv, CommitBook, CommitPaid, Doing, Books, BookReq, PaidReq
  <1>2. row.status = "SUCCESS" /\ Backed(p, row)
    BY DEF IInv, BackedRequest, Backed, CommitBook, CommitPaid, Doing
  <1>3. payment' = [payment EXCEPT ![p] = row] /\ payment'[p] = row
    BY <1>1 DEF CommitBook, CommitPaid, TypeOK
  <1>4. PaidHasReceipt'
    BY <1>1, <1>2, <1>3 DEF PaidHasReceipt, Succeeded
  <1>5. \A k \in Handlers \ {h} : Inserts(k) => request[k].p # p
    BY <1>1 DEF IInv, NewRow
  <1>6. Writes(h) /\ UNCHANGED attempt
    BY DEF CommitBook, CommitPaid
  <1> QED BY <1>1, <1>2, <1>3, <1>4, <1>5, <1>6, WriteIInv

LEMMA RefundIInv ==
    ASSUME IInv, TInv', NEW h \in Handlers, CommitRefund(h)
    PROVE  IInv'
  <1> DEFINE p == request[h].p
             row == [payment[p] EXCEPT !.status = "REFUNDED"]
  <1>1. p \in Payments /\ payment[p] \in Row /\ TypeOK
    BY RequestKinds DEF IInv, TInv, Existing, CommitRefund, Doing, CountedReq
  <1>2. row \in Row /\ row.status = "REFUNDED" /\ row.online = payment[p].online /\ row.ref = payment[p].ref
    BY <1>1 DEF Row
  <1>3. payment' = [payment EXCEPT ![p] = row]
    BY DEF CommitRefund
  <1> HIDE DEF row
  <1>4. payment'[p] = row /\ \A q \in Payments \ {p} : payment'[q] = payment[q]
    BY <1>1, <1>3 DEF TypeOK
  <1>5. Backed(p, row)
    BY <1>2 DEF Backed, IInv, BackedRequest, CommitRefund, Doing
  <1>6. PaidHasReceipt'
    <2>1. overtaken' \/ (~overtaken /\ h \notin stale)
      BY DEF CommitRefund, Writes
    <2>2. CASE request[h].last
      BY <2>2 DEF CommitRefund, PaidHasReceipt, IInv, TInv, TypeOK, OrderRow
    <2>3. CASE ~request[h].last
      <3>1. h \notin stale => \E q \in Payments \ {p} : payment[q].status = "SUCCESS"
        BY <2>3 DEF IInv, Fresh, Succeeded, CommitRefund, Doing
      <3> QED BY <1>4, <2>1, <3>1 DEF PaidHasReceipt, Succeeded
    <2> QED BY <2>2, <2>3
  <1> QED BY <1>1, <1>2, <1>3, <1>5, <1>6, RowNotInserted, WriteIInv DEF CommitRefund

LEMMA SettleIInv ==
    ASSUME IInv, TInv', NEW h \in Handlers, CommitSettle(h)
    PROVE  IInv'
  <1>t. TypeOK /\ request[h] \in SettleReq
    BY RequestKinds DEF IInv, TInv, CommitSettle
  <1>1. request'[h] = Idle /\ \A k \in Handlers \ {h} : request'[k] = request[k]
    BY <1>t DEF CommitSettle, Writes, Finish, TypeOK
  <1>2. ASSUME NEW p \in Payments
        PROVE  \/ payment'[p] = payment[p]
               \/ /\ payment[p].status = "SUCCESS" /\ payment[p] \in Row
                  /\ payment'[p] = [payment[p] EXCEPT !.status = "REFUNDED"]
    BY <1>t, RowThere DEF CommitSettle, Succeeded
  <1>3. ASSUME NEW p \in Payments
        PROVE  /\ payment'[p].online = payment[p].online \/ payment'[p] = payment[p]
               /\ payment'[p].ref = payment[p].ref \/ payment'[p] = payment[p]
               /\ payment'[p].status \in {payment[p].status, "REFUNDED"}
               /\ payment'[p].status # payment[p].status => payment[p].status = "SUCCESS"
               /\ payment[p] \in Row => payment'[p] \in Row
               /\ payment[p] = NoRow => payment'[p] = NoRow
    <2>1. CASE payment'[p] = payment[p]
      BY <2>1
    <2>2. CASE /\ payment[p].status = "SUCCESS" /\ payment[p] \in Row
               /\ payment'[p] = [payment[p] EXCEPT !.status = "REFUNDED"]
      <3>1. payment[p] # NoRow
        BY <1>t, <2>2, RowThere
      <3> QED BY <2>2, <3>1 DEF Row
    <2> QED BY <1>2, <2>1, <2>2
  <1>4. PendingOnline' /\ OnlyAcceptedMoney'
    BY <1>3 DEF IInv, PendingOnline, OnlyAcceptedMoney, Accepted, CommitSettle
  <1>5. PaidHasReceipt'
    BY <1>t DEF CommitSettle, SettleReq, PaidHasReceipt, TypeOK, OrderRow
  <1>6. (BackedRequest(h) /\ NewRow(h) /\ Fresh(h))'
    BY <1>1 DEF BackedRequest, NewRow, Fresh, Inserts, Idle
  <1>7. ASSUME NEW k \in Handlers \ {h} PROVE (BackedRequest(k) /\ NewRow(k) /\ Fresh(k))'
    <2>1. request'[k] = request[k]
      BY <1>1
    <2>2. request[k].op # "none" /\ request[k].op # "settle" => request[k].p \in Payments
      <3>1. request[k] \in Request
        BY <1>t, RequestKinds
      <3> DEFINE r == request[k]
      <3> HIDE DEF r
      <3>2. r \in Request => (r.op # "none" /\ r.op # "settle" => r.p \in Payments)
        BY DEF Request, Idle, IntentReq, MoneyReq, BookReq, FailReq, RefundReq, CountedReq,
               PaidReq, SettleReq
      <3> QED BY <3>1, <3>2 DEF r
    <2>3. BackedRequest(k)'
      BY <1>3, <2>1, <2>2 DEF IInv, BackedRequest, Backed, Accepted, CommitSettle
    <2>4. Fresh(k)'
      BY <2>1 DEF CommitSettle, Writes, Fresh, Doing
    <2>5. NewRow(k)'
      <3>1. Inserts(k)' <=> Inserts(k)
        BY <2>1 DEF Inserts
      <3>2. \A j \in Handlers : Books(j)' => Books(j) /\ request'[j] = request[j]
        BY <1>1 DEF Books, Idle
      <3> QED BY <1>3, <2>1, <2>2, <3>1, <3>2 DEF IInv, NewRow, Inserts
    <2> QED BY <2>3, <2>4, <2>5
  <1> QED BY <1>4, <1>5, <1>6, <1>7 DEF IInv

LEMMA CommitsIInv ==
    ASSUME IInv, TInv', NEW h \in Handlers, Commit(h)
    PROVE  IInv'
  BY IntentIInv, FailIInv, OnwardIInv, BookIInv, SettleIInv, RefundIInv DEF Commit

LEMMA AbortIInv ==
    ASSUME IInv, TInv', NEW h \in Handlers, Abort(h)
    PROVE  IInv'
  <1>1. request'[h] = Idle /\ \A k \in Handlers \ {h} : request'[k] = request[k]
    BY DEF Abort, Finish, IInv, TInv, TypeOK
  <1>2. UNCHANGED <<order, payment, attempt, overtaken>> /\ stale' = stale \ {h}
    BY DEF Abort
  <1>3. PendingOnline' /\ OnlyAcceptedMoney' /\ PaidHasReceipt' /\ Succeeded' = Succeeded
    BY <1>2 DEF IInv, PendingOnline, OnlyAcceptedMoney, PaidHasReceipt, Accepted, Succeeded
  <1>4. (BackedRequest(h) /\ NewRow(h) /\ Fresh(h))'
    BY <1>1 DEF BackedRequest, NewRow, Fresh, Inserts, Idle
  <1>5. ASSUME NEW k \in Handlers \ {h} PROVE (BackedRequest(k) /\ NewRow(k) /\ Fresh(k))'
    <2>1. BackedRequest(k)' /\ Fresh(k)'
      BY <1>1, <1>2, <1>3 DEF IInv, BackedRequest, Backed, Accepted, Fresh
    <2>2. \A j \in Handlers : Books(j)' => Books(j) /\ request'[j] = request[j]
      BY <1>1 DEF Books, Idle
    <2>3. NewRow(k)'
      BY <1>1, <1>2, <2>2 DEF IInv, NewRow, Inserts
    <2> QED BY <2>1, <2>3
  <1> QED BY <1>3, <1>4, <1>5 DEF IInv

\* The gateway never takes an acceptance back.
LEMMA GatewayIInv ==
    ASSUME IInv, TInv', Gateway
    PROVE  IInv'
  <1>1. UNCHANGED <<order, payment, request, stale, overtaken>>
    BY DEF Gateway, AttemptMade, Capture, Unwritten
  <1>2. ASSUME NEW p \in Payments, NEW a \in Attempts, Accepted(p, a) PROVE Accepted(p, a)'
    <2>1. PICK q \in Payments, b \in Attempts :
            \/ \E outcome \in {"failed", "authorised"} :
                  attempt[q][b] = "none" /\ attempt' = [attempt EXCEPT ![q][b] = outcome]
            \/ attempt[q][b] = "authorised" /\ attempt' = [attempt EXCEPT ![q][b] = "captured"]
      BY DEF Gateway, AttemptMade, Capture
    <2>2. attempt \in [Payments -> [Attempts -> {"none", "failed", "authorised", "captured"}]]
      BY DEF IInv, TInv, TypeOK
    <2> QED BY <1>2, <2>1, <2>2 DEF Accepted
  <1>3. PendingOnline' /\ OnlyAcceptedMoney' /\ PaidHasReceipt'
    BY <1>1, <1>2 DEF IInv, PendingOnline, OnlyAcceptedMoney, PaidHasReceipt, Succeeded
  <1>4. ASSUME NEW k \in Handlers PROVE (BackedRequest(k) /\ NewRow(k) /\ Fresh(k))'
    <2>1. request[k].op \in {"money", "book", "refund", "counted"} => request[k].p \in Payments
      BY RequestKinds DEF IInv, TInv, Doing, MoneyReq, BookReq, RefundReq, CountedReq
    <2>2. BackedRequest(k)'
      BY <1>1, <1>2, <2>1 DEF IInv, BackedRequest, Backed
    <2>3. NewRow(k)' /\ Fresh(k)'
      BY <1>1 DEF IInv, NewRow, Inserts, Books, Fresh, Succeeded
    <2> QED BY <2>2, <2>3
  <1> QED BY <1>3, <1>4 DEF IInv

LEMMA WorkflowIInv ==
    ASSUME IInv, TInv', Workflow
    PROVE  IInv'
  <1>1. UNCHANGED <<payment, attempt, request, overtaken>> /\ order'.summary = order.summary
    BY DEF Workflow, IInv, TInv, TypeOK, OrderRow
  <1>2. PendingOnline' /\ OnlyAcceptedMoney' /\ PaidHasReceipt'
    BY <1>1 DEF IInv, PendingOnline, OnlyAcceptedMoney, PaidHasReceipt, Succeeded, Accepted
  <1>3. ASSUME NEW k \in Handlers PROVE (BackedRequest(k) /\ NewRow(k) /\ Fresh(k))'
    <2>1. BackedRequest(k)' /\ NewRow(k)'
      BY <1>1 DEF IInv, BackedRequest, Backed, Accepted, NewRow, Inserts, Books
    <2>2. Fresh(k)'
      BY <1>1 DEF Workflow, Fresh, Doing
    <2> QED BY <2>1, <2>2
  <1> QED BY <1>2, <1>3 DEF IInv

LEMMA NextIInv == IInv /\ [Next]_vars => IInv'
  <1> SUFFICES ASSUME IInv, [Next]_vars PROVE IInv'
    OBVIOUS
  <1>t. TInv'
    BY NextType DEF IInv
  <1>1. ASSUME NEW h \in Handlers, Webhook(h) \/ Guest(h) \/ Staffed(h) \/ Commit(h) \/ Abort(h)
        PROVE  IInv'
    BY <1>t, <1>1, WebhookIInv, GuestIInv, StaffedIInv, CommitsIInv, AbortIInv
  <1>2. CASE UNCHANGED vars
    BY <1>t, <1>2 DEF vars, IInv, PendingOnline, OnlyAcceptedMoney, PaidHasReceipt, Succeeded,
                      Accepted, BackedRequest, Backed, NewRow, Inserts, Books, Fresh
  <1> QED BY <1>t, <1>1, <1>2, GatewayIInv, WorkflowIInv DEF Next

LEMMA Inductive == Spec => []IInv
  BY InitIInv, NextIInv, PTL DEF Spec

\* However webhooks, browsers and staff race, and whatever is repeated or late, an
\* online payment counts only if the gateway accepted the attempt its row names.
THEOREM OnlyAcceptedMoneyCounts == Spec => []OnlyAcceptedMoney
  <1>1. IInv => OnlyAcceptedMoney
    BY DEF IInv
  <1> QED BY <1>1, Inductive, PTL

\* Until a request writes over a ledger that changed since it read it, no order
\* reads PAID without a successful payment to show for it.
THEOREM PaidAlwaysHasReceipt == Spec => []PaidHasReceipt
  <1>1. IInv => PaidHasReceipt
    BY DEF IInv
  <1> QED BY <1>1, Inductive, PTL

-----------------------------------------------------------------------------
(* What sums over the payments are.                                          *)

\* Induction over the naturals, from their least counterexample.
LEMMA NatSet ==
    ASSUME NEW T \in SUBSET Nat, 0 \in T, \A n \in T : n + 1 \in T
    PROVE  T = Nat
  <1> SUFFICES ASSUME Nat \ T # {} PROVE FALSE
    OBVIOUS
  <1> DEFINE R == { ss \in Nat \X Nat : ss[1] < ss[2] }
  <1>1. IsWellFoundedOn(R, Nat)
    BY NatLessThanWellFounded DEF OpToRel
  <1>2. PICK m \in Nat \ T : \A k \in Nat \ T : ~ (<<k, m>> \in R)
    <2> HIDE DEF R
    <2>1. Nat \ T \subseteq Nat
      OBVIOUS
    <2> QED BY <1>1, <2>1, WFMin
  <1>3. m # 0 /\ m - 1 \in Nat /\ m - 1 + 1 = m
    OBVIOUS
  <1>4. m - 1 \in Nat \ T
    BY <1>3
  <1>5. <<m - 1, m>> \in R
    BY <1>3
  <1> QED BY <1>2, <1>4, <1>5

\* g holds the partial sums of f up to n.
IsUpto(g, f, n) == g = [i \in 0..n |-> IF i = 0 THEN 0 ELSE g[i - 1] + f[i]]

LEMMA UptoExists ==
    ASSUME NEW f, NEW n \in Nat
    PROVE  \E g : IsUpto(g, f, n)
  <1> DEFINE T == { m \in Nat : \E g : IsUpto(g, f, m) }
  <1>1. 0 \in T
    <2> DEFINE g == [i \in 0..0 |-> 0]
    <2>1. IsUpto(g, f, 0)
      BY DEF IsUpto
    <2> QED BY <2>1
  <1>2. ASSUME NEW m \in T PROVE m + 1 \in T
    <2>1. PICK g : IsUpto(g, f, m)
      OBVIOUS
    <2> DEFINE h == [i \in 0..(m + 1) |-> IF i <= m THEN g[i] ELSE g[m] + f[m + 1]]
    <2>2. ASSUME NEW i \in 0..(m + 1)
          PROVE  h[i] = IF i = 0 THEN 0 ELSE h[i - 1] + f[i]
      <3>1. CASE i = 0
        BY <2>1, <3>1 DEF IsUpto
      <3>2. CASE i \in 1..m
        BY <2>1, <3>2 DEF IsUpto
      <3>3. CASE i = m + 1
        BY <3>3
      <3> QED BY <3>1, <3>2, <3>3
    <2>3. IsUpto(h, f, m + 1)
      BY <2>2 DEF IsUpto
    <2> QED BY <2>3
  <1>3. T = Nat
    <2> HIDE DEF T
    <2>1. T \subseteq Nat
      BY DEF T
    <2> QED BY <1>1, <1>2, <2>1, NatSet
  <1> QED BY <1>3

LEMMA SumIs ==
    ASSUME NEW f
    PROVE  \E g : IsUpto(g, f, MaxPayments) /\ Sum(f) = g[MaxPayments]
  <1> DEFINE g == CHOOSE u : u = [n \in 0..MaxPayments |-> IF n = 0 THEN 0 ELSE u[n - 1] + f[n]]
  <1>1. IsUpto(g, f, MaxPayments)
    BY UptoExists, BoundsAssumption DEF IsUpto
  <1>2. Sum(f) = g[MaxPayments]
    BY DEF Sum
  <1> QED BY <1>1, <1>2

Amounts == [Payments -> Nat]

\* A sum of naturals is natural, is no less than each of them, and grows with them.
LEMMA SumNat ==
    ASSUME NEW f \in Amounts
    PROVE  Sum(f) \in Nat /\ \A p \in Payments : f[p] <= Sum(f)
  <1>1. PICK g : IsUpto(g, f, MaxPayments) /\ Sum(f) = g[MaxPayments]
    BY SumIs
  <1>2. g[0] = 0 /\ \A i \in 1..MaxPayments : g[i] = g[i - 1] + f[i] /\ f[i] \in Nat
    BY <1>1, BoundsAssumption DEF IsUpto, Amounts, Payments
  <1> DEFINE T == { n \in Nat : n <= MaxPayments => g[n] \in Nat /\ \A p \in 1..n : f[p] <= g[n] }
  <1>3. 0 \in T
    BY <1>2
  <1>4. ASSUME NEW n \in T PROVE n + 1 \in T
    <2> SUFFICES ASSUME n + 1 <= MaxPayments
                 PROVE  g[n + 1] \in Nat /\ \A p \in 1..(n + 1) : f[p] <= g[n + 1]
      OBVIOUS
    <2>1. g[n] \in Nat /\ \A p \in 1..n : f[p] <= g[n]
      BY BoundsAssumption
    <2>2. g[n + 1] = g[n] + f[n + 1] /\ f[n + 1] \in Nat
      BY <1>2, BoundsAssumption
    <2>3. \A p \in 1..(n + 1) : p \in 1..n \/ p = n + 1
      OBVIOUS
    <2>4. \A p \in 1..n : f[p] \in Nat
      BY <1>2, BoundsAssumption
    <2> QED BY <2>1, <2>2, <2>3, <2>4
  <1>5. MaxPayments \in T
    <2> HIDE DEF T
    <2>1. T \subseteq Nat
      BY DEF T
    <2> QED BY <1>3, <1>4, <2>1, NatSet, BoundsAssumption
  <1> QED BY <1>1, <1>5, BoundsAssumption DEF Payments

LEMMA SumMonotone ==
    ASSUME NEW f \in Amounts, NEW h \in Amounts, \A p \in Payments : f[p] <= h[p]
    PROVE  Sum(f) <= Sum(h)
  <1>1. PICK g : IsUpto(g, f, MaxPayments) /\ Sum(f) = g[MaxPayments]
    BY SumIs
  <1>2. PICK k : IsUpto(k, h, MaxPayments) /\ Sum(h) = k[MaxPayments]
    BY SumIs
  <1>3. /\ g[0] = 0 /\ \A i \in 1..MaxPayments : g[i] = g[i - 1] + f[i] /\ f[i] \in Nat
        /\ k[0] = 0 /\ \A i \in 1..MaxPayments : k[i] = k[i - 1] + h[i] /\ h[i] \in Nat
    BY <1>1, <1>2, BoundsAssumption DEF IsUpto, Amounts, Payments
  <1> DEFINE T == { n \in Nat : n <= MaxPayments => g[n] \in Nat /\ k[n] \in Nat /\ g[n] <= k[n] }
  <1>4. 0 \in T
    BY <1>3
  <1>5. ASSUME NEW n \in T PROVE n + 1 \in T
    <2> SUFFICES ASSUME n + 1 <= MaxPayments
                 PROVE  g[n + 1] \in Nat /\ k[n + 1] \in Nat /\ g[n + 1] <= k[n + 1]
      OBVIOUS
    <2>1. g[n] \in Nat /\ k[n] \in Nat /\ g[n] <= k[n]
      BY BoundsAssumption
    <2>2. /\ g[n + 1] = g[n] + f[n + 1] /\ f[n + 1] \in Nat
          /\ k[n + 1] = k[n] + h[n + 1] /\ h[n + 1] \in Nat
      BY <1>3, BoundsAssumption
    <2>3. f[n + 1] <= h[n + 1]
      BY BoundsAssumption DEF Payments
    <2> QED BY <2>1, <2>2, <2>3
  <1>6. MaxPayments \in T
    <2> HIDE DEF T
    <2>1. T \subseteq Nat
      BY DEF T
    <2> QED BY <1>4, <1>5, <2>1, NatSet, BoundsAssumption
  <1> QED BY <1>1, <1>2, <1>6, BoundsAssumption

LEMMA SumZero ==
    ASSUME NEW f, \A p \in Payments : f[p] = 0
    PROVE  Sum(f) = 0
  <1>1. PICK g : IsUpto(g, f, MaxPayments) /\ Sum(f) = g[MaxPayments]
    BY SumIs
  <1>2. g[0] = 0 /\ \A i \in 1..MaxPayments : g[i] = g[i - 1] + 0
    BY <1>1, BoundsAssumption DEF IsUpto, Payments
  <1> DEFINE T == { n \in Nat : n <= MaxPayments => g[n] = 0 }
  <1>3. 0 \in T
    BY <1>2
  <1>4. ASSUME NEW n \in T PROVE n + 1 \in T
    BY <1>2, BoundsAssumption
  <1>5. MaxPayments \in T
    <2> HIDE DEF T
    <2>1. T \subseteq Nat
      BY DEF T
    <2> QED BY <1>3, <1>4, <2>1, NatSet, BoundsAssumption
  <1> QED BY <1>1, <1>5, BoundsAssumption

-----------------------------------------------------------------------------
(* The summary and the ledger.  A request that is not stale still knows      *)
(* what the ledger adds up to.                                               *)

Knows(h) ==
    h \notin stale =>
        /\ request[h].op = "book" =>
              (request[h].settles <=> CollectedWith(request[h].p, request[h].row) >= order.total)
        /\ request[h].op = "paid" => request[h].row.amount = order.total
        /\ request[h].op = "settle" /\ request[h].to = "UNPAID" => Succeeded = {}
        /\ request[h].op = "counted" /\ request[h].last => Succeeded \subseteq {request[h].p}

CInv == IInv /\ order.total > 0 /\ (\A h \in Handlers : Knows(h)) /\ CoveredIsPaid

\* What a step that makes an order PAID must have collected.
Covering == order.summary # "PAID" /\ order'.summary = "PAID"
              => overtaken' \/ Collected' >= order'.total

LEMMA CreditedType == TypeOK => Credited \in Amounts /\ Collected \in Nat
  <1> SUFFICES ASSUME TypeOK PROVE Credited \in Amounts /\ Collected \in Nat
    OBVIOUS
  <1>1. ASSUME NEW p \in Payments, payment[p].status = "SUCCESS" PROVE payment[p].amount \in Nat
    BY <1>1, RowThere DEF Row
  <1>2. Credited \in Amounts
    BY <1>1 DEF Credited, Amounts
  <1> QED BY <1>2, SumNat DEF Collected

\* What nobody has paid adds up to nothing.
LEMMA NoneCollected == Succeeded = {} => Collected = 0
  <1> SUFFICES ASSUME Succeeded = {} PROVE Collected = 0
    OBVIOUS
  <1>1. \A p \in Payments : Credited[p] = 0
    BY DEF Credited, Succeeded
  <1> QED BY <1>1, SumZero DEF Collected

LEMMA LedgerStands ==
    ASSUME \A p \in Payments : payment'[p] = payment[p]
    PROVE  /\ Credited' = Credited /\ Collected' = Collected /\ Succeeded' = Succeeded
           /\ \A p, row : CollectedWith(p, row)' = CollectedWith(p, row)
  <1>1. Credited' = Credited /\ Succeeded' = Succeeded
    BY DEF Credited, Succeeded
  <1> QED BY <1>1 DEF Collected, CollectedWith

\* A request that reads, or the gateway moving on.
LEMMA ReadCovered ==
    ASSUME CInv, IInv', UNCHANGED <<order, payment, stale, overtaken>>,
           NEW h \in Handlers, Knows(h)',
           \A k \in Handlers \ {h} : request'[k] = request[k]
    PROVE  CInv' /\ Covering
  <1>1. Collected' = Collected /\ \A k \in Handlers \ {h} : Knows(k)'
    BY LedgerStands DEF CInv, Knows
  <1> QED BY <1>1 DEF CInv, CoveredIsPaid, Covering

\* A request that is done without a change to what is collected.
LEMMA DropCovered ==
    ASSUME CInv, IInv', NEW h \in Handlers, Finish(h), UNCHANGED <<order, overtaken>>,
           stale' = stale \ {h}, Credited' = Credited, Succeeded' = Succeeded
    PROVE  CInv' /\ Covering
  <1>1. request'[h] = Idle /\ \A k \in Handlers \ {h} : request'[k] = request[k]
    BY DEF Finish, CInv, IInv, TInv, TypeOK
  <1>2. Knows(h)'
    BY <1>1 DEF Knows, Idle
  <1>3. \A k \in Handlers \ {h} : Knows(k)'
    BY <1>1 DEF Knows, CInv, CollectedWith
  <1> QED BY <1>2, <1>3 DEF CInv, CoveredIsPaid, Covering, Collected

\* Whoever writes outdates what all the others have read.
LEMMA WriteKnows ==
    ASSUME TypeOK, NEW h \in Handlers, Writes(h)
    PROVE  \A k \in Handlers : Knows(k)'
  <1>1. request'[h] = Idle /\ \A k \in Handlers \ {h} : request'[k] = request[k]
    BY DEF Writes, Finish, TypeOK
  <1>2. \A k \in Handlers \ {h} : Doing(k, "none") \/ k \in stale'
    BY DEF Writes
  <1> QED BY <1>1, <1>2 DEF Knows, Idle, Doing

LEMMA Fresh2 ==
    ASSUME NEW h \in Handlers, Writes(h)
    PROVE  overtaken' \/ (~overtaken /\ h \notin stale)
  BY DEF Writes

LEMMA FailCovered ==
    ASSUME CInv, IInv', NEW h \in Handlers, CommitFail(h)
    PROVE  CInv' /\ Covering
  <1> DEFINE p == request[h].p
  <1>1. /\ Writes(h) /\ order' = order /\ Doing(h, "fail")
        /\ payment' = [payment EXCEPT ![p].status = "FAILED"]
    BY DEF CommitFail
  <1>2. p \in Payments /\ payment[p] \in Row /\ TypeOK
    BY <1>1, RequestKinds DEF CInv, IInv, TInv, Existing, Doing, FailReq
  <1>3. h \notin stale => payment[p].status # "SUCCESS"
    BY <1>1 DEF CInv, IInv, Fresh, Doing
  <1>4. payment'[p].status = "FAILED" /\ \A q \in Payments \ {p} : payment'[q] = payment[q]
    BY <1>1, <1>2 DEF TypeOK, Row
  <1>5. h \notin stale => Credited' = Credited
    BY <1>3, <1>4 DEF Credited
  <1>6. CoveredIsPaid'
    BY <1>1, <1>5, Fresh2 DEF CInv, CoveredIsPaid, Collected
  <1> QED BY <1>1, <1>2, <1>6, WriteKnows DEF CInv, Covering

\* A payment that lands: the summary is written from the sum with its row in it.
LEMMA BookCovered ==
    ASSUME CInv, IInv', NEW h \in Handlers, CommitBook(h)
    PROVE  CInv' /\ Covering
  <1> DEFINE p == request[h].p
             row == request[h].row
  <1>1. /\ Writes(h) /\ Doing(h, "book") /\ payment' = [payment EXCEPT ![p] = row]
        /\ order'.total = order.total
        /\ order'.summary = IF request[h].settles THEN "PAID" ELSE order.summary
    BY DEF CommitBook, CInv, IInv, TInv, TypeOK, OrderRow
  <1>2. p \in Payments /\ row \in Row /\ TypeOK /\ row.status = "SUCCESS"
    BY <1>1, RequestKinds DEF CInv, IInv, TInv, Doing, BookReq, BackedRequest
  <1> HIDE DEF row
  <1>3. payment'[p] = row /\ \A q \in Payments \ {p} : payment'[q] = payment[q]
    BY <1>1, <1>2 DEF TypeOK
  <1>4. Credited' = [Credited EXCEPT ![p] = row.amount]
    BY <1>2, <1>3 DEF Credited
  <1>5. Collected' = CollectedWith(p, row)
    BY <1>4 DEF Collected, CollectedWith
  <1>6. h \notin stale => (request[h].settles <=> Collected' >= order'.total)
    BY <1>1, <1>5 DEF CInv, Knows, Doing, row
  <1>7. CoveredIsPaid' /\ Covering
    BY <1>1, <1>6, Fresh2 DEF CoveredIsPaid, Covering
  <1> QED BY <1>1, <1>2, <1>7, WriteKnows DEF CInv

\* The bill booked by hand is in the ledger, so the ledger covers it.
LEMMA PaidCovered ==
    ASSUME CInv, IInv', NEW h \in Handlers, CommitPaid(h)
    PROVE  CInv' /\ Covering
  <1> DEFINE p == request[h].p
             row == request[h].row
  <1>1. /\ Writes(h) /\ Doing(h, "paid") /\ payment' = [payment EXCEPT ![p] = row]
        /\ order'.total = order.total /\ order'.summary = "PAID"
    BY DEF CommitPaid, CInv, IInv, TInv, TypeOK, OrderRow
  <1>2. p \in Payments /\ row \in Row /\ TypeOK /\ row.status = "SUCCESS"
    BY <1>1, RequestKinds DEF CInv, IInv, TInv, Doing, PaidReq, BackedRequest
  <1>3. h \notin stale => row.amount = order.total
    BY <1>1 DEF CInv, Knows, Doing
  <1> HIDE DEF row
  <1>4. payment'[p] = row
    BY <1>1, <1>2 DEF TypeOK
  <1>5. Credited'[p] = row.amount
    BY <1>2, <1>4 DEF Credited
  <1>6. (Credited \in Amounts /\ Collected \in Nat)'
    <2>1. TypeOK'
      BY DEF IInv, TInv
    <2> QED BY <2>1, CreditedType, PTL
  <1>7. row.amount <= Collected'
    BY <1>2, <1>5, <1>6, SumNat DEF Collected
  <1>8. row.amount \in Nat /\ order.total \in Nat
    BY <1>2 DEF Row, TypeOK, OrderRow
  <1>9. Covering
    BY <1>1, <1>3, <1>6, <1>7, <1>8, Fresh2 DEF Covering
  <1> QED BY <1>1, <1>2, <1>9, WriteKnows DEF CInv, CoveredIsPaid

\* Settled by hand, nothing is left in the ledger.
LEMMA SettleCovered ==
    ASSUME CInv, IInv', NEW h \in Handlers, CommitSettle(h)
    PROVE  CInv' /\ Covering
  <1>1. /\ Writes(h) /\ Doing(h, "settle") /\ TypeOK
        /\ order'.total = order.total /\ order'.summary = request[h].to
    BY DEF CommitSettle, CInv, IInv, TInv, TypeOK, OrderRow
  <1>2. request[h].to \in {"UNPAID", "REFUNDED"}
    BY <1>1, RequestKinds DEF SettleReq
  <1>3. h \notin stale => Succeeded' = {}
    <2>1. CASE request[h].to = "UNPAID"
      <3>1. \A p \in Payments : payment'[p] = payment[p]
        BY <2>1 DEF CommitSettle
      <3>2. Succeeded' = Succeeded
        BY <3>1, LedgerStands
      <3> QED BY <1>1, <2>1, <3>2 DEF CInv, Knows, Doing
    <2>2. CASE request[h].to = "REFUNDED"
      <3>1. \A p \in Payments : payment'[p] = IF p \in Succeeded
               THEN [payment[p] EXCEPT !.status = "REFUNDED"] ELSE payment[p]
        BY <2>2 DEF CommitSettle
      <3>2. ASSUME NEW p \in Payments PROVE payment'[p].status # "SUCCESS"
        <4>1. CASE p \in Succeeded
          <5>1. payment[p] \in Row
            BY <1>1, <4>1, RowThere DEF Succeeded
          <5> QED BY <3>1, <4>1, <5>1 DEF Row
        <4>2. CASE p \notin Succeeded
          BY <3>1, <4>2 DEF Succeeded
        <4> QED BY <4>1, <4>2
      <3> QED BY <3>2 DEF Succeeded
    <2> QED BY <1>2, <2>1, <2>2
  <1>4. (Succeeded = {} => Collected = 0)'
    BY NoneCollected, PTL
  <1>5. order.total \in Nat /\ order.total > 0
    BY <1>1 DEF CInv, TypeOK, OrderRow
  <1>6. CoveredIsPaid'
    BY <1>1, <1>3, <1>4, <1>5, Fresh2 DEF CoveredIsPaid
  <1> QED BY <1>1, <1>2, <1>5, <1>6, WriteKnows DEF CInv, Covering

\* A refund takes its row out of the sum; the last one leaves nothing.
LEMMA RefundCovered ==
    ASSUME CInv, IInv', NEW h \in Handlers, CommitRefund(h)
    PROVE  CInv' /\ Covering
  <1> DEFINE p == request[h].p
  <1>1. /\ Writes(h) /\ Doing(h, "counted") /\ TypeOK
        /\ payment' = [payment EXCEPT ![p].status = "REFUNDED"]
        /\ order'.total = order.total
        /\ order'.summary = IF request[h].last THEN "REFUNDED" ELSE order.summary
    BY DEF CommitRefund, CInv, IInv, TInv, TypeOK, OrderRow
  <1>2. p \in Payments /\ payment[p] \in Row
    BY <1>1, RequestKinds DEF CInv, IInv, TInv, Existing, Doing, CountedReq
  <1>3. payment'[p].status = "REFUNDED" /\ \A q \in Payments \ {p} : payment'[q] = payment[q]
    BY <1>1, <1>2 DEF TypeOK, Row
  <1>4. /\ Credited \in Amounts /\ Collected \in Nat
        /\ (Credited \in Amounts /\ Collected \in Nat)'
    <2>1. TypeOK'
      BY DEF IInv, TInv
    <2>2. (Credited \in Amounts /\ Collected \in Nat)'
      BY <2>1, CreditedType, PTL
    <2> QED BY <1>1, <2>2, CreditedType
  <1>5. \A q \in Payments : Credited'[q] <= Credited[q]
    <2>1. Credited'[p] = 0
      BY <1>2, <1>3 DEF Credited
    <2>2. \A q \in Payments \ {p} : Credited'[q] = Credited[q]
      BY <1>3 DEF Credited
    <2> QED BY <1>4, <2>1, <2>2 DEF Amounts
  <1>6. Collected' <= Collected
    BY <1>4, <1>5, SumMonotone DEF Collected
  <1>7. h \notin stale /\ request[h].last => Collected' = 0
    <2>2. (Succeeded = {} => Collected = 0)'
      BY NoneCollected, PTL
    <2> SUFFICES ASSUME h \notin stale, request[h].last PROVE Succeeded' = {}
      BY <2>2
    <2>1. Succeeded \subseteq {p}
      BY <1>1 DEF CInv, Knows, Doing
    <2> QED BY <1>3, <2>1 DEF Succeeded
  <1>8. order.total \in Nat /\ order.total > 0
    BY <1>1 DEF CInv, TypeOK, OrderRow
  <1>9. CoveredIsPaid'
    BY <1>1, <1>4, <1>6, <1>7, <1>8, Fresh2 DEF CInv, CoveredIsPaid
  <1> QED BY <1>1, <1>8, <1>9, WriteKnows DEF CInv, Covering

LEMMA CommitCovered ==
    ASSUME CInv, IInv', NEW h \in Handlers, Commit(h)
    PROVE  CInv' /\ Covering
  <1>t. TypeOK /\ h \in DOMAIN request
    BY DEF CInv, IInv, TInv, TypeOK
  <1>1. CASE CommitIntent(h)
    <2> DEFINE p == request[h].p
               row == request[h].row
    <2>1. /\ p \in Payments /\ payment[p] = NoRow /\ row.status = "PENDING"
          /\ payment' = [payment EXCEPT ![p] = row] /\ Finish(h)
          /\ UNCHANGED <<order, overtaken>> /\ stale' = stale \ {h}
      BY <1>1, <1>t, RequestKinds
         DEF CommitIntent, CInv, IInv, NewRow, Inserts, BackedRequest, Doing, IntentReq
    <2> HIDE DEF p, row
    <2>2. payment'[p] = row /\ \A q \in Payments \ {p} : payment'[q] = payment[q]
      BY <1>t, <2>1 DEF TypeOK
    <2>3. NoRow.status = "ABSENT"
      BY DEF NoRow
    <2>4. Credited' = Credited /\ Succeeded' = Succeeded
      BY <2>1, <2>2, <2>3 DEF Credited, Succeeded
    <2> QED BY <2>1, <2>4, DropCovered
  <1>2. CASE ReadBook(h)
    <2> DEFINE r == request[h]
               settles == CollectedWith(r.p, r.row) >= order.total
               s == [ op |-> "book", p |-> r.p, row |-> r.row, hook |-> r.hook,
                      settles |-> settles ]
    <2>1. request' = [request EXCEPT ![h] = s] /\ UNCHANGED <<order, payment, stale, overtaken>>
      BY <1>2 DEF ReadBook, Continue, Unwritten
    <2>2. s.op = "book" /\ s.p = r.p /\ s.row = r.row /\ s.settles = settles
      BY Zenon
    <2> HIDE DEF s
    <2>3. s.settles <=> CollectedWith(s.p, s.row) >= order.total
      BY <2>2
    <2> HIDE DEF settles
    <2>4. request'[h] = s /\ \A k \in Handlers \ {h} : request'[k] = request[k]
      BY <1>t, <2>1
    <2>5. Credited' = Credited
      BY <2>1, LedgerStands
    <2>6. CollectedWith(request[h].p, request[h].row)' = CollectedWith(s.p, s.row)
      BY <2>4, <2>5 DEF CollectedWith
    <2>7. Knows(h)'
      BY <2>1, <2>2, <2>3, <2>4, <2>6 DEF Knows
    <2> QED BY <2>1, <2>4, <2>7, ReadCovered
  <1>3. CASE CountLeft(h)
    <2> DEFINE p == request[h].p
               last == Succeeded \subseteq {p}
               s == [op |-> "counted", p |-> p, last |-> last]
    <2>1. request' = [request EXCEPT ![h] = s] /\ UNCHANGED <<order, payment, stale, overtaken>>
      BY <1>3 DEF CountLeft, Continue, Unwritten
    <2>2. s.op = "counted" /\ s.p = p /\ s.last = last
      BY Zenon
    <2> HIDE DEF s
    <2>3. request'[h] = s /\ \A k \in Handlers \ {h} : request'[k] = request[k]
      BY <1>t, <2>1
    <2>4. Knows(h)'
      BY <2>1, <2>2, <2>3, LedgerStands DEF Knows
    <2> QED BY <2>1, <2>3, <2>4, ReadCovered
  <1> QED BY <1>1, <1>2, <1>3, FailCovered, BookCovered, PaidCovered, SettleCovered, RefundCovered
          DEF Commit

LEMMA StartCovered ==
    ASSUME CInv, IInv', NEW h \in Handlers, Webhook(h) \/ Guest(h) \/ Staffed(h)
    PROVE  CInv' /\ Covering
  <1>t. h \in DOMAIN request
    BY DEF CInv, IInv, TInv, TypeOK
  <1>1. UNCHANGED <<order, payment, stale, overtaken>>
    BY DEF Webhook, WebhookFailed, WebhookCaptured, WebhookRepeated, Guest, ReadInitiate, ReadConfirm,
           Staffed, CashAdvance, CashPayment, ReadPaid, ReadRefund, ReadSettle, Unwritten
  <1>2. CASE request' = request
    <2>1. Knows(h)'
      BY <1>1, <1>2, LedgerStands DEF CInv, Knows
    <2> QED BY <1>1, <1>2, <2>1, ReadCovered
  <1>3. CASE \E r : /\ request' = [request EXCEPT ![h] = r]
                    /\ r.op \in {"intent", "money", "fail", "refund", "paid", "settle"}
                    /\ r.op = "paid" => r.row.amount = order.total
                    /\ r.op = "settle" /\ r.to = "UNPAID" => Succeeded = {}
    <2>1. PICK r : /\ request' = [request EXCEPT ![h] = r]
                   /\ r.op \in {"intent", "money", "fail", "refund", "paid", "settle"}
                   /\ r.op = "paid" => r.row.amount = order.total
                   /\ r.op = "settle" /\ r.to = "UNPAID" => Succeeded = {}
      BY <1>3
    <2>2. request'[h] = r /\ \A k \in Handlers \ {h} : request'[k] = request[k]
      BY <1>t, <2>1
    <2>3. Knows(h)'
      BY <1>1, <2>1, <2>2, LedgerStands DEF Knows
    <2> QED BY <1>1, <2>2, <2>3, ReadCovered
  <1> DEFINE Reads(op) == \E r : request' = [request EXCEPT ![h] = r] /\ r.op = op
  <1>4. ASSUME NEW p \in Payments, NEW a \in Attempts, WebhookFailed(h, p, a) PROVE Reads("fail")
    <2> DEFINE r == [op |-> "fail", p |-> p]
    <2>1. request' = [request EXCEPT ![h] = r] /\ r.op = "fail"
      BY <1>4 DEF WebhookFailed, Start
    <2> HIDE DEF r
    <2> QED BY <2>1
  <1>5. ASSUME NEW p \in Payments, NEW a \in Attempts, WebhookCaptured(h, p, a) PROVE Reads("money")
    <2> DEFINE r == [op |-> "money", p |-> p, row |-> Successful(p, a), hook |-> TRUE]
    <2>1. request' = [request EXCEPT ![h] = r] /\ r.op = "money"
      BY <1>5 DEF WebhookCaptured, Start
    <2> HIDE DEF r
    <2> QED BY <2>1
  <1>6. ASSUME NEW p \in Payments, NEW a \in Attempts, WebhookRepeated(h, p, a) PROVE request' = request
    BY <1>6 DEF WebhookRepeated
  <1>7. ASSUME NEW p \in Payments, ReadInitiate(h, p) PROVE Reads("intent")
    <2> DEFINE target == IF order.status = "AWAITING_ADVANCE_PAYMENT" THEN order.advance ELSE order.total
               row == [status |-> "PENDING", amount |-> target - Collected, online |-> TRUE, ref |-> Intent]
               r   == [op |-> "intent", p |-> p, row |-> row]
    <2>1. request' = [request EXCEPT ![h] = r]
      BY <1>7 DEF ReadInitiate, Start
    <2> HIDE DEF row
    <2>2. r.op = "intent"
      OBVIOUS
    <2> HIDE DEF r
    <2> QED BY <2>1, <2>2
  <1>8. ASSUME NEW p \in Payments, NEW a \in Attempts, NEW v \in BOOLEAN, ReadConfirm(h, p, a, v)
        PROVE  Reads("money") \/ Reads("fail")
    <2> DEFINE r == [op |-> "money", p |-> p, row |-> Successful(p, a), hook |-> FALSE]
               f == [op |-> "fail", p |-> p]
    <2>1. request' = [request EXCEPT ![h] = r] \/ request' = [request EXCEPT ![h] = f]
      BY <1>8 DEF ReadConfirm, Start
    <2>2. r.op = "money" /\ f.op = "fail"
      OBVIOUS
    <2> HIDE DEF r, f
    <2> QED BY <2>1, <2>2
  <1>9. ASSUME NEW p \in Payments, CashAdvance(h, p) \/ CashPayment(h, p) PROVE Reads("money")
    <2>1. \E amount : request' = [request EXCEPT ![h] =
                         [op |-> "money", p |-> p, row |-> CashRow(amount), hook |-> FALSE]]
      BY <1>9 DEF CashAdvance, CashPayment, Start
    <2>2. PICK amount : request' = [request EXCEPT ![h] =
                         [op |-> "money", p |-> p, row |-> CashRow(amount), hook |-> FALSE]]
      BY <2>1
    <2> DEFINE r == [op |-> "money", p |-> p, row |-> CashRow(amount), hook |-> FALSE]
    <2>3. request' = [request EXCEPT ![h] = r] /\ r.op = "money"
      BY <2>2
    <2> HIDE DEF r
    <2> QED BY <2>3
  <1>10. ASSUME NEW p \in Payments, ReadRefund(h, p) PROVE Reads("refund")
    <2> DEFINE r == [op |-> "refund", p |-> p]
    <2>1. request' = [request EXCEPT ![h] = r] /\ r.op = "refund"
      BY <1>10 DEF ReadRefund, Start
    <2> HIDE DEF r
    <2> QED BY <2>1
  <1>11. ASSUME NEW p \in Payments, ReadPaid(h, p)
         PROVE  \E r : /\ request' = [request EXCEPT ![h] = r] /\ r.op = "paid"
                       /\ r.row.amount = order.total
    <2> DEFINE r == [op |-> "paid", p |-> p, row |-> CashRow(order.total)]
    <2>1. request' = [request EXCEPT ![h] = r]
      BY <1>11 DEF ReadPaid, Start
    <2>2. r.op = "paid" /\ r.row.amount = order.total
      BY DEF CashRow
    <2> HIDE DEF r
    <2> QED BY <2>1, <2>2
  <1>12. ASSUME NEW to \in {"UNPAID", "REFUNDED"}, ReadSettle(h, to)
         PROVE  \E r : /\ request' = [request EXCEPT ![h] = r] /\ r.op = "settle"
                       /\ r.to = "UNPAID" => Succeeded = {}
    <2> DEFINE r == [op |-> "settle", to |-> to]
    <2>1. request' = [request EXCEPT ![h] = r] /\ (to = "UNPAID" => Succeeded = {})
      BY <1>12 DEF ReadSettle, Start
    <2>2. r.op = "settle" /\ r.to = to
      OBVIOUS
    <2> HIDE DEF r
    <2> QED BY <2>1, <2>2
  <1> HIDE DEF Reads
  <1>13. \/ request' = request
         \/ Reads("fail") \/ Reads("money") \/ Reads("intent") \/ Reads("refund")
         \/ \E r : request' = [request EXCEPT ![h] = r] /\ r.op = "paid" /\ r.row.amount = order.total
         \/ \E r : /\ request' = [request EXCEPT ![h] = r] /\ r.op = "settle"
                   /\ r.to = "UNPAID" => Succeeded = {}
    BY <1>4, <1>5, <1>6, <1>7, <1>8, <1>9, <1>10, <1>11, <1>12, Zenon DEF Webhook, Guest, Staffed
  <1> QED BY <1>2, <1>3, <1>13 DEF Reads

\* The workflow lets a bill grow, never shrink, and outdates what was read of it.
LEMMA WorkflowCovered ==
    ASSUME CInv, IInv', Workflow
    PROVE  CInv' /\ Covering
  <1>1. TypeOK /\ order.total \in Nat /\ order.total > 0
    BY DEF CInv, IInv, TInv, TypeOK, OrderRow
  <1>2. /\ UNCHANGED <<payment, request, overtaken>>
        /\ order'.summary = order.summary /\ order'.total \in Nat /\ order'.total >= order.total
    BY <1>1, AmountsAssumption DEF Workflow, TypeOK, OrderRow
  <1>3. Collected' = Collected /\ Collected \in Nat
    BY <1>1, <1>2, LedgerStands, CreditedType
  <1>4. CoveredIsPaid'
    BY <1>1, <1>2, <1>3 DEF CInv, CoveredIsPaid
  <1>5. \A k \in Handlers : Knows(k)'
    BY <1>2 DEF Workflow, Knows, Doing
  <1> QED BY <1>1, <1>2, <1>4, <1>5 DEF CInv, Covering

LEMMA CInvStep == CInv /\ [Next]_vars => CInv' /\ [Covering]_vars
  <1> SUFFICES ASSUME CInv, [Next]_vars PROVE CInv' /\ [Covering]_vars
    OBVIOUS
  <1>t. IInv'
    BY NextIInv DEF CInv
  <1>1. ASSUME NEW h \in Handlers, Abort(h) PROVE CInv' /\ Covering
    BY <1>t, <1>1, DropCovered, LedgerStands DEF Abort
  <1>2. ASSUME UNCHANGED <<order, payment, request, stale, overtaken>> PROVE CInv'
    <2>1. \A k \in Handlers : Knows(k)'
      BY <1>2, LedgerStands DEF CInv, Knows
    <2>2. Collected' = Collected
      BY <1>2, LedgerStands
    <2> QED BY <1>t, <1>2, <2>1, <2>2 DEF CInv, CoveredIsPaid
  <1>3. CASE Gateway
    <2>1. UNCHANGED <<order, payment, request, stale, overtaken>>
      BY <1>3 DEF Gateway, AttemptMade, Capture, Unwritten
    <2> QED BY <1>2, <2>1 DEF Covering
  <1>4. CASE UNCHANGED vars
    BY <1>2, <1>4 DEF vars
  <1> QED BY <1>t, <1>1, <1>3, <1>4, StartCovered, CommitCovered, WorkflowCovered DEF Next

LEMMA CInvBegins == Init => CInv
  <1> SUFFICES ASSUME Init PROVE CInv
    OBVIOUS
  <1>1. \A h \in Handlers : request[h].op = "none"
    BY DEF Init, Idle
  <1>2. Succeeded = {}
    BY DEF Init, Succeeded, NoRow
  <1>3. order.total = Total
    BY DEF Init
  <1> QED BY <1>1, <1>2, <1>3, InitIInv, NoneCollected, AmountsAssumption
          DEF CInv, Knows, CoveredIsPaid

\* Until a request writes over an order or a ledger that changed since it read them, an
\* order whose payments cover its bill reads PAID, however payments, failures, refunds,
\* settlements and additions to the bill overlap.
THEOREM CoveredAlwaysReadsPaid == Spec => []CoveredIsPaid
  <1>1. CInv => CoveredIsPaid
    BY DEF CInv
  <1> QED BY <1>1, CInvBegins, CInvStep, PTL DEF Spec

\* Until then, no deposit settles a bill: a step that turns an order PAID leaves payments
\* in the ledger that cover its total.
THEOREM DepositsDoNotSettle == Spec => PaidWhenCovered
  <1>1. CInv /\ [Next]_vars => [Covering]_vars
    BY CInvStep
  <1>2. [][Covering]_vars => PaidWhenCovered
    BY DEF Covering, PaidWhenCovered
  <1> QED BY <1>1, <1>2, CInvBegins, CInvStep, PTL DEF Spec
=============================================================================
