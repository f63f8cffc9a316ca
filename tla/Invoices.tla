------------------------------ MODULE Invoices -------------------------------
(***************************************************************************)
(* What is printed and asked about the money of an order: the tax invoice  *)
(* of services/invoice.service.ts as InvoiceSheet and ThermalReceiptSheet  *)
(* print it, the advance dialog and the checkout of the guest's tracking   *)
(* page, and the cash dialog of the waiter.  Each takes its figures from   *)
(* the order row in its own way; what is then charged is decided in        *)
(* OrderFloor.                                                             *)
(*                                                                         *)
(* Requests are served one at a time, so that the stored subtotal is what  *)
(* the lines add up to.  The charges stand still: the rate printed beside  *)
(* a tax is the one of the live settings, and is left out.                 *)
(***************************************************************************)
EXTENDS OrderScreens

\* computeTotals stores tax and service charge in one column.
TaxAmount(row) ==
    ApplyPercent(row.lines, TaxPercent) + ApplyPercent(row.lines, ServicePercent)

\* buildInvoice: paid is all or nothing, and the odd paisa of the tax is the state's.
Invoice(row) ==
    LET tax  == TaxAmount(row)
        paid == IF row.payment = "PAID" THEN row.total ELSE 0
    IN  [ subtotal |-> row.lines, cgst |-> tax \div 2, sgst |-> tax - tax \div 2,
          grandTotal |-> row.total, amountPaid |-> paid,
          balanceDue |-> AtLeastZero(row.total - paid) ]

\* The A4 sheet: taxable value, two taxes and the total; and a balance, or "Paid in Full".
InvoiceSheet(row) ==
    LET invoice == Invoice(row)
    IN  [ rows  |-> <<invoice.subtotal, invoice.cgst, invoice.sgst>>,
          total |-> invoice.grandTotal, asks |-> invoice.balanceDue ]

\* The slip of the thermal printer: it halves the tax itself and rounds each half (of an
\* odd paisa, up or down as the binary fraction falls), and says PAID or UNPAID.
ThermalSlip(row) ==
    LET invoice == Invoice(row)
        half    == (TaxAmount(row) + 1) \div 2
    IN  [ rows   |-> <<invoice.subtotal, half, half>>, total |-> invoice.grandTotal,
          status |-> IF invoice.balanceDue = 0 THEN "PAID" ELSE "UNPAID" ]

\* The dialog over a held order: what is taken now, what is left for after the meal.
AdvanceDialog(row) ==
    [ advance |-> row.advance, remaining |-> AtLeastZero(row.total - row.advance),
      payable |-> row.status = "AWAITING_ADVANCE_PAYMENT" ]

\* (mutant) the checkout asks for the bill even while the order is held
CheckoutOfTheBill(row) == row.total

\* The amount the guest's checkout is opened with.
CheckoutAmount(row) ==
    IF row.status = "AWAITING_ADVANCE_PAYMENT" THEN row.advance ELSE row.total

\* "Amount Due" of the waiter's cash dialog; it accepts no less.
CashAmount(row) == row.total

\* What the house is owed for the order at this point.
Owed(row) ==
    IF row.status = "AWAITING_ADVANCE_PAYMENT" THEN AtLeastZero(row.advance - row.collected)
                                               ELSE AtLeastZero(row.total - row.collected)

\* Every amount somebody is asked for, wherever the server would take one.
Asked(row) ==
    UNION { When(CheckoutAmount(row), "pay" \in TrackOrder(row) /\ Guard("pay", row)),
            When(CashAmount(row), CashPaid(row)),
            When(AdvanceDialog(row).advance, AdvanceDialog(row).payable /\ Guard("pay", row)),
            When(InvoiceSheet(row).asks, row.status = "SERVED") }

\* An advance is in and the bill is not settled: every screen asks for all of it again.
PaidInAdvance(row) == row.collected \in 1 .. row.total - 1 /\ row.payment # "PAID"

\* Items were added to a bill that had been paid: it stays paid.
GrownSincePaid(row) ==
    /\ row.payment = "PAID" /\ row.collected > 0
    /\ \E extra \in Extras : /\ extra < row.lines
                            /\ row.collected >= TotalOf(row.lines - extra)

\* One of several payments was given back: the order stays paid.
PartlyRefunded(row) == row.payment = "PAID" /\ GaveBack(row)

\* The papers of an order add up to what is charged for it (the slip but for an odd
\* paisa of tax) and say alike whether it is paid; and whoever is asked for money, on
\* paper or on a screen, is asked for what is owed, unless an advance is in already, the
\* bill has grown since it was paid or was partly given back (buildInvoice, TrackOrder,
\* CashPaymentModal).
AskedIsOwed ==
    \A row \in Rows :
        LET sheet == InvoiceSheet(row)
            slip  == ThermalSlip(row)
        IN  /\ sheet.rows[1] + sheet.rows[2] + sheet.rows[3] = sheet.total
            /\ slip.rows = sheet.rows \/ TaxAmount(row) % 2 = 1
            /\ slip.status = "PAID" <=> sheet.asks = 0
            /\ row.status \in HELD_STATUSES =>
                 AdvanceDialog(row).advance + AdvanceDialog(row).remaining = row.total
            /\ \A amount \in Asked(row) :
                 \/ amount = Owed(row)
                 \/ PaidInAdvance(row) /\ amount = Owed(row) + row.collected
                 \/ (GrownSincePaid(row) \/ PartlyRefunded(row)) /\ amount = 0
=============================================================================
