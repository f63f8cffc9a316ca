------------------------------ MODULE Checkout -------------------------------
(***************************************************************************)
(* The rest of a diner's visit: the payment sheet (DemoCheckout.tsx) over  *)
(* the tracking page (TrackOrder.tsx) or the advance dialog                *)
(* (AdvancePaymentDialog.tsx), the gateway's own window (lib/razorpay.ts), *)
(* the provider the server picks (utils/paymentProvider.ts) and the two    *)
(* requests it answers (payment.service.ts).  It extends GuestCart: an     *)
(* order paid for here was placed there.                                   *)
(*                                                                         *)
(* The browser and the server each decide on their own which gateway is in *)
(* use: the browser from the settings it last loaded, the server from its  *)
(* database on every request, falling back to the demo gateway when it     *)
(* cannot read them.  A call is one mutation of the sheet, from the intent *)
(* to its answer; a sheet closed meanwhile does not stop it.  The bill is  *)
(* two units, an advance one; module PaymentLedger has the amounts.        *)
(***************************************************************************)
EXTENDS GuestCart

CONSTANT MaxCalls   \* bound: payments begun

ASSUME CallBound == MaxCalls \in Nat

VARIABLES
    gatewayLive,  \* the server's settings hold the gateway's keys
    uiLive,       \* gatewayIsLive as the sheet last loaded it; FALSE until then
    sheet,        \* [order, from, mount, authorizing, intent]; order 0: closed
    calls,        \* mutations begun: kind, order, mount, from, stage, row, heard
    rows,         \* payment rows: order, amount, provider, status, captured, by
    receipt       \* the row whose "Payment received" is on the screen, or 0

payVars == <<gatewayLive, uiLive, sheet, calls, rows, receipt>>
vars    == <<cartVars, payVars>>

Closed   == [order |-> 0, from |-> "page", mount |-> 0, authorizing |-> FALSE, intent |-> 0]
Sheet    == [order: Nat, from: {"page", "dialog"}, mount: Nat, authorizing: BOOLEAN,
             intent: Nat]
Call     == [kind: {"demo", "live"}, order: Nat, mount: Nat, from: {"page", "dialog"},
             stage: {"start", "gateway", "confirm", "paid", "failed", "done"},
             row: Nat, heard: BOOLEAN]
Row      == [order: Nat, amount: {1, 2}, provider: {"mock", "razorpay"}, captured: BOOLEAN,
             status: {"PENDING", "SUCCESS", "FAILED"}, by: {"none", "mock", "razorpay"}]

Mount          == Len(calls) + 1     \* tells this opening's calls from a later one's
Open           == sheet.order # 0
Mine(c)        == Open /\ calls[c].mount = sheet.mount
Finished(c)    == calls[c].stage = "done"
Busy           == \E c \in DOMAIN calls : Mine(c) /\ ~Finished(c)
collectedMinor(R, o) ==
    MapThenFoldSet(+, 0, LAMBDA r : R[r].amount, LAMBDA S : CHOOSE r \in S : TRUE,
                   {r \in DOMAIN R : R[r].order = o /\ R[r].status = "SUCCESS"})
Held(o)        == orders[o].status \in {"NEEDS_APPROVAL", "AWAITING_ADVANCE_PAYMENT"}
IsDeposit(o)   == orders[o].status = "AWAITING_ADVANCE_PAYMENT"
Due(o)         == (IF IsDeposit(o) THEN 1 ELSE 2) - collectedMinor(rows, o)

Init == /\ CartInit
        /\ gatewayLive \in BOOLEAN /\ uiLive = FALSE
        /\ sheet = Closed /\ calls = <<>> /\ rows = <<>> /\ receipt = 0

cartButFaults == <<page, cart, qrToken, kitchen, requests, pending, orders, mine>>
Unheard == [c \in DOMAIN calls |-> [calls[c] EXCEPT !.heard = FALSE]]

-----------------------------------------------------------------------------
(* The sheet.                                                               *)

Calling(k, stage, r) ==
    /\ Len(calls) < MaxCalls
    /\ calls' = Append(calls, [kind |-> k, order |-> sheet.order, mount |-> sheet.mount,
                               from |-> sheet.from, stage |-> stage, row |-> r,
                               heard |-> TRUE])

OpenSheet(o, f) ==
    /\ page = "track" /\ ~Open /\ o \in mine /\ receipt = 0
    /\ Len(calls) < MaxCalls
    /\ \/ f = "page" /\ collectedMinor(rows, o) < 2
       \/ f = "dialog" /\ IsDeposit(o)
    /\ sheet' = [Closed EXCEPT !.order = o, !.from = f, !.mount = Mount]
    /\ UNCHANGED <<cartVars, gatewayLive, uiLive, calls, rows, receipt>>

SettingsArrive ==
    /\ Open /\ uiLive # gatewayLive /\ uiLive' = gatewayLive
    /\ UNCHANGED <<cartVars, gatewayLive, sheet, calls, rows, receipt>>

(* The Pay button, for UPI and for a card.                                  *)
validateFormAndPay ==
    /\ Open /\ ~sheet.authorizing /\ ~Busy
    /\ IF uiLive
       THEN /\ Calling("live", "start", 0)
            /\ sheet' = [sheet EXCEPT !.authorizing = TRUE, !.intent = 0]
       ELSE sheet' = [sheet EXCEPT !.authorizing = TRUE] /\ UNCHANGED calls
    /\ UNCHANGED <<cartVars, gatewayLive, uiLive, rows, receipt>>

(* A UPI tile waits on either gateway, and starts nothing on a live one.    *)
TapTile ==
    /\ Open /\ ~sheet.authorizing
    /\ sheet' = [sheet EXCEPT !.authorizing = TRUE]
    /\ UNCHANGED <<cartVars, gatewayLive, uiLive, calls, rows, receipt>>

(* Four seconds on, on the demo gateway.  The effect depends on the         *)
(* mutation object, which every render replaces: a slow answer is followed  *)
(* by a second confirmation, with a second intent if none has come back.    *)
DemoTimer ==
    /\ Open /\ sheet.authorizing /\ ~uiLive
    /\ Calling("demo", IF sheet.intent = 0 THEN "start" ELSE "confirm", sheet.intent)
    /\ UNCHANGED <<cartVars, gatewayLive, uiLive, sheet, rows, receipt>>

CancelWaiting ==
    /\ Open /\ sheet.authorizing
    /\ sheet' = [sheet EXCEPT !.authorizing = FALSE]
    /\ UNCHANGED <<cartVars, gatewayLive, uiLive, calls, rows, receipt>>

(* The buttons close it when it is not waiting, Escape at any time.         *)
CloseSheet ==
    /\ Open /\ sheet' = Closed
    /\ UNCHANGED <<cartVars, gatewayLive, uiLive, calls, rows, receipt>>

Dismiss == /\ receipt # 0 /\ receipt' = 0
           /\ UNCHANGED <<cartVars, gatewayLive, uiLive, sheet, calls, rows>>

(* Another page, or the page again: what was asked goes on, its answer      *)
(* reaches no screen.                                                       *)
Away == /\ sheet' = Closed /\ receipt' = 0 /\ calls' = Unheard
        /\ UNCHANGED <<gatewayLive, rows>>
LeaveTracking ==
    /\ page = "track" /\ (Scan \/ \E p \in {"menu", "cart"} : Go(p))
    /\ Away /\ UNCHANGED uiLive
TrackAgain ==
    /\ page # "track" /\ mine # {}
    /\ page' = "track" /\ pending' = 0
    /\ UNCHANGED <<cart, qrToken, kitchen, requests, orders, mine, faults, payVars>>
ReloadTracking ==
    /\ page = "track" /\ Reload /\ Away /\ uiLive' = FALSE

-----------------------------------------------------------------------------
(* The server's half of a call; its provider is read on each request.       *)

Blip == faults < MaxFaults /\ faults' = faults + 1
getActivePaymentProvider(p) ==
    \/ p = (IF gatewayLive THEN "razorpay" ELSE "mock") /\ UNCHANGED faults
    \/ p = "mock" /\ gatewayLive /\ Blip

Failed(c) == calls' = [calls EXCEPT ![c].stage = "failed"]

Refused(o) == \/ collectedMinor(rows, o) >= 2
              \/ orders[o].status \in {"CANCELLED", "NEEDS_APPROVAL"}
              \/ Due(o) <= 0

initiateOnlinePayment(c) ==
    /\ calls[c].stage = "start"
    /\ LET o == calls[c].order
           r == Len(rows) + 1
       IN IF Refused(o)
          THEN Failed(c) /\ UNCHANGED <<rows, sheet, faults>>
          ELSE \E p \in {"mock", "razorpay"} :
            /\ getActivePaymentProvider(p)
            /\ rows' = Append(rows, [order |-> o, amount |-> Due(o), provider |-> p,
                                     captured |-> FALSE, status |-> "PENDING", by |-> "none"])
            /\ sheet' = IF Mine(c) THEN [sheet EXCEPT !.intent = r] ELSE sheet
            /\ calls' = [calls EXCEPT ![c].row = r,
                           ![c].stage = CASE calls[c].kind = "demo" -> "confirm"
                                          [] calls[c].kind = "live" /\ p = "razorpay" -> "gateway"
                                          [] OTHER -> "failed"]   \* no key to open it with
    /\ UNCHANGED <<cartButFaults, gatewayLive, uiLive, receipt>>

\* (mutant) a window the guest closed counts as paid: onSuccess without its "if (data)"
DismissedIsPaid(c) ==
    /\ calls[c].stage = "gateway" /\ calls[c].heard
    /\ \/ /\ rows' = [rows EXCEPT ![calls[c].row].captured = TRUE]
          /\ calls' = [calls EXCEPT ![c].stage = "confirm"]
       \/ Failed(c) /\ UNCHANGED rows
       \/ calls' = [calls EXCEPT ![c].stage = "paid"] /\ UNCHANGED rows
    /\ UNCHANGED <<cartVars, gatewayLive, uiLive, sheet, receipt>>

(* The gateway's window: paid; refused, and perhaps paid after all in the   *)
(* window, which stays; or closed by the guest.                             *)
openRazorpayCheckout(c) ==
    /\ calls[c].stage = "gateway" /\ calls[c].heard
    /\ \/ /\ rows' = [rows EXCEPT ![calls[c].row].captured = TRUE]
          /\ calls' = [calls EXCEPT ![c].stage = "confirm"] /\ UNCHANGED sheet
       \/ /\ \E later \in BOOLEAN : rows' = [rows EXCEPT ![calls[c].row].captured = later]
          /\ Failed(c) /\ UNCHANGED sheet
       \/ /\ calls' = [calls EXCEPT ![c].stage = "done"] /\ UNCHANGED rows
          /\ sheet' = IF Mine(c) THEN [sheet EXCEPT !.authorizing = FALSE] ELSE sheet
    /\ UNCHANGED <<cartVars, gatewayLive, uiLive, receipt>>

\* (mutant) either provider takes the browser's word
verifyNothing(p, c) == p \in {"mock", "razorpay"} /\ c \in DOMAIN calls

(* The browser's word is enough for the demo gateway; the real one checks   *)
(* a signature only it can have made, over the row's own reference.         *)
verifyConfirmation(p, c) ==
    IF p = "mock" THEN calls[c].kind = "demo" ELSE calls[c].kind = "live"

(* releaseAfterPayment: an advance that has come in sends the order on.     *)
Released(R, o) == IF IsDeposit(o) /\ collectedMinor(R, o) >= 1
                  THEN [orders EXCEPT ![o].status = "PENDING"] ELSE orders

Book(r, p) ==
    LET R == [rows EXCEPT ![r].status = "SUCCESS", ![r].by = p]
    IN rows' = R /\ orders' = Released(R, rows[r].order)

confirmOnlinePayment(c) ==
    /\ calls[c].stage = "confirm"
    /\ \E p \in {"mock", "razorpay"} :
         LET r == calls[c].row
         IN /\ getActivePaymentProvider(p)
            /\ \/ /\ rows[r].status # "PENDING"
                  /\ Failed(c) /\ UNCHANGED <<rows, orders>>
               \/ /\ rows[r].status = "PENDING" /\ p = "razorpay" /\ calls[c].kind = "demo"
                  /\ ~verifyConfirmation(p, c)
                  /\ Failed(c) /\ UNCHANGED <<rows, orders>>
               \/ /\ rows[r].status = "PENDING" /\ ~verifyConfirmation(p, c)
                  /\ ~(p = "razorpay" /\ calls[c].kind = "demo")
                  /\ rows' = [rows EXCEPT ![r].status = "FAILED"]
                  /\ Failed(c) /\ UNCHANGED orders
               \/ /\ rows[r].status = "PENDING" /\ verifyConfirmation(p, c)
                  /\ Book(r, p)
                  /\ calls' = [calls EXCEPT ![c].stage = "paid"]
    /\ UNCHANGED <<page, cart, qrToken, kitchen, requests, pending, mine,
                   gatewayLive, uiLive, sheet, receipt>>

(* payment.captured, for a row not booked yet, even one marked FAILED.      *)
handleRazorpayWebhook(r) ==
    /\ gatewayLive /\ rows[r].captured /\ rows[r].status # "SUCCESS"
    /\ Book(r, "razorpay")
    /\ UNCHANGED <<page, cart, qrToken, kitchen, requests, pending, mine, faults,
                   gatewayLive, uiLive, sheet, calls, receipt>>

CallLost(c) ==
    /\ calls[c].stage \in {"start", "confirm", "paid"} /\ CartFault
    /\ Failed(c)
    /\ UNCHANGED <<cartButFaults, gatewayLive, uiLive, sheet, rows, receipt>>

-----------------------------------------------------------------------------
(* The answer.  onPaid closes whichever sheet is open on the same page; the *)
(* dialog's refetches and shows no receipt.                                 *)

onPaid(c) ==
    /\ sheet' = IF calls[c].heard THEN Closed ELSE sheet
    /\ receipt' = IF calls[c].heard /\ calls[c].from = "page" THEN calls[c].row ELSE receipt

onError(c) ==
    /\ sheet' = IF Mine(c) THEN [sheet EXCEPT !.authorizing = FALSE] ELSE sheet
    /\ UNCHANGED receipt

Answer(c) ==
    /\ \/ calls[c].stage = "paid" /\ onPaid(c)
       \/ calls[c].stage = "failed" /\ onError(c)
    /\ calls' = [calls EXCEPT ![c].stage = "done"]
    /\ UNCHANGED <<cartVars, gatewayLive, uiLive, rows>>

(* The dialog's Cancel, once the server has it; a paid one is refused.      *)
cancelHeldOrderByToken(o) ==
    /\ page = "track" /\ ~Open /\ o \in mine /\ Held(o)
    /\ orders' = [orders EXCEPT ![o].status = "CANCELLED"]
    /\ mine' = mine \ {o} /\ page' = "menu" /\ Away
    /\ UNCHANGED <<cart, qrToken, kitchen, requests, pending, faults, uiLive>>

approveOrder(o) ==
    /\ orders[o].status = "NEEDS_APPROVAL"
    /\ \E st \in {"AWAITING_ADVANCE_PAYMENT", "PENDING"} :
          orders' = [orders EXCEPT ![o].status = st]
    /\ UNCHANGED <<page, cart, qrToken, kitchen, requests, pending, mine, faults, payVars>>

updateSettings ==
    /\ CartFault /\ gatewayLive' = ~gatewayLive
    /\ UNCHANGED <<cartButFaults, uiLive, sheet, calls, rows, receipt>>

PayNext ==
    \/ \E o \in DOMAIN orders : \/ \E f \in {"page", "dialog"} : OpenSheet(o, f)
                                \/ cancelHeldOrderByToken(o) \/ approveOrder(o)
    \/ SettingsArrive \/ validateFormAndPay \/ TapTile \/ DemoTimer \/ CancelWaiting
    \/ CloseSheet \/ Dismiss \/ LeaveTracking \/ TrackAgain \/ ReloadTracking
    \/ updateSettings
    \/ \E c \in DOMAIN calls : \/ initiateOnlinePayment(c) \/ openRazorpayCheckout(c)
                               \/ confirmOnlinePayment(c) \/ CallLost(c) \/ Answer(c)
    \/ \E r \in DOMAIN rows : handleRazorpayWebhook(r)

(* An answer to an order sent before, coming over an open sheet, is left    *)
(* out: it would show the sheet over another order.                         *)
Next == \/ page # "track" /\ CartNext /\ UNCHANGED payVars
        \/ page = "track" /\ (RunTheHouse \/ (~Open /\ Ordering)) /\ UNCHANGED payVars
        \/ PayNext

Spec == Init /\ [][Next]_vars

-----------------------------------------------------------------------------
TypeOK ==
    /\ CartTypeOK
    /\ gatewayLive \in BOOLEAN /\ uiLive \in BOOLEAN
    /\ sheet \in Sheet
    /\ \A c \in DOMAIN calls : calls[c] \in Call
    /\ \A r \in DOMAIN rows : rows[r] \in Row
    /\ receipt \in 0..Len(rows)

(* "Payment received" stands on the screen only over a payment the ledger   *)
(* has booked, for the order whose sheet was open: not over a gateway       *)
(* window the guest closed, a refused demo tap on a live gateway or an      *)
(* answer that was lost.                                                    *)
PaidScreenIsPaid ==
    receipt # 0 => rows[receipt].status = "SUCCESS"

(* What the real gateway's branch books as paid was captured; the demo      *)
(* gateway's word stands only for what the demo gateway was asked to book,  *)
(* through restarts of the sheet, two timers, lost answers and a gateway    *)
(* switched between the intent and its confirmation.                        *)
LiveRowsAreMoney ==
    \A r \in DOMAIN rows : rows[r].status = "SUCCESS" =>
        rows[r].captured \/ rows[r].by = "mock"
=============================================================================
