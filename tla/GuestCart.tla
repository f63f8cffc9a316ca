------------------------------ MODULE GuestCart ------------------------------
(***************************************************************************)
(* The diner's basket and the placing of an order: the cart kept by        *)
(* context/CartContext.tsx, the device's list of orders (context/cart.ts), *)
(* the cart screen's mutation (pages/customer/CustomerCart.tsx), the QR    *)
(* session (ScanTable.tsx) and what the server does with the request       *)
(* (placeOrder and priceItems of order.service.ts).                        *)
(*                                                                         *)
(* A line is a dish, a note and a quantity, and is known by the tap that   *)
(* made it: the cart is a function from those taps, in the order of its    *)
(* lines.  addItem looks a line up by dish AND note; increase, decrease,   *)
(* removeItem and setNotes by dish alone, so a dish may have twin lines    *)
(* that one tap changes together.                                          *)
(* Prices are left out: the server reads them again (module MenuPricing).  *)
(***************************************************************************)
EXTENDS Integers, Sequences, SequencesExt, Folds

CONSTANTS
    Foods, Notes, NoNote,
    MaxTaps,       \* bound: changes to the cart
    MaxRequests,   \* bound: submits
    MaxFaults      \* bound: lost messages, reloads, refusals the staff bring about

ASSUME NotesAssumption == NoNote \in Notes
ASSUME CartBounds      == {MaxTaps, MaxRequests, MaxFaults} \subseteq Nat

VARIABLES
    page,       \* "menu", "cart" or "track"
    items,      \* the cart's lines; sessionStorage keeps them over a reload
    qrToken,    \* the token scanned, 0 for a takeaway
    tableToken, \* the token the table answers to now
    soldOut,    \* dishes the kitchen has run out of
    accepting,  \* isAcceptingOrders
    requests,   \* the orders sent: lines, token, how far each got
    pending,    \* the request whose answer this cart screen awaits, or 0
    orders,     \* the server's orders: lines and status
    mine,       \* the orders the device remembers
    wanted,     \* history: portions of each dish the taps asked for
    blurred,    \* history: dishes that had twin lines, that changed between a submit
                \* and the answer that clears the cart, or whose answer was never heard
    taps, faults

cart     == <<items, wanted, blurred, taps>>
kitchen  == <<tableToken, soldOut, accepting>>
cartVars == <<page, cart, qrToken, kitchen, requests, pending, orders, mine, faults>>

Line    == [food: Foods, note: Notes, qty: Nat \ {0}]
Lines   == UNION { [made -> Line] : made \in SUBSET (1..MaxTaps) }
Request == [lines: Lines, token: Nat, heard: BOOLEAN, order: Nat,
            state: {"sent", "placed", "refused", "settled"}]
Order   == [lines: Lines,
            status: {"NEEDS_APPROVAL", "AWAITING_ADVANCE_PAYMENT", "PENDING", "CANCELLED"}]

Portions(lines, f) == MapThenFoldSet(+, 0, LAMBDA i : lines[i].qty,
                                     LAMBDA S : CHOOSE i \in S : TRUE,
                                     {i \in DOMAIN lines : lines[i].food = f})
Dishes(lines)  == {lines[i].food : i \in DOMAIN lines}
Twins(lines)   == {f \in Foods : \E i, j \in DOMAIN lines :
                                    i # j /\ lines[i].food = f /\ lines[j].food = f}
CartFault      == faults < MaxFaults /\ faults' = faults + 1

NoLines == [i \in {} |-> NoNote]

CartInit ==
    /\ page = "menu" /\ items = NoLines
    /\ qrToken \in {0, 1} /\ tableToken = 1 /\ soldOut = {} /\ accepting = TRUE
    /\ requests = <<>> /\ pending = 0 /\ orders = <<>> /\ mine = {}
    /\ wanted = [f \in Foods |-> 0] /\ blurred = {}
    /\ taps = 0 /\ faults = 0

-----------------------------------------------------------------------------
(* CartContext: each operation as a function of the lines.                  *)

addItem(lines, f, n, made) ==
    LET same(l) == l.food = f /\ l.note = n
    IN IF \E i \in DOMAIN lines : same(lines[i])
       THEN [i \in DOMAIN lines |->
               IF same(lines[i]) THEN [lines[i] EXCEPT !.qty = @ + 1] ELSE lines[i]]
       ELSE [i \in DOMAIN lines \union {made} |->
               IF i = made THEN [food |-> f, note |-> n, qty |-> 1] ELSE lines[i]]

increase(lines, f) ==
    [i \in DOMAIN lines |->
        IF lines[i].food = f THEN [lines[i] EXCEPT !.qty = @ + 1] ELSE lines[i]]

decrease(lines, f) ==
    [i \in {j \in DOMAIN lines : lines[j].food = f => lines[j].qty > 1} |->
        IF lines[i].food = f THEN [lines[i] EXCEPT !.qty = @ - 1] ELSE lines[i]]

removeItem(lines, f) == Restrict(lines, {i \in DOMAIN lines : lines[i].food # f})

setNotes(lines, f, n) ==
    [i \in DOMAIN lines |->
        IF lines[i].food = f THEN [lines[i] EXCEPT !.note = n] ELSE lines[i]]

(* A tap leaves the cart with these lines and the guest wanting so many.    *)
Tap(lines, f, portions) ==
    /\ taps < MaxTaps /\ taps' = taps + 1
    /\ items' = lines
    /\ wanted' = [wanted EXCEPT ![f] = portions]
    /\ blurred' = blurred \union Twins(lines)
    /\ UNCHANGED <<page, qrToken, kitchen, requests, pending, orders, mine, faults>>

(* The menu's Add and the dish sheet's, which hands on no note.             *)
TapAdd(f)      == page = "menu" /\ Tap(addItem(items, f, NoNote, taps + 1), f, wanted[f] + 1)
Stepper(f)     == page \in {"menu", "cart"} /\ Portions(items, f) > 0
TapMore(f)     == Stepper(f) /\ Tap(increase(items, f), f, wanted[f] + 1)
TapLess(f)     == Stepper(f) /\ Tap(decrease(items, f), f, wanted[f] - 1)
TapRemove(f)   == page = "cart" /\ Portions(items, f) > 0
                  /\ Tap(removeItem(items, f), f, wanted[f] - Portions(items, f))
TypeNote(f, n) == page = "cart" /\ Portions(items, f) > 0
                  /\ Tap(setNotes(items, f, n), f, wanted[f])

(* Leaving the cart screen drops its mutation: another one is idle.         *)
Go(p) ==
    /\ p # page /\ p \in {"menu", "cart"}
    /\ page' = p /\ pending' = 0
    /\ UNCHANGED <<cart, qrToken, kitchen, requests, orders, mine, faults>>

Scan ==
    /\ qrToken # tableToken
    /\ qrToken' = tableToken
    /\ page' = "menu" /\ pending' = 0
    /\ UNCHANGED <<cart, kitchen, requests, orders, mine, faults>>

(* A reload keeps the cart and the session; no answer is heard any more.    *)
Reload ==
    /\ CartFault
    /\ pending' = 0
    /\ requests' = [r \in DOMAIN requests |-> [requests[r] EXCEPT !.heard = FALSE]]
    /\ UNCHANGED <<page, cart, qrToken, kitchen, orders, mine>>

-----------------------------------------------------------------------------
(* Placing.  The button is disabled while this screen's own mutation waits. *)

\* (mutant) the cart is emptied when the order is sent, not when it is accepted
SubmitClears ==
    /\ page = "cart" /\ items # NoLines /\ pending = 0
    /\ Len(requests) < MaxRequests
    /\ requests' = Append(requests, [lines |-> items, token |-> qrToken, heard |-> TRUE,
                                     order |-> 0, state |-> "sent"])
    /\ pending' = Len(requests) + 1
    /\ items' = NoLines
    /\ UNCHANGED <<page, wanted, blurred, taps, qrToken, kitchen, orders, mine, faults>>

Submit ==
    /\ page = "cart" /\ items # NoLines /\ pending = 0
    /\ Len(requests) < MaxRequests
    /\ requests' = Append(requests, [lines |-> items, token |-> qrToken, heard |-> TRUE,
                                     order |-> 0, state |-> "sent"])
    /\ pending' = Len(requests) + 1
    /\ UNCHANGED <<page, cart, qrToken, kitchen, orders, mine, faults>>

Refusal(r) ==
    \/ ~accepting
    \/ requests[r].token \notin {0, tableToken}
    \/ Dishes(requests[r].lines) \intersect soldOut # {}

placeOrder(r) ==
    /\ requests[r].state = "sent"
    /\ IF Refusal(r)
       THEN /\ requests' = [requests EXCEPT ![r].state = "refused"]
            /\ UNCHANGED orders
       ELSE \E st \in {"NEEDS_APPROVAL", "AWAITING_ADVANCE_PAYMENT", "PENDING"} :
            /\ orders' = Append(orders, [lines |-> requests[r].lines, status |-> st])
            /\ requests' = [requests EXCEPT ![r].state = "placed",
                                            ![r].order = Len(orders) + 1]
    /\ UNCHANGED <<page, cart, qrToken, kitchen, pending, mine, faults>>

RequestLost(r) ==
    /\ requests[r].state = "sent" /\ CartFault
    /\ requests' = [requests EXCEPT ![r].state = "refused"]
    /\ UNCHANGED <<page, cart, qrToken, kitchen, pending, orders, mine>>

Settle(r) == requests' = [requests EXCEPT ![r].state = "settled"]
Idle(r)   == pending' = IF pending = r THEN 0 ELSE pending

(* onSuccess runs although the guest may have left the cart screen.         *)
onPlaced(r) ==
    /\ requests[r].state = "placed" /\ requests[r].heard
    /\ Settle(r) /\ pending' = 0
    /\ items' = NoLines
    /\ mine' = mine \union {requests[r].order}
    /\ page' = "track"
    /\ blurred' = blurred \union
          {f \in Foods : Portions(items, f) # Portions(requests[r].lines, f)}
    /\ UNCHANGED <<wanted, taps, qrToken, kitchen, orders, faults>>

onRefused(r) ==
    /\ requests[r].state = "refused"
    /\ Settle(r) /\ Idle(r)
    /\ UNCHANGED <<page, cart, qrToken, kitchen, orders, mine, faults>>

(* The order stands; the guest sees an error, or a cart as it was.          *)
AnswerLost(r) ==
    /\ requests[r].state = "placed"
    /\ IF requests[r].heard THEN CartFault ELSE UNCHANGED faults
    /\ Settle(r) /\ Idle(r)
    /\ blurred' = blurred \union Dishes(requests[r].lines)
    /\ UNCHANGED <<page, items, wanted, taps, qrToken, kitchen, orders, mine>>

-----------------------------------------------------------------------------
(* What makes the server refuse.                                            *)

SellOut(f)    == CartFault /\ f \notin soldOut /\ soldOut' = soldOut \union {f}
                 /\ UNCHANGED <<tableToken, accepting>>
rotateQrToken == CartFault /\ tableToken' = tableToken + 1
                 /\ UNCHANGED <<soldOut, accepting>>
StopOrders    == CartFault /\ accepting /\ accepting' = FALSE
                 /\ UNCHANGED <<tableToken, soldOut>>

RunTheHouse ==
    /\ rotateQrToken \/ StopOrders \/ (\E f \in Foods : SellOut(f))
    /\ UNCHANGED <<page, cart, qrToken, requests, pending, orders, mine>>

Ordering ==
    \E r \in DOMAIN requests : \/ placeOrder(r) \/ RequestLost(r)
                               \/ onPlaced(r) \/ onRefused(r) \/ AnswerLost(r)

CartNext ==
    \/ \E f \in Foods : TapAdd(f) \/ TapMore(f) \/ TapLess(f) \/ TapRemove(f)
                        \/ (\E n \in Notes : TypeNote(f, n))
    \/ \E p \in {"menu", "cart"} : Go(p)
    \/ Scan \/ Reload \/ Submit \/ RunTheHouse \/ Ordering

-----------------------------------------------------------------------------
CartTypeOK ==
    /\ page \in {"menu", "cart", "track"}
    /\ items \in Lines /\ orders \in Seq(Order)
    /\ requests \in Seq(Request)
    /\ wanted \in [Foods -> Int] /\ blurred \subseteq Foods
    /\ qrToken \in 0..tableToken
    /\ pending \in 0..Len(requests)
    /\ mine \subseteq DOMAIN orders

Ordered(f) ==
    MapThenFoldSet(+, 0, LAMBDA r : Portions(requests[r].lines, f),
                   LAMBDA S : CHOOSE r \in S : TRUE,
                   {r \in DOMAIN requests : requests[r].state = "settled"
                                            /\ requests[r].order # 0})

(* What the guest asked for is in the cart or in an order they were told    *)
(* of, once: a refusal keeps the cart, a success empties it, and nothing    *)
(* is lost or ordered twice by leaving, reloading, scanning again or        *)
(* submitting again.  The exceptions are the dishes the code blurs: twin    *)
(* lines, a change made while an order is out (onSuccess clears it all),    *)
(* and an answer that never came.                                           *)
BasketKept ==
    \A f \in Foods \ blurred : wanted[f] = Portions(items, f) + Ordered(f)
=============================================================================
