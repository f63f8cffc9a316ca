----------------------------- MODULE MCCheckout ------------------------------
EXTENDS Checkout, TLC

FoodSymmetry == Permutations(Foods)

(* The cart and the payment sheet share one order and nothing else.  Past   *)
(* the sheet's opening the visit goes on from one portion ordered once;     *)
(* with a fuller cart, what only the sheet reads stands still.              *)
Paying  == Open \/ calls # <<>>
Simple  == taps <= 1 /\ Len(requests) <= 1
TwoActs ==
    /\ Paying => /\ Simple /\ items = NoLines /\ requests[1].heard
                 /\ requests[1].state = "settled" /\ page # "cart"
                 /\ qrToken = 0 /\ tableToken = 1 /\ accepting /\ soldOut = {}
    /\ ~Simple => /\ ~gatewayLive
                  /\ \A o \in DOMAIN orders : orders[o].status = "PENDING"
=============================================================================
