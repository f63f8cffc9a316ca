------------------------------- MODULE Billing -------------------------------
(***************************************************************************)
(* The arithmetic of a bill: server/src/utils/money.ts, utils/offer.ts and *)
(* the pricing half of services/order.service.ts.  Amounts are integers in *)
(* minor units (paise), percentages are integers in hundredths of a        *)
(* percent (5.00% is 500), as toMinorUnits returns them.                   *)
(*                                                                         *)
(* The module has no state: OrderFloor charges with these operators and    *)
(* MenuPricing checks them over a grid of menus and settings.              *)
(***************************************************************************)
EXTENDS Integers

AtLeastZero(n) == IF n < 0 THEN 0 ELSE n
Least(m, n)    == IF m < n THEN m ELSE n

\* amount * (percent / 100), rounded half away from zero.
ApplyPercent(minor, percent) ==
    IF minor < 0 THEN -(((-minor) * percent + 5000) \div 10000)
                 ELSE (minor * percent + 5000) \div 10000

\* (mutant) a discount may exceed the price
DiscountUncapped(price, type, value) ==
    AtLeastZero(IF type = "PERCENTAGE" THEN ApplyPercent(price, value) ELSE value)

\* What an offer takes off a price: never negative, never more than the price.
DiscountMinor(price, type, value) ==
    Least(AtLeastZero(IF type = "PERCENTAGE" THEN ApplyPercent(price, value) ELSE value),
          price)

\* The price a dish sells at.  A stored value that does not parse (a negative
\* one in the column) is "unusable" and resolves to the list price.
EffectivePriceMinor(price, offer) ==
    IF ~offer.active \/ offer.type = "NONE" \/ offer.value < 0
    THEN price
    ELSE price - DiscountMinor(price, offer.type, offer.value)

\* Tax and service charge on a subtotal, less a discount already granted.
TotalAmount(subtotal, taxPercent, servicePercent, discount) ==
    AtLeastZero(subtotal + ApplyPercent(subtotal, taxPercent)
                         + ApplyPercent(subtotal, servicePercent) - discount)

-----------------------------------------------------------------------------
(* The walk-out gates.  A hold is the status an order is created in and the *)
(* advance it owes.  Settings of zero fall back to the 3,000 of the code.   *)

ThresholdMinor(gates) == IF gates.threshold > 0 THEN gates.threshold ELSE 300000

\* 20% of the order, and 10% more for each full 1,000 above the threshold.
AdvancePercent(total, gates) ==
    Least(20 + 10 * ((total - ThresholdMinor(gates)) \div 100000), 100)

\* (mutant) the approval gate looks at the order alone
EvaluateHoldPerOrder(exposure, total, gates) ==
    LET highValue == gates.advanceRequired /\ total > ThresholdMinor(gates)
        advance   == IF highValue THEN ApplyPercent(total, 100 * AdvancePercent(total, gates))
                                  ELSE 0
        approval  == gates.approvalRequired /\ (highValue \/ total >= ThresholdMinor(gates))
    IN  [status  |-> IF approval        THEN "NEEDS_APPROVAL"
                     ELSE IF advance > 0 THEN "AWAITING_ADVANCE_PAYMENT"
                                         ELSE "PENDING",
         advance |-> advance]

EvaluateHold(exposure, total, gates) ==
    LET highValue == gates.advanceRequired /\ total > ThresholdMinor(gates)
        advance   == IF highValue THEN ApplyPercent(total, 100 * AdvancePercent(total, gates))
                                  ELSE 0
        approval  == /\ gates.approvalRequired
                     /\ \/ highValue
                        \/ gates.threshold > 0 /\ exposure >= gates.threshold
    IN  [status  |-> IF approval        THEN "NEEDS_APPROVAL"
                     ELSE IF advance > 0 THEN "AWAITING_ADVANCE_PAYMENT"
                                         ELSE "PENDING",
         advance |-> advance]
=============================================================================
