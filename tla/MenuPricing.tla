----------------------------- MODULE MenuPricing -----------------------------
(***************************************************************************)
(* The price of one dish under edits by several administrators             *)
(* (createFood and updateFood of services/food.service.ts, with            *)
(* utils/offer.ts) and the price a diner is charged for it (priceItems of  *)
(* services/order.service.ts).                                             *)
(*                                                                         *)
(* updateFood reads the row, merges the patch into what it read, checks    *)
(* the merged offer and derives the offer price, and then updates the row  *)
(* by id: the patched columns, and all the offer columns whether they were *)
(* patched or not.  Nothing locks the row in between.                      *)
(***************************************************************************)
EXTENDS Integers, Billing

CONSTANTS
    Editors,    \* administrators with the menu open
    Prices,     \* list prices they may type, in minor units
    Discounts   \* what they may type as a discount: hundredths of a percent, or minor units

ASSUME PricesAssumption == Prices \subseteq Nat \ {0} /\ Discounts \subseteq Nat

VARIABLES
    food,       \* the row's price and offer columns
    edit,       \* the update each editor's request is about to write; history: whether
                \* the row is still as the request read it (fresh)
    overtaken   \* history: the last update was not fresh and kept the list price it found

menuVars == <<food, edit, overtaken>>

Null == -1      \* an offer value or an offer price that is not there

Offer == [price: Nat, active: BOOLEAN, type: {"NONE", "PERCENTAGE", "FIXED"},
          value: Nat \union {Null}]
FoodRow == [offer: Offer, offerPrice: Nat \union {Null}]
NoEdit == [writing |-> FALSE]
Edit   == [writing: {TRUE}, merged: Offer, patchesPrice: BOOLEAN, fresh: BOOLEAN]

\* assertOfferIsCoherent: what the write path accepts.
Coherent(offer) ==
    offer.active =>
        /\ offer.type # "NONE"
        /\ offer.value > 0
        /\ offer.value <= IF offer.type = "PERCENTAGE" THEN 10000 ELSE offer.price

DeriveOfferPrice(offer) ==
    IF ~offer.active \/ offer.type = "NONE" \/ offer.value = Null
    THEN Null ELSE EffectivePriceMinor(offer.price, offer)

\* What a diner pays for one (priceItems): derived again from the columns.
UnitPrice == EffectivePriceMinor(food.offer.price, food.offer)

\* createFood: a list price and, if one is given, a coherent offer.
MenuInit ==
    /\ \E offer \in [price: Prices, active: BOOLEAN, type: {"NONE", "PERCENTAGE", "FIXED"},
                     value: Discounts \union {Null}] :
          /\ Coherent(offer)
          /\ food = [offer |-> offer, offerPrice |-> DeriveOfferPrice(offer)]
    /\ edit = [e \in Editors |-> NoEdit]
    /\ overtaken = FALSE

\* A patch carries any of the four columns; the rest is taken from the row read.
Merge(offer, patched, typed) ==
    [ price  |-> IF "price"  \in patched THEN typed.price  ELSE offer.price,
      active |-> IF "active" \in patched THEN typed.active ELSE offer.active,
      type   |-> IF "type"   \in patched THEN typed.type   ELSE offer.type,
      value  |-> IF "value"  \in patched THEN typed.value  ELSE offer.value ]

ReadFood(e, patched, typed) ==
    /\ ~edit[e].writing
    /\ LET merged == Merge(food.offer, patched, typed)
       IN  /\ Coherent(merged)
           /\ edit' = [edit EXCEPT ![e] = [writing |-> TRUE, merged |-> merged,
                           patchesPrice |-> "price" \in patched, fresh |-> TRUE]]
    /\ UNCHANGED <<food, overtaken>>

\* The update of one editor outdates what the others have read.
Outdate(e) ==
    edit' = [d \in Editors |-> IF d = e THEN NoEdit
                               ELSE IF edit[d].writing /\ food' # food
                               THEN [edit[d] EXCEPT !.fresh = FALSE] ELSE edit[d]]

\* (mutant) the offer columns are written only if the price was patched
WriteFoodPartly(e) ==
    /\ edit[e].writing
    /\ food' = [ offer |-> edit[e].merged,
                 offerPrice |-> IF edit[e].patchesPrice THEN DeriveOfferPrice(edit[e].merged)
                                                        ELSE food.offerPrice ]
    /\ overtaken' = ~(edit[e].fresh \/ edit[e].patchesPrice)
    /\ Outdate(e)

WriteFood(e) ==
    /\ edit[e].writing
    /\ LET price == IF edit[e].patchesPrice THEN edit[e].merged.price ELSE food.offer.price
       IN  food' = [ offer |-> [edit[e].merged EXCEPT !.price = price],
                    offerPrice |-> DeriveOfferPrice(edit[e].merged) ]
    /\ overtaken' = ~(edit[e].fresh \/ edit[e].patchesPrice)
    /\ Outdate(e)

MenuNext ==
    \E e \in Editors :
        \/ \E patched \in SUBSET {"price", "active", "type", "value"} \ {{}} :
           \E typed \in [price: Prices, active: BOOLEAN, type: {"PERCENTAGE", "FIXED"},
                         value: Discounts] :
               ReadFood(e, patched, typed)
        \/ WriteFood(e)

MenuSpec == MenuInit /\ [][MenuNext]_menuVars

-----------------------------------------------------------------------------
MenuTypeOK ==
    /\ food \in FoodRow
    /\ edit \in [Editors -> {NoEdit} \union Edit]
    /\ overtaken \in BOOLEAN

\* Whatever edits overlap and whatever row they leave behind, a diner pays no less
\* than nothing and no more than the list price (effectivePriceMinor, priceItems).
ChargedWithinList == UnitPrice \in 0..food.offer.price

\* The offer price the menu shows is the price that is charged, however many edits
\* overlapped before, unless the last one derived its offer from a row that had changed
\* by the time it was written, and left the list price alone (offerColumns, updateFood).
ShownIsCharged ==
    \/ overtaken
    \/ IF food.offer.active THEN food.offerPrice = UnitPrice ELSE food.offerPrice = Null

\* But for that the row also keeps what the write path checks: an offer that is on
\* is fully specified and no more than the dish's price (assertOfferIsCoherent).
OfferCoherent == overtaken \/ Coherent(food.offer)
=============================================================================
