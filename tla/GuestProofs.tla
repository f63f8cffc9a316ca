----------------------------- MODULE GuestProofs -----------------------------
(***************************************************************************)
(* What holds of a diner's visit for any menu, basket and number of        *)
(* payments: the price of a dish (MenuPricing), the basket (GuestCart) and *)
(* the payment sheet (Checkout).                                           *)
(***************************************************************************)
EXTENDS Checkout, MenuPricing, TLAPS, FiniteSetTheorems, WellFoundedInduction

-----------------------------------------------------------------------------
(* The menu: the price shown and the price charged.                         *)

\* An effective price lies between nothing and the list price, whatever the
\* offer columns hold.
LEMMA EffectiveWithinList ==
    ASSUME NEW price \in Nat, NEW offer \in Offer
    PROVE  EffectivePriceMinor(price, offer) \in 0..price
  <1>1. CASE ~offer.active \/ offer.type = "NONE" \/ offer.value < 0
    BY <1>1 DEF EffectivePriceMinor
  <1>2. CASE ~(~offer.active \/ offer.type = "NONE" \/ offer.value < 0)
    <2>1. offer.value \in Nat
      BY <1>2 DEF Offer, Null
    <2>2. ApplyPercent(price, offer.value) \in Nat
      <3>1. price * offer.value \in Nat
        BY <2>1
      <3>2. \A x \in Nat : (x + 5000) \div 10000 \in Nat
        OBVIOUS
      <3> QED BY <3>1, <3>2 DEF ApplyPercent
    <2>3. DiscountMinor(price, offer.type, offer.value) \in 0..price
      BY <2>1, <2>2 DEF DiscountMinor, Least, AtLeastZero
    <2> QED BY <1>2, <2>3 DEF EffectivePriceMinor
  <1> QED BY <1>1, <1>2

LEMMA DeriveType ==
    ASSUME NEW offer \in Offer
    PROVE  DeriveOfferPrice(offer) \in Nat \union {Null}
  <1>1. EffectivePriceMinor(offer.price, offer) \in Nat
    BY EffectiveWithinList DEF Offer
  <1> QED BY <1>1 DEF DeriveOfferPrice

\* A price derived from a coherent offer is what that offer charges, and absent
\* exactly when the offer is off.
LEMMA DeriveCoherent ==
    ASSUME NEW offer \in Offer, Coherent(offer)
    PROVE  DeriveOfferPrice(offer) = IF offer.active THEN EffectivePriceMinor(offer.price, offer)
                                                     ELSE Null
  BY DEF Coherent, DeriveOfferPrice, Null, Offer

-----------------------------------------------------------------------------
\* What an update in flight knows: its offer is coherent and, while the row is
\* still as it was read, it describes the row that will be there.
EditSound(e) ==
    edit[e].writing =>
        /\ Coherent(edit[e].merged)
        /\ edit[e].fresh /\ ~edit[e].patchesPrice => edit[e].merged.price = food.offer.price

MenuInv == /\ MenuTypeOK
           /\ \A e \in Editors : EditSound(e)
           /\ ShownIsCharged
           /\ OfferCoherent

LEMMA MenuStarts == MenuInit => MenuInv
  <1> SUFFICES ASSUME MenuInit PROVE MenuInv
    OBVIOUS
  <1>1. PICK offer \in Offer : Coherent(offer)
                               /\ food = [offer |-> offer, offerPrice |-> DeriveOfferPrice(offer)]
    BY PricesAssumption DEF MenuInit, Offer
  <1>2. food.offer = offer /\ food.offerPrice = DeriveOfferPrice(offer)
    BY <1>1
  <1>3. food \in FoodRow
    BY <1>1, DeriveType DEF FoodRow
  <1>4. \A e \in Editors : ~edit[e].writing
    BY DEF MenuInit, NoEdit
  <1>5. ShownIsCharged /\ OfferCoherent
    BY <1>1, <1>2, DeriveCoherent DEF ShownIsCharged, OfferCoherent, UnitPrice
  <1> QED BY <1>3, <1>4, <1>5 DEF MenuInit, MenuInv, MenuTypeOK, EditSound

LEMMA MenuReads ==
    ASSUME MenuInv, NEW e \in Editors,
           NEW patched \in SUBSET {"price", "active", "type", "value"},
           NEW typed \in [price: Prices, active: BOOLEAN, type: {"PERCENTAGE", "FIXED"},
                          value: Discounts],
           ReadFood(e, patched, typed)
    PROVE  MenuInv'
  <1> DEFINE merged == Merge(food.offer, patched, typed)
             new    == [writing |-> TRUE, merged |-> merged,
                        patchesPrice |-> "price" \in patched, fresh |-> TRUE]
  <1>1. food.offer \in Offer
    BY DEF MenuInv, MenuTypeOK, FoodRow
  <1>2. merged \in Offer
    BY <1>1, PricesAssumption DEF Merge, Offer
  <1>3. Coherent(merged) /\ edit' = [edit EXCEPT ![e] = new] /\ UNCHANGED <<food, overtaken>>
    BY DEF ReadFood
  <1>4. ~("price" \in patched) => merged.price = food.offer.price
    BY DEF Merge
  <1> HIDE DEF merged
  <1>5. new \in Edit
    BY <1>2 DEF Edit
  <1>6. MenuTypeOK'
    BY <1>3, <1>5 DEF MenuInv, MenuTypeOK
  <1>7. ASSUME NEW d \in Editors PROVE EditSound(d)'
    <2>1. CASE d = e
      BY <1>3, <1>4, <2>1 DEF EditSound, MenuInv, MenuTypeOK
    <2>2. CASE d # e
      BY <1>3, <2>2 DEF EditSound, MenuInv, MenuTypeOK
    <2> QED BY <2>1, <2>2
  <1>8. ShownIsCharged' /\ OfferCoherent'
    BY <1>3 DEF MenuInv, ShownIsCharged, OfferCoherent, UnitPrice
  <1> QED BY <1>6, <1>7, <1>8 DEF MenuInv

LEMMA MenuWrites ==
    ASSUME MenuInv, NEW e \in Editors, WriteFood(e)
    PROVE  MenuInv'
  <1> DEFINE merged == edit[e].merged
             price  == IF edit[e].patchesPrice THEN merged.price ELSE food.offer.price
             offer  == [merged EXCEPT !.price = price]
  <1>1. edit[e] \in Edit /\ merged \in Offer /\ Coherent(merged)
    <2>1. edit[e] \in {NoEdit} \union Edit /\ edit[e].writing
      BY DEF MenuInv, MenuTypeOK, WriteFood
    <2>2. edit[e] \in Edit
      BY <2>1 DEF NoEdit
    <2>3. edit[e].merged \in Offer
      BY <2>2 DEF Edit
    <2>4. Coherent(edit[e].merged)
      BY <2>1 DEF MenuInv, EditSound
    <2> QED BY <2>2, <2>3, <2>4
  <1>2. price \in Nat /\ edit[e].fresh \in BOOLEAN /\ edit[e].patchesPrice \in BOOLEAN
    BY <1>1 DEF MenuInv, MenuTypeOK, FoodRow, Offer, Edit
  <1>3. offer \in Offer /\ offer.price = price
    BY <1>1, <1>2 DEF Offer
  <1>4. food' = [offer |-> offer, offerPrice |-> DeriveOfferPrice(merged)]
        /\ overtaken' = ~(edit[e].fresh \/ edit[e].patchesPrice)
        /\ Outdate(e)
    BY DEF WriteFood
  <1>5. edit[e].fresh \/ edit[e].patchesPrice => price = merged.price
    BY DEF MenuInv, EditSound, WriteFood
  <1>6. edit[e].fresh \/ edit[e].patchesPrice => offer = merged
    BY <1>1, <1>5 DEF Offer
  <1> HIDE DEF offer, price
  <1>7. food' \in FoodRow /\ food'.offer = offer /\ food'.offerPrice = DeriveOfferPrice(merged)
    BY <1>1, <1>3, <1>4, DeriveType DEF FoodRow
  <1>8. MenuTypeOK'
    <2>1. ASSUME NEW d \in Editors PROVE edit'[d] \in {NoEdit} \union Edit
      <3>1. edit[d].writing => edit[d] \in Edit
        BY DEF MenuInv, MenuTypeOK, NoEdit
      <3>2. edit[d] \in Edit => [edit[d] EXCEPT !.fresh = FALSE] \in Edit
        BY DEF Edit
      <3> QED BY <1>4, <3>1, <3>2 DEF Outdate, MenuInv, MenuTypeOK
    <2>2. edit' = [d \in Editors |-> edit'[d]]
      BY <1>4 DEF Outdate
    <2>3. edit' \in [Editors -> {NoEdit} \union Edit]
      BY <2>1, <2>2
    <2> QED BY <1>2, <1>4, <1>7, <2>3 DEF MenuInv, MenuTypeOK
  <1>9. ASSUME NEW d \in Editors PROVE EditSound(d)'
    <2>1. CASE d = e
      BY <1>4, <2>1 DEF Outdate, EditSound, NoEdit
    <2>2. CASE d # e /\ food' = food
      BY <1>4, <2>2 DEF Outdate, EditSound, MenuInv
    <2>3. CASE d # e /\ food' # food
      <3>1. edit[d].writing => edit[d] \in Edit
        BY DEF MenuInv, MenuTypeOK, NoEdit
      <3>2. edit[d].writing => /\ edit'[d].merged = edit[d].merged
                               /\ ~edit'[d].fresh
        BY <1>4, <2>3, <3>1 DEF Outdate, Edit
      <3>3. ~edit[d].writing => ~edit'[d].writing
        BY <1>4, <2>3 DEF Outdate
      <3> QED BY <3>2, <3>3 DEF EditSound, MenuInv
    <2> QED BY <2>1, <2>2, <2>3
  <1>10. ShownIsCharged' /\ OfferCoherent'
    <2>1. CASE edit[e].fresh \/ edit[e].patchesPrice
      BY <1>1, <1>6, <1>7, <2>1, DeriveCoherent DEF ShownIsCharged, OfferCoherent, UnitPrice
    <2>2. CASE ~(edit[e].fresh \/ edit[e].patchesPrice)
      BY <1>4, <2>2 DEF ShownIsCharged, OfferCoherent
    <2> QED BY <2>1, <2>2
  <1> QED BY <1>8, <1>9, <1>10 DEF MenuInv

LEMMA MenuSteps == MenuInv /\ [MenuNext]_menuVars => MenuInv'
  <1> SUFFICES ASSUME MenuInv, [MenuNext]_menuVars PROVE MenuInv'
    OBVIOUS
  <1>1. CASE MenuNext
    BY <1>1, MenuReads, MenuWrites DEF MenuNext
  <1>2. CASE UNCHANGED menuVars
    BY <1>2 DEF menuVars, MenuInv, MenuTypeOK, EditSound, ShownIsCharged, OfferCoherent, UnitPrice
  <1> QED BY <1>1, <1>2

LEMMA MenuInductive == MenuSpec => []MenuInv
  BY MenuStarts, MenuSteps, PTL DEF MenuSpec

\* The dish's row and the updates in flight are well formed.
THEOREM MenuTypeCorrect == MenuSpec => []MenuTypeOK
  <1>1. MenuInv => MenuTypeOK
    BY DEF MenuInv
  <1> QED BY <1>1, MenuInductive, PTL

\* However many administrators edit the dish at once, and whatever incoherent
\* offer their updates leave together, a diner is charged between nothing and
\* the list price.
THEOREM NeverChargedAboveList == MenuSpec => []ChargedWithinList
  <1>1. MenuInv => ChargedWithinList
    BY EffectiveWithinList DEF MenuInv, MenuTypeOK, FoodRow, Offer, ChargedWithinList, UnitPrice
  <1> QED BY <1>1, MenuInductive, PTL

\* The offer price on the menu is the price that is charged, unless the last update
\* derived it from a list price that changed before it was written.
THEOREM MenuTellsThePrice == MenuSpec => []ShownIsCharged
  <1>1. MenuInv => ShownIsCharged
    BY DEF MenuInv
  <1> QED BY <1>1, MenuInductive, PTL

\* But for that, an offer that is on is one the write path would accept.
THEOREM OffersStayCoherent == MenuSpec => []OfferCoherent
  <1>1. MenuInv => OfferCoherent
    BY DEF MenuInv
  <1> QED BY <1>1, MenuInductive, PTL

-----------------------------------------------------------------------------
(* Sums over finite sets: a fold adds each value once.                      *)

\* Induction over the naturals, from their least counterexample.
LEMMA NatSet ==
    ASSUME NEW T \in SUBSET Nat, 0 \in T, \A n \in T : n + 1 \in T
    PROVE  T = Nat
  <1> SUFFICES ASSUME Nat \ T # {} PROVE FALSE
    OBVIOUS
  <1> DEFINE R == { ss \in Nat \X Nat : ss[1] < ss[2] }
  <1>1. IsWellFoundedOn(R, Nat)
    BY NatLessThanWellFounded DEF OpToRel
  <1>2. PICK m \in Nat \ T : \A k \in Nat \ T : ~ (<<k, m>> \in R)
    <2> HIDE DEF R
    <2>1. Nat \ T \subseteq Nat
      OBVIOUS
    <2> QED BY <1>1, <2>1, WFMin
  <1>3. m # 0 /\ m - 1 \in Nat /\ m - 1 + 1 = m
    OBVIOUS
  <1>4. m - 1 \in Nat \ T
    BY <1>3
  <1>5. <<m - 1, m>> \in R
    BY <1>3
  <1> QED BY <1>2, <1>4, <1>5

\* What a fold over a set does at each subset: take the chosen element, add up the rest.
Chosen(s)       == CHOOSE x \in s : TRUE
After(f, g, s)  == IF s = {} THEN 0 ELSE f[Chosen(s)] + g[s \ {Chosen(s)}]
Folds(f, g, S)  == g = [s \in SUBSET S |-> After(f, g, s)]
UpTo(S, n)      == { s \in SUBSET S : Cardinality(s) <= n }

\* The chosen element is there, and the rest is smaller.
LEMMA RestIsSmaller ==
    ASSUME NEW S, IsFiniteSet(S), NEW s \in SUBSET S, s # {}
    PROVE  /\ Chosen(s) \in s /\ s \ {Chosen(s)} \in SUBSET S
           /\ Cardinality(s) \in Nat \ {0}
           /\ \A x \in s : Cardinality(s \ {x}) = Cardinality(s) - 1
  <1>1. IsFiniteSet(s) /\ Cardinality(s) \in Nat
    BY FS_Subset, FS_CardinalityType
  <1>2. Cardinality(s) # 0
    BY <1>1, FS_EmptySet
  <1>3. \A x \in s : Cardinality(s \ {x}) = Cardinality(s) - 1
    BY <1>1, FS_RemoveElement
  <1> QED BY <1>1, <1>2, <1>3 DEF Chosen

LEMMA FoldExists ==
    ASSUME NEW f, NEW S, IsFiniteSet(S)
    PROVE  \E g : Folds(f, g, S)
  <1> DEFINE Level(n) == \E g : g = [s \in UpTo(S, n) |-> After(f, g, s)]
             T == { n \in Nat : Level(n) }
  <1>1. 0 \in T
    <2> DEFINE g == [s \in UpTo(S, 0) |-> 0]
    <2>1. \A s \in UpTo(S, 0) : s = {}
      BY RestIsSmaller DEF UpTo
    <2>2. g = [s \in UpTo(S, 0) |-> After(f, g, s)]
      BY <2>1 DEF After
    <2> QED BY <2>2
  <1>2. ASSUME NEW n \in T PROVE n + 1 \in T
    <2>1. PICK g : g = [s \in UpTo(S, n) |-> After(f, g, s)]
      BY DEF T
    <2> DEFINE k == [s \in UpTo(S, n + 1) |-> After(f, g, s)]
    <2>2. ASSUME NEW s \in UpTo(S, n + 1), s # {} PROVE g[s \ {Chosen(s)}] = k[s \ {Chosen(s)}]
      <3> DEFINE rest == s \ {Chosen(s)}
      <3>1. rest \in UpTo(S, n) /\ rest \in UpTo(S, n + 1)
        BY <2>2, RestIsSmaller DEF UpTo
      <3> HIDE DEF rest
      <3>2. g[rest] = After(f, g, rest)
        BY <2>1, <3>1
      <3>3. k[rest] = After(f, g, rest)
        BY <3>1
      <3> QED BY <3>2, <3>3 DEF rest
    <2>3. \A s \in UpTo(S, n + 1) : After(f, g, s) = After(f, k, s)
      BY <2>2 DEF After
    <2>4. k = [s \in UpTo(S, n + 1) |-> After(f, k, s)]
      BY <2>3
    <2> HIDE DEF k
    <2>5. Level(n + 1)
      BY <2>4
    <2> QED BY <2>5 DEF T
  <1>3. T = Nat
    BY <1>1, <1>2, NatSet
  <1>4. Cardinality(S) \in Nat /\ UpTo(S, Cardinality(S)) = SUBSET S
    BY FS_CardinalityType, FS_Subset DEF UpTo
  <1>5. Level(Cardinality(S))
    BY <1>3, <1>4
  <1> QED BY <1>4, <1>5 DEF Folds

\* The order of the additions does not matter.
Sums(f, g, S) == \A s \in SUBSET S :
    /\ g[s] \in Nat
    /\ s = {} => g[s] = 0
    /\ \A x \in s : g[s] = f[x] + g[s \ {x}]

LEMMA FoldSums ==
    ASSUME NEW f, NEW g, NEW S, IsFiniteSet(S), \A x \in S : f[x] \in Nat, Folds(f, g, S)
    PROVE  Sums(f, g, S)
  <1> DEFINE Good(s) == /\ g[s] \in Nat /\ (s = {} => g[s] = 0)
                        /\ \A x \in s : g[s] = f[x] + g[s \ {x}]
             T == { n \in Nat : \A s \in UpTo(S, n) : Good(s) }
  <1>0. \A s \in SUBSET S : g[s] = After(f, g, s)
    BY DEF Folds
  <1>e. Good({})
    <2>1. g[{}] = 0
      BY <1>0 DEF After
    <2> QED BY <2>1
  <1>1. 0 \in T
    <2>1. \A s \in UpTo(S, 0) : s = {}
      BY RestIsSmaller DEF UpTo
    <2> QED BY <1>e, <2>1
  <1>2. ASSUME NEW n \in T PROVE n + 1 \in T
    <2>0. n \in Nat /\ \A s \in UpTo(S, n) : Good(s)
      OBVIOUS
    <2> SUFFICES ASSUME NEW s \in UpTo(S, n + 1), s # {} PROVE Good(s)
      BY <1>e, <2>0
    <2> DEFINE y == Chosen(s)
    <2>1. s \in SUBSET S /\ Cardinality(s) \in Nat /\ Cardinality(s) <= n + 1
      BY RestIsSmaller DEF UpTo
    <2>2. y \in s /\ \A x \in s : s \ {x} \in UpTo(S, n) /\ Cardinality(s \ {x}) <= n
      BY <2>0, <2>1, RestIsSmaller DEF UpTo
    <2>3. g[s] = f[y] + g[s \ {y}]
      BY <1>0, <2>1 DEF After
    <2>c. \A x \in s : f[x] \in Nat
      BY <2>1
    <2> HIDE DEF y, T
    <2>4. \A x \in s : Good(s \ {x})
      BY <2>0, <2>2
    <2>5. ASSUME NEW x \in s PROVE g[s] = f[x] + g[s \ {x}]
      <3>1. CASE x = y
        BY <2>3, <3>1
      <3>2. CASE x # y
        <4> DEFINE rest == (s \ {y}) \ {x}
        <4>1. y \in s \ {x} /\ x \in s \ {y} /\ (s \ {x}) \ {y} = rest
          BY <2>2, <3>2
        <4>2. g[s \ {x}] = f[y] + g[rest]
          <5> HIDE DEF rest
          <5> QED BY <2>4, <4>1
        <4>3. g[s \ {y}] = f[x] + g[rest]
          BY <2>2, <2>4, <4>1
        <4>4. Good(rest)
          <5>1. rest \in SUBSET S /\ (rest = {} \/ Cardinality(rest) <= n)
            <6>1. s \ {y} \in SUBSET S /\ s \ {y} # {} /\ Cardinality(s \ {y}) <= n
              BY <2>1, <2>2, <4>1
            <6>2. Cardinality(rest) = Cardinality(s \ {y}) - 1 /\ Cardinality(s \ {y}) \in Nat
              <7> DEFINE w == s \ {y}
              <7>1. w \in SUBSET S /\ w # {} /\ x \in w
                BY <4>1, <6>1
              <7> HIDE DEF w
              <7>2. Cardinality(w \ {x}) = Cardinality(w) - 1 /\ Cardinality(w) \in Nat
                BY <7>1, RestIsSmaller
              <7> QED BY <7>2 DEF w
            <6> QED BY <2>0, <6>1, <6>2
          <5>2. CASE rest = {}
            <6> HIDE DEF rest
            <6> QED BY <1>e, <5>2
          <5>3. CASE Cardinality(rest) <= n
            <6>1. rest \in UpTo(S, n)
              BY <5>1, <5>3 DEF UpTo
            <6> HIDE DEF rest
            <6> QED BY <2>0, <6>1
          <5> QED BY <5>1, <5>2, <5>3
        <4>5. f[x] \in Nat /\ f[y] \in Nat /\ g[rest] \in Nat
          BY <2>2, <2>c, <4>4
        <4> HIDE DEF rest
        <4> QED BY <2>3, <4>2, <4>3, <4>5
      <3> QED BY <3>1, <3>2
    <2>6. g[s] \in Nat
      <3>1. f[y] \in Nat /\ g[s \ {y}] \in Nat
        BY <2>2, <2>4, <2>c
      <3> QED BY <2>3, <3>1
    <2> QED BY <2>5, <2>6
  <1>3. T = Nat
    BY <1>1, <1>2, NatSet
  <1>4. ASSUME NEW s \in SUBSET S PROVE Good(s)
    <2>1. Cardinality(s) \in T /\ s \in UpTo(S, Cardinality(s))
      BY <1>3, FS_Subset, FS_CardinalityType DEF UpTo
    <2> QED BY <2>1
  <1> QED BY <1>4 DEF Sums

\* There is one sum.
LEMMA SumsUnique ==
    ASSUME NEW S, IsFiniteSet(S), NEW f, NEW u, NEW v, Sums(f, u, S), Sums(f, v, S)
    PROVE  u[S] = v[S]
  <1> DEFINE T == { n \in Nat : \A s \in UpTo(S, n) : u[s] = v[s] }
  <1>1. 0 \in T
    <2>1. \A s \in UpTo(S, 0) : s = {}
      BY RestIsSmaller DEF UpTo
    <2>2. u[{}] = 0 /\ v[{}] = 0
      BY DEF Sums
    <2> QED BY <2>1, <2>2
  <1>2. ASSUME NEW n \in T PROVE n + 1 \in T
    <2>0. n \in Nat /\ \A s \in UpTo(S, n) : u[s] = v[s]
      OBVIOUS
    <2> SUFFICES ASSUME NEW s \in UpTo(S, n + 1) PROVE u[s] = v[s]
      BY <2>0
    <2> HIDE DEF T
    <2>1. s \in SUBSET S
      BY DEF UpTo
    <2>2. CASE s = {}
      BY <2>1, <2>2 DEF Sums
    <2>3. ASSUME NEW x \in s PROVE u[s] = v[s]
      <3>1. s \ {x} \in UpTo(S, n)
        BY <2>0, <2>1, RestIsSmaller DEF UpTo
      <3>2. u[s] = f[x] + u[s \ {x}] /\ v[s] = f[x] + v[s \ {x}]
        BY <2>1 DEF Sums
      <3>3. u[s \ {x}] = v[s \ {x}]
        BY <2>0, <3>1
      <3> QED BY <3>2, <3>3
    <2> QED BY <2>2, <2>3
  <1>3. T = Nat
    BY <1>1, <1>2, NatSet
  <1>4. Cardinality(S) \in T /\ S \in UpTo(S, Cardinality(S))
    BY <1>3, FS_CardinalityType DEF UpTo
  <1> QED BY <1>4

LEMMA SumsExist ==
    ASSUME NEW S, IsFiniteSet(S), NEW f, \A x \in S : f[x] \in Nat
    PROVE  \E u : Sums(f, u, S)
  BY FoldExists, FoldSums

-----------------------------------------------------------------------------
(* The portions of a dish among some lines, and in the orders sent.         *)

LinesOf(lines, f) == { i \in DOMAIN lines : lines[i].food = f }
Quantities(lines, f) == [i \in LinesOf(lines, f) |-> lines[i].qty]

LEMMA LinesFinite ==
    ASSUME NEW lines \in Lines, NEW f
    PROVE  /\ IsFiniteSet(DOMAIN lines) /\ IsFiniteSet(LinesOf(lines, f))
           /\ DOMAIN lines \in SUBSET (1..MaxTaps)
           /\ \A i \in DOMAIN lines : lines[i] \in Line
           /\ \A i \in LinesOf(lines, f) : Quantities(lines, f)[i] \in Nat \ {0}
  <1>1. PICK made \in SUBSET (1..MaxTaps) : lines \in [made -> Line]
    BY DEF Lines
  <1>2. IsFiniteSet(1..MaxTaps)
    BY FS_Interval, CartBounds
  <1>3. IsFiniteSet(DOMAIN lines) /\ IsFiniteSet(LinesOf(lines, f))
    BY <1>1, <1>2, FS_Subset DEF LinesOf
  <1>4. DOMAIN lines \in SUBSET (1..MaxTaps) /\ \A i \in DOMAIN lines : lines[i] \in Line
    BY <1>1
  <1>5. \A i \in LinesOf(lines, f) : Quantities(lines, f)[i] \in Nat \ {0}
    BY <1>4 DEF LinesOf, Quantities, Line
  <1> QED BY <1>3, <1>4, <1>5

LEMMA PortionsAddUp ==
    ASSUME NEW lines \in Lines, NEW f, NEW u, Sums(Quantities(lines, f), u, LinesOf(lines, f))
    PROVE  Portions(lines, f) = u[LinesOf(lines, f)]
  <1> DEFINE S == LinesOf(lines, f)
             h == Quantities(lines, f)
             Fits(g) == g = [s \in SUBSET S |-> IF s = {} THEN 0
                               ELSE LET x == CHOOSE x \in s : TRUE
                                    IN  lines[x].qty + g[s \ {x}]]
             it == CHOOSE g : Fits(g)
  <1>1. Portions(lines, f) = it[S]
    BY DEF Portions, MapThenFoldSet, LinesOf
  <1>2. PICK g : Folds(h, g, S)
    BY FoldExists, LinesFinite
  <1>3. ASSUME NEW k PROVE Fits(k) <=> Folds(h, k, S)
    <2>1. ASSUME NEW s \in SUBSET S
          PROVE  After(h, k, s) = IF s = {} THEN 0
                               ELSE LET x == CHOOSE x \in s : TRUE
                                    IN  lines[x].qty + k[s \ {x}]
      <3>1. s # {} => Chosen(s) \in S
        BY DEF Chosen
      <3> QED BY <3>1 DEF After, Chosen, Quantities
    <2> QED BY <2>1 DEF Folds
  <1>4. Folds(h, it, S)
    <2> HIDE DEF Fits
    <2>1. \E k : Fits(k)
      BY <1>2, <1>3
    <2>2. Fits(it)
      BY <2>1
    <2> HIDE DEF it
    <2> QED BY <1>3, <2>2
  <1> HIDE DEF it, S, h
  <1>5. IsFiniteSet(S) /\ \A i \in S : h[i] \in Nat
    BY LinesFinite DEF S, h
  <1>6. Sums(h, it, S)
    BY <1>4, <1>5, FoldSums
  <1>7. Sums(h, u, S)
    BY DEF S, h
  <1>8. it[S] = u[S]
    BY <1>5, <1>6, <1>7, SumsUnique
  <1> QED BY <1>1, <1>8 DEF S

\* No line, no portion; one line, its quantity.
LEMMA PortionsOf ==
    ASSUME NEW lines \in Lines, NEW f
    PROVE  /\ Portions(lines, f) \in Nat
           /\ LinesOf(lines, f) = {} => Portions(lines, f) = 0
           /\ \A i \in DOMAIN lines : LinesOf(lines, f) = {i} => Portions(lines, f) = lines[i].qty
  <1> DEFINE S == LinesOf(lines, f)
             h == Quantities(lines, f)
  <1>1. PICK u : Sums(h, u, S)
    BY SumsExist, LinesFinite
  <1>2. Portions(lines, f) = u[S]
    BY <1>1, PortionsAddUp
  <1>3. S = {} => u[S] = 0
    BY <1>1 DEF Sums
  <1>4. u[S] \in Nat /\ u[{}] = 0
    BY <1>1 DEF Sums
  <1>5. ASSUME NEW i \in DOMAIN lines, S = {i} PROVE u[S] = lines[i].qty
    <2>1. h[i] = lines[i].qty /\ h[i] \in Nat
      BY <1>5, LinesFinite DEF Quantities
    <2> HIDE DEF S, h
    <2>2. u[S] = h[i] + u[S \ {i}]
      BY <1>1, <1>5 DEF Sums
    <2>3. S \ {i} = {}
      BY <1>5
    <2> QED BY <1>4, <2>1, <2>2, <2>3
  <1> QED BY <1>2, <1>3, <1>4, <1>5

Told(sent) == { r \in DOMAIN sent : sent[r].state = "settled" /\ sent[r].order # 0 }
OrderedIn(sent, f) == MapThenFoldSet(+, 0, LAMBDA r : Portions(sent[r].lines, f),
                                     LAMBDA S : CHOOSE r \in S : TRUE, Told(sent))

LEMMA OrderedAddsUp ==
    ASSUME NEW sent, IsFiniteSet(Told(sent)), NEW f, NEW h,
           \A r \in Told(sent) : h[r] = Portions(sent[r].lines, f) /\ h[r] \in Nat,
           NEW u, Sums(h, u, Told(sent))
    PROVE  OrderedIn(sent, f) = u[Told(sent)]
  <1> DEFINE S == Told(sent)
             Fits(g) == g = [s \in SUBSET S |-> IF s = {} THEN 0
                               ELSE LET x == CHOOSE x \in s : TRUE
                                    IN  Portions(sent[x].lines, f) + g[s \ {x}]]
             it == CHOOSE g : Fits(g)
  <1>1. OrderedIn(sent, f) = it[S]
    BY DEF OrderedIn, MapThenFoldSet
  <1>2. PICK g : Folds(h, g, S)
    BY FoldExists
  <1>3. ASSUME NEW k PROVE Fits(k) <=> Folds(h, k, S)
    <2>1. ASSUME NEW s \in SUBSET S
          PROVE  After(h, k, s) = IF s = {} THEN 0
                               ELSE LET x == CHOOSE x \in s : TRUE
                                    IN  Portions(sent[x].lines, f) + k[s \ {x}]
      <3>1. s # {} => Chosen(s) \in S
        BY DEF Chosen
      <3> HIDE DEF S
      <3>2. s # {} => h[Chosen(s)] = Portions(sent[Chosen(s)].lines, f)
        BY <3>1 DEF S
      <3> QED BY <3>2 DEF After, Chosen
    <2> QED BY <2>1 DEF Folds
  <1>4. Folds(h, it, S)
    <2> HIDE DEF Fits
    <2>1. \E k : Fits(k)
      BY <1>2, <1>3
    <2>2. Fits(it)
      BY <2>1
    <2> HIDE DEF it
    <2> QED BY <1>3, <2>2
  <1> HIDE DEF it
  <1>5. Sums(h, it, S)
    BY <1>4, FoldSums
  <1>6. it[S] = u[S]
    BY <1>5, SumsUnique
  <1> QED BY <1>1, <1>6

\* One more order told of adds its portions.
LEMMA OneMoreTold ==
    ASSUME NEW sent, NEW later, NEW f, NEW k, k \notin Told(sent),
           Told(later) = Told(sent) \union {k}, IsFiniteSet(Told(later)),
           \A j \in Told(sent) : later[j].lines = sent[j].lines,
           \A j \in Told(later) : later[j].lines \in Lines,
           NEW p, p = Portions(later[k].lines, f)
    PROVE  /\ OrderedIn(later, f) = p + OrderedIn(sent, f)
           /\ OrderedIn(sent, f) \in Nat
  <1> DEFINE S == Told(sent)
             T == Told(later)
  <1>1. PICK h : h = [j \in T |-> Portions(later[j].lines, f)]
    OBVIOUS
  <1>2. S \in SUBSET T /\ IsFiniteSet(S) /\ k \in T /\ T \ {k} = S
    BY FS_Subset
  <1>3. \A j \in T : h[j] = Portions(later[j].lines, f) /\ h[j] \in Nat
    BY <1>1, PortionsOf
  <1>4. \A j \in S : h[j] = Portions(sent[j].lines, f) /\ h[j] \in Nat
    BY <1>2, <1>3
  <1>5. PICK u : Sums(h, u, T)
    BY <1>3, SumsExist
  <1>6. Sums(h, u, S)
    BY <1>2, <1>5 DEF Sums
  <1>7. OrderedIn(later, f) = u[T]
    BY <1>3, <1>5, OrderedAddsUp
  <1>8. OrderedIn(sent, f) = u[S]
    BY <1>2, <1>4, <1>6, OrderedAddsUp
  <1>9. u[S] \in Nat
    BY <1>6 DEF Sums
  <1> HIDE DEF S, T
  <1>10. u[T] = h[k] + u[T \ {k}]
    BY <1>2, <1>5 DEF Sums, T
  <1>11. h[k] = p
    BY <1>2, <1>3
  <1> QED BY <1>2, <1>7, <1>8, <1>9, <1>10, <1>11

\* The same orders told of add up to the same.
LEMMA SameTold ==
    ASSUME NEW sent, NEW later, NEW f, Told(later) = Told(sent), IsFiniteSet(Told(later)),
           \A j \in Told(sent) : later[j].lines = sent[j].lines,
           \A j \in Told(later) : later[j].lines \in Lines
    PROVE  OrderedIn(later, f) = OrderedIn(sent, f) /\ OrderedIn(sent, f) \in Nat
  <1> DEFINE S == Told(sent)
  <1>1. PICK h : h = [j \in S |-> Portions(later[j].lines, f)]
    OBVIOUS
  <1>2. \A j \in S : h[j] = Portions(later[j].lines, f) /\ h[j] \in Nat
    BY <1>1, PortionsOf
  <1>3. \A j \in S : h[j] = Portions(sent[j].lines, f)
    BY <1>2
  <1>4. PICK u : Sums(h, u, S)
    BY <1>2, SumsExist
  <1>5. OrderedIn(later, f) = u[S]
    BY <1>2, <1>4, OrderedAddsUp
  <1>6. OrderedIn(sent, f) = u[S]
    BY <1>2, <1>3, <1>4, OrderedAddsUp
  <1>7. u[S] \in Nat
    BY <1>4 DEF Sums
  <1> QED BY <1>5, <1>6, <1>7

-----------------------------------------------------------------------------
(* What one tap does to the portions.                                       *)

LEMMA SamePortions ==
    ASSUME NEW L \in Lines, NEW K \in Lines, NEW g, LinesOf(K, g) = LinesOf(L, g),
           \A i \in LinesOf(L, g) : K[i].qty = L[i].qty
    PROVE  Portions(K, g) = Portions(L, g)
  <1>1. Quantities(K, g) = Quantities(L, g)
    BY DEF Quantities
  <1>2. PICK u : Sums(Quantities(L, g), u, LinesOf(L, g))
    BY SumsExist, LinesFinite
  <1>3. Portions(L, g) = u[LinesOf(L, g)]
    BY <1>2, PortionsAddUp
  <1>4. Portions(K, g) = u[LinesOf(L, g)]
    BY <1>1, <1>2, PortionsAddUp
  <1> QED BY <1>3, <1>4

\* A dish without twin lines has one line or none.
LEMMA Lone ==
    ASSUME NEW L, NEW g \in Foods \ Twins(L), NEW i \in LinesOf(L, g)
    PROVE  LinesOf(L, g) = {i}
  BY DEF Twins, LinesOf

LEMMA LinesType ==
    ASSUME NEW made \in SUBSET (1..MaxTaps), NEW K, K \in [made -> Line]
    PROVE  K \in Lines
  BY DEF Lines

LEMMA AddCounts ==
    ASSUME NEW L \in Lines, NEW f \in Foods, NEW n \in Notes,
           NEW m \in 1..MaxTaps, m \notin DOMAIN L, NEW K, K = addItem(L, f, n, m)
    PROVE  /\ K \in Lines /\ DOMAIN K \subseteq DOMAIN L \union {m}
           /\ \A g \in Foods \ Twins(K) :
                 Portions(K, g) = Portions(L, g) + IF g = f THEN 1 ELSE 0
  <1> DEFINE same(l) == l.food = f /\ l.note = n
  <1>0. DOMAIN L \in SUBSET (1..MaxTaps) /\ \A i \in DOMAIN L : L[i] \in Line
    BY LinesFinite
  <1>1. CASE \E i \in DOMAIN L : same(L[i])
    <2>1. K = [i \in DOMAIN L |->
               IF same(L[i]) THEN [L[i] EXCEPT !.qty = @ + 1] ELSE L[i]]
      BY <1>1 DEF addItem
    <2>2. ASSUME NEW i \in DOMAIN L
          PROVE  /\ K[i] \in Line /\ K[i].food = L[i].food /\ K[i].note = L[i].note
                 /\ K[i].qty = IF same(L[i]) THEN L[i].qty + 1 ELSE L[i].qty
      BY <1>0, <2>1, <2>2 DEF Line
    <2>3. K \in [DOMAIN L -> Line]
      BY <2>1, <2>2
    <2>4. K \in Lines /\ DOMAIN K = DOMAIN L
      BY <1>0, <2>3, LinesType
    <2>5. \A g : LinesOf(K, g) = LinesOf(L, g)
      BY <2>2, <2>4 DEF LinesOf
    <2>6. ASSUME NEW g \in Foods \ Twins(K), g # f PROVE Portions(K, g) = Portions(L, g)
      <3>1. \A i \in LinesOf(L, g) : K[i].qty = L[i].qty
        BY <2>2, <2>6 DEF LinesOf
      <3> QED BY <2>4, <2>5, <3>1, SamePortions
    <2>7. ASSUME f \notin Twins(K) PROVE Portions(K, f) = Portions(L, f) + 1
      <3>1. PICK i \in DOMAIN L : same(L[i])
        BY <1>1
      <3>2. LinesOf(K, f) = {i} /\ LinesOf(L, f) = {i}
        <4>1. i \in LinesOf(K, f)
          BY <2>5, <3>1 DEF LinesOf
        <4> QED BY <2>5, <2>7, <4>1, Lone
      <3>3. Portions(K, f) = K[i].qty
        BY <2>4, <3>2, PortionsOf
      <3>4. Portions(L, f) = L[i].qty
        BY <3>2, PortionsOf
      <3> QED BY <2>2, <3>1, <3>3, <3>4
    <2>8. ASSUME NEW g \in Foods \ Twins(K)
          PROVE  Portions(K, g) = Portions(L, g) + IF g = f THEN 1 ELSE 0
      <3>1. Portions(L, g) \in Nat
        BY PortionsOf
      <3>2. g # f => Portions(K, g) = Portions(L, g)
        BY <2>6
      <3>3. g = f => Portions(K, g) = Portions(L, g) + 1
        BY <2>7
      <3> QED BY <3>1, <3>2, <3>3
    <2> QED BY <2>4, <2>8
  <1>2. CASE ~ \E i \in DOMAIN L : same(L[i])
    <2>1. K = [i \in DOMAIN L \union {m} |->
               IF i = m THEN [food |-> f, note |-> n, qty |-> 1] ELSE L[i]]
      BY <1>2 DEF addItem
    <2>2. K[m] \in Line /\ K[m].food = f /\ K[m].qty = 1
      BY <2>1 DEF Line
    <2>3. \A i \in DOMAIN L : K[i] = L[i]
      BY <2>1
    <2>4. K \in [DOMAIN L \union {m} -> Line]
      BY <1>0, <2>1, <2>2, <2>3
    <2>5. K \in Lines /\ DOMAIN K = DOMAIN L \union {m}
      BY <1>0, <2>4, LinesType
    <2>6. \A g : g # f => LinesOf(K, g) = LinesOf(L, g)
      BY <2>2, <2>3, <2>5 DEF LinesOf
    <2>7. ASSUME NEW g, g # f PROVE Portions(K, g) = Portions(L, g)
      <3>1. \A i \in LinesOf(L, g) : K[i].qty = L[i].qty
        BY <2>3 DEF LinesOf
      <3> QED BY <2>5, <2>6, <2>7, <3>1, SamePortions
    <2>8. ASSUME f \notin Twins(K) PROVE Portions(K, f) = 1 /\ Portions(L, f) = 0
      <3>1. m \in LinesOf(K, f)
        BY <2>2, <2>5 DEF LinesOf
      <3>2. LinesOf(K, f) = {m}
        BY <2>8, <3>1, Lone
      <3>3. LinesOf(L, f) = {}
        BY <2>3, <2>5, <3>2 DEF LinesOf
      <3>4. Portions(K, f) = K[m].qty
        BY <2>5, <3>2, PortionsOf
      <3> QED BY <2>2, <3>3, <3>4, PortionsOf
    <2>9. ASSUME NEW g \in Foods \ Twins(K)
          PROVE  Portions(K, g) = Portions(L, g) + IF g = f THEN 1 ELSE 0
      <3>1. Portions(L, g) \in Nat
        BY PortionsOf
      <3>2. g # f => Portions(K, g) = Portions(L, g)
        BY <2>7
      <3>3. g = f => Portions(K, g) = 1 /\ Portions(L, g) = 0
        BY <2>8
      <3> QED BY <3>1, <3>2, <3>3
    <2> QED BY <2>5, <2>9
  <1> QED BY <1>1, <1>2

LEMMA IncreaseCounts ==
    ASSUME NEW L \in Lines, NEW f \in Foods, Portions(L, f) > 0, NEW K, K = increase(L, f)
    PROVE  /\ K \in Lines /\ DOMAIN K = DOMAIN L
           /\ \A g \in Foods \ Twins(K) :
                 Portions(K, g) = Portions(L, g) + IF g = f THEN 1 ELSE 0
  <1>0. DOMAIN L \in SUBSET (1..MaxTaps) /\ \A i \in DOMAIN L : L[i] \in Line
    BY LinesFinite
  <1>1. ASSUME NEW i \in DOMAIN L
        PROVE  /\ K[i] \in Line /\ K[i].food = L[i].food
               /\ K[i].qty = IF L[i].food = f THEN L[i].qty + 1 ELSE L[i].qty
    BY <1>0, <1>1 DEF Line, increase
  <1>2. K \in [DOMAIN L -> Line]
    BY <1>1 DEF increase
  <1>3. K \in Lines /\ DOMAIN K = DOMAIN L
    BY <1>0, <1>2, LinesType
  <1>4. \A g : LinesOf(K, g) = LinesOf(L, g)
    BY <1>1, <1>3 DEF LinesOf
  <1>5. ASSUME NEW g, g # f PROVE Portions(K, g) = Portions(L, g)
    <2>1. \A i \in LinesOf(L, g) : K[i].qty = L[i].qty
      BY <1>1, <1>5 DEF LinesOf
    <2> QED BY <1>3, <1>4, <2>1, SamePortions
  <1>6. ASSUME f \notin Twins(K) PROVE Portions(K, f) = Portions(L, f) + 1
    <2>1. PICK i \in DOMAIN L : i \in LinesOf(L, f)
      <3>1. LinesOf(L, f) # {}
        <4>1. LinesOf(L, f) = {} => Portions(L, f) = 0
          BY PortionsOf
        <4> QED BY <4>1
      <3> QED BY <3>1 DEF LinesOf
    <2>2. LinesOf(K, f) = {i} /\ LinesOf(L, f) = {i}
      BY <1>4, <1>6, <2>1, Lone
    <2>3. Portions(K, f) = K[i].qty
      BY <1>3, <2>2, PortionsOf
    <2>4. Portions(L, f) = L[i].qty
      BY <2>2, PortionsOf
    <2>5. L[i].food = f
      BY <2>1 DEF LinesOf
    <2> QED BY <1>1, <2>3, <2>4, <2>5
  <1>7. ASSUME NEW g \in Foods \ Twins(K)
        PROVE  Portions(K, g) = Portions(L, g) + IF g = f THEN 1 ELSE 0
    <2>1. Portions(L, g) \in Nat
      BY PortionsOf
    <2>2. g # f => Portions(K, g) = Portions(L, g)
      BY <1>5
    <2>3. g = f => Portions(K, g) = Portions(L, g) + 1
      BY <1>6
    <2> QED BY <2>1, <2>2, <2>3
  <1> QED BY <1>3, <1>7

LEMMA DecreaseCounts ==
    ASSUME NEW L \in Lines, NEW f \in Foods, Portions(L, f) > 0, NEW K, K = decrease(L, f)
    PROVE  /\ K \in Lines /\ DOMAIN K \subseteq DOMAIN L
           /\ \A g \in Foods \ Twins(L) :
                 Portions(K, g) = Portions(L, g) - IF g = f THEN 1 ELSE 0
  <1> DEFINE Left == {j \in DOMAIN L : L[j].food = f => L[j].qty > 1}
  <1>0. DOMAIN L \in SUBSET (1..MaxTaps) /\ \A i \in DOMAIN L : L[i] \in Line
    BY LinesFinite
  <1>1. ASSUME NEW i \in Left
        PROVE  /\ K[i] \in Line /\ K[i].food = L[i].food
               /\ K[i].qty = IF L[i].food = f THEN L[i].qty - 1 ELSE L[i].qty
    <2>1. K[i] = IF L[i].food = f THEN [L[i] EXCEPT !.qty = @ - 1] ELSE L[i]
      BY DEF decrease
    <2>2. L[i] \in Line
      BY <1>0
    <2>3. L[i].food = f => L[i].qty - 1 \in Nat \ {0}
      BY <1>0 DEF Line
    <2> QED BY <2>1, <2>2, <2>3 DEF Line
  <1>2. K \in [Left -> Line]
    BY <1>1 DEF decrease
  <1>3. K \in Lines /\ DOMAIN K = Left
    BY <1>0, <1>2, LinesType
  <1>4. \A g : g # f => LinesOf(K, g) = LinesOf(L, g)
    BY <1>1, <1>3 DEF LinesOf
  <1>5. ASSUME NEW g, g # f PROVE Portions(K, g) = Portions(L, g)
    <2>1. \A i \in LinesOf(L, g) : K[i].qty = L[i].qty
      BY <1>1, <1>5 DEF LinesOf
    <2> QED BY <1>3, <1>4, <1>5, <2>1, SamePortions
  <1>6. ASSUME f \notin Twins(L) PROVE Portions(K, f) = Portions(L, f) - 1
    <2>1. PICK i \in DOMAIN L : i \in LinesOf(L, f)
      <3>1. LinesOf(L, f) # {}
        <4>1. LinesOf(L, f) = {} => Portions(L, f) = 0
          BY PortionsOf
        <4> QED BY <4>1
      <3> QED BY <3>1 DEF LinesOf
    <2>2. LinesOf(L, f) = {i}
      BY <1>6, <2>1, Lone
    <2>3. L[i].food = f /\ L[i].qty \in Nat \ {0}
      BY <1>0, <2>1 DEF LinesOf, Line
    <2>4. Portions(L, f) = L[i].qty
      BY <2>2, PortionsOf
    <2>5. CASE L[i].qty > 1
      <3>1. i \in Left /\ LinesOf(K, f) = {i}
        BY <1>1, <1>3, <2>2, <2>3, <2>5 DEF LinesOf
      <3>2. Portions(K, f) = K[i].qty
        BY <1>3, <3>1, PortionsOf
      <3> QED BY <1>1, <2>3, <2>4, <3>1, <3>2
    <2>6. CASE ~ (L[i].qty > 1)
      <3>1. LinesOf(K, f) = {}
        BY <1>1, <1>3, <2>2, <2>3, <2>6 DEF LinesOf
      <3>2. Portions(K, f) = 0
        BY <1>3, <3>1, PortionsOf
      <3> QED BY <2>3, <2>4, <2>6, <3>2
    <2> QED BY <2>5, <2>6
  <1>7. ASSUME NEW g \in Foods \ Twins(L)
        PROVE  Portions(K, g) = Portions(L, g) - IF g = f THEN 1 ELSE 0
    <2>1. Portions(L, g) \in Nat
      BY PortionsOf
    <2>2. g # f => Portions(K, g) = Portions(L, g)
      BY <1>5
    <2>3. g = f => Portions(K, g) = Portions(L, g) - 1
      BY <1>6
    <2> QED BY <2>1, <2>2, <2>3
  <1> QED BY <1>3, <1>7

LEMMA RemoveCounts ==
    ASSUME NEW L \in Lines, NEW f, NEW K, K = removeItem(L, f)
    PROVE  /\ K \in Lines /\ DOMAIN K \subseteq DOMAIN L
           /\ Portions(K, f) = 0
           /\ \A g : g # f => Portions(K, g) = Portions(L, g)
  <1> DEFINE Left == {j \in DOMAIN L : L[j].food # f}
  <1>0. DOMAIN L \in SUBSET (1..MaxTaps) /\ \A i \in DOMAIN L : L[i] \in Line
    BY LinesFinite
  <1>1. K = [i \in Left |-> L[i]]
    BY DEF removeItem, Restrict
  <1>2. K \in [Left -> Line]
    BY <1>0, <1>1
  <1>3. K \in Lines /\ DOMAIN K = Left /\ \A i \in Left : K[i] = L[i]
    BY <1>0, <1>1, <1>2, LinesType
  <1>4. LinesOf(K, f) = {}
    BY <1>3 DEF LinesOf
  <1>5. ASSUME NEW g, g # f PROVE Portions(K, g) = Portions(L, g)
    <2>1. LinesOf(K, g) = LinesOf(L, g) /\ \A i \in LinesOf(L, g) : K[i].qty = L[i].qty
      BY <1>3, <1>5 DEF LinesOf
    <2> QED BY <1>3, <2>1, SamePortions
  <1> QED BY <1>3, <1>4, <1>5, PortionsOf

LEMMA NotesCount ==
    ASSUME NEW L \in Lines, NEW f, NEW n \in Notes, NEW K, K = setNotes(L, f, n)
    PROVE  /\ K \in Lines /\ DOMAIN K = DOMAIN L
           /\ \A g : Portions(K, g) = Portions(L, g)
  <1>0. DOMAIN L \in SUBSET (1..MaxTaps) /\ \A i \in DOMAIN L : L[i] \in Line
    BY LinesFinite
  <1>1. ASSUME NEW i \in DOMAIN L
        PROVE  K[i] \in Line /\ K[i].food = L[i].food /\ K[i].qty = L[i].qty
    BY <1>0, <1>1 DEF Line, setNotes
  <1>2. K \in [DOMAIN L -> Line]
    BY <1>1 DEF setNotes
  <1>3. K \in Lines /\ DOMAIN K = DOMAIN L
    BY <1>0, <1>2, LinesType
  <1>4. ASSUME NEW g PROVE Portions(K, g) = Portions(L, g)
    <2>1. LinesOf(K, g) = LinesOf(L, g) /\ \A i \in LinesOf(L, g) : K[i].qty = L[i].qty
      BY <1>1, <1>3 DEF LinesOf
    <2> QED BY <1>3, <2>1, SamePortions
  <1> QED BY <1>3, <1>4

-----------------------------------------------------------------------------
(* Sequences: an element appended, one replaced, all of them mapped.        *)

LEMMA SeqFrom ==
    ASSUME NEW S, NEW n \in Nat, NEW q \in [1..n -> S]
    PROVE  q \in Seq(S) /\ Len(q) = n /\ DOMAIN q = 1..n
  OBVIOUS

LEMMA SeqParts ==
    ASSUME NEW S, NEW q \in Seq(S)
    PROVE  /\ Len(q) \in Nat /\ DOMAIN q = 1..Len(q)
           /\ \A i \in DOMAIN q : q[i] \in S
  OBVIOUS

LEMMA SeqAppend ==
    ASSUME NEW S, NEW q \in Seq(S), NEW e \in S, NEW w, w = Append(q, e)
    PROVE  /\ w \in Seq(S) /\ Len(w) = Len(q) + 1
           /\ \A i \in DOMAIN q : w[i] = q[i]
           /\ w[Len(q) + 1] = e
           /\ DOMAIN w = DOMAIN q \union {Len(q) + 1} /\ Len(q) + 1 \notin DOMAIN q
  OBVIOUS

LEMMA SeqMap ==
    ASSUME NEW S, NEW q \in Seq(S), NEW w, w = [i \in DOMAIN w |-> w[i]],
           DOMAIN w = DOMAIN q, \A i \in DOMAIN q : w[i] \in S
    PROVE  w \in Seq(S) /\ Len(w) = Len(q)
  <1>1. w \in [1..Len(q) -> S]
    BY SeqParts
  <1> QED BY <1>1, SeqParts, SeqFrom

-----------------------------------------------------------------------------
(* The basket.                                                              *)

\* An order is numbered once the server has placed it.
RequestSound(r) == /\ r.state \in {"sent", "refused"} => r.order = 0
                   /\ r.state = "placed" => r.order \in DOMAIN orders

BasketType == CartTypeOK /\ tableToken \in Nat

\* Taps number the lines; twins are blurred; every dish that is not adds up.
BasketInv ==
    /\ BasketType
    /\ taps \in 0..MaxTaps /\ DOMAIN items \subseteq 1..taps
    /\ \A r \in DOMAIN requests : RequestSound(requests[r])
    /\ Twins(items) \subseteq blurred
    /\ BasketKept

LEMMA OrderedIs == \A g : Ordered(g) = OrderedIn(requests, g)
  BY DEF Ordered, OrderedIn, Told, MapThenFoldSet

LEMMA OrderedWillBe == \A g : Ordered(g)' = OrderedIn(requests', g)
  BY DEF Ordered, OrderedIn, Told, MapThenFoldSet

LEMMA PortionsWillBe == \A g : Portions(items, g)' = Portions(items', g)
  BY DEF Portions, MapThenFoldSet

LEMMA ToldFinite ==
    ASSUME NEW S, NEW sent \in Seq(S)
    PROVE  IsFiniteSet(Told(sent)) /\ IsFiniteSet(DOMAIN sent)
  <1>1. DOMAIN sent = 1..Len(sent) /\ Len(sent) \in Nat
    BY SeqParts
  <1>2. IsFiniteSet(DOMAIN sent)
    BY <1>1, FS_Interval
  <1> QED BY <1>2, FS_Subset DEF Told

\* Nothing is added up differently while the orders told of are the same ones.
LEMMA OrderedStays ==
    ASSUME NEW sent \in Seq(Request), NEW later \in Seq(Request), Told(later) = Told(sent),
           \A r \in Told(sent) : later[r].lines = sent[r].lines, NEW g
    PROVE  OrderedIn(later, g) = OrderedIn(sent, g) /\ OrderedIn(sent, g) \in Nat
  <1>1. \A r \in Told(later) : later[r].lines \in Lines
    <2>1. \A r \in DOMAIN later : later[r] \in Request
      BY SeqParts
    <2> QED BY <2>1 DEF Told, Request
  <1>2. IsFiniteSet(Told(later))
    BY ToldFinite
  <1> QED BY <1>1, <1>2, SameTold

LEMMA BasketInit == Init => BasketInv
  <1> SUFFICES ASSUME Init PROVE BasketInv
    OBVIOUS
  <1> USE DEF Init, CartInit
  <1>0. items \in Lines /\ DOMAIN items = {}
    <2>1. DOMAIN items = {} /\ items \in [{} -> Line] /\ {} \in SUBSET (1..MaxTaps)
      BY DEF NoLines
    <2> QED BY <2>1 DEF Lines
  <1>1. BasketType
    <2>1. requests \in Seq(Request) /\ orders \in Seq(Order) /\ Len(requests) = 0
      OBVIOUS
    <2>2. wanted \in [Foods -> Int] /\ blurred \subseteq Foods /\ mine \subseteq DOMAIN orders
      OBVIOUS
    <2>3. qrToken \in 0..tableToken /\ tableToken \in Nat
      OBVIOUS
    <2>4. pending \in 0..Len(requests)
      BY <2>1
    <2>5. page \in {"menu", "cart", "track"}
      OBVIOUS
    <2> QED BY <1>0, <2>1, <2>2, <2>3, <2>4, <2>5 DEF BasketType, CartTypeOK
  <1>2. taps \in 0..MaxTaps /\ DOMAIN items \subseteq 1..taps
    BY <1>0, CartBounds
  <1>3. Twins(items) \subseteq blurred
    BY <1>0 DEF Twins
  <1>4. \A r \in DOMAIN requests : RequestSound(requests[r])
    OBVIOUS
  <1>5. ASSUME NEW g \in Foods PROVE wanted[g] = Portions(items, g) + Ordered(g)
    <2>1. LinesOf(items, g) = {}
      BY <1>0 DEF LinesOf
    <2>2. Portions(items, g) = 0
      BY <1>0, <2>1, PortionsOf
    <2>3. Told(requests) = {}
      BY DEF Told
    <2>4. PICK h : h = [r \in Told(requests) |-> 0]
      OBVIOUS
    <2>5. IsFiniteSet(Told(requests))
      BY <2>3, FS_EmptySet
    <2>6. PICK u : Sums(h, u, Told(requests))
      BY <2>4, <2>5, SumsExist
    <2>7. \A r \in Told(requests) : h[r] = Portions(requests[r].lines, g) /\ h[r] \in Nat
      BY <2>3
    <2>8. OrderedIn(requests, g) = u[Told(requests)]
      BY <2>5, <2>6, <2>7, OrderedAddsUp
    <2>9. u[Told(requests)] = 0
      BY <2>3, <2>6 DEF Sums
    <2>10. Ordered(g) = 0
      BY <2>8, <2>9, OrderedIs
    <2> QED BY <2>2, <2>10
  <1>6. BasketKept
    BY <1>5 DEF BasketKept
  <1> QED BY <1>1, <1>2, <1>3, <1>4, <1>6 DEF BasketInv

\* A tap adds to the portions what it adds to what the guest asked for.
LEMMA TapKeeps ==
    ASSUME BasketInv, NEW f \in Foods, NEW K \in Lines, NEW p \in Int, Tap(K, f, p),
           DOMAIN K \subseteq 1..(taps + 1),
           \A g \in Foods \ (blurred \union Twins(K)) :
              (IF g = f THEN p - wanted[f] ELSE 0) = Portions(K, g) - Portions(items, g)
    PROVE  BasketInv'
  <1>0. BasketType /\ BasketKept /\ Twins(items) \subseteq blurred
    BY DEF BasketInv
  <1>1. /\ taps < MaxTaps /\ taps' = taps + 1 /\ items' = K
        /\ wanted' = [wanted EXCEPT ![f] = p]
        /\ blurred' = blurred \union Twins(K)
        /\ UNCHANGED <<page, qrToken, tableToken, requests, pending, orders, mine>>
    BY DEF Tap, kitchen
  <1>2. BasketType'
    <2>1. wanted' \in [Foods -> Int] /\ blurred' \subseteq Foods
      BY <1>0, <1>1 DEF BasketType, CartTypeOK, Twins
    <2> QED BY <1>0, <1>1, <2>1 DEF BasketType, CartTypeOK
  <1>3. taps' \in 0..MaxTaps /\ DOMAIN items' \subseteq 1..taps'
    BY <1>1, CartBounds DEF BasketInv
  <1>4. (\A r \in DOMAIN requests : RequestSound(requests[r]))'
    BY <1>1 DEF BasketInv, RequestSound
  <1>5. Twins(items') \subseteq blurred'
    BY <1>1
  <1>6. ASSUME NEW g \in Foods \ blurred' PROVE wanted'[g] = Portions(items, g)' + Ordered(g)'
    <2>1. g \in Foods \ (blurred \union Twins(K)) /\ g \notin blurred
      BY <1>1
    <2>2. wanted[g] = Portions(items, g) + Ordered(g)
      BY <1>0, <2>1 DEF BasketKept
    <2>3. (IF g = f THEN p - wanted[f] ELSE 0) = Portions(K, g) - Portions(items, g)
      BY <2>1
    <2>4. Portions(items, g)' = Portions(K, g) /\ Ordered(g)' = Ordered(g)
      BY <1>1, PortionsWillBe, OrderedIs, OrderedWillBe
    <2>5. Portions(K, g) \in Nat /\ Portions(items, g) \in Nat
      BY <1>0, PortionsOf DEF BasketType, CartTypeOK
    <2>6. Ordered(g) \in Nat
      BY <1>0, OrderedIs, OrderedStays DEF BasketType, CartTypeOK
    <2>7. wanted'[g] = IF g = f THEN p ELSE wanted[g]
      BY <1>0, <1>1 DEF BasketType, CartTypeOK
    <2>8. wanted[g] \in Int
      BY <1>0 DEF BasketType, CartTypeOK
    <2> QED BY <2>2, <2>3, <2>4, <2>5, <2>6, <2>7, <2>8
  <1>7. BasketKept'
    BY <1>6 DEF BasketKept
  <1>8. Twins(items)' = Twins(items')
    BY DEF Twins
  <1> QED BY <1>2, <1>3, <1>4, <1>5, <1>7, <1>8 DEF BasketInv

\* The taps.
Taps(f) == TapAdd(f) \/ TapMore(f) \/ TapLess(f) \/ TapRemove(f)
           \/ (\E n \in Notes : TypeNote(f, n))

LEMMA BasketTaps ==
    ASSUME BasketInv, NEW f \in Foods, Taps(f)
    PROVE  BasketInv'
  <1>0. /\ items \in Lines /\ wanted \in [Foods -> Int] /\ wanted[f] \in Int
        /\ taps \in Nat /\ DOMAIN items \subseteq 1..taps
        /\ Twins(items) \subseteq blurred
    BY CartBounds DEF BasketInv, BasketType, CartTypeOK
  <1>p. \A g : Portions(items, g) \in Nat
    BY <1>0, PortionsOf
  <1>1. CASE TapAdd(f)
    <2>1. PICK m : m = taps + 1
      OBVIOUS
    <2>2. PICK K : K = addItem(items, f, NoNote, m)
      OBVIOUS
    <2>3. PICK p : p = wanted[f] + 1
      OBVIOUS
    <2>4. Tap(K, f, p)
      BY <1>1, <2>1, <2>2, <2>3 DEF TapAdd
    <2>5. taps < MaxTaps
      BY <2>4 DEF Tap
    <2>6. m \in 1..MaxTaps /\ m \notin DOMAIN items
      BY <1>0, <2>1, <2>5, CartBounds
    <2>7. /\ K \in Lines /\ DOMAIN K \subseteq DOMAIN items \union {m}
          /\ \A g \in Foods \ Twins(K) :
                 Portions(K, g) = Portions(items, g) + IF g = f THEN 1 ELSE 0
      BY <1>0, <2>2, <2>6, AddCounts, NotesAssumption
    <2>8. DOMAIN K \subseteq 1..(taps + 1)
      BY <1>0, <2>1, <2>7
    <2>9. p \in Int /\ p - wanted[f] = 1
      BY <1>0, <2>3
    <2>10. ASSUME NEW g \in Foods \ (blurred \union Twins(K))
           PROVE  (IF g = f THEN p - wanted[f] ELSE 0) = Portions(K, g) - Portions(items, g)
      <3>1. Portions(K, g) = Portions(items, g) + IF g = f THEN 1 ELSE 0
        BY <2>7
      <3>2. Portions(items, g) \in Nat
        BY <1>p
      <3> QED BY <2>9, <3>1, <3>2
    <2> QED BY <2>4, <2>7, <2>8, <2>9, <2>10, TapKeeps
  <1>2. CASE TapMore(f)
    <2>2. PICK K : K = increase(items, f)
      OBVIOUS
    <2>3. PICK p : p = wanted[f] + 1
      OBVIOUS
    <2>4. Tap(K, f, p) /\ Portions(items, f) > 0
      BY <1>2, <2>2, <2>3 DEF TapMore, Stepper
    <2>7. /\ K \in Lines /\ DOMAIN K = DOMAIN items
          /\ \A g \in Foods \ Twins(K) :
                 Portions(K, g) = Portions(items, g) + IF g = f THEN 1 ELSE 0
      BY <1>0, <2>2, <2>4, IncreaseCounts
    <2>8. DOMAIN K \subseteq 1..(taps + 1)
      BY <1>0, <2>7
    <2>9. p \in Int /\ p - wanted[f] = 1
      BY <1>0, <2>3
    <2>10. ASSUME NEW g \in Foods \ (blurred \union Twins(K))
           PROVE  (IF g = f THEN p - wanted[f] ELSE 0) = Portions(K, g) - Portions(items, g)
      <3>1. Portions(K, g) = Portions(items, g) + IF g = f THEN 1 ELSE 0
        BY <2>7
      <3>2. Portions(items, g) \in Nat
        BY <1>p
      <3> QED BY <2>9, <3>1, <3>2
    <2> QED BY <2>4, <2>7, <2>8, <2>9, <2>10, TapKeeps
  <1>3. CASE TapLess(f)
    <2>2. PICK K : K = decrease(items, f)
      OBVIOUS
    <2>3. PICK p : p = wanted[f] - 1
      OBVIOUS
    <2>4. Tap(K, f, p) /\ Portions(items, f) > 0
      BY <1>3, <2>2, <2>3 DEF TapLess, Stepper
    <2>7. /\ K \in Lines /\ DOMAIN K \subseteq DOMAIN items
          /\ \A g \in Foods \ Twins(items) :
                 Portions(K, g) = Portions(items, g) - IF g = f THEN 1 ELSE 0
      BY <1>0, <2>2, <2>4, DecreaseCounts
    <2>8. DOMAIN K \subseteq 1..(taps + 1)
      BY <1>0, <2>7
    <2>9. p \in Int /\ p - wanted[f] = 0 - 1
      BY <1>0, <2>3
    <2>10. ASSUME NEW g \in Foods \ (blurred \union Twins(K))
           PROVE  (IF g = f THEN p - wanted[f] ELSE 0) = Portions(K, g) - Portions(items, g)
      <3>1. Portions(K, g) = Portions(items, g) - IF g = f THEN 1 ELSE 0
        BY <1>0, <2>7
      <3>2. Portions(items, g) \in Nat
        BY <1>p
      <3> QED BY <2>9, <3>1, <3>2
    <2> QED BY <2>4, <2>7, <2>8, <2>9, <2>10, TapKeeps
  <1>4. CASE TapRemove(f)
    <2>2. PICK K : K = removeItem(items, f)
      OBVIOUS
    <2>3. PICK p : p = wanted[f] - Portions(items, f)
      OBVIOUS
    <2>4. Tap(K, f, p)
      BY <1>4, <2>2, <2>3 DEF TapRemove
    <2>7. /\ K \in Lines /\ DOMAIN K \subseteq DOMAIN items
          /\ Portions(K, f) = 0
          /\ \A g : g # f => Portions(K, g) = Portions(items, g)
      BY <1>0, <2>2, RemoveCounts
    <2>8. DOMAIN K \subseteq 1..(taps + 1)
      BY <1>0, <2>7
    <2>9. p \in Int /\ p - wanted[f] = 0 - Portions(items, f)
      <3>1. Portions(items, f) \in Nat
        BY <1>p
      <3> QED BY <1>0, <2>3, <3>1
    <2>10. ASSUME NEW g \in Foods \ (blurred \union Twins(K))
           PROVE  (IF g = f THEN p - wanted[f] ELSE 0) = Portions(K, g) - Portions(items, g)
      <3>1. CASE g = f
        BY <2>7, <2>9, <3>1
      <3>2. CASE g # f
        <4>1. Portions(K, g) = Portions(items, g) /\ Portions(items, g) \in Nat
          BY <1>p, <2>7, <3>2
        <4> QED BY <3>2, <4>1
      <3> QED BY <3>1, <3>2
    <2> QED BY <2>4, <2>7, <2>8, <2>9, <2>10, TapKeeps
  <1>5. CASE \E n \in Notes : TypeNote(f, n)
    <2>1. PICK n \in Notes : TypeNote(f, n)
      BY <1>5
    <2>2. PICK K : K = setNotes(items, f, n)
      OBVIOUS
    <2>3. PICK p : p = wanted[f]
      OBVIOUS
    <2>4. Tap(K, f, p)
      BY <2>1, <2>2, <2>3 DEF TypeNote
    <2>7. /\ K \in Lines /\ DOMAIN K = DOMAIN items
          /\ \A g : Portions(K, g) = Portions(items, g)
      BY <1>0, <2>2, NotesCount
    <2>8. DOMAIN K \subseteq 1..(taps + 1)
      BY <1>0, <2>7
    <2>9. p \in Int /\ p - wanted[f] = 0
      BY <1>0, <2>3
    <2>10. ASSUME NEW g \in Foods \ (blurred \union Twins(K))
           PROVE  (IF g = f THEN p - wanted[f] ELSE 0) = Portions(K, g) - Portions(items, g)
      <3>1. Portions(K, g) = Portions(items, g) /\ Portions(items, g) \in Nat
        BY <1>p, <2>7
      <3> QED BY <2>9, <3>1
    <2> QED BY <2>4, <2>7, <2>8, <2>9, <2>10, TapKeeps
  <1> QED BY <1>1, <1>2, <1>3, <1>4, <1>5 DEF Taps

\* One request moves on; its lines, its order and the others stay as they are.
States == {"sent", "placed", "refused", "settled"}
LEMMA StateMoves ==
    ASSUME NEW sent \in Seq(Request), NEW r \in DOMAIN sent, NEW st \in States,
           NEW later, later = [sent EXCEPT ![r].state = st]
    PROVE  /\ later \in Seq(Request) /\ DOMAIN later = DOMAIN sent /\ Len(later) = Len(sent)
           /\ \A i \in DOMAIN sent : i # r => later[i] = sent[i]
           /\ later[r].state = st /\ later[r].lines = sent[r].lines
           /\ later[r].order = sent[r].order
  <1>1. sent[r] \in Request /\ \A i \in DOMAIN sent : sent[i] \in Request
    BY SeqParts
  <1>2. DOMAIN later = DOMAIN sent /\ later = [i \in DOMAIN later |-> later[i]]
    OBVIOUS
  <1>3. \A i \in DOMAIN sent : i # r => later[i] = sent[i]
    OBVIOUS
  <1>4. later[r] = [sent[r] EXCEPT !.state = st]
    OBVIOUS
  <1>5. /\ later[r] \in Request /\ later[r].state = st /\ later[r].lines = sent[r].lines
        /\ later[r].order = sent[r].order
    BY <1>1, <1>4 DEF Request, States
  <1>6. \A i \in DOMAIN sent : later[i] \in Request
    BY <1>1, <1>3, <1>5
  <1> QED BY <1>2, <1>3, <1>5, <1>6, SeqMap

\* A step that touches no line, no history and no order told of.
LEMMA BasketStands ==
    ASSUME BasketInv, BasketType', UNCHANGED <<items, wanted, taps>>, blurred \subseteq blurred',
           Told(requests') = Told(requests),
           \A r \in Told(requests) : requests'[r].lines = requests[r].lines,
           (\A r \in DOMAIN requests : RequestSound(requests[r]))'
    PROVE  BasketInv'
  <1>1. BasketType /\ BasketKept /\ Twins(items) \subseteq blurred
    BY DEF BasketInv
  <1>2. requests \in Seq(Request) /\ requests' \in Seq(Request)
    BY <1>1 DEF BasketType, CartTypeOK
  <1>3. ASSUME NEW g \in Foods \ blurred' PROVE wanted'[g] = Portions(items, g)' + Ordered(g)'
    <2>1. wanted[g] = Portions(items, g) + Ordered(g)
      BY <1>1 DEF BasketKept
    <2>2. Portions(items, g)' = Portions(items, g)
      BY PortionsWillBe
    <2>3. OrderedIn(requests', g) = OrderedIn(requests, g)
      BY <1>2, OrderedStays
    <2>4. Ordered(g)' = Ordered(g)
      BY <2>3, OrderedIs, OrderedWillBe
    <2> QED BY <2>1, <2>2, <2>4
  <1>4. BasketKept'
    BY <1>3 DEF BasketKept
  <1>5. (Twins(items) \subseteq blurred)'
    BY <1>1 DEF Twins
  <1>6. (taps \in 0..MaxTaps /\ DOMAIN items \subseteq 1..taps)'
    BY DEF BasketInv
  <1> QED BY <1>4, <1>5, <1>6 DEF BasketInv

\* The same, when the requests are not touched.
LEMMA BasketStill ==
    ASSUME BasketInv, BasketType', UNCHANGED <<cart, requests>>,
           DOMAIN orders \subseteq DOMAIN orders'
    PROVE  BasketInv'
  <1>1. UNCHANGED <<items, wanted, taps>> /\ blurred \subseteq blurred'
    BY DEF cart
  <1>2. (\A r \in DOMAIN requests : RequestSound(requests[r]))'
    BY DEF BasketInv, RequestSound
  <1>3. Told(requests') = Told(requests)
    OBVIOUS
  <1>4. \A r \in Told(requests) : requests'[r].lines = requests[r].lines
    OBVIOUS
  <1> QED BY <1>1, <1>2, <1>3, <1>4, BasketStands

LEMMA BasketGo ==
    ASSUME BasketInv, (\E p \in {"menu", "cart"} : Go(p)) \/ Scan
    PROVE  BasketInv'
  <1>1. BasketType
    BY DEF BasketInv
  <1>2. /\ UNCHANGED <<cart, kitchen, requests, orders, mine>>
        /\ page' \in {"menu", "cart"} /\ pending' = 0
        /\ qrToken' \in {qrToken, tableToken}
    BY DEF Go, Scan
  <1>3. BasketType'
    <2>1. Len(requests) \in Nat /\ Len(requests') = Len(requests)
      BY <1>1, <1>2, SeqParts DEF BasketType, CartTypeOK
    <2>2. pending' \in 0..Len(requests')
      BY <1>2, <2>1
    <2>3. qrToken' \in 0..tableToken' /\ tableToken' \in Nat
      BY <1>1, <1>2 DEF BasketType, CartTypeOK, kitchen
    <2> QED BY <1>1, <1>2, <2>2, <2>3 DEF BasketType, CartTypeOK, cart
  <1> QED BY <1>2, <1>3, BasketStill

LEMMA BasketReload ==
    ASSUME BasketInv, Reload
    PROVE  BasketInv'
  <1>1. BasketType
    BY DEF BasketInv
  <1>2. /\ UNCHANGED <<page, items, wanted, blurred, taps, qrToken, tableToken, orders, mine>>
        /\ pending' = 0
        /\ requests' = [r \in DOMAIN requests |-> [requests[r] EXCEPT !.heard = FALSE]]
    BY DEF Reload, cart, kitchen
  <1>3. \A r \in DOMAIN requests : requests[r] \in Request
    BY <1>1, SeqParts DEF BasketType, CartTypeOK
  <1>4. DOMAIN requests' = DOMAIN requests
        /\ requests' = [r \in DOMAIN requests' |-> requests'[r]]
    BY <1>2
  <1>5. ASSUME NEW r \in DOMAIN requests
        PROVE  /\ requests'[r] \in Request /\ requests'[r].lines = requests[r].lines
               /\ requests'[r].state = requests[r].state /\ requests'[r].order = requests[r].order
    <2>1. requests'[r] = [requests[r] EXCEPT !.heard = FALSE]
      BY <1>2
    <2> QED BY <1>3, <2>1 DEF Request
  <1>6. requests' \in Seq(Request) /\ Len(requests') = Len(requests)
    <2>1. requests \in Seq(Request)
      BY <1>1 DEF BasketType, CartTypeOK
    <2>2. PICK w : w = requests'
      OBVIOUS
    <2>3. w \in Seq(Request) /\ Len(w) = Len(requests)
      BY <1>4, <1>5, <2>1, <2>2, SeqMap
    <2> QED BY <2>2, <2>3
  <1>7. BasketType'
    <2>1. Len(requests') \in Nat
      BY <1>6, SeqParts
    <2>2. pending' \in 0..Len(requests')
      BY <1>2, <2>1
    <2> QED BY <1>1, <1>2, <1>6, <2>2 DEF BasketType, CartTypeOK
  <1>8. Told(requests') = Told(requests)
    BY <1>4, <1>5 DEF Told
  <1>9. \A r \in Told(requests) : requests'[r].lines = requests[r].lines
    BY <1>5 DEF Told
  <1>10. (\A r \in DOMAIN requests : RequestSound(requests[r]))'
    <2>1. \A r \in DOMAIN requests : RequestSound(requests[r])
      BY DEF BasketInv
    <2> QED BY <1>2, <1>4, <1>5, <2>1 DEF RequestSound
  <1>11. UNCHANGED <<items, wanted, taps>> /\ blurred \subseteq blurred'
    BY <1>2
  <1> QED BY <1>7, <1>8, <1>9, <1>10, <1>11, BasketStands

LEMMA BasketSubmit ==
    ASSUME BasketInv, Submit
    PROVE  BasketInv'
  <1>1. BasketType /\ requests \in Seq(Request) /\ items \in Lines /\ qrToken \in Nat
    BY DEF BasketInv, BasketType, CartTypeOK
  <1>2. PICK e : e = [lines |-> items, token |-> qrToken, heard |-> TRUE,
                      order |-> 0, state |-> "sent"]
    OBVIOUS
  <1>3. e \in Request /\ e.state = "sent" /\ e.order = 0
    BY <1>1, <1>2 DEF Request
  <1>4. /\ requests' = Append(requests, e) /\ pending' = Len(requests) + 1
        /\ UNCHANGED <<page, items, wanted, blurred, taps, qrToken, tableToken, orders, mine>>
    BY <1>2 DEF Submit, cart, kitchen
  <1>5. /\ requests' \in Seq(Request) /\ Len(requests') = Len(requests) + 1
        /\ \A i \in DOMAIN requests : requests'[i] = requests[i]
        /\ requests'[Len(requests) + 1] = e
        /\ DOMAIN requests' = DOMAIN requests \union {Len(requests) + 1}
        /\ Len(requests) + 1 \notin DOMAIN requests
    <2>1. PICK w : w = requests'
      OBVIOUS
    <2>2. /\ w \in Seq(Request) /\ Len(w) = Len(requests) + 1
          /\ \A i \in DOMAIN requests : w[i] = requests[i]
          /\ w[Len(requests) + 1] = e
          /\ DOMAIN w = DOMAIN requests \union {Len(requests) + 1}
          /\ Len(requests) + 1 \notin DOMAIN requests
      BY <1>1, <1>3, <1>4, <2>1, SeqAppend
    <2> QED BY <2>1, <2>2
  <1>6. BasketType'
    <2>1. Len(requests) \in Nat
      BY <1>1, SeqParts
    <2>2. pending' \in 0..Len(requests')
      BY <1>4, <1>5, <2>1
    <2> QED BY <1>1, <1>4, <1>5, <2>2 DEF BasketType, CartTypeOK
  <1>7. Told(requests') = Told(requests)
    BY <1>3, <1>5 DEF Told
  <1>8. \A r \in Told(requests) : requests'[r].lines = requests[r].lines
    BY <1>5 DEF Told
  <1>9. (\A r \in DOMAIN requests : RequestSound(requests[r]))'
    <2>1. \A r \in DOMAIN requests : RequestSound(requests[r])
      BY DEF BasketInv
    <2> QED BY <1>3, <1>4, <1>5, <2>1 DEF RequestSound
  <1>10. UNCHANGED <<items, wanted, taps>> /\ blurred \subseteq blurred'
    BY <1>4
  <1> QED BY <1>6, <1>7, <1>8, <1>9, <1>10, BasketStands

LEMMA BasketHouse ==
    ASSUME BasketInv, RunTheHouse
    PROVE  BasketInv'
  <1>1. BasketType
    BY DEF BasketInv
  <1>2. /\ UNCHANGED <<page, cart, qrToken, requests, pending, orders, mine>>
        /\ tableToken' \in {tableToken, tableToken + 1}
    BY DEF RunTheHouse, rotateQrToken, StopOrders, SellOut
  <1>3. BasketType'
    BY <1>1, <1>2 DEF BasketType, CartTypeOK, cart
  <1> QED BY <1>2, <1>3, BasketStill

\* A request that ends without an order: refused, or the guest told that it was.
LEMMA BasketPlace ==
    ASSUME BasketInv, NEW r \in DOMAIN requests, placeOrder(r) \/ RequestLost(r)
    PROVE  BasketInv'
  <1>1. /\ BasketType /\ requests \in Seq(Request) /\ orders \in Seq(Order)
        /\ requests[r] \in Request /\ mine \subseteq DOMAIN orders
    BY SeqParts DEF BasketInv, BasketType, CartTypeOK
  <1>2. /\ UNCHANGED <<page, items, wanted, blurred, taps, qrToken, tableToken, pending, mine>>
        /\ requests[r].state = "sent"
    BY DEF placeOrder, RequestLost, cart, kitchen
  <1>3. /\ \A i \in DOMAIN requests : RequestSound(requests[i])
        /\ requests[r].order = 0
    BY <1>2 DEF BasketInv, RequestSound
  <1>4. CASE requests' = [requests EXCEPT ![r].state = "refused"] /\ UNCHANGED orders
    <2>1. PICK w : w = requests'
      OBVIOUS
    <2>2. /\ w \in Seq(Request) /\ DOMAIN w = DOMAIN requests /\ Len(w) = Len(requests)
          /\ \A i \in DOMAIN requests : i # r => w[i] = requests[i]
          /\ w[r].state = "refused" /\ w[r].lines = requests[r].lines
          /\ w[r].order = requests[r].order
      <3>1. requests \in Seq(Request) /\ w = [requests EXCEPT ![r].state = "refused"]
        BY <1>1, <1>4, <2>1
      <3>2. "refused" \in States
        BY DEF States
      <3> QED BY <3>1, <3>2, StateMoves
    <2>3. BasketType'
      BY <1>1, <1>2, <1>4, <2>1, <2>2 DEF BasketType, CartTypeOK
    <2>4. Told(requests') = Told(requests)
      BY <1>2, <2>1, <2>2 DEF Told
    <2>5. \A i \in Told(requests) : requests'[i].lines = requests[i].lines
      BY <2>1, <2>2 DEF Told
    <2>6. (\A i \in DOMAIN requests : RequestSound(requests[i]))'
      BY <1>3, <1>4, <2>1, <2>2 DEF RequestSound
    <2>7. UNCHANGED <<items, wanted, taps>> /\ blurred \subseteq blurred'
      BY <1>2
    <2> QED BY <2>3, <2>4, <2>5, <2>6, <2>7, BasketStands
  <1>5. ASSUME NEW st \in {"NEEDS_APPROVAL", "AWAITING_ADVANCE_PAYMENT", "PENDING"},
               orders' = Append(orders, [lines |-> requests[r].lines, status |-> st]),
               requests' = [requests EXCEPT ![r].state = "placed", ![r].order = Len(orders) + 1]
        PROVE  BasketInv'
    <2>1. PICK e : e = [lines |-> requests[r].lines, status |-> st]
      OBVIOUS
    <2>2. e \in Order
      BY <1>1, <1>5, <2>1 DEF Order, Request
    <2>3. PICK q : q = orders'
      OBVIOUS
    <2>4. q \in Seq(Order) /\ DOMAIN q = DOMAIN orders \union {Len(orders) + 1}
      BY <1>1, <1>5, <2>1, <2>2, <2>3, SeqAppend
    <2>5. PICK w : w = requests'
      OBVIOUS
    <2>6. Len(orders) \in Nat
      BY <1>1, SeqParts
    <2>7. /\ DOMAIN w = DOMAIN requests /\ w = [i \in DOMAIN w |-> w[i]]
          /\ \A i \in DOMAIN requests : i # r => w[i] = requests[i]
          /\ w[r] = [requests[r] EXCEPT !.state = "placed", !.order = Len(orders) + 1]
      BY <1>5, <2>5
    <2>8. w[r] \in Request /\ w[r].state = "placed" /\ w[r].order = Len(orders) + 1
      <3>1. PICK o : o = Len(orders) + 1
        OBVIOUS
      <3>2. o \in Nat
        BY <2>6, <3>1
      <3>3. w[r] = [requests[r] EXCEPT !.state = "placed", !.order = o]
        BY <2>7, <3>1
      <3>4. requests[r] \in Request
        BY <1>1
      <3>5. w[r] \in Request /\ w[r].state = "placed" /\ w[r].order = o
        BY <3>2, <3>3, <3>4 DEF Request
      <3> QED BY <3>1, <3>5
    <2>9. \A i \in DOMAIN requests : w[i] \in Request
      BY <1>1, <2>7, <2>8, SeqParts
    <2>10. w \in Seq(Request) /\ Len(w) = Len(requests)
      BY <1>1, <2>7, <2>9, SeqMap
    <2>11. BasketType'
      BY <1>1, <1>2, <2>3, <2>4, <2>5, <2>10 DEF BasketType, CartTypeOK
    <2>12. Told(requests') = Told(requests)
      <3>1. DOMAIN requests' = DOMAIN requests /\ \A i \in DOMAIN requests :
               IF i = r THEN requests'[i].state = "placed" ELSE requests'[i] = requests[i]
        BY <2>5, <2>7, <2>8
      <3> QED BY <1>2, <3>1 DEF Told
    <2>13. \A i \in Told(requests) : requests'[i].lines = requests[i].lines
      BY <1>2, <2>5, <2>7 DEF Told
    <2>14. (\A i \in DOMAIN requests : RequestSound(requests[i]))'
      <3>1. w[r].state = "placed" /\ w[r].order \in DOMAIN q
        BY <2>4, <2>8
      <3>2. \A i \in DOMAIN requests : i # r => w[i] = requests[i]
        BY <2>7
      <3>3. DOMAIN w = DOMAIN requests /\ DOMAIN orders \subseteq DOMAIN q
        BY <2>4, <2>7
      <3> QED BY <1>3, <2>3, <2>5, <3>1, <3>2, <3>3 DEF RequestSound
    <2>15. UNCHANGED <<items, wanted, taps>> /\ blurred \subseteq blurred'
      BY <1>2
    <2> QED BY <2>11, <2>12, <2>13, <2>14, <2>15, BasketStands
  <1>6. CASE RequestLost(r)
    BY <1>4, <1>6 DEF RequestLost
  <1>7. CASE placeOrder(r)
    BY <1>4, <1>5, <1>7 DEF placeOrder
  <1> QED BY <1>6, <1>7

\* The answer: one more order told of, with the dishes it blurs.
LEMMA BasketAnswer ==
    ASSUME BasketInv, NEW r \in DOMAIN requests, onPlaced(r) \/ onRefused(r) \/ AnswerLost(r)
    PROVE  BasketInv'
  <1>1. /\ BasketType /\ requests \in Seq(Request) /\ requests[r] \in Request
        /\ items \in Lines /\ requests[r].lines \in Lines /\ wanted \in [Foods -> Int]
    <2>1. BasketType /\ requests \in Seq(Request) /\ items \in Lines /\ wanted \in [Foods -> Int]
      BY DEF BasketInv, BasketType, CartTypeOK
    <2>2. requests[r] \in Request
      BY <2>1, SeqParts
    <2> QED BY <2>1, <2>2 DEF Request
  <1>2. /\ requests' = [requests EXCEPT ![r].state = "settled"]
        /\ UNCHANGED <<wanted, taps, qrToken, tableToken, orders>>
        /\ requests[r].state \in {"placed", "refused"}
        /\ pending' \in {0, pending} /\ page' \in {page, "track"}
        /\ mine' \in {mine, mine \union {requests[r].order}}
    BY DEF onPlaced, onRefused, AnswerLost, Settle, Idle, cart, kitchen
  <1>3. \A i \in DOMAIN requests : RequestSound(requests[i])
    BY DEF BasketInv
  <1>4. PICK w : w = requests'
    OBVIOUS
  <1>5. /\ w \in Seq(Request) /\ DOMAIN w = DOMAIN requests /\ Len(w) = Len(requests)
        /\ \A i \in DOMAIN requests : i # r => w[i] = requests[i]
        /\ w[r].state = "settled" /\ w[r].lines = requests[r].lines
        /\ w[r].order = requests[r].order
    BY <1>1, <1>2, <1>4, StateMoves DEF States
  <1>6. (\A i \in DOMAIN requests : RequestSound(requests[i]))'
    BY <1>2, <1>3, <1>4, <1>5 DEF RequestSound
  <1>7. Len(requests) \in Nat /\ pending' \in 0..Len(requests')
    <2>1. Len(requests) \in Nat /\ pending \in 0..Len(requests)
      BY <1>1, SeqParts DEF BasketType, CartTypeOK
    <2> QED BY <1>2, <1>4, <1>5, <2>1
  <1>8. \A i \in Told(requests) : w[i].lines = requests[i].lines
    BY <1>5 DEF Told
  <1>9. CASE onRefused(r)
    <2>1. /\ UNCHANGED <<page, items, blurred, mine>> /\ requests[r].state = "refused"
      BY <1>9 DEF onRefused, cart
    <2>2. requests[r].order = 0
      BY <1>3, <2>1 DEF RequestSound
    <2>3. Told(requests') = Told(requests)
      BY <1>4, <1>5, <2>1, <2>2 DEF Told
    <2>4. BasketType'
      BY <1>1, <1>2, <1>4, <1>5, <1>7, <2>1 DEF BasketType, CartTypeOK
    <2>5. UNCHANGED <<items, wanted, taps>> /\ blurred \subseteq blurred'
      BY <1>2, <2>1
    <2> QED BY <1>4, <1>6, <1>8, <2>3, <2>4, <2>5, BasketStands
  <1>10. CASE onPlaced(r) \/ AnswerLost(r)
    <2>1. requests[r].state = "placed"
      BY <1>10 DEF onPlaced, AnswerLost
    <2>2. requests[r].order # 0 /\ requests[r].order \in DOMAIN orders
      <3>1. requests[r].order \in DOMAIN orders
        BY <1>3, <2>1 DEF RequestSound
      <3>2. DOMAIN orders = 1..Len(orders) /\ Len(orders) \in Nat
        BY <1>1, SeqParts DEF BasketType, CartTypeOK
      <3> QED BY <3>1, <3>2
    <2>3. Told(w) = Told(requests) \union {r} /\ r \notin Told(requests)
      BY <1>4, <1>5, <2>1, <2>2 DEF Told
    <2>4. IsFiniteSet(Told(w))
      BY <1>5, ToldFinite
    <2>5. \A k \in Told(w) : w[k].lines \in Lines
      <3>1. \A k \in DOMAIN w : w[k] \in Request
        BY <1>5, SeqParts
      <3> QED BY <3>1 DEF Told, Request
    <2>6. PICK sent : sent = requests
      OBVIOUS
    <2>7. \A g : /\ OrderedIn(w, g) = Portions(w[r].lines, g) + OrderedIn(requests, g)
                 /\ OrderedIn(requests, g) \in Nat
      <3> SUFFICES ASSUME NEW g
                   PROVE  /\ OrderedIn(w, g) = Portions(w[r].lines, g) + OrderedIn(sent, g)
                          /\ OrderedIn(sent, g) \in Nat
        BY <2>6
      <3>1. Told(w) = Told(sent) \union {r} /\ r \notin Told(sent)
        BY <2>3, <2>6
      <3>2. \A k \in Told(sent) : w[k].lines = sent[k].lines
        BY <1>8, <2>6
      <3>3. PICK p : p = Portions(w[r].lines, g)
        OBVIOUS
      <3> QED BY <2>4, <2>5, <3>1, <3>2, <3>3, OneMoreTold
    <2>8. \A g : /\ Ordered(g)' = Portions(requests[r].lines, g) + Ordered(g)
                 /\ Ordered(g) \in Nat
      BY <1>4, <1>5, <2>7, OrderedIs, OrderedWillBe
    <2>9. CASE onPlaced(r)
      <3>1. /\ items' = NoLines /\ page' = "track" /\ pending' = 0
            /\ mine' = mine \union {requests[r].order}
            /\ blurred' = blurred \union
                  {f \in Foods : Portions(items, f) # Portions(requests[r].lines, f)}
        BY <2>9 DEF onPlaced
      <3>2. items' \in Lines /\ DOMAIN items' = {}
        <4>1. NoLines \in [{} -> Line] /\ DOMAIN NoLines = {} /\ {} \in SUBSET (1..MaxTaps)
          BY DEF NoLines
        <4> QED BY <3>1, <4>1 DEF Lines
      <3>3. BasketType'
        BY <1>1, <1>2, <1>4, <1>5, <1>7, <2>2, <3>1, <3>2 DEF BasketType, CartTypeOK
      <3>4. ASSUME NEW g \in Foods \ blurred'
            PROVE  wanted'[g] = Portions(items, g)' + Ordered(g)'
        <4>1. g \notin blurred /\ Portions(items, g) = Portions(requests[r].lines, g)
          BY <3>1
        <4>2. wanted[g] = Portions(items, g) + Ordered(g)
          BY <4>1 DEF BasketInv, BasketKept
        <4>3. Portions(items, g)' = 0
          <5>1. PICK k : k = items'
            OBVIOUS
          <5>2. k \in Lines /\ LinesOf(k, g) = {}
            BY <3>2, <5>1 DEF LinesOf
          <5>3. Portions(k, g) = 0
            BY <5>2, PortionsOf
          <5> QED BY <5>1, <5>3, PortionsWillBe
        <4>4. Portions(items, g) \in Nat /\ Ordered(g) \in Nat
          BY <1>1, <2>8, PortionsOf
        <4>5. Ordered(g)' = Portions(requests[r].lines, g) + Ordered(g)
          BY <2>8
        <4> QED BY <1>2, <4>1, <4>2, <4>3, <4>4, <4>5
      <3>5. BasketKept'
        BY <3>4 DEF BasketKept
      <3>6. (Twins(items) \subseteq blurred)'
        BY <3>2 DEF Twins
      <3>7. (taps \in 0..MaxTaps /\ DOMAIN items \subseteq 1..taps)'
        BY <1>2, <3>2 DEF BasketInv
      <3> QED BY <1>6, <3>3, <3>5, <3>6, <3>7 DEF BasketInv
    <2>10. CASE AnswerLost(r)
      <3>1. /\ UNCHANGED <<page, items, mine>>
            /\ blurred' = blurred \union Dishes(requests[r].lines)
        BY <2>10 DEF AnswerLost
      <3>2. BasketType'
        <4>1. Dishes(requests[r].lines) \subseteq Foods
          <5>1. PICK k : k = requests[r].lines
            OBVIOUS
          <5>3. k \in Lines
            BY <1>1, <5>1
          <5>4. \A i \in DOMAIN k : k[i] \in Line
            BY <5>3, LinesFinite
          <5> QED BY <5>1, <5>4 DEF Dishes, Line
        <4> QED BY <1>1, <1>2, <1>4, <1>5, <1>7, <3>1, <4>1 DEF BasketType, CartTypeOK
      <3>3. ASSUME NEW g \in Foods \ blurred'
            PROVE  wanted'[g] = Portions(items, g)' + Ordered(g)'
        <4>1. g \notin blurred /\ g \notin Dishes(requests[r].lines)
          BY <3>1
        <4>2. wanted[g] = Portions(items, g) + Ordered(g)
          BY <4>1 DEF BasketInv, BasketKept
        <4>3. LinesOf(requests[r].lines, g) = {}
          BY <4>1 DEF LinesOf, Dishes
        <4>4. Portions(requests[r].lines, g) = 0
          BY <1>1, <4>3, PortionsOf
        <4>5. Portions(items, g)' = Portions(items, g)
          BY <3>1, PortionsWillBe
        <4>6. Ordered(g)' = Portions(requests[r].lines, g) + Ordered(g) /\ Ordered(g) \in Nat
          BY <2>8
        <4>7. Ordered(g)' = Ordered(g)
          BY <4>4, <4>6
        <4> QED BY <1>2, <4>2, <4>5, <4>7
      <3>4. BasketKept'
        BY <3>3 DEF BasketKept
      <3>5. (Twins(items) \subseteq blurred)'
        BY <3>1 DEF Twins, BasketInv
      <3>6. (taps \in 0..MaxTaps /\ DOMAIN items \subseteq 1..taps)'
        BY <1>2, <3>1 DEF BasketInv
      <3> QED BY <1>6, <3>2, <3>4, <3>5, <3>6 DEF BasketInv
    <2> QED BY <1>10, <2>9, <2>10
  <1> QED BY <1>9, <1>10

-----------------------------------------------------------------------------
(* The payments: their types.                                               *)

PayType ==
    /\ gatewayLive \in BOOLEAN /\ uiLive \in BOOLEAN
    /\ sheet \in Sheet
    /\ calls \in Seq(Call) /\ rows \in Seq(Row)
    /\ receipt \in 0..Len(rows)

\* What an order has paid is a number.
LEMMA CollectedNat ==
    ASSUME NEW R \in Seq(Row), NEW o
    PROVE  collectedMinor(R, o) \in Nat
  <1> DEFINE S == {r \in DOMAIN R : R[r].order = o /\ R[r].status = "SUCCESS"}
             Fits(g) == g = [s \in SUBSET S |-> IF s = {} THEN 0
                               ELSE LET x == CHOOSE x \in s : TRUE
                                    IN  R[x].amount + g[s \ {x}]]
             it == CHOOSE g : Fits(g)
  <1>1. collectedMinor(R, o) = it[S]
    BY DEF collectedMinor, MapThenFoldSet
  <1>2. PICK h : h = [r \in S |-> R[r].amount]
    OBVIOUS
  <1>3. IsFiniteSet(S)
    <2>1. DOMAIN R = 1..Len(R) /\ Len(R) \in Nat
      BY SeqParts
    <2>2. IsFiniteSet(DOMAIN R)
      BY <2>1, FS_Interval
    <2>3. S \in SUBSET (DOMAIN R)
      OBVIOUS
    <2> HIDE DEF S
    <2> QED BY <2>2, <2>3, FS_Subset
  <1>4. \A r \in S : h[r] \in Nat
    <2>1. \A r \in DOMAIN R : R[r] \in Row
      BY SeqParts
    <2>2. \A r \in DOMAIN R : R[r].amount \in Nat
      BY <2>1 DEF Row
    <2> QED BY <1>2, <2>2
  <1>5. PICK g : Folds(h, g, S)
    BY <1>3, FoldExists
  <1>6. ASSUME NEW k PROVE Fits(k) <=> Folds(h, k, S)
    <2>1. ASSUME NEW s \in SUBSET S
          PROVE  After(h, k, s) = IF s = {} THEN 0
                               ELSE LET x == CHOOSE x \in s : TRUE
                                    IN  R[x].amount + k[s \ {x}]
      <3>1. s # {} => Chosen(s) \in S
        BY DEF Chosen
      <3> HIDE DEF S
      <3>2. s # {} => h[Chosen(s)] = R[Chosen(s)].amount
        BY <1>2, <3>1
      <3> QED BY <3>2 DEF After, Chosen
    <2> QED BY <2>1 DEF Folds
  <1>7. Folds(h, it, S)
    <2> HIDE DEF Fits
    <2>1. \E k : Fits(k)
      BY <1>5, <1>6
    <2>2. Fits(it)
      BY <2>1
    <2> HIDE DEF it
    <2> QED BY <1>6, <2>2
  <1> HIDE DEF it
  <1>8. Sums(h, it, S)
    BY <1>3, <1>4, <1>7, FoldSums
  <1>9. it[S] \in Nat
    BY <1>8 DEF Sums
  <1> QED BY <1>1, <1>9

\* What is still due, when anything is, is one unit or two.
LEMMA DueIsAnAmount ==
    ASSUME NEW o, rows \in Seq(Row), ~Refused(o)
    PROVE  Due(o) \in {1, 2}
  <1>1. PICK n : n = collectedMinor(rows, o)
    OBVIOUS
  <1>2. n \in Nat
    BY <1>1, CollectedNat
  <1>3. PICK b \in {1, 2} : Due(o) = b - n
    BY <1>1 DEF Due
  <1>4. ~(Due(o) <= 0)
    BY DEF Refused
  <1>5. ~(b - n <= 0)
    BY <1>3, <1>4
  <1>6. b - n \in {1, 2}
    BY <1>2, <1>5
  <1> QED BY <1>3, <1>6

-----------------------------------------------------------------------------
(* The rest of the visit leaves the basket alone.                           *)

Statuses == {"NEEDS_APPROVAL", "AWAITING_ADVANCE_PAYMENT", "PENDING", "CANCELLED"}
LEMMA StatusSet ==
    ASSUME NEW q \in Seq(Order), NEW o, NEW st \in Statuses,
           NEW w, w = [q EXCEPT ![o].status = st]
    PROVE  w \in Seq(Order) /\ DOMAIN w = DOMAIN q
  <1>1. \A i \in DOMAIN q : q[i] \in Order
    BY SeqParts
  <1>2. DOMAIN w = DOMAIN q /\ w = [i \in DOMAIN w |-> w[i]]
    OBVIOUS
  <1>3. ASSUME NEW i \in DOMAIN q PROVE w[i] \in Order
    <2>1. w[i] = q[i] \/ w[i] = [q[i] EXCEPT !.status = st]
      OBVIOUS
    <2> QED BY <1>1, <2>1 DEF Order, Statuses
  <1> QED BY <1>2, <1>3, SeqMap

LEMMA BasketVisit ==
    ASSUME BasketInv, UNCHANGED <<cart, qrToken, kitchen, requests>>,
           page' \in {page, "menu", "track"}, pending' \in {pending, 0}, mine' \subseteq mine,
           orders' \in Seq(Order), DOMAIN orders' = DOMAIN orders
    PROVE  BasketInv'
  <1>1. BasketType'
    <2>1. BasketType /\ requests \in Seq(Request)
      BY DEF BasketInv, BasketType, CartTypeOK
    <2>2. Len(requests) \in Nat
      BY <2>1, SeqParts
    <2>3. pending' \in 0..Len(requests')
      BY <2>1, <2>2 DEF BasketType, CartTypeOK
    <2> QED BY <2>1, <2>3 DEF BasketType, CartTypeOK, cart, kitchen
  <1> QED BY <1>1, BasketStill

LEMMA BasketOrdersMove ==
    ASSUME BasketInv, UNCHANGED <<cart, qrToken, kitchen, requests, pending>>,
           page' \in {page, "menu"}, mine' \subseteq mine, NEW o, NEW st \in Statuses,
           orders' \in {orders, [orders EXCEPT ![o].status = st]}
    PROVE  BasketInv'
  <1>1. orders \in Seq(Order)
    BY DEF BasketInv, BasketType, CartTypeOK
  <1>2. PICK w : w = [orders EXCEPT ![o].status = st]
    OBVIOUS
  <1>3. w \in Seq(Order) /\ DOMAIN w = DOMAIN orders
    BY <1>1, <1>2, StatusSet
  <1>4. orders' \in Seq(Order) /\ DOMAIN orders' = DOMAIN orders
    BY <1>1, <1>2, <1>3
  <1> QED BY <1>4, BasketVisit

LEMMA BasketPay ==
    ASSUME BasketInv, PayNext
    PROVE  BasketInv'
  <1>0. orders \in Seq(Order)
    BY DEF BasketInv, BasketType, CartTypeOK
  <1>1. ASSUME UNCHANGED cartButFaults PROVE BasketInv'
    BY <1>0, <1>1, BasketVisit DEF cartButFaults
  <1>2. CASE \/ \E o \in DOMAIN orders : \E f \in {"page", "dialog"} : OpenSheet(o, f)
             \/ SettingsArrive \/ validateFormAndPay \/ TapTile \/ DemoTimer
             \/ CancelWaiting \/ CloseSheet \/ Dismiss \/ updateSettings
    <2>1. UNCHANGED cartButFaults
      BY <1>2 DEF cartVars, cartButFaults, OpenSheet, SettingsArrive, validateFormAndPay, TapTile,
         DemoTimer, CancelWaiting, CloseSheet, Dismiss, updateSettings
    <2> QED BY <1>1, <2>1
  <1>3. CASE \E c \in DOMAIN calls : \/ initiateOnlinePayment(c) \/ openRazorpayCheckout(c)
                                     \/ CallLost(c) \/ Answer(c)
    <2>1. UNCHANGED cartButFaults
      BY <1>3 DEF cartVars, cartButFaults, initiateOnlinePayment, openRazorpayCheckout,
         CallLost, Answer
    <2> QED BY <1>1, <2>1
  <1>4. CASE LeaveTracking
    <2>1. (\E p \in {"menu", "cart"} : Go(p)) \/ Scan
      BY <1>4 DEF LeaveTracking
    <2> QED BY <2>1, BasketGo
  <1>5. CASE ReloadTracking
    BY <1>5, BasketReload DEF ReloadTracking
  <1>6. CASE TrackAgain
    <2>1. /\ UNCHANGED <<cart, qrToken, kitchen, requests, orders, mine>>
          /\ page' = "track" /\ pending' = 0
      BY <1>6 DEF TrackAgain
    <2> QED BY <1>0, <2>1, BasketVisit
  <1>7. ASSUME NEW o \in DOMAIN orders, cancelHeldOrderByToken(o) PROVE BasketInv'
    <2>1. /\ UNCHANGED <<cart, qrToken, kitchen, requests, pending>>
          /\ page' = "menu" /\ mine' \subseteq mine
          /\ orders' = [orders EXCEPT ![o].status = "CANCELLED"]
      BY <1>7 DEF cancelHeldOrderByToken
    <2>2. "CANCELLED" \in Statuses
      BY DEF Statuses
    <2> QED BY <2>1, <2>2, BasketOrdersMove
  <1>8. ASSUME NEW o \in DOMAIN orders, approveOrder(o) PROVE BasketInv'
    <2>1. PICK st \in {"AWAITING_ADVANCE_PAYMENT", "PENDING"} :
             /\ UNCHANGED <<cart, qrToken, kitchen, requests, pending, page, mine>>
             /\ orders' = [orders EXCEPT ![o].status = st]
      BY <1>8 DEF approveOrder
    <2>2. st \in Statuses
      BY DEF Statuses
    <2> QED BY <2>1, <2>2, BasketOrdersMove
  <1>9. ASSUME NEW R, NEW o, orders' \in {orders, Released(R, o)},
               UNCHANGED <<page, cart, qrToken, kitchen, requests, pending, mine>>
        PROVE  BasketInv'
    <2>1. orders' \in {orders, [orders EXCEPT ![o].status = "PENDING"]}
      BY <1>9 DEF Released
    <2>2. "PENDING" \in Statuses
      BY DEF Statuses
    <2> QED BY <1>9, <2>1, <2>2, BasketOrdersMove
  <1>10. ASSUME NEW c \in DOMAIN calls, confirmOnlinePayment(c) PROVE BasketInv'
    <2>1. /\ UNCHANGED <<page, cart, qrToken, kitchen, requests, pending, mine>>
          /\ \E p \in {"mock", "razorpay"} : UNCHANGED orders \/ Book(calls[c].row, p)
      BY <1>10 DEF confirmOnlinePayment
    <2>2. PICK p \in {"mock", "razorpay"} : UNCHANGED orders \/ Book(calls[c].row, p)
      BY <2>1
    <2>3. PICK R : R = [rows EXCEPT ![calls[c].row].status = "SUCCESS", ![calls[c].row].by = p]
      OBVIOUS
    <2>4. PICK o : o = rows[calls[c].row].order
      OBVIOUS
    <2>5. orders' \in {orders, Released(R, o)}
      BY <2>2, <2>3, <2>4 DEF Book
    <2> QED BY <1>9, <2>1, <2>5
  <1>11. ASSUME NEW r \in DOMAIN rows, handleRazorpayWebhook(r) PROVE BasketInv'
    <2>1. /\ UNCHANGED <<page, cart, qrToken, kitchen, requests, pending, mine>>
          /\ Book(r, "razorpay")
      BY <1>11 DEF handleRazorpayWebhook
    <2>3. PICK R : R = [rows EXCEPT ![r].status = "SUCCESS", ![r].by = "razorpay"]
      OBVIOUS
    <2>4. PICK o : o = rows[r].order
      OBVIOUS
    <2>5. orders' \in {orders, Released(R, o)}
      BY <2>1, <2>3, <2>4 DEF Book
    <2> QED BY <1>9, <2>1, <2>5
  <1> QED BY <1>2, <1>3, <1>4, <1>5, <1>6, <1>7, <1>8, <1>10, <1>11 DEF PayNext

LEMMA BasketCart ==
    ASSUME BasketInv, CartNext
    PROVE  BasketInv'
  <1>1. ASSUME NEW f \in Foods, TapAdd(f) \/ TapMore(f) \/ TapLess(f) \/ TapRemove(f)
                                \/ (\E n \in Notes : TypeNote(f, n))
        PROVE  BasketInv'
    BY <1>1, BasketTaps DEF Taps
  <1>2. ASSUME Ordering PROVE BasketInv'
    BY <1>2, BasketPlace, BasketAnswer DEF Ordering
  <1> QED BY <1>1, <1>2, BasketGo, BasketReload, BasketSubmit, BasketHouse DEF CartNext

LEMMA BasketStep == BasketInv /\ [Next]_vars => BasketInv'
  <1> SUFFICES ASSUME BasketInv, [Next]_vars PROVE BasketInv'
    OBVIOUS
  <1>1. CASE CartNext
    BY <1>1, BasketCart
  <1>2. CASE RunTheHouse \/ Ordering
    <2>1. CartNext
      BY <1>2 DEF CartNext
    <2> QED BY <2>1, BasketCart
  <1>3. CASE PayNext
    BY <1>3, BasketPay
  <1>4. CASE UNCHANGED vars
    <2>1. orders \in Seq(Order)
      BY DEF BasketInv, BasketType, CartTypeOK
    <2>2. UNCHANGED <<page, cart, qrToken, kitchen, requests, pending, orders, mine>>
      BY <1>4 DEF vars, cartVars
    <2> QED BY <2>1, <2>2, BasketVisit
  <1> QED BY <1>1, <1>2, <1>3, <1>4 DEF Next

\* What the guest asked for is in the cart or in an order they were told of, once,
\* whatever the dishes, notes, taps, orders and faults (CartContext, CustomerCart's
\* mutation, placeOrder), but for the dishes the code blurs.
THEOREM BasketAlwaysKept == Spec => []BasketKept
  <1>1. BasketInv => BasketKept
    BY DEF BasketInv
  <1> QED BY <1>1, BasketInit, BasketStep, PTL DEF Spec

-----------------------------------------------------------------------------
(* The calls and the rows they speak of.                                    *)

\* What a call's stage says of its row.
CallSound(k, R) ==
    /\ k.row \in 0..Len(R)
    /\ k.stage = "start" => k.row = 0
    /\ k.stage \in {"gateway", "confirm", "paid"} => k.row # 0
    /\ k.stage = "paid" => R[k.row].status = "SUCCESS"
    /\ k.stage = "gateway" => k.kind = "live" /\ ~R[k.row].captured
    /\ k.stage = "confirm" /\ k.kind = "live" => R[k.row].captured

AllSound(C, R) == \A c \in DOMAIN C : CallSound(C[c], R)

\* No two payments through the gateway share a row.
OnGateway(k)    == k.kind = "live" /\ k.row # 0
RowsApart(C)    == \A c, d \in DOMAIN C :
                      c # d /\ OnGateway(C[c]) /\ OnGateway(C[d]) => C[c].row # C[d].row
RowsAreMoney(R) == \A r \in DOMAIN R : R[r].status = "SUCCESS" =>
                      R[r].captured \/ R[r].by = "mock"

PayInv ==
    /\ PayType
    /\ AllSound(calls, rows) /\ RowsApart(calls) /\ RowsAreMoney(rows)
    /\ sheet.intent \in 0..Len(rows)
    /\ PaidScreenIsPaid

LEMMA PayInit == Init => PayInv
  <1> SUFFICES ASSUME Init PROVE PayInv
    OBVIOUS
  <1>1. calls = <<>> /\ rows = <<>> /\ sheet = Closed /\ receipt = 0
        /\ gatewayLive \in BOOLEAN /\ uiLive = FALSE
    BY DEF Init
  <1>2. calls \in Seq(Call) /\ rows \in Seq(Row) /\ Len(rows) = 0
        /\ DOMAIN calls = {} /\ DOMAIN rows = {}
    BY <1>1
  <1>3. sheet \in Sheet /\ sheet.intent = 0
    BY <1>1 DEF Closed, Sheet
  <1>4. PayType
    <2>1. receipt \in 0..Len(rows)
      BY <1>1, <1>2
    <2> QED BY <1>1, <1>2, <1>3, <2>1 DEF PayType
  <1> QED BY <1>1, <1>2, <1>3, <1>4
      DEF PayInv, AllSound, RowsApart, RowsAreMoney, PaidScreenIsPaid

LEMMA CallsAre ==
    ASSUME PayType
    PROVE  /\ \A c \in DOMAIN calls : calls[c] \in Call
           /\ \A r \in DOMAIN rows : rows[r] \in Row
           /\ Len(rows) \in Nat /\ DOMAIN rows = 1..Len(rows) /\ 0 \notin DOMAIN rows
  BY SeqParts DEF PayType

\* One call moves on to a stage; the others stay.
Stages == {"start", "gateway", "confirm", "paid", "failed", "done"}
LEMMA StageMoves ==
    ASSUME NEW q \in Seq(Call), NEW x \in DOMAIN q, NEW to \in Stages,
           NEW w, w = [q EXCEPT ![x].stage = to]
    PROVE  /\ w \in Seq(Call) /\ DOMAIN w = DOMAIN q
           /\ \A i \in DOMAIN q : i # x => w[i] = q[i]
           /\ w[x].stage = to /\ w[x].row = q[x].row /\ w[x].kind = q[x].kind
  <1>1. q[x] \in Call /\ \A i \in DOMAIN q : q[i] \in Call
    BY SeqParts
  <1>2. DOMAIN w = DOMAIN q /\ w = [i \in DOMAIN w |-> w[i]]
    OBVIOUS
  <1>3. \A i \in DOMAIN q : i # x => w[i] = q[i]
    OBVIOUS
  <1>4. w[x] = [q[x] EXCEPT !.stage = to]
    OBVIOUS
  <1>5. w[x] \in Call /\ w[x].stage = to /\ w[x].row = q[x].row /\ w[x].kind = q[x].kind
    BY <1>1, <1>4 DEF Call, Stages
  <1>6. \A i \in DOMAIN q : w[i] \in Call
    BY <1>1, <1>3, <1>5
  <1> QED BY <1>2, <1>3, <1>5, <1>6, SeqMap

\* A call stays sound while its row keeps a booking and, on the gateway, its money.
LEMMA CallStands ==
    ASSUME NEW k \in Call, NEW R, NEW S, CallSound(k, R), Len(R) \in Nat, Len(S) \in Nat,
           Len(R) <= Len(S),
           k.row # 0 /\ R[k.row].status = "SUCCESS" => S[k.row].status = "SUCCESS",
           OnGateway(k) => S[k.row].captured = R[k.row].captured
    PROVE  CallSound(k, S)
  <1>1. k.row \in 0..Len(S)
    BY DEF CallSound, Call
  <1> QED BY <1>1 DEF CallSound, OnGateway

\* Rows that keep what they book, hold and were booked by.
RowsKeep(R, S) ==
    /\ Len(R) <= Len(S)
    /\ \A r \in DOMAIN R : /\ R[r].status = "SUCCESS" => S[r].status = "SUCCESS"
                           /\ S[r].captured = R[r].captured

LEMMA CallsStand ==
    ASSUME NEW C \in Seq(Call), NEW R \in Seq(Row), NEW S \in Seq(Row), AllSound(C, R),
           RowsKeep(R, S)
    PROVE  AllSound(C, S)
  <1> SUFFICES ASSUME NEW c \in DOMAIN C PROVE CallSound(C[c], S)
    BY DEF AllSound
  <1>1. C[c] \in Call /\ CallSound(C[c], R)
    BY SeqParts DEF AllSound
  <1>2. Len(R) \in Nat /\ Len(S) \in Nat /\ DOMAIN R = 1..Len(R) /\ Len(R) <= Len(S)
    BY SeqParts DEF RowsKeep
  <1>3. C[c].row # 0 => C[c].row \in DOMAIN R
    BY <1>1, <1>2 DEF CallSound
  <1>4. C[c].row # 0 => /\ R[C[c].row].status = "SUCCESS" => S[C[c].row].status = "SUCCESS"
                        /\ S[C[c].row].captured = R[C[c].row].captured
    BY <1>3 DEF RowsKeep
  <1>5. OnGateway(C[c]) => S[C[c].row].captured = R[C[c].row].captured
    BY <1>4 DEF OnGateway
  <1> QED BY <1>1, <1>2, <1>4, <1>5, CallStands

\* Calls that keep their kind and their row stay apart.
LEMMA StayApart ==
    ASSUME NEW C, NEW D, RowsApart(C), DOMAIN D = DOMAIN C,
           \A i \in DOMAIN C : D[i].row = C[i].row /\ D[i].kind = C[i].kind
    PROVE  RowsApart(D)
  BY DEF RowsApart, OnGateway

\* What a call needs to move on to a stage.
Reaches(k, st, R) ==
    \/ st \in {"failed", "done"}
    \/ st = "confirm" /\ k.row # 0 /\ R[k.row].captured
    \/ st = "paid" /\ k.row # 0 /\ R[k.row].status = "SUCCESS"

\* One call moves on, the rows being as they are.
LEMMA CallMoves ==
    ASSUME PayInv, NEW c \in DOMAIN calls, NEW st \in Stages,
           calls' = [calls EXCEPT ![c].stage = st],
           NEW S \in Seq(Row), AllSound(calls, S),
           Reaches(calls[c], st, S)
    PROVE  calls' \in Seq(Call) /\ AllSound(calls', S) /\ RowsApart(calls')
  <1>1. calls \in Seq(Call) /\ calls[c] \in Call /\ RowsApart(calls)
    BY CallsAre DEF PayInv, PayType
  <1>2. PICK D : D = calls'
    OBVIOUS
  <1>3. /\ D \in Seq(Call) /\ DOMAIN D = DOMAIN calls
        /\ \A i \in DOMAIN calls : i # c => D[i] = calls[i]
        /\ D[c].stage = st /\ D[c].row = calls[c].row /\ D[c].kind = calls[c].kind
    <2>1. PICK e : e = [calls[c] EXCEPT !.stage = st]
      OBVIOUS
    <2>2. /\ e \in Call /\ e.stage = st /\ e.row = calls[c].row /\ e.kind = calls[c].kind
      BY <1>1, <2>1 DEF Call, Stages
    <2>3. /\ DOMAIN D = DOMAIN calls /\ D = [i \in DOMAIN D |-> D[i]] /\ D[c] = e
          /\ \A i \in DOMAIN calls : i # c => D[i] = calls[i]
      BY <1>1, <1>2, <2>1
    <2>4. \A i \in DOMAIN calls : D[i] \in Call
      BY <1>1, <2>2, <2>3, SeqParts
    <2>5. D \in Seq(Call)
      BY <1>1, <2>3, <2>4, SeqMap
    <2> QED BY <2>2, <2>3, <2>5
  <1>4. RowsApart(D)
    BY <1>1, <1>3, StayApart
  <1>5. CallSound(D[c], S)
    <2>1. CallSound(calls[c], S)
      BY DEF AllSound
    <2> QED BY <1>3, <2>1 DEF CallSound, Reaches
  <1>6. \A i \in DOMAIN calls : i # c => CallSound(D[i], S)
    BY <1>3 DEF AllSound
  <1>7. AllSound(D, S)
    BY <1>3, <1>5, <1>6 DEF AllSound
  <1> QED BY <1>2, <1>3, <1>4, <1>7

\* A step that touches no row.
LEMMA PayRowsStill ==
    ASSUME PayInv, UNCHANGED rows, gatewayLive' \in BOOLEAN, uiLive' \in BOOLEAN,
           sheet' \in Sheet, sheet'.intent \in 0..Len(rows),
           calls' \in Seq(Call), AllSound(calls', rows), RowsApart(calls'),
           receipt' \in 0..Len(rows), receipt' # 0 => rows[receipt'].status = "SUCCESS"
    PROVE  PayInv'
  BY DEF PayInv, PayType, PaidScreenIsPaid

LEMMA SheetIs ==
    ASSUME PayInv
    PROVE  sheet \in Sheet /\ sheet.intent \in 0..Len(rows) /\ 0 \in 0..Len(rows)
  <1>1. PayType /\ sheet.intent \in 0..Len(rows) /\ sheet \in Sheet
    BY DEF PayInv, PayType
  <1>2. Len(rows) \in Nat
    BY <1>1, CallsAre
  <1>3. 0 \in 0..Len(rows)
    BY <1>2
  <1> QED BY <1>1, <1>3

\* A sheet opened, waiting, or closed keeps its intent or drops it.
LEMMA SheetMoves ==
    ASSUME PayInv,
           \/ sheet' \in {sheet, Closed}
           \/ \E a \in BOOLEAN : sheet' = [sheet EXCEPT !.authorizing = a]
           \/ sheet' = [sheet EXCEPT !.authorizing = TRUE, !.intent = 0]
           \/ \E o \in Nat, f \in {"page", "dialog"}, m \in Nat :
                 sheet' = [Closed EXCEPT !.order = o, !.from = f, !.mount = m]
    PROVE  sheet' \in Sheet /\ sheet'.intent \in 0..Len(rows)
  <1>1. sheet \in Sheet /\ sheet.intent \in 0..Len(rows) /\ 0 \in 0..Len(rows)
    BY SheetIs
  <1>2. Closed \in Sheet /\ Closed.intent = 0
    BY DEF Closed, Sheet
  <1>3. CASE sheet' \in {sheet, Closed}
    BY <1>1, <1>2, <1>3
  <1>4. ASSUME NEW a \in BOOLEAN, sheet' = [sheet EXCEPT !.authorizing = a]
        PROVE  sheet' \in Sheet /\ sheet'.intent = sheet.intent
    BY <1>1, <1>4 DEF Sheet
  <1>5. ASSUME sheet' = [sheet EXCEPT !.authorizing = TRUE, !.intent = 0]
        PROVE  sheet' \in Sheet /\ sheet'.intent = 0
    BY <1>1, <1>5 DEF Sheet
  <1>6. ASSUME NEW o \in Nat, NEW f \in {"page", "dialog"}, NEW m \in Nat,
               sheet' = [Closed EXCEPT !.order = o, !.from = f, !.mount = m]
        PROVE  sheet' \in Sheet /\ sheet'.intent = 0
    BY <1>2, <1>6 DEF Sheet
  <1> QED BY <1>1, <1>3, <1>4, <1>5, <1>6

\* A mutation begins.
LEMMA CallBegins ==
    ASSUME PayInv, NEW k \in {"demo", "live"}, NEW st \in {"start", "confirm"},
           NEW r \in 0..Len(rows), Calling(k, st, r),
           st = "start" => r = 0, st = "confirm" => k = "demo" /\ r # 0
    PROVE  calls' \in Seq(Call) /\ AllSound(calls', rows) /\ RowsApart(calls')
  <1>1. /\ calls \in Seq(Call) /\ sheet \in Sheet /\ Len(rows) \in Nat
        /\ AllSound(calls, rows) /\ RowsApart(calls)
    BY CallsAre DEF PayInv, PayType
  <1>2. PICK e : e = [kind |-> k, order |-> sheet.order, mount |-> sheet.mount,
                      from |-> sheet.from, stage |-> st, row |-> r, heard |-> TRUE]
    OBVIOUS
  <1>3. e \in Call
    BY <1>1, <1>2 DEF Call, Sheet
  <1>4. CallSound(e, rows) /\ ~OnGateway(e)
    BY <1>1, <1>2 DEF CallSound, OnGateway
  <1>5. PICK D : D = calls'
    OBVIOUS
  <1>6. /\ D \in Seq(Call) /\ \A i \in DOMAIN calls : D[i] = calls[i]
        /\ D[Len(calls) + 1] = e /\ DOMAIN D = DOMAIN calls \union {Len(calls) + 1}
    <2>1. D = Append(calls, e)
      BY <1>2, <1>5 DEF Calling
    <2> QED BY <1>1, <1>3, <2>1, SeqAppend
  <1>7. AllSound(D, rows)
    BY <1>1, <1>4, <1>6 DEF AllSound
  <1>8. RowsApart(D)
    BY <1>1, <1>4, <1>6 DEF RowsApart
  <1> QED BY <1>5, <1>6, <1>7, <1>8

LEMMA CallsNow ==
    ASSUME PayInv
    PROVE  calls \in Seq(Call) /\ AllSound(calls, rows) /\ RowsApart(calls)
  BY DEF PayInv, PayType

LEMMA ReceiptNow ==
    ASSUME PayInv
    PROVE  /\ receipt \in 0..Len(rows) /\ 0 \in 0..Len(rows)
           /\ receipt # 0 => rows[receipt].status = "SUCCESS"
           /\ gatewayLive \in BOOLEAN /\ uiLive \in BOOLEAN
  <1>1. Len(rows) \in Nat
    BY CallsAre DEF PayInv
  <1>2. 0 \in 0..Len(rows)
    BY <1>1
  <1> QED BY <1>2 DEF PayInv, PayType, PaidScreenIsPaid

LEMMA PayStill ==
    ASSUME PayInv, UNCHANGED payVars
    PROVE  PayInv'
  BY DEF PayInv, PayType, PaidScreenIsPaid, payVars

\* The sheet: opened, tapped, left waiting, closed.
LEMMA PaySheet ==
    ASSUME PayInv, orders \in Seq(Order),
           \/ \E o \in DOMAIN orders : \E f \in {"page", "dialog"} : OpenSheet(o, f)
           \/ SettingsArrive \/ validateFormAndPay \/ TapTile \/ DemoTimer
           \/ CancelWaiting \/ CloseSheet \/ Dismiss
    PROVE  PayInv'
  <1>1. /\ sheet \in Sheet /\ sheet.intent \in 0..Len(rows) /\ 0 \in 0..Len(rows)
    BY SheetIs
  <1>2. CASE UNCHANGED <<gatewayLive, calls, rows>> /\ receipt' \in {receipt, 0}
             /\ uiLive' \in BOOLEAN
             /\ (\/ sheet' \in {sheet, Closed}
                 \/ \E a \in BOOLEAN : sheet' = [sheet EXCEPT !.authorizing = a])
    <2>1. sheet' \in Sheet /\ sheet'.intent \in 0..Len(rows)
      BY <1>2, SheetMoves
    <2>2. calls' \in Seq(Call) /\ AllSound(calls', rows) /\ RowsApart(calls')
      BY <1>2, CallsNow
    <2>3. receipt' \in 0..Len(rows) /\ (receipt' # 0 => rows[receipt'].status = "SUCCESS")
          /\ gatewayLive' \in BOOLEAN
      BY <1>2, ReceiptNow
    <2>4. UNCHANGED rows /\ uiLive' \in BOOLEAN
      BY <1>2
    <2> QED BY <2>1, <2>2, <2>3, <2>4, PayRowsStill
  <1>3. ASSUME NEW o \in DOMAIN orders, NEW f \in {"page", "dialog"}, OpenSheet(o, f)
        PROVE  PayInv'
    <2>1. PICK m : m = Mount
      OBVIOUS
    <2>2. o \in Nat /\ m \in Nat
      BY <2>1, SeqParts, CallsNow DEF Mount
    <2>3. sheet' = [Closed EXCEPT !.order = o, !.from = f, !.mount = m]
      BY <1>3, <2>1 DEF OpenSheet
    <2>4. sheet' \in Sheet /\ sheet'.intent \in 0..Len(rows)
      BY <2>2, <2>3, SheetMoves
    <2>5. UNCHANGED <<gatewayLive, uiLive, calls, rows, receipt>>
      BY <1>3 DEF OpenSheet
    <2>6. calls' \in Seq(Call) /\ AllSound(calls', rows) /\ RowsApart(calls')
      BY <2>5, CallsNow
    <2>7. receipt' \in 0..Len(rows) /\ (receipt' # 0 => rows[receipt'].status = "SUCCESS")
          /\ gatewayLive' \in BOOLEAN /\ uiLive' \in BOOLEAN
      BY <2>5, ReceiptNow
    <2> QED BY <2>4, <2>5, <2>6, <2>7, PayRowsStill
  <1>4. CASE SettingsArrive \/ TapTile \/ CancelWaiting \/ CloseSheet \/ Dismiss
    <2>1. UNCHANGED <<gatewayLive, calls, rows>> /\ receipt' \in {receipt, 0}
      BY <1>4 DEF SettingsArrive, TapTile, CancelWaiting, CloseSheet, Dismiss
    <2>2. uiLive' \in {uiLive, gatewayLive}
      BY <1>4 DEF SettingsArrive, TapTile, CancelWaiting, CloseSheet, Dismiss
    <2>3. \/ sheet' \in {sheet, Closed}
          \/ \E a \in BOOLEAN : sheet' = [sheet EXCEPT !.authorizing = a]
      BY <1>4 DEF SettingsArrive, TapTile, CancelWaiting, CloseSheet, Dismiss
    <2>4. uiLive' \in BOOLEAN
      BY <2>2, ReceiptNow
    <2> QED BY <1>2, <2>1, <2>3, <2>4
  <1>5. ASSUME NEW k \in {"demo", "live"}, NEW st \in {"start", "confirm"},
               NEW r \in 0..Len(rows), Calling(k, st, r),
               st = "start" => r = 0, st = "confirm" => k = "demo" /\ r # 0,
               UNCHANGED <<gatewayLive, uiLive, rows, receipt>>,
               sheet' \in Sheet, sheet'.intent \in 0..Len(rows)
        PROVE  PayInv'
    <2>1. calls' \in Seq(Call) /\ AllSound(calls', rows) /\ RowsApart(calls')
      BY <1>5, CallBegins
    <2>2. receipt' \in 0..Len(rows) /\ (receipt' # 0 => rows[receipt'].status = "SUCCESS")
          /\ gatewayLive' \in BOOLEAN /\ uiLive' \in BOOLEAN
      BY <1>5, ReceiptNow
    <2> QED BY <1>5, <2>1, <2>2, PayRowsStill
  <1>6. CASE validateFormAndPay
    <2>1. UNCHANGED <<gatewayLive, uiLive, rows, receipt>>
      BY <1>6 DEF validateFormAndPay
    <2>2. CASE uiLive
      <3>1. Calling("live", "start", 0)
            /\ sheet' = [sheet EXCEPT !.authorizing = TRUE, !.intent = 0]
        BY <1>6, <2>2 DEF validateFormAndPay
      <3>2. sheet' \in Sheet /\ sheet'.intent \in 0..Len(rows)
        BY <3>1, SheetMoves
      <3> QED BY <1>1, <1>5, <2>1, <3>1, <3>2
    <2>3. CASE ~uiLive
      <3>1. sheet' = [sheet EXCEPT !.authorizing = TRUE] /\ UNCHANGED calls
        BY <1>6, <2>3 DEF validateFormAndPay
      <3>2. uiLive' \in BOOLEAN
        BY <2>1, ReceiptNow
      <3> QED BY <1>2, <2>1, <3>1, <3>2
    <2> QED BY <2>2, <2>3
  <1>7. CASE DemoTimer
    <2>1. UNCHANGED <<gatewayLive, uiLive, rows, receipt, sheet>>
      BY <1>7 DEF DemoTimer
    <2>2. sheet' \in Sheet /\ sheet'.intent \in 0..Len(rows)
      BY <1>1, <2>1
    <2>3. PICK r : r = sheet.intent
      OBVIOUS
    <2>4. PICK st \in {"start", "confirm"} :
              st = IF sheet.intent = 0 THEN "start" ELSE "confirm"
      OBVIOUS
    <2>5. Calling("demo", st, r)
      BY <1>7, <2>3, <2>4 DEF DemoTimer
    <2>6. r \in 0..Len(rows) /\ (st = "start" => r = 0) /\ (st = "confirm" => r # 0)
      BY <1>1, <2>3, <2>4
    <2> QED BY <1>5, <2>1, <2>2, <2>5, <2>6
  <1> QED BY <1>3, <1>4, <1>6, <1>7

\* Leaving the page: the calls go on unheard.
LEMMA PayAway ==
    ASSUME PayInv, Away, uiLive' \in BOOLEAN
    PROVE  PayInv'
  <1>1. /\ sheet' = Closed /\ receipt' = 0 /\ UNCHANGED <<gatewayLive, rows>>
        /\ calls' = [c \in DOMAIN calls |-> [calls[c] EXCEPT !.heard = FALSE]]
    BY DEF Away, Unheard
  <1>2. calls \in Seq(Call) /\ AllSound(calls, rows) /\ RowsApart(calls)
        /\ \A c \in DOMAIN calls : calls[c] \in Call
    <2>1. calls \in Seq(Call) /\ AllSound(calls, rows) /\ RowsApart(calls)
      BY CallsNow
    <2> QED BY <2>1, SeqParts
  <1>3. PICK D : D = calls'
    OBVIOUS
  <1>4. DOMAIN D = DOMAIN calls /\ D = [c \in DOMAIN D |-> D[c]]
    BY <1>1, <1>3
  <1>5. ASSUME NEW c \in DOMAIN calls
        PROVE  /\ D[c] \in Call /\ D[c].kind = calls[c].kind /\ D[c].row = calls[c].row
               /\ D[c].stage = calls[c].stage
    <2>1. D[c] = [calls[c] EXCEPT !.heard = FALSE]
      BY <1>1, <1>3
    <2> QED BY <1>2, <2>1 DEF Call
  <1>6. D \in Seq(Call)
    BY <1>2, <1>4, <1>5, SeqMap
  <1>7. AllSound(D, rows)
    BY <1>2, <1>4, <1>5 DEF AllSound, CallSound
  <1>8. RowsApart(D)
    BY <1>2, <1>4, <1>5, StayApart
  <1>9. sheet' \in Sheet /\ sheet'.intent \in 0..Len(rows)
    BY <1>1, SheetMoves
  <1>10. receipt' \in 0..Len(rows) /\ (receipt' # 0 => rows[receipt'].status = "SUCCESS")
         /\ gatewayLive' \in BOOLEAN
    BY <1>1, ReceiptNow
  <1>11. calls' \in Seq(Call) /\ AllSound(calls', rows) /\ RowsApart(calls')
    BY <1>3, <1>6, <1>7, <1>8
  <1> QED BY <1>1, <1>9, <1>10, <1>11, PayRowsStill

\* A call that ends without touching a row: lost, refused, or answered.
LEMMA PayEnds ==
    ASSUME PayInv, NEW c \in DOMAIN calls, NEW st \in {"failed", "done"},
           calls' = [calls EXCEPT ![c].stage = st],
           UNCHANGED <<gatewayLive, uiLive, rows>>,
           \/ sheet' \in {sheet, Closed}
           \/ \E a \in BOOLEAN : sheet' = [sheet EXCEPT !.authorizing = a],
           receipt' \in {receipt, calls[c].row}, calls[c].stage = "paid" \/ receipt' = receipt
    PROVE  PayInv'
  <1>1. calls' \in Seq(Call) /\ AllSound(calls', rows) /\ RowsApart(calls')
    <2>1. st \in Stages /\ Reaches(calls[c], st, rows)
      BY DEF Stages, Reaches
    <2>2. rows \in Seq(Row) /\ AllSound(calls, rows)
      BY DEF PayInv, PayType
    <2> QED BY <2>1, <2>2, CallMoves
  <1>2. sheet' \in Sheet /\ sheet'.intent \in 0..Len(rows)
    BY SheetMoves
  <1>3. receipt' \in 0..Len(rows) /\ (receipt' # 0 => rows[receipt'].status = "SUCCESS")
    <2>1. CASE receipt' = receipt
      BY <2>1, ReceiptNow
    <2>2. CASE calls[c].stage = "paid" /\ receipt' = calls[c].row
      <3>1. CallSound(calls[c], rows)
        BY CallsNow DEF AllSound
      <3> QED BY <2>2, <3>1 DEF CallSound
    <2> QED BY <2>1, <2>2
  <1>4. gatewayLive' \in BOOLEAN /\ uiLive' \in BOOLEAN
    BY ReceiptNow
  <1> QED BY <1>1, <1>2, <1>3, <1>4, PayRowsStill

\* The rows as they will be.
LEMMA PayRowsMove ==
    ASSUME PayInv, NEW S \in Seq(Row), rows' = S, UNCHANGED <<gatewayLive, uiLive, receipt>>,
           Len(rows) <= Len(S),
           \A i \in DOMAIN rows : rows[i].status = "SUCCESS" => S[i].status = "SUCCESS",
           RowsAreMoney(S), sheet' \in Sheet, sheet'.intent \in 0..Len(S),
           calls' \in Seq(Call), AllSound(calls', S), RowsApart(calls')
    PROVE  PayInv'
  <1>1. /\ receipt \in 0..Len(rows) /\ (receipt # 0 => rows[receipt].status = "SUCCESS")
        /\ gatewayLive' \in BOOLEAN /\ uiLive' \in BOOLEAN
    BY ReceiptNow
  <1>2. Len(rows) \in Nat /\ DOMAIN rows = 1..Len(rows) /\ Len(S) \in Nat
    <2>1. Len(rows) \in Nat /\ DOMAIN rows = 1..Len(rows)
      BY CallsAre DEF PayInv
    <2> QED BY <2>1, SeqParts
  <1>3. receipt' \in 0..Len(S) /\ (receipt' # 0 => S[receipt'].status = "SUCCESS")
    BY <1>1, <1>2
  <1>4. PayType'
    BY <1>1, <1>3 DEF PayType
  <1> QED BY <1>3, <1>4 DEF PayInv, PaidScreenIsPaid

LEMMA RowMoves ==
    ASSUME NEW q \in Seq(Row), NEW y \in DOMAIN q, NEW n \in Row, NEW w, DOMAIN w = DOMAIN q,
           w = [i \in DOMAIN w |-> w[i]], w[y] = n, \A i \in DOMAIN q : i # y => w[i] = q[i]
    PROVE  w \in Seq(Row) /\ Len(w) = Len(q)
  <1>1. \A i \in DOMAIN q : w[i] \in Row
    BY SeqParts
  <1> QED BY <1>1, SeqMap

RowsNow == /\ rows \in Seq(Row) /\ RowsAreMoney(rows)
           /\ Len(rows) \in Nat /\ DOMAIN rows = 1..Len(rows)
           /\ \A i \in DOMAIN rows : rows[i] \in Row

LEMMA RowsAre == PayInv => RowsNow
  <1>1. PayInv => PayType /\ RowsAreMoney(rows)
    BY DEF PayInv
  <1> QED BY <1>1, CallsAre DEF RowsNow, PayType

\* An intent: a row of its own, pending, with nothing captured.
LEMMA PayIntent ==
    ASSUME PayInv, NEW c \in DOMAIN calls, initiateOnlinePayment(c)
    PROVE  PayInv'
  <1>1. UNCHANGED <<gatewayLive, uiLive, receipt>> /\ calls[c].stage = "start"
    BY DEF initiateOnlinePayment
  <1>2. CASE Refused(calls[c].order)
    <2>1. Failed(c) /\ UNCHANGED <<rows, sheet>>
      BY <1>2 DEF initiateOnlinePayment
    <2>2. calls' = [calls EXCEPT ![c].stage = "failed"]
      BY <2>1 DEF Failed
    <2> QED BY <1>1, <2>1, <2>2, PayEnds
  <1>3. CASE ~Refused(calls[c].order)
    <2>1. PICK o, n, d : o = calls[c].order /\ n = Len(rows) + 1 /\ d = Due(o)
      OBVIOUS
    <2>2. PICK p \in {"mock", "razorpay"} :
            /\ rows' = Append(rows, [order |-> o, amount |-> d, provider |-> p,
                                     captured |-> FALSE, status |-> "PENDING", by |-> "none"])
            /\ sheet' = IF Mine(c) THEN [sheet EXCEPT !.intent = n] ELSE sheet
            /\ calls' = [calls EXCEPT ![c].row = n,
                           ![c].stage = CASE calls[c].kind = "demo" -> "confirm"
                                          [] calls[c].kind = "live" /\ p = "razorpay" -> "gateway"
                                          [] OTHER -> "failed"]
      BY <1>3, <2>1 DEF initiateOnlinePayment
    <2>3. RowsNow
      BY RowsAre
    <2>4. calls \in Seq(Call) /\ AllSound(calls, rows) /\ RowsApart(calls) /\ calls[c] \in Call
          /\ \A i \in DOMAIN calls : calls[i] \in Call
      <3>1. calls \in Seq(Call) /\ AllSound(calls, rows) /\ RowsApart(calls)
        BY CallsNow
      <3> QED BY <3>1, SeqParts
    <2>5. PICK e : e = [order |-> o, amount |-> d, provider |-> p,
                        captured |-> FALSE, status |-> "PENDING", by |-> "none"]
      OBVIOUS
    <2>6. e \in Row /\ e.status = "PENDING" /\ e.captured = FALSE
      <3>1. o \in Nat
        BY <2>1, <2>4 DEF Call
      <3>2. d \in {1, 2}
        BY <1>3, <2>1, <2>3, DueIsAnAmount DEF RowsNow
      <3> QED BY <2>5, <3>1, <3>2 DEF Row
    <2>7. PICK S : S = rows'
      OBVIOUS
    <2>8. /\ S \in Seq(Row) /\ Len(S) = n
          /\ \A i \in DOMAIN rows : S[i] = rows[i]
          /\ S[n] = e /\ DOMAIN S = DOMAIN rows \union {n} /\ n \notin DOMAIN rows
      <3>1. S = Append(rows, e)
        BY <2>2, <2>5, <2>7
      <3> QED BY <2>1, <2>3, <2>6, <3>1, SeqAppend DEF RowsNow
    <2>9. RowsKeep(rows, S)
      BY <2>1, <2>3, <2>8 DEF RowsKeep, RowsNow
    <2>10. RowsAreMoney(S)
      BY <2>3, <2>6, <2>8 DEF RowsAreMoney, RowsNow
    <2>11. AllSound(calls, S)
      BY <2>3, <2>4, <2>8, <2>9, CallsStand DEF RowsNow
    <2>12. PICK st : st = CASE calls[c].kind = "demo" -> "confirm"
                            [] calls[c].kind = "live" /\ p = "razorpay" -> "gateway"
                            [] OTHER -> "failed"
      OBVIOUS
    <2>13. st \in {"confirm", "gateway", "failed"} /\ (st = "gateway" => calls[c].kind = "live")
           /\ (st = "confirm" => calls[c].kind = "demo")
      <3>1. calls[c].kind \in {"demo", "live"}
        BY <2>4 DEF Call
      <3>2. calls[c].kind = "demo" => st = "confirm"
        BY <2>12
      <3>3. calls[c].kind = "live" => st = IF p = "razorpay" THEN "gateway" ELSE "failed"
        BY <2>12
      <3> QED BY <3>1, <3>2, <3>3
    <2>14. PICK D : D = calls'
      OBVIOUS
    <2>15. /\ DOMAIN D = DOMAIN calls /\ D = [i \in DOMAIN D |-> D[i]]
           /\ \A i \in DOMAIN calls : i # c => D[i] = calls[i]
           /\ D[c] = [calls[c] EXCEPT !.row = n, !.stage = st]
      <3>1. D = [calls EXCEPT ![c].row = n, ![c].stage = st]
        BY <2>2, <2>12, <2>14
      <3> QED BY <3>1
    <2>16. n \in Nat \ {0}
      BY <2>1, <2>3 DEF RowsNow
    <2>17. D[c] \in Call /\ D[c].row = n /\ D[c].stage = st /\ D[c].kind = calls[c].kind
      BY <2>4, <2>13, <2>15, <2>16 DEF Call
    <2>18. D \in Seq(Call)
      <3>1. \A i \in DOMAIN calls : D[i] \in Call
        BY <2>4, <2>15, <2>17
      <3> QED BY <2>4, <2>15, <3>1, SeqMap
    <2>19. CallSound(D[c], S)
      <3>1. n \in 0..Len(S) /\ n # 0
        BY <2>8, <2>16
      <3>2. ~S[n].captured
        BY <2>6, <2>8
      <3> QED BY <2>13, <2>17, <3>1, <3>2 DEF CallSound
    <2>20. AllSound(D, S)
      BY <2>11, <2>15, <2>19 DEF AllSound
    <2>21. RowsApart(D)
      <3>1. \A i \in DOMAIN calls : i # c => D[i].row # n
        <4>1. \A i \in DOMAIN calls : calls[i].row \in 0..Len(rows)
          BY <2>4 DEF AllSound, CallSound
        <4> QED BY <2>1, <2>3, <2>15, <4>1 DEF RowsNow
      <3> SUFFICES ASSUME NEW i \in DOMAIN calls, NEW j \in DOMAIN calls, i # j,
                          OnGateway(D[i]), OnGateway(D[j])
                   PROVE  D[i].row # D[j].row
        BY <2>15 DEF RowsApart
      <3>2. CASE i = c \/ j = c
        BY <2>17, <3>1, <3>2
      <3>3. CASE i # c /\ j # c
        <4>1. D[i] = calls[i] /\ D[j] = calls[j]
          BY <2>15, <3>3
        <4> QED BY <2>4, <4>1 DEF RowsApart
      <3> QED BY <3>2, <3>3
    <2>22. sheet' \in Sheet /\ sheet'.intent \in 0..Len(S)
      <3>1. sheet \in Sheet /\ sheet.intent \in 0..Len(rows)
        BY SheetIs
      <3>2. sheet' = sheet \/ sheet' = [sheet EXCEPT !.intent = n]
        BY <2>2
      <3>3. sheet' \in Sheet /\ sheet'.intent \in {sheet.intent, n}
        BY <2>16, <3>1, <3>2 DEF Sheet
      <3>4. sheet.intent \in 0..Len(S) /\ n \in 0..Len(S)
        BY <2>1, <2>3, <2>8, <2>16, <3>1 DEF RowsNow
      <3> QED BY <3>3, <3>4
    <2>23. Len(rows) <= Len(S) /\ rows' = S
           /\ \A i \in DOMAIN rows : rows[i].status = "SUCCESS" => S[i].status = "SUCCESS"
      BY <2>7, <2>9 DEF RowsKeep
    <2>24. calls' \in Seq(Call) /\ AllSound(calls', S) /\ RowsApart(calls')
      BY <2>14, <2>18, <2>20, <2>21
    <2> QED BY <1>1, <2>8, <2>10, <2>22, <2>23, <2>24, PayRowsMove
  <1> QED BY <1>2, <1>3

\* The gateway's window: what it captures is on a row no other live call has.
LEMMA WindowRow ==
    ASSUME PayInv, NEW d \in DOMAIN calls, calls[d].stage = "gateway",
           NEW x, x = calls[d].row, NEW paid \in BOOLEAN, NEW e \in Row, e.captured = paid,
           e.status = rows[x].status, e.by = rows[x].by,
           NEW w, DOMAIN w = DOMAIN rows, w = [i \in DOMAIN w |-> w[i]],
           w[x] = e, \A i \in DOMAIN rows : i # x => w[i] = rows[i]
    PROVE  /\ w \in Seq(Row) /\ Len(w) = Len(rows) /\ RowsAreMoney(w)
           /\ \A i \in DOMAIN rows : rows[i].status = "SUCCESS" => w[i].status = "SUCCESS"
           /\ w[calls[d].row].captured = paid /\ calls[d].row # 0
           /\ \A k \in DOMAIN calls : k # d => CallSound(calls[k], w)
  <1>1. RowsNow
    BY RowsAre
  <1>2. calls \in Seq(Call) /\ AllSound(calls, rows) /\ RowsApart(calls)
    BY CallsNow
  <1>3. \A k \in DOMAIN calls : calls[k] \in Call /\ CallSound(calls[k], rows)
    BY <1>2, SeqParts DEF AllSound
  <1>5. x \in DOMAIN rows /\ x # 0 /\ calls[d].kind = "live" /\ ~rows[x].captured
    BY <1>1, <1>3 DEF CallSound, RowsNow
  <1>10. w \in Seq(Row) /\ Len(w) = Len(rows)
    BY <1>1, <1>5, RowMoves DEF RowsNow
  <1>11. RowsAreMoney(w)
    <2>1. ASSUME NEW i \in DOMAIN rows, w[i].status = "SUCCESS"
          PROVE  w[i].captured \/ w[i].by = "mock"
      <3>1. CASE i = x
        BY <1>1, <1>5, <2>1, <3>1 DEF RowsAreMoney, RowsNow
      <3>2. CASE i # x
        BY <1>1, <2>1, <3>2 DEF RowsAreMoney, RowsNow
      <3> QED BY <3>1, <3>2
    <2> QED BY <2>1 DEF RowsAreMoney
  <1>12. \A i \in DOMAIN rows : rows[i].status = "SUCCESS" => w[i].status = "SUCCESS"
    OBVIOUS
  <1>13. ASSUME NEW k \in DOMAIN calls, k # d PROVE CallSound(calls[k], w)
    <2>1. calls[k] \in Call /\ CallSound(calls[k], rows)
      BY <1>3
    <2>2. calls[k].row # 0 => calls[k].row \in DOMAIN rows
      BY <1>1, <2>1 DEF CallSound, RowsNow
    <2>3. OnGateway(calls[k]) => calls[k].row # x /\ calls[k].row \in DOMAIN rows
      <3>1. OnGateway(calls[d])
        BY <1>5 DEF OnGateway
      <3>2. OnGateway(calls[k]) => calls[k].row # calls[d].row
        BY <1>2, <1>13, <3>1 DEF RowsApart
      <3> QED BY <2>2, <3>2 DEF OnGateway
    <2>4. OnGateway(calls[k]) => w[calls[k].row].captured = rows[calls[k].row].captured
      BY <2>3
    <2>5. calls[k].row # 0 /\ rows[calls[k].row].status = "SUCCESS"
             => w[calls[k].row].status = "SUCCESS"
      BY <1>12, <2>2
    <2>6. Len(rows) \in Nat /\ Len(w) \in Nat /\ Len(rows) <= Len(w)
      BY <1>1, <1>10 DEF RowsNow
    <2> QED BY <2>1, <2>4, <2>5, <2>6, CallStands
  <1> QED BY <1>5, <1>10, <1>11, <1>12, <1>13

LEMMA PayWindow ==
    ASSUME PayInv, NEW c \in DOMAIN calls, openRazorpayCheckout(c)
    PROVE  PayInv'
  <1>1. UNCHANGED <<gatewayLive, uiLive, receipt>> /\ calls[c].stage = "gateway"
    BY DEF openRazorpayCheckout
  <1>2. ASSUME NEW b \in BOOLEAN, NEW st \in {"confirm", "failed"}, st = "confirm" => b = TRUE,
               rows' = [rows EXCEPT ![calls[c].row].captured = b],
               calls' = [calls EXCEPT ![c].stage = st], UNCHANGED sheet
        PROVE  PayInv'
    <2>1. PICK S : S = rows'
      OBVIOUS
    <2>2. S = [rows EXCEPT ![calls[c].row].captured = b]
      BY <1>2, <2>1
    <2>3. /\ S \in Seq(Row) /\ Len(S) = Len(rows) /\ RowsAreMoney(S)
          /\ \A i \in DOMAIN rows : rows[i].status = "SUCCESS" => S[i].status = "SUCCESS"
          /\ S[calls[c].row].captured = b /\ calls[c].row # 0
          /\ \A k \in DOMAIN calls : k # c => CallSound(calls[k], S)
      <3>1. PICK x : x = calls[c].row
        OBVIOUS
      <3>2. x \in DOMAIN rows /\ rows[x] \in Row
        <4>1. RowsNow /\ CallSound(calls[c], rows)
          BY RowsAre, CallsNow DEF AllSound
        <4> QED BY <1>1, <3>1, <4>1 DEF CallSound, RowsNow
      <3>3. PICK e : e = [rows[x] EXCEPT !.captured = b]
        OBVIOUS
      <3>4. e \in Row /\ e.captured = b /\ e.status = rows[x].status /\ e.by = rows[x].by
        BY <3>2, <3>3 DEF Row
      <3>5. S = [rows EXCEPT ![x] = e]
        BY <2>2, <3>1, <3>2, <3>3
      <3>6. /\ DOMAIN S = DOMAIN rows /\ S = [i \in DOMAIN S |-> S[i]]
            /\ S[x] = e /\ \A i \in DOMAIN rows : i # x => S[i] = rows[i]
        BY <3>2, <3>5
      <3> QED BY <1>1, <3>1, <3>4, <3>6, WindowRow
    <2>4. calls \in Seq(Call) /\ RowsApart(calls) /\ CallSound(calls[c], rows)
      BY CallsNow DEF AllSound
    <2>5. PICK D : D = calls'
      OBVIOUS
    <2>6. /\ D \in Seq(Call) /\ DOMAIN D = DOMAIN calls
          /\ \A i \in DOMAIN calls : i # c => D[i] = calls[i]
          /\ D[c].stage = st /\ D[c].row = calls[c].row /\ D[c].kind = calls[c].kind
      <3>1. D = [calls EXCEPT ![c].stage = st] /\ st \in Stages
        BY <1>2, <2>5 DEF Stages
      <3> QED BY <2>4, <3>1, StageMoves
    <2>7. CallSound(D[c], S)
      BY <1>2, <2>3, <2>4, <2>6 DEF CallSound
    <2>8. AllSound(D, S)
      BY <2>3, <2>6, <2>7 DEF AllSound
    <2>9. RowsApart(D)
      BY <2>4, <2>6, StayApart
    <2>10. sheet' \in Sheet /\ sheet'.intent \in 0..Len(S)
      BY <1>2, <2>3, SheetIs
    <2>11. Len(rows) <= Len(S) /\ rows' = S
      BY <2>1, <2>3, RowsAre DEF RowsNow
    <2>12. calls' \in Seq(Call) /\ AllSound(calls', S) /\ RowsApart(calls')
      BY <2>5, <2>6, <2>8, <2>9
    <2> QED BY <1>1, <2>3, <2>10, <2>11, <2>12, PayRowsMove
  <1>3. CASE /\ calls' = [calls EXCEPT ![c].stage = "done"] /\ UNCHANGED rows
             /\ sheet' = IF Mine(c) THEN [sheet EXCEPT !.authorizing = FALSE] ELSE sheet
    <2>1. \/ sheet' \in {sheet, Closed}
          \/ \E a \in BOOLEAN : sheet' = [sheet EXCEPT !.authorizing = a]
      BY <1>3
    <2> QED BY <1>1, <1>3, <2>1, PayEnds
  <1>4. CASE /\ rows' = [rows EXCEPT ![calls[c].row].captured = TRUE]
             /\ calls' = [calls EXCEPT ![c].stage = "confirm"] /\ UNCHANGED sheet
    BY <1>2, <1>4
  <1>5. CASE /\ \E later \in BOOLEAN : rows' = [rows EXCEPT ![calls[c].row].captured = later]
             /\ Failed(c) /\ UNCHANGED sheet
    <2>1. PICK later \in BOOLEAN : rows' = [rows EXCEPT ![calls[c].row].captured = later]
      BY <1>5
    <2>2. calls' = [calls EXCEPT ![c].stage = "failed"] /\ UNCHANGED sheet
      BY <1>5 DEF Failed
    <2> QED BY <1>2, <2>1, <2>2
  <1> QED BY <1>3, <1>4, <1>5 DEF openRazorpayCheckout

\* A pending row marked, or a row booked with its money or on the demo gateway's word.
LEMMA RowMarked ==
    ASSUME PayInv, NEW y \in DOMAIN rows, NEW to \in {"SUCCESS", "FAILED"},
           NEW who \in {"none", "mock", "razorpay"},
           to = "FAILED" => rows[y].status # "SUCCESS",
           to = "SUCCESS" => who = "mock" \/ rows[y].captured,
           NEW w, DOMAIN w = DOMAIN rows, w = [i \in DOMAIN w |-> w[i]],
           \A i \in DOMAIN rows : i # y => w[i] = rows[i],
           w[y] \in Row, w[y].captured = rows[y].captured, w[y].status = to, w[y].by = who
    PROVE  /\ w \in Seq(Row) /\ Len(w) = Len(rows) /\ RowsAreMoney(w)
           /\ w[y].status = to /\ AllSound(calls, w)
           /\ \A i \in DOMAIN rows : rows[i].status = "SUCCESS" => w[i].status = "SUCCESS"
  <1>1. RowsNow
    BY RowsAre
  <1>5. w \in Seq(Row) /\ Len(w) = Len(rows)
    BY <1>1, RowMoves DEF RowsNow
  <1>6. RowsAreMoney(w)
    <2>1. ASSUME NEW i \in DOMAIN rows, w[i].status = "SUCCESS"
          PROVE  w[i].captured \/ w[i].by = "mock"
      <3>1. CASE i = y
        BY <2>1, <3>1
      <3>2. CASE i # y
        BY <1>1, <2>1, <3>2 DEF RowsAreMoney, RowsNow
      <3> QED BY <3>1, <3>2
    <2> QED BY <2>1 DEF RowsAreMoney
  <1>7. \A i \in DOMAIN rows : /\ rows[i].status = "SUCCESS" => w[i].status = "SUCCESS"
                               /\ w[i].captured = rows[i].captured
    OBVIOUS
  <1>8. RowsKeep(rows, w)
    BY <1>1, <1>5, <1>7 DEF RowsKeep, RowsNow
  <1>9. AllSound(calls, w)
    BY <1>1, <1>5, <1>8, CallsNow, CallsStand DEF RowsNow
  <1> QED BY <1>5, <1>6, <1>7, <1>9

LEMMA Booked ==
    ASSUME PayInv, NEW x \in DOMAIN rows, NEW p \in {"mock", "razorpay"}, Book(x, p),
           p = "mock" \/ rows[x].captured,
           NEW S, S = rows'
    PROVE  /\ S \in Seq(Row) /\ Len(S) = Len(rows) /\ RowsAreMoney(S)
           /\ S[x].status = "SUCCESS" /\ AllSound(calls, S)
           /\ \A i \in DOMAIN rows : rows[i].status = "SUCCESS" => S[i].status = "SUCCESS"
  <1>1. S = [rows EXCEPT ![x].status = "SUCCESS", ![x].by = p]
    BY DEF Book
  <1>2. DOMAIN S = DOMAIN rows /\ S = [i \in DOMAIN S |-> S[i]]
    BY <1>1
  <1>3. \A i \in DOMAIN rows : i # x => S[i] = rows[i]
    BY <1>1
  <1>4. S[x] = [rows[x] EXCEPT !.status = "SUCCESS", !.by = p]
    BY <1>1
  <1>5. rows[x] \in Row
    BY RowsAre DEF RowsNow
  <1>6. S[x] \in Row /\ S[x].captured = rows[x].captured /\ S[x].status = "SUCCESS" /\ S[x].by = p
    BY <1>4, <1>5 DEF Row
  <1>7. PICK st \in {"SUCCESS", "FAILED"} : st = "SUCCESS"
    OBVIOUS
  <1>8. /\ st = "FAILED" => rows[x].status # "SUCCESS"
        /\ st = "SUCCESS" => p = "mock" \/ rows[x].captured
    BY <1>7
  <1> QED BY <1>2, <1>3, <1>6, <1>7, <1>8, RowMarked

LEMMA PayWebhook ==
    ASSUME PayInv, NEW x \in DOMAIN rows, handleRazorpayWebhook(x)
    PROVE  PayInv'
  <1>1. /\ rows[x].captured /\ Book(x, "razorpay")
        /\ UNCHANGED <<gatewayLive, uiLive, sheet, calls, receipt>>
    BY DEF handleRazorpayWebhook
  <1>2. PICK S : S = rows'
    OBVIOUS
  <1>3. /\ S \in Seq(Row) /\ Len(S) = Len(rows) /\ RowsAreMoney(S) /\ AllSound(calls, S)
        /\ \A i \in DOMAIN rows : rows[i].status = "SUCCESS" => S[i].status = "SUCCESS"
    BY <1>1, <1>2, Booked
  <1>4. sheet' \in Sheet /\ sheet'.intent \in 0..Len(S)
    BY <1>1, <1>3, SheetIs
  <1>5. Len(rows) <= Len(S)
    BY <1>3, RowsAre DEF RowsNow
  <1>6. calls' \in Seq(Call) /\ AllSound(calls', S) /\ RowsApart(calls')
    BY <1>1, <1>3, CallsNow
  <1> QED BY <1>1, <1>2, <1>3, <1>4, <1>5, <1>6, PayRowsMove

LEMMA PayConfirm ==
    ASSUME PayInv, NEW c \in DOMAIN calls, confirmOnlinePayment(c)
    PROVE  PayInv'
  <1>1. UNCHANGED <<gatewayLive, uiLive, sheet, receipt>> /\ calls[c].stage = "confirm"
    BY DEF confirmOnlinePayment
  <1>2. PICK x : x = calls[c].row
    OBVIOUS
  <1>3. RowsNow /\ CallSound(calls[c], rows)
    BY RowsAre, CallsNow DEF AllSound
  <1>4. x \in DOMAIN rows /\ x # 0 /\ (calls[c].kind = "live" => rows[x].captured)
    BY <1>1, <1>2, <1>3 DEF CallSound, RowsNow
  <1>5. CASE Failed(c) /\ UNCHANGED rows
    <2>1. calls' = [calls EXCEPT ![c].stage = "failed"]
      BY <1>5 DEF Failed
    <2> QED BY <1>1, <1>5, <2>1, PayEnds
  <1>6. ASSUME NEW S \in Seq(Row), NEW st \in Stages, rows' = S,
               calls' = [calls EXCEPT ![c].stage = st], Len(S) = Len(rows), RowsAreMoney(S),
               AllSound(calls, S), Reaches(calls[c], st, S),
               \A i \in DOMAIN rows : rows[i].status = "SUCCESS" => S[i].status = "SUCCESS"
        PROVE  PayInv'
    <2>1. calls' \in Seq(Call) /\ AllSound(calls', S) /\ RowsApart(calls')
      BY <1>6, CallMoves
    <2>2. sheet' \in Sheet /\ sheet'.intent \in 0..Len(S)
      BY <1>1, <1>6, SheetIs
    <2>3. Len(rows) <= Len(S)
      BY <1>3, <1>6 DEF RowsNow
    <2> QED BY <1>1, <1>6, <2>1, <2>2, <2>3, PayRowsMove
  <1>7. CASE /\ rows[x].status = "PENDING" /\ rows' = [rows EXCEPT ![x].status = "FAILED"]
             /\ Failed(c)
    <2>1. PICK S : S = rows'
      OBVIOUS
    <2>2. PICK p : p = rows[x].by
      OBVIOUS
    <2>3. rows[x] \in Row /\ p \in {"none", "mock", "razorpay"}
      BY <1>3, <1>4, <2>2 DEF RowsNow, Row
    <2>4. DOMAIN S = DOMAIN rows /\ S = [i \in DOMAIN S |-> S[i]]
          /\ \A i \in DOMAIN rows : i # x => S[i] = rows[i]
      BY <1>7, <2>1
    <2>0. PICK st \in {"SUCCESS", "FAILED"} : st = "FAILED"
      OBVIOUS
    <2>5. S[x] \in Row /\ S[x].captured = rows[x].captured /\ S[x].status = st /\ S[x].by = p
      <3>1. S[x] = [rows[x] EXCEPT !.status = "FAILED"]
        BY <1>4, <1>7, <2>1
      <3> QED BY <2>0, <2>2, <2>3, <3>1 DEF Row
    <2>6. /\ S \in Seq(Row) /\ Len(S) = Len(rows) /\ RowsAreMoney(S) /\ AllSound(calls, S)
          /\ \A i \in DOMAIN rows : rows[i].status = "SUCCESS" => S[i].status = "SUCCESS"
      <3>1. /\ st = "FAILED" => rows[x].status # "SUCCESS"
            /\ st = "SUCCESS" => p = "mock" \/ rows[x].captured
        BY <1>7, <2>0
      <3> QED BY <1>4, <2>0, <2>3, <2>4, <2>5, <3>1, RowMarked
    <2>7. calls' = [calls EXCEPT ![c].stage = "failed"] /\ "failed" \in Stages
          /\ Reaches(calls[c], "failed", S)
      BY <1>7 DEF Failed, Stages, Reaches
    <2> QED BY <1>6, <2>1, <2>6, <2>7
  <1>8. ASSUME NEW p \in {"mock", "razorpay"}, verifyConfirmation(p, c), Book(x, p),
               calls' = [calls EXCEPT ![c].stage = "paid"]
        PROVE  PayInv'
    <2>1. p = "mock" \/ rows[x].captured
      BY <1>4, <1>8 DEF verifyConfirmation
    <2>2. PICK S : S = rows'
      OBVIOUS
    <2>3. /\ S \in Seq(Row) /\ Len(S) = Len(rows) /\ RowsAreMoney(S) /\ AllSound(calls, S)
          /\ S[x].status = "SUCCESS"
          /\ \A i \in DOMAIN rows : rows[i].status = "SUCCESS" => S[i].status = "SUCCESS"
      BY <1>4, <1>8, <2>1, <2>2, Booked
    <2>4. "paid" \in Stages /\ Reaches(calls[c], "paid", S)
      BY <1>2, <1>4, <2>3 DEF Stages, Reaches
    <2> QED BY <1>6, <1>8, <2>2, <2>3, <2>4
  <1>9. PICK p \in {"mock", "razorpay"} :
            \/ Failed(c) /\ UNCHANGED rows
            \/ /\ rows[x].status = "PENDING" /\ rows' = [rows EXCEPT ![x].status = "FAILED"]
               /\ Failed(c)
            \/ /\ verifyConfirmation(p, c) /\ Book(x, p)
               /\ calls' = [calls EXCEPT ![c].stage = "paid"]
    BY <1>2 DEF confirmOnlinePayment
  <1> QED BY <1>5, <1>7, <1>8, <1>9

LEMMA PayAnswer ==
    ASSUME PayInv, NEW c \in DOMAIN calls, Answer(c) \/ CallLost(c)
    PROVE  PayInv'
  <1>1. CASE CallLost(c)
    <2>1. /\ calls' = [calls EXCEPT ![c].stage = "failed"]
          /\ UNCHANGED <<gatewayLive, uiLive, sheet, rows, receipt>>
      BY <1>1 DEF CallLost, Failed
    <2> QED BY <2>1, PayEnds
  <1>2. CASE Answer(c)
    <2>1. /\ calls' = [calls EXCEPT ![c].stage = "done"]
          /\ UNCHANGED <<gatewayLive, uiLive, rows>>
      BY <1>2 DEF Answer
    <2>2. \/ sheet' \in {sheet, Closed}
          \/ \E a \in BOOLEAN : sheet' = [sheet EXCEPT !.authorizing = a]
      BY <1>2 DEF Answer, onPaid, onError
    <2>3. receipt' \in {receipt, calls[c].row} /\ (calls[c].stage = "paid" \/ receipt' = receipt)
      BY <1>2 DEF Answer, onPaid, onError
    <2> QED BY <2>1, <2>2, <2>3, PayEnds
  <1> QED BY <1>1, <1>2

LEMMA PayStep == BasketInv /\ PayInv /\ [Next]_vars => PayInv'
  <1> SUFFICES ASSUME BasketInv, PayInv, [Next]_vars PROVE PayInv'
    OBVIOUS
  <1>1. orders \in Seq(Order)
    BY DEF BasketInv, BasketType, CartTypeOK
  <1>2. CASE UNCHANGED payVars
    BY <1>2, PayStill
  <1>3. CASE PayNext
    <2>1. CASE \/ \E o \in DOMAIN orders : \E f \in {"page", "dialog"} : OpenSheet(o, f)
               \/ SettingsArrive \/ validateFormAndPay \/ TapTile \/ DemoTimer
               \/ CancelWaiting \/ CloseSheet \/ Dismiss
      BY <1>1, <2>1, PaySheet
    <2>2. CASE \E o \in DOMAIN orders : cancelHeldOrderByToken(o)
      <3>1. Away /\ UNCHANGED uiLive
        BY <2>2 DEF cancelHeldOrderByToken
      <3> QED BY <3>1, ReceiptNow, PayAway
    <2>3. CASE LeaveTracking \/ ReloadTracking
      <3>1. Away /\ uiLive' \in {uiLive, FALSE}
        BY <2>3 DEF LeaveTracking, ReloadTracking
      <3> QED BY <3>1, ReceiptNow, PayAway
    <2>4. CASE TrackAgain \/ \E o \in DOMAIN orders : approveOrder(o)
      <3>1. UNCHANGED payVars
        BY <2>4 DEF TrackAgain, approveOrder
      <3> QED BY <1>2, <3>1
    <2>5. CASE updateSettings
      <3>1. /\ gatewayLive' = ~gatewayLive
            /\ UNCHANGED <<uiLive, sheet, calls, rows, receipt>>
        BY <2>5 DEF updateSettings
      <3>2. gatewayLive' \in BOOLEAN /\ uiLive' \in BOOLEAN
        BY <3>1, ReceiptNow
      <3>3. sheet' \in Sheet /\ sheet'.intent \in 0..Len(rows)
        BY <3>1, SheetIs
      <3>4. calls' \in Seq(Call) /\ AllSound(calls', rows) /\ RowsApart(calls')
        BY <3>1, CallsNow
      <3>5. receipt' \in 0..Len(rows) /\ (receipt' # 0 => rows[receipt'].status = "SUCCESS")
        BY <3>1, ReceiptNow
      <3> QED BY <3>1, <3>2, <3>3, <3>4, <3>5, PayRowsStill
    <2>6. ASSUME NEW c \in DOMAIN calls,
                 \/ initiateOnlinePayment(c) \/ openRazorpayCheckout(c)
                 \/ confirmOnlinePayment(c) \/ CallLost(c) \/ Answer(c)
          PROVE  PayInv'
      BY <2>6, PayIntent, PayWindow, PayConfirm, PayAnswer
    <2>7. ASSUME NEW x \in DOMAIN rows, handleRazorpayWebhook(x) PROVE PayInv'
      BY <2>7, PayWebhook
    <2> QED BY <1>3, <2>1, <2>2, <2>3, <2>4, <2>5, <2>6, <2>7 DEF PayNext
  <1>4. CASE UNCHANGED vars
    <2>1. UNCHANGED payVars
      BY <1>4 DEF vars
    <2> QED BY <1>2, <2>1
  <1> QED BY <1>2, <1>3, <1>4 DEF Next

LEMMA VisitInvariant == Spec => [](BasketInv /\ PayInv)
  BY BasketInit, BasketStep, PayInit, PayStep, PTL DEF Spec

\* The cart, the requests, the orders, the sheet, its calls and the payment rows keep
\* their shape; what is due of an order is one unit or two when anything is.
THEOREM VisitTypes == Spec => []TypeOK
  <1>1. BasketInv /\ PayInv => TypeOK
    <2>1. PayInv => PayType
      BY DEF PayInv
    <2> QED BY <2>1, CallsAre DEF BasketInv, BasketType, TypeOK, PayType
  <1> QED BY <1>1, VisitInvariant, PTL

\* "Payment received" is shown (onPaid of DemoCheckout) only over a row the ledger has
\* booked, for any number of calls, lost answers and gateways switched meanwhile.
THEOREM ReceiptsArePaid == Spec => []PaidScreenIsPaid
  <1>1. PayInv => PaidScreenIsPaid
    BY DEF PayInv
  <1> QED BY <1>1, VisitInvariant, PTL

\* A booked row (confirmOnlinePayment, handleRazorpayWebhook) holds captured money or
\* the demo gateway's word: a live call confirms only a row whose money came in, since
\* no two live calls share a row.
THEOREM PaidRowsAreMoney == Spec => []LiveRowsAreMoney
  <1>1. PayInv => LiveRowsAreMoney
    BY DEF PayInv, RowsAreMoney, LiveRowsAreMoney
  <1> QED BY <1>1, VisitInvariant, PTL
=============================================================================
