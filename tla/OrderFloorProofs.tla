-------------------------- MODULE OrderFloorProofs ---------------------------
EXTENDS Reports, Invoices, TLAPS, FiniteSetTheorems, WellFoundedInduction,
        SequenceTheorems

\* Percentages of natural amounts are natural, and grow with the amount.
LEMMA PercentNat ==
    ASSUME NEW m \in Nat, NEW p \in Nat
    PROVE  ApplyPercent(m, p) \in Nat
  <1>1. m * p \in Nat
    OBVIOUS
  <1>2. \A x \in Nat : (x + 5000) \div 10000 \in Nat
    OBVIOUS
  <1> QED BY <1>1, <1>2 DEF ApplyPercent

LEMMA PercentMonotone ==
    ASSUME NEW m \in Nat, NEW n \in Nat, NEW p \in Nat, m <= n
    PROVE  ApplyPercent(m, p) <= ApplyPercent(n, p)
  <1>1. m * p \in Nat /\ n * p \in Nat
    OBVIOUS
  <1>2. m * p <= n * p
    <2>1. PICK d \in Nat : n = m + d
      OBVIOUS
    <2>2. n * p = m * p + d * p /\ d * p \in Nat
      BY <2>1
    <2> QED BY <1>1, <2>2
  <1>3. \A x, y \in Nat : x <= y => (x + 5000) \div 10000 <= (y + 5000) \div 10000
    OBVIOUS
  <1> QED BY <1>1, <1>2, <1>3 DEF ApplyPercent

LEMMA TotalNat ==
    ASSUME NEW x \in Nat
    PROVE  TotalOf(x) \in Nat
  <1>1. ApplyPercent(x, TaxPercent) \in Nat /\ ApplyPercent(x, ServicePercent) \in Nat
    BY PercentNat, AmountsAssumption
  <1> QED BY <1>1 DEF TotalOf, TotalAmount, AtLeastZero

LEMMA TotalMonotone ==
    ASSUME NEW x \in Nat, NEW y \in Nat, x <= y
    PROVE  TotalOf(x) <= TotalOf(y)
  <1>1. /\ ApplyPercent(x, TaxPercent) <= ApplyPercent(y, TaxPercent)
        /\ ApplyPercent(x, ServicePercent) <= ApplyPercent(y, ServicePercent)
    BY PercentMonotone, AmountsAssumption
  <1>2. /\ ApplyPercent(x, TaxPercent) \in Nat /\ ApplyPercent(y, TaxPercent) \in Nat
        /\ ApplyPercent(x, ServicePercent) \in Nat /\ ApplyPercent(y, ServicePercent) \in Nat
    BY PercentNat, AmountsAssumption
  <1> QED BY <1>1, <1>2 DEF TotalOf, TotalAmount, AtLeastZero

\* The hold of an order is a held status or PENDING, and PENDING owes nothing.
LEMMA HoldType ==
    ASSUME NEW e, NEW total \in Nat
    PROVE  LET hold == EvaluateHold(e, total, Gates)
           IN  /\ hold.status \in HELD_STATUSES \union {"PENDING"}
               /\ hold.advance \in Nat
               /\ hold.status = "PENDING" => hold.advance = 0
  <1>1. ThresholdMinor(Gates) \in Nat
    BY GatesAssumption DEF ThresholdMinor
  <1>2. total > ThresholdMinor(Gates) => AdvancePercent(total, Gates) \in Nat
    <2>1. \A x \in Nat : Least(20 + 10 * (x \div 100000), 100) \in Nat
      BY DEF Least
    <2>2. total > ThresholdMinor(Gates) => total - ThresholdMinor(Gates) \in Nat
      BY <1>1
    <2> QED BY <2>1, <2>2 DEF AdvancePercent
  <1>3. total > ThresholdMinor(Gates)
          => ApplyPercent(total, 100 * AdvancePercent(total, Gates)) \in Nat
    <2> SUFFICES ASSUME total > ThresholdMinor(Gates)
                 PROVE  ApplyPercent(total, 100 * AdvancePercent(total, Gates)) \in Nat
      OBVIOUS
    <2>1. 100 * AdvancePercent(total, Gates) \in Nat
      BY <1>2
    <2> QED BY <2>1, PercentNat
  <1> QED BY <1>3 DEF EvaluateHold, HELD_STATUSES

-----------------------------------------------------------------------------
(* Sums over finite sets: a fold adds each value once, and a sum of       *)
(* smaller values over a smaller set is no larger.                          *)

\* Induction over the naturals, from their least counterexample.
LEMMA NatSet ==
    ASSUME NEW T \in SUBSET Nat, 0 \in T, \A n \in T : n + 1 \in T
    PROVE  T = Nat
  <1> SUFFICES ASSUME Nat \ T # {} PROVE FALSE
    OBVIOUS
  <1> DEFINE R == { ss \in Nat \X Nat : ss[1] < ss[2] }
  <1>1. IsWellFoundedOn(R, Nat)
    BY NatLessThanWellFounded DEF OpToRel
  <1>2. PICK m \in Nat \ T : \A k \in Nat \ T : ~ (<<k, m>> \in R)
    <2> HIDE DEF R
    <2>1. Nat \ T \subseteq Nat
      OBVIOUS
    <2> QED BY <1>1, <2>1, WFMin
  <1>3. m # 0 /\ m - 1 \in Nat /\ m - 1 + 1 = m
    OBVIOUS
  <1>4. m - 1 \in Nat \ T
    BY <1>3
  <1>5. <<m - 1, m>> \in R
    BY <1>3
  <1> QED BY <1>2, <1>4, <1>5

\* What a fold over a set does at each subset: take the chosen element, add up the rest.
Chosen(s)       == CHOOSE x \in s : TRUE
After(f, g, s)  == IF s = {} THEN 0 ELSE f[Chosen(s)] + g[s \ {Chosen(s)}]
Folds(f, g, S)  == g = [s \in SUBSET S |-> After(f, g, s)]
UpTo(S, n)      == { s \in SUBSET S : Cardinality(s) <= n }

\* The chosen element is there, and the rest is smaller.
LEMMA RestIsSmaller ==
    ASSUME NEW S, IsFiniteSet(S), NEW s \in SUBSET S, s # {}
    PROVE  /\ Chosen(s) \in s /\ s \ {Chosen(s)} \in SUBSET S
           /\ Cardinality(s) \in Nat \ {0}
           /\ \A x \in s : Cardinality(s \ {x}) = Cardinality(s) - 1
  <1>1. IsFiniteSet(s) /\ Cardinality(s) \in Nat
    BY FS_Subset, FS_CardinalityType
  <1>2. Cardinality(s) # 0
    BY <1>1, FS_EmptySet
  <1>3. \A x \in s : Cardinality(s \ {x}) = Cardinality(s) - 1
    BY <1>1, FS_RemoveElement
  <1> QED BY <1>1, <1>2, <1>3 DEF Chosen

LEMMA FoldExists ==
    ASSUME NEW f, NEW S, IsFiniteSet(S)
    PROVE  \E g : Folds(f, g, S)
  <1> DEFINE Level(n) == \E g : g = [s \in UpTo(S, n) |-> After(f, g, s)]
             T == { n \in Nat : Level(n) }
  <1>1. 0 \in T
    <2> DEFINE g == [s \in UpTo(S, 0) |-> 0]
    <2>1. \A s \in UpTo(S, 0) : s = {}
      BY RestIsSmaller DEF UpTo
    <2>2. g = [s \in UpTo(S, 0) |-> After(f, g, s)]
      BY <2>1 DEF After
    <2> QED BY <2>2
  <1>2. ASSUME NEW n \in T PROVE n + 1 \in T
    <2>1. PICK g : g = [s \in UpTo(S, n) |-> After(f, g, s)]
      BY DEF T
    <2> DEFINE k == [s \in UpTo(S, n + 1) |-> After(f, g, s)]
    <2>2. ASSUME NEW s \in UpTo(S, n + 1), s # {} PROVE g[s \ {Chosen(s)}] = k[s \ {Chosen(s)}]
      <3> DEFINE rest == s \ {Chosen(s)}
      <3>1. rest \in UpTo(S, n) /\ rest \in UpTo(S, n + 1)
        BY <2>2, RestIsSmaller DEF UpTo
      <3> HIDE DEF rest
      <3>2. g[rest] = After(f, g, rest)
        BY <2>1, <3>1
      <3>3. k[rest] = After(f, g, rest)
        BY <3>1
      <3> QED BY <3>2, <3>3 DEF rest
    <2>3. \A s \in UpTo(S, n + 1) : After(f, g, s) = After(f, k, s)
      BY <2>2 DEF After
    <2>4. k = [s \in UpTo(S, n + 1) |-> After(f, k, s)]
      BY <2>3
    <2> HIDE DEF k
    <2>5. Level(n + 1)
      BY <2>4
    <2> QED BY <2>5 DEF T
  <1>3. T = Nat
    BY <1>1, <1>2, NatSet
  <1>4. Cardinality(S) \in Nat /\ UpTo(S, Cardinality(S)) = SUBSET S
    BY FS_CardinalityType, FS_Subset DEF UpTo
  <1>5. Level(Cardinality(S))
    BY <1>3, <1>4
  <1> QED BY <1>4, <1>5 DEF Folds

\* The order of the additions does not matter.
Sums(f, g, S) == \A s \in SUBSET S :
    /\ g[s] \in Nat
    /\ s = {} => g[s] = 0
    /\ \A x \in s : g[s] = f[x] + g[s \ {x}]

LEMMA FoldSums ==
    ASSUME NEW f, NEW g, NEW S, IsFiniteSet(S), \A x \in S : f[x] \in Nat, Folds(f, g, S)
    PROVE  Sums(f, g, S)
  <1> DEFINE Good(s) == /\ g[s] \in Nat /\ (s = {} => g[s] = 0)
                        /\ \A x \in s : g[s] = f[x] + g[s \ {x}]
             T == { n \in Nat : \A s \in UpTo(S, n) : Good(s) }
  <1>0. \A s \in SUBSET S : g[s] = After(f, g, s)
    BY DEF Folds
  <1>e. Good({})
    <2>1. g[{}] = 0
      BY <1>0 DEF After
    <2> QED BY <2>1
  <1>1. 0 \in T
    <2>1. \A s \in UpTo(S, 0) : s = {}
      BY RestIsSmaller DEF UpTo
    <2> QED BY <1>e, <2>1
  <1>2. ASSUME NEW n \in T PROVE n + 1 \in T
    <2>0. n \in Nat /\ \A s \in UpTo(S, n) : Good(s)
      OBVIOUS
    <2> SUFFICES ASSUME NEW s \in UpTo(S, n + 1), s # {} PROVE Good(s)
      BY <1>e, <2>0
    <2> DEFINE y == Chosen(s)
    <2>1. s \in SUBSET S /\ Cardinality(s) \in Nat /\ Cardinality(s) <= n + 1
      BY RestIsSmaller DEF UpTo
    <2>2. y \in s /\ \A x \in s : s \ {x} \in UpTo(S, n) /\ Cardinality(s \ {x}) <= n
      BY <2>0, <2>1, RestIsSmaller DEF UpTo
    <2>3. g[s] = f[y] + g[s \ {y}]
      BY <1>0, <2>1 DEF After
    <2>c. \A x \in s : f[x] \in Nat
      BY <2>1
    <2> HIDE DEF y, T
    <2>4. \A x \in s : Good(s \ {x})
      BY <2>0, <2>2
    <2>5. ASSUME NEW x \in s PROVE g[s] = f[x] + g[s \ {x}]
      <3>1. CASE x = y
        BY <2>3, <3>1
      <3>2. CASE x # y
        <4> DEFINE rest == (s \ {y}) \ {x}
        <4>1. y \in s \ {x} /\ x \in s \ {y} /\ (s \ {x}) \ {y} = rest
          BY <2>2, <3>2
        <4>2. g[s \ {x}] = f[y] + g[rest]
          <5> HIDE DEF rest
          <5> QED BY <2>4, <4>1
        <4>3. g[s \ {y}] = f[x] + g[rest]
          BY <2>2, <2>4, <4>1
        <4>4. Good(rest)
          <5>1. rest \in SUBSET S /\ (rest = {} \/ Cardinality(rest) <= n)
            <6>1. s \ {y} \in SUBSET S /\ s \ {y} # {} /\ Cardinality(s \ {y}) <= n
              BY <2>1, <2>2, <4>1
            <6>2. Cardinality(rest) = Cardinality(s \ {y}) - 1 /\ Cardinality(s \ {y}) \in Nat
              <7> DEFINE w == s \ {y}
              <7>1. w \in SUBSET S /\ w # {} /\ x \in w
                BY <4>1, <6>1
              <7> HIDE DEF w
              <7>2. Cardinality(w \ {x}) = Cardinality(w) - 1 /\ Cardinality(w) \in Nat
                BY <7>1, RestIsSmaller
              <7> QED BY <7>2 DEF w
            <6> QED BY <2>0, <6>1, <6>2
          <5>2. CASE rest = {}
            <6> HIDE DEF rest
            <6> QED BY <1>e, <5>2
          <5>3. CASE Cardinality(rest) <= n
            <6>1. rest \in UpTo(S, n)
              BY <5>1, <5>3 DEF UpTo
            <6> HIDE DEF rest
            <6> QED BY <2>0, <6>1
          <5> QED BY <5>1, <5>2, <5>3
        <4>5. f[x] \in Nat /\ f[y] \in Nat /\ g[rest] \in Nat
          BY <2>2, <2>c, <4>4
        <4> HIDE DEF rest
        <4> QED BY <2>3, <4>2, <4>3, <4>5
      <3> QED BY <3>1, <3>2
    <2>6. g[s] \in Nat
      <3>1. f[y] \in Nat /\ g[s \ {y}] \in Nat
        BY <2>2, <2>4, <2>c
      <3> QED BY <2>3, <3>1
    <2> QED BY <2>5, <2>6
  <1>3. T = Nat
    BY <1>1, <1>2, NatSet
  <1>4. ASSUME NEW s \in SUBSET S PROVE Good(s)
    <2>1. Cardinality(s) \in T /\ s \in UpTo(S, Cardinality(s))
      BY <1>3, FS_Subset, FS_CardinalityType DEF UpTo
    <2> QED BY <2>1
  <1> QED BY <1>4 DEF Sums

\* A sum over fewer orders of smaller balances is smaller.
Pair(f, g, u, v, S) == /\ Sums(f, u, S) /\ Sums(g, v, S)
                       /\ \A x \in S : f[x] \in Nat /\ g[x] \in Nat
Below(f, g, p, q)   == \A x \in p : f[x] = 0 \/ (x \in q /\ f[x] <= g[x])

LEMMA SumsCompare ==
    ASSUME NEW S, IsFiniteSet(S), NEW f, NEW g, NEW u, NEW v, Pair(f, g, u, v, S)
    PROVE  \A p, q \in SUBSET S : Below(f, g, p, q) => u[p] <= v[q]
  <1> DEFINE T == { n \in Nat : \A p \in UpTo(S, n), q \in SUBSET S :
                                   Below(f, g, p, q) => u[p] <= v[q] }
  <1> USE DEF Pair
  <1>t. \A p \in SUBSET S : u[p] \in Nat /\ v[p] \in Nat
    BY DEF Sums
  <1>e. \A q \in SUBSET S : u[{}] <= v[q]
    <2>1. u[{}] = 0
      BY DEF Sums
    <2> QED BY <1>t, <2>1
  <1>1. 0 \in T
    <2>1. \A p \in UpTo(S, 0) : p = {}
      BY RestIsSmaller DEF UpTo
    <2> QED BY <1>e, <2>1
  <1>2. ASSUME NEW n \in T PROVE n + 1 \in T
    <2>0. n \in Nat /\ \A p \in UpTo(S, n), q \in SUBSET S : Below(f, g, p, q) => u[p] <= v[q]
      OBVIOUS
    <2> SUFFICES \A p \in UpTo(S, n + 1), q \in SUBSET S : Below(f, g, p, q) => u[p] <= v[q]
      BY <2>0
    <2> HIDE DEF T
    <2> SUFFICES ASSUME NEW p \in UpTo(S, n + 1), NEW q \in SUBSET S, Below(f, g, p, q), p # {}
                 PROVE  u[p] <= v[q]
      BY <1>e
    <2>1. p \in SUBSET S
      BY DEF UpTo
    <2>2. PICK x \in p : TRUE
      OBVIOUS
    <2> DEFINE rest == p \ {x}
    <2>3. rest \in UpTo(S, n) /\ rest \in SUBSET S
      BY <2>0, <2>1, RestIsSmaller DEF UpTo
    <2>4. u[p] = f[x] + u[rest] /\ x \in S /\ f[x] \in Nat /\ g[x] \in Nat
      BY <2>1 DEF Sums
    <2>5. CASE f[x] = 0
      <3>1. Below(f, g, rest, q)
        BY DEF Below
      <3> HIDE DEF rest
      <3>2. u[rest] <= v[q]
        BY <2>0, <2>3, <3>1
      <3> QED BY <1>t, <2>3, <2>4, <2>5, <3>2
    <2>6. CASE x \in q /\ f[x] <= g[x]
      <3> DEFINE left == q \ {x}
      <3>1. Below(f, g, rest, left) /\ left \in SUBSET S
        BY DEF Below
      <3>2. v[q] = g[x] + v[left]
        BY <2>6 DEF Sums
      <3> HIDE DEF rest, left
      <3>3. u[rest] <= v[left]
        BY <2>0, <2>3, <3>1
      <3> QED BY <1>t, <2>3, <2>4, <2>6, <3>1, <3>2, <3>3
    <2> QED BY <2>2, <2>5, <2>6 DEF Below
  <1>3. T = Nat
    BY <1>1, <1>2, NatSet
  <1>4. ASSUME NEW p \in SUBSET S PROVE Cardinality(p) \in T /\ p \in UpTo(S, Cardinality(p))
    BY <1>3, FS_Subset, FS_CardinalityType DEF UpTo
  <1> QED BY <1>4

\* What has been collected of an order: the sum of its receipts.
LEMMA SumOfIs ==
    ASSUME NEW receipts \in Seq(Nat)
    PROVE  \E u : /\ Sums(receipts, u, DOMAIN receipts)
                  /\ SumOf(receipts) = u[DOMAIN receipts]
  <1> DEFINE S == DOMAIN receipts
             Fits(g) == g = [s \in SUBSET S |-> IF s = {} THEN 0
                               ELSE LET x == CHOOSE x \in s : TRUE
                                    IN  receipts[x] + g[s \ {x}]]
             it == CHOOSE g : Fits(g)
  <1>1. SumOf(receipts) = it[S]
    BY DEF SumOf, MapThenSumSet, MapThenFoldSet
  <1>2. IsFiniteSet(S) /\ \A i \in S : receipts[i] \in Nat
    <2>1. PICK n \in Nat : S = 1..n
      OBVIOUS
    <2> QED BY <2>1, FS_Interval
  <1>3. PICK g : Folds(receipts, g, S)
    BY <1>2, FoldExists
  <1>4. \A k : Fits(k) <=> Folds(receipts, k, S)
    BY DEF Folds, After, Chosen
  <1>5. Folds(receipts, it, S)
    <2> HIDE DEF Fits
    <2>1. \E k : Fits(k)
      BY <1>3, <1>4
    <2>2. Fits(it)
      BY <2>1
    <2> HIDE DEF it
    <2> QED BY <1>4, <2>2
  <1> HIDE DEF it
  <1>6. Sums(receipts, it, S)
    BY <1>2, <1>5, FoldSums
  <1> QED BY <1>1, <1>6

LEMMA SumOfNat ==
    ASSUME NEW receipts \in Seq(Nat)
    PROVE  SumOf(receipts) \in Nat
  <1>1. PICK u : Sums(receipts, u, DOMAIN receipts) /\ SumOf(receipts) = u[DOMAIN receipts]
    BY SumOfIs
  <1> QED BY <1>1 DEF Sums

\* Smaller receipts add up to less; receipts of nothing to nothing.
LEMMA SumOfCompare ==
    ASSUME NEW few \in Seq(Nat), NEW many \in Seq(Nat), DOMAIN few \subseteq DOMAIN many,
           \A i \in DOMAIN few : few[i] <= many[i]
    PROVE  SumOf(few) <= SumOf(many)
  <1>1. PICK u : Sums(few, u, DOMAIN few) /\ SumOf(few) = u[DOMAIN few]
    BY SumOfIs
  <1>2. PICK v : Sums(many, v, DOMAIN many) /\ SumOf(many) = v[DOMAIN many]
    BY SumOfIs
  <1> DEFINE S == DOMAIN few
  <1>3. IsFiniteSet(S) /\ \A i \in S : few[i] \in Nat /\ many[i] \in Nat
    <2>1. PICK n \in Nat : S = 1..n
      OBVIOUS
    <2>2. IsFiniteSet(S)
      BY <2>1, FS_Interval
    <2> QED BY <2>2
  <1>4. Pair(few, many, u, v, S)
    BY <1>1, <1>2, <1>3 DEF Pair, Sums
  <1>5. Below(few, many, S, S)
    BY DEF Below
  <1>6. u[S] <= v[S]
    BY <1>3, <1>4, <1>5, SumsCompare
  <1>7. v[S] <= v[DOMAIN many]
    <2> DEFINE D == DOMAIN many
    <2>1. IsFiniteSet(D) /\ \A i \in D : many[i] \in Nat
      <3>1. PICK n \in Nat : D = 1..n
        OBVIOUS
      <3>2. IsFiniteSet(D)
        BY <3>1, FS_Interval
      <3> QED BY <3>2
    <2>2. Pair(many, many, v, v, D)
      BY <1>2, <2>1 DEF Pair
    <2>3. Below(many, many, S, D)
      BY <2>1 DEF Below
    <2> QED BY <2>1, <2>2, <2>3, SumsCompare
  <1>8. u[S] \in Nat /\ v[S] \in Nat /\ v[DOMAIN many] \in Nat
    BY <1>1, <1>2 DEF Sums
  <1> QED BY <1>1, <1>2, <1>6, <1>7, <1>8

LEMMA SumOfNothing ==
    ASSUME NEW receipts \in Seq(Nat), \A i \in DOMAIN receipts : receipts[i] = 0
    PROVE  SumOf(receipts) = 0
  <1>1. PICK u : Sums(receipts, u, DOMAIN receipts) /\ SumOf(receipts) = u[DOMAIN receipts]
    BY SumOfIs
  <1> DEFINE S == DOMAIN receipts
  <1>2. IsFiniteSet(S)
    <2>1. PICK n \in Nat : S = 1..n
      OBVIOUS
    <2> QED BY <2>1, FS_Interval
  <1>3. Pair(receipts, receipts, u, u, S)
    BY <1>1 DEF Pair
  <1>4. Below(receipts, receipts, S, {})
    BY DEF Below
  <1>5. u[S] <= u[{}]
    BY <1>2, <1>3, <1>4, SumsCompare
  <1>6. u[S] \in Nat /\ u[{}] = 0
    BY <1>1 DEF Sums
  <1> QED BY <1>1, <1>5, <1>6

LEMMA SumOfAppend ==
    ASSUME NEW receipts \in Seq(Nat), NEW amount \in Nat
    PROVE  SumOf(Append(receipts, amount)) = SumOf(receipts) + amount
  <1> DEFINE more == Append(receipts, amount)
             S == DOMAIN receipts
             n == Len(receipts)
  <1>1. /\ more \in Seq(Nat) /\ n \in Nat /\ S = 1..n /\ DOMAIN more = 1..(n + 1)
        /\ more[n + 1] = amount /\ \A i \in S : more[i] = receipts[i] /\ receipts[i] \in Nat
    OBVIOUS
  <1>2. PICK u : Sums(receipts, u, S) /\ SumOf(receipts) = u[S]
    BY SumOfIs
  <1>3. PICK v : Sums(more, v, DOMAIN more) /\ SumOf(more) = v[DOMAIN more]
    BY <1>1, SumOfIs
  <1> HIDE DEF more, n, S
  <1>4. n + 1 \in DOMAIN more /\ DOMAIN more \ {n + 1} = S /\ S \in SUBSET DOMAIN more
    BY <1>1
  <1>5. v[DOMAIN more] = amount + v[S]
    <2>1. \A s \in SUBSET DOMAIN more : \A x \in s : v[s] = more[x] + v[s \ {x}]
      BY <1>3 DEF Sums
    <2>2. v[DOMAIN more] = more[n + 1] + v[DOMAIN more \ {n + 1}]
      BY <1>4, <2>1
    <2> QED BY <1>1, <1>4, <2>2
  <1>6. IsFiniteSet(S)
    BY <1>1, FS_Interval
  <1>7. Sums(receipts, v, S)
    <2>1. \A s \in SUBSET S : s \in SUBSET DOMAIN more
      BY <1>4
    <2>2. \A s \in SUBSET S : \A x \in s : more[x] = receipts[x]
      BY <1>1
    <2> QED BY <1>3, <2>1, <2>2 DEF Sums
  <1>8. Pair(receipts, receipts, u, v, S) /\ Pair(receipts, receipts, v, u, S)
    BY <1>1, <1>2, <1>7 DEF Pair
  <1>9. Below(receipts, receipts, S, S)
    BY <1>1 DEF Below
  <1>10. u[S] <= v[S] /\ v[S] <= u[S]
    BY <1>6, <1>8, <1>9, SumsCompare
  <1>11. u[S] \in Nat /\ v[S] \in Nat
    BY <1>2, <1>7 DEF Sums
  <1>12. v[S] = u[S]
    BY <1>10, <1>11
  <1>13. SumOf(more) = SumOf(receipts) + amount
    BY <1>2, <1>3, <1>5, <1>11, <1>12
  <1> QED BY <1>13 DEF more

-----------------------------------------------------------------------------
(* Type correctness. *)

LEMMA InitType == Init => TypeOK
  <1> SUFFICES ASSUME Init PROVE TypeOK
    OBVIOUS
  <1> USE DEF Init
  <1>1. order \in [Orders -> OrderRow]
    <2> DEFINE g == CHOOSE g \in Guests : TRUE
    <2>1. g \in Guests
      BY GuestsAssumption
    <2>2. Unplaced(g) \in OrderRow
      BY <2>1 DEF Unplaced, OrderRow, PaymentStatuses, OrderStatuses, KitchenQueue
    <2> QED BY <2>2
  <1>2. table \in [Tables -> TableRow]
    BY DEF TableRow
  <1>3. request \in [Handlers -> Request]
    BY DEF Request
  <1> QED BY <1>1, <1>2, <1>3 DEF TypeOK

\* A request of each kind has the fields of its kind.
LEMMA RequestKinds ==
    ASSUME TypeOK, NEW h \in Handlers
    PROVE  /\ request[h] \in Request
           /\ Doing(h, "place")   => request[h] \in PlaceReq
           /\ Doing(h, "void")    => request[h] \in VoidReq
           /\ Doing(h, "status")  => request[h] \in StatusReq
           /\ Doing(h, "counted") => request[h] \in CountedReq
           /\ Doing(h, "approve") => request[h] \in ApproveReq
           /\ Doing(h, "add")     => request[h] \in AddReq
           /\ Doing(h, "pay")     => request[h] \in PayReq
           /\ Doing(h, "book")    => request[h] \in BookReq
           /\ Doing(h, "release") => request[h] \in ReleaseReq
           /\ Doing(h, "settle")  => request[h] \in SettleReq
           /\ Doing(h, "refund")  => request[h] \in RefundReq
           /\ ~IsIdle(h)          => request[h].o \in Orders
  <1> DEFINE r == request[h]
  <1>1. r \in Request
    BY DEF TypeOK
  <1> HIDE DEF r
  <1>2. /\ r.op = "place"   => r \in PlaceReq
        /\ r.op = "void"    => r \in VoidReq
        /\ r.op = "status"  => r \in StatusReq
        /\ r.op = "counted" => r \in CountedReq
        /\ r.op = "approve" => r \in ApproveReq
        /\ r.op = "add"     => r \in AddReq
        /\ r.op = "pay"     => r \in PayReq
        /\ r.op = "book"    => r \in BookReq
        /\ r.op = "release" => r \in ReleaseReq
        /\ r.op = "settle"  => r \in SettleReq
        /\ r.op = "refund"  => r \in RefundReq
        /\ r.op # "none"    => r.o \in Orders
    BY <1>1 DEF Request, Idle, PlaceReq, VoidReq, StatusReq, CountedReq, ApproveReq,
                AddReq, PayReq, BookReq, ReleaseReq, SettleReq, RefundReq
  <1> QED BY <1>1, <1>2 DEF r, Doing, IsIdle

\* Reading steps only give the handler a new request.
LEMMA ReadType ==
    ASSUME TypeOK, NEW h \in Handlers, NEW r \in Request,
           request' = [request EXCEPT ![h] = r],
           UNCHANGED <<order, table, accepting, waived, crossed>>
    PROVE  TypeOK'
  BY DEF TypeOK

\* Committing steps rewrite one row and leave the handler idle.
LEMMA CommitType ==
    ASSUME TypeOK, NEW h \in Handlers, NEW o \in Orders, NEW row \in OrderRow,
           order' = [order EXCEPT ![o] = row], Finish(h),
           UNCHANGED <<table, accepting, waived, crossed>>
    PROVE  TypeOK'
  BY DEF TypeOK, Finish, Request

LEMMA StatusesSettable == SettableStatuses \subseteq OrderStatuses
  BY DEF SettableStatuses, OrderStatuses

LEMMA TransitionsType ==
    ASSUME NEW from, NEW to, CanTransition(from, to)
    PROVE  from \in OrderStatuses /\ to \in OrderStatuses
  BY DEF CanTransition, ALLOWED_TRANSITIONS, OrderStatuses, HELD_STATUSES, KitchenQueue,
         TerminalStatuses

LEMMA StatusReadType ==
    ASSUME TypeOK, NEW o \in Orders, NEW next, NEW actor \in Staff \union {Nobody},
           CanTransition(order[o].status, next)
    PROVE  StatusRead(o, next, actor) \in StatusReq
  <1>1. order[o].status \in OrderStatuses /\ next \in OrderStatuses
    BY TransitionsType
  <1> QED BY <1>1 DEF StatusRead, StatusReq

LEMMA GuestType ==
    ASSUME TypeOK, NEW h \in Handlers, Guest(h)
    PROVE  TypeOK'
  <1> PICK o \in Orders :
        \/ \E t \in Tables \union {NoTable}, g \in Guests, s \in Subtotals :
               ReadPlace(h, o, t, g, s)
        \/ CheckVoid(h, o, Nobody)
        \/ InitiateOnline(h, o)
    BY DEF Guest
  <1>r. order[o] \in OrderRow
    BY DEF TypeOK
  <1>1. ASSUME NEW t \in Tables \union {NoTable}, NEW g \in Guests, NEW s \in Subtotals,
               ReadPlace(h, o, t, g, s)
        PROVE  TypeOK'
    <2> DEFINE total == TotalOf(s)
               hold  == EvaluateHold(OpenBalance(t, g) + total, total, Gates)
               row   == [ Unplaced(g) EXCEPT !.status = hold.status, !.hold = hold.status,
                                    !.advance = hold.advance, !.table = t,
                                    !.lines = s, !.total = total, !.recent = TRUE ]
    <2>1. s \in Nat /\ total \in Nat
      BY TotalNat, AmountsAssumption
    <2>2. hold.status \in HELD_STATUSES \union {"PENDING"} /\ hold.advance \in Nat
      BY <2>1, HoldType
    <2>3. request' = [request EXCEPT ![h] = [op |-> "place", o |-> o, row |-> row]]
      BY <1>1 DEF ReadPlace, Start
    <2> HIDE DEF hold, total
    <2>4. row \in OrderRow
      <3>1. Unplaced(g) \in OrderRow
        BY DEF Unplaced, OrderRow, PaymentStatuses, OrderStatuses, KitchenQueue
      <3> QED BY <2>1, <2>2, <3>1 DEF OrderRow, OrderStatuses, KitchenQueue
    <2> HIDE DEF row
    <2>5. [op |-> "place", o |-> o, row |-> row] \in Request
      BY <2>4 DEF Request, PlaceReq
    <2> QED BY <1>1, <2>3, <2>5, ReadType DEF ReadPlace
  <1>2. CASE CheckVoid(h, o, Nobody)
    <2>1. [op |-> "void", o |-> o, actor |-> Nobody] \in Request
      BY DEF Request, VoidReq
    <2> QED BY <1>2, <2>1, ReadType DEF CheckVoid, Start
  <1>3. CASE InitiateOnline(h, o)
    <2> DEFINE due == IF order[o].status = "AWAITING_ADVANCE_PAYMENT"
                      THEN AdvanceDue(o) ELSE order[o].total - order[o].collected
    <2>1. due \in Nat
      BY <1>3, <1>r DEF InitiateOnline, AdvanceDue, OrderRow
    <2> HIDE DEF due
    <2>2. [op |-> "pay", o |-> o, amount |-> due] \in Request
      BY <2>1 DEF Request, PayReq
    <2> QED BY <1>3, <2>2, ReadType DEF InitiateOnline, Start, due
  <1> QED BY <1>1, <1>2, <1>3

LEMMA StaffedType ==
    ASSUME TypeOK, NEW h \in Handlers, Staffed(h)
    PROVE  TypeOK'
  <1> PICK o \in Orders, a \in Staff :
        \/ \E next \in SettableStatuses : ReadUpdate(h, o, next, a)
        \/ CheckVoid(h, o, a)
        \/ ReadApprove(h, o, a)
        \/ \E extra \in Extras : ReadAdd(h, o, extra)
        \/ CheckCashAdvance(h, o)
        \/ CheckCashPayment(h, o)
        \/ \E payment \in {"PAID", "UNPAID"} : ReadSettle(h, o, payment)
        \/ \E i \in DOMAIN order[o].receipts : ReadRefund(h, o, i)
        \/ ReadSettleRefund(h, o)
    BY DEF Staffed
  <1>r. order[o] \in OrderRow
    BY DEF TypeOK
  <1>1. ASSUME NEW next \in SettableStatuses, ReadUpdate(h, o, next, a) PROVE TypeOK'
    <2>1. StatusRead(o, next, a) \in Request
      BY <1>1, StatusReadType DEF ReadUpdate, Request
    <2> QED BY <1>1, <2>1, ReadType DEF ReadUpdate, Start
  <1>2. CASE CheckVoid(h, o, a)
    <2>1. [op |-> "void", o |-> o, actor |-> a] \in Request
      BY DEF Request, VoidReq
    <2> QED BY <1>2, <2>1, ReadType DEF CheckVoid, Start
  <1>3. CASE ReadApprove(h, o, a)
    <2> DEFINE next == IF order[o].collected < order[o].advance
                       THEN "AWAITING_ADVANCE_PAYMENT" ELSE "PENDING"
    <2>1. [op |-> "approve", o |-> o, actor |-> a, next |-> next] \in Request
      BY DEF Request, ApproveReq, OrderStatuses, HELD_STATUSES, KitchenQueue
    <2> QED BY <1>3, <2>1, ReadType DEF ReadApprove, Start
  <1>4. ASSUME NEW extra \in Extras, ReadAdd(h, o, extra) PROVE TypeOK'
    <2>1. extra \in Nat /\ order[o].lines \in Nat
      BY <1>r, AmountsAssumption DEF OrderRow
    <2>2. TotalOf(order[o].lines + extra) \in Nat
      BY <2>1, TotalNat
    <2>3. [op |-> "add", o |-> o, extra |-> extra,
           total |-> TotalOf(order[o].lines + extra)] \in Request
      BY <2>1, <2>2 DEF Request, AddReq
    <2> QED BY <1>4, <2>3, ReadType DEF ReadAdd, Start
  <1>5. CASE CheckCashAdvance(h, o)
    <2>1. AdvanceDue(o) \in Nat
      BY <1>5, <1>r DEF CheckCashAdvance, AdvanceDue, OrderRow
    <2>2. [op |-> "pay", o |-> o, amount |-> AdvanceDue(o)] \in Request
      BY <2>1 DEF Request, PayReq
    <2> QED BY <1>5, <2>2, ReadType DEF CheckCashAdvance, Start
  <1>6. CASE CheckCashPayment(h, o)
    <2>1. [op |-> "pay", o |-> o, amount |-> order[o].total] \in Request
      BY <1>r DEF Request, PayReq, OrderRow
    <2> QED BY <1>6, <2>1, ReadType DEF CheckCashPayment, Start
  <1>7. ASSUME NEW payment \in {"PAID", "UNPAID"}, ReadSettle(h, o, payment) PROVE TypeOK'
    <2>1. [op |-> "settle", o |-> o, payment |-> payment,
           amount |-> IF payment = "PAID" THEN order[o].total ELSE 0] \in Request
      BY <1>r DEF Request, SettleReq, OrderRow, PaymentStatuses
    <2> QED BY <1>7, <2>1, ReadType DEF ReadSettle, Start
  <1>8. ASSUME NEW i \in DOMAIN order[o].receipts, ReadRefund(h, o, i) PROVE TypeOK'
    <2> DEFINE closes == Standing(o) = {i}
    <2>1. i \in Nat /\ closes \in BOOLEAN
      BY <1>r DEF OrderRow
    <2>2. request' = [request EXCEPT ![h] =
                        [op |-> "refund", o |-> o, gone |-> {i}, closes |-> closes]]
      BY <1>8 DEF ReadRefund, Start
    <2> HIDE DEF closes
    <2>3. [op |-> "refund", o |-> o, gone |-> {i}, closes |-> closes] \in Request
      BY <2>1 DEF Request, RefundReq
    <2> QED BY <1>8, <2>2, <2>3, ReadType DEF ReadRefund
  <1>9. CASE ReadSettleRefund(h, o)
    <2>1. Standing(o) \in SUBSET Nat
      BY <1>r DEF OrderRow, Standing
    <2>2. [op |-> "refund", o |-> o, gone |-> Standing(o), closes |-> TRUE] \in Request
      BY <2>1 DEF Request, RefundReq
    <2> QED BY <1>9, <2>2, ReadType DEF ReadSettleRefund, Start
  <1> QED BY <1>1, <1>2, <1>3, <1>4, <1>5, <1>6, <1>7, <1>8, <1>9

\* A payment booked, and payments taken back, leave a row of the same shape.
LEMMA BookedType ==
    ASSUME NEW row \in OrderRow, NEW amount \in Nat
    PROVE  Booked(row, amount) \in OrderRow
  <1>1. Append(row.receipts, amount) \in Seq(Nat) /\ row.collected + amount \in Nat
    BY DEF OrderRow
  <1> QED BY <1>1 DEF Booked, OrderRow

LEMMA WithoutType ==
    ASSUME NEW receipts \in Seq(Nat), NEW gone
    PROVE  /\ Without(receipts, gone) \in Seq(Nat)
           /\ SumOf(Without(receipts, gone)) \in Nat
           /\ DOMAIN Without(receipts, gone) = DOMAIN receipts
  <1>1. PICK n \in Nat : receipts \in [1..n -> Nat]
    OBVIOUS
  <1>2. Without(receipts, gone) \in [1..n -> Nat]
    BY <1>1 DEF Without
  <1>3. Without(receipts, gone) \in Seq(Nat)
    BY <1>2
  <1> QED BY <1>1, <1>2, <1>3, SumOfNat

LEMMA ProceedType ==
    ASSUME TypeOK, NEW h \in Handlers, Proceed(h)
    PROVE  TypeOK'
  <1> DEFINE r == request[h]
             o == request[h].o
  <1>o. ~IsIdle(h) => o \in Orders /\ order[o] \in OrderRow
    BY RequestKinds DEF TypeOK
  <1>1. CASE CommitPlace(h)
    <2>1. r \in PlaceReq
      BY <1>1, RequestKinds DEF CommitPlace
    <2>2. o \in Orders /\ r.row \in OrderRow /\ r.row.table \in Tables \union {NoTable}
      BY <2>1 DEF PlaceReq, OrderRow
    <2>3. order' \in [Orders -> OrderRow]
      BY <1>1, <2>2 DEF CommitPlace, Update, TypeOK
    <2>4. table' \in [Tables -> TableRow]
      BY <1>1, <2>2 DEF CommitPlace, TypeOK, TableRow
    <2> QED BY <1>1, <2>3, <2>4 DEF CommitPlace, TypeOK, Finish, Request
  <1>2. CASE ReadVoid(h)
    <2>1. r \in VoidReq
      BY <1>2, RequestKinds DEF ReadVoid
    <2>2. o \in Orders /\ r.actor \in Staff \union {Nobody}
      BY <2>1 DEF VoidReq
    <2>3. StatusRead(o, "CANCELLED", r.actor) \in Request
      BY <1>2, <2>2, StatusReadType DEF ReadVoid, Request
    <2> QED BY <1>2, <2>3, ReadType DEF ReadVoid, Continue
  <1>3. CASE CountOpen(h)
    <2> DEFINE frees == /\ order[o].table # NoTable
                        /\ r.next \in TerminalStatuses
                        /\ OpenOn(order[o].table) \subseteq {o}
               counted == [ op |-> "counted", o |-> o, actor |-> r.actor, seen |-> r.seen,
                  next |-> r.next, first |-> r.first, frees |-> frees ]
    <2>1. r \in StatusReq
      BY <1>3, RequestKinds DEF CountOpen
    <2>2. frees \in BOOLEAN
      OBVIOUS
    <2>3. request' = [request EXCEPT ![h] = counted]
      BY <1>3 DEF CountOpen, Continue
    <2> HIDE DEF frees
    <2>4. counted \in Request
      BY <2>1, <2>2 DEF StatusReq, CountedReq, Request
    <2> HIDE DEF counted
    <2> QED BY <1>3, <2>3, <2>4, ReadType DEF CountOpen
  <1>4. CASE CommitStatus(h)
    <2>1. r \in CountedReq
      BY <1>4, RequestKinds DEF CommitStatus
    <2>2. o \in Orders /\ order[o] \in OrderRow
      BY <2>1 DEF CountedReq, TypeOK
    <2> DEFINE row == [order[o] EXCEPT !.status    = r.next,
                            !.handledBy = IF r.first THEN r.actor ELSE order[o].handledBy]
    <2>3. row \in OrderRow
      <3>1. /\ r.next \in OrderStatuses
            /\ (IF r.first THEN r.actor ELSE order[o].handledBy) \in Staff \union {Nobody}
        BY <2>1, <2>2 DEF CountedReq, OrderRow
      <3> QED BY <2>2, <3>1 DEF OrderRow
    <2>4. order' = [order EXCEPT ![o] = row]
      BY <1>4 DEF CommitStatus, Update
    <2> HIDE DEF row
    <2>5. order' \in [Orders -> OrderRow]
      BY <2>2, <2>3, <2>4 DEF TypeOK
    <2>6. table' \in [Tables -> TableRow]
      BY <1>4 DEF CommitStatus, TypeOK, TableRow
    <2>7. waived' \subseteq Orders
      BY <1>4, <2>2 DEF CommitStatus, TypeOK
    <2> QED BY <1>4, <2>5, <2>6, <2>7 DEF CommitStatus, TypeOK, Finish, Request
  <1>5. CASE CommitApprove(h)
    <2>1. r \in ApproveReq
      BY <1>5, RequestKinds DEF CommitApprove
    <2>2. o \in Orders /\ order[o] \in OrderRow
      BY <2>1 DEF ApproveReq, TypeOK
    <2> DEFINE row == [order[o] EXCEPT !.status = r.next, !.approvedBy = r.actor]
    <2>3. row \in OrderRow
      BY <2>1, <2>2 DEF ApproveReq, OrderRow
    <2> QED BY <1>5, <2>2, <2>3, CommitType DEF CommitApprove, Update
  <1>6. CASE CommitAdd(h)
    <2>1. r \in AddReq
      BY <1>6, RequestKinds DEF CommitAdd
    <2>2. o \in Orders /\ order[o] \in OrderRow
      BY <2>1 DEF AddReq, TypeOK
    <2> DEFINE row == [order[o] EXCEPT !.total = r.total, !.lines = order[o].lines + r.extra]
    <2>3. row \in OrderRow
      <3>1. r.total \in Nat /\ order[o].lines + r.extra \in Nat
        BY <2>1, <2>2 DEF AddReq, OrderRow
      <3> QED BY <2>2, <3>1 DEF OrderRow
    <2> QED BY <1>6, <2>2, <2>3, CommitType DEF CommitAdd, Update
  <1>7. CASE ReadBook(h)
    <2>1. r \in PayReq
      BY <1>7, RequestKinds DEF ReadBook
    <2>2. [ op |-> "book", o |-> o, amount |-> r.amount,
            settles |-> order[o].collected + r.amount >= order[o].total ] \in Request
      BY <2>1 DEF PayReq, BookReq, Request
    <2> QED BY <1>7, <2>2, ReadType DEF ReadBook, Continue
  <1>8. CASE ReadRelease(h)
    <2> DEFINE releases == /\ order[o].status = "AWAITING_ADVANCE_PAYMENT"
                           /\ order[o].collected + r.amount >= order[o].advance
    <2>1. r \in BookReq
      BY <1>8, RequestKinds DEF ReadRelease
    <2>2. [ op |-> "release", o |-> o, amount |-> r.amount, settles |-> r.settles,
            releases |-> releases ] \in Request
      BY <2>1 DEF BookReq, ReleaseReq, Request
    <2> QED BY <1>8, <2>2, ReadType DEF ReadRelease, Continue
  <1>9. CASE CommitBook(h)
    <2>1. r \in ReleaseReq
      BY <1>9, RequestKinds DEF CommitBook
    <2>2. o \in Orders /\ order[o] \in OrderRow
      BY <2>1 DEF ReleaseReq, TypeOK
    <2> DEFINE row == [ Booked(order[o], r.amount) EXCEPT
                !.payment = IF r.settles THEN "PAID" ELSE order[o].payment,
                !.status  = IF r.releases THEN "PENDING" ELSE order[o].status ]
    <2>3. row \in OrderRow
      <3>1. Booked(order[o], r.amount) \in OrderRow
        BY <2>1, <2>2, BookedType DEF ReleaseReq
      <3>2. (IF r.settles THEN "PAID" ELSE order[o].payment) \in PaymentStatuses
        BY <2>2 DEF OrderRow, PaymentStatuses
      <3>3. (IF r.releases THEN "PENDING" ELSE order[o].status)
               \in OrderStatuses \union {"UNPLACED"}
        BY <2>2 DEF OrderRow, OrderStatuses, KitchenQueue
      <3> QED BY <3>1, <3>2, <3>3 DEF OrderRow
    <2> QED BY <1>9, <2>2, <2>3, CommitType DEF CommitBook, Update
  <1>10. CASE CommitSettle(h)
    <2>1. r \in SettleReq
      BY <1>10, RequestKinds DEF CommitSettle
    <2>2. o \in Orders /\ order[o] \in OrderRow
      BY <2>1 DEF SettleReq, TypeOK
    <2> DEFINE booked == IF r.payment = "PAID" THEN Booked(order[o], r.amount) ELSE order[o]
               row == [booked EXCEPT !.payment = r.payment]
    <2>3. row \in OrderRow
      <3>1. booked \in OrderRow
        BY <2>1, <2>2, BookedType DEF SettleReq
      <3> QED BY <2>1, <3>1 DEF OrderRow, SettleReq
    <2> QED BY <1>10, <2>2, <2>3, CommitType DEF CommitSettle, Update
  <1>11. CASE CommitRefund(h)
    <2>1. r \in RefundReq
      BY <1>11, RequestKinds DEF CommitRefund
    <2>2. o \in Orders /\ order[o] \in OrderRow
      BY <2>1 DEF RefundReq, TypeOK
    <2> DEFINE left == Without(order[o].receipts, r.gone)
               row == [order[o] EXCEPT !.receipts  = left,
                                       !.collected = SumOf(left),
                                       !.payment   = IF r.closes THEN "REFUNDED"
                                                     ELSE order[o].payment ]
    <2>3. row \in OrderRow
      <3>1. left \in Seq(Nat) /\ SumOf(left) \in Nat
        BY <2>2, WithoutType DEF OrderRow
      <3> HIDE DEF left
      <3>2. (IF r.closes THEN "REFUNDED" ELSE order[o].payment) \in PaymentStatuses
        BY <2>2 DEF OrderRow, PaymentStatuses
      <3> QED BY <2>2, <3>1, <3>2 DEF OrderRow
    <2>4. order' = [order EXCEPT ![o] = row]
      BY <1>11 DEF CommitRefund, Update
    <2> HIDE DEF row
    <2>5. order' \in [Orders -> OrderRow]
      BY <2>2, <2>3, <2>4 DEF TypeOK
    <2>6. crossed' \subseteq Orders
      BY <1>11, <2>2 DEF CommitRefund, TypeOK
    <2> QED BY <1>11, <2>5, <2>6 DEF CommitRefund, TypeOK, Finish, Request
  <1>12. CASE Abort(h)
    BY <1>12, ReadType DEF Abort, Finish, Request
  <1> QED BY <1>1, <1>2, <1>3, <1>4, <1>5, <1>6, <1>7, <1>8, <1>9, <1>10, <1>11, <1>12
          DEF Proceed

LEMMA EnvironmentType == TypeOK /\ Environment => TypeOK'
  <1> SUFFICES ASSUME TypeOK, Environment PROVE TypeOK'
    OBVIOUS
  <1>1. ASSUME NEW t \in Tables, NEW b \in BOOLEAN, SetTableActive(t, b) PROVE TypeOK'
    BY <1>1 DEF SetTableActive, TypeOK, TableRow
  <1>2. ASSUME NEW b \in BOOLEAN, SetAccepting(b) PROVE TypeOK'
    BY <1>2 DEF SetAccepting, TypeOK
  <1>3. ASSUME NEW o \in Orders, WindowPasses(o) PROVE TypeOK'
    <2>1. [order[o] EXCEPT !.recent = FALSE] \in OrderRow
      BY DEF TypeOK, OrderRow
    <2>2. order' \in [Orders -> OrderRow]
      BY <1>3, <2>1 DEF WindowPasses, TypeOK
    <2> QED BY <1>3, <2>2 DEF WindowPasses, TypeOK
  <1> QED BY <1>1, <1>2, <1>3 DEF Environment

LEMMA TypeStep == TypeOK /\ [Next]_vars => TypeOK'
  <1> SUFFICES ASSUME TypeOK, [Next]_vars PROVE TypeOK'
    OBVIOUS
  <1>1. CASE Next
    BY <1>1, GuestType, StaffedType, ProceedType, EnvironmentType DEF Next
  <1>2. CASE UNCHANGED vars
    BY <1>2 DEF vars, TypeOK
  <1> QED BY <1>1, <1>2

\* Every reachable state of the order, table and request rows is well formed,
\* for any number of orders, tables and handlers.
THEOREM TypeCorrect == Spec => []TypeOK
  BY InitType, TypeStep, PTL DEF Spec

-----------------------------------------------------------------------------
(* The gates hold however requests interleave.                              *)

Gated == ApprovalHonoured /\ NeverOverbilled
IInv  == TypeOK /\ InFlightSound /\ Gated

\* What one step must keep for GateHonoured.
GateKept ==
    \A o \in Orders \ (waived' \union crossed') :
        /\ order[o].status \in HELD_STATUSES \union {"UNPLACED"}
        /\ order'[o].status \in Cooked
        => order'[o].collected >= order'[o].advance

LEMMA InitIInv == Init => InFlightSound /\ Gated
  <1> SUFFICES ASSUME Init PROVE InFlightSound /\ Gated
    OBVIOUS
  <1>1. \A h \in Handlers : request[h].op = "none"
    BY DEF Init, Idle
  <1>2. InFlightSound
    <2>1. \A o \in Orders : order[o].status \notin Cooked
      BY DEF Init, Unplaced, Cooked, KitchenQueue
    <2> QED BY <1>1, <2>1 DEF InFlightSound, NoRival, Sound, Doing
  <1>3. \A o \in Orders : /\ order[o].status = "UNPLACED"
                          /\ order[o].total = 0 /\ order[o].lines = 0
    BY DEF Init, Unplaced
  <1>4. TotalOf(0) \in Nat
    BY TotalNat
  <1> QED BY <1>2, <1>3, <1>4 DEF Gated, ApprovalHonoured, NeverOverbilled,
                                  Cooked, KitchenQueue

\* A handler takes on a sound request; the rows stay as they are.
LEMMA ReadSound ==
    ASSUME InFlightSound, Gated, NEW h \in Handlers, NEW r, Sound(r), r.op # "place",
           r.op = "approve" => order[r.o].status \in HELD_STATUSES,
           request \in [Handlers -> Request],
           request' = [request EXCEPT ![h] = r], UNCHANGED <<order, waived, crossed>>
    PROVE  InFlightSound' /\ Gated'
  <1>1. Gated'
    BY DEF Gated, ApprovalHonoured, NeverOverbilled
  <1>2. NoRival'
    BY DEF InFlightSound, NoRival, Doing
  <1>3. \A o : Unsure(o)' => Unsure(o)
    BY DEF Unsure, Doing
  <1>4. \A o : (Cleared(o)' <=> Cleared(o)) /\ (Approved(o)' <=> Approved(o))
    BY DEF Cleared, Approved
  <1>5. ASSUME NEW k \in Handlers PROVE Sound(request[k])'
    <2>1. Sound(request'[k])
      BY DEF InFlightSound
    <2> QED BY <1>3, <1>4, <2>1 DEF Sound, PlacingSound, StatusSound, ApprovingSound,
                                    ReleasingSound, AddingSound, Placed
  <1>6. \A o \in Orders : order'[o].status \in Cooked /\ Unsure(o)' => Cleared(o)'
    BY <1>3, <1>4 DEF InFlightSound
  <1> QED BY <1>1, <1>2, <1>5, <1>6 DEF InFlightSound

\* The other requests in flight about an order, and whether one of them approves it.
Others(h, o)    == { k \in Handlers \ {h} : ~IsIdle(k) /\ request[k].o = o }
Approving(h, o) == \E k \in Handlers \ {h} : Doing(k, "approve") /\ request[k].o = o

\* What a step must keep of a placed order for the other requests about it to
\* stay sound.
Keeps(p) ==
    Placed(p) => /\ order'[p].status # "UNPLACED"
                 /\ Cleared(p)  => Cleared(p)'
                 /\ Approved(p) => Approved(p)'
                 /\ Unsure(p)'  => Unsure(p)
                 /\ order[p].lines <= order'[p].lines
                 /\ order[p].advance = order'[p].advance
                 /\ p \in crossed' \/ order[p].collected <= order'[p].collected
                 /\ crossed \subseteq crossed'

\* A handler finishes; the other requests in flight stay sound.
LEMMA FinishSound ==
    ASSUME TypeOK, TypeOK', InFlightSound, NEW h \in Handlers, Finish(h),
           \A p \in Orders : Others(h, p) # {} => Keeps(p),
           \A k \in Handlers \ {h} : Doing(k, "place") => ~Placed(request[k].o)',
           \A p \in Orders : order'[p].status \in Cooked /\ Unsure(p)' => Cleared(p)'
    PROVE  InFlightSound'
  <1>1. /\ request'[h] = Idle
        /\ \A k \in Handlers \ {h} : request'[k] = request[k]
    BY DEF TypeOK, Finish
  <1>2. NoRival'
    BY <1>1 DEF InFlightSound, NoRival, Doing, Idle
  <1>3. ASSUME NEW k \in Handlers PROVE Sound(request[k])'
    <2>1. CASE k = h
      BY <1>1, <2>1 DEF Sound, Idle
    <2>2. CASE k # h
      <3> DEFINE r == request[k]
      <3>1. Sound(r) /\ request'[k] = r
        BY <1>1, <2>2 DEF InFlightSound
      <3>2. CASE r.op = "place"
        <4>1. ~(order'[r.o].status # "UNPLACED")
          BY <2>2, <3>1, <3>2 DEF Doing, Placed
        <4> QED BY <3>1, <3>2, <4>1 DEF Sound, PlacingSound, Placed
      <3>3. CASE r.op = "none"
        BY <3>1, <3>3 DEF Sound
      <3>4. CASE r.op \notin {"none", "place"}
        <4>1. r.o \in Orders
          BY <3>4, RequestKinds DEF IsIdle
        <4>2. Placed(r.o)
          BY <3>1, <3>4 DEF Sound
        <4>q. PICK p \in Orders : p = r.o
          BY <4>1
        <4>k. Keeps(p)
          <5>1. k \in Others(h, p)
            BY <2>2, <3>4, <4>q DEF Others, IsIdle
          <5> QED BY <5>1
        <4>3. /\ Placed(p)'
              /\ Cleared(p)  => Cleared(p)'
              /\ Approved(p) => Approved(p)'
              /\ Unsure(p)'  => Unsure(p)
              /\ order[p].lines <= order'[p].lines
              /\ order[p].advance = order'[p].advance
              /\ p \in crossed' \/ order[p].collected <= order'[p].collected
              /\ crossed \subseteq crossed'
          <5>1. Placed(p)
            BY <4>2, <4>q
          <5> QED BY <4>k, <5>1 DEF Keeps, Placed
        <4>p. (Cleared(r.o)' <=> Cleared(p)') /\ (Approved(r.o)' <=> Approved(p)')
              /\ (Unsure(r.o)' <=> Unsure(p)')
          BY <3>1, <4>q DEF Cleared, Approved, Unsure
        <4>4. r.op \in {"status", "counted"} => StatusSound(r)'
          BY <3>1, <4>3, <4>p, <4>q DEF Sound, StatusSound
        <4>5. r.op = "approve" => ApprovingSound(r)'
          BY <3>1, <4>3, <4>p, <4>q DEF Sound, ApprovingSound
        <4>6. ASSUME r.op = "add" PROVE AddingSound(r)'
          <5>1. r.extra \in Nat /\ r.total \in Nat
            BY <4>6, RequestKinds DEF Doing, AddReq
          <5>2. order[r.o].lines \in Nat /\ order'[r.o].lines \in Nat
            BY <4>1 DEF TypeOK, OrderRow
          <5>3. TotalOf(order[r.o].lines + r.extra) <= TotalOf(order'[r.o].lines + r.extra)
            BY <4>3, <4>q, <5>1, <5>2, TotalMonotone
          <5>4. /\ TotalOf(order[r.o].lines + r.extra) \in Nat
                /\ TotalOf(order'[r.o].lines + r.extra) \in Nat
            BY <5>1, <5>2, TotalNat
          <5>5. r.total <= TotalOf(order[r.o].lines + r.extra)
            BY <3>1, <4>6 DEF Sound, AddingSound
          <5>6. r.total <= TotalOf(order'[r.o].lines + r.extra)
            BY <5>1, <5>3, <5>4, <5>5
          <5> QED BY <3>1, <5>6 DEF AddingSound
        <4>7. ASSUME r.op = "release" PROVE ReleasingSound(r)'
          <5>1. r.amount \in Nat
            BY <4>7, RequestKinds DEF Doing, ReleaseReq
          <5>2. /\ order[r.o].collected \in Nat /\ order'[r.o].collected \in Nat
                /\ order'[r.o].advance \in Nat
            BY <4>1 DEF TypeOK, OrderRow
          <5>3. r.releases => /\ Approved(r.o)
                              /\ \/ r.o \in crossed
                                 \/ order[r.o].collected + r.amount >= order[r.o].advance
            BY <3>1, <4>7 DEF Sound, ReleasingSound
          <5>4. r.releases => \/ r.o \in crossed'
                              \/ order'[r.o].collected + r.amount >= order'[r.o].advance
            BY <4>3, <4>q, <5>1, <5>2, <5>3
          <5>5. r.releases => Approved(r.o)'
            BY <4>3, <4>p, <4>q, <5>3
          <5> QED BY <3>1, <5>4, <5>5 DEF ReleasingSound
        <4> QED BY <3>1, <3>4, <4>3, <4>4, <4>5, <4>6, <4>7, <4>q DEF Sound, Placed
      <3> QED BY <3>2, <3>3, <3>4
    <2> QED BY <2>1, <2>2
  <1> QED BY <1>2, <1>3 DEF InFlightSound

LEMMA StatusReadSound ==
    ASSUME InFlightSound, Gated, NEW o \in Orders, NEW next, NEW actor, Placed(o),
           CanTransition(order[o].status, next), next \in SettableStatuses
    PROVE  Sound(StatusRead(o, next, actor))
  <1>1. order[o].status \in Cooked => Approved(o) /\ (Unsure(o) => Cleared(o))
    BY DEF InFlightSound, Gated, ApprovalHonoured, Approved, Cooked, KitchenQueue
  <1> QED BY <1>1 DEF StatusRead, Sound, StatusSound

LEMMA GuestSound ==
    ASSUME IInv, NEW h \in Handlers, Guest(h)
    PROVE  InFlightSound' /\ Gated'
  <1> USE DEF IInv
  <1> PICK o \in Orders :
        \/ \E t \in Tables \union {NoTable}, g \in Guests, s \in Subtotals :
               ReadPlace(h, o, t, g, s)
        \/ CheckVoid(h, o, Nobody)
        \/ InitiateOnline(h, o)
    BY DEF Guest
  <1>t. request \in [Handlers -> Request]
    BY DEF TypeOK
  <1>1. ASSUME NEW t \in Tables \union {NoTable}, NEW g \in Guests, NEW s \in Subtotals,
               ReadPlace(h, o, t, g, s)
        PROVE  InFlightSound' /\ Gated'
    <2> DEFINE total == TotalOf(s)
               hold  == EvaluateHold(OpenBalance(t, g) + total, total, Gates)
               row   == [ Unplaced(g) EXCEPT !.status = hold.status, !.hold = hold.status,
                                    !.advance = hold.advance, !.table = t,
                                    !.lines = s, !.total = total, !.recent = TRUE ]
               r     == [op |-> "place", o |-> o, row |-> row]
    <2>1. total \in Nat
      BY TotalNat, AmountsAssumption
    <2>2. /\ hold.status \in HELD_STATUSES \union {"PENDING"}
          /\ hold.status = "PENDING" => hold.advance = 0
      BY <2>1, HoldType
    <2>3. request' = [request EXCEPT ![h] = r]
      BY <1>1 DEF ReadPlace, Start
    <2>4. row.total = TotalOf(row.lines) /\ row.status = hold.status
          /\ row.hold = hold.status /\ row.advance = hold.advance
      BY DEF Unplaced
    <2> HIDE DEF hold, total, row
    <2>5. ~Placed(o)
      BY <1>1 DEF ReadPlace
    <2>6. PlacingSound(r)
      BY <2>2, <2>4, <2>5 DEF PlacingSound
    <2>7. UNCHANGED <<order, waived, crossed>>
      BY <1>1 DEF ReadPlace
    <2>8. request'[h] = r /\ \A k \in Handlers \ {h} : request'[k] = request[k]
      BY <1>t, <2>3
    <2>9. r.op = "place" /\ r.o = o
      OBVIOUS
    <2> HIDE DEF r
    <2>10. \A k \in Handlers : Doing(k, "place") => request[k].o # o
      BY <1>1 DEF ReadPlace
    <2>11. NoRival'
      BY <2>8, <2>9, <2>10 DEF InFlightSound, NoRival, Doing
    <2>12. Sound(r)
      BY <2>6, <2>9 DEF Sound
    <2>13. ASSUME NEW k \in Handlers PROVE Sound(request[k])'
      <3>1. Sound(request'[k])
        BY <2>8, <2>12 DEF InFlightSound
      <3>2. \A p : Unsure(p)' => Unsure(p)
        BY <2>7, <2>8, <2>9 DEF Unsure, Doing
      <3>3. \A p : (Cleared(p)' <=> Cleared(p)) /\ (Approved(p)' <=> Approved(p))
        BY <2>7 DEF Cleared, Approved
      <3> QED BY <2>7, <3>1, <3>2, <3>3 DEF Sound, PlacingSound, StatusSound,
                          ApprovingSound, ReleasingSound, AddingSound, Placed
    <2>14. \A p \in Orders : order'[p].status \in Cooked /\ Unsure(p)' => Cleared(p)'
      <3>1. \A p : Unsure(p)' => Unsure(p)
        BY <2>7, <2>8, <2>9 DEF Unsure, Doing
      <3> QED BY <2>7, <3>1 DEF InFlightSound, Cleared
    <2>15. Gated'
      BY <2>7 DEF Gated, ApprovalHonoured, NeverOverbilled
    <2> QED BY <2>11, <2>13, <2>14, <2>15 DEF InFlightSound
  <1>2. CASE CheckVoid(h, o, Nobody)
    <2> DEFINE r == [op |-> "void", o |-> o, actor |-> Nobody]
    <2>1. Sound(r) /\ r.op \notin {"place", "approve"}
      BY <1>2 DEF Sound, CheckVoid
    <2> QED BY <1>2, <1>t, <2>1, ReadSound DEF CheckVoid, Start
  <1>3. CASE InitiateOnline(h, o)
    <2> DEFINE due == IF order[o].status = "AWAITING_ADVANCE_PAYMENT"
                      THEN AdvanceDue(o) ELSE order[o].total - order[o].collected
               r == [op |-> "pay", o |-> o, amount |-> due]
    <2>1. Sound(r) /\ r.op \notin {"place", "approve"}
      BY <1>3 DEF Sound, InitiateOnline, Placed
    <2>2. request' = [request EXCEPT ![h] = r] /\ UNCHANGED <<order, waived, crossed>>
      BY <1>3 DEF InitiateOnline, Start
    <2> HIDE DEF r
    <2> QED BY <1>t, <2>1, <2>2, ReadSound
  <1> QED BY <1>1, <1>2, <1>3

LEMMA StaffedSound ==
    ASSUME IInv, NEW h \in Handlers, Staffed(h)
    PROVE  InFlightSound' /\ Gated'
  <1> USE DEF IInv
  <1> PICK o \in Orders, a \in Staff :
        \/ \E next \in SettableStatuses : ReadUpdate(h, o, next, a)
        \/ CheckVoid(h, o, a)
        \/ ReadApprove(h, o, a)
        \/ \E extra \in Extras : ReadAdd(h, o, extra)
        \/ CheckCashAdvance(h, o)
        \/ CheckCashPayment(h, o)
        \/ \E payment \in {"PAID", "UNPAID"} : ReadSettle(h, o, payment)
        \/ \E i \in DOMAIN order[o].receipts : ReadRefund(h, o, i)
        \/ ReadSettleRefund(h, o)
    BY DEF Staffed
  <1>t. request \in [Handlers -> Request] /\ order[o] \in OrderRow
    BY DEF TypeOK
  <1>1. ASSUME NEW next \in SettableStatuses, ReadUpdate(h, o, next, a)
        PROVE  InFlightSound' /\ Gated'
    <2>1. Sound(StatusRead(o, next, a))
      BY <1>1, StatusReadSound DEF ReadUpdate
    <2>2. StatusRead(o, next, a).op = "status"
      BY DEF StatusRead
    <2> QED BY <1>1, <1>t, <2>1, <2>2, ReadSound DEF ReadUpdate, Start
  <1>2. CASE CheckVoid(h, o, a)
    <2> DEFINE r == [op |-> "void", o |-> o, actor |-> a]
    <2>1. Sound(r) /\ r.op \notin {"place", "approve"}
      BY <1>2 DEF Sound, CheckVoid
    <2> QED BY <1>2, <1>t, <2>1, ReadSound DEF CheckVoid, Start
  <1>3. CASE ReadApprove(h, o, a)
    <2> DEFINE next == IF order[o].collected < order[o].advance
                       THEN "AWAITING_ADVANCE_PAYMENT" ELSE "PENDING"
               r == [op |-> "approve", o |-> o, actor |-> a, next |-> next]
    <2>1. next = "PENDING" => Cleared(o)
      BY <1>t DEF Cleared, OrderRow
    <2>2. Sound(r) /\ r.op = "approve" /\ order[r.o].status \in HELD_STATUSES
      BY <1>3, <2>1 DEF HELD_STATUSES, Sound, ReadApprove, Placed, ApprovingSound
    <2>3. request' = [request EXCEPT ![h] = r] /\ UNCHANGED <<order, waived, crossed>>
      BY <1>3 DEF ReadApprove, Start
    <2> HIDE DEF r
    <2> QED BY <1>t, <2>2, <2>3, ReadSound
  <1>4. ASSUME NEW extra \in Extras, ReadAdd(h, o, extra) PROVE InFlightSound' /\ Gated'
    <2> DEFINE r == [op |-> "add", o |-> o, extra |-> extra,
                     total |-> TotalOf(order[o].lines + extra)]
    <2>0. order[o].lines + extra \in Nat
      BY <1>t, AmountsAssumption DEF OrderRow
    <2>1. TotalOf(order[o].lines + extra) \in Nat
      BY <2>0, TotalNat
    <2>2. Sound(r) /\ r.op \notin {"place", "approve"}
      BY <1>4, <2>1 DEF Sound, ReadAdd, Placed, AddingSound, EDITABLE_STATUSES
    <2>3. request' = [request EXCEPT ![h] = r] /\ UNCHANGED <<order, waived, crossed>>
      BY <1>4 DEF ReadAdd, Start
    <2> HIDE DEF r
    <2> QED BY <1>t, <2>2, <2>3, ReadSound
  <1>5. CASE CheckCashAdvance(h, o)
    <2> DEFINE r == [op |-> "pay", o |-> o, amount |-> AdvanceDue(o)]
    <2>1. Sound(r) /\ r.op \notin {"place", "approve"}
      BY <1>5 DEF Sound, CheckCashAdvance, Placed
    <2> QED BY <1>5, <1>t, <2>1, ReadSound DEF CheckCashAdvance, Start
  <1>6. CASE CheckCashPayment(h, o)
    <2> DEFINE r == [op |-> "pay", o |-> o, amount |-> order[o].total]
    <2>1. Sound(r) /\ r.op \notin {"place", "approve"}
      BY <1>6 DEF Sound, CheckCashPayment
    <2> QED BY <1>6, <1>t, <2>1, ReadSound DEF CheckCashPayment, Start
  <1>7. ASSUME NEW payment \in {"PAID", "UNPAID"}, ReadSettle(h, o, payment)
        PROVE  InFlightSound' /\ Gated'
    <2> DEFINE r == [op |-> "settle", o |-> o, payment |-> payment,
                     amount |-> IF payment = "PAID" THEN order[o].total ELSE 0]
    <2>1. Sound(r) /\ r.op \notin {"place", "approve"}
      BY <1>7 DEF Sound, ReadSettle
    <2>2. request' = [request EXCEPT ![h] = r] /\ UNCHANGED <<order, waived, crossed>>
      BY <1>7 DEF ReadSettle, Start
    <2> HIDE DEF r
    <2> QED BY <1>t, <2>1, <2>2, ReadSound
  <1>8. ASSUME NEW i \in DOMAIN order[o].receipts, ReadRefund(h, o, i)
        PROVE  InFlightSound' /\ Gated'
    <2> DEFINE r == [op |-> "refund", o |-> o, gone |-> {i}, closes |-> Standing(o) = {i}]
    <2>1. Sound(r) /\ r.op \notin {"place", "approve"}
      BY <1>8 DEF Sound, ReadRefund
    <2>2. request' = [request EXCEPT ![h] = r] /\ UNCHANGED <<order, waived, crossed>>
      BY <1>8 DEF ReadRefund, Start
    <2> HIDE DEF r
    <2> QED BY <1>t, <2>1, <2>2, ReadSound
  <1>9. CASE ReadSettleRefund(h, o)
    <2> DEFINE r == [op |-> "refund", o |-> o, gone |-> Standing(o), closes |-> TRUE]
    <2>1. Sound(r) /\ r.op \notin {"place", "approve"}
      BY <1>9 DEF Sound, ReadSettleRefund
    <2>2. request' = [request EXCEPT ![h] = r] /\ UNCHANGED <<order, waived, crossed>>
      BY <1>9 DEF ReadSettleRefund, Start
    <2> HIDE DEF r
    <2> QED BY <1>t, <2>1, <2>2, ReadSound
  <1> QED BY <1>1, <1>2, <1>3, <1>4, <1>5, <1>6, <1>7, <1>8, <1>9

\* One placed row is rewritten: if it stays placed, keeps what was cleared and
\* approved, keeps its lines and is itself past its gates, everything is kept.
LEMMA UpdateSound ==
    ASSUME IInv, TypeOK', NEW h \in Handlers, Finish(h), NEW o \in Orders, NEW row,
           Placed(o), Update(o, row),
           waived \subseteq waived', waived' \subseteq waived \union {o},
           crossed \subseteq crossed', crossed' \subseteq crossed \union {o},
           row.status # "UNPLACED", row.hold = order[o].hold,
           row.advance = order[o].advance,
           Others(h, o) # {} => o \in crossed' \/ row.collected >= order[o].collected,
           row.approvedBy = order[o].approvedBy \/ row.approvedBy # Nobody,
           row.lines >= order[o].lines,
           row.total <= TotalOf(row.lines),
           row.status \in HELD_STATUSES => Unsure(o),
           row.status \in Cooked /\ (order[o].status \in HELD_STATUSES \/ Approving(h, o))
             => o \in waived' \union crossed' \/ row.collected >= row.advance,
           row.status \notin {"NEEDS_APPROVAL", "CANCELLED"}
             => o \in waived' \/ row.approvedBy # Nobody \/ row.hold # "NEEDS_APPROVAL"
    PROVE  InFlightSound' /\ Gated' /\ GateKept
  <1>1. order'[o] = row /\ \A p \in Orders \ {o} : order'[p] = order[p]
    BY DEF Update, IInv, TypeOK
  <1>2. /\ row.collected \in Nat /\ row.lines \in Nat
        /\ \A p \in Orders : order[p].collected \in Nat /\ order[p].advance \in Nat
                             /\ order[p].lines \in Nat
    BY <1>1 DEF TypeOK, IInv, OrderRow
  <1>h. /\ request'[h] = Idle
        /\ \A k \in Handlers \ {h} : request'[k] = request[k]
    BY DEF TypeOK, Finish, IInv
  <1>u. /\ Unsure(o)' => Unsure(o)
        /\ Unsure(o)' => row.status \in HELD_STATUSES \/ Approving(h, o)
        /\ \A p \in Orders \ {o} : Unsure(p)' => Unsure(p)
    <2>1. \A p : (\E k \in Handlers : Doing(k, "approve") /\ request[k].o = p)'
                   => Approving(h, p)
      BY <1>h DEF Approving, Doing, Idle
    <2>2. \A p : Approving(h, p) => Unsure(p)
      BY DEF Approving, Unsure
    <2> QED BY <1>1, <2>1, <2>2 DEF Unsure
  <1>3. ASSUME NEW p \in Orders, Others(h, p) # {} PROVE Keeps(p)
    <2>1. CASE p = o
      <3>1. Cleared(o) => Cleared(o)'
        BY <1>1, <1>2, <1>3, <2>1 DEF Cleared
      <3>2. Approved(o) => Approved(o)'
        BY <1>1 DEF Approved
      <3> QED BY <1>1, <1>2, <1>3, <1>u, <2>1, <3>1, <3>2 DEF Keeps
    <2>2. CASE p # o
      <3>1. order'[p] = order[p]
        BY <1>1, <2>2
      <3>2. (Cleared(p) => Cleared(p)') /\ (Approved(p) => Approved(p)')
        BY <3>1 DEF Cleared, Approved
      <3> QED BY <1>2, <1>u, <2>2, <3>1, <3>2 DEF Keeps, Placed
    <2> QED BY <2>1, <2>2
  <1>4. ASSUME NEW k \in Handlers \ {h}, Doing(k, "place") PROVE ~Placed(request[k].o)'
    <2>1. request'[k] = request[k] /\ request[k].o \in Orders
      BY <1>4, RequestKinds DEF Finish, IInv, TypeOK, Doing, IsIdle
    <2>2. ~Placed(request[k].o)
      BY <1>4 DEF IInv, InFlightSound, Sound, PlacingSound, Doing
    <2>3. request[k].o # o
      BY <2>2
    <2> QED BY <1>1, <2>1, <2>2, <2>3 DEF Placed
  <1>c. ASSUME NEW p \in Orders, order'[p].status \in Cooked, Unsure(p)' PROVE Cleared(p)'
    <2>1. CASE p = o
      <3>1. Approving(h, o)
        BY <1>1, <1>u, <1>c, <2>1 DEF Cooked, KitchenQueue, HELD_STATUSES
      <3> QED BY <1>1, <1>c, <2>1, <3>1 DEF Cleared
    <2>2. CASE p # o
      BY <1>1, <1>u, <1>c, <2>2 DEF IInv, InFlightSound, Cleared
    <2> QED BY <2>1, <2>2
  <1>5. InFlightSound'
    BY <1>3, <1>4, <1>c, FinishSound DEF IInv
  <1>6. GateKept
    BY <1>1 DEF GateKept, Placed, Cooked, KitchenQueue, HELD_STATUSES
  <1>7. ApprovalHonoured'
    BY <1>1 DEF IInv, Gated, ApprovalHonoured
  <1>8. NeverOverbilled'
    BY <1>1 DEF IInv, Gated, NeverOverbilled
  <1> QED BY <1>5, <1>6, <1>7, <1>8 DEF Gated

\* What the gates say of one placed order.
PastGates(h, o) ==
    /\ order[o].status \in HELD_STATUSES => Unsure(o)
    /\ order[o].status \in Cooked /\ (order[o].status \in HELD_STATUSES \/ Approving(h, o))
         => Cleared(o)
    /\ order[o].status \notin {"NEEDS_APPROVAL", "CANCELLED"} => Approved(o)

LEMMA GatesArePast ==
    ASSUME IInv, NEW h \in Handlers, NEW o \in Orders, Placed(o)
    PROVE  PastGates(h, o)
  <1>1. Approving(h, o) => Unsure(o)
    BY DEF Approving, Unsure
  <1>2. order[o].status \notin {"NEEDS_APPROVAL", "CANCELLED"} => Approved(o)
    BY DEF IInv, Gated, ApprovalHonoured, Placed, Approved
  <1> QED BY <1>1, <1>2 DEF IInv, InFlightSound, PastGates, Unsure

LEMMA ProceedSound ==
    ASSUME IInv, TypeOK', NEW h \in Handlers, Proceed(h)
    PROVE  InFlightSound' /\ Gated' /\ GateKept
  <1> USE DEF IInv
  <1> DEFINE r == request[h]
             o == request[h].o
  <1>t. request \in [Handlers -> Request]
    BY DEF TypeOK
  <1>s. Sound(r)
    BY DEF InFlightSound
  <1>g. ~IsIdle(h) => o \in Orders /\ order[o] \in OrderRow
    BY RequestKinds DEF TypeOK
  <1>k. UNCHANGED order => GateKept
    BY DEF GateKept, HELD_STATUSES, Cooked, KitchenQueue
  <1>1. CASE CommitPlace(h)
    <2>1. r \in PlaceReq /\ PlacingSound(r)
      BY <1>1, <1>s, RequestKinds DEF CommitPlace, Sound, Doing
    <2>2. o \in Orders /\ r.row \in OrderRow
      BY <2>1 DEF PlaceReq
    <2>3. /\ order'[o] = r.row /\ \A p \in Orders \ {o} : order'[p] = order[p]
          /\ waived' = waived /\ crossed' = crossed
          /\ Finish(h)
      BY <1>1, <2>2 DEF CommitPlace, Update, TypeOK
    <2>h. /\ request'[h] = Idle /\ ~Placed(o)
          /\ \A k \in Handlers \ {h} : request'[k] = request[k]
      BY <1>t, <2>1, <2>3 DEF Finish, PlacingSound
    <2>u. \A p : (\E k \in Handlers : Doing(k, "approve") /\ request[k].o = p)'
                 => \E k \in Handlers : Doing(k, "approve") /\ request[k].o = p
      BY <2>h DEF Doing, Idle
    <2>4. ASSUME NEW p \in Orders PROVE Keeps(p)
      <3>1. CASE p = o
        BY <2>h, <3>1 DEF Keeps
      <3>2. CASE p # o
        <4>1. order'[p] = order[p] /\ order[p].collected \in Nat /\ order[p].lines \in Nat
          BY <2>3, <3>2 DEF TypeOK, OrderRow
        <4>2. (Cleared(p) => Cleared(p)') /\ (Approved(p) => Approved(p)')
          BY <2>3, <4>1 DEF Cleared, Approved
        <4>3. Unsure(p)' => Unsure(p)
          BY <2>u, <4>1 DEF Unsure
        <4> QED BY <2>3, <4>1, <4>2, <4>3 DEF Keeps, Placed
      <3> QED BY <3>1, <3>2
    <2>c. ASSUME NEW p \in Orders, order'[p].status \in Cooked, Unsure(p)' PROVE Cleared(p)'
      <3>1. CASE p = o
        <4>1. r.row.status = "PENDING" /\ r.row.advance = 0 /\ r.row.collected \in Nat
          BY <2>1, <2>2, <2>3, <2>c, <3>1
             DEF PlacingSound, OrderRow, Cooked, KitchenQueue, HELD_STATUSES
        <4> QED BY <2>3, <3>1, <4>1 DEF Cleared
      <3>2. CASE p # o
        <4>1. Unsure(p)
          BY <2>3, <2>u, <2>c, <3>2 DEF Unsure
        <4> QED BY <2>3, <2>c, <3>2, <4>1 DEF InFlightSound, Cleared
      <3> QED BY <3>1, <3>2
    <2>5. ASSUME NEW k \in Handlers \ {h}, Doing(k, "place") PROVE ~Placed(request[k].o)'
      <3>1. request'[k] = request[k] /\ request[k].o \in Orders
        BY <2>3, <2>5, <1>t, RequestKinds DEF Finish, Doing, IsIdle
      <3>2. ~Placed(request[k].o)
        BY <2>5 DEF InFlightSound, Sound, PlacingSound, Doing
      <3>3. request[k].o # o
        BY <1>1, <2>5 DEF InFlightSound, NoRival, CommitPlace
      <3> QED BY <2>3, <3>1, <3>2, <3>3 DEF Placed
    <2>6. InFlightSound'
      BY <2>3, <2>4, <2>5, <2>c, FinishSound
    <2>7. /\ r.row.status \in Cooked => r.row.collected >= r.row.advance
          /\ \/ r.row.hold # "NEEDS_APPROVAL"
             \/ r.row.status = "NEEDS_APPROVAL"
          /\ r.row.total <= TotalOf(r.row.lines)
      <3>1. /\ r.row.status = "PENDING" => r.row.advance = 0
            /\ r.row.status \in HELD_STATUSES \union {"PENDING"}
            /\ r.row.hold = r.row.status /\ r.row.total = TotalOf(r.row.lines)
        BY <2>1 DEF PlacingSound
      <3>2. r.row.collected \in Nat /\ r.row.advance \in Nat /\ r.row.total \in Nat
        BY <2>2 DEF OrderRow
      <3> QED BY <3>1, <3>2 DEF HELD_STATUSES, Cooked, KitchenQueue
    <2>8. ApprovalHonoured' /\ NeverOverbilled'
      BY <2>3, <2>7 DEF Gated, ApprovalHonoured, NeverOverbilled
    <2>9. GateKept
      BY <2>3, <2>7 DEF GateKept, HELD_STATUSES, Cooked, KitchenQueue
    <2> QED BY <2>6, <2>8, <2>9 DEF Gated
  <1>2. CASE ReadVoid(h)
    <2>1. Placed(o) /\ Gated
      BY <1>2, <1>s DEF ReadVoid, Sound, Doing
    <2>2. o \in Orders
      BY <1>2, <1>g DEF ReadVoid, Doing, IsIdle
    <2>3. Sound(StatusRead(o, "CANCELLED", r.actor))
      BY <1>2, <2>1, <2>2, StatusReadSound DEF ReadVoid, SettableStatuses, TerminalStatuses
    <2>4. StatusRead(o, "CANCELLED", r.actor).op = "status"
      BY DEF StatusRead
    <2> QED BY <1>2, <1>k, <1>t, <2>3, <2>4, ReadSound DEF ReadVoid, Continue
  <1>3. CASE CountOpen(h)
    <2> DEFINE frees == /\ order[o].table # NoTable
                        /\ r.next \in TerminalStatuses
                        /\ OpenOn(order[o].table) \subseteq {o}
               counted == [ op |-> "counted", o |-> o, actor |-> r.actor, seen |-> r.seen,
                  next |-> r.next, first |-> r.first, frees |-> frees ]
    <2>1. request' = [request EXCEPT ![h] = counted] /\ UNCHANGED <<order, waived, crossed>>
      BY <1>3 DEF CountOpen, Continue
    <2> HIDE DEF frees
    <2>2. StatusSound(r) /\ Placed(o)
      BY <1>3, <1>s DEF CountOpen, Doing, Sound
    <2>3. Sound(counted) /\ counted.op = "counted"
      BY <2>2 DEF Sound, StatusSound
    <2> HIDE DEF counted
    <2> QED BY <1>k, <1>t, <2>1, <2>3, ReadSound
  <1>4. CASE CommitStatus(h)
    <2> DEFINE row == [order[o] EXCEPT !.status    = r.next,
                            !.handledBy = IF r.first THEN r.actor ELSE order[o].handledBy]
    <2>1. r \in CountedReq /\ StatusSound(r) /\ Placed(o)
      BY <1>4, <1>s, RequestKinds DEF CommitStatus, Sound, Doing
    <2>2. o \in Orders /\ order[o] \in OrderRow /\ r.next \in OrderStatuses
      BY <2>1 DEF CountedReq, TypeOK
    <2>3. Update(o, row)
      BY <1>4 DEF CommitStatus
    <2>4. /\ row.status = r.next /\ row.advance = order[o].advance
          /\ row.collected = order[o].collected /\ row.hold = order[o].hold
          /\ row.approvedBy = order[o].approvedBy /\ row.lines = order[o].lines
          /\ row.total = order[o].total
      BY <2>2 DEF OrderRow
    <2> HIDE DEF row
    <2>5. waived' = IF r.seen \in HELD_STATUSES /\ r.next = "PENDING"
                    THEN waived \union {o} ELSE waived
      BY <1>4 DEF CommitStatus
    <2>c. crossed' = crossed
      BY <1>4 DEF CommitStatus
    <2>6. /\ order[o].lines \in Nat /\ order[o].collected \in Nat
          /\ order[o].advance \in Nat /\ order[o].total <= TotalOf(order[o].lines)
      BY <2>2 DEF OrderRow, Gated, NeverOverbilled
    <2>7. row.status # "UNPLACED"
      BY <2>2, <2>4 DEF OrderStatuses, HELD_STATUSES, KitchenQueue, TerminalStatuses
    <2>8. \/ r.next = "CANCELLED"
          \/ r.seen \in HELD_STATUSES /\ r.next = "PENDING"
          \/ r.seen \in HELD_STATUSES /\ r.next = "AWAITING_ADVANCE_PAYMENT"
          \/ r.seen \in Cooked /\ r.next \in Cooked
      BY <2>1 DEF StatusSound, CanTransition, ALLOWED_TRANSITIONS, HELD_STATUSES, Cooked,
                  KitchenQueue
    <2>9. r.next # "AWAITING_ADVANCE_PAYMENT"
      BY <2>1 DEF StatusSound, SettableStatuses, KitchenQueue, TerminalStatuses
    <2>10. /\ row.status \notin HELD_STATUSES
           /\ row.status \in Cooked /\ (order[o].status \in HELD_STATUSES \/ Approving(h, o))
                => o \in waived' \union crossed' \/ row.collected >= row.advance
           /\ row.status \notin {"NEEDS_APPROVAL", "CANCELLED"}
                => o \in waived' \/ row.approvedBy # Nobody \/ row.hold # "NEEDS_APPROVAL"
      <3>1. CASE r.next = "CANCELLED"
        BY <2>4, <3>1 DEF Cooked, KitchenQueue, HELD_STATUSES
      <3>2. CASE r.seen \in HELD_STATUSES /\ r.next = "PENDING"
        BY <2>4, <2>5, <3>2 DEF HELD_STATUSES
      <3>3. CASE r.seen \in Cooked /\ r.next \in Cooked
        <4>1. (Unsure(o) => Cleared(o)) /\ Approved(o) /\ waived \subseteq waived'
          BY <2>1, <2>5, <3>3 DEF StatusSound
        <4>2. order[o].status \in HELD_STATUSES \/ Approving(h, o) => Unsure(o)
          BY DEF Unsure, Approving
        <4>3. row.status \notin HELD_STATUSES
          BY <2>4, <3>3 DEF Cooked, KitchenQueue, HELD_STATUSES
        <4> QED BY <2>4, <2>c, <4>1, <4>2, <4>3 DEF Cleared, Approved
      <3> QED BY <2>8, <2>9, <3>1, <3>2, <3>3
    <2>11. waived \subseteq waived' /\ waived' \subseteq waived \union {o} /\ Finish(h)
      BY <1>4, <2>5 DEF CommitStatus
    <2> QED BY <2>1, <2>2, <2>3, <2>4, <2>6, <2>7, <2>10, <2>11, <2>c, UpdateSound
  <1>5. CASE CommitApprove(h)
    <2> DEFINE row == [order[o] EXCEPT !.status = r.next, !.approvedBy = r.actor]
    <2>1. r \in ApproveReq /\ ApprovingSound(r) /\ Placed(o)
      BY <1>5, <1>s, RequestKinds DEF CommitApprove, Sound, Doing
    <2>2. o \in Orders /\ order[o] \in OrderRow /\ r.actor \in Staff
      BY <2>1 DEF ApproveReq, TypeOK
    <2>3. Update(o, row) /\ Finish(h) /\ waived' = waived /\ crossed' = crossed
      BY <1>5 DEF CommitApprove
    <2>4. /\ row.status = r.next /\ row.approvedBy = r.actor
          /\ row.advance = order[o].advance /\ row.collected = order[o].collected
          /\ row.hold = order[o].hold /\ row.lines = order[o].lines
          /\ row.total = order[o].total
      BY <2>2 DEF OrderRow
    <2> HIDE DEF row
    <2>5. /\ order[o].lines \in Nat /\ order[o].collected \in Nat
          /\ order[o].advance \in Nat /\ order[o].total <= TotalOf(order[o].lines)
      BY <2>2 DEF OrderRow, Gated, NeverOverbilled
    <2>6. row.approvedBy # Nobody
      BY <2>2, <2>4, NobodyAssumption
    <2>7. /\ row.status # "UNPLACED"
          /\ row.status \in Cooked => o \in waived' \union crossed' \/ row.collected >= row.advance
      BY <2>1, <2>3, <2>4 DEF ApprovingSound, Cleared, Cooked, KitchenQueue
    <2>8. Unsure(o)
      BY <1>5 DEF CommitApprove, Unsure
    <2> QED BY <2>1, <2>2, <2>3, <2>4, <2>5, <2>6, <2>7, <2>8, UpdateSound
  <1>6. CASE CommitAdd(h)
    <2> DEFINE row == [order[o] EXCEPT !.total = r.total, !.lines = order[o].lines + r.extra]
    <2>1. r \in AddReq /\ AddingSound(r) /\ Placed(o)
      BY <1>6, <1>s, RequestKinds DEF CommitAdd, Sound, Doing
    <2>2. o \in Orders /\ order[o] \in OrderRow /\ r.extra \in Nat
      BY <2>1 DEF AddReq, TypeOK
    <2>3. Update(o, row) /\ Finish(h) /\ waived' = waived /\ crossed' = crossed
      BY <1>6 DEF CommitAdd
    <2>4. /\ row.status = order[o].status /\ row.approvedBy = order[o].approvedBy
          /\ row.advance = order[o].advance /\ row.collected = order[o].collected
          /\ row.hold = order[o].hold /\ row.lines = order[o].lines + r.extra
          /\ row.total = r.total
      BY <2>2 DEF OrderRow
    <2> HIDE DEF row
    <2>5. /\ order[o].lines \in Nat /\ order[o].collected \in Nat
      BY <2>2 DEF OrderRow
    <2>6. row.total <= TotalOf(row.lines)
      BY <2>1, <2>4 DEF AddingSound
    <2>7. PastGates(h, o)
      BY <2>1, <2>2, GatesArePast
    <2> QED BY <2>1, <2>2, <2>3, <2>4, <2>5, <2>6, <2>7, UpdateSound DEF PastGates, Placed, Cleared, Approved
  <1>7. CASE ReadBook(h)
    <2> DEFINE book == [ op |-> "book", o |-> o, amount |-> r.amount,
                         settles |-> order[o].collected + r.amount >= order[o].total ]
    <2>1. Placed(o)
      BY <1>7, <1>s DEF ReadBook, Sound, Doing
    <2>2. Sound(book) /\ book.op = "book"
      BY <2>1 DEF Sound
    <2>3. request' = [request EXCEPT ![h] = book] /\ UNCHANGED <<order, waived, crossed>>
      BY <1>7 DEF ReadBook, Continue
    <2> HIDE DEF book
    <2> QED BY <1>k, <1>t, <2>2, <2>3, ReadSound
  <1>8. CASE ReadRelease(h)
    <2> DEFINE releases == /\ order[o].status = "AWAITING_ADVANCE_PAYMENT"
                           /\ order[o].collected + r.amount >= order[o].advance
               release == [ op |-> "release", o |-> o, amount |-> r.amount,
                            settles |-> r.settles, releases |-> releases ]
    <2>1. Placed(o) /\ o \in Orders
      BY <1>8, <1>s, <1>g DEF ReadRelease, Sound, Doing, IsIdle
    <2>2. releases => Approved(o)
      BY <2>1, GatesArePast DEF PastGates
    <2>3. request' = [request EXCEPT ![h] = release] /\ UNCHANGED <<order, waived, crossed>>
      BY <1>8 DEF ReadRelease, Continue
    <2>4. ReleasingSound(release)
      BY <2>2 DEF ReleasingSound
    <2>5. Sound(release) /\ release.op = "release"
      BY <2>1, <2>4 DEF Sound
    <2> HIDE DEF release
    <2> QED BY <1>k, <1>t, <2>3, <2>5, ReadSound
  <1>9. CASE CommitBook(h)
    <2> DEFINE row == [ Booked(order[o], r.amount) EXCEPT
                !.payment = IF r.settles THEN "PAID" ELSE order[o].payment,
                !.status  = IF r.releases THEN "PENDING" ELSE order[o].status ]
    <2>1. r \in ReleaseReq /\ Placed(o) /\ ReleasingSound(r)
      BY <1>9, <1>s, RequestKinds DEF CommitBook, Sound, Doing
    <2>2. o \in Orders /\ order[o] \in OrderRow /\ r.amount \in Nat
      BY <2>1 DEF ReleaseReq, TypeOK
    <2>3. Update(o, row) /\ Finish(h) /\ waived' = waived /\ crossed' = crossed
      BY <1>9 DEF CommitBook
    <2>4. /\ row.status = IF r.releases THEN "PENDING" ELSE order[o].status
          /\ row.approvedBy = order[o].approvedBy
          /\ row.advance = order[o].advance
          /\ row.collected = order[o].collected + r.amount
          /\ row.hold = order[o].hold /\ row.lines = order[o].lines
          /\ row.total = order[o].total
      BY <2>2 DEF OrderRow, Booked
    <2> HIDE DEF row
    <2>5. /\ order[o].lines \in Nat /\ order[o].collected \in Nat
          /\ order[o].advance \in Nat /\ order[o].total <= TotalOf(order[o].lines)
          /\ order[o].collected + r.amount >= order[o].collected
      BY <2>2 DEF OrderRow, Gated, NeverOverbilled
    <2>6. PastGates(h, o)
      BY <2>1, <2>2, GatesArePast
    <2>c. /\ row.status # "UNPLACED"
          /\ row.status \in HELD_STATUSES => Unsure(o)
          /\ row.status \in Cooked /\ (order[o].status \in HELD_STATUSES \/ Approving(h, o))
               => o \in waived' \union crossed' \/ row.collected >= row.advance
          /\ row.status \notin {"NEEDS_APPROVAL", "CANCELLED"}
               => o \in waived' \/ row.approvedBy # Nobody \/ row.hold # "NEEDS_APPROVAL"
      <3>1. CASE r.releases
        <4>1. Approved(o) /\ (o \in crossed \/ order[o].collected + r.amount >= order[o].advance)
          BY <2>1, <3>1 DEF ReleasingSound
        <4>2. row.status = "PENDING" /\ row.status \notin HELD_STATUSES
          BY <2>4, <3>1 DEF HELD_STATUSES
        <4>3. o \in crossed' \/ row.collected >= row.advance
          BY <2>3, <2>4, <4>1
        <4>4. o \in waived' \/ row.approvedBy # Nobody \/ row.hold # "NEEDS_APPROVAL"
          BY <2>3, <2>4, <4>1 DEF Approved
        <4> QED BY <4>2, <4>3, <4>4
      <3>2. CASE ~r.releases
        <4>1. row.status = order[o].status /\ row.status # "UNPLACED"
          BY <2>1, <2>4, <3>2 DEF Placed
        <4>2. Cleared(o) => o \in waived' \union crossed' \/ row.collected >= row.advance
          BY <2>3, <2>4, <2>5, <2>2 DEF Cleared
        <4>3. Approved(o) => o \in waived' \/ row.approvedBy # Nobody \/ row.hold # "NEEDS_APPROVAL"
          BY <2>3, <2>4 DEF Approved
        <4> QED BY <2>6, <4>1, <4>2, <4>3 DEF PastGates
      <3> QED BY <3>1, <3>2
    <2> QED BY <2>1, <2>2, <2>3, <2>4, <2>5, <2>c, UpdateSound
  <1>10. CASE CommitSettle(h)
    <2> DEFINE booked == IF r.payment = "PAID" THEN Booked(order[o], r.amount) ELSE order[o]
               row == [booked EXCEPT !.payment = r.payment]
    <2>1. r \in SettleReq /\ Placed(o)
      BY <1>10, <1>s, RequestKinds DEF CommitSettle, Sound, Doing
    <2>2. o \in Orders /\ order[o] \in OrderRow /\ r.amount \in Nat
      BY <2>1 DEF SettleReq, TypeOK
    <2>3. Update(o, row) /\ Finish(h) /\ waived' = waived /\ crossed' = crossed
      BY <1>10 DEF CommitSettle
    <2>4. /\ row.status = order[o].status /\ row.approvedBy = order[o].approvedBy
          /\ row.advance = order[o].advance
          /\ row.collected \in {order[o].collected, order[o].collected + r.amount}
          /\ row.hold = order[o].hold /\ row.lines = order[o].lines
          /\ row.total = order[o].total
      BY <2>2 DEF OrderRow, Booked
    <2> HIDE DEF row
    <2>5. /\ order[o].lines \in Nat /\ order[o].collected \in Nat
          /\ order[o].advance \in Nat /\ order[o].total <= TotalOf(order[o].lines)
          /\ row.collected >= order[o].collected
      BY <2>2, <2>4 DEF OrderRow, Gated, NeverOverbilled
    <2>6. PastGates(h, o)
      BY <2>1, <2>2, GatesArePast
    <2>7. row.collected \in Nat /\ (Cleared(o) => o \in waived \union crossed \/ row.collected >= row.advance)
      BY <2>2, <2>4, <2>5 DEF Cleared
    <2> QED BY <2>1, <2>2, <2>3, <2>4, <2>5, <2>6, <2>7, UpdateSound
            DEF PastGates, Placed, Approved
  <1>11. CASE CommitRefund(h)
    <2> DEFINE left == Without(order[o].receipts, r.gone)
               row == [order[o] EXCEPT !.receipts  = left,
                                       !.collected = SumOf(left),
                                       !.payment   = IF r.closes THEN "REFUNDED"
                                                     ELSE order[o].payment ]
    <2>1. r \in RefundReq /\ Placed(o)
      BY <1>11, <1>s, RequestKinds DEF CommitRefund, Sound, Doing
    <2>2. o \in Orders /\ order[o] \in OrderRow
      BY <2>1 DEF RefundReq, TypeOK
    <2>3. /\ Update(o, row) /\ Finish(h) /\ waived' = waived
          /\ crossed' = IF \E k \in Handlers \ {h} : ~IsIdle(k) /\ request[k].o = o
                        THEN crossed \union {o} ELSE crossed
      BY <1>11 DEF CommitRefund
    <2>4. /\ row.status = order[o].status /\ row.approvedBy = order[o].approvedBy
          /\ row.advance = order[o].advance
          /\ row.hold = order[o].hold /\ row.lines = order[o].lines
          /\ row.total = order[o].total
      BY <2>2 DEF OrderRow
    <2> HIDE DEF row
    <2>5. /\ order[o].lines \in Nat /\ order[o].total <= TotalOf(order[o].lines)
      BY <2>2 DEF OrderRow, Gated, NeverOverbilled
    <2>6. PastGates(h, o)
      BY <2>1, <2>2, GatesArePast
    <2>7. Others(h, o) # {} => o \in crossed'
      BY <2>3 DEF Others
    <2>8. Approving(h, o) => o \in crossed'
      BY <2>3 DEF Approving, Doing, IsIdle
    <2>9. order[o].status \in Cooked => order[o].status \notin HELD_STATUSES
      BY DEF Cooked, KitchenQueue, HELD_STATUSES
    <2> QED BY <2>1, <2>2, <2>3, <2>4, <2>5, <2>6, <2>7, <2>8, <2>9, UpdateSound
            DEF PastGates, Placed, Approved
  <1>12. CASE Abort(h)
    <2>1. Sound(Idle) /\ Idle.op = "none"
      BY DEF Sound, Idle
    <2> QED BY <1>12, <1>k, <1>t, <2>1, ReadSound DEF Abort, Finish
  <1> QED BY <1>1, <1>2, <1>3, <1>4, <1>5, <1>6, <1>7, <1>8, <1>9, <1>10, <1>11, <1>12
          DEF Proceed

\* What happens around the orders disturbs no request in flight.
LEMMA EnvironmentSound ==
    ASSUME IInv, Environment
    PROVE  InFlightSound' /\ Gated' /\ GateKept
  <1> USE DEF IInv
  <1>1. /\ UNCHANGED <<request, waived, crossed>>
        /\ \A o \in Orders :
              /\ order'[o].status = order[o].status /\ order'[o].advance = order[o].advance
              /\ order'[o].collected = order[o].collected /\ order'[o].hold = order[o].hold
              /\ order'[o].approvedBy = order[o].approvedBy
              /\ order'[o].lines = order[o].lines /\ order'[o].total = order[o].total
    <2>1. CASE \E o \in Orders : WindowPasses(o)
      BY <2>1 DEF WindowPasses, TypeOK, OrderRow
    <2>2. CASE UNCHANGED <<order, request, waived, crossed>>
      BY <2>2
    <2> QED BY <2>1, <2>2 DEF Environment, SetTableActive, SetAccepting
  <1>2. Gated'
    BY <1>1 DEF Gated, ApprovalHonoured, NeverOverbilled
  <1>3. NoRival'
    BY <1>1 DEF InFlightSound, NoRival, Doing
  <1>u. \A p \in Orders : /\ Unsure(p)' => Unsure(p)
                          /\ (Cleared(p)' <=> Cleared(p)) /\ (Approved(p)' <=> Approved(p))
    BY <1>1 DEF Unsure, Doing, Cleared, Approved
  <1>4. ASSUME NEW h \in Handlers PROVE Sound(request[h])'
    <2>1. Sound(request[h]) /\ request'[h] = request[h]
      BY <1>1 DEF InFlightSound
    <2>2. CASE IsIdle(h)
      BY <2>1, <2>2 DEF IsIdle, Sound
    <2>3. CASE ~IsIdle(h)
      <3>1. request[h].o \in Orders
        BY <2>3, RequestKinds
      <3> DEFINE p == request[h].o
      <3>2. /\ Unsure(request[h].o)' => Unsure(p)
            /\ (Cleared(request[h].o)' <=> Cleared(p)) /\ (Approved(request[h].o)' <=> Approved(p))
        BY <1>1, <1>u, <2>1, <3>1 DEF Unsure, Doing, Cleared, Approved
      <3> QED BY <1>1, <2>1, <3>1, <3>2 DEF Sound, PlacingSound, StatusSound, ApprovingSound,
                            ReleasingSound, AddingSound, Placed
    <2> QED BY <2>2, <2>3
  <1>5. \A p \in Orders : order'[p].status \in Cooked /\ Unsure(p)' => Cleared(p)'
    BY <1>1, <1>u DEF InFlightSound
  <1>6. GateKept
    BY <1>1 DEF GateKept, HELD_STATUSES, Cooked, KitchenQueue
  <1> QED BY <1>2, <1>3, <1>4, <1>5, <1>6 DEF InFlightSound

LEMMA IInvStep == IInv /\ [Next]_vars => IInv' /\ GateKept
  <1> SUFFICES ASSUME IInv, [Next]_vars PROVE IInv' /\ GateKept
    OBVIOUS
  <1>1. TypeOK'
    BY TypeStep DEF IInv
  <1>k. UNCHANGED order => GateKept
    BY DEF GateKept, HELD_STATUSES, Cooked, KitchenQueue
  <1>2. InFlightSound' /\ Gated' /\ GateKept
    <2>1. ASSUME NEW h \in Handlers, Guest(h) PROVE InFlightSound' /\ Gated' /\ GateKept
      BY <1>k, <2>1, GuestSound DEF Guest, ReadPlace, CheckVoid, InitiateOnline
    <2>2. ASSUME NEW h \in Handlers, Staffed(h) PROVE InFlightSound' /\ Gated' /\ GateKept
      BY <1>k, <2>2, StaffedSound DEF Staffed, ReadUpdate, CheckVoid, ReadApprove, ReadAdd,
             CheckCashAdvance, CheckCashPayment, ReadSettle, ReadRefund, ReadSettleRefund
    <2>3. CASE Next
      BY <1>1, <2>1, <2>2, <2>3, ProceedSound, EnvironmentSound DEF Next
    <2>4. CASE UNCHANGED vars
      BY <1>k, <2>4 DEF vars, IInv, InFlightSound, NoRival, Sound, PlacingSound, StatusSound,
                  ApprovingSound, ReleasingSound, AddingSound, Placed, Doing, Cleared, Approved,
                  Unsure, Gated, ApprovalHonoured, NeverOverbilled
    <2> QED BY <2>3, <2>4
  <1> QED BY <1>1, <1>2 DEF IInv

LEMMA Inductive == Spec => []IInv
  <1>1. Init => IInv
    BY InitType, InitIInv DEF IInv
  <1> QED BY <1>1, IInvStep, PTL DEF Spec

\* What a request in flight has decided is still true of its order when it commits,
\* whatever the other handlers have committed in between, refunds included: the sum it
\* went by has not shrunk, unless a refund fell while it was in flight.
THEOREM DecisionsStayTrue == Spec => []InFlightSound
  <1>1. IInv => InFlightSound
    BY DEF IInv
  <1> QED BY <1>1, Inductive, PTL

\* No interleaving of placing, approving, releasing, settling, refunding and status
\* requests lets an order that owes an advance go to the kitchen while the house does
\* not hold that advance, unless the refund fell while a request about the order was
\* in flight or staff PATCHed the order out.
THEOREM AdvanceBeforeKitchen == Spec => GateHonoured
  <1>1. IInv /\ [Next]_vars => GateKept
    BY IInvStep
  <1>2. IInv /\ [Next]_vars => [GateKept]_vars
    BY <1>1
  <1>3. Spec => [][GateKept]_vars
    BY <1>2, Inductive, PTL DEF Spec
  <1> QED BY <1>3 DEF GateHonoured, GateKept

\* No interleaving brings an order held for approval past its gate without the
\* name of an approver on it.
THEOREM ApprovedBeforeKitchen == Spec => []ApprovalHonoured
  <1>1. IInv => ApprovalHonoured
    BY DEF IInv, Gated
  <1> QED BY <1>1, Inductive, PTL

\* However additions interleave, a guest is never billed for more than the lines
\* of the order, whatever the carts and the percentages.
THEOREM NeverBilledForMore == Spec => []NeverOverbilled
  <1>1. IInv => NeverOverbilled
    BY DEF IInv, Gated
  <1> QED BY <1>1, Inductive, PTL

-----------------------------------------------------------------------------
(* Served one at a time, the floor implements FloorPromise.  A request that  *)
(* nothing has overtaken commits what is still true; so its reads map to     *)
(* stutters and its commit to one step of the workflow.                      *)

\* Requests are served one at a time, and nobody edits the floor plan meanwhile.
OneAtATime == (\A h, k \in Handlers : h = k) /\ ~AdminActs

\* Whether closing order o to next leaves its table without an open order.
Frees(o, next) == /\ order[o].table # NoTable
                  /\ next \in TerminalStatuses
                  /\ OpenOn(order[o].table) \subseteq {o}

\* What a request that nothing has overtaken still knows of its order.
StillTrue(r) ==
    /\ r.op \in {"status", "counted"} => order[r.o].status = r.seen
    /\ r.op = "counted" => r.frees = Frees(r.o, r.next)
    /\ r.op = "approve" => order[r.o].status = "NEEDS_APPROVAL"
    /\ r.op = "release" => (r.releases => order[r.o].status = "AWAITING_ADVANCE_PAYMENT")
AllStillTrue == \A h \in Handlers : StillTrue(request[h])

LEMMA StillTrueRead ==
    ASSUME OneAtATime, TypeOK, NEW h \in Handlers, NEW r, StillTrue(r),
           request' = [request EXCEPT ![h] = r], order' = order
    PROVE  AllStillTrue'
  <1>1. \A k \in Handlers : request'[k] = r
    BY DEF OneAtATime, TypeOK
  <1>2. StillTrue(r)'
    BY DEF StillTrue, Frees, OpenOn
  <1> QED BY <1>1, <1>2 DEF AllStillTrue, StillTrue

LEMMA StillTrueDone ==
    ASSUME OneAtATime, TypeOK, NEW h \in Handlers, Finish(h)
    PROVE  AllStillTrue'
  <1>1. \A k \in Handlers : request'[k] = Idle
    BY DEF OneAtATime, TypeOK, Finish
  <1> QED BY <1>1 DEF AllStillTrue, StillTrue, Idle

\* A step that leaves statuses and tables alone is no step of the workflow.
LEMMA Stutters ==
    ASSUME \A o \in Orders : /\ order'[o].status = order[o].status
                             /\ order'[o].table = order[o].table,
           table' = table
    PROVE  UNCHANGED Promise!vars
  BY DEF Promise!vars

LEMMA Places ==
    ASSUME TypeOK, NEW o \in Orders, ~Placed(o),
           NEW row \in OrderRow, row.status \in HELD_STATUSES \union {"PENDING"},
           Update(o, row),
           table' = IF row.table = NoTable THEN table
                    ELSE [table EXCEPT ![row.table].status = "OCCUPIED"]
    PROVE  Promise!Place(o, row.table)
  <1> DEFINE t == row.table
             st == [p \in Orders |-> order[p].status]
             seat == [p \in Orders |-> order[p].table]
             occ == { u \in Tables : table[u].status = "OCCUPIED" }
  <1>0. t \in Tables \union {NoTable} /\ NoTable \notin Tables
    BY NoTableAssumption DEF OrderRow
  <1>1. \A p \in Orders : order'[p] = IF p = o THEN row ELSE order[p]
    BY DEF Update, TypeOK
  <1>2. st[o] = "UNPLACED"
    BY DEF Placed
  <1>3. st' = [st EXCEPT ![o] = row.status] /\ seat' = [seat EXCEPT ![o] = t]
    BY <1>1
  <1>4. occ' = occ \union ({t} \ {NoTable})
    <2>1. CASE t = NoTable
      BY <2>1
    <2>2. CASE t # NoTable
      <3>1. t \in Tables /\ table' = [table EXCEPT ![t].status = "OCCUPIED"]
        BY <1>0, <2>2
      <3> HIDE DEF t
      <3>2. \A u \in Tables : table'[u].status = IF u = t THEN "OCCUPIED" ELSE table[u].status
        BY <3>1 DEF TypeOK, TableRow
      <3> QED BY <2>2, <3>1, <3>2
    <2> QED BY <2>1, <2>2
  <1> QED BY <1>2, <1>3, <1>4 DEF Promise!Place, Promise!HELD_STATUSES, HELD_STATUSES

LEMMA SameTransitions ==
    ASSUME NEW from, NEW to
    PROVE  CanTransition(from, to) <=> Promise!CanTransition(from, to)
  BY DEF CanTransition, Promise!CanTransition, ALLOWED_TRANSITIONS, Promise!ALLOWED_TRANSITIONS

LEMMA Moves ==
    ASSUME TypeOK, NEW o \in Orders, NEW next, CanTransition(order[o].status, next),
           NEW row, row.status = next, row.table = order[o].table,
           Update(o, row),
           table' = IF Frees(o, next)
                    THEN [table EXCEPT ![order[o].table].status = "AVAILABLE"] ELSE table
    PROVE  Promise!Move(o, next)
  <1> DEFINE t == order[o].table
             st == [p \in Orders |-> order[p].status]
             seat == [p \in Orders |-> order[p].table]
             occ == { u \in Tables : table[u].status = "OCCUPIED" }
             others == \E p \in Orders \ {o} :
                          /\ seat[p] = seat[o]
                          /\ st[p] \notin TerminalStatuses \union {"UNPLACED"}
  <1>0. t \in Tables \union {NoTable} /\ NoTable \notin Tables
    BY NoTableAssumption DEF OrderRow, TypeOK
  <1>1. \A p \in Orders : order'[p] = IF p = o THEN row ELSE order[p]
    BY DEF Update, TypeOK
  <1>2. st' = [st EXCEPT ![o] = next] /\ seat' = seat
    BY <1>1
  <1>3. Frees(o, next) <=> t # NoTable /\ next \in TerminalStatuses /\ ~others
    BY DEF Frees, OpenOn
  <1>4. occ' = IF next \in TerminalStatuses /\ ~others THEN occ \ {seat[o]} ELSE occ
    <2> HIDE DEF others
    <2>1. CASE Frees(o, next)
      <3>1. t \in Tables /\ table' = [table EXCEPT ![t].status = "AVAILABLE"]
        BY <1>0, <1>3, <2>1
      <3>2. seat[o] = t
        OBVIOUS
      <3> HIDE DEF t, seat
      <3>3. \A u \in Tables : table'[u].status = IF u = t THEN "AVAILABLE" ELSE table[u].status
        BY <3>1 DEF TypeOK, TableRow
      <3>4. occ' = occ \ {t}
        BY <3>1, <3>3
      <3> QED BY <1>3, <2>1, <3>2, <3>4
    <2>2. CASE ~Frees(o, next)
      <3>1. occ' = occ /\ seat[o] = t
        BY <2>2
      <3>2. t = NoTable => occ \ {t} = occ
        BY <1>0
      <3> HIDE DEF occ, seat, t
      <3> QED BY <1>3, <2>2, <3>1, <3>2
    <2> QED BY <2>1, <2>2
  <1>5. Promise!CanTransition(st[o], next)
    BY SameTransitions
  <1> QED BY <1>2, <1>4, <1>5
          DEF Promise!Move, Promise!OthersOpen, Promise!TerminalStatuses, TerminalStatuses

\* One step of one request is one step of the workflow, or none.
LEMMA ReadsStutter ==
    ASSUME OneAtATime, IInv, AllStillTrue, NEW h \in Handlers, Guest(h) \/ Staffed(h)
    PROVE  AllStillTrue' /\ UNCHANGED Promise!vars
  <1>1. \E r : /\ request' = [request EXCEPT ![h] = r]
               /\ StillTrue(r) /\ order' = order /\ table' = table
    <2>1. ASSUME NEW o \in Orders, NEW t, NEW g, NEW s, ReadPlace(h, o, t, g, s)
          PROVE  \E r : /\ request' = [request EXCEPT ![h] = r] /\ r.op = "place"
                        /\ order' = order /\ table' = table
      BY <2>1 DEF ReadPlace, Start
    <2>2. ASSUME NEW o \in Orders, NEW a, CheckVoid(h, o, a)
          PROVE  \E r : /\ request' = [request EXCEPT ![h] = r] /\ r.op = "void"
                        /\ order' = order /\ table' = table
      BY <2>2 DEF CheckVoid, Start
    <2>3. ASSUME NEW o \in Orders,
                 \/ InitiateOnline(h, o) \/ CheckCashAdvance(h, o) \/ CheckCashPayment(h, o)
          PROVE  \E r : /\ request' = [request EXCEPT ![h] = r] /\ r.op = "pay"
                        /\ order' = order /\ table' = table
      BY <2>3 DEF InitiateOnline, CheckCashAdvance, CheckCashPayment, Start
    <2>4. ASSUME NEW o \in Orders, NEW next, NEW a, ReadUpdate(h, o, next, a)
          PROVE  \E r : /\ request' = [request EXCEPT ![h] = r] /\ r.op = "status"
                        /\ r.seen = order[r.o].status /\ order' = order /\ table' = table
      <3> DEFINE s == StatusRead(o, next, a)
      <3>1. s.op = "status" /\ s.seen = order[s.o].status
        BY DEF StatusRead
      <3>2. request' = [request EXCEPT ![h] = s] /\ order' = order /\ table' = table
        BY <2>4 DEF ReadUpdate, Start
      <3> HIDE DEF s
      <3> QED BY <3>1, <3>2
    <2>5. ASSUME NEW o \in Orders, NEW a, ReadApprove(h, o, a)
          PROVE  \E r : /\ request' = [request EXCEPT ![h] = r] /\ r.op = "approve"
                        /\ order[r.o].status = "NEEDS_APPROVAL" /\ order' = order /\ table' = table
      <3> DEFINE next == IF order[o].collected < order[o].advance
                         THEN "AWAITING_ADVANCE_PAYMENT" ELSE "PENDING"
                 s == [op |-> "approve", o |-> o, actor |-> a, next |-> next]
      <3>1. /\ request' = [request EXCEPT ![h] = s] /\ order' = order /\ table' = table
            /\ order[o].status = "NEEDS_APPROVAL"
        BY <2>5 DEF ReadApprove, Start
      <3> HIDE DEF next
      <3>2. s.op = "approve" /\ s.o = o
        OBVIOUS
      <3> HIDE DEF s
      <3> QED BY <3>1, <3>2
    <2>6. ASSUME NEW o \in Orders, NEW extra, ReadAdd(h, o, extra)
          PROVE  \E r : /\ request' = [request EXCEPT ![h] = r] /\ r.op = "add"
                        /\ order' = order /\ table' = table
      BY <2>6 DEF ReadAdd, Start
    <2>7. ASSUME NEW o \in Orders, NEW payment, ReadSettle(h, o, payment)
          PROVE  \E r : /\ request' = [request EXCEPT ![h] = r] /\ r.op = "settle"
                        /\ order' = order /\ table' = table
      <3> DEFINE amount == IF payment = "PAID" THEN order[o].total ELSE 0
                 s == [op |-> "settle", o |-> o, payment |-> payment, amount |-> amount]
      <3>1. /\ request' = [request EXCEPT ![h] = s] /\ order' = order /\ table' = table
        BY <2>7 DEF ReadSettle, Start
      <3> HIDE DEF amount
      <3>2. s.op = "settle"
        OBVIOUS
      <3> HIDE DEF s
      <3> QED BY <3>1, <3>2
    <2>8. ASSUME NEW o \in Orders, NEW i, ReadRefund(h, o, i)
          PROVE  \E r : /\ request' = [request EXCEPT ![h] = r] /\ r.op = "refund"
                        /\ order' = order /\ table' = table
      <3> DEFINE s == [op |-> "refund", o |-> o, gone |-> {i}, closes |-> Standing(o) = {i}]
      <3>1. /\ request' = [request EXCEPT ![h] = s] /\ order' = order /\ table' = table
        BY <2>8 DEF ReadRefund, Start
      <3>2. s.op = "refund"
        OBVIOUS
      <3> HIDE DEF s
      <3> QED BY <3>1, <3>2
    <2>9. ASSUME NEW o \in Orders, ReadSettleRefund(h, o)
          PROVE  \E r : /\ request' = [request EXCEPT ![h] = r] /\ r.op = "refund"
                        /\ order' = order /\ table' = table
      BY <2>9 DEF ReadSettleRefund, Start
    <2>10. \E r : /\ request' = [request EXCEPT ![h] = r] /\ order' = order /\ table' = table
                 /\ \/ r.op \in {"place", "void", "pay", "add", "settle", "refund"}
                    \/ r.op = "status" /\ r.seen = order[r.o].status
                    \/ r.op = "approve" /\ order[r.o].status = "NEEDS_APPROVAL"
      BY <2>1, <2>2, <2>3, <2>4, <2>5, <2>6, <2>7, <2>8, <2>9, Zenon DEF Guest, Staffed
    <2> QED BY <2>10 DEF StillTrue
  <1>2. PICK r : /\ request' = [request EXCEPT ![h] = r]
                 /\ StillTrue(r) /\ order' = order /\ table' = table
    BY <1>1
  <1> QED BY <1>2, StillTrueRead, Stutters DEF IInv

LEMMA ProceedMoves ==
    ASSUME OneAtATime, IInv, AllStillTrue, NEW h \in Handlers, Proceed(h)
    PROVE  AllStillTrue' /\ [Promise!Next]_(Promise!vars)
  <1> DEFINE r == request[h]
             o == request[h].o
             Step == [Promise!Next]_(Promise!vars)
  <1>t. TypeOK /\ Sound(r) /\ StillTrue(r)
    BY DEF IInv, InFlightSound, AllStillTrue
  <1>o. ~IsIdle(h) => o \in Orders /\ order[o] \in OrderRow
    BY <1>t, RequestKinds DEF TypeOK
  <1>p. ASSUME NEW p \in Orders, NEW row \in OrderRow, ~Placed(p),
               row.status \in HELD_STATUSES \union {"PENDING"}, Update(p, row),
               table' = IF row.table = NoTable THEN table
                        ELSE [table EXCEPT ![row.table].status = "OCCUPIED"]
        PROVE  Step
    <2>1. Promise!Place(p, row.table)
      BY <1>t, <1>p, Places
    <2>2. row.table \in Tables \union {NoTable}
      BY DEF OrderRow
    <2> QED BY <2>1, <2>2 DEF Promise!Next
  <1>m. ASSUME NEW p \in Orders, NEW row, CanTransition(order[p].status, row.status),
               row.table = order[p].table, Update(p, row),
               table' = IF Frees(p, row.status)
                        THEN [table EXCEPT ![order[p].table].status = "AVAILABLE"] ELSE table
        PROVE  Step
    <2>1. Promise!Move(p, row.status)
      BY <1>t, <1>m, Moves
    <2>2. row.status \in Promise!OrderStatuses
      BY <1>m, TransitionsType DEF Promise!OrderStatuses, Promise!HELD_STATUSES, OrderStatuses,
         Promise!KitchenQueue, Promise!TerminalStatuses, HELD_STATUSES, KitchenQueue, TerminalStatuses
    <2> QED BY <2>1, <2>2 DEF Promise!Next
  <1>s. ASSUME \A p \in Orders : /\ order'[p].status = order[p].status
                                 /\ order'[p].table = order[p].table,
               table' = table
        PROVE  Step
    BY <1>s, Stutters
  <1>f. ASSUME Finish(h) PROVE AllStillTrue'
    BY <1>t, <1>f, StillTrueDone
  <1> HIDE DEF Step
  <1>1. CASE CommitPlace(h)
    <2>1. r \in PlaceReq /\ PlacingSound(r)
      BY <1>1, <1>t, RequestKinds DEF CommitPlace, Sound, Doing
    <2> DEFINE row == r.row
    <2>2. /\ o \in Orders /\ row \in OrderRow /\ ~Placed(o)
          /\ row.status \in HELD_STATUSES \union {"PENDING"}
      BY <2>1 DEF PlaceReq, PlacingSound
    <2>3. /\ Update(o, row) /\ Finish(h)
          /\ table' = IF row.table = NoTable THEN table
                      ELSE [table EXCEPT ![row.table].status = "OCCUPIED"]
      BY <1>1 DEF CommitPlace
    <2> HIDE DEF row, o
    <2>4. Step
      BY <1>p, <2>2, <2>3
    <2> QED BY <1>f, <2>3, <2>4 DEF Step
  <1>2. CASE ReadVoid(h)
    <2> DEFINE s == StatusRead(o, "CANCELLED", r.actor)
    <2>1. /\ request' = [request EXCEPT ![h] = s] /\ order' = order /\ table' = table
      BY <1>2 DEF ReadVoid, Continue
    <2>2. StillTrue(s)
      BY DEF StatusRead, StillTrue
    <2> HIDE DEF s
    <2>3. AllStillTrue'
      BY <1>t, <2>1, <2>2, StillTrueRead
    <2> QED BY <1>s, <2>1, <2>3 DEF Step
  <1>3. CASE CountOpen(h)
    <2> DEFINE frees == /\ order[o].table # NoTable
                        /\ r.next \in TerminalStatuses
                        /\ OpenOn(order[o].table) \subseteq {o}
               s == [ op |-> "counted", o |-> o, actor |-> r.actor, seen |-> r.seen,
                  next |-> r.next, first |-> r.first, frees |-> frees ]
    <2>1. request' = [request EXCEPT ![h] = s] /\ order' = order /\ table' = table
      BY <1>3 DEF CountOpen, Continue
    <2>2. order[o].status = r.seen
      BY <1>3, <1>t DEF CountOpen, Doing, StillTrue
    <2>3. frees = Frees(o, r.next)
      BY DEF Frees
    <2> HIDE DEF frees
    <2>4. StillTrue(s)
      BY <2>2, <2>3 DEF StillTrue
    <2> HIDE DEF s
    <2>5. AllStillTrue'
      BY <1>t, <2>1, <2>4, StillTrueRead
    <2> QED BY <1>s, <2>1, <2>5 DEF Step
  <1>4. CASE CommitStatus(h)
    <2>1. /\ r \in CountedReq /\ StatusSound(r)
          /\ order[o].status = r.seen /\ r.frees = Frees(o, r.next)
      BY <1>4, <1>t, RequestKinds DEF CommitStatus, Sound, Doing, StillTrue
    <2>2. o \in Orders /\ order[o] \in OrderRow
      BY <2>1, <1>t DEF CountedReq, TypeOK
    <2> DEFINE row == [order[o] EXCEPT !.status    = r.next,
                            !.handledBy = IF r.first THEN r.actor ELSE order[o].handledBy]
    <2>3. /\ Update(o, row) /\ Finish(h)
          /\ table' = IF r.frees THEN [table EXCEPT ![order[o].table].status = "AVAILABLE"] ELSE table
      BY <1>4 DEF CommitStatus
    <2>4. row.status = r.next /\ row.table = order[o].table
      BY <2>2 DEF OrderRow
    <2>5. CanTransition(order[o].status, row.status)
      BY <2>1, <2>4 DEF StatusSound
    <2> HIDE DEF row, o
    <2>6. Step
      BY <1>m, <2>1, <2>2, <2>3, <2>4, <2>5
    <2> QED BY <1>f, <2>3, <2>6 DEF Step
  <1>5. CASE CommitApprove(h)
    <2>1. /\ r \in ApproveReq /\ ApprovingSound(r) /\ order[o].status = "NEEDS_APPROVAL"
      BY <1>5, <1>t, RequestKinds DEF CommitApprove, Sound, Doing, StillTrue
    <2>2. o \in Orders /\ order[o] \in OrderRow
      BY <2>1, <1>t DEF ApproveReq, TypeOK
    <2> DEFINE row == [order[o] EXCEPT !.status = r.next, !.approvedBy = r.actor]
    <2>3. Update(o, row) /\ Finish(h) /\ table' = table
      BY <1>5 DEF CommitApprove
    <2>4. row.status = r.next /\ row.table = order[o].table
      BY <2>2 DEF OrderRow
    <2>5. CanTransition(order[o].status, row.status) /\ row.status \notin TerminalStatuses
      BY <2>1, <2>4 DEF ApprovingSound, CanTransition, ALLOWED_TRANSITIONS, TerminalStatuses
    <2>6. ~Frees(o, row.status)
      BY <2>5 DEF Frees
    <2> HIDE DEF row, o
    <2>7. Step
      BY <1>m, <2>2, <2>3, <2>4, <2>5, <2>6
    <2> QED BY <1>f, <2>3, <2>7 DEF Step
  <1>6. CASE CommitAdd(h)
    <2> DEFINE row == [order[o] EXCEPT !.total = r.total, !.lines = order[o].lines + r.extra]
    <2>1. Update(o, row) /\ Finish(h) /\ table' = table /\ o \in Orders /\ order[o] \in OrderRow
      BY <1>6, <1>o DEF CommitAdd, Doing, IsIdle
    <2>2. row.status = order[o].status /\ row.table = order[o].table
      BY <2>1 DEF OrderRow
    <2> HIDE DEF row, o
    <2>3. Step
      BY <1>s, <1>t, <2>1, <2>2 DEF Update, TypeOK
    <2> QED BY <1>f, <2>1, <2>3 DEF Step
  <1>7. CASE ReadBook(h)
    <2> DEFINE s == [ op |-> "book", o |-> o, amount |-> r.amount,
                      settles |-> order[o].collected + r.amount >= order[o].total ]
    <2>1. request' = [request EXCEPT ![h] = s] /\ order' = order /\ table' = table
      BY <1>7 DEF ReadBook, Continue
    <2>2. StillTrue(s)
      BY DEF StillTrue
    <2> HIDE DEF s
    <2>3. AllStillTrue'
      BY <1>t, <2>1, <2>2, StillTrueRead
    <2> QED BY <1>s, <2>1, <2>3 DEF Step
  <1>8. CASE ReadRelease(h)
    <2> DEFINE releases == /\ order[o].status = "AWAITING_ADVANCE_PAYMENT"
                           /\ order[o].collected + r.amount >= order[o].advance
               s == [ op |-> "release", o |-> o, amount |-> r.amount,
                      settles |-> r.settles, releases |-> releases ]
    <2>1. request' = [request EXCEPT ![h] = s] /\ order' = order /\ table' = table
      BY <1>8 DEF ReadRelease, Continue
    <2>2. releases => order[o].status = "AWAITING_ADVANCE_PAYMENT"
      OBVIOUS
    <2> HIDE DEF releases
    <2>3. StillTrue(s)
      BY <2>2 DEF StillTrue
    <2> HIDE DEF s
    <2>4. AllStillTrue'
      BY <1>t, <2>1, <2>3, StillTrueRead
    <2> QED BY <1>s, <2>1, <2>4 DEF Step
  <1>9. CASE CommitBook(h)
    <2> DEFINE row == [ Booked(order[o], r.amount) EXCEPT
                !.payment = IF r.settles THEN "PAID" ELSE order[o].payment,
                !.status  = IF r.releases THEN "PENDING" ELSE order[o].status ]
    <2>1. Update(o, row) /\ Finish(h) /\ table' = table /\ o \in Orders /\ order[o] \in OrderRow
      BY <1>9, <1>o DEF CommitBook, Doing, IsIdle
    <2>2. /\ row.status = IF r.releases THEN "PENDING" ELSE order[o].status
          /\ row.table = order[o].table
      BY <2>1 DEF OrderRow, Booked
    <2>3. Step
      <3>1. CASE r.releases
        <4>0. order[o].status = "AWAITING_ADVANCE_PAYMENT"
          BY <1>9, <1>t, <3>1 DEF CommitBook, Doing, StillTrue
        <4>1. CanTransition(order[o].status, row.status) /\ row.status \notin TerminalStatuses
          BY <2>2, <3>1, <4>0 DEF CanTransition, ALLOWED_TRANSITIONS, TerminalStatuses
        <4>2. ~Frees(o, row.status)
          BY <4>1 DEF Frees
        <4> HIDE DEF row, o
        <4> QED BY <1>m, <2>1, <2>2, <4>1, <4>2
      <3>2. CASE ~r.releases
        <4> HIDE DEF row, o
        <4> QED BY <1>s, <1>t, <2>1, <2>2, <3>2 DEF Update, TypeOK
      <3> QED BY <3>1, <3>2
    <2> QED BY <1>f, <2>1, <2>3 DEF Step
  <1>10. CASE CommitSettle(h)
    <2> DEFINE booked == IF r.payment = "PAID" THEN Booked(order[o], r.amount) ELSE order[o]
               row == [booked EXCEPT !.payment = r.payment]
    <2>1. Update(o, row) /\ Finish(h) /\ table' = table /\ o \in Orders /\ order[o] \in OrderRow
      BY <1>10, <1>o DEF CommitSettle, Doing, IsIdle
    <2>2. row.status = order[o].status /\ row.table = order[o].table
      BY <2>1 DEF OrderRow, Booked
    <2> HIDE DEF row, o
    <2>3. Step
      BY <1>s, <1>t, <2>1, <2>2 DEF Update, TypeOK
    <2> QED BY <1>f, <2>1, <2>3 DEF Step
  <1>11. CASE CommitRefund(h)
    <2> DEFINE left == Without(order[o].receipts, r.gone)
               row == [order[o] EXCEPT !.receipts  = left,
                                       !.collected = SumOf(left),
                                       !.payment   = IF r.closes THEN "REFUNDED"
                                                     ELSE order[o].payment ]
    <2>1. Update(o, row) /\ Finish(h) /\ table' = table /\ o \in Orders /\ order[o] \in OrderRow
      BY <1>11, <1>o DEF CommitRefund, Doing, IsIdle
    <2>2. row.status = order[o].status /\ row.table = order[o].table
      BY <2>1 DEF OrderRow
    <2> HIDE DEF row, o
    <2>3. Step
      BY <1>s, <1>t, <2>1, <2>2 DEF Update, TypeOK
    <2> QED BY <1>f, <2>1, <2>3 DEF Step
  <1>12. CASE Abort(h)
    <2>1. Finish(h) /\ order' = order /\ table' = table
      BY <1>12 DEF Abort
    <2> QED BY <1>f, <1>s, <2>1 DEF Step
  <1> QED BY <1>1, <1>2, <1>3, <1>4, <1>5, <1>6, <1>7, <1>8, <1>9, <1>10, <1>11, <1>12
          DEF Proceed

LEMMA AroundStutters ==
    ASSUME OneAtATime, IInv, AllStillTrue, Environment
    PROVE  AllStillTrue' /\ UNCHANGED Promise!vars
  <1>1. /\ table' = table /\ request' = request
        /\ \A o \in Orders : order'[o].status = order[o].status /\ order'[o].table = order[o].table
    <2>1. CASE \E o \in Orders : WindowPasses(o)
      BY <2>1 DEF WindowPasses, IInv, TypeOK, OrderRow
    <2>2. CASE \E b \in BOOLEAN : SetAccepting(b)
      BY <2>2 DEF SetAccepting
    <2> QED BY <2>1, <2>2 DEF Environment, SetTableActive, OneAtATime
  <1>2. \A t : OpenOn(t)' = OpenOn(t)
    BY <1>1 DEF OpenOn
  <1>3. ASSUME NEW h \in Handlers PROVE StillTrue(request[h])'
    <2>1. StillTrue(request[h]) /\ request'[h] = request[h]
      BY <1>1 DEF AllStillTrue
    <2>2. CASE IsIdle(h)
      BY <2>1, <2>2 DEF IsIdle, StillTrue
    <2>3. CASE ~IsIdle(h)
      <3>1. request[h].o \in Orders
        BY <2>3, RequestKinds DEF IInv
      <3> QED BY <1>1, <1>2, <2>1, <3>1 DEF StillTrue, Frees
    <2> QED BY <2>2, <2>3
  <1> QED BY <1>1, <1>3, Stutters DEF AllStillTrue

\* Served one at a time, every request of the floor (placeOrder, applyStatusChange,
\* approveOrder, releaseAfterPayment) keeps the atomic workflow the comments promise:
\* its reads are invisible, its commit is one legal move that takes or frees the table
\* in the same instant, whatever else is on the floor.
THEOREM WorkflowIsKept == OneAtATime => (Spec => KeepsPromise)
  <1> SUFFICES ASSUME OneAtATime PROVE Spec => KeepsPromise
    OBVIOUS
  <1>1. Init => IInv /\ AllStillTrue /\ Promise!Init
    <2> SUFFICES ASSUME Init PROVE IInv /\ AllStillTrue /\ Promise!Init
      OBVIOUS
    <2>1. IInv
      BY InitType, InitIInv DEF IInv
    <2>2. AllStillTrue
      BY DEF Init, AllStillTrue, StillTrue, Idle
    <2>3. Promise!Init
      BY DEF Init, Unplaced, Promise!Init
    <2> QED BY <2>1, <2>2, <2>3
  <1>2. IInv /\ AllStillTrue /\ [Next]_vars
          => IInv' /\ AllStillTrue' /\ [Promise!Next]_(Promise!vars)
    <2> SUFFICES ASSUME IInv, AllStillTrue, [Next]_vars
                 PROVE  AllStillTrue' /\ [Promise!Next]_(Promise!vars)
      BY IInvStep
    <2>1. CASE Next
      BY <2>1, ReadsStutter, ProceedMoves, AroundStutters DEF Next
    <2>2. CASE UNCHANGED vars
      <3>1. AllStillTrue'
        BY <2>2 DEF vars, AllStillTrue, StillTrue, Frees, OpenOn
      <3> QED BY <2>2, <3>1, Stutters DEF vars
    <2> QED BY <2>1, <2>2
  <1> QED BY <1>1, <1>2, PTL DEF Spec, KeepsPromise, Promise!Spec

-----------------------------------------------------------------------------
(* Sums of balances.                                                        *)

Balances   == [o \in Orders |-> Balance(o)]
AddsUp(u)  == Sums(Balances, u, Orders) /\ \A S \in SUBSET Orders : MapThenSumSet(Balance, S) = u[S]

LEMMA BalanceType == TypeOK => \A o \in Orders : Balance(o) \in Nat
  BY DEF TypeOK, OrderRow, Balance, AtLeastZero

\* The folds of the model and the sums of these lemmas are the same.
LEMMA BalancesAddUp == TypeOK => \E u : AddsUp(u)
  <1> SUFFICES ASSUME TypeOK PROVE \E u : AddsUp(u)
    OBVIOUS
  <1>1. \A o \in Orders : Balances[o] = Balance(o) /\ Balances[o] \in Nat
    BY BalanceType DEF Balances
  <1>2. PICK u : Folds(Balances, u, Orders)
    BY FoldExists, OrdersAssumption
  <1>3. Sums(Balances, u, Orders)
    BY <1>1, <1>2, FoldSums, OrdersAssumption
  <1>4. ASSUME NEW S \in SUBSET Orders PROVE MapThenSumSet(Balance, S) = u[S]
    <2> DEFINE Fits(g) == g = [s \in SUBSET S |-> IF s = {} THEN 0
                                 ELSE LET x == CHOOSE x \in s : TRUE
                                      IN  Balance(x) + g[s \ {x}]]
               it == CHOOSE g : Fits(g)
    <2>1. MapThenSumSet(Balance, S) = it[S]
      BY DEF MapThenSumSet, MapThenFoldSet
    <2>2. IsFiniteSet(S)
      BY FS_Subset, OrdersAssumption
    <2>3. PICK g : Folds(Balances, g, S)
      BY <2>2, FoldExists
    <2>4. \A k : Fits(k) <=> Folds(Balances, k, S)
      <3> SUFFICES ASSUME NEW k PROVE Fits(k) <=> Folds(Balances, k, S)
        OBVIOUS
      <3>1. ASSUME NEW s \in SUBSET S
            PROVE  After(Balances, k, s) = IF s = {} THEN 0
                                 ELSE LET x == CHOOSE x \in s : TRUE
                                      IN  Balance(x) + k[s \ {x}]
        <4>1. s # {} => Chosen(s) \in Orders
          BY DEF Chosen
        <4> QED BY <1>1, <4>1 DEF After, Chosen
      <3> QED BY <3>1 DEF Folds
    <2>5. Folds(Balances, it, S)
      <3> HIDE DEF Fits
      <3>1. \E k : Fits(k)
        BY <2>3, <2>4
      <3>2. Fits(it)
        BY <3>1
      <3> HIDE DEF it
      <3> QED BY <2>4, <3>2
    <2> HIDE DEF it
    <2>6. Sums(Balances, it, S)
      BY <1>1, <2>2, <2>5, FoldSums
    <2>7. Sums(Balances, u, S)
      BY <1>3 DEF Sums
    <2>8. it[S] \in Nat /\ u[S] \in Nat /\ it[S] <= u[S] /\ u[S] <= it[S]
      <3>1. it[S] \in Nat /\ u[S] \in Nat /\ \A x \in S : Balances[x] \in Nat
        BY <1>1, <2>6, <2>7 DEF Sums
      <3>2. Pair(Balances, Balances, it, u, S) /\ Pair(Balances, Balances, u, it, S)
        BY <2>6, <2>7, <3>1 DEF Pair
      <3>3. Below(Balances, Balances, S, S)
        BY <3>1 DEF Below
      <3>4. it[S] <= u[S] /\ u[S] <= it[S]
        BY <2>2, <3>2, <3>3, SumsCompare
      <3> QED BY <3>1, <3>4
    <2> QED BY <2>1, <2>8
  <1> QED BY <1>3, <1>4 DEF AddsUp

-----------------------------------------------------------------------------
(* With requests served one at a time, splitting an order does not beat the *)
(* gate: what a request has read of a table's balance is still an upper     *)
(* bound when it commits.                                                   *)

\* Requests are served one at a time, and no order grows after it was placed.
Alone == (\A h, k \in Handlers : h = k) /\ Extras = {}

Capping     == Gates.approvalRequired /\ Gates.threshold > 0
Debtors(t)  == Unsettled(t, CHOOSE g \in Guests : TRUE)
Straight(t) == { o \in Debtors(t) : order[o].hold = "PENDING" /\ ~GaveBack(order[o]) }
OwedBy(S)   == MapThenSumSet(Balance, S)
Owes(o)     == /\ order[o].status \notin {"UNPLACED", "CANCELLED"}
               /\ order[o].payment # "PAID" /\ order[o].recent
Counts(o)   == Owes(o) /\ ~GaveBack(order[o])

\* What a request that nothing has overtaken still knows of the money.
Decided(r) ==
    /\ r.op = "place" =>
          /\ r.row.payment # "PAID"
          /\ Capping /\ r.row.status = "PENDING" /\ r.row.table \in Tables =>
                OwedBy(Debtors(r.row.table)) + r.row.total < Gates.threshold
    /\ r.op \in {"status", "counted", "approve"} => order[r.o].status # "CANCELLED"
    /\ r.op \in {"book", "release"} /\ r.settles
         => order[r.o].collected + r.amount >= order[r.o].total
    /\ r.op = "release" => (r.releases => order[r.o].status # "CANCELLED")
    /\ r.op = "settle" => /\ order[r.o].collected = 0
                          /\ r.payment = "PAID" => r.amount = order[r.o].total
    /\ r.op = "refund" => r.gone \intersect DOMAIN order[r.o].receipts # {}
    /\ r.op # "add"

PaidUp == \A o \in Orders : order[o].payment = "PAID" /\ ~GaveBack(order[o])
                             => order[o].collected >= order[o].total
Capped == Capping => \A t \in Tables : OwedBy(Straight(t)) < Gates.threshold

XInv == IInv /\ (\A h \in Handlers : Decided(request[h])) /\ PaidUp /\ Capped

\* A step that makes an order that still counts owe nothing more than it did.
Lightens(o) ==
    Counts(o)' => \/ Balance(o)' = 0
                  \/ /\ Counts(o) /\ Balance(o)' <= Balance(o)
                     /\ order'[o].table = order[o].table /\ order'[o].hold = order[o].hold

LEMMA DebtorsOwe ==
    ASSUME NEW t \in Tables
    PROVE  /\ Debtors(t) = { o \in Orders : Owes(o) /\ order[o].table = t }
           /\ \A g : Unsettled(t, g) = Debtors(t)
  BY NoTableAssumption DEF Debtors, Unsettled, Owes

\* The sum over a set of orders is at most another's, if it leaves out no order that weighs.
LEMMA OwedCompare ==
    ASSUME TypeOK, TypeOK', NEW S \in SUBSET Orders, NEW T \in SUBSET Orders,
           \A o \in S : Balance(o)' = 0 \/ (o \in T /\ Balance(o)' <= Balance(o))
    PROVE  OwedBy(S)' <= OwedBy(T)
  <1>1. PICK v : AddsUp(v)
    BY BalancesAddUp
  <1>2. (\E u : AddsUp(u))'
    BY BalancesAddUp, PTL
  <1>3. PICK u : AddsUp(u)'
    BY <1>2
  <1>4. OwedBy(T) = v[T] /\ Sums(Balances, v, Orders)
    BY <1>1 DEF AddsUp, OwedBy
  <1>5. OwedBy(S)' = u[S] /\ Sums(Balances', u, Orders)
    BY <1>3 DEF AddsUp, OwedBy, Sums
  <1>6. (\A o \in Orders : Balance(o) \in Nat)'
    BY BalanceType, PTL
  <1>7. \A o \in Orders : /\ Balances[o] = Balance(o) /\ Balance(o) \in Nat
                          /\ Balances'[o] = Balance(o)' /\ Balance(o)' \in Nat
    BY <1>6, BalanceType DEF Balances
  <1>8. \A o \in S : Balances'[o] = 0 \/ (o \in T /\ Balances'[o] <= Balances[o])
    BY <1>7
  <1>9. u[S] <= v[T]
    <2>0. PICK f, g : f = Balances' /\ g = Balances
      OBVIOUS
    <2>1. Pair(f, g, u, v, Orders)
      BY <1>4, <1>5, <1>7, <2>0 DEF Pair
    <2>2. Below(f, g, S, T)
      BY <1>8, <2>0 DEF Below
    <2> QED BY <2>1, <2>2, OrdersAssumption, SumsCompare
  <1>10. OwedBy(S)' = u[S]
    BY <1>5
  <1>11. OwedBy(T) = v[T]
    BY <1>4
  <1> QED BY <1>9, <1>10, <1>11

LEMMA OwedNat == TypeOK => \A S \in SUBSET Orders : OwedBy(S) \in Nat
  <1> SUFFICES ASSUME TypeOK PROVE \A S \in SUBSET Orders : OwedBy(S) \in Nat
    OBVIOUS
  <1>1. PICK v : AddsUp(v)
    BY BalancesAddUp
  <1>2. Sums(Balances, v, Orders) /\ \A S \in SUBSET Orders : OwedBy(S) = v[S]
    BY <1>1 DEF AddsUp, OwedBy
  <1> QED BY <1>2 DEF Sums

\* One more order weighs its balance.
LEMMA OwedOneMore ==
    TypeOK => \A S \in SUBSET Orders : \A o \in S : OwedBy(S) = Balance(o) + OwedBy(S \ {o})
  <1> SUFFICES ASSUME TypeOK, NEW S \in SUBSET Orders, NEW o \in S
               PROVE  OwedBy(S) = Balance(o) + OwedBy(S \ {o})
    OBVIOUS
  <1>1. PICK v : AddsUp(v)
    BY BalancesAddUp
  <1>2. OwedBy(S) = v[S] /\ OwedBy(S \ {o}) = v[S \ {o}] /\ v[S] = Balances[o] + v[S \ {o}]
    BY <1>1 DEF AddsUp, OwedBy, Sums
  <1> QED BY <1>2 DEF Balances

LEMMA OwedLater ==
    ASSUME TypeOK'
    PROVE  /\ (\A S \in SUBSET Orders : OwedBy(S) \in Nat)'
           /\ (\A S \in SUBSET Orders : \A o \in S : OwedBy(S) = Balance(o) + OwedBy(S \ {o}))'
  BY OwedNat, OwedOneMore, PTL

\* Where every order weighs less, so does every table.
LEMMA LighterTables ==
    ASSUME TypeOK, TypeOK', \A o \in Orders : Lightens(o), NEW t \in Tables
    PROVE  OwedBy(Straight(t))' <= OwedBy(Straight(t))
  <1> DEFINE P == Straight(t)
  <1>1. P = { o \in Orders : Counts(o) /\ order[o].table = t /\ order[o].hold = "PENDING" }
    <2>1. Debtors(t) = { o \in Orders : Owes(o) /\ order[o].table = t }
      BY DebtorsOwe
    <2> QED BY <2>1 DEF Straight, Counts
  <1>2. P' = { o \in Orders : Counts(o)' /\ order'[o].table = t /\ order'[o].hold = "PENDING" }
    <2>1. (Debtors(t) = { o \in Orders : Owes(o) /\ order[o].table = t })'
      BY DebtorsOwe, PTL
    <2> QED BY <2>1 DEF Straight, Counts
  <1>3. \A o \in P' : Balance(o)' = 0 \/ (o \in P /\ Balance(o)' <= Balance(o))
    BY <1>1, <1>2 DEF Lightens
  <1>4. P \in SUBSET Orders /\ P' \in SUBSET Orders
    BY <1>1, <1>2
  <1>5. \A S, T \in SUBSET Orders :
           (\A o \in S : Balance(o)' = 0 \/ (o \in T /\ Balance(o)' <= Balance(o)))
             => OwedBy(S)' <= OwedBy(T)
    BY OwedCompare
  <1>6. \A S \in SUBSET Orders : S = P' => OwedBy(S)' = OwedBy(P)'
    BY DEF OwedBy, MapThenSumSet, MapThenFoldSet
  <1> HIDE DEF P
  <1> QED BY <1>3, <1>4, <1>5, <1>6 DEF P

\* What a step that lightens every order keeps.
LEMMA LighterCapped ==
    ASSUME XInv, IInv', \A o \in Orders : Lightens(o),
           PaidUp', \A h \in Handlers : Decided(request[h])'
    PROVE  XInv'
  <1>1. TypeOK /\ TypeOK' /\ Capped
    BY DEF XInv, IInv
  <1>2. ASSUME Capping, NEW t \in Tables PROVE OwedBy(Straight(t))' < Gates.threshold
    <2>1. OwedBy(Straight(t))' <= OwedBy(Straight(t))
      BY <1>1, LighterTables
    <2>2. OwedBy(Straight(t)) < Gates.threshold
      BY <1>1, <1>2 DEF Capped
    <2>3. OwedBy(Straight(t)) \in Nat
      BY <1>1, OwedNat DEF Straight, Debtors, Unsettled
    <2>4. (OwedBy(Straight(t)) \in Nat)'
      <3>1. (\A S \in SUBSET Orders : OwedBy(S) \in Nat)'
        BY <1>1, OwedNat, PTL
      <3>2. (Straight(t) \in SUBSET Orders)'
        BY DEF Straight, Debtors, Unsettled
      <3>3. PICK S \in SUBSET Orders : S = Straight(t)'
        BY <3>2
      <3>4. OwedBy(S)' = OwedBy(Straight(t))'
        BY <3>3 DEF OwedBy, MapThenSumSet, MapThenFoldSet
      <3> QED BY <3>1, <3>4
    <2>5. Gates.threshold \in Nat
      BY GatesAssumption
    <2> QED BY <2>1, <2>2, <2>3, <2>4, <2>5
  <1>3. Capped'
    BY <1>2 DEF Capped, Capping
  <1> QED BY <1>3 DEF XInv

\* Reading changes nobody's balance.
LEMMA RowsStand ==
    ASSUME TypeOK, order' = order
    PROVE  /\ \A o \in Orders : Lightens(o)
           /\ \A t : OwedBy(Debtors(t))' = OwedBy(Debtors(t))
           /\ PaidUp => PaidUp'
  <1>1. \A o \in Orders : Balance(o) \in Nat /\ Balance(o)' = Balance(o)
    BY BalanceType DEF Balance
  <1>2. \A o \in Orders : Lightens(o)
    BY <1>1 DEF Lightens, Owes, Counts
  <1>3. \A t : OwedBy(Debtors(t))' = OwedBy(Debtors(t))
    BY DEF OwedBy, Debtors, Unsettled, Balance, MapThenSumSet, MapThenFoldSet
  <1> QED BY <1>2, <1>3 DEF PaidUp

LEMMA ReadCapped ==
    ASSUME Alone, XInv, IInv', NEW h \in Handlers, NEW r, Decided(r),
           request' = [request EXCEPT ![h] = r], order' = order
    PROVE  XInv'
  <1>t. TypeOK /\ PaidUp
    BY DEF XInv, IInv
  <1>1. \A k \in Handlers : request'[k] = r
    BY <1>t DEF Alone, TypeOK
  <1>2. \A t : OwedBy(Debtors(t))' = OwedBy(Debtors(t))
    BY <1>t, RowsStand
  <1>3. Decided(r)'
    BY <1>2 DEF Decided
  <1>4. \A k \in Handlers : Decided(request[k])'
    BY <1>1, <1>3 DEF Decided
  <1> QED BY <1>t, <1>4, RowsStand, LighterCapped

\* A request that is done leaves none behind.
LEMMA DoneDecided ==
    ASSUME Alone, TypeOK, NEW h \in Handlers, Finish(h)
    PROVE  \A k \in Handlers : Decided(request[k])'
  <1>1. \A k \in Handlers : request'[k] = Idle
    BY DEF Alone, TypeOK, Finish
  <1> QED BY <1>1 DEF Decided, Idle

LEMMA WriteCapped ==
    ASSUME Alone, XInv, IInv', NEW h \in Handlers, Finish(h), NEW o \in Orders, NEW row,
           Update(o, row), Lightens(o),
           row.payment = "PAID" /\ ~GaveBack(row) => row.collected >= row.total
    PROVE  XInv'
  <1>t. TypeOK /\ PaidUp
    BY DEF XInv, IInv
  <1>1. order'[o] = row /\ \A p \in Orders \ {o} : order'[p] = order[p]
    BY <1>t DEF Update, TypeOK
  <1>2. \A p \in Orders : Balance(p) \in Nat
    BY <1>t, BalanceType
  <1>3. ASSUME NEW p \in Orders \ {o} PROVE Lightens(p)
    <2>1. Balance(p)' = Balance(p)
      BY <1>1 DEF Balance
    <2> QED BY <1>1, <1>2, <2>1 DEF Lightens, Owes, Counts
  <1>4. PaidUp'
    BY <1>t, <1>1 DEF PaidUp
  <1> QED BY <1>t, <1>3, <1>4, DoneDecided, LighterCapped

\* An order is placed below the threshold, or on no table, or held.
LEMMA PlaceCapped ==
    ASSUME Alone, XInv, IInv', NEW h \in Handlers, CommitPlace(h)
    PROVE  XInv'
  <1>0. PICK o, row : o = request[h].o /\ row = request[h].row
    OBVIOUS
  <1>t. TypeOK /\ TypeOK' /\ PaidUp /\ Capped
    BY DEF XInv, IInv
  <1>1. Update(o, row) /\ Finish(h) /\ Doing(h, "place")
    BY <1>0 DEF CommitPlace
  <1>2. /\ o \in Orders /\ row \in OrderRow
        /\ row.hold = row.status /\ row.status # "CANCELLED" /\ row.payment # "PAID"
    BY <1>0, <1>1, <1>t, RequestKinds
       DEF PlaceReq, XInv, IInv, InFlightSound, Sound, PlacingSound, Doing, Decided, HELD_STATUSES
  <1>3. Capping /\ row.status = "PENDING" /\ row.table \in Tables =>
          OwedBy(Debtors(row.table)) + row.total < Gates.threshold
    BY <1>0, <1>1 DEF XInv, Decided, Doing
  <1>4. order'[o] = row /\ \A p \in Orders \ {o} : order'[p] = order[p]
    BY <1>t, <1>1, <1>2 DEF Update, TypeOK
  <1>5. \A p \in Orders : Balance(p) \in Nat
    BY <1>t, BalanceType
  <1>6. \A p \in Orders \ {o} : /\ Balance(p)' = Balance(p) /\ (Counts(p)' <=> Counts(p))
                                /\ order'[p].table = order[p].table /\ order'[p].hold = order[p].hold
    BY <1>4 DEF Balance, Owes, Counts
  <1>7. Balance(o)' \in Nat /\ Balance(o)' <= row.total
    <2>1. row.total \in Nat /\ row.collected \in Nat
      BY <1>2 DEF OrderRow
    <2> QED BY <1>2, <1>4, <2>1 DEF Balance, AtLeastZero
  <1>8. ASSUME Capping, NEW t \in Tables PROVE OwedBy(Straight(t))' < Gates.threshold
    <2>n. Gates.threshold \in Nat /\ row.total \in Nat
      BY GatesAssumption, <1>2 DEF OrderRow
    <2>1. /\ Debtors(t) = { p \in Orders : Owes(p) /\ order[p].table = t }
          /\ Straight(t) = { p \in Debtors(t) : order[p].hold = "PENDING" /\ ~GaveBack(order[p]) }
          /\ OwedBy(Debtors(t)) \in Nat /\ OwedBy(Straight(t)) \in Nat
      <3>1. Debtors(t) = { p \in Orders : Owes(p) /\ order[p].table = t }
        BY DebtorsOwe
      <3>2. Straight(t) = { p \in Debtors(t) : order[p].hold = "PENDING" /\ ~GaveBack(order[p]) }
        BY DEF Straight
      <3>3. Debtors(t) \in SUBSET Orders /\ Straight(t) \in SUBSET Orders
        BY <3>1, <3>2
      <3> QED BY <1>t, <3>1, <3>2, <3>3, OwedNat
    <2>2. PICK S \in SUBSET Orders : S = Straight(t)'
      BY DEF Straight, Debtors, Unsettled
    <2>3. S = { p \in Orders : Counts(p)' /\ order'[p].table = t /\ order'[p].hold = "PENDING" }
      <3>1. Debtors(t)' = { p \in Orders : Owes(p)' /\ order'[p].table = t }
        BY NoTableAssumption DEF Debtors, Unsettled, Owes
      <3> QED BY <2>2, <3>1 DEF Straight, Counts
    <2>4. OwedBy(S)' = OwedBy(Straight(t))'
      BY <2>2 DEF OwedBy, MapThenSumSet, MapThenFoldSet
    <2>5. \A T \in SUBSET Orders : OwedBy(T)' \in Nat
      BY <1>t, OwedLater
    <2>6. \A T, U \in SUBSET Orders : (\A p \in T : p \in U /\ p # o) => OwedBy(T)' <= OwedBy(U)
      <3> SUFFICES ASSUME NEW T \in SUBSET Orders, NEW U \in SUBSET Orders,
                          \A p \in T : p \in U /\ p # o
                   PROVE  OwedBy(T)' <= OwedBy(U)
        OBVIOUS
      <3>1. \A p \in T : Balance(p)' = 0 \/ (p \in U /\ Balance(p)' <= Balance(p))
        BY <1>5, <1>6
      <3> QED BY <1>t, <3>1, OwedCompare
    <2>7. CASE o \in S
      <3>1. row.table = t /\ row.status = "PENDING"
        BY <1>2, <1>4, <2>3, <2>7
      <3>2. OwedBy(Debtors(t)) + row.total < Gates.threshold
        BY <1>3, <1>8, <3>1
      <3>3. OwedBy(S)' = Balance(o)' + OwedBy(S \ {o})'
        BY <1>t, <2>7, OwedLater
      <3>4. OwedBy(S \ {o})' <= OwedBy(Debtors(t))
        <4>1. \A p \in S \ {o} : p \in Debtors(t) /\ p # o
          BY <1>6, <2>1, <2>3 DEF Counts
        <4>2. Debtors(t) \in SUBSET Orders /\ S \ {o} \in SUBSET Orders
          BY <2>1
        <4> QED BY <2>6, <4>1, <4>2
      <3>5. OwedBy(S \ {o})' \in Nat
        BY <2>5
      <3> QED BY <1>7, <2>1, <2>4, <2>n, <3>2, <3>3, <3>4, <3>5
    <2>8. CASE o \notin S
      <3>1. \A p \in S : p \in Straight(t) /\ p # o
        BY <1>6, <2>1, <2>3, <2>8 DEF Counts
      <3>2. Straight(t) \in SUBSET Orders
        BY <2>1
      <3>3. OwedBy(S)' <= OwedBy(Straight(t)) /\ OwedBy(S)' \in Nat
        BY <2>5, <2>6, <3>1, <3>2
      <3>4. OwedBy(Straight(t)) < Gates.threshold
        BY <1>t, <1>8 DEF Capped
      <3> QED BY <2>1, <2>4, <2>n, <3>3, <3>4
    <2> QED BY <2>7, <2>8
  <1>9. Capped'
    BY <1>8 DEF Capped, Capping
  <1>10. PaidUp'
    BY <1>t, <1>2, <1>4 DEF PaidUp
  <1> QED BY <1>1, <1>9, <1>10, <1>t, DoneDecided DEF XInv

LEMMA GuestCapped ==
    ASSUME Alone, XInv, IInv', NEW h \in Handlers, Guest(h)
    PROVE  XInv'
  <1>t. TypeOK
    BY DEF XInv, IInv
  <1>1. ASSUME NEW o \in Orders, NEW t \in Tables \union {NoTable}, NEW g \in Guests,
               NEW s \in Subtotals, ReadPlace(h, o, t, g, s)
        PROVE  XInv'
    <2> DEFINE total == TotalOf(s)
               hold  == EvaluateHold(OpenBalance(t, g) + total, total, Gates)
               row   == [ Unplaced(g) EXCEPT !.status = hold.status, !.hold = hold.status,
                                    !.advance = hold.advance, !.table = t,
                                    !.lines = s, !.total = total, !.recent = TRUE ]
               r     == [op |-> "place", o |-> o, row |-> row]
    <2>1. request' = [request EXCEPT ![h] = r] /\ order' = order
      BY <1>1 DEF ReadPlace, Start
    <2>2. /\ row.status = hold.status /\ row.payment # "PAID" /\ row.table = t /\ row.total = total
          /\ r.op = "place" /\ r.row = row
      BY DEF Unplaced
    <2>3. Capping /\ hold.status = "PENDING" => OpenBalance(t, g) + total < Gates.threshold
      <3> SUFFICES ASSUME Capping, hold.status = "PENDING"
                   PROVE  OpenBalance(t, g) + total < Gates.threshold
        OBVIOUS
      <3>1. ~ (OpenBalance(t, g) + total >= Gates.threshold)
        <4> HIDE DEF total
        <4> QED BY DEF EvaluateHold, Capping
      <3>2. OpenBalance(t, g) \in Nat
        <4>1. Unsettled(t, g) \in SUBSET Orders
          BY DEF Unsettled
        <4> QED BY <1>t, <4>1, OwedNat DEF OpenBalance, OwedBy
      <3>3. total \in Nat /\ Gates.threshold \in Nat
        BY TotalNat, AmountsAssumption, GatesAssumption
      <3> HIDE DEF total
      <3> QED BY <3>1, <3>2, <3>3
    <2>4. t \in Tables => OpenBalance(t, g) = OwedBy(Debtors(t))
      BY DebtorsOwe DEF OpenBalance, OwedBy
    <2> HIDE DEF total, hold, row
    <2>5. Decided(r)
      <3> HIDE DEF r
      <3> QED BY <2>2, <2>3, <2>4 DEF Decided
    <2> HIDE DEF r
    <2> QED BY <2>1, <2>5, ReadCapped
  <1>2. ASSUME NEW o \in Orders, NEW a, CheckVoid(h, o, a) PROVE XInv'
    <2> DEFINE r == [op |-> "void", o |-> o, actor |-> a]
    <2>1. request' = [request EXCEPT ![h] = r] /\ order' = order
      BY <1>2 DEF CheckVoid, Start
    <2>2. Decided(r)
      BY DEF Decided
    <2> HIDE DEF r
    <2> QED BY <2>1, <2>2, ReadCapped
  <1>3. ASSUME NEW o \in Orders, InitiateOnline(h, o) PROVE XInv'
    <2> DEFINE due == IF order[o].status = "AWAITING_ADVANCE_PAYMENT"
                      THEN AdvanceDue(o) ELSE order[o].total - order[o].collected
               r   == [op |-> "pay", o |-> o, amount |-> due]
    <2>1. request' = [request EXCEPT ![h] = r] /\ order' = order
      BY <1>3 DEF InitiateOnline, Start
    <2> HIDE DEF due
    <2>2. Decided(r)
      BY DEF Decided
    <2> HIDE DEF r
    <2> QED BY <2>1, <2>2, ReadCapped
  <1> QED BY <1>1, <1>2, <1>3 DEF Guest

LEMMA StaffedCapped ==
    ASSUME Alone, XInv, IInv', NEW h \in Handlers, Staffed(h)
    PROVE  XInv'
  <1> PICK o \in Orders, a \in Staff :
        \/ \E next \in SettableStatuses : ReadUpdate(h, o, next, a)
        \/ CheckVoid(h, o, a)
        \/ ReadApprove(h, o, a)
        \/ \E extra \in Extras : ReadAdd(h, o, extra)
        \/ CheckCashAdvance(h, o)
        \/ CheckCashPayment(h, o)
        \/ \E payment \in {"PAID", "UNPAID"} : ReadSettle(h, o, payment)
        \/ \E i \in DOMAIN order[o].receipts : ReadRefund(h, o, i)
        \/ ReadSettleRefund(h, o)
    BY DEF Staffed
  <1>1. ASSUME NEW next, ReadUpdate(h, o, next, a) PROVE XInv'
    <2> DEFINE r == StatusRead(o, next, a)
    <2>1. request' = [request EXCEPT ![h] = r] /\ order' = order
      BY <1>1 DEF ReadUpdate, Start
    <2>2. r.op = "status" /\ r.o = o
      BY DEF StatusRead
    <2>3. order[o].status # "CANCELLED"
      BY <1>1 DEF ReadUpdate, CanTransition, ALLOWED_TRANSITIONS
    <2> HIDE DEF r
    <2>4. Decided(r)
      BY <2>2, <2>3 DEF Decided
    <2> QED BY <2>1, <2>4, ReadCapped
  <1>2. CASE CheckVoid(h, o, a)
    <2> DEFINE r == [op |-> "void", o |-> o, actor |-> a]
    <2>1. request' = [request EXCEPT ![h] = r] /\ order' = order
      BY <1>2 DEF CheckVoid, Start
    <2>2. Decided(r)
      BY DEF Decided
    <2> HIDE DEF r
    <2> QED BY <2>1, <2>2, ReadCapped
  <1>3. CASE ReadApprove(h, o, a)
    <2> DEFINE next == IF order[o].collected < order[o].advance
                       THEN "AWAITING_ADVANCE_PAYMENT" ELSE "PENDING"
               r == [op |-> "approve", o |-> o, actor |-> a, next |-> next]
    <2>1. request' = [request EXCEPT ![h] = r] /\ order' = order /\ order[o].status = "NEEDS_APPROVAL"
      BY <1>3 DEF ReadApprove, Start
    <2> HIDE DEF next
    <2>2. Decided(r)
      BY <2>1 DEF Decided
    <2> HIDE DEF r
    <2> QED BY <2>1, <2>2, ReadCapped
  <1>4. CASE CheckCashAdvance(h, o) \/ CheckCashPayment(h, o)
    <2>1. PICK amount : request' = [request EXCEPT ![h] = [op |-> "pay", o |-> o, amount |-> amount]]
                        /\ order' = order
      BY <1>4 DEF CheckCashAdvance, CheckCashPayment, Start
    <2> DEFINE r == [op |-> "pay", o |-> o, amount |-> amount]
    <2>2. Decided(r)
      BY DEF Decided
    <2>3. request' = [request EXCEPT ![h] = r] /\ order' = order
      BY <2>1
    <2> HIDE DEF r
    <2> QED BY <2>2, <2>3, ReadCapped
  <1>5. ASSUME NEW payment, ReadSettle(h, o, payment) PROVE XInv'
    <2> DEFINE amount == IF payment = "PAID" THEN order[o].total ELSE 0
               r == [op |-> "settle", o |-> o, payment |-> payment, amount |-> amount]
    <2>1. request' = [request EXCEPT ![h] = r] /\ order' = order /\ order[o].collected = 0
      BY <1>5 DEF ReadSettle, Start
    <2>2. payment = "PAID" => amount = order[o].total
      OBVIOUS
    <2> HIDE DEF amount
    <2>3. Decided(r)
      BY <2>1, <2>2 DEF Decided
    <2> HIDE DEF r
    <2> QED BY <2>1, <2>3, ReadCapped
  <1>6. \A extra \in Extras : ~ReadAdd(h, o, extra)
    BY DEF Alone
  <1>7. ASSUME NEW i \in DOMAIN order[o].receipts, ReadRefund(h, o, i) PROVE XInv'
    <2> DEFINE r == [op |-> "refund", o |-> o, gone |-> {i}, closes |-> Standing(o) = {i}]
    <2>1. request' = [request EXCEPT ![h] = r] /\ order' = order
      BY <1>7 DEF ReadRefund, Start
    <2>2. Decided(r)
      BY DEF Decided
    <2> HIDE DEF r
    <2> QED BY <2>1, <2>2, ReadCapped
  <1>8. CASE ReadSettleRefund(h, o)
    <2> DEFINE r == [op |-> "refund", o |-> o, gone |-> Standing(o), closes |-> TRUE]
    <2>1. request' = [request EXCEPT ![h] = r] /\ order' = order /\ Standing(o) # {}
      BY <1>8 DEF ReadSettleRefund, Start
    <2>2. Decided(r)
      BY <2>1 DEF Decided, Standing
    <2> HIDE DEF r
    <2> QED BY <2>1, <2>2, ReadCapped
  <1> QED BY <1>1, <1>2, <1>3, <1>4, <1>5, <1>6, <1>7, <1>8

\* A payment booked gives nothing back.
LEMMA BookedKeeps ==
    ASSUME NEW row \in OrderRow, NEW amount \in Nat
    PROVE  GaveBack(row) => GaveBack(Booked(row, amount))
  <1> SUFFICES ASSUME GaveBack(row) PROVE GaveBack(Booked(row, amount))
    OBVIOUS
  <1>1. PICK receipts \in Seq(Nat) : receipts = row.receipts
    BY DEF OrderRow
  <1>2. PICK i \in DOMAIN receipts : receipts[i] = 0
    BY <1>1 DEF GaveBack
  <1>3. i \in DOMAIN Append(receipts, amount) /\ Append(receipts, amount)[i] = 0
    BY <1>2
  <1>4. Booked(row, amount).receipts = Append(receipts, amount)
    BY <1>1 DEF Booked, OrderRow
  <1> QED BY <1>3, <1>4 DEF GaveBack

LEMMA ProceedCapped ==
    ASSUME Alone, XInv, IInv', NEW h \in Handlers, Proceed(h)
    PROVE  XInv'
  <1>0. PICK o, r : o = request[h].o /\ r = request[h]
    OBVIOUS
  <1>t. TypeOK /\ PaidUp /\ Decided(r) /\ Sound(r)
    BY <1>0 DEF XInv, IInv, InFlightSound
  <1>o. ~IsIdle(h) => /\ o \in Orders /\ order[o] \in OrderRow
                      /\ (r.op # "place" => order[o].status # "UNPLACED")
    <2> SUFFICES ASSUME ~IsIdle(h)
                 PROVE  /\ o \in Orders /\ order[o] \in OrderRow
                        /\ r.op # "place" => order[o].status # "UNPLACED"
      OBVIOUS
    <2>1. o \in Orders /\ order[o] \in OrderRow
      BY <1>0, <1>t, RequestKinds DEF TypeOK
    <2>2. r.op # "place" => Placed(r.o)
      BY <1>0, <1>t DEF Sound, IsIdle
    <2> QED BY <1>0, <2>1, <2>2 DEF Placed
  \* a write that moves neither the bill nor an order that was not owing
  <1>u. ASSUME ~IsIdle(h), r.op # "place", NEW row, Update(o, row), Finish(h),
               row.total = order[o].total, row.table = order[o].table,
               row.hold = order[o].hold, row.recent = order[o].recent,
               row.status \notin {"UNPLACED", "CANCELLED"} => order[o].status # "CANCELLED",
               row.collected \in Nat, GaveBack(order[o]) => GaveBack(row),
               ~GaveBack(row) => order[o].collected <= row.collected,
               row.payment = "PAID" /\ ~GaveBack(row) => row.collected >= row.total
        PROVE  XInv'
    <2>1. o \in Orders /\ order[o].total \in Nat /\ order[o].collected \in Nat
      BY <1>o, <1>u DEF OrderRow
    <2>2. order'[o] = row
      BY <1>t, <1>u, <2>1 DEF Update, TypeOK
    <2>3. order[o].payment = "PAID" /\ ~GaveBack(row) => order[o].collected >= order[o].total
      BY <1>t, <1>u, <2>1 DEF PaidUp
    <2>4. Balance(o)' = AtLeastZero(order[o].total - row.collected)
      BY <1>u, <2>2 DEF Balance
    <2>5. ~GaveBack(row) => Balance(o)' <= Balance(o)
      BY <1>u, <2>1, <2>4 DEF Balance, AtLeastZero
    <2>6. order[o].payment = "PAID" /\ ~GaveBack(row) => Balance(o)' = 0
      BY <1>u, <2>1, <2>3, <2>4 DEF AtLeastZero
    <2>7. Lightens(o)
      BY <1>o, <1>u, <2>2, <2>5, <2>6 DEF Lightens, Owes, Counts
    <2> QED BY <1>u, <2>1, <2>7, WriteCapped
  <1>1. CASE CommitPlace(h)
    BY <1>1, PlaceCapped
  <1>2. CASE ReadVoid(h)
    <2> DEFINE s == StatusRead(o, "CANCELLED", r.actor)
    <2>1. request' = [request EXCEPT ![h] = s] /\ order' = order /\ order[o].status # "CANCELLED"
      BY <1>0, <1>2 DEF ReadVoid, Continue, CanTransition, ALLOWED_TRANSITIONS
    <2>2. Decided(s)
      BY <2>1 DEF StatusRead, Decided
    <2> HIDE DEF s
    <2> QED BY <2>1, <2>2, ReadCapped
  <1>3. CASE CountOpen(h)
    <2> DEFINE frees == /\ order[o].table # NoTable
                        /\ r.next \in TerminalStatuses
                        /\ OpenOn(order[o].table) \subseteq {o}
               s == [ op |-> "counted", o |-> o, actor |-> r.actor, seen |-> r.seen,
                  next |-> r.next, first |-> r.first, frees |-> frees ]
    <2>1. request' = [request EXCEPT ![h] = s] /\ order' = order
      BY <1>0, <1>3 DEF CountOpen, Continue
    <2>2. order[o].status # "CANCELLED"
      BY <1>0, <1>3, <1>t DEF CountOpen, Doing, Decided
    <2> HIDE DEF frees
    <2>3. Decided(s)
      BY <2>2 DEF Decided
    <2> HIDE DEF s
    <2> QED BY <2>1, <2>3, ReadCapped
  <1>4. CASE CommitStatus(h)
    <2> DEFINE row == [order[o] EXCEPT !.status    = r.next,
                            !.handledBy = IF r.first THEN r.actor ELSE order[o].handledBy]
    <2>1. Update(o, row) /\ Finish(h) /\ r.op = "counted" /\ ~IsIdle(h)
      BY <1>0, <1>4 DEF CommitStatus, Doing, IsIdle
    <2>2. order[o].status # "CANCELLED"
      BY <1>0, <1>t, <2>1 DEF Decided
    <2>3. /\ row.total = order[o].total /\ row.table = order[o].table
          /\ row.hold = order[o].hold /\ row.recent = order[o].recent
          /\ row.collected = order[o].collected /\ row.payment = order[o].payment
          /\ row.receipts = order[o].receipts
      BY <1>o, <2>1 DEF OrderRow
    <2>4. /\ order[o].collected \in Nat
          /\ order[o].payment = "PAID" /\ ~GaveBack(order[o])
               => order[o].collected >= order[o].total
      BY <1>o, <1>t, <2>1 DEF OrderRow, PaidUp
    <2>5. GaveBack(row) <=> GaveBack(order[o])
      BY <2>3 DEF GaveBack
    <2> HIDE DEF row
    <2> QED BY <1>u, <2>1, <2>2, <2>3, <2>4, <2>5
  <1>5. CASE CommitApprove(h)
    <2> DEFINE row == [order[o] EXCEPT !.status = r.next, !.approvedBy = r.actor]
    <2>1. Update(o, row) /\ Finish(h) /\ r.op = "approve" /\ ~IsIdle(h)
      BY <1>0, <1>5 DEF CommitApprove, Doing, IsIdle
    <2>2. order[o].status # "CANCELLED"
      BY <1>0, <1>t, <2>1 DEF Decided
    <2>3. /\ row.total = order[o].total /\ row.table = order[o].table
          /\ row.hold = order[o].hold /\ row.recent = order[o].recent
          /\ row.collected = order[o].collected /\ row.payment = order[o].payment
          /\ row.receipts = order[o].receipts
      BY <1>o, <2>1 DEF OrderRow
    <2>4. /\ order[o].collected \in Nat
          /\ order[o].payment = "PAID" /\ ~GaveBack(order[o])
               => order[o].collected >= order[o].total
      BY <1>o, <1>t, <2>1 DEF OrderRow, PaidUp
    <2>5. GaveBack(row) <=> GaveBack(order[o])
      BY <2>3 DEF GaveBack
    <2> HIDE DEF row
    <2> QED BY <1>u, <2>1, <2>2, <2>3, <2>4, <2>5
  <1>6. ~CommitAdd(h)
    BY <1>0, <1>t DEF CommitAdd, Doing, Decided
  <1>7. CASE ReadBook(h)
    <2> DEFINE settles == order[o].collected + r.amount >= order[o].total
               s == [ op |-> "book", o |-> o, amount |-> r.amount, settles |-> settles ]
    <2>1. request' = [request EXCEPT ![h] = s] /\ order' = order
      BY <1>0, <1>7 DEF ReadBook, Continue
    <2>2. /\ s.op = "book" /\ s.o = o /\ s.amount = r.amount /\ s.settles = settles
      BY Zenon
    <2> HIDE DEF s
    <2>3. Decided(s)
      BY <2>2 DEF Decided
    <2> QED BY <2>1, <2>3, ReadCapped
  <1>8. CASE ReadRelease(h)
    <2> DEFINE releases == /\ order[o].status = "AWAITING_ADVANCE_PAYMENT"
                           /\ order[o].collected + r.amount >= order[o].advance
               s == [ op |-> "release", o |-> o, amount |-> r.amount,
                      settles |-> r.settles, releases |-> releases ]
    <2>1. request' = [request EXCEPT ![h] = s] /\ order' = order /\ r.op = "book" /\ r.o = o
      BY <1>0, <1>8 DEF ReadRelease, Continue, Doing
    <2>r. releases => order[o].status # "CANCELLED"
      OBVIOUS
    <2> HIDE DEF releases
    <2>2. /\ s.op = "release" /\ s.o = o /\ s.amount = r.amount /\ s.settles = r.settles
          /\ s.releases = releases
      BY Zenon
    <2> HIDE DEF s
    <2>3. Decided(s)
      BY <1>t, <2>1, <2>2, <2>r DEF Decided
    <2> QED BY <2>1, <2>3, ReadCapped
  <1>9. CASE CommitBook(h)
    <2> DEFINE booked == Booked(order[o], r.amount)
               row == [ booked EXCEPT
                !.payment = IF r.settles THEN "PAID" ELSE order[o].payment,
                !.status  = IF r.releases THEN "PENDING" ELSE order[o].status ]
    <2>1. Update(o, row) /\ Finish(h) /\ r.op = "release" /\ ~IsIdle(h)
      BY <1>0, <1>9 DEF CommitBook, Doing, IsIdle
    <2>r. r \in ReleaseReq /\ r.amount \in Nat
      BY <1>0, <1>t, <2>1, RequestKinds DEF Doing, ReleaseReq
    <2>b. booked \in OrderRow /\ (GaveBack(order[o]) => GaveBack(booked))
      BY <1>o, <2>1, <2>r, BookedType, BookedKeeps
    <2>2. /\ row.total = order[o].total /\ row.table = order[o].table
          /\ row.hold = order[o].hold /\ row.recent = order[o].recent
          /\ row.collected = order[o].collected + r.amount
          /\ row.status = IF r.releases THEN "PENDING" ELSE order[o].status
          /\ row.payment = IF r.settles THEN "PAID" ELSE order[o].payment
          /\ row.receipts = booked.receipts
      BY <1>o, <2>1 DEF OrderRow, Booked
    <2>3. GaveBack(row) <=> GaveBack(booked)
      BY <2>2 DEF GaveBack
    <2>4. /\ order[o].collected \in Nat /\ order[o].total \in Nat
          /\ order[o].payment = "PAID" /\ ~GaveBack(order[o])
               => order[o].collected >= order[o].total
      BY <1>o, <1>t, <2>1 DEF OrderRow, PaidUp
    <2>5. r.settles => order[o].collected + r.amount >= order[o].total
      BY <1>0, <1>t, <2>1 DEF Decided
    <2>6. r.releases => order[o].status # "CANCELLED"
      BY <1>0, <1>t, <2>1 DEF Decided
    <2> HIDE DEF row, booked
    <2>7. row.collected \in Nat /\ order[o].collected <= row.collected
      BY <2>2, <2>4, <2>r
    <2>8. row.payment = "PAID" /\ ~GaveBack(row) => row.collected >= row.total
      BY <2>2, <2>3, <2>4, <2>5, <2>7, <2>b
    <2>9. row.status \notin {"UNPLACED", "CANCELLED"} => order[o].status # "CANCELLED"
      BY <2>2, <2>6
    <2> QED BY <1>u, <2>1, <2>2, <2>3, <2>7, <2>8, <2>9, <2>b
  <1>10. CASE CommitSettle(h)
    <2> DEFINE booked == IF r.payment = "PAID" THEN Booked(order[o], r.amount) ELSE order[o]
               row == [booked EXCEPT !.payment = r.payment]
    <2>1. Update(o, row) /\ Finish(h) /\ r.op = "settle" /\ ~IsIdle(h)
      BY <1>0, <1>10 DEF CommitSettle, Doing, IsIdle
    <2>r. r \in SettleReq /\ r.amount \in Nat
      BY <1>0, <1>t, <2>1, RequestKinds DEF Doing, SettleReq
    <2>b. booked \in OrderRow /\ (GaveBack(order[o]) => GaveBack(booked))
      BY <1>o, <2>1, <2>r, BookedType, BookedKeeps
    <2>2. /\ row.total = order[o].total /\ row.table = order[o].table
          /\ row.hold = order[o].hold /\ row.recent = order[o].recent
          /\ row.collected = order[o].collected + (IF r.payment = "PAID" THEN r.amount ELSE 0)
          /\ row.status = order[o].status /\ row.payment = r.payment
          /\ row.receipts = booked.receipts
      BY <1>o, <2>1 DEF OrderRow, Booked
    <2>3. order[o].collected = 0 /\ order[o].total \in Nat
      BY <1>0, <1>o, <1>t, <2>1 DEF Decided, OrderRow
    <2>4. r.payment = "PAID" => r.amount = order[o].total
      BY <1>0, <1>t, <2>1 DEF Decided
    <2>5. GaveBack(row) <=> GaveBack(booked)
      BY <2>2 DEF GaveBack
    <2> HIDE DEF row, booked
    <2> QED BY <1>u, <2>1, <2>2, <2>3, <2>4, <2>5, <2>b, <2>r
  <1>11. CASE CommitRefund(h)
    <2> DEFINE left == Without(order[o].receipts, r.gone)
               row == [order[o] EXCEPT !.receipts  = left,
                                       !.collected = SumOf(left),
                                       !.payment   = IF r.closes THEN "REFUNDED"
                                                     ELSE order[o].payment ]
    <2>1. Update(o, row) /\ Finish(h) /\ r.op = "refund" /\ ~IsIdle(h)
      BY <1>0, <1>11 DEF CommitRefund, Doing, IsIdle
    <2>2. SumOf(left) \in Nat
      BY <1>o, <2>1, WithoutType DEF OrderRow
    <2>3. PICK i \in DOMAIN order[o].receipts : i \in r.gone
      BY <1>0, <1>t, <2>1 DEF Decided
    <2>4. i \in DOMAIN left /\ left[i] = 0
      BY <2>3 DEF Without
    <2> HIDE DEF left
    <2>5. /\ row.total = order[o].total /\ row.table = order[o].table
          /\ row.hold = order[o].hold /\ row.recent = order[o].recent
          /\ row.collected = SumOf(left) /\ row.receipts = left
          /\ row.status = order[o].status
      BY <1>o, <2>1 DEF OrderRow
    <2>6. GaveBack(row)
      BY <2>4, <2>5 DEF GaveBack
    <2> HIDE DEF row
    <2> QED BY <1>u, <2>1, <2>2, <2>5, <2>6
  <1>12. CASE Abort(h)
    <2>1. request' = [request EXCEPT ![h] = Idle] /\ order' = order
      BY <1>12 DEF Abort, Finish
    <2>2. Decided(Idle)
      BY DEF Decided, Idle
    <2> QED BY <2>1, <2>2, ReadCapped
  <1> QED BY <1>1, <1>2, <1>3, <1>4, <1>5, <1>6, <1>7, <1>8, <1>9, <1>10, <1>11, <1>12
          DEF Proceed

LEMMA EnvironmentCapped ==
    ASSUME XInv, IInv', Environment
    PROVE  XInv'
  <1>t. TypeOK /\ TypeOK' /\ PaidUp
    BY DEF XInv, IInv
  <1>1. request' = request /\ \A o \in Orders : /\ order'[o].status = order[o].status
           /\ order'[o].table = order[o].table /\ order'[o].hold = order[o].hold
           /\ order'[o].total = order[o].total /\ order'[o].collected = order[o].collected
           /\ order'[o].payment = order[o].payment /\ (order'[o].recent => order[o].recent)
           /\ order'[o].receipts = order[o].receipts
    <2>1. CASE order' = order /\ request' = request
      BY <2>1
    <2>2. ASSUME NEW p \in Orders, WindowPasses(p)
          PROVE  request' = request /\ order' = [order EXCEPT ![p].recent = FALSE]
      BY <2>2 DEF WindowPasses
    <2>3. ASSUME NEW p \in Orders, order' = [order EXCEPT ![p].recent = FALSE]
          PROVE  \A o \in Orders : /\ order'[o].status = order[o].status
           /\ order'[o].table = order[o].table /\ order'[o].hold = order[o].hold
           /\ order'[o].total = order[o].total /\ order'[o].collected = order[o].collected
           /\ order'[o].payment = order[o].payment /\ (order'[o].recent => order[o].recent)
           /\ order'[o].receipts = order[o].receipts
      BY <1>t, <2>3 DEF TypeOK, OrderRow
    <2>4. \/ order' = order /\ request' = request
          \/ \E p \in Orders : WindowPasses(p)
      BY DEF Environment, SetTableActive, SetAccepting
    <2> QED BY <2>1, <2>2, <2>3, <2>4
  <1>2. \A o \in Orders : Balance(o) \in Nat /\ Balance(o)' = Balance(o)
    BY <1>t, <1>1, BalanceType DEF Balance
  <1>3. \A o \in Orders : Lightens(o)
    BY <1>1, <1>2 DEF Lightens, Owes, Counts, GaveBack
  <1>4. PaidUp'
    BY <1>t, <1>1 DEF PaidUp, GaveBack
  <1>5. ASSUME NEW h \in Handlers PROVE Decided(request[h])'
    <2>0. PICK r : r = request[h]
      OBVIOUS
    <2>1. Decided(r) /\ request'[h] = r
      BY <1>1, <2>0 DEF XInv
    <2>2. r.op \notin {"none", "place"} => r.o \in Orders
      BY <1>t, <2>0, RequestKinds DEF IsIdle
    <2>3. ASSUME r.op = "place", Capping, r.row.status = "PENDING", r.row.table \in Tables
          PROVE  OwedBy(Debtors(r.row.table))' + r.row.total < Gates.threshold
      <3>0. PICK t \in Tables : t = r.row.table
        BY <2>3
      <3>1. OwedBy(Debtors(t))' <= OwedBy(Debtors(t))
        <4>1. PICK S \in SUBSET Orders : S = Debtors(t)'
          BY DEF Debtors, Unsettled
        <4>2. OwedBy(S)' = OwedBy(Debtors(t))'
          BY <4>1 DEF OwedBy, MapThenSumSet, MapThenFoldSet
        <4>3. S \subseteq Debtors(t) /\ Debtors(t) \in SUBSET Orders
          BY <1>1, <4>1, NoTableAssumption DEF Debtors, Unsettled
        <4>4. OwedBy(S)' <= OwedBy(Debtors(t))
          BY <1>t, <1>2, <4>3, OwedCompare
        <4> QED BY <4>2, <4>4
      <3>2. OwedBy(Debtors(t)) + r.row.total < Gates.threshold
        BY <2>1, <2>3, <3>0 DEF Decided
      <3>3. OwedBy(Debtors(t)) \in Nat
        BY <1>t, OwedNat DEF Debtors, Unsettled
      <3>4. OwedBy(Debtors(t))' \in Nat
        <4>1. PICK S \in SUBSET Orders : S = Debtors(t)'
          BY DEF Debtors, Unsettled
        <4>2. OwedBy(S)' = OwedBy(Debtors(t))'
          BY <4>1 DEF OwedBy, MapThenSumSet, MapThenFoldSet
        <4> QED BY <1>t, <4>2, OwedLater
      <3>5. r.row.total \in Nat /\ Gates.threshold \in Nat
        <4>1. r \in PlaceReq
          BY <1>t, <2>0, <2>3, RequestKinds DEF Doing
        <4> QED BY <4>1, GatesAssumption DEF PlaceReq, OrderRow
      <3>6. OwedBy(Debtors(t))' + r.row.total < Gates.threshold
        BY <3>1, <3>2, <3>3, <3>4, <3>5
      <3> QED BY <3>0, <3>6
    <2>4. Decided(r)'
      BY <1>1, <2>1, <2>2, <2>3 DEF Decided
    <2> QED BY <2>1, <2>4 DEF Decided
  <1> QED BY <1>3, <1>4, <1>5, LighterCapped

\* Served one at a time, and while no order grows, the orders that went straight to the
\* kitchen never leave a table owing the threshold or more: the open balance that
\* placeOrder has read, with the order it is about to place, still bounds what the table
\* owes when the order appears, and nothing that happens to an order afterwards adds to it
\* but giving its money back.
THEOREM SplittingDoesNotHelp == Alone => (Spec => []ExposureCapped)
  <1> SUFFICES ASSUME Alone PROVE Spec => []ExposureCapped
    OBVIOUS
  <1>1. Init => XInv
    <2> SUFFICES ASSUME Init PROVE XInv
      OBVIOUS
    <2>1. IInv /\ TypeOK
      BY InitType, InitIInv DEF IInv
    <2>2. \A h \in Handlers : Decided(request[h])
      BY DEF Init, Idle, Decided
    <2>3. PaidUp
      BY DEF Init, Unplaced, PaidUp
    <2>4. ASSUME Capping, NEW t \in Tables PROVE OwedBy(Straight(t)) < Gates.threshold
      <3>1. Straight(t) = {}
        BY DEF Init, Unplaced, Straight, Debtors, Unsettled
      <3>2. OwedBy({}) = 0
        <4>1. PICK v : AddsUp(v)
          BY <2>1, BalancesAddUp
        <4> QED BY <4>1 DEF AddsUp, Sums, OwedBy
      <3> QED BY <2>4, <3>1, <3>2, GatesAssumption DEF Capping
    <2> QED BY <2>1, <2>2, <2>3, <2>4 DEF XInv, Capped
  <1>2. XInv /\ [Next]_vars => XInv'
    <2> SUFFICES ASSUME XInv, [Next]_vars PROVE XInv'
      OBVIOUS
    <2>1. IInv'
      BY IInvStep DEF XInv
    <2>2. CASE Next
      BY <2>1, <2>2, GuestCapped, StaffedCapped, ProceedCapped, EnvironmentCapped DEF Next
    <2>3. CASE UNCHANGED vars
      <3>1. TypeOK /\ PaidUp /\ order' = order /\ request' = request
        BY <2>3 DEF vars, XInv, IInv
      <3>2. \A h \in Handlers : Decided(request[h])'
        BY <3>1, RowsStand DEF XInv, Decided
      <3> QED BY <2>1, <3>1, <3>2, RowsStand, LighterCapped
    <2> QED BY <2>2, <2>3
  <1>3. XInv => ExposureCapped
    BY DEF XInv, Capped, Capping, ExposureCapped, OwedBy, Straight, Debtors
  <1> QED BY <1>1, <1>2, <1>3, PTL DEF Spec

-----------------------------------------------------------------------------
(* What the screens and the papers of an order say of it.  A row can be     *)
(* read on its own when requests are served one at a time: its total is the *)
(* bill of its lines, and whether it is paid is told by what was collected. *)

\* Requests are served one at a time, no cart is free, and what several additions come
\* to is an addition as well.
OneByOne ==
    /\ \A h, k \in Handlers : h = k
    /\ 0 \notin Subtotals
    /\ \A x, y \in Extras : x + y < MaxLines => x + y \in Extras

\* What was collected for a paid order is its bill, or was before the last additions.
PaidBefore(collected, lines) ==
    \E last \in Extras : last < lines /\ collected >= TotalOf(lines - last)
Covered(row) == row.collected >= row.total \/ PaidBefore(row.collected, row.lines)

RowSound(row) ==
    /\ row.lines > 0
    /\ row.total = TotalOf(row.lines)
    /\ row.advance <= row.total
    /\ row.collected = SumOf(row.receipts)
    /\ row.payment # "PAID" => row.collected < row.total
    /\ row.payment = "PAID" => Covered(row) \/ GaveBack(row)

\* What the one request in flight has read of its order is still so.
Current(r) ==
    /\ r.op = "place" => /\ RowSound(r.row) /\ r.row.payment = "UNPAID"
                         /\ r.row.collected = 0 /\ r.row.receipts = <<>>
    /\ r.op = "add" => /\ r.extra \in Extras /\ order[r.o].lines + r.extra <= MaxLines
                       /\ r.total = TotalOf(order[r.o].lines + r.extra)
    /\ r.op \in {"book", "release"} =>
          IF r.settles THEN order[r.o].collected + r.amount >= order[r.o].total
                       ELSE order[r.o].collected + r.amount < order[r.o].total
    /\ r.op = "release" =>
          (r.releases => order[r.o].status = "AWAITING_ADVANCE_PAYMENT")
    /\ r.op = "settle" => /\ order[r.o].collected = 0
                          /\ r.payment = "PAID" => r.amount = order[r.o].total
    /\ r.op = "refund" => /\ r.gone \intersect DOMAIN order[r.o].receipts # {}
                          /\ r.closes => Standing(r.o) \subseteq r.gone
    /\ r.op \in {"status", "counted"} => order[r.o].status = r.seen
    /\ r.op = "approve" => order[r.o].status = "NEEDS_APPROVAL"

BInv ==
    /\ IInv
    /\ \A o \in Orders : Placed(o) => RowSound(order[o])
    /\ \A h \in Handlers : Current(request[h])

\* An advance is at most the bill.
LEMMA AdvanceAtMostTotal ==
    ASSUME NEW e, NEW total \in Nat
    PROVE  EvaluateHold(e, total, Gates).advance <= total
  <1> DEFINE highValue == Gates.advanceRequired /\ total > ThresholdMinor(Gates)
             percent   == AdvancePercent(total, Gates)
             advance   == IF highValue THEN ApplyPercent(total, 100 * percent) ELSE 0
  <1>1. ThresholdMinor(Gates) \in Nat
    BY GatesAssumption DEF ThresholdMinor
  <1>2. ASSUME highValue PROVE ApplyPercent(total, 100 * percent) <= total
    <2>1. percent \in 0 .. 100
      <3>1. \A x \in Nat : Least(20 + 10 * (x \div 100000), 100) \in 0 .. 100
        BY DEF Least
      <3>2. PICK x : x = total - ThresholdMinor(Gates)
        OBVIOUS
      <3>3. x \in Nat
        BY <1>1, <1>2, <3>2
      <3>4. Least(20 + 10 * (x \div 100000), 100) \in 0 .. 100
        BY <3>1, <3>3
      <3> QED BY <3>2, <3>4 DEF AdvancePercent
    <2> HIDE DEF percent
    <2>2. PICK rest \in Nat : 100 = percent + rest
      <3>1. 100 - percent \in Nat /\ 100 = percent + (100 - percent)
        BY <2>1
      <3> QED BY <3>1
    <2>3. total * (100 * percent) + total * (100 * rest) = total * 10000
      BY <2>1, <2>2
    <2>4. total * (100 * percent) \in Nat /\ total * (100 * rest) \in Nat
      BY <2>1, <2>2
    <2>5. \A x \in Nat : x <= total * 10000 => (x + 5000) \div 10000 <= total
      OBVIOUS
    <2>6. (total * (100 * percent) + 5000) \div 10000 <= total
      BY <2>3, <2>4, <2>5
    <2> QED BY <2>6 DEF ApplyPercent
  <1>3. EvaluateHold(e, total, Gates).advance = advance
    BY DEF EvaluateHold
  <1> HIDE DEF percent
  <1>4. advance <= total
    BY <1>2
  <1> QED BY <1>3, <1>4

LEMMA TotalAtLeast ==
    ASSUME NEW x \in Nat
    PROVE  TotalOf(x) \in Nat /\ x <= TotalOf(x)
  <1>1. ApplyPercent(x, TaxPercent) \in Nat /\ ApplyPercent(x, ServicePercent) \in Nat
    BY PercentNat, AmountsAssumption
  <1> QED BY <1>1 DEF TotalOf, TotalAmount, AtLeastZero

LEMMA ReadCurrent ==
    ASSUME OneByOne, BInv, IInv', NEW h \in Handlers, NEW r, Current(r),
           request' = [request EXCEPT ![h] = r], order' = order
    PROVE  BInv'
  <1>1. \A k \in Handlers : request'[k] = r
    BY DEF OneByOne, BInv, IInv, TypeOK
  <1>2. \A k \in Handlers : Current(request[k])'
    <2>1. \A o : Standing(o)' = Standing(o)
      BY DEF Standing
    <2> QED BY <1>1, <2>1 DEF Current
  <1>3. \A o \in Orders : Placed(o)' => RowSound(order'[o])
    BY DEF BInv, Placed
  <1> QED BY <1>2, <1>3 DEF BInv

LEMMA WriteCurrent ==
    ASSUME OneByOne, BInv, IInv', NEW h \in Handlers, Finish(h), NEW o \in Orders, NEW row,
           Update(o, row), RowSound(row)
    PROVE  BInv'
  <1>1. order'[o] = row /\ \A p \in Orders \ {o} : order'[p] = order[p]
    BY DEF Update, BInv, IInv, TypeOK
  <1>2. \A k \in Handlers : request'[k] = Idle
    BY DEF OneByOne, BInv, IInv, TypeOK, Finish
  <1>3. \A k \in Handlers : Current(request[k])'
    BY <1>2 DEF Current, Idle
  <1>4. \A p \in Orders : Placed(p)' => RowSound(order'[p])
    BY <1>1 DEF BInv, Placed
  <1> QED BY <1>3, <1>4 DEF BInv

LEMMA GuestCurrent ==
    ASSUME OneByOne, BInv, IInv', NEW h \in Handlers, Guest(h)
    PROVE  BInv'
  <1>1. ASSUME NEW o \in Orders, NEW t \in Tables \union {NoTable}, NEW g \in Guests,
               NEW s \in Subtotals, ReadPlace(h, o, t, g, s)
        PROVE  BInv'
    <2> DEFINE total == TotalOf(s)
               hold  == EvaluateHold(OpenBalance(t, g) + total, total, Gates)
               row   == [ Unplaced(g) EXCEPT !.status = hold.status, !.hold = hold.status,
                                    !.advance = hold.advance, !.table = t,
                                    !.lines = s, !.total = total, !.recent = TRUE ]
               r     == [op |-> "place", o |-> o, row |-> row]
    <2>1. request' = [request EXCEPT ![h] = r] /\ order' = order
      BY <1>1 DEF ReadPlace, Start
    <2>2. /\ row.lines = s /\ row.payment = "UNPAID" /\ row.total = total /\ row.collected = 0
          /\ row.advance = hold.advance /\ row.receipts = <<>>
          /\ r.op = "place" /\ r.row = row
      BY DEF Unplaced
    <2>s. SumOf(<<>>) = 0
      <3>1. <<>> \in Seq(Nat) /\ \A i \in DOMAIN <<>> : <<>>[i] = 0
        OBVIOUS
      <3> QED BY <3>1, SumOfNothing
    <2>3. s \in Nat /\ s > 0 /\ total \in Nat /\ total > 0
      BY TotalAtLeast, AmountsAssumption DEF OneByOne
    <2>4. hold.advance <= total
      BY <2>3, AdvanceAtMostTotal
    <2> HIDE DEF hold
    <2>5. RowSound(row)
      <3> HIDE DEF row
      <3>1. row.collected = SumOf(row.receipts)
        BY <2>2, <2>s
      <3> QED BY <2>2, <2>3, <2>4, <3>1 DEF RowSound, total
    <2> HIDE DEF row
    <2>6. Current(r)
      <3> HIDE DEF r
      <3> QED BY <2>2, <2>5 DEF Current
    <2> HIDE DEF r
    <2> QED BY <2>1, <2>6, ReadCurrent
  <1>2. ASSUME NEW o \in Orders, NEW a, CheckVoid(h, o, a) PROVE BInv'
    <2> DEFINE r == [op |-> "void", o |-> o, actor |-> a]
    <2>1. request' = [request EXCEPT ![h] = r] /\ order' = order
      BY <1>2 DEF CheckVoid, Start
    <2>2. Current(r)
      BY DEF Current
    <2> HIDE DEF r
    <2> QED BY <2>1, <2>2, ReadCurrent
  <1>3. ASSUME NEW o \in Orders, InitiateOnline(h, o) PROVE BInv'
    <2> DEFINE due == IF order[o].status = "AWAITING_ADVANCE_PAYMENT"
                      THEN AdvanceDue(o) ELSE order[o].total - order[o].collected
               r   == [op |-> "pay", o |-> o, amount |-> due]
    <2>1. request' = [request EXCEPT ![h] = r] /\ order' = order
      BY <1>3 DEF InitiateOnline, Start
    <2> HIDE DEF due
    <2>2. Current(r)
      BY DEF Current
    <2> HIDE DEF r
    <2> QED BY <2>1, <2>2, ReadCurrent
  <1> QED BY <1>1, <1>2, <1>3 DEF Guest

LEMMA StaffedCurrent ==
    ASSUME OneByOne, BInv, IInv', NEW h \in Handlers, Staffed(h)
    PROVE  BInv'
  <1> PICK o \in Orders, a \in Staff :
        \/ \E next \in SettableStatuses : ReadUpdate(h, o, next, a)
        \/ CheckVoid(h, o, a)
        \/ ReadApprove(h, o, a)
        \/ \E extra \in Extras : ReadAdd(h, o, extra)
        \/ CheckCashAdvance(h, o)
        \/ CheckCashPayment(h, o)
        \/ \E payment \in {"PAID", "UNPAID"} : ReadSettle(h, o, payment)
        \/ \E i \in DOMAIN order[o].receipts : ReadRefund(h, o, i)
        \/ ReadSettleRefund(h, o)
    BY DEF Staffed
  <1>1. ASSUME NEW next, ReadUpdate(h, o, next, a) PROVE BInv'
    <2> DEFINE r == StatusRead(o, next, a)
    <2>1. request' = [request EXCEPT ![h] = r] /\ order' = order
      BY <1>1 DEF ReadUpdate, Start
    <2>2. r.op = "status" /\ r.o = o /\ r.seen = order[o].status
      BY DEF StatusRead
    <2> HIDE DEF r
    <2>3. Current(r)
      BY <2>2 DEF Current
    <2> QED BY <2>1, <2>3, ReadCurrent
  <1>2. CASE CheckVoid(h, o, a)
    <2> DEFINE r == [op |-> "void", o |-> o, actor |-> a]
    <2>1. request' = [request EXCEPT ![h] = r] /\ order' = order
      BY <1>2 DEF CheckVoid, Start
    <2>2. Current(r)
      BY DEF Current
    <2> HIDE DEF r
    <2> QED BY <2>1, <2>2, ReadCurrent
  <1>3. CASE ReadApprove(h, o, a)
    <2> DEFINE next == IF order[o].collected < order[o].advance
                       THEN "AWAITING_ADVANCE_PAYMENT" ELSE "PENDING"
               r == [op |-> "approve", o |-> o, actor |-> a, next |-> next]
    <2>1. request' = [request EXCEPT ![h] = r] /\ order' = order /\ order[o].status = "NEEDS_APPROVAL"
      BY <1>3 DEF ReadApprove, Start
    <2> HIDE DEF next
    <2>2. Current(r)
      BY <2>1 DEF Current
    <2> HIDE DEF r
    <2> QED BY <2>1, <2>2, ReadCurrent
  <1>4. CASE CheckCashAdvance(h, o) \/ CheckCashPayment(h, o)
    <2>1. PICK amount : request' = [request EXCEPT ![h] = [op |-> "pay", o |-> o, amount |-> amount]]
                        /\ order' = order
      BY <1>4 DEF CheckCashAdvance, CheckCashPayment, Start
    <2> DEFINE r == [op |-> "pay", o |-> o, amount |-> amount]
    <2>2. Current(r)
      BY DEF Current
    <2>3. request' = [request EXCEPT ![h] = r] /\ order' = order
      BY <2>1
    <2> HIDE DEF r
    <2> QED BY <2>2, <2>3, ReadCurrent
  <1>5. ASSUME NEW payment \in {"PAID", "UNPAID"}, ReadSettle(h, o, payment) PROVE BInv'
    <2> DEFINE amount == IF payment = "PAID" THEN order[o].total ELSE 0
               r == [op |-> "settle", o |-> o, payment |-> payment, amount |-> amount]
    <2>1. request' = [request EXCEPT ![h] = r] /\ order' = order /\ order[o].collected = 0
      BY <1>5 DEF ReadSettle, Start
    <2>2. payment = "PAID" => amount = order[o].total
      OBVIOUS
    <2> HIDE DEF amount
    <2>3. Current(r)
      BY <2>1, <2>2 DEF Current
    <2> HIDE DEF r
    <2> QED BY <2>1, <2>3, ReadCurrent
  <1>7. ASSUME NEW i \in DOMAIN order[o].receipts, ReadRefund(h, o, i) PROVE BInv'
    <2> DEFINE r == [op |-> "refund", o |-> o, gone |-> {i}, closes |-> Standing(o) = {i}]
    <2>1. request' = [request EXCEPT ![h] = r] /\ order' = order
      BY <1>7 DEF ReadRefund, Start
    <2>2. r.op = "refund" /\ r.o = o /\ r.gone = {i} /\ (r.closes <=> Standing(o) = {i})
      BY Zenon
    <2> HIDE DEF r
    <2>3. Current(r)
      BY <2>2 DEF Current
    <2> QED BY <2>1, <2>3, ReadCurrent
  <1>8. CASE ReadSettleRefund(h, o)
    <2> DEFINE r == [op |-> "refund", o |-> o, gone |-> Standing(o), closes |-> TRUE]
    <2>1. request' = [request EXCEPT ![h] = r] /\ order' = order /\ Standing(o) # {}
      BY <1>8 DEF ReadSettleRefund, Start
    <2>2. r.op = "refund" /\ r.o = o /\ r.gone = Standing(o)
      OBVIOUS
    <2>3. Standing(o) \subseteq DOMAIN order[o].receipts
      BY DEF Standing
    <2> HIDE DEF r
    <2>4. r.gone \intersect DOMAIN order[o].receipts # {} /\ Standing(o) \subseteq r.gone
      BY <2>1, <2>2, <2>3
    <2>5. Current(r)
      BY <2>2, <2>4 DEF Current
    <2> QED BY <2>1, <2>5, ReadCurrent
  <1>6. ASSUME NEW extra \in Extras, ReadAdd(h, o, extra) PROVE BInv'
    <2> DEFINE total == TotalOf(order[o].lines + extra)
               r == [op |-> "add", o |-> o, extra |-> extra, total |-> total]
    <2>1. /\ request' = [request EXCEPT ![h] = r] /\ order' = order
          /\ order[o].lines + extra <= MaxLines
      BY <1>6 DEF ReadAdd, Start
    <2>2. r.op = "add" /\ r.o = o /\ r.extra = extra /\ r.total = total
      OBVIOUS
    <2> HIDE DEF r
    <2>3. Current(r)
      BY <2>1, <2>2 DEF Current
    <2> QED BY <2>1, <2>3, ReadCurrent
  <1> QED BY <1>1, <1>2, <1>3, <1>4, <1>5, <1>6, <1>7, <1>8

\* Items added to a paid order: what was collected covered it before them.
LEMMA GrowthCovered ==
    ASSUME OneByOne, NEW lines \in Nat, NEW extra \in Extras, lines + extra <= MaxLines,
           lines > 0, NEW collected \in Nat,
           collected >= TotalOf(lines) \/ PaidBefore(collected, lines)
    PROVE  PaidBefore(collected, lines + extra)
  <1>1. extra \in Nat /\ extra < lines + extra /\ lines + extra - extra = lines
    BY AmountsAssumption
  <1>2. CASE collected >= TotalOf(lines)
    BY <1>1, <1>2 DEF PaidBefore
  <1>3. ASSUME NEW e \in Extras, e < lines, collected >= TotalOf(lines - e)
        PROVE  PaidBefore(collected, lines + extra)
    <2>1. e \in Nat /\ e + extra < MaxLines
      BY <1>1, <1>3, AmountsAssumption
    <2>2. e + extra \in Extras
      BY <2>1 DEF OneByOne
    <2>3. e + extra < lines + extra /\ lines + extra - (e + extra) = lines - e
      BY <1>1, <1>3, <2>1
    <2>4. PICK n \in Nat, x \in Nat : n = lines + extra /\ x = e + extra
      BY <1>1, <2>1
    <2>5. x \in Extras /\ x < n /\ n - x = lines - e
      BY <1>1, <1>3, <2>1, <2>2, <2>4
    <2>6. TotalOf(n - x) = TotalOf(lines - e)
      BY <2>5, Zenon
    <2>7. collected >= TotalOf(n - x)
      BY <1>3, <2>6, Zenon
    <2>8. PaidBefore(collected, n)
      BY <2>5, <2>7 DEF PaidBefore
    <2> QED BY <2>4, <2>8, Zenon
  <1> QED BY <1>2, <1>3 DEF PaidBefore

\* What covered a bill covers it still when there is more of it.
LEMMA MoreCovers ==
    ASSUME NEW collected \in Nat, NEW more \in Nat, NEW lines \in Nat, NEW total \in Nat
    PROVE  /\ collected >= total => collected + more >= total
           /\ PaidBefore(collected, lines) => PaidBefore(collected + more, lines)
  <1>1. ASSUME NEW e \in Extras, e < lines, collected >= TotalOf(lines - e)
        PROVE  collected + more >= TotalOf(lines - e)
    <2>1. e \in Nat /\ lines - e \in Nat
      BY <1>1, AmountsAssumption
    <2>2. TotalOf(lines - e) \in Nat
      BY <2>1, TotalNat
    <2>3. PICK n \in Nat : n = TotalOf(lines - e)
      BY <2>2
    <2> QED BY <1>1, <2>3
  <1> QED BY <1>1 DEF PaidBefore

LEMMA ProceedCurrent ==
    ASSUME OneByOne, BInv, IInv', NEW h \in Handlers, Proceed(h)
    PROVE  BInv'
  <1>0. PICK o, r : o = request[h].o /\ r = request[h]
    OBVIOUS
  <1>t. TypeOK /\ Current(r) /\ Sound(r)
    BY <1>0 DEF BInv, IInv, InFlightSound
  <1>o. ~IsIdle(h) => /\ o \in Orders /\ order[o] \in OrderRow
                      /\ (r.op # "place" => RowSound(order[o]))
    <2> SUFFICES ASSUME ~IsIdle(h)
                 PROVE  /\ o \in Orders /\ order[o] \in OrderRow
                        /\ r.op # "place" => RowSound(order[o])
      OBVIOUS
    <2>1. o \in Orders /\ order[o] \in OrderRow
      BY <1>0, <1>t, RequestKinds DEF TypeOK
    <2>2. r.op # "place" => Placed(r.o)
      BY <1>0, <1>t DEF Sound, IsIdle
    <2> QED BY <1>0, <2>1, <2>2 DEF BInv
  \* a write that leaves the money alone
  <1>u. ASSUME ~IsIdle(h), r.op # "place", NEW row, Update(o, row), Finish(h),
               row.total = order[o].total, row.lines = order[o].lines,
               row.advance = order[o].advance, row.collected = order[o].collected,
               row.payment = order[o].payment, row.receipts = order[o].receipts
        PROVE  BInv'
    <2>1. RowSound(row)
      BY <1>o, <1>u DEF RowSound, Covered, GaveBack
    <2> QED BY <1>o, <1>u, <2>1, WriteCurrent
  <1>1. CASE CommitPlace(h)
    <2>1. Update(o, r.row) /\ Finish(h) /\ r.op = "place" /\ ~IsIdle(h)
      BY <1>0, <1>1 DEF CommitPlace, Doing, IsIdle
    <2>2. RowSound(r.row)
      BY <1>t, <2>1 DEF Current
    <2> QED BY <1>o, <2>1, <2>2, WriteCurrent
  <1>2. CASE ReadVoid(h)
    <2> DEFINE s == StatusRead(o, "CANCELLED", r.actor)
    <2>1. request' = [request EXCEPT ![h] = s] /\ order' = order
      BY <1>0, <1>2 DEF ReadVoid, Continue
    <2>2. Current(s)
      BY DEF StatusRead, Current
    <2> HIDE DEF s
    <2> QED BY <2>1, <2>2, ReadCurrent
  <1>3. CASE CountOpen(h)
    <2> DEFINE frees == /\ order[o].table # NoTable
                        /\ r.next \in TerminalStatuses
                        /\ OpenOn(order[o].table) \subseteq {o}
               s == [ op |-> "counted", o |-> o, actor |-> r.actor, seen |-> r.seen,
                  next |-> r.next, first |-> r.first, frees |-> frees ]
    <2>1. request' = [request EXCEPT ![h] = s] /\ order' = order
      BY <1>0, <1>3 DEF CountOpen, Continue
    <2>2. order[o].status = r.seen
      BY <1>0, <1>3, <1>t DEF CountOpen, Doing, Current
    <2> HIDE DEF frees
    <2>3. Current(s)
      BY <2>2 DEF Current
    <2> HIDE DEF s
    <2> QED BY <2>1, <2>3, ReadCurrent
  <1>4. CASE CommitStatus(h)
    <2> DEFINE row == [order[o] EXCEPT !.status    = r.next,
                            !.handledBy = IF r.first THEN r.actor ELSE order[o].handledBy]
    <2>1. Update(o, row) /\ Finish(h) /\ r.op = "counted" /\ ~IsIdle(h)
      BY <1>0, <1>4 DEF CommitStatus, Doing, IsIdle
    <2>2. /\ row.total = order[o].total /\ row.lines = order[o].lines
          /\ row.advance = order[o].advance
          /\ row.collected = order[o].collected /\ row.payment = order[o].payment
          /\ row.receipts = order[o].receipts
      BY <1>o, <2>1 DEF OrderRow
    <2> HIDE DEF row
    <2> QED BY <1>u, <2>1, <2>2
  <1>5. CASE CommitApprove(h)
    <2> DEFINE row == [order[o] EXCEPT !.status = r.next, !.approvedBy = r.actor]
    <2>1. Update(o, row) /\ Finish(h) /\ r.op = "approve" /\ ~IsIdle(h)
      BY <1>0, <1>5 DEF CommitApprove, Doing, IsIdle
    <2>2. /\ row.total = order[o].total /\ row.lines = order[o].lines
          /\ row.advance = order[o].advance
          /\ row.collected = order[o].collected /\ row.payment = order[o].payment
          /\ row.receipts = order[o].receipts
      BY <1>o, <2>1 DEF OrderRow
    <2> HIDE DEF row
    <2> QED BY <1>u, <2>1, <2>2
  <1>6. CASE CommitAdd(h)
    <2> DEFINE row == [order[o] EXCEPT !.total = r.total, !.lines = order[o].lines + r.extra]
    <2>1. Update(o, row) /\ Finish(h) /\ r.op = "add" /\ ~IsIdle(h)
      BY <1>0, <1>6 DEF CommitAdd, Doing, IsIdle
    <2>2. /\ row.total = r.total /\ row.lines = order[o].lines + r.extra
          /\ row.advance = order[o].advance
          /\ row.collected = order[o].collected /\ row.payment = order[o].payment
          /\ row.receipts = order[o].receipts
      BY <1>o, <2>1 DEF OrderRow
    <2>3. /\ r.extra \in Extras /\ order[o].lines + r.extra <= MaxLines
          /\ r.total = TotalOf(order[o].lines + r.extra)
      BY <1>0, <1>t, <2>1 DEF Current
    <2>4. /\ order[o].lines \in Nat /\ order[o].lines > 0 /\ order[o].collected \in Nat
          /\ order[o].total = TotalOf(order[o].lines) /\ order[o].advance <= order[o].total
          /\ order[o].advance \in Nat
      BY <1>o, <2>1 DEF OrderRow, RowSound
    <2>5. r.extra \in Nat
      BY <2>3, AmountsAssumption
    <2>6. order[o].total \in Nat /\ r.total \in Nat /\ order[o].total <= r.total
      BY <2>3, <2>4, <2>5, TotalNat, TotalMonotone
    <2>7. Covered(order[o]) => PaidBefore(order[o].collected, order[o].lines + r.extra)
      <3> SUFFICES ASSUME Covered(order[o])
                   PROVE  PaidBefore(order[o].collected, order[o].lines + r.extra)
        OBVIOUS
      <3>1. \/ order[o].collected >= TotalOf(order[o].lines)
            \/ PaidBefore(order[o].collected, order[o].lines)
        BY <1>o, <2>1 DEF RowSound, Covered
      <3> QED BY <2>3, <2>4, <3>1, GrowthCovered
    <2>8. order[o].payment # "PAID" => order[o].collected < r.total
      <3>1. order[o].payment # "PAID" => order[o].collected < order[o].total
        BY <1>o, <2>1 DEF RowSound
      <3> QED BY <2>4, <2>6, <3>1
    <2>s. order[o].collected = SumOf(order[o].receipts)
      BY <1>o, <2>1 DEF RowSound
    <2>p. order[o].payment = "PAID" => Covered(order[o]) \/ GaveBack(order[o])
      BY <1>o, <2>1 DEF RowSound
    <2> HIDE DEF row
    <2>9. row.lines > 0 /\ row.advance <= row.total
      BY <2>2, <2>4, <2>5, <2>6
    <2>10. row.total = TotalOf(row.lines)
      BY <2>2, <2>3
    <2>11. row.payment = "PAID" => Covered(row) \/ GaveBack(row)
      <3>1. GaveBack(order[o]) => GaveBack(row)
        BY <2>2 DEF GaveBack
      <3>2. Covered(order[o]) => Covered(row)
        BY <2>2, <2>7 DEF Covered
      <3> QED BY <2>2, <2>p, <3>1, <3>2
    <2>12. row.payment # "PAID" => row.collected < row.total
      BY <2>2, <2>8
    <2>13. row.collected = SumOf(row.receipts)
      BY <2>2, <2>s
    <2> QED BY <1>o, <2>1, <2>9, <2>10, <2>11, <2>12, <2>13, WriteCurrent DEF RowSound
  <1>7. CASE ReadBook(h)
    <2> DEFINE settles == order[o].collected + r.amount >= order[o].total
               s == [ op |-> "book", o |-> o, amount |-> r.amount, settles |-> settles ]
    <2>1. request' = [request EXCEPT ![h] = s] /\ order' = order /\ ~IsIdle(h) /\ r.op = "pay"
      BY <1>0, <1>7 DEF ReadBook, Continue, Doing, IsIdle
    <2>2. /\ s.op = "book" /\ s.o = o /\ s.amount = r.amount /\ s.settles = settles
      BY Zenon
    <2>3. order[o].collected \in Nat /\ order[o].total \in Nat /\ r.amount \in Nat
      <3>1. r \in PayReq
        BY <1>0, <1>t, <2>1, RequestKinds DEF Doing
      <3> QED BY <1>o, <2>1, <3>1 DEF OrderRow, PayReq
    <2>4. ~settles => order[o].collected + r.amount < order[o].total
      BY <2>3
    <2> HIDE DEF s
    <2>5. Current(s)
      BY <2>2, <2>4 DEF Current
    <2> QED BY <2>1, <2>5, ReadCurrent
  <1>8. CASE ReadRelease(h)
    <2> DEFINE releases == /\ order[o].status = "AWAITING_ADVANCE_PAYMENT"
                           /\ order[o].collected + r.amount >= order[o].advance
               s == [ op |-> "release", o |-> o, amount |-> r.amount,
                      settles |-> r.settles, releases |-> releases ]
    <2>1. request' = [request EXCEPT ![h] = s] /\ order' = order /\ r.op = "book" /\ r.o = o
      BY <1>0, <1>8 DEF ReadRelease, Continue, Doing
    <2>r. releases => order[o].status = "AWAITING_ADVANCE_PAYMENT"
      OBVIOUS
    <2> HIDE DEF releases
    <2>2. /\ s.op = "release" /\ s.o = o /\ s.amount = r.amount /\ s.settles = r.settles
          /\ s.releases = releases
      BY Zenon
    <2> HIDE DEF s
    <2>3. Current(s)
      BY <1>t, <2>1, <2>2, <2>r DEF Current
    <2> QED BY <2>1, <2>3, ReadCurrent
  <1>9. CASE CommitBook(h)
    <2> DEFINE booked == Booked(order[o], r.amount)
               row == [ booked EXCEPT
                !.payment = IF r.settles THEN "PAID" ELSE order[o].payment,
                !.status  = IF r.releases THEN "PENDING" ELSE order[o].status ]
    <2>1. Update(o, row) /\ Finish(h) /\ r.op = "release" /\ ~IsIdle(h)
      BY <1>0, <1>9 DEF CommitBook, Doing, IsIdle
    <2>r. r \in ReleaseReq /\ r.amount \in Nat
      BY <1>0, <1>t, <2>1, RequestKinds DEF Doing, ReleaseReq
    <2>b. booked \in OrderRow /\ (GaveBack(order[o]) => GaveBack(booked))
      BY <1>o, <2>1, <2>r, BookedType, BookedKeeps
    <2>2. /\ row.total = order[o].total /\ row.lines = order[o].lines
          /\ row.advance = order[o].advance
          /\ row.collected = order[o].collected + r.amount
          /\ row.payment = IF r.settles THEN "PAID" ELSE order[o].payment
          /\ row.receipts = Append(order[o].receipts, r.amount)
          /\ booked.receipts = row.receipts
      BY <1>o, <2>1 DEF OrderRow, Booked
    <2>3. GaveBack(row) <=> GaveBack(booked)
      BY <2>2 DEF GaveBack
    <2>4. order[o].collected \in Nat /\ order[o].total \in Nat /\ order[o].lines \in Nat
          /\ order[o].receipts \in Seq(Nat)
      BY <1>o, <2>1 DEF OrderRow
    <2>5. IF r.settles THEN order[o].collected + r.amount >= order[o].total
                       ELSE order[o].collected + r.amount < order[o].total
      BY <1>0, <1>t, <2>1 DEF Current
    <2>6. /\ order[o].lines > 0 /\ order[o].advance <= order[o].total
          /\ order[o].total = TotalOf(order[o].lines)
          /\ order[o].collected = SumOf(order[o].receipts)
          /\ order[o].payment = "PAID" => Covered(order[o]) \/ GaveBack(order[o])
      BY <1>o, <2>1 DEF RowSound
    <2> HIDE DEF row, booked
    <2>7. r.settles => Covered(row)
      <3>1. r.settles => row.collected >= row.total
        BY <2>2, <2>5
      <3> QED BY <3>1 DEF Covered
    <2>8. Covered(order[o]) => Covered(row)
      BY <2>2, <2>4, <2>r, MoreCovers DEF Covered
    <2>9. row.payment = "PAID" => Covered(row) \/ GaveBack(row)
      BY <2>2, <2>3, <2>6, <2>7, <2>8, <2>b
    <2>10. row.payment # "PAID" => row.collected < row.total
      BY <2>2, <2>5
    <2>11. row.collected = SumOf(row.receipts)
      BY <2>2, <2>4, <2>6, <2>r, SumOfAppend
    <2>12. row.lines > 0 /\ row.advance <= row.total /\ row.total = TotalOf(row.lines)
      BY <2>2, <2>6
    <2> QED BY <1>o, <2>1, <2>9, <2>10, <2>11, <2>12, WriteCurrent DEF RowSound
  <1>10. CASE CommitSettle(h)
    <2> DEFINE booked == IF r.payment = "PAID" THEN Booked(order[o], r.amount) ELSE order[o]
               row == [booked EXCEPT !.payment = r.payment]
    <2>1. Update(o, row) /\ Finish(h) /\ r.op = "settle" /\ ~IsIdle(h)
      BY <1>0, <1>10 DEF CommitSettle, Doing, IsIdle
    <2>r. r \in SettleReq /\ r.amount \in Nat
      BY <1>0, <1>t, <2>1, RequestKinds DEF Doing, SettleReq
    <2>2. /\ row.total = order[o].total /\ row.lines = order[o].lines
          /\ row.advance = order[o].advance
          /\ row.collected = order[o].collected + (IF r.payment = "PAID" THEN r.amount ELSE 0)
          /\ row.payment = r.payment
          /\ row.receipts = IF r.payment = "PAID" THEN Append(order[o].receipts, r.amount)
                            ELSE order[o].receipts
      BY <1>o, <2>1 DEF OrderRow, Booked
    <2>3. order[o].collected = 0 /\ (r.payment = "PAID" => r.amount = order[o].total)
      BY <1>0, <1>t, <2>1 DEF Current
    <2>4. /\ order[o].total \in Nat /\ order[o].lines \in Nat /\ order[o].lines > 0
          /\ order[o].advance <= order[o].total /\ order[o].total = TotalOf(order[o].lines)
          /\ order[o].collected = SumOf(order[o].receipts)
          /\ order[o].receipts \in Seq(Nat)
      BY <1>o, <2>1 DEF OrderRow, RowSound
    <2>5. order[o].total > 0
      BY <2>4, TotalAtLeast
    <2>s. SumOf(Append(order[o].receipts, r.amount)) = SumOf(order[o].receipts) + r.amount
      BY <2>4, <2>r, SumOfAppend
    <2> HIDE DEF row, booked
    <2>6. row.payment = "PAID" => row.collected >= row.total
      BY <2>2, <2>3, <2>4
    <2>7. row.payment # "PAID" => row.collected < row.total
      BY <2>2, <2>3, <2>4, <2>5
    <2>8. row.collected = SumOf(row.receipts)
      <3>1. CASE r.payment = "PAID"
        BY <2>2, <2>4, <2>s, <3>1
      <3>2. CASE r.payment # "PAID"
        BY <2>2, <2>3, <2>4, <3>2
      <3> QED BY <3>1, <3>2
    <2>9. row.lines > 0 /\ row.advance <= row.total /\ row.total = TotalOf(row.lines)
      BY <2>2, <2>4
    <2> QED BY <1>o, <2>1, <2>6, <2>7, <2>8, <2>9, WriteCurrent DEF RowSound, Covered
  <1>11. CASE CommitRefund(h)
    <2> DEFINE left == Without(order[o].receipts, r.gone)
               row == [order[o] EXCEPT !.receipts = left, !.collected = SumOf(left),
                                       !.payment = IF r.closes THEN "REFUNDED"
                                                   ELSE order[o].payment ]
    <2>1. Update(o, row) /\ Finish(h) /\ r.op = "refund" /\ ~IsIdle(h)
      BY <1>0, <1>11 DEF CommitRefund, Doing, IsIdle
    <2>2. /\ row.total = order[o].total /\ row.lines = order[o].lines
          /\ row.advance = order[o].advance /\ row.collected = SumOf(left)
          /\ row.payment = IF r.closes THEN "REFUNDED" ELSE order[o].payment
          /\ row.receipts = left
      BY <1>o, <2>1 DEF OrderRow
    <2>3. /\ r.gone \intersect DOMAIN order[o].receipts # {}
          /\ r.closes => Standing(o) \subseteq r.gone
      BY <1>0, <1>t, <2>1 DEF Current
    <2>4. /\ order[o].total \in Nat /\ order[o].lines \in Nat /\ order[o].lines > 0
          /\ order[o].advance <= order[o].total /\ order[o].total = TotalOf(order[o].lines)
          /\ order[o].collected = SumOf(order[o].receipts)
          /\ order[o].payment # "PAID" => order[o].collected < order[o].total
          /\ order[o].receipts \in Seq(Nat)
      BY <1>o, <2>1 DEF OrderRow, RowSound
    <2>5. order[o].total > 0
      BY <2>4, TotalAtLeast
    <2>6. left \in Seq(Nat) /\ DOMAIN left = DOMAIN order[o].receipts
      BY <2>4, WithoutType
    <2>7. \A i \in DOMAIN left : left[i] = (IF i \in r.gone THEN 0 ELSE order[o].receipts[i])
      BY DEF Without
    <2> HIDE DEF row, left
    <2>8. GaveBack(row)
      <3>1. PICK i \in DOMAIN left : i \in r.gone
        BY <2>3, <2>6
      <3> QED BY <2>2, <2>7, <3>1 DEF GaveBack
    <2>9. SumOf(left) \in Nat /\ SumOf(left) <= SumOf(order[o].receipts)
      <3>1. \A i \in DOMAIN left : left[i] <= order[o].receipts[i]
        <4>1. \A i \in DOMAIN left : order[o].receipts[i] \in Nat
          BY <2>4, <2>6
        <4> QED BY <2>7, <4>1
      <3> QED BY <2>4, <2>6, <3>1, SumOfCompare, SumOfNat
    <2>10. r.closes => SumOf(left) = 0
      <3> SUFFICES ASSUME r.closes PROVE \A i \in DOMAIN left : left[i] = 0
        BY <2>6, SumOfNothing
      <3> SUFFICES ASSUME NEW i \in DOMAIN left, i \notin r.gone PROVE left[i] = 0
        BY <2>7
      <3>1. i \in DOMAIN order[o].receipts /\ order[o].receipts[i] \in Nat
        BY <2>4, <2>6
      <3>2. ~(order[o].receipts[i] > 0)
        BY <2>3, <3>1 DEF Standing
      <3> QED BY <2>7, <3>1, <3>2
    <2>11. row.payment # "PAID" => row.collected < row.total
      <3>1. CASE r.closes
        BY <2>2, <2>4, <2>5, <2>10, <3>1
      <3>2. CASE ~r.closes
        <4>1. order[o].collected \in Nat
          BY <1>o, <2>1 DEF OrderRow
        <4> QED BY <2>2, <2>4, <2>9, <3>2, <4>1
      <3> QED BY <3>1, <3>2
    <2>12. row.collected = SumOf(row.receipts)
      BY <2>2
    <2>13. row.lines > 0 /\ row.advance <= row.total /\ row.total = TotalOf(row.lines)
      BY <2>2, <2>4
    <2> QED BY <1>o, <2>1, <2>8, <2>11, <2>12, <2>13, WriteCurrent DEF RowSound
  <1>12. CASE Abort(h)
    <2>1. request' = [request EXCEPT ![h] = Idle] /\ order' = order
      BY <1>12 DEF Abort, Finish
    <2>2. Current(Idle)
      BY DEF Current, Idle
    <2> QED BY <2>1, <2>2, ReadCurrent
  <1> QED BY <1>1, <1>2, <1>3, <1>4, <1>5, <1>6, <1>7, <1>8, <1>9, <1>10, <1>11, <1>12
      DEF Proceed

\* The time that passes over an order moves neither its money nor its status.
LEMMA EnvironmentCurrent ==
    ASSUME BInv, IInv', Environment \/ UNCHANGED vars
    PROVE  BInv'
  <1>t. TypeOK
    BY DEF BInv, IInv
  <1>1. request' = request /\ \A o \in Orders :
           /\ order'[o].status = order[o].status /\ order'[o].lines = order[o].lines
           /\ order'[o].total = order[o].total /\ order'[o].collected = order[o].collected
           /\ order'[o].payment = order[o].payment
           /\ order'[o].receipts = order[o].receipts /\ order'[o].advance = order[o].advance
    <2>1. CASE order' = order /\ request' = request
      BY <2>1
    <2>2. ASSUME NEW p \in Orders, WindowPasses(p)
          PROVE  request' = request /\ order' = [order EXCEPT ![p].recent = FALSE]
      BY <2>2 DEF WindowPasses
    <2>3. ASSUME NEW p \in Orders, order' = [order EXCEPT ![p].recent = FALSE]
          PROVE  \A o \in Orders :
           /\ order'[o].status = order[o].status /\ order'[o].lines = order[o].lines
           /\ order'[o].total = order[o].total /\ order'[o].collected = order[o].collected
           /\ order'[o].payment = order[o].payment
           /\ order'[o].receipts = order[o].receipts /\ order'[o].advance = order[o].advance
      BY <1>t, <2>3 DEF TypeOK, OrderRow
    <2>4. \/ order' = order /\ request' = request
          \/ \E p \in Orders : WindowPasses(p)
      BY DEF Environment, SetTableActive, SetAccepting, vars
    <2> QED BY <2>1, <2>2, <2>3, <2>4
  <1>2. ASSUME NEW o \in Orders, Placed(o)' PROVE RowSound(order'[o])
    <2>1. RowSound(order[o])
      BY <1>1, <1>2 DEF BInv, Placed
    <2> QED BY <1>1, <2>1 DEF RowSound, Covered, GaveBack
  <1>3. ASSUME NEW h \in Handlers PROVE Current(request[h])'
    <2>0. PICK r : r = request[h]
      OBVIOUS
    <2>1. Current(r) /\ request'[h] = r
      BY <1>1, <2>0 DEF BInv
    <2>2. r.op \notin {"none", "place"} => r.o \in Orders
      BY <1>t, <2>0, RequestKinds DEF IsIdle
    <2> QED BY <1>1, <2>1, <2>2 DEF Current, Standing
  <1> QED BY <1>2, <1>3 DEF BInv

LEMMA BillsStand == OneByOne => (Spec => []BInv)
  <1> SUFFICES ASSUME OneByOne PROVE Spec => []BInv
    OBVIOUS
  <1>1. Init => BInv
    <2> SUFFICES ASSUME Init PROVE BInv
      OBVIOUS
    <2>1. IInv
      BY InitType, InitIInv DEF IInv
    <2>2. \A h \in Handlers : Current(request[h])
      BY DEF Init, Idle, Current
    <2>3. \A o \in Orders : ~Placed(o)
      BY DEF Init, Unplaced, Placed
    <2> QED BY <2>1, <2>2, <2>3 DEF BInv
  <1>2. BInv /\ [Next]_vars => BInv'
    <2> SUFFICES ASSUME BInv, [Next]_vars PROVE BInv'
      OBVIOUS
    <2>1. IInv'
      BY IInvStep DEF BInv
    <2> QED BY <2>1, GuestCurrent, StaffedCurrent, ProceedCurrent, EnvironmentCurrent DEF Next
  <1> QED BY <1>1, <1>2, PTL DEF Spec

\* The tables of the screens, entry by entry.
LEMMA ScreenTables ==
    /\ Roles = {"ADMIN", "KITCHEN", "STAFF"} /\ Screens = {"kitchen", "staff", "serve"}
    /\ \A role \in Roles : "order:updateStatus" \in Granted[role]
                           /\ "order:read" \in Granted[role]
    /\ \A role \in Roles, screen \in Screens : PagePermission[screen] \in Granted[role]
    /\ "order:approve" \in Granted["STAFF"] /\ "order:cancel" \in Granted["ADMIN"]
  <1>1. Roles = {"ADMIN", "KITCHEN", "STAFF"} /\ Screens = {"kitchen", "staff", "serve"}
    BY DEF Roles, Screens, Granted, PagePermission
  <1>2. /\ Granted["ADMIN"] = {"order:read", "order:updateStatus", "order:cancel", "order:approve"}
        /\ Granted["KITCHEN"] = {"kitchen:access", "order:read", "order:updateStatus"}
        /\ Granted["STAFF"] = {"order:read", "order:updateStatus", "order:approve"}
    BY DEF Granted
  <1>3. /\ PagePermission["kitchen"] = "order:read" /\ PagePermission["staff"] = "order:read"
        /\ PagePermission["serve"] = "order:updateStatus"
    BY DEF PagePermission
  <1> QED BY <1>1, <1>2, <1>3

LEMMA RoutesTable ==
    /\ \A act \in {"advance", "serve", "markPaid", "cash"} :
           RoutePermission[act] = "order:updateStatus"
    /\ \A act \in {"approve", "reject", "cashAdvance"} : RoutePermission[act] = "order:approve"
    /\ RoutePermission["cancel"] = "order:cancel"
  BY DEF RoutePermission

\* A button that moves an order on makes a move of the status machine.
LEMMA NextMoves ==
    ASSUME NEW status \in DOMAIN NEXT_ACTION
    PROVE  CanTransition(status, NEXT_ACTION[status]) /\ status \in KitchenQueue
  BY DEF NEXT_ACTION, CanTransition, ALLOWED_TRANSITIONS, KitchenQueue

LEMMA AnyoneCancels ==
    ASSUME NEW status \in OrderStatuses \ TerminalStatuses
    PROVE  CanTransition(status, "CANCELLED")
  BY DEF OrderStatuses, HELD_STATUSES, KitchenQueue, TerminalStatuses, CanTransition,
         ALLOWED_TRANSITIONS

\* Rows of orders that were placed.
LEMMA RowType ==
    ASSUME TypeOK, NEW row \in Rows
    PROVE  row \in OrderRow /\ row.status \in OrderStatuses
  BY DEF TypeOK, Rows, Placed, OrderRow

Fine(screen, act, role, row) ==
    \/ Accepted(act, role, row) \/ UngatedHold(screen, act, role)
    \/ PaidInPart(act, row) \/ NoCashAdvance(act, row)

LEMMA TicketFine ==
    ASSUME NEW row, NEW role \in Roles, NEW act \in Ticket(row), NEW screen
    PROVE  Fine(screen, act, role, row)
  <1>1. act = "advance" /\ row.status \in DOMAIN NEXT_ACTION
    BY DEF Ticket, When
  <1>2. Guard("advance", row)
    BY <1>1, NextMoves DEF Guard
  <1> QED BY <1>1, <1>2, ScreenTables, RoutesTable DEF Fine, Accepted

LEMMA StaffFine ==
    ASSUME NEW row \in OrderRow, row.status \in OrderStatuses, NEW role \in Roles,
           NEW act \in StaffOrders(row, role), NEW screen
    PROVE  Fine(screen, act, role, row)
  <1> DEFINE can(permission) == permission \in Granted[role]
  <1>0. \/ act = "approve" /\ row.status = "NEEDS_APPROVAL" /\ can("order:approve")
        \/ act = "reject" /\ row.status = "NEEDS_APPROVAL" /\ can("order:approve")
        \/ act = "cashAdvance" /\ row.status = "AWAITING_ADVANCE_PAYMENT" /\ can("order:approve")
        \/ act = "advance" /\ row.status \in DOMAIN NEXT_ACTION /\ can("order:updateStatus")
        \/ act = "markPaid" /\ can("order:updateStatus")
        \/ act = "cancel" /\ row.status \notin TerminalStatuses /\ can("order:cancel")
    BY DEF StaffOrders, When
  <1>1. CASE act = "approve" /\ row.status = "NEEDS_APPROVAL" /\ can("order:approve")
    <2>1. Guard("approve", row)
      BY <1>1 DEF Guard
    <2> QED BY <1>1, <2>1, RoutesTable DEF Fine, Accepted
  <1>2. CASE act = "reject" /\ row.status = "NEEDS_APPROVAL" /\ can("order:approve")
    <2>1. Guard("reject", row)
      BY <1>2 DEF Guard, HELD_STATUSES
    <2> QED BY <1>2, <2>1, RoutesTable DEF Fine, Accepted
  <1>3. CASE /\ act = "cashAdvance" /\ row.status = "AWAITING_ADVANCE_PAYMENT"
             /\ can("order:approve")
    <2>1. Guard("cashAdvance", row) \/ NoCashAdvance("cashAdvance", row)
      <3>1. row.advance \in Nat /\ row.collected \in Nat
        BY DEF OrderRow
      <3> QED BY <1>3, <3>1 DEF Guard, NoCashAdvance
    <2> QED BY <1>3, <2>1, RoutesTable DEF Fine, Accepted
  <1>4. CASE act = "advance" /\ row.status \in DOMAIN NEXT_ACTION /\ can("order:updateStatus")
    <2>1. Guard("advance", row)
      BY <1>4, NextMoves DEF Guard
    <2> QED BY <1>4, <2>1, RoutesTable DEF Fine, Accepted
  <1>5. CASE act = "markPaid" /\ can("order:updateStatus")
    <2>1. Guard("markPaid", row) \/ PaidInPart("markPaid", row)
      <3>1. row.collected \in Nat
        BY DEF OrderRow
      <3> QED BY <3>1 DEF Guard, PaidInPart
    <2> QED BY <1>5, <2>1, RoutesTable DEF Fine, Accepted
  <1>6. CASE act = "cancel" /\ row.status \notin TerminalStatuses /\ can("order:cancel")
    <2>1. Guard("cancel", row)
      BY <1>6, AnyoneCancels DEF Guard
    <2> QED BY <1>6, <2>1, RoutesTable DEF Fine, Accepted
  <1> QED BY <1>0, <1>1, <1>2, <1>3, <1>4, <1>5, <1>6

LEMMA ServeFine ==
    ASSUME NEW row \in OrderRow, NEW role \in Roles, NEW act \in WaiterServe(row)
    PROVE  Fine("serve", act, role, row)
  <1>0. \/ act = "serve" /\ row.status = "READY"
        \/ act = "cash" /\ row.payment # "PAID"
        \/ act = "cashAdvance" /\ row.status = "AWAITING_ADVANCE_PAYMENT"
        \/ act \in {"approve", "reject"} /\ row.status = "NEEDS_APPROVAL"
    BY DEF WaiterServe, When, CashPaid
  <1>1. CASE act = "serve" /\ row.status = "READY"
    <2>1. Guard("serve", row)
      BY <1>1 DEF Guard, CanTransition, ALLOWED_TRANSITIONS
    <2> QED BY <1>1, <2>1, ScreenTables, RoutesTable DEF Fine, Accepted
  <1>2. CASE act = "cash" /\ row.payment # "PAID"
    <2>1. Guard("cash", row)
      BY <1>2 DEF Guard
    <2> QED BY <1>2, <2>1, ScreenTables, RoutesTable DEF Fine, Accepted
  <1>3. CASE act = "cashAdvance" /\ row.status = "AWAITING_ADVANCE_PAYMENT"
    <2>1. Guard("cashAdvance", row) \/ NoCashAdvance("cashAdvance", row)
      <3>1. row.advance \in Nat /\ row.collected \in Nat
        BY DEF OrderRow
      <3> QED BY <1>3, <3>1 DEF Guard, NoCashAdvance
    <2> QED BY <1>3, <2>1, RoutesTable DEF Fine, Accepted, UngatedHold
  <1>4. CASE act \in {"approve", "reject"} /\ row.status = "NEEDS_APPROVAL"
    <2>1. Guard("approve", row) /\ Guard("reject", row)
      BY <1>4 DEF Guard, HELD_STATUSES
    <2> QED BY <1>4, <2>1, RoutesTable DEF Fine, Accepted, UngatedHold
  <1> QED BY <1>0, <1>1, <1>2, <1>3, <1>4

\* The guest is offered nothing that is refused but a bill that is too early.
LEMMA TrackFine ==
    ASSUME NEW row \in OrderRow, RowSound(row), NEW act \in TrackOrder(row)
    PROVE  Guard(act, row) \/ TooEarly(act, row)
  <1>0. \/ act = "pay" /\ row.status # "CANCELLED" /\ row.payment # "PAID"
        \/ act = "void" /\ row.status \in HELD_STATUSES
    BY DEF TrackOrder, When
  <1>1. CASE act = "void" /\ row.status \in HELD_STATUSES
    BY <1>1 DEF Guard
  <1>2. CASE act = "pay" /\ row.status # "CANCELLED" /\ row.payment # "PAID"
    <2>1. /\ row.collected < row.total /\ row.total \in Nat /\ row.collected \in Nat
          /\ row.advance \in Nat
      BY <1>2 DEF RowSound, OrderRow
    <2>2. CASE row.status = "NEEDS_APPROVAL"
      BY <1>2, <2>2 DEF TooEarly, HELD_STATUSES
    <2>3. CASE row.status = "AWAITING_ADVANCE_PAYMENT"
      <3>1. row.advance > row.collected \/ row.collected >= row.advance
        BY <2>1
      <3> QED BY <1>2, <2>3, <3>1 DEF TooEarly, HELD_STATUSES, Guard
    <2>4. CASE row.status \notin {"NEEDS_APPROVAL", "AWAITING_ADVANCE_PAYMENT"}
      BY <1>2, <2>1, <2>4 DEF Guard
    <2> QED BY <2>2, <2>3, <2>4
  <1> QED BY <1>0, <1>1, <1>2

\* A button that is shown works: what a screen offers on a row its route and its handler
\* accept, but for the disagreements the property names (StaffOrders, KitchenDisplay,
\* WaiterServe, TrackOrder).
THEOREM ButtonsWork == OneByOne => (Spec => []OfferedIsAccepted)
  <1> SUFFICES ASSUME OneByOne PROVE Spec => []OfferedIsAccepted
    OBVIOUS
  <1>1. BInv => OfferedIsAccepted
    <2> SUFFICES ASSUME BInv, NEW row \in Rows
                 PROVE  /\ \A role \in Roles, screen \in Screens :
                               \A act \in Offered(screen, role, row) : Fine(screen, act, role, row)
                        /\ \A act \in TrackOrder(row) : Guard(act, row) \/ TooEarly(act, row)
      BY DEF OfferedIsAccepted, Fine
    <2>1. row \in OrderRow /\ row.status \in OrderStatuses
      BY RowType DEF BInv, IInv
    <2>2. RowSound(row)
      BY DEF BInv, Rows
    <2>3. ASSUME NEW role \in Roles, NEW screen \in Screens, NEW act \in Offered(screen, role, row)
          PROVE  Fine(screen, act, role, row)
      <3>1. screen = "kitchen" => act \in Ticket(row)
        BY <2>3, ScreenTables DEF Offered
      <3>2. screen = "staff" => act \in StaffOrders(row, role)
        BY <2>3, ScreenTables DEF Offered
      <3>3. screen = "serve" => act \in WaiterServe(row)
        BY <2>3, ScreenTables DEF Offered
      <3> QED BY <2>1, <3>1, <3>2, <3>3, ScreenTables, TicketFine, StaffFine, ServeFine
    <2> QED BY <2>1, <2>2, <2>3, TrackFine
  <1> QED BY <1>1, BillsStand, PTL

\* Someone can always carry an order on: a button of some screen works while it is open,
\* and takes the money when it is served (the same screens).
THEOREM NobodyStranded == Spec => []NeverStranded
  <1>1. TypeOK => NeverStranded
    <2> SUFFICES ASSUME TypeOK, NEW row \in Rows
                 PROVE
        LET working(acts) == \E role \in Roles, screen \in Screens :
                                 \E act \in Offered(screen, role, row) \intersect acts :
                                     Accepted(act, role, row)
            guest(act) == act \in TrackOrder(row) /\ Guard(act, row)
        IN  /\ row.status \notin TerminalStatuses =>
                 \/ working({"advance", "serve", "approve", "cashAdvance"}) \/ guest("pay")
                 \/ /\ row.status = "AWAITING_ADVANCE_PAYMENT" /\ working({"cancel"})
                    /\ row.payment = "PAID" \/ row.collected >= row.advance
            /\ row.status = "SERVED" /\ row.payment # "PAID" => working({"cash"})
      BY DEF NeverStranded
    <2> DEFINE works(act) == \E role \in Roles, screen \in Screens :
                                act \in Offered(screen, role, row) /\ Accepted(act, role, row)
    <2>0. row \in OrderRow /\ row.status \in OrderStatuses
      BY RowType
    <2>1. CASE row.status \in KitchenQueue
      <3>1. row.status \in DOMAIN NEXT_ACTION
        BY <2>1 DEF KitchenQueue, NEXT_ACTION
      <3>2. "advance" \in Offered("kitchen", "STAFF", row)
        BY <3>1, ScreenTables DEF Offered, Ticket, When
      <3>3. Accepted("advance", "STAFF", row)
        BY <3>1, NextMoves, ScreenTables, RoutesTable DEF Accepted, Guard
      <3>4. works("advance")
        BY <3>2, <3>3, ScreenTables
      <3> QED BY <2>1, <3>4 DEF KitchenQueue
    <2>2. CASE row.status = "NEEDS_APPROVAL"
      <3>1. "approve" \in Offered("staff", "STAFF", row)
        BY <2>2, ScreenTables DEF Offered, StaffOrders, When
      <3>2. Accepted("approve", "STAFF", row)
        BY <2>2, ScreenTables, RoutesTable DEF Accepted, Guard
      <3>3. works("approve")
        BY <3>1, <3>2, ScreenTables
      <3> QED BY <2>2, <3>3
    <2>3. CASE row.status = "AWAITING_ADVANCE_PAYMENT"
      <3>1. "cancel" \in Offered("staff", "ADMIN", row)
        BY <2>3, ScreenTables DEF Offered, StaffOrders, When, TerminalStatuses
      <3>2. Accepted("cancel", "ADMIN", row)
        BY <2>3, ScreenTables, RoutesTable
           DEF Accepted, Guard, CanTransition, ALLOWED_TRANSITIONS
      <3>3. works("cancel")
        BY <3>1, <3>2, ScreenTables
      <3>4. CASE row.payment # "PAID" /\ ~ (row.collected >= row.advance)
        <4>1. row.advance > row.collected
          BY <2>0, <3>4 DEF OrderRow
        <4>2. "pay" \in TrackOrder(row)
          BY <2>3, <3>4 DEF TrackOrder, When
        <4>3. Guard("pay", row)
          BY <2>3, <3>4, <4>1 DEF Guard
        <4> QED BY <2>3, <4>2, <4>3
      <3> QED BY <2>3, <3>3, <3>4
    <2>4. CASE row.status \in TerminalStatuses
      <3> SUFFICES ASSUME row.status = "SERVED", row.payment # "PAID" PROVE works("cash")
        BY <2>4
      <3>1. "cash" \in Offered("serve", "STAFF", row)
        BY ScreenTables DEF Offered, WaiterServe, When, CashPaid
      <3>2. Accepted("cash", "STAFF", row)
        BY ScreenTables, RoutesTable DEF Accepted, Guard
      <3> QED BY <3>1, <3>2, ScreenTables
    <2> QED BY <2>0, <2>1, <2>2, <2>3, <2>4 DEF OrderStatuses, HELD_STATUSES
  <1> QED BY <1>1, TypeCorrect, PTL

\* Whoever pays for a held order is asked for its advance, otherwise for the bill, and
\* owes what has not been collected of it.
LEMMA AskedUnpaid ==
    ASSUME NEW row \in OrderRow, RowSound(row), row.payment # "PAID",
           NEW bill, bill = IF row.status = "AWAITING_ADVANCE_PAYMENT" THEN row.advance ELSE row.total,
           row.status = "AWAITING_ADVANCE_PAYMENT" => row.advance > row.collected
    PROVE  bill = Owed(row) \/ (PaidInAdvance(row) /\ bill = Owed(row) + row.collected)
  <1>1. /\ row.total \in Nat /\ row.collected \in Nat /\ row.advance \in Nat
        /\ row.collected < row.total
    BY DEF OrderRow, RowSound
  <1>2. Owed(row) = bill - row.collected
    BY <1>1 DEF Owed, AtLeastZero
  <1>3. CASE row.collected = 0
    BY <1>1, <1>2, <1>3
  <1>4. CASE row.collected > 0
    <2>1. row.collected \in 1 .. row.total - 1
      BY <1>1, <1>4
    <2> QED BY <1>1, <1>2, <2>1 DEF PaidInAdvance
  <1> QED BY <1>1, <1>3, <1>4

LEMMA AskedPaid ==
    ASSUME OneByOne, NEW row \in OrderRow, RowSound(row), row.payment = "PAID",
           row.status # "AWAITING_ADVANCE_PAYMENT"
    PROVE  0 = Owed(row) \/ GrownSincePaid(row) \/ PartlyRefunded(row)
  <1>1. /\ row.total \in Nat /\ row.collected \in Nat /\ row.lines \in Nat
    BY DEF OrderRow
  <1>2. Covered(row) \/ PartlyRefunded(row)
    BY DEF RowSound, PartlyRefunded
  <1>3. CASE row.collected >= row.total
    BY <1>1, <1>3 DEF Owed, AtLeastZero
  <1>4. ASSUME NEW last \in Extras, last < row.lines, row.collected >= TotalOf(row.lines - last)
        PROVE  GrownSincePaid(row)
    <2>1. last \in Nat /\ row.lines - last \in Nat /\ row.lines - last > 0
      BY <1>1, <1>4, AmountsAssumption
    <2>2. PICK n \in Nat : n = row.lines - last
      BY <2>1
    <2>3. TotalOf(n) \in Nat /\ n <= TotalOf(n)
      BY TotalAtLeast
    <2>4. row.collected >= TotalOf(n)
      BY <1>4, <2>2, Zenon
    <2>5. row.collected > 0
      BY <1>1, <2>1, <2>2, <2>3, <2>4
    <2> QED BY <1>4, <2>5 DEF GrownSincePaid
  <1> QED BY <1>2, <1>3, <1>4 DEF Covered, PaidBefore

LEMMA AskedFor ==
    ASSUME OneByOne, NEW row \in OrderRow, RowSound(row), NEW amount \in Asked(row)
    PROVE  \/ amount = Owed(row)
           \/ PaidInAdvance(row) /\ amount = Owed(row) + row.collected
           \/ (GrownSincePaid(row) \/ PartlyRefunded(row)) /\ amount = 0
  <1>0. \/ amount = CheckoutAmount(row) /\ Guard("pay", row)
        \/ amount = CashAmount(row) /\ CashPaid(row)
        \/ amount = AdvanceDialog(row).advance /\ AdvanceDialog(row).payable /\ Guard("pay", row)
        \/ amount = InvoiceSheet(row).asks /\ row.status = "SERVED"
    BY DEF Asked, When
  <1>1. CASE amount = CheckoutAmount(row) /\ Guard("pay", row)
    <2>1. row.payment # "PAID" /\ (row.status = "AWAITING_ADVANCE_PAYMENT" => row.advance > row.collected)
      BY <1>1 DEF Guard
    <2> QED BY <1>1, <2>1, AskedUnpaid DEF CheckoutAmount
  <1>2. CASE amount = CashAmount(row) /\ CashPaid(row)
    <2>1. row.payment # "PAID" /\ row.status = "SERVED" /\ amount = row.total
      BY <1>2 DEF CashPaid, CashAmount
    <2> QED BY <2>1, AskedUnpaid
  <1>3. CASE /\ amount = AdvanceDialog(row).advance /\ AdvanceDialog(row).payable
             /\ Guard("pay", row)
    <2>1. row.status = "AWAITING_ADVANCE_PAYMENT" /\ amount = row.advance
      BY <1>3 DEF AdvanceDialog
    <2>2. row.payment # "PAID" /\ row.advance > row.collected
      BY <1>3, <2>1 DEF Guard
    <2> QED BY <2>1, <2>2, AskedUnpaid
  <1>4. CASE amount = InvoiceSheet(row).asks /\ row.status = "SERVED"
    <2>1. row.total \in Nat
      BY DEF OrderRow
    <2>2. amount = AtLeastZero(row.total - (IF row.payment = "PAID" THEN row.total ELSE 0))
      BY <1>4 DEF InvoiceSheet, Invoice
    <2>3. CASE row.payment = "PAID"
      <3>1. amount = 0
        BY <2>1, <2>2, <2>3 DEF AtLeastZero
      <3> QED BY <1>4, <2>3, <3>1, AskedPaid
    <2>4. CASE row.payment # "PAID"
      <3>1. amount = row.total
        BY <2>1, <2>2, <2>4 DEF AtLeastZero
      <3> QED BY <1>4, <2>4, <3>1, AskedUnpaid
    <2> QED BY <2>3, <2>4
  <1> QED BY <1>0, <1>1, <1>2, <1>3, <1>4

\* The sheet and the slip of a row.
LEMMA PapersAddUp ==
    ASSUME NEW row \in OrderRow, RowSound(row)
    PROVE  LET sheet == InvoiceSheet(row)
               slip  == ThermalSlip(row)
           IN  /\ sheet.rows[1] + sheet.rows[2] + sheet.rows[3] = sheet.total
               /\ slip.rows = sheet.rows \/ TaxAmount(row) % 2 = 1
               /\ slip.status = "PAID" <=> sheet.asks = 0
               /\ AdvanceDialog(row).advance + AdvanceDialog(row).remaining = row.total
  <1> DEFINE tax == TaxAmount(row)
             sheet == InvoiceSheet(row)
             slip == ThermalSlip(row)
             half == (tax + 1) \div 2
             due == AtLeastZero(row.total - (IF row.payment = "PAID" THEN row.total ELSE 0))
  <1>1. /\ sheet.rows = <<row.lines, tax \div 2, tax - tax \div 2>> /\ sheet.total = row.total
        /\ sheet.asks = due
    BY DEF InvoiceSheet, Invoice
  <1>2. slip.rows = <<row.lines, half, half>> /\ (slip.status = "PAID" <=> due = 0)
    BY DEF ThermalSlip, Invoice
  <1>3. /\ row.lines \in Nat /\ row.total \in Nat /\ row.advance \in Nat
        /\ row.advance <= row.total
    BY DEF OrderRow, RowSound
  <1>4. tax \in Nat /\ row.total = row.lines + tax
    <2>1. /\ ApplyPercent(row.lines, TaxPercent) \in Nat
          /\ ApplyPercent(row.lines, ServicePercent) \in Nat
      BY <1>3, PercentNat, AmountsAssumption
    <2>2. row.total = TotalOf(row.lines)
      BY DEF RowSound
    <2> QED BY <1>3, <2>1, <2>2 DEF TaxAmount, TotalOf, TotalAmount, AtLeastZero
  <1>5. /\ AdvanceDialog(row).advance = row.advance
        /\ AdvanceDialog(row).remaining = AtLeastZero(row.total - row.advance)
    BY DEF AdvanceDialog
  <1>6. AdvanceDialog(row).advance + AdvanceDialog(row).remaining = row.total
    BY <1>3, <1>5 DEF AtLeastZero
  <1> HIDE DEF tax, sheet, slip, due
  <1>7. tax % 2 = 1 \/ ((tax + 1) \div 2 = tax \div 2 /\ tax - tax \div 2 = tax \div 2)
    BY <1>4
  <1>8. slip.rows = sheet.rows \/ tax % 2 = 1
    BY <1>1, <1>2, <1>7
  <1>9. sheet.rows[1] + sheet.rows[2] + sheet.rows[3] = sheet.total
    <2>1. row.lines + tax \div 2 + (tax - tax \div 2) = row.total
      BY <1>3, <1>4
    <2>2. /\ sheet.rows[1] = row.lines /\ sheet.rows[2] = tax \div 2
          /\ sheet.rows[3] = tax - tax \div 2
      BY <1>1
    <2> QED BY <1>1, <2>1, <2>2
  <1>10. slip.status = "PAID" <=> sheet.asks = 0
    BY <1>1, <1>2
  <1> QED BY <1>6, <1>8, <1>9, <1>10 DEF tax, sheet, slip

\* The papers of an order add up to what is charged for it, and whoever is asked for
\* money is asked for what is owed, but for the three cases the property names
\* (buildInvoice, TrackOrder, CashPaymentModal).
THEOREM AskedForWhatIsOwed == OneByOne => (Spec => []AskedIsOwed)
  <1> SUFFICES ASSUME OneByOne PROVE Spec => []AskedIsOwed
    OBVIOUS
  <1>1. BInv => AskedIsOwed
    <2> SUFFICES ASSUME BInv, NEW row \in Rows
                 PROVE
        LET sheet == InvoiceSheet(row)
            slip  == ThermalSlip(row)
        IN  /\ sheet.rows[1] + sheet.rows[2] + sheet.rows[3] = sheet.total
            /\ slip.rows = sheet.rows \/ TaxAmount(row) % 2 = 1
            /\ slip.status = "PAID" <=> sheet.asks = 0
            /\ row.status \in HELD_STATUSES =>
                 AdvanceDialog(row).advance + AdvanceDialog(row).remaining = row.total
            /\ \A amount \in Asked(row) :
                 \/ amount = Owed(row)
                 \/ PaidInAdvance(row) /\ amount = Owed(row) + row.collected
                 \/ (GrownSincePaid(row) \/ PartlyRefunded(row)) /\ amount = 0
      BY DEF AskedIsOwed
    <2>1. row \in OrderRow
      BY RowType DEF BInv, IInv
    <2>2. RowSound(row)
      BY DEF BInv, Rows
    <2> QED BY <2>1, <2>2, PapersAddUp, AskedFor
  <1> QED BY <1>1, BillsStand, PTL

-----------------------------------------------------------------------------
(* The calendar of the reports. *)

\* The slots of a day are the SlotsPerDay that follow its first one, and no others.
LEMMA DayBounds ==
    ASSUME NEW S \in Nat \ {0}, NEW x \in Int
    PROVE  /\ x \div S \in Int
           /\ (x \div S) * S <= x /\ x < (x \div S) * S + S
           /\ x - S < (x \div S) * S
  OBVIOUS

LEMMA DayIsOne ==
    ASSUME NEW S \in Nat \ {0}, NEW x \in Int, NEW d \in Int, d * S <= x, x < d * S + S
    PROVE  x \div S = d
  <1>1. PICK e \in Int : e = x \div S
    BY DayBounds
  <1>2. e * S <= x /\ x < e * S + S
    BY <1>1, DayBounds
  <1>3. \A a, b \in Int : a < b => a * S + S <= b * S
    <2> SUFFICES ASSUME NEW a \in Int, NEW b \in Int, a < b PROVE a * S + S <= b * S
      OBVIOUS
    <2>1. PICK k \in Nat : b = a + 1 + k
      <3>1. b - a - 1 \in Nat /\ b = a + 1 + (b - a - 1)
        OBVIOUS
      <3> QED BY <3>1
    <2>2. b * S = a * S + S + k * S
      BY <2>1
    <2>3. k * S \in Nat /\ a * S \in Int
      OBVIOUS
    <2> QED BY <2>2, <2>3
  <1>4. ~ (e < d) /\ ~ (d < e)
    <2>1. e * S \in Int /\ d * S \in Int
      OBVIOUS
    <2> QED BY <1>2, <1>3, <2>1
  <1> QED BY <1>1, <1>4

\* The day of a slot begins at most a day before it.
LEMMA StartOfDay ==
    ASSUME NEW t \in Slots
    PROVE  /\ t \in DOMAIN Offset /\ Offset[t] \in Int /\ TradingDayKey(t) \in Int
           /\ StartOfTradingDay(t) \in DOMAIN Offset
           /\ StartOfTradingDay(t) <= t
           /\ StartOfTradingDay(t) + Offset[t] = TradingDayKey(t) * SlotsPerDay
  <1>1. t \in Nat /\ t <= Horizon /\ Horizon \in Nat /\ SlotsPerDay \in Nat \ {0}
    BY ClockAssumption DEF Slots
  <1>2. t \in -SlotsPerDay .. Horizon /\ DOMAIN Offset = -SlotsPerDay .. Horizon
    BY <1>1, ClockAssumption
  <1>3. PICK off \in Int : off = Offset[t]
    BY <1>2, ClockAssumption
  <1>4. PICK x \in Int : x = t + off
    BY <1>1
  <1>5. PICK d \in Int : d = x \div SlotsPerDay
    BY <1>1, DayBounds
  <1>6. d * SlotsPerDay <= x /\ x - SlotsPerDay < d * SlotsPerDay /\ d * SlotsPerDay \in Int
    BY <1>1, <1>5, DayBounds
  <1>7. TradingDayKey(t) = d
    BY <1>3, <1>4, <1>5 DEF TradingDayKey
  <1>8. StartOfTradingDay(t) = d * SlotsPerDay - off
    BY <1>3, <1>7 DEF StartOfTradingDay
  <1>9. PICK n \in Int : n = d * SlotsPerDay
    BY <1>6
  <1>10. n - off <= t /\ n - off \in -SlotsPerDay .. Horizon
    BY <1>1, <1>4, <1>6, <1>9
  <1>11. StartOfTradingDay(t) = n - off
    BY <1>8, <1>9
  <1> QED BY <1>2, <1>3, <1>7, <1>9, <1>10, <1>11

\* On a steady day the slots since midnight are the slots of the day.
LEMMA TodayIsSinceMidnight ==
    ASSUME NEW now \in Slots, Steady(now), NEW t \in DOMAIN Offset, t <= now
    PROVE  t >= StartOfTradingDay(now) <=> TradingDayKey(t) = TradingDayKey(now)
  <1>1. SlotsPerDay \in Nat \ {0} /\ now \in Int /\ t \in Int /\ Offset[t] \in Int
    BY ClockAssumption DEF Slots
  <1>2. PICK off \in Int, d \in Int, start \in Int :
            off = Offset[now] /\ d = TradingDayKey(now) /\ start = StartOfTradingDay(now)
    BY StartOfDay, ClockAssumption
  <1>3. start + off = d * SlotsPerDay /\ start <= now
    BY <1>2, StartOfDay
  <1>4. d * SlotsPerDay \in Int /\ now + off < d * SlotsPerDay + SlotsPerDay
    <2>1. d = (now + off) \div SlotsPerDay
      BY <1>2 DEF TradingDayKey
    <2> QED BY <1>1, <2>1, DayBounds
  <1>5. ASSUME t >= start PROVE TradingDayKey(t) = d
    <2>1. t \in StartOfTradingDay(now) .. now
      BY <1>1, <1>2, <1>5
    <2>2. Offset[t] = off
      BY <1>2, <2>1 DEF Steady
    <2>3. PICK n \in Int : n = d * SlotsPerDay
      BY <1>4
    <2>4. PICK x \in Int : x = t + off
      BY <1>1, <1>2
    <2>5. n <= x /\ x < n + SlotsPerDay
      BY <1>1, <1>2, <1>3, <1>4, <1>5, <2>3, <2>4
    <2>6. d * SlotsPerDay <= x /\ x < d * SlotsPerDay + SlotsPerDay
      BY <2>3, <2>5, Zenon
    <2>7. x \div SlotsPerDay = d
      BY <1>1, <1>2, <2>6, DayIsOne
    <2> QED BY <2>2, <2>4, <2>7 DEF TradingDayKey
  <1>6. ASSUME TradingDayKey(t) = d PROVE t >= start
    <2>1. Offset[t] = off
      BY <1>2, <1>6 DEF Steady
    <2>2. (t + off) \div SlotsPerDay = d
      BY <1>6, <2>1 DEF TradingDayKey
    <2>3. PICK n \in Int, x \in Int : n = d * SlotsPerDay /\ x = t + off
      BY <1>1, <1>2, <1>4
    <2>4. (x \div SlotsPerDay) * SlotsPerDay <= x
      BY <1>1, DayBounds
    <2>5. x \div SlotsPerDay = d
      BY <2>2, <2>3, Zenon
    <2>6. n <= x
      BY <2>3, <2>4, <2>5, Zenon
    <2> QED BY <1>1, <1>2, <1>3, <2>3, <2>6
  <1> QED BY <1>2, <1>5, <1>6

LEMMA HeadlineHolds == HeadlineIsLastBar
  <1> SUFFICES ASSUME NEW c \in Clocks, Steady(c.now)
               PROVE  /\ DashboardSummary(c).date = TradingDayKey(c.now)
                      /\ DashboardSummary(c).today = SalesReport(c)[TradingDayKey(c.now)]
    BY DEF HeadlineIsLastBar
  <1>1. c.now \in Slots /\ \A o \in Orders : c.placedAt[o] \in Slots /\ c.placedAt[o] <= c.now
    BY DEF Clocks
  <1>2. PICK now : now = c.now
    OBVIOUS
  <1>3. DashboardSummary(c).date = TradingDayKey(StartOfTradingDay(now))
    BY <1>2 DEF DashboardSummary
  <1>4. StartOfTradingDay(now) \in DOMAIN Offset /\ StartOfTradingDay(now) <= now
    BY <1>1, <1>2, StartOfDay
  <1>5. StartOfTradingDay(now) \in Int
    BY <1>4, ClockAssumption
  <1>6. TradingDayKey(StartOfTradingDay(now)) = TradingDayKey(now)
    <2>1. PICK start \in Int : start = StartOfTradingDay(now)
      BY <1>5
    <2>2. start >= StartOfTradingDay(now)
      BY <2>1
    <2> QED BY <1>1, <1>2, <1>4, <2>1, <2>2, TodayIsSinceMidnight
  <1>7. DashboardSummary(c).today = PlacedSince(c, Revenue, StartOfTradingDay(now))
    BY <1>2 DEF DashboardSummary
  <1>8. SalesReport(c)[TradingDayKey(now)] = OnDay(c, Revenue, TradingDayKey(now))
    BY <1>1, <1>2 DEF SalesReport, Days
  <1>9. \A o \in Orders : c.placedAt[o] >= StartOfTradingDay(now)
                            <=> TradingDayKey(c.placedAt[o]) = TradingDayKey(now)
    <2> SUFFICES ASSUME NEW o \in Orders
                 PROVE  c.placedAt[o] >= StartOfTradingDay(now)
                            <=> TradingDayKey(c.placedAt[o]) = TradingDayKey(now)
      OBVIOUS
    <2>1. c.placedAt[o] \in DOMAIN Offset
      BY <1>1, StartOfDay
    <2> QED BY <1>1, <1>2, <2>1, TodayIsSinceMidnight
  <1>10. PlacedSince(c, Revenue, StartOfTradingDay(now)) = OnDay(c, Revenue, TradingDayKey(now))
    BY <1>9 DEF PlacedSince, OnDay, Revenue
  <1> QED BY <1>2, <1>3, <1>6, <1>7, <1>8, <1>10

\* The headline figure and the last bar of the chart describe the same orders on every
\* day on which the clocks do not change, in any zone (getDashboardSummary,
\* getSalesReport).
THEOREM HeadlineMatches == Spec => []HeadlineIsLastBar
  BY HeadlineHolds, PTL

\* What falls on a whole bar of the breakdown falls within its window.
LEMMA WholeBarsAreWithin ==
    ASSUME NEW now \in Slots, NEW t \in Slots, TradingDayKey(t) \in WholeBars(now)
    PROVE  t >= DaysBefore(now, WindowDays)
  <1>1. /\ SlotsPerDay \in Nat \ {0} /\ WindowDays \in Nat /\ t \in Int /\ now \in Int
        /\ t \in DOMAIN Offset /\ now \in DOMAIN Offset
    BY StartOfDay, ClockAssumption DEF Slots
  <1>2. PICK off \in Int, here \in Int : off = Offset[now] /\ here = Offset[t]
    BY StartOfDay
  <1>3. here - off <= SlotsPerDay
    BY <1>1, <1>2, ClockAssumption
  <1>4. PICK today \in Int, d \in Int : today = TradingDayKey(now) /\ d = TradingDayKey(t)
    BY StartOfDay
  <1>5. d * SlotsPerDay \in Int /\ d * SlotsPerDay <= t + here
    <2>1. d = (t + here) \div SlotsPerDay
      BY <1>2, <1>4 DEF TradingDayKey
    <2> QED BY <1>1, <2>1, DayBounds
  <1>6. PICK first \in Int : first = today - WindowDays
    BY <1>1
  <1>7. DaysBefore(now, WindowDays) = first * SlotsPerDay - off
    <2>1. StartOfTradingDay(now) = today * SlotsPerDay - off
      BY <1>2, <1>4 DEF StartOfTradingDay
    <2>2. first * SlotsPerDay = today * SlotsPerDay - WindowDays * SlotsPerDay
      BY <1>1, <1>6
    <2> QED BY <1>1, <2>1, <2>2 DEF DaysBefore
  <1>8. first * SlotsPerDay \in Int
    BY <1>1
  <1>9. \/ d > first
        \/ d = first /\ here = off
    BY <1>2, <1>4, <1>6 DEF WholeBars
  <1>10. CASE d > first
    <2>1. PICK k \in Nat : d = first + 1 + k
      <3>1. d - first - 1 \in Nat /\ d = first + 1 + (d - first - 1)
        BY <1>10
      <3> QED BY <3>1
    <2>2. d * SlotsPerDay = first * SlotsPerDay + SlotsPerDay + k * SlotsPerDay
      BY <1>1, <2>1
    <2>3. k * SlotsPerDay \in Nat
      BY <1>1
    <2>4. PICK m \in Int, n \in Int, x \in Nat :
              m = d * SlotsPerDay /\ n = first * SlotsPerDay /\ x = k * SlotsPerDay
      BY <1>5, <1>8, <2>3
    <2>5. t >= n - off
      BY <1>1, <1>3, <1>5, <2>2, <2>4
    <2> QED BY <1>7, <2>4, <2>5
  <1>11. CASE d = first /\ here = off
    <2>1. PICK n \in Int : n = first * SlotsPerDay
      BY <1>8
    <2>2. t >= n - off
      BY <1>1, <1>5, <1>11, <2>1
    <2> QED BY <1>7, <2>1, <2>2
  <1> QED BY <1>9, <1>10, <1>11

\* The slots of the window that is exported for a date are those of that day of UTC.
LEMMA WindowIsDate ==
    ASSUME NEW t \in Slots, NEW d \in Int
    PROVE  t \in ExportWindow(d) <=> t \div SlotsPerDay = d
  <1>1. SlotsPerDay \in Nat \ {0} /\ t \in Int
    BY ClockAssumption DEF Slots
  <1>2. PICK n \in Int : n = d * SlotsPerDay
    BY <1>1
  <1>3. t \in ExportWindow(d) <=> n <= t /\ t < n + SlotsPerDay
    <2>1. t \in n .. n + SlotsPerDay - 1 <=> n <= t /\ t < n + SlotsPerDay
      BY <1>1
    <2> QED BY <1>2, <2>1 DEF ExportWindow
  <1>4. ASSUME t \div SlotsPerDay = d PROVE n <= t /\ t < n + SlotsPerDay
    <2>1. /\ (t \div SlotsPerDay) * SlotsPerDay <= t
          /\ t < (t \div SlotsPerDay) * SlotsPerDay + SlotsPerDay
      BY <1>1, DayBounds
    <2> QED BY <1>2, <1>4, <2>1, Zenon
  <1>5. ASSUME n <= t, t < n + SlotsPerDay PROVE t \div SlotsPerDay = d
    <2>1. d * SlotsPerDay <= t /\ t < d * SlotsPerDay + SlotsPerDay
      BY <1>2, <1>5, Zenon
    <2> QED BY <1>1, <2>1, DayIsOne
  <1> QED BY <1>3, <1>4, <1>5

-----------------------------------------------------------------------------
(* The figures of the reports, as sums. *)

\* A fold over some of the elements is the sum over them.
LEMMA FoldIsSum ==
    ASSUME NEW D, IsFiniteSet(D), NEW f, \A x \in D : f[x] \in Nat, NEW u, Sums(f, u, D),
           NEW S \in SUBSET D, NEW it, Folds(f, it, S)
    PROVE  it[S] = u[S]
  <1>1. IsFiniteSet(S)
    BY FS_Subset
  <1>2. Sums(f, it, S)
    BY <1>1, FoldSums
  <1>3. Sums(f, u, S)
    BY DEF Sums
  <1>4. it[S] \in Nat /\ u[S] \in Nat
    BY <1>2, <1>3 DEF Sums
  <1>5. Pair(f, f, it, u, S) /\ Pair(f, f, u, it, S)
    BY <1>2, <1>3 DEF Pair
  <1>6. Below(f, f, S, S)
    BY DEF Below
  <1>7. it[S] <= u[S] /\ u[S] <= it[S]
    BY <1>1, <1>5, <1>6, SumsCompare
  <1> QED BY <1>4, <1>7

\* Sums of numbers of a finite set exist.
LEMMA SumsExist ==
    ASSUME NEW D, IsFiniteSet(D), NEW f, \A x \in D : f[x] \in Nat
    PROVE  \E u : Sums(f, u, D)
  BY FoldExists, FoldSums

\* The sum over two sets that do not meet.
LEMMA SumsUnion ==
    ASSUME NEW D, IsFiniteSet(D), NEW f, \A x \in D : f[x] \in Nat, NEW u, Sums(f, u, D),
           NEW A \in SUBSET D
    PROVE  \A B \in SUBSET D : A \intersect B = {} => u[A \union B] = u[A] + u[B]
  <1> DEFINE T == { n \in Nat : \A B \in UpTo(D, n) :
                                   A \intersect B = {} => u[A \union B] = u[A] + u[B] }
  <1>t. \A S \in SUBSET D : u[S] \in Nat
    BY DEF Sums
  <1>1. 0 \in T
    <2>1. \A B \in UpTo(D, 0) : B = {}
      BY RestIsSmaller DEF UpTo
    <2>2. u[A \union {}] = u[A] + u[{}]
      <3>1. A \union {} = A
        OBVIOUS
      <3>2. u[{}] = 0 /\ u[A] \in Nat
        BY <1>t DEF Sums
      <3> QED BY <3>1, <3>2
    <2> QED BY <2>1, <2>2
  <1>2. ASSUME NEW n \in T PROVE n + 1 \in T
    <2>0. n \in Nat /\ \A B \in UpTo(D, n) : A \intersect B = {} => u[A \union B] = u[A] + u[B]
      OBVIOUS
    <2> SUFFICES ASSUME NEW B \in UpTo(D, n + 1), A \intersect B = {}
                 PROVE  u[A \union B] = u[A] + u[B]
      BY <2>0
    <2> HIDE DEF T
    <2>1. B \in SUBSET D
      BY DEF UpTo
    <2>2. CASE B = {}
      <3>1. A \union B = A
        BY <2>2
      <3>2. u[B] = 0 /\ u[A] \in Nat
        BY <1>t, <2>2 DEF Sums
      <3>3. u[A \union B] = u[A]
        BY <3>1, Zenon
      <3> QED BY <3>2, <3>3
    <2>3. ASSUME NEW x \in B PROVE u[A \union B] = u[A] + u[B]
      <3> DEFINE rest == B \ {x}
      <3>1. rest \in UpTo(D, n) /\ rest \in SUBSET D
        BY <2>0, <2>1, RestIsSmaller DEF UpTo
      <3>2. (A \union B) \ {x} = A \union rest /\ A \union B \in SUBSET D /\ x \in A \union B
        BY <2>1
      <3>3. u[A \union B] = f[x] + u[A \union rest] /\ u[B] = f[x] + u[rest]
        BY <2>1, <3>2 DEF Sums
      <3>4. A \intersect rest = {}
        OBVIOUS
      <3>5. A \union rest \in SUBSET D /\ f[x] \in Nat
        BY <2>1, <3>1
      <3> HIDE DEF rest
      <3>6. u[A \union rest] = u[A] + u[rest]
        BY <2>0, <3>1, <3>4
      <3> QED BY <1>t, <2>1, <3>1, <3>3, <3>5, <3>6
    <2> QED BY <2>2, <2>3
  <1>3. T = Nat
    BY <1>1, <1>2, NatSet
  <1>4. ASSUME NEW B \in SUBSET D PROVE Cardinality(B) \in T /\ B \in UpTo(D, Cardinality(B))
    BY <1>3, FS_Subset, FS_CardinalityType DEF UpTo
  <1> QED BY <1>4

\* Sums by class add up to the sum: key gives the class of each element.
ByClass(u, h, key, S, E) == \A e \in E : h[e] = u[{ x \in S : key[x] = e }]

LEMMA SumsByClass ==
    ASSUME NEW D, IsFiniteSet(D), NEW f, \A x \in D : f[x] \in Nat, NEW u, Sums(f, u, D),
           NEW E, IsFiniteSet(E), NEW h, NEW v, Sums(h, v, E),
           NEW S \in SUBSET D, NEW key, \A x \in S : key[x] \in E, ByClass(u, h, key, S, E)
    PROVE  v[E] = u[S]
  <1> DEFINE In(P) == { x \in S : key[x] \in P }
             T == { n \in Nat : \A P \in UpTo(E, n) : v[P] = u[In(P)] }
  <1>t. \A A \in SUBSET D : u[A] \in Nat
    BY DEF Sums
  <1>1. 0 \in T
    <2>1. \A P \in UpTo(E, 0) : P = {}
      BY RestIsSmaller DEF UpTo
    <2>2. In({}) = {} /\ v[{}] = 0 /\ u[{}] = 0
      BY DEF Sums
    <2> QED BY <2>1, <2>2
  <1>2. ASSUME NEW n \in T PROVE n + 1 \in T
    <2>0. n \in Nat /\ \A P \in UpTo(E, n) : v[P] = u[In(P)]
      OBVIOUS
    <2> SUFFICES ASSUME NEW P \in UpTo(E, n + 1) PROVE v[P] = u[In(P)]
      BY <2>0
    <2> HIDE DEF T
    <2>1. P \in SUBSET E
      BY DEF UpTo
    <2>2. CASE P = {}
      <3>1. In(P) = {} /\ v[P] = 0 /\ u[{}] = 0
        BY <2>2 DEF Sums
      <3> QED BY <3>1
    <2>3. ASSUME NEW e \in P PROVE v[P] = u[In(P)]
      <3> DEFINE rest == P \ {e}
                 class == { x \in S : key[x] = e }
      <3>1. rest \in UpTo(E, n) /\ rest \in SUBSET E
        BY <2>0, <2>1, RestIsSmaller DEF UpTo
      <3>2. v[P] = h[e] + v[rest]
        BY <2>1 DEF Sums
      <3>3. h[e] = u[class]
        BY <2>1 DEF ByClass
      <3>4. /\ In(P) = In(rest) \union class /\ In(rest) \intersect class = {}
            /\ In(rest) \in SUBSET D /\ class \in SUBSET D
        OBVIOUS
      <3>5. v[rest] = u[In(rest)]
        BY <2>0, <3>1
      <3> HIDE DEF rest, class, In
      <3>6. u[In(P)] = u[In(rest)] + u[class]
        BY <3>4, SumsUnion
      <3>7. u[In(rest)] \in Nat /\ u[class] \in Nat
        BY <1>t, <3>4
      <3> QED BY <3>2, <3>3, <3>5, <3>6, <3>7
    <2> QED BY <2>2, <2>3
  <1>3. T = Nat
    BY <1>1, <1>2, NatSet
  <1>4. Cardinality(E) \in T /\ E \in UpTo(E, Cardinality(E))
    BY <1>3, FS_CardinalityType DEF UpTo
  <1>5. In(E) = S
    OBVIOUS
  <1> HIDE DEF In
  <1>6. v[E] = u[In(E)]
    BY <1>4
  <1> QED BY <1>5, <1>6

\* What is the sum of two parts everywhere is so over a set.
LEMMA SumsOfParts ==
    ASSUME NEW D, IsFiniteSet(D), NEW f, NEW g, NEW h,
           \A x \in D : f[x] \in Nat /\ g[x] \in Nat /\ h[x] \in Nat,
           NEW u, Sums(f, u, D), NEW v, Sums(g, v, D), NEW w, Sums(h, w, D),
           NEW S \in SUBSET D, \A x \in S : f[x] = g[x] + h[x]
    PROVE  u[S] = v[S] + w[S]
  <1> DEFINE T == { n \in Nat : \A P \in UpTo(S, n) : u[P] = v[P] + w[P] }
  <1>t. \A P \in SUBSET D : u[P] \in Nat /\ v[P] \in Nat /\ w[P] \in Nat
    BY DEF Sums
  <1>f. IsFiniteSet(S)
    BY FS_Subset
  <1>1. 0 \in T
    <2>1. \A P \in UpTo(S, 0) : P = {}
      BY <1>f, RestIsSmaller DEF UpTo
    <2>2. u[{}] = 0 /\ v[{}] = 0 /\ w[{}] = 0
      BY DEF Sums
    <2>3. ASSUME NEW P \in UpTo(S, 0) PROVE u[P] = v[P] + w[P]
      <3>1. P = {}
        BY <2>1
      <3>2. u[P] = 0 /\ v[P] = 0 /\ w[P] = 0
        BY <2>2, <3>1
      <3> QED BY <3>2
    <2> QED BY <2>3
  <1>2. ASSUME NEW n \in T PROVE n + 1 \in T
    <2>0. n \in Nat /\ \A P \in UpTo(S, n) : u[P] = v[P] + w[P]
      OBVIOUS
    <2> SUFFICES ASSUME NEW P \in UpTo(S, n + 1) PROVE u[P] = v[P] + w[P]
      BY <2>0
    <2> HIDE DEF T
    <2>1. P \in SUBSET S /\ P \in SUBSET D
      BY DEF UpTo
    <2>2. CASE P = {}
      BY <2>2 DEF Sums
    <2>3. ASSUME NEW x \in P PROVE u[P] = v[P] + w[P]
      <3> DEFINE rest == P \ {x}
      <3>1. rest \in UpTo(S, n) /\ rest \in SUBSET D
        BY <1>f, <2>0, <2>1, RestIsSmaller DEF UpTo
      <3>2. u[P] = f[x] + u[rest] /\ v[P] = g[x] + v[rest] /\ w[P] = h[x] + w[rest]
        BY <2>1 DEF Sums
      <3>3. u[rest] = v[rest] + w[rest]
        BY <2>0, <3>1
      <3>4. f[x] = g[x] + h[x] /\ g[x] \in Nat /\ h[x] \in Nat
        BY <2>1
      <3> HIDE DEF rest
      <3> QED BY <1>t, <3>1, <3>2, <3>3, <3>4
    <2> QED BY <2>2, <2>3
  <1>3. T = Nat
    BY <1>1, <1>2, NatSet
  <1>4. Cardinality(S) \in T /\ S \in UpTo(S, Cardinality(S))
    BY <1>f, <1>3, FS_CardinalityType DEF UpTo
  <1> QED BY <1>4

-----------------------------------------------------------------------------
Totals == [o \in Orders |-> order[o].total]
Lines  == [o \in Orders |-> order[o].lines]
Charges == [o \in Orders |-> TotalOf(order[o].lines) - order[o].lines]

Tallied(u) == Sums(Totals, u, Orders) /\ \A S \in SUBSET Orders : TotalOver(S) = u[S]
Listed(u)  == Sums(Lines, u, Orders) /\ \A S \in SUBSET Orders : LinesOver(S) = u[S]
Charged(u) == Sums(Charges, u, Orders) /\ \A S \in SUBSET Orders : ChargesOver(S) = u[S]

LEMMA AmountsNat ==
    TypeOK => \A o \in Orders : /\ Totals[o] = order[o].total /\ Totals[o] \in Nat
                                /\ Lines[o] = order[o].lines /\ Lines[o] \in Nat
  BY DEF TypeOK, OrderRow, Totals, Lines

LEMMA ChargesNat ==
    TypeOK => \A o \in Orders : /\ Charges[o] = TotalOf(order[o].lines) - order[o].lines
                                /\ Charges[o] \in Nat
  <1> SUFFICES ASSUME TypeOK, NEW o \in Orders
               PROVE  /\ Charges[o] = TotalOf(order[o].lines) - order[o].lines
                      /\ Charges[o] \in Nat
    OBVIOUS
  <1>1. order[o].lines \in Nat
    BY DEF TypeOK, OrderRow
  <1>2. PICK n \in Nat : n = TotalOf(order[o].lines) /\ order[o].lines <= n
    BY <1>1, TotalAtLeast
  <1>3. TotalOf(order[o].lines) - order[o].lines \in Nat
    BY <1>1, <1>2
  <1> QED BY <1>3 DEF Charges

LEMMA TotalsAddUp == TypeOK => \E u : Tallied(u)
  <1> SUFFICES ASSUME TypeOK PROVE \E u : Tallied(u)
    OBVIOUS
  <1>1. \A o \in Orders : Totals[o] = order[o].total /\ Totals[o] \in Nat
    BY AmountsNat
  <1>2. PICK u : Sums(Totals, u, Orders)
    BY <1>1, SumsExist, OrdersAssumption
  <1>3. ASSUME NEW S \in SUBSET Orders PROVE TotalOver(S) = u[S]
    <2> DEFINE Fits(g) == g = [s \in SUBSET S |-> IF s = {} THEN 0
                                 ELSE LET x == CHOOSE x \in s : TRUE
                                      IN  order[x].total + g[s \ {x}]]
               it == CHOOSE g : Fits(g)
    <2>1. TotalOver(S) = it[S]
      BY DEF TotalOver, MapThenSumSet, MapThenFoldSet
    <2>2. PICK g : Folds(Totals, g, S)
      BY FS_Subset, FoldExists, OrdersAssumption
    <2>3. ASSUME NEW k PROVE Fits(k) <=> Folds(Totals, k, S)
      <3>1. ASSUME NEW s \in SUBSET S
            PROVE  After(Totals, k, s) = IF s = {} THEN 0
                                 ELSE LET x == CHOOSE x \in s : TRUE
                                      IN  order[x].total + k[s \ {x}]
        <4>1. s # {} => Chosen(s) \in Orders
          BY DEF Chosen
        <4> QED BY <1>1, <4>1 DEF After, Chosen
      <3> QED BY <3>1 DEF Folds
    <2>4. Folds(Totals, it, S)
      <3> HIDE DEF Fits
      <3>1. \E k : Fits(k)
        BY <2>2, <2>3
      <3>2. Fits(it)
        BY <3>1
      <3> HIDE DEF it
      <3> QED BY <2>3, <3>2
    <2> HIDE DEF it
    <2> QED BY <1>1, <1>2, <2>1, <2>4, FoldIsSum, OrdersAssumption
  <1> QED BY <1>2, <1>3 DEF Tallied

LEMMA LinesAddUp == TypeOK => \E u : Listed(u)
  <1> SUFFICES ASSUME TypeOK PROVE \E u : Listed(u)
    OBVIOUS
  <1>1. \A o \in Orders : Lines[o] = order[o].lines /\ Lines[o] \in Nat
    BY AmountsNat
  <1>2. PICK u : Sums(Lines, u, Orders)
    BY <1>1, SumsExist, OrdersAssumption
  <1>3. ASSUME NEW S \in SUBSET Orders PROVE LinesOver(S) = u[S]
    <2> DEFINE Fits(g) == g = [s \in SUBSET S |-> IF s = {} THEN 0
                                 ELSE LET x == CHOOSE x \in s : TRUE
                                      IN  order[x].lines + g[s \ {x}]]
               it == CHOOSE g : Fits(g)
    <2>1. LinesOver(S) = it[S]
      BY DEF LinesOver, MapThenSumSet, MapThenFoldSet
    <2>2. PICK g : Folds(Lines, g, S)
      BY FS_Subset, FoldExists, OrdersAssumption
    <2>3. ASSUME NEW k PROVE Fits(k) <=> Folds(Lines, k, S)
      <3>1. ASSUME NEW s \in SUBSET S
            PROVE  After(Lines, k, s) = IF s = {} THEN 0
                                 ELSE LET x == CHOOSE x \in s : TRUE
                                      IN  order[x].lines + k[s \ {x}]
        <4>1. s # {} => Chosen(s) \in Orders
          BY DEF Chosen
        <4> QED BY <1>1, <4>1 DEF After, Chosen
      <3> QED BY <3>1 DEF Folds
    <2>4. Folds(Lines, it, S)
      <3> HIDE DEF Fits
      <3>1. \E k : Fits(k)
        BY <2>2, <2>3
      <3>2. Fits(it)
        BY <3>1
      <3> HIDE DEF it
      <3> QED BY <2>3, <3>2
    <2> HIDE DEF it
    <2> QED BY <1>1, <1>2, <2>1, <2>4, FoldIsSum, OrdersAssumption
  <1> QED BY <1>2, <1>3 DEF Listed

LEMMA ChargesAddUp == TypeOK => \E u : Charged(u)
  <1> SUFFICES ASSUME TypeOK PROVE \E u : Charged(u)
    OBVIOUS
  <1>1. \A o \in Orders : Charges[o] = TotalOf(order[o].lines) - order[o].lines /\ Charges[o] \in Nat
    BY ChargesNat
  <1>2. PICK u : Sums(Charges, u, Orders)
    BY <1>1, SumsExist, OrdersAssumption
  <1>3. ASSUME NEW S \in SUBSET Orders PROVE ChargesOver(S) = u[S]
    <2> DEFINE Fits(g) == g = [s \in SUBSET S |-> IF s = {} THEN 0
                                 ELSE LET x == CHOOSE x \in s : TRUE
                                      IN  (TotalOf(order[x].lines) - order[x].lines) + g[s \ {x}]]
               it == CHOOSE g : Fits(g)
    <2>1. ChargesOver(S) = it[S]
      BY DEF ChargesOver, MapThenSumSet, MapThenFoldSet
    <2>2. PICK g : Folds(Charges, g, S)
      BY FS_Subset, FoldExists, OrdersAssumption
    <2>3. ASSUME NEW k PROVE Fits(k) <=> Folds(Charges, k, S)
      <3>1. ASSUME NEW s \in SUBSET S
            PROVE  After(Charges, k, s) = IF s = {} THEN 0
                                 ELSE LET x == CHOOSE x \in s : TRUE
                                      IN  (TotalOf(order[x].lines) - order[x].lines) + k[s \ {x}]
        <4>1. s # {} => Chosen(s) \in Orders
          BY DEF Chosen
        <4> QED BY <1>1, <4>1 DEF After, Chosen
      <3> QED BY <3>1 DEF Folds
    <2>4. Folds(Charges, it, S)
      <3> HIDE DEF Fits
      <3>1. \E k : Fits(k)
        BY <2>2, <2>3
      <3>2. Fits(it)
        BY <3>1
      <3> HIDE DEF it
      <3> QED BY <2>3, <3>2
    <2> HIDE DEF it
    <2> QED BY <1>1, <1>2, <2>1, <2>4, FoldIsSum, OrdersAssumption
  <1> QED BY <1>2, <1>3 DEF Charged

\* Sums over the guests and over the days.
LEMMA GuestSums ==
    ASSUME IsFiniteSet(Guests), NEW f, \A g \in Guests : f[g] \in Nat, NEW u, Sums(f, u, Guests)
    PROVE  /\ (\A g \in Guests : BilledTo(g) = f[g]) => MapThenSumSet(BilledTo, Guests) = u[Guests]
           /\ (\A g \in Guests : SpentBy(g) = f[g]) => MapThenSumSet(SpentBy, Guests) = u[Guests]
  <1>0. PICK g : Folds(f, g, Guests)
    BY FoldExists
  <1>1. ASSUME \A x \in Guests : BilledTo(x) = f[x]
        PROVE  MapThenSumSet(BilledTo, Guests) = u[Guests]
    <2> DEFINE Fits(h) == h = [s \in SUBSET Guests |-> IF s = {} THEN 0
                                 ELSE LET x == CHOOSE x \in s : TRUE
                                      IN  BilledTo(x) + h[s \ {x}]]
               it == CHOOSE h : Fits(h)
    <2>1. MapThenSumSet(BilledTo, Guests) = it[Guests]
      BY DEF MapThenSumSet, MapThenFoldSet
    <2>2. ASSUME NEW k PROVE Fits(k) <=> Folds(f, k, Guests)
      <3>1. ASSUME NEW s \in SUBSET Guests
            PROVE  After(f, k, s) = IF s = {} THEN 0
                                 ELSE LET x == CHOOSE x \in s : TRUE
                                      IN  BilledTo(x) + k[s \ {x}]
        <4>1. s # {} => Chosen(s) \in Guests
          BY DEF Chosen
        <4> QED BY <1>1, <4>1 DEF After, Chosen
      <3> QED BY <3>1 DEF Folds
    <2>3. Folds(f, it, Guests)
      <3> HIDE DEF Fits
      <3>1. \E k : Fits(k)
        BY <1>0, <2>2
      <3>2. Fits(it)
        BY <3>1
      <3> HIDE DEF it
      <3> QED BY <2>2, <3>2
    <2> HIDE DEF it
    <2> QED BY <2>1, <2>3, FoldIsSum
  <1>2. ASSUME \A x \in Guests : SpentBy(x) = f[x]
        PROVE  MapThenSumSet(SpentBy, Guests) = u[Guests]
    <2> DEFINE Fits(h) == h = [s \in SUBSET Guests |-> IF s = {} THEN 0
                                 ELSE LET x == CHOOSE x \in s : TRUE
                                      IN  SpentBy(x) + h[s \ {x}]]
               it == CHOOSE h : Fits(h)
    <2>1. MapThenSumSet(SpentBy, Guests) = it[Guests]
      BY DEF MapThenSumSet, MapThenFoldSet
    <2>2. ASSUME NEW k PROVE Fits(k) <=> Folds(f, k, Guests)
      <3>1. ASSUME NEW s \in SUBSET Guests
            PROVE  After(f, k, s) = IF s = {} THEN 0
                                 ELSE LET x == CHOOSE x \in s : TRUE
                                      IN  SpentBy(x) + k[s \ {x}]
        <4>1. s # {} => Chosen(s) \in Guests
          BY DEF Chosen
        <4> QED BY <1>2, <4>1 DEF After, Chosen
      <3> QED BY <3>1 DEF Folds
    <2>3. Folds(f, it, Guests)
      <3> HIDE DEF Fits
      <3>1. \E k : Fits(k)
        BY <1>0, <2>2
      <3>2. Fits(it)
        BY <3>1
      <3> HIDE DEF it
      <3> QED BY <2>2, <3>2
    <2> HIDE DEF it
    <2> QED BY <2>1, <2>3, FoldIsSum
  <1> QED BY <1>1, <1>2

LEMMA DaysFinite == IsFiniteSet(Days)
  <1> DEFINE key == [t \in Slots |-> TradingDayKey(t)]
  <1>1. IsFiniteSet(Slots)
    BY FS_Interval, ClockAssumption DEF Slots
  <1>2. key \in Surjection(Slots, Days)
    BY DEF Surjection, Days
  <1> QED BY <1>1, <1>2, FS_Surjection

LEMMA DaySums ==
    ASSUME NEW bars, NEW f, \A d \in Days : f[d] = TotalOver(bars[d]) /\ f[d] \in Nat,
           NEW u, Sums(f, u, Days)
    PROVE  MapThenSumSet(LAMBDA d : TotalOver(bars[d]), Days) = u[Days]
  <1> DEFINE Fits(h) == h = [s \in SUBSET Days |-> IF s = {} THEN 0
                               ELSE LET x == CHOOSE x \in s : TRUE
                                    IN  TotalOver(bars[x]) + h[s \ {x}]]
             it == CHOOSE h : Fits(h)
  <1>0. PICK g : Folds(f, g, Days)
    BY FoldExists, DaysFinite
  <1>1. MapThenSumSet(LAMBDA d : TotalOver(bars[d]), Days) = it[Days]
    BY DEF MapThenSumSet, MapThenFoldSet
  <1>2. ASSUME NEW k PROVE Fits(k) <=> Folds(f, k, Days)
    <2>1. ASSUME NEW s \in SUBSET Days
          PROVE  After(f, k, s) = IF s = {} THEN 0
                               ELSE LET x == CHOOSE x \in s : TRUE
                                    IN  TotalOver(bars[x]) + k[s \ {x}]
      <3>1. s # {} => Chosen(s) \in Days
        BY DEF Chosen
      <3> QED BY <3>1 DEF After, Chosen
    <2> QED BY <2>1 DEF Folds
  <1>3. Folds(f, it, Days)
    <2> HIDE DEF Fits
    <2>1. \E k : Fits(k)
      BY <1>0, <1>2
    <2>2. Fits(it)
      BY <2>1
    <2> HIDE DEF it
    <2> QED BY <1>2, <2>2
  <1> HIDE DEF it
  <1> QED BY <1>1, <1>3, FoldIsSum, DaysFinite

\* What the guests are billed and have spent, taken together.
LEMMA GuestsAddUp ==
    ASSUME TypeOK, IsFiniteSet(Guests)
    PROVE  /\ MapThenSumSet(SpentBy, Guests) = TotalOver(Revenue)
           /\ \A c : MapThenSumSet(BilledTo, Guests)
                        = TotalOver(Revenue \union DashboardSummary(c).held)
  <1>1. PICK u : Tallied(u)
    BY TotalsAddUp
  <1>2. Sums(Totals, u, Orders) /\ \A S \in SUBSET Orders : TotalOver(S) = u[S]
    BY <1>1 DEF Tallied
  <1> DEFINE key == [o \in Orders |-> order[o].guest]
             Billed == { o \in Placings : order[o].status # "CANCELLED" }
  <1>3. \A o \in Orders : key[o] = order[o].guest /\ key[o] \in Guests
    BY DEF TypeOK, OrderRow
  <1>4. ASSUME NEW S \in SUBSET Orders, NEW h, NEW v, Sums(h, v, Guests),
               h = [g \in Guests |-> TotalOver({ o \in S : order[o].guest = g })]
        PROVE  v[Guests] = TotalOver(S)
    <2>1. ASSUME NEW g \in Guests PROVE h[g] = u[{ o \in S : key[o] = g }]
      <3>1. { o \in S : order[o].guest = g } = { o \in S : key[o] = g }
        BY <1>3
      <3> HIDE DEF key
      <3> QED BY <1>2, <1>4, <3>1
    <2>2. ByClass(u, h, key, S, Guests)
      BY <2>1 DEF ByClass
    <2> HIDE DEF key
    <2>3. v[Guests] = u[S]
      BY <1>2, <1>3, <1>4, <2>2, AmountsNat, OrdersAssumption, SumsByClass
    <2> QED BY <1>2, <2>3
  <1>5. ASSUME NEW S \in SUBSET Orders
        PROVE  LET h == [g \in Guests |-> TotalOver({ o \in S : order[o].guest = g })]
               IN  (\A g \in Guests : h[g] \in Nat) /\ \E v : Sums(h, v, Guests)
    <2> DEFINE h == [g \in Guests |-> TotalOver({ o \in S : order[o].guest = g })]
    <2>1. ASSUME NEW g \in Guests PROVE h[g] \in Nat
      <3> DEFINE P == { o \in S : order[o].guest = g }
      <3>1. P \in SUBSET Orders
        OBVIOUS
      <3>2. h[g] = TotalOver(P)
        OBVIOUS
      <3> HIDE DEF P, h
      <3> QED BY <1>2, <3>1, <3>2 DEF Sums
    <2> HIDE DEF h
    <2>2. \E v : Sums(h, v, Guests)
      BY <2>1, SumsExist
    <2> QED BY <2>1, <2>2 DEF h
  <1>6. MapThenSumSet(SpentBy, Guests) = TotalOver(Revenue)
    <2> DEFINE h == [g \in Guests |-> TotalOver({ o \in Revenue : order[o].guest = g })]
    <2>1. Revenue \in SUBSET Orders
      BY DEF Revenue
    <2>2. (\A g \in Guests : h[g] \in Nat) /\ \E v : Sums(h, v, Guests)
      BY <1>5, <2>1
    <2>3. \A g \in Guests : SpentBy(g) = h[g]
      BY DEF SpentBy
    <2>4. PICK v : Sums(h, v, Guests)
      BY <2>2
    <2>5. v[Guests] = TotalOver(Revenue)
      BY <1>4, <2>1, <2>4
    <2> HIDE DEF h
    <2>6. MapThenSumSet(SpentBy, Guests) = v[Guests]
      BY <2>2, <2>3, <2>4, GuestSums
    <2> QED BY <2>5, <2>6
  <1>7. MapThenSumSet(BilledTo, Guests) = TotalOver(Billed)
    <2> DEFINE h == [g \in Guests |-> TotalOver({ o \in Billed : order[o].guest = g })]
    <2>1. Billed \in SUBSET Orders
      BY DEF Placings
    <2>2. (\A g \in Guests : h[g] \in Nat) /\ \E v : Sums(h, v, Guests)
      BY <1>5, <2>1
    <2>3. ASSUME NEW g \in Guests PROVE BilledTo(g) = h[g]
      <3>1. { o \in Placings : order[o].guest = g /\ order[o].status # "CANCELLED" }
              = { o \in Billed : order[o].guest = g }
        OBVIOUS
      <3> HIDE DEF Billed
      <3> QED BY <3>1 DEF BilledTo
    <2>4. PICK v : Sums(h, v, Guests)
      BY <2>2
    <2>5. v[Guests] = TotalOver(Billed)
      <3> HIDE DEF Billed
      <3> QED BY <1>4, <2>1, <2>4
    <2> HIDE DEF h
    <2>6. MapThenSumSet(BilledTo, Guests) = v[Guests]
      BY <2>2, <2>3, <2>4, GuestSums
    <2> QED BY <2>5, <2>6
  <1>8. ASSUME NEW c PROVE Billed = Revenue \union DashboardSummary(c).held
    <2>1. DashboardSummary(c).held = { o \in Placings : order[o].status \in HELD_STATUSES }
      BY DEF DashboardSummary
    <2> QED BY <2>1 DEF Revenue, Placings, Placed, HELD_STATUSES
  <1> HIDE DEF Billed
  <1>9. \A c : MapThenSumSet(BilledTo, Guests) = TotalOver(Revenue \union DashboardSummary(c).held)
    BY <1>7, <1>8
  <1> QED BY <1>6, <1>9

\* Bars that part a set of orders by their day sum to it.
LEMMA BarsAddUp ==
    ASSUME TypeOK, NEW c \in Clocks, NEW R \in SUBSET Orders
    PROVE  \E f, v : /\ \A d \in Days : f[d] = TotalOver(OnDay(c, R, d)) /\ f[d] \in Nat
                     /\ Sums(f, v, Days) /\ v[Days] = TotalOver(R)
  <1>1. PICK u : Sums(Totals, u, Orders) /\ \A S \in SUBSET Orders : TotalOver(S) = u[S]
    BY TotalsAddUp DEF Tallied
  <1>n. \A S \in SUBSET Orders : u[S] \in Nat
    BY <1>1 DEF Sums
  <1> DEFINE h == [d \in Days |-> TotalOver(OnDay(c, R, d))]
             key == [o \in Orders |-> TradingDayKey(c.placedAt[o])]
  <1>2. \A o \in Orders : key[o] = TradingDayKey(c.placedAt[o]) /\ key[o] \in Days
    BY DEF Clocks, Days
  <1>3. \A d \in Days : /\ OnDay(c, R, d) \in SUBSET Orders
                        /\ OnDay(c, R, d) = { o \in R : key[o] = d }
    BY <1>2 DEF OnDay
  <1>4. \A d \in Days : h[d] = TotalOver(OnDay(c, R, d)) /\ h[d] = u[OnDay(c, R, d)]
    BY <1>1, <1>3
  <1> HIDE DEF key, h
  <1>5. \A d \in Days : h[d] \in Nat
    BY <1>n, <1>3, <1>4
  <1>6. ByClass(u, h, key, R, Days)
    BY <1>3, <1>4 DEF ByClass
  <1>7. PICK v : Sums(h, v, Days)
    BY <1>5, SumsExist, DaysFinite
  <1>8. v[Days] = u[R]
    BY <1>1, <1>2, <1>6, <1>7, AmountsNat, OrdersAssumption, DaysFinite, SumsByClass
  <1>9. v[Days] = TotalOver(R)
    BY <1>1, <1>8
  <1> QED BY <1>4, <1>5, <1>7, <1>9

\* The bars and the totals of the breakdown.
LEMMA BreakdownAddsUp ==
    ASSUME TypeOK, NEW c \in Clocks
    PROVE  LET report == RevenueBreakdown(c)
           IN  /\ report.revenue = MapThenSumSet(LAMBDA d : TotalOver(report.bars[d]), Days)
               /\ \A d \in WholeBars(c.now) : report.bars[d] = SalesReport(c)[d]
               /\ report.revenue + report.unearned
                    = report.collected + report.outstanding + report.returned
  <1>1. PICK u : Sums(Totals, u, Orders) /\ \A S \in SUBSET Orders : TotalOver(S) = u[S]
    BY TotalsAddUp DEF Tallied
  <1>n. \A S \in SUBSET Orders : u[S] \in Nat
    BY <1>1 DEF Sums
  <1> DEFINE report == RevenueBreakdown(c)
             since  == DaysBefore(c.now, WindowDays)
             R == PlacedSince(c, Revenue, since)
             P == PlacedSince(c, Paid, since)
             O == PlacedSince(c, Unpaid, since)
             B == PlacedSince(c, Refunded, since)
             U == PlacedSince(c, Paid \ Revenue, since)
  <1>3. /\ report.bars = [d \in Days |-> OnDay(c, R, d)] /\ report.revenue = TotalOver(R)
        /\ report.collected = TotalOver(P) /\ report.outstanding = TotalOver(O)
        /\ report.unearned = TotalOver(U) /\ report.returned = TotalOver(B)
    BY DEF RevenueBreakdown
  <1>4. /\ R \in SUBSET Orders /\ P \in SUBSET Orders /\ O \in SUBSET Orders
        /\ U \in SUBSET Orders /\ B \in SUBSET Orders
        /\ R \union U = (P \union O) \union B /\ R \intersect U = {}
        /\ P \intersect O = {} /\ (P \union O) \intersect B = {}
    <2>1. Revenue \in SUBSET Orders /\ Paid \in SUBSET Orders
      BY DEF Revenue, Paid
    <2>2. /\ Unpaid \in SUBSET Revenue /\ Refunded \in SUBSET Revenue
          /\ Revenue \subseteq (Paid \union Unpaid) \union Refunded
          /\ Paid \intersect Unpaid = {} /\ Paid \intersect Refunded = {}
          /\ Unpaid \intersect Refunded = {}
      BY DEF Revenue, Paid, Unpaid, Refunded, TypeOK, OrderRow, PaymentStatuses
    <2>3. /\ R = { o \in Revenue : c.placedAt[o] >= since }
          /\ P = { o \in Paid : c.placedAt[o] >= since }
          /\ O = { o \in Unpaid : c.placedAt[o] >= since }
          /\ B = { o \in Refunded : c.placedAt[o] >= since }
          /\ U = { o \in Paid \ Revenue : c.placedAt[o] >= since }
      BY DEF PlacedSince
    <2> HIDE DEF R, P, O, U, B, since
    <2> QED BY <2>1, <2>2, <2>3, ZenonT(30)
  <1>5. \A d \in WholeBars(c.now) : OnDay(c, R, d) = OnDay(c, Revenue, d)
    <2> SUFFICES ASSUME NEW d \in WholeBars(c.now), NEW o \in OnDay(c, Revenue, d)
                 PROVE  c.placedAt[o] >= since
      BY DEF OnDay, PlacedSince
    <2>1. o \in Orders /\ TradingDayKey(c.placedAt[o]) = d
      BY DEF OnDay, Revenue
    <2>2. c.now \in Slots /\ c.placedAt[o] \in Slots
      BY <2>1 DEF Clocks
    <2> QED BY <2>1, <2>2, WholeBarsAreWithin
  <1>6. \A d \in WholeBars(c.now) : report.bars[d] = SalesReport(c)[d]
    <2> HIDE DEF report, R
    <2> QED BY <1>3, <1>5 DEF SalesReport, WholeBars
  <1> HIDE DEF since, R, P, O, U, B
  <1>7. TotalOver(R) + TotalOver(U) = TotalOver(P) + TotalOver(O) + TotalOver(B)
    <2>1. \A o \in Orders : Totals[o] \in Nat
      BY AmountsNat
    <2>2. ASSUME NEW A \in SUBSET Orders, NEW C \in SUBSET Orders, A \intersect C = {}
          PROVE  u[A \union C] = u[A] + u[C]
      BY <1>1, <2>1, <2>2, OrdersAssumption, SumsUnion
    <2>3. u[R \union U] = u[R] + u[U]
      BY <1>4, <2>2
    <2>4. u[P \union O] = u[P] + u[O]
      BY <1>4, <2>2
    <2>5. P \union O \in SUBSET Orders
      BY <1>4
    <2>6. u[(P \union O) \union B] = u[P \union O] + u[B]
      BY <1>4, <2>2, <2>5
    <2>7. u[R] + u[U] = u[P] + u[O] + u[B]
      BY <1>4, <2>3, <2>4, <2>6
    <2> QED BY <1>1, <1>4, <2>7
  <1>8. report.revenue + report.unearned = report.collected + report.outstanding + report.returned
    BY <1>3, <1>7
  <1>9. report.revenue = MapThenSumSet(LAMBDA d : TotalOver(report.bars[d]), Days)
    <2> DEFINE bars == [d \in Days |-> OnDay(c, R, d)]
    <2>1. PICK f, v : /\ \A d \in Days : f[d] = TotalOver(OnDay(c, R, d)) /\ f[d] \in Nat
                      /\ Sums(f, v, Days) /\ v[Days] = TotalOver(R)
      BY <1>4, BarsAddUp
    <2>2. \A d \in Days : f[d] = TotalOver(bars[d])
      BY <2>1
    <2>3. report.revenue = TotalOver(R) /\ report.bars = bars
      BY <1>3
    <2> HIDE DEF bars
    <2>4. MapThenSumSet(LAMBDA d : TotalOver(bars[d]), Days) = v[Days]
      BY <2>1, <2>2, DaySums
    <2> HIDE DEF report
    <2> QED BY <2>1, <2>3, <2>4
  <1> QED BY <1>6, <1>8, <1>9

\* An order placed while the house and UTC had the same date is in the book of its day.
LEMMA BooksOfTheDay ==
    ASSUME NEW c \in Clocks, NEW o \in Revenue, NEW d \in Days, SameDate(c.placedAt[o])
    PROVE  o \in OrderBook(c, d) <=> o \in SalesReport(c)[d]
  <1>1. c.placedAt[o] \in Slots /\ o \in Placings
    BY DEF Clocks, Revenue, Placings, Placed
  <1>2. d \in Int
    BY StartOfDay DEF Days
  <1>3. c.placedAt[o] \in ExportWindow(d) <=> TradingDayKey(c.placedAt[o]) = d
    BY <1>1, <1>2, WindowIsDate DEF SameDate
  <1>4. SalesReport(c)[d] = { p \in Revenue : TradingDayKey(c.placedAt[p]) = d }
    BY DEF SalesReport, OnDay
  <1> QED BY <1>1, <1>3, <1>4 DEF OrderBook

\* A bill is its lines and the charges on them, and so is every set of bills.
LEMMA BillsAreLinesAndCharges ==
    ASSUME BInv
    PROVE  TotalOver(Revenue) = DishSales("all") + ChargesOver(Revenue)
  <1>1. TypeOK
    BY DEF BInv, IInv
  <1>2. PICK u : Sums(Totals, u, Orders) /\ \A S \in SUBSET Orders : TotalOver(S) = u[S]
    BY <1>1, TotalsAddUp DEF Tallied
  <1>3. PICK v : Sums(Lines, v, Orders) /\ \A S \in SUBSET Orders : LinesOver(S) = v[S]
    BY <1>1, LinesAddUp DEF Listed
  <1>4. PICK w : Sums(Charges, w, Orders) /\ \A S \in SUBSET Orders : ChargesOver(S) = w[S]
    BY <1>1, ChargesAddUp DEF Charged
  <1>5. Revenue \in SUBSET Orders
    BY DEF Revenue
  <1>6. ASSUME NEW o \in Revenue PROVE Totals[o] = Lines[o] + Charges[o]
    <2>1. o \in Orders /\ order[o].total = TotalOf(order[o].lines)
      BY DEF BInv, RowSound, Revenue, Placed
    <2>2. PICK n \in Nat, m \in Nat : n = order[o].lines /\ m = TotalOf(order[o].lines)
      BY <1>1, <2>1 DEF TypeOK, OrderRow
    <2>3. Totals[o] = m /\ Lines[o] = n /\ Charges[o] = m - n
      BY <1>1, <2>1, <2>2, AmountsNat, ChargesNat
    <2> QED BY <2>3
  <1>7. \A o \in Orders : Totals[o] \in Nat /\ Lines[o] \in Nat /\ Charges[o] \in Nat
    BY <1>1, AmountsNat, ChargesNat
  <1>8. u[Revenue] = v[Revenue] + w[Revenue]
    BY <1>2, <1>3, <1>4, <1>5, <1>6, <1>7, OrdersAssumption, SumsOfParts
  <1>9. DishSales("all") = LinesOver(Revenue)
    BY DEF DishSales
  <1> QED BY <1>2, <1>3, <1>4, <1>5, <1>8, <1>9

\* Served one at a time, the screens that count the same orders with queries of their own
\* agree, whatever the orders, the guests and the clock (report.service.ts,
\* export.service.ts).
THEOREM FiguresAddUp == OneByOne /\ IsFiniteSet(Guests) => (Spec => []FiguresAgree)
  <1> SUFFICES ASSUME OneByOne, IsFiniteSet(Guests) PROVE Spec => []FiguresAgree
    OBVIOUS
  <1>1. BInv => FiguresAgree
    <2> SUFFICES ASSUME BInv PROVE FiguresAgree
      OBVIOUS
    <2>0. TypeOK
      BY DEF BInv, IInv
    <2>1. TotalOver(Revenue) = DishSales("all") + ChargesOver(Revenue)
      BY BillsAreLinesAndCharges
    <2>2. ASSUME NEW c \in Clocks
          PROVE  MapThenSumSet(LAMBDA d : TotalOver(SalesReport(c)[d]), Days) = TotalOver(Revenue)
      <3> DEFINE bars == SalesReport(c)
      <3>1. \A d \in Days : bars[d] = OnDay(c, Revenue, d)
        BY DEF SalesReport
      <3>2. PICK f, v : /\ \A d \in Days : f[d] = TotalOver(OnDay(c, Revenue, d)) /\ f[d] \in Nat
                        /\ Sums(f, v, Days) /\ v[Days] = TotalOver(Revenue)
        <4>1. Revenue \in SUBSET Orders
          BY DEF Revenue
        <4> QED BY <2>0, <4>1, BarsAddUp
      <3>3. \A d \in Days : f[d] = TotalOver(bars[d]) /\ f[d] \in Nat
        BY <3>1, <3>2
      <3>4. bars = SalesReport(c)
        OBVIOUS
      <3> HIDE DEF bars
      <3>5. MapThenSumSet(LAMBDA d : TotalOver(bars[d]), Days) = v[Days]
        BY <3>2, <3>3, DaySums
      <3> QED BY <3>2, <3>4, <3>5
    <2>3. /\ MapThenSumSet(SpentBy, Guests) = TotalOver(Revenue)
          /\ \A c : MapThenSumSet(BilledTo, Guests)
                       = TotalOver(Revenue \union DashboardSummary(c).held)
      BY <2>0, GuestsAddUp
    <2> QED BY <2>0, <2>1, <2>2, <2>3, BreakdownAddsUp, BooksOfTheDay DEF FiguresAgree
  <1> QED BY <1>1, BillsStand, PTL

-----------------------------------------------------------------------------
(* What a step does to the figures. *)

\* An order the kitchen knows of stays revenue, and grows, unless it is cancelled.
RowStands(old, new) ==
    /\ old.status \in Cooked =>
         \/ new.status \in Cooked /\ new.total >= old.total
         \/ old.status \in KitchenQueue /\ new.status = "CANCELLED"
    /\ old.status = "SERVED" => new.status = "SERVED" /\ new.lines >= old.lines

LEMMA UntouchedStands ==
    ASSUME TypeOK, NEW row \in OrderRow, NEW o \in Orders, row.status = order[o].status,
           row.total = order[o].total, row.lines = order[o].lines
    PROVE  RowStands(order[o], row)
  <1>1. order[o].total \in Nat /\ order[o].lines \in Nat
    BY DEF TypeOK, OrderRow
  <1> QED BY <1>1 DEF RowStands

\* A step that rewrites one row.
LEMMA UpdateStands ==
    ASSUME TypeOK, NEW o \in Orders, NEW row, Update(o, row), RowStands(order[o], row)
    PROVE  \A p \in Orders : RowStands(order[p], order'[p])
  <1>1. order'[o] = row /\ \A p \in Orders \ {o} : order'[p] = order[p]
    BY DEF Update, TypeOK
  <1>2. \A p \in Orders : order[p] \in OrderRow
    BY DEF TypeOK
  <1>3. \A p \in Orders \ {o} : RowStands(order[p], order'[p])
    BY <1>1, <1>2, UntouchedStands
  <1> QED BY <1>1, <1>3

LEMMA SameStands ==
    ASSUME TypeOK, order' = order
    PROVE  \A p \in Orders : RowStands(order[p], order'[p])
  BY UntouchedStands DEF TypeOK

LEMMA MovesStand ==
    ASSUME NEW from, NEW to, CanTransition(from, to), to \in SettableStatuses, from \in Cooked
    PROVE  /\ from # "SERVED"
           /\ to \in Cooked \/ (from \in KitchenQueue /\ to = "CANCELLED")
  BY DEF CanTransition, ALLOWED_TRANSITIONS, Cooked, KitchenQueue, SettableStatuses,
         TerminalStatuses

LEMMA ProceedStands ==
    ASSUME BInv, NEW h \in Handlers, Proceed(h)
    PROVE  \A p \in Orders : RowStands(order[p], order'[p])
  <1>0. PICK o, r : o = request[h].o /\ r = request[h]
    OBVIOUS
  <1>t. TypeOK /\ Current(r) /\ Sound(r)
    BY <1>0 DEF BInv, IInv, InFlightSound
  <1>o. ~IsIdle(h) => o \in Orders /\ order[o] \in OrderRow
    BY <1>0, <1>t, RequestKinds DEF TypeOK
  <1>1. CASE CommitPlace(h)
    <2>1. Update(o, r.row) /\ r.op = "place" /\ ~IsIdle(h)
      BY <1>0, <1>1 DEF CommitPlace, Doing, IsIdle
    <2>2. order[o].status = "UNPLACED"
      BY <1>0, <1>t, <2>1 DEF Sound, PlacingSound, Placed
    <2>3. RowStands(order[o], r.row)
      BY <2>2 DEF RowStands, Cooked, KitchenQueue
    <2> QED BY <1>o, <1>t, <2>1, <2>3, UpdateStands
  <1>2. CASE ReadVoid(h) \/ CountOpen(h) \/ ReadBook(h) \/ ReadRelease(h) \/ Abort(h)
    <2>1. order' = order
      BY <1>2 DEF ReadVoid, CountOpen, ReadBook, ReadRelease, Abort
    <2> QED BY <1>t, <2>1, SameStands
  <1>3. CASE CommitStatus(h)
    <2> DEFINE row == [order[o] EXCEPT !.status    = r.next,
                            !.handledBy = IF r.first THEN r.actor ELSE order[o].handledBy]
    <2>1. Update(o, row) /\ r.op = "counted" /\ ~IsIdle(h)
      BY <1>0, <1>3 DEF CommitStatus, Doing, IsIdle
    <2>2. row.total = order[o].total /\ row.status = r.next /\ order[o].total \in Nat
      BY <1>o, <2>1 DEF OrderRow
    <2>3. order[o].status = r.seen
      BY <1>0, <1>t, <2>1 DEF Current
    <2>4. CanTransition(r.seen, r.next) /\ r.next \in SettableStatuses
      BY <1>t, <2>1 DEF Sound, StatusSound
    <2> HIDE DEF row
    <2>5. order[o].status \in Cooked =>
            /\ order[o].status # "SERVED"
            /\ row.status \in Cooked \/ (order[o].status \in KitchenQueue /\ row.status = "CANCELLED")
      BY <2>2, <2>3, <2>4, MovesStand
    <2>6. row.total >= order[o].total /\ "SERVED" \in Cooked
      BY <2>2 DEF Cooked
    <2>7. RowStands(order[o], row)
      BY <2>5, <2>6 DEF RowStands
    <2> QED BY <1>o, <1>t, <2>1, <2>7, UpdateStands
  <1>4. CASE CommitApprove(h)
    <2> DEFINE row == [order[o] EXCEPT !.status = r.next, !.approvedBy = r.actor]
    <2>1. Update(o, row) /\ r.op = "approve" /\ ~IsIdle(h)
      BY <1>0, <1>4 DEF CommitApprove, Doing, IsIdle
    <2>2. order[o].status = "NEEDS_APPROVAL"
      BY <1>0, <1>t, <2>1 DEF Current
    <2> HIDE DEF row
    <2>3. RowStands(order[o], row)
      BY <2>2 DEF RowStands, Cooked, KitchenQueue
    <2> QED BY <1>o, <1>t, <2>1, <2>3, UpdateStands
  <1>5. CASE CommitAdd(h)
    <2> DEFINE row == [order[o] EXCEPT !.total = r.total, !.lines = order[o].lines + r.extra]
    <2>1. Update(o, row) /\ r.op = "add" /\ ~IsIdle(h)
      BY <1>0, <1>5 DEF CommitAdd, Doing, IsIdle
    <2>2. /\ row.total = r.total /\ row.lines = order[o].lines + r.extra
          /\ row.status = order[o].status /\ order[o].lines \in Nat
      BY <1>o, <2>1 DEF OrderRow
    <2>3. r.extra \in Nat /\ r.total = TotalOf(order[o].lines + r.extra)
      BY <1>0, <1>t, <2>1, AmountsAssumption DEF Current
    <2>4. order[o].total = TotalOf(order[o].lines)
      <3>1. Placed(o)
        BY <1>0, <1>t, <2>1 DEF Sound
      <3> QED BY <1>o, <2>1, <3>1 DEF BInv, RowSound
    <2>5. r.total >= order[o].total
      BY <2>2, <2>3, <2>4, TotalNat, TotalMonotone
    <2> HIDE DEF row
    <2>6. row.total >= order[o].total
      BY <2>2, <2>5
    <2>7. row.lines >= order[o].lines
      BY <2>2, <2>3
    <2>8. RowStands(order[o], row)
      BY <2>2, <2>6, <2>7 DEF RowStands
    <2> QED BY <1>o, <1>t, <2>1, <2>8, UpdateStands
  \* a write that is about the money
  <1>m. ASSUME ~IsIdle(h), NEW row, Update(o, row), row.total = order[o].total,
               row.lines = order[o].lines,
               order[o].status # "AWAITING_ADVANCE_PAYMENT" => row.status = order[o].status
        PROVE  \A p \in Orders : RowStands(order[p], order'[p])
    <2>1. order[o].total \in Nat /\ order[o].lines \in Nat
      BY <1>o, <1>m DEF OrderRow
    <2>2. row.total >= order[o].total /\ row.lines >= order[o].lines
      BY <1>m, <2>1
    <2>3. "AWAITING_ADVANCE_PAYMENT" \notin Cooked /\ "SERVED" \in Cooked
      BY DEF Cooked, KitchenQueue
    <2>4. order[o].status \in Cooked => row.status = order[o].status
      BY <1>m, <2>3
    <2>5. RowStands(order[o], row)
      BY <2>2, <2>3, <2>4 DEF RowStands
    <2> QED BY <1>o, <1>t, <1>m, <2>5, UpdateStands
  <1>6. CASE CommitBook(h)
    <2> DEFINE row == [ Booked(order[o], r.amount) EXCEPT
                !.payment = IF r.settles THEN "PAID" ELSE order[o].payment,
                !.status  = IF r.releases THEN "PENDING" ELSE order[o].status ]
    <2>1. Update(o, row) /\ ~IsIdle(h) /\ r.op = "release"
      BY <1>0, <1>6 DEF CommitBook, Doing, IsIdle
    <2>2. /\ row.total = order[o].total /\ row.lines = order[o].lines
          /\ row.status = IF r.releases THEN "PENDING" ELSE order[o].status
      BY <1>o, <2>1 DEF OrderRow, Booked
    <2>3. r.releases => order[o].status = "AWAITING_ADVANCE_PAYMENT"
      BY <1>0, <1>t, <2>1 DEF Current
    <2> HIDE DEF row
    <2> QED BY <1>m, <2>1, <2>2, <2>3
  <1>7. CASE CommitSettle(h)
    <2> DEFINE booked == IF r.payment = "PAID" THEN Booked(order[o], r.amount) ELSE order[o]
               row == [booked EXCEPT !.payment = r.payment]
    <2>1. Update(o, row) /\ ~IsIdle(h)
      BY <1>0, <1>7 DEF CommitSettle, Doing, IsIdle
    <2>2. /\ row.total = order[o].total /\ row.lines = order[o].lines
          /\ row.status = order[o].status
      BY <1>o, <2>1 DEF OrderRow, Booked
    <2> HIDE DEF row
    <2> QED BY <1>m, <2>1, <2>2
  <1>8. CASE CommitRefund(h)
    <2> DEFINE left == Without(order[o].receipts, r.gone)
               row == [order[o] EXCEPT !.receipts = left, !.collected = SumOf(left),
                                       !.payment = IF r.closes THEN "REFUNDED"
                                                   ELSE order[o].payment ]
    <2>1. Update(o, row) /\ ~IsIdle(h)
      BY <1>0, <1>8 DEF CommitRefund, Doing, IsIdle
    <2>2. /\ row.total = order[o].total /\ row.lines = order[o].lines
          /\ row.status = order[o].status
      BY <1>o, <2>1 DEF OrderRow
    <2> HIDE DEF row
    <2> QED BY <1>m, <2>1, <2>2
  <1> QED BY <1>1, <1>2, <1>3, <1>4, <1>5, <1>6, <1>7, <1>8 DEF Proceed

LEMMA StepStands ==
    ASSUME BInv, [Next]_vars
    PROVE  \A p \in Orders : RowStands(order[p], order'[p])
  <1>t. TypeOK
    BY DEF BInv, IInv
  <1>1. ASSUME NEW h \in Handlers, Guest(h) \/ Staffed(h) PROVE order' = order
    BY <1>1 DEF Guest, Staffed, ReadPlace, CheckVoid, InitiateOnline, ReadUpdate, ReadApprove,
                ReadAdd, CheckCashAdvance, CheckCashPayment, ReadSettle, ReadRefund,
                ReadSettleRefund
  <1>2. ASSUME NEW p \in Orders, WindowPasses(p)
        PROVE  \A o \in Orders : RowStands(order[o], order'[o])
    <2> DEFINE row == [order[p] EXCEPT !.recent = FALSE]
    <2>1. Update(p, row)
      BY <1>2 DEF WindowPasses, Update
    <2>2. /\ row \in OrderRow /\ row.status = order[p].status /\ row.total = order[p].total
          /\ row.lines = order[p].lines
      BY <1>t DEF TypeOK, OrderRow
    <2> HIDE DEF row
    <2>3. RowStands(order[p], row)
      BY <1>t, <2>2, UntouchedStands
    <2> QED BY <1>t, <2>1, <2>3, UpdateStands
  <1>3. CASE Environment
    <2>1. order' = order \/ \E p \in Orders : WindowPasses(p)
      BY <1>3 DEF Environment, SetTableActive, SetAccepting
    <2> QED BY <1>2, <1>t, <2>1, SameStands
  <1>4. CASE UNCHANGED vars
    <2>1. order' = order
      BY <1>4 DEF vars
    <2> QED BY <1>t, <2>1, SameStands
  <1>5. ASSUME NEW h \in Handlers, Guest(h) \/ Staffed(h)
        PROVE  \A o \in Orders : RowStands(order[o], order'[o])
    BY <1>1, <1>5, <1>t, SameStands
  <1> QED BY <1>3, <1>4, <1>5, ProceedStands DEF Next

LEMMA AddUpLater == ASSUME TypeOK' PROVE (\E u : Tallied(u))' /\ (\E u : Listed(u))'
  <1>1. (\E u : Tallied(u))'
    BY TotalsAddUp, PTL
  <1>2. (\E u : Listed(u))'
    BY LinesAddUp, PTL
  <1> QED BY <1>1, <1>2

\* A sum over fewer orders, of less, is less.
LEMMA TotalsCompare ==
    ASSUME TypeOK, TypeOK', NEW S \in SUBSET Orders, NEW T \in SUBSET Orders,
           \A o \in S : o \in T /\ order[o].total <= order'[o].total
    PROVE  TotalOver(S) <= TotalOver(T)'
  <1>1. PICK w : Tallied(w)
    BY TotalsAddUp
  <1>2. (\E u : Tallied(u))'
    BY AddUpLater
  <1>3. PICK v : Tallied(v)'
    BY <1>2
  <1>4. TotalOver(S) = w[S] /\ Sums(Totals, w, Orders)
    BY <1>1 DEF Tallied
  <1>5. TotalOver(T)' = v[T] /\ Sums(Totals', v, Orders)
    BY <1>3 DEF Tallied, Sums
  <1>6. (\A o \in Orders : /\ Totals[o] = order[o].total /\ Totals[o] \in Nat
                           /\ Lines[o] = order[o].lines /\ Lines[o] \in Nat)'
    BY AmountsNat, PTL
  <1>7. \A o \in Orders : Totals[o] = order[o].total /\ Totals[o] \in Nat
    BY AmountsNat
  <1>8. w[S] <= v[T]
    <2>0. PICK f, g : f = Totals /\ g = Totals'
      OBVIOUS
    <2>1. Pair(f, g, w, v, Orders)
      BY <1>4, <1>5, <1>6, <1>7, <2>0 DEF Pair
    <2>2. Below(f, g, S, T)
      BY <1>6, <1>7, <2>0 DEF Below
    <2> QED BY <2>1, <2>2, OrdersAssumption, SumsCompare
  <1>9. TotalOver(S) = w[S]
    BY <1>4
  <1>10. TotalOver(T)' = v[T]
    BY <1>5
  <1> QED BY <1>8, <1>9, <1>10

LEMMA LinesCompare ==
    ASSUME TypeOK, TypeOK', NEW S \in SUBSET Orders, NEW T \in SUBSET Orders,
           \A o \in S : o \in T /\ order[o].lines <= order'[o].lines
    PROVE  LinesOver(S) <= LinesOver(T)'
  <1>1. PICK w : Listed(w)
    BY LinesAddUp
  <1>2. (\E u : Listed(u))'
    BY AddUpLater
  <1>3. PICK v : Listed(v)'
    BY <1>2
  <1>4. LinesOver(S) = w[S] /\ Sums(Lines, w, Orders)
    BY <1>1 DEF Listed
  <1>5. LinesOver(T)' = v[T] /\ Sums(Lines', v, Orders)
    BY <1>3 DEF Listed, Sums
  <1>6. (\A o \in Orders : /\ Totals[o] = order[o].total /\ Totals[o] \in Nat
                           /\ Lines[o] = order[o].lines /\ Lines[o] \in Nat)'
    BY AmountsNat, PTL
  <1>7. \A o \in Orders : Lines[o] = order[o].lines /\ Lines[o] \in Nat
    BY AmountsNat
  <1>8. w[S] <= v[T]
    <2>0. PICK f, g : f = Lines /\ g = Lines'
      OBVIOUS
    <2>1. Pair(f, g, w, v, Orders)
      BY <1>4, <1>5, <1>6, <1>7, <2>0 DEF Pair
    <2>2. Below(f, g, S, T)
      BY <1>6, <1>7, <2>0 DEF Below
    <2> QED BY <2>1, <2>2, OrdersAssumption, SumsCompare
  <1>9. LinesOver(S) = w[S]
    BY <1>4
  <1>10. LinesOver(T)' = v[T]
    BY <1>5
  <1> QED BY <1>8, <1>9, <1>10

LEMMA SumsNat ==
    TypeOK => \A P \in SUBSET Orders : TotalOver(P) \in Nat /\ LinesOver(P) \in Nat
  <1>1. TypeOK => \A P \in SUBSET Orders : TotalOver(P) \in Nat
    BY TotalsAddUp DEF Tallied, Sums
  <1>2. TypeOK => \A P \in SUBSET Orders : LinesOver(P) \in Nat
    BY LinesAddUp DEF Listed, Sums
  <1> QED BY <1>1, <1>2

LEMMA RevenueIsCooked ==
    TypeOK => \A o \in Orders : o \in Revenue <=> order[o].status \in Cooked
  BY DEF TypeOK, OrderRow, Revenue, Cooked, OrderStatuses, HELD_STATUSES, KitchenQueue,
         TerminalStatuses

\* A day's takings fall only by a cancellation.
LEMMA DayStands ==
    ASSUME TypeOK, TypeOK', \A o \in Orders : RowStands(order[o], order'[o]),
           \A o \in Orders : ~(order[o].status \in KitchenQueue /\ order'[o].status = "CANCELLED"),
           NEW c \in Clocks, NEW d \in Days
    PROVE  ~(TotalOver(SalesReport(c)[d])' < TotalOver(SalesReport(c)[d]))
  <1>1. (\A o \in Orders : o \in Revenue <=> order[o].status \in Cooked)'
    BY RevenueIsCooked, PTL
  <1>2. \A o \in Orders : o \in Revenue <=> order[o].status \in Cooked
    BY RevenueIsCooked
  <1>3. PICK S, T : S = OnDay(c, Revenue, d) /\ T = OnDay(c, Revenue, d)'
    OBVIOUS
  <1>4. /\ S = { o \in Revenue : TradingDayKey(c.placedAt[o]) = d }
        /\ T = { o \in Revenue' : TradingDayKey(c.placedAt[o]) = d }
    BY <1>3 DEF OnDay
  <1>5. S \in SUBSET Orders /\ T \in SUBSET Orders
    BY <1>4 DEF Revenue
  <1>6. \A o \in S : o \in T /\ order[o].total <= order'[o].total
    <2> SUFFICES ASSUME NEW o \in S PROVE o \in T /\ order[o].total <= order'[o].total
      OBVIOUS
    <2>1. o \in Orders /\ o \in Revenue /\ TradingDayKey(c.placedAt[o]) = d
      BY <1>4, <1>5
    <2>2. order'[o].status \in Cooked /\ order'[o].total >= order[o].total
      BY <1>2, <2>1 DEF RowStands
    <2>3. order[o].total \in Nat /\ order'[o].total \in Nat
      BY <2>1 DEF TypeOK, OrderRow
    <2> QED BY <1>1, <1>4, <2>1, <2>2, <2>3
  <1>7. TotalOver(S) <= TotalOver(T)'
    BY <1>5, <1>6, TotalsCompare
  <1>8. TotalOver(S) \in Nat /\ TotalOver(T)' \in Nat
    <2>1. (\A P \in SUBSET Orders : TotalOver(P) \in Nat /\ LinesOver(P) \in Nat)'
      BY SumsNat, PTL
    <2> QED BY <1>5, <2>1, SumsNat
  <1>9. TotalOver(SalesReport(c)[d]) = TotalOver(S)
    BY <1>3 DEF SalesReport
  <1>10. TotalOver(SalesReport(c)[d])' = TotalOver(T)'
    <2>1. SalesReport(c)'[d] = T
      BY <1>3 DEF SalesReport
    <2> QED BY <2>1
  <1> QED BY <1>7, <1>8, <1>9, <1>10

LEMMA SoldStands ==
    ASSUME TypeOK, TypeOK', \A o \in Orders : RowStands(order[o], order'[o])
    PROVE  DishSales("completed")' >= DishSales("completed")
  <1>1. \A o \in Orders : (o \in Sold <=> order[o].status = "SERVED")
    BY DEF Sold, Revenue, HELD_STATUSES
  <1>2. \A o \in Orders : (o \in Sold' <=> order'[o].status = "SERVED")
    BY DEF Sold, Revenue, HELD_STATUSES
  <1>3. PICK S, T : S = Sold /\ T = Sold'
    OBVIOUS
  <1>4. S \in SUBSET Orders /\ T \in SUBSET Orders
    BY <1>3 DEF Sold, Revenue
  <1>5. \A o \in S : o \in T /\ order[o].lines <= order'[o].lines
    <2> SUFFICES ASSUME NEW o \in S PROVE o \in T /\ order[o].lines <= order'[o].lines
      OBVIOUS
    <2>1. o \in Orders /\ order[o].status = "SERVED"
      BY <1>1, <1>3, <1>4
    <2>2. order'[o].status = "SERVED" /\ order'[o].lines >= order[o].lines
      BY <2>1 DEF RowStands
    <2>3. order[o].lines \in Nat /\ order'[o].lines \in Nat
      BY <2>1 DEF TypeOK, OrderRow
    <2> QED BY <1>2, <1>3, <2>1, <2>2, <2>3
  <1>6. LinesOver(S) <= LinesOver(T)'
    BY <1>4, <1>5, LinesCompare
  <1>7. LinesOver(S) \in Nat /\ LinesOver(T)' \in Nat
    <2>1. (\A P \in SUBSET Orders : TotalOver(P) \in Nat /\ LinesOver(P) \in Nat)'
      BY SumsNat, PTL
    <2> QED BY <1>4, <2>1, SumsNat
  <1>8. DishSales("completed") = LinesOver(S)
    BY <1>3 DEF DishSales
  <1>9. DishSales("completed")' = LinesOver(T)'
    BY <1>3 DEF DishSales
  <1> QED BY <1>6, <1>7, <1>8, <1>9

\* Served one at a time, a request lowers a day's takings only by cancelling an order the
\* kitchen had been told about, and never what was sold to the end (report.service.ts).
THEOREM TakingsNeverFall == OneByOne => (Spec => TakingsStand)
  <1> SUFFICES ASSUME OneByOne PROVE Spec => TakingsStand
    OBVIOUS
  <1> DEFINE Stand ==
        /\ \A c \in LastClocks, d \in Days :
             TotalOver(SalesReport(c)[d])' < TotalOver(SalesReport(c)[d])
             => \E o \in Orders : order[o].status \in KitchenQueue
                                  /\ order'[o].status = "CANCELLED"
        /\ DishSales("completed")' >= DishSales("completed")
  <1>1. BInv /\ [Next]_vars => Stand
    <2> SUFFICES ASSUME BInv, [Next]_vars PROVE Stand
      OBVIOUS
    <2>1. TypeOK /\ TypeOK'
      BY TypeStep DEF BInv, IInv
    <2>2. \A o \in Orders : RowStands(order[o], order'[o])
      BY StepStands
    <2>3. ASSUME NEW c \in LastClocks, NEW d \in Days,
                 TotalOver(SalesReport(c)[d])' < TotalOver(SalesReport(c)[d])
          PROVE  \E o \in Orders : order[o].status \in KitchenQueue
                                   /\ order'[o].status = "CANCELLED"
      BY <2>1, <2>2, <2>3, DayStands DEF LastClocks
    <2> QED BY <2>1, <2>2, <2>3, SoldStands
  <1>2. BInv /\ [Next]_vars => [Stand]_vars
    BY <1>1
  <1> HIDE DEF Stand
  <1>3. Spec => [][Stand]_vars
    BY <1>2, BillsStand, PTL DEF Spec
  <1> QED BY <1>3 DEF TakingsStand, Stand
=============================================================================
