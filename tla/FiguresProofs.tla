---------------------------- MODULE FiguresProofs ---------------------------
(***************************************************************************)
(* The pages' figures agree (Figures), for any sales, payouts and counts.  *)
(* All of them are sums over the same rows, split by day, barber, method   *)
(* or hour, so that most of it is one lemma: a sum is the sum of its       *)
(* parts.                                                                  *)
(***************************************************************************)
EXTENDS Insights, Story, Sums

Part(T, k, i) == {x \in T : k[x] = i}

(* One element taken out; nothing left; whatever else the function is defined for. *)
LEMMA SubFacts ==
  ASSUME NEW S, IsFiniteSet(S), NEW g \in [S -> Nat]
  PROVE  /\ \A T \in SUBSET S : Sub(g, T) \in Nat
         /\ Sub(g, {}) = 0
         /\ \A T \in SUBSET S : \A x \in T : Sub(g, T) = g[x] + Sub(g, T \ {x})
         /\ Sub(g, S) = SumOf(g) /\ SumOf(g) \in Nat
<1>1. PICK h : IsSum(h, g, S)
  BY SumExists
<1>2. \A T \in SUBSET S : Sub(g, T) = h[T] /\ Sub(g, T) \in Nat
  BY <1>1, SubIsSum
<1>3. \A T \in SUBSET S : \A x \in T : h[T] = g[x] + h[T \ {x}] /\ T \ {x} \in SUBSET S
  BY <1>1 DEF IsSum
<1>4. h[{}] = 0 /\ {} \in SUBSET S /\ S \in SUBSET S
  BY <1>1 DEF IsSum
<1>5. [x \in S |-> g[x]] = g
  OBVIOUS
<1>6. Sub(g, S) = SumOf(g)
  BY <1>5 DEF Sub
<1> QED BY <1>2, <1>3, <1>4, <1>6

(* Two functions with the same values on a set. *)
LEMMA SubSame ==
  ASSUME NEW T, NEW f, NEW g, \A x \in T : f[x] = g[x]
  PROVE  Sub(f, T) = Sub(g, T)
<1>1. [x \in T |-> f[x]] = [x \in T |-> g[x]]
  OBVIOUS
<1> QED BY <1>1 DEF Sub

(* Elements that add nothing may be left out. *)
LEMMA SubOfZeros ==
  ASSUME NEW S, IsFiniteSet(S), NEW g \in [S -> Nat], NEW T \in SUBSET S, \A x \in S \ T : g[x] = 0
  PROVE  Sub(g, S) = Sub(g, T)
<1> DEFINE B == {s \in SUBSET S : T \subseteq s /\ Sub(g, s) # Sub(g, T)}
<1> SUFFICES ASSUME B # {} PROVE FALSE
  OBVIOUS
<1>1. B \subseteq SUBSET S
  OBVIOUS
<1>2. PICK s \in B : \A V \in B : V \subseteq s => V = s
  <2> HIDE DEF B
  <2> QED BY <1>1, SmallestSet
<1>3. PICK x \in s : x \notin T
  <2>1. T \subseteq s /\ s # T
    BY <1>2
  <2> QED BY <2>1
<1>4. Sub(g, s) = g[x] + Sub(g, s \ {x}) /\ Sub(g, s \ {x}) \in Nat
  BY <1>2, SubFacts
<1>5. Sub(g, s \ {x}) = Sub(g, T)
  <2>1. s \ {x} \notin B
    <3>1. s \ {x} \subseteq s /\ s \ {x} # s
      BY <1>3
    <3> HIDE DEF B
    <3> QED BY <1>2, <3>1
  <2>2. s \ {x} \in SUBSET S /\ T \subseteq s \ {x}
    BY <1>2, <1>3
  <2> QED BY <2>1, <2>2
<1>6. g[x] = 0
  BY <1>2, <1>3
<1> QED BY <1>2, <1>4, <1>5, <1>6

(* A sum is the sum of its parts. *)
LEMMA SumOfParts ==
  ASSUME NEW S, IsFiniteSet(S), NEW g \in [S -> Nat], NEW T \in SUBSET S,
         NEW I, IsFiniteSet(I), NEW k, \A x \in T : k[x] \in I
  PROVE  Sub(g, T) = SumOf([i \in I |-> Sub(g, Part(T, k, i))])
<1> DEFINE Parts(s) == [i \in I |-> Sub(g, Part(s, k, i))]
           B == {s \in SUBSET T : Sub(g, s) # SumOf(Parts(s))}
<1> SUFFICES ASSUME B # {} PROVE FALSE
  OBVIOUS
<1>1. B \subseteq SUBSET T /\ IsFiniteSet(T)
  BY FS_Subset
<1>2. PICK s \in B : \A V \in B : V \subseteq s => V = s
  <2> HIDE DEF B
  <2> QED BY <1>1, SmallestSet
<1>3. ASSUME NEW u \in SUBSET T PROVE Parts(u) \in [I -> Nat]
  <2>1. \A i \in I : Part(u, k, i) \in SUBSET S
    BY DEF Part
  <2> QED BY <2>1, SubFacts
<1>4. CASE s = {}
  <2>1. Sub(g, s) = 0
    BY <1>4, SubFacts
  <2>2. \A i \in I : Part(s, k, i) = {}
    BY <1>4 DEF Part
  <2>3. Parts(s) \in [I -> Nat] /\ \A i \in I \ {} : Parts(s)[i] = 0
    BY <1>2, <1>3, <2>2, SubFacts
  <2>4. {} \in SUBSET I
    OBVIOUS
  <2> HIDE DEF Parts
  <2>5. Sub(Parts(s), I) = Sub(Parts(s), {}) /\ Sub(Parts(s), {}) = 0 /\ Sub(Parts(s), I) = SumOf(Parts(s))
    BY <2>3, <2>4, SubOfZeros, SubFacts
  <2> QED BY <1>2, <2>1, <2>5
<1>5. CASE s # {}
  <2>1. PICK x \in s : TRUE
    BY <1>5
  <2> DEFINE u == s \ {x}
             at == k[x]
  <2>2. s \in SUBSET T /\ u \in SUBSET T /\ at \in I /\ u \in SUBSET S /\ s \in SUBSET S
    BY <1>2
  <2>3. Sub(g, u) = SumOf(Parts(u))
    <3>1. u \notin B
      <4>1. u \subseteq s /\ u # s
        BY <2>1
      <4> HIDE DEF B, u
      <4> QED BY <1>2, <4>1
    <3> HIDE DEF Parts, u
    <3> QED BY <2>2, <3>1
  <2>0. \A t \in SUBSET S : \A y \in t : Sub(g, t) = g[y] + Sub(g, t \ {y})
    BY SubFacts
  <2>4. Sub(g, s) = g[x] + Sub(g, u) /\ g[x] \in Nat
    <3>1. x \in S
      BY <2>1, <2>2
    <3> QED BY <2>1, <2>2, <2>0, <3>1
  <2>5. Part(s, k, at) \in SUBSET S /\ x \in Part(s, k, at) /\ Part(s, k, at) \ {x} = Part(u, k, at)
    BY <2>2 DEF Part
  <2>6. Sub(g, Part(s, k, at)) = g[x] + Sub(g, Part(u, k, at))
    <3> HIDE DEF at, u
    <3> QED BY <2>5, <2>0
  <2>7. \A i \in I \ {at} : Part(s, k, i) = Part(u, k, i)
    BY DEF Part
  <2> DEFINE F == Parts(s)
             G == Parts(u)
  <2>8. F \in [I -> Nat] /\ G \in [I -> Nat]
    BY <1>3, <2>2
  <2>9. F[at] = g[x] + G[at] /\ \A i \in I \ {at} : F[i] = G[i]
    BY <2>2, <2>6, <2>7
  <2> HIDE DEF F, G, Parts, u, at
  <2>10. I \in SUBSET I /\ I \ {at} \in SUBSET I
    OBVIOUS
  <2>11. SumOf(F) = F[at] + Sub(F, I \ {at}) /\ SumOf(G) = G[at] + Sub(G, I \ {at})
         /\ Sub(G, I \ {at}) \in Nat /\ G[at] \in Nat
    BY <2>2, <2>8, <2>10, SubFacts
  <2>12. Sub(F, I \ {at}) = Sub(G, I \ {at})
    BY <2>9, SubSame
  <2>13. SumOf(F) = g[x] + SumOf(G)
    BY <2>4, <2>9, <2>11, <2>12
  <2> QED BY <1>2, <2>3, <2>4, <2>13 DEF F, G
<1> QED BY <1>4, <1>5

(* Terms added one by one. *)
LEMMA SumOfPairs ==
  ASSUME NEW I, IsFiniteSet(I), NEW f \in [I -> Nat], NEW g \in [I -> Nat]
  PROVE  SumOf([i \in I |-> f[i] + g[i]]) = SumOf(f) + SumOf(g)
<1> DEFINE e == [i \in I |-> f[i] + g[i]]
           B == {s \in SUBSET I : Sub(e, s) # Sub(f, s) + Sub(g, s)}
<1>1. e \in [I -> Nat] /\ \A i \in I : e[i] = f[i] + g[i] /\ f[i] \in Nat /\ g[i] \in Nat
  OBVIOUS
<1> HIDE DEF e
<1>2. B = {}
  <2> SUFFICES ASSUME B # {} PROVE FALSE
    OBVIOUS
  <2>1. B \subseteq SUBSET I
    OBVIOUS
  <2>2. PICK s \in B : \A V \in B : V \subseteq s => V = s
    <3> HIDE DEF B
    <3> QED BY <2>1, SmallestSet
  <2>3. s # {}
    <3>1. \A d \in [I -> Nat] : Sub(d, {}) = 0
      BY SubFacts
    <3>2. Sub(e, {}) = Sub(f, {}) + Sub(g, {})
      BY <1>1, <3>1
    <3> QED BY <2>2, <3>2
  <2>4. PICK x \in s : TRUE
    BY <2>3
  <2>5. Sub(e, s) = e[x] + Sub(e, s \ {x}) /\ Sub(f, s) = f[x] + Sub(f, s \ {x})
        /\ Sub(g, s) = g[x] + Sub(g, s \ {x})
        /\ Sub(f, s \ {x}) \in Nat /\ Sub(g, s \ {x}) \in Nat
    <3>1. s \in SUBSET I /\ s \ {x} \in SUBSET I
      BY <2>2
    <3> HIDE DEF B
    <3>2. \A d \in [I -> Nat] : Sub(d, s) = d[x] + Sub(d, s \ {x}) /\ Sub(d, s \ {x}) \in Nat
      BY <2>4, <3>1, SubFacts
    <3> QED BY <1>1, <3>2
  <2>6. Sub(e, s \ {x}) = Sub(f, s \ {x}) + Sub(g, s \ {x})
    BY <2>2
  <2> QED BY <1>1, <2>2, <2>4, <2>5, <2>6
<1>3. Sub(e, I) = Sub(f, I) + Sub(g, I)
  BY <1>2
<1> QED BY <1>1, <1>3, SubFacts DEF e

(* Elements without one in common. *)
LEMMA SumOfUnion ==
  ASSUME NEW S, IsFiniteSet(S), NEW g \in [S -> Nat], NEW T \in SUBSET S, NEW U \in SUBSET S, T \cap U = {}
  PROVE  Sub(g, T \cup U) = Sub(g, T) + Sub(g, U)
<1> DEFINE B == {s \in SUBSET U : Sub(g, T \cup s) # Sub(g, T) + Sub(g, s)}
<1>1. B = {}
  <2> SUFFICES ASSUME B # {} PROVE FALSE
    OBVIOUS
  <2>1. B \subseteq SUBSET U /\ IsFiniteSet(U)
    BY FS_Subset
  <2>2. PICK s \in B : \A V \in B : V \subseteq s => V = s
    <3> HIDE DEF B
    <3> QED BY <2>1, SmallestSet
  <2>3. Sub(g, {}) = 0 /\ Sub(g, T) \in Nat
        /\ \A t \in SUBSET S : Sub(g, t) \in Nat /\ \A y \in t : Sub(g, t) = g[y] + Sub(g, t \ {y})
    BY SubFacts
  <2>4. s # {}
    <3>1. T \cup {} = T
      OBVIOUS
    <3>2. Sub(g, T \cup {}) = Sub(g, T) + Sub(g, {})
      BY <2>3, <3>1
    <3> QED BY <2>2, <3>2
  <2>5. PICK x \in s : TRUE
    BY <2>4
  <2>6. /\ s \in SUBSET S /\ s \ {x} \in SUBSET S /\ s \ {x} \in SUBSET U
        /\ T \cup s \in SUBSET S /\ x \in T \cup s /\ (T \cup s) \ {x} = T \cup (s \ {x})
        /\ T \cup (s \ {x}) \in SUBSET S /\ x \in S
    BY <2>1, <2>2, <2>5
  <2>7. Sub(g, T \cup (s \ {x})) = Sub(g, T) + Sub(g, s \ {x})
    <3>1. s \ {x} \notin B
      <4>1. s \ {x} \subseteq s /\ s \ {x} # s
        BY <2>5
      <4> HIDE DEF B
      <4> QED BY <2>2, <4>1
    <3> QED BY <2>6, <3>1
  <2> HIDE DEF B
  <2>8. Sub(g, T \cup s) = g[x] + Sub(g, T \cup (s \ {x})) /\ Sub(g, s) = g[x] + Sub(g, s \ {x})
        /\ Sub(g, s \ {x}) \in Nat /\ g[x] \in Nat
    BY <2>3, <2>5, <2>6
  <2>9. Sub(g, T \cup s) = Sub(g, T) + Sub(g, s)
    BY <2>3, <2>7, <2>8
  <2> QED BY <2>2, <2>9 DEF B
<1> QED BY <1>1

(* Counting is adding ones. *)
LEMMA CountIsSum ==
  ASSUME NEW S, IsFiniteSet(S), NEW T \in SUBSET S
  PROVE  Cardinality(T) = Sub([x \in S |-> 1], T)
<1> DEFINE h == [s \in SUBSET S |-> Cardinality(s)]
           g == [x \in S |-> 1]
<1>1. \A s \in SUBSET S : IsFiniteSet(s) /\ Cardinality(s) \in Nat
  BY FS_Subset, FS_CardinalityType
<1>2. ASSUME NEW s \in SUBSET S, NEW x \in s PROVE h[s] = g[x] + h[s \ {x}]
  <2>1. IsFiniteSet(s)
    BY <1>1
  <2>2. Cardinality(s \ {x}) = Cardinality(s) - 1
    BY ONLY <1>2, <2>1, FS_RemoveElement
  <2>3. s \ {x} \in SUBSET S /\ Cardinality(s) \in Nat /\ x \in S
    BY <1>1
  <2> QED BY <2>2, <2>3
<1>3. h[{}] = 0
  BY FS_EmptySet
<1>4. h \in [SUBSET S -> Nat]
  BY <1>1
<1>5. g \in [S -> Nat]
  OBVIOUS
<1> HIDE DEF h, g
<1>6. IsSum(h, g, S)
  BY <1>2, <1>3, <1>4 DEF IsSum
<1>7. Sub(g, T) = h[T]
  BY <1>5, <1>6, SubIsSum
<1> QED BY <1>7 DEF h, g

(* What is left over all is at most what is left of each, and the same unless one was
   paid too much. *)
LEMMA LeftOverall ==
  ASSUME NEW I, IsFiniteSet(I), NEW e \in [I -> Nat], NEW p \in [I -> Nat],
         NEW l, l = [i \in I |-> AtLeastZero(e[i] - p[i])]
  PROVE  /\ SumOf(e) \in Nat /\ SumOf(p) \in Nat /\ SumOf(l) \in Nat
         /\ AtLeastZero(SumOf(e) - SumOf(p)) <= SumOf(l)
         /\ (\A i \in I : p[i] <= e[i]) => AtLeastZero(SumOf(e) - SumOf(p)) = SumOf(l)
<1> DEFINE o == [i \in I |-> AtLeastZero(p[i] - e[i])]
<1>1. ASSUME NEW i \in I
      PROVE  /\ l[i] \in Nat /\ o[i] \in Nat /\ e[i] + o[i] = p[i] + l[i]
             /\ p[i] <= e[i] => o[i] = 0
  <2>1. e[i] \in Nat /\ p[i] \in Nat
    OBVIOUS
  <2> QED BY <2>1 DEF AtLeastZero
<1>2. l \in [I -> Nat] /\ o \in [I -> Nat]
  BY <1>1
<1>3. [i \in I |-> e[i] + o[i]] = [i \in I |-> p[i] + l[i]]
  BY <1>1
<1> HIDE DEF o
<1>4. SumOf([i \in I |-> e[i] + o[i]]) = SumOf(e) + SumOf(o)
      /\ SumOf([i \in I |-> p[i] + l[i]]) = SumOf(p) + SumOf(l)
  BY <1>2, SumOfPairs
<1>5. SumOf(e) \in Nat /\ SumOf(p) \in Nat /\ SumOf(l) \in Nat /\ SumOf(o) \in Nat
  BY <1>2, SubFacts
<1>6. SumOf(e) + SumOf(o) = SumOf(p) + SumOf(l)
  BY <1>3, <1>4
<1>7. AtLeastZero(SumOf(e) - SumOf(p)) <= SumOf(l)
  BY <1>5, <1>6 DEF AtLeastZero
<1>8. ASSUME \A i \in I : p[i] <= e[i] PROVE AtLeastZero(SumOf(e) - SumOf(p)) = SumOf(l)
  <2>1. \A i \in I \ {} : o[i] = 0
    BY <1>1, <1>8
  <2>2. Sub(o, I) = Sub(o, {}) /\ Sub(o, {}) = 0 /\ Sub(o, I) = SumOf(o)
    <3>1. {} \in SUBSET I
      OBVIOUS
    <3>2. Sub(o, I) = Sub(o, {})
      BY <1>2, <2>1, <3>1, SubOfZeros
    <3>3. Sub(o, {}) = 0 /\ Sub(o, I) = SumOf(o)
      BY <1>2, SubFacts
    <3> QED BY <3>2, <3>3
  <2> QED BY <1>5, <1>6, <2>2 DEF AtLeastZero
<1> QED BY <1>5, <1>7, <1>8

(* A sum of one term. *)
LEMMA SumOfOne ==
  ASSUME NEW d, NEW n \in Nat
  PROVE  SumOf([x \in {d} |-> n]) = n
<1> DEFINE f == [x \in {d} |-> n]
<1>1. f \in [{d} -> Nat] /\ IsFiniteSet({d}) /\ f[d] = n
  BY FS_Singleton
<1>2. {d} \in SUBSET {d} /\ d \in {d} /\ {d} \ {d} = {}
  OBVIOUS
<1> HIDE DEF f
<1>3. SumOf(f) = Sub(f, {d}) /\ Sub(f, {}) = 0 /\ Sub(f, {d}) = f[d] + Sub(f, {d} \ {d})
  BY ONLY <1>1, <1>2, SubFacts
<1>4. SumOf(f) = n
  BY <1>1, <1>2, <1>3
<1> QED BY <1>4 DEF f

(* No greater terms, no greater sum. *)
LEMMA SumOfLess ==
  ASSUME NEW I, IsFiniteSet(I), NEW f \in [I -> Nat], NEW g \in [I -> Nat], \A i \in I : f[i] <= g[i]
  PROVE  SumOf(f) <= SumOf(g)
<1> DEFINE e == [i \in I |-> g[i] - f[i]]
<1>1. e \in [I -> Nat]
  BY Z3T(30)
<1>2. \A i \in I : f[i] + e[i] = g[i]
  OBVIOUS
<1> HIDE DEF e
<1>3. [i \in I |-> f[i] + e[i]] = g
  BY <1>2
<1>4. SumOf([i \in I |-> f[i] + e[i]]) = SumOf(f) + SumOf(e)
  BY <1>1, SumOfPairs
<1>5. SumOf(f) \in Nat /\ SumOf(e) \in Nat
  BY <1>1, SubFacts
<1> QED BY <1>3, <1>4, <1>5

-----------------------------------------------------------------------------
(* The rows. *)

(* Rows are well formed and finitely many; a barber has one payout row a day. *)
FiguresInv ==
  /\ IsFiniteSet(sold) /\ sold \subseteq StoredSale
  /\ IsFiniteSet(paidOut) /\ paidOut \subseteq StoredPayout
  /\ \A p, q \in paidOut : p.barber = q.barber /\ p.day = q.day => p = q
  /\ IsFiniteSet(counts) /\ \A c \in counts : c.petty \in Nat /\ c.revision \in Nat

(* What a row adds to the sums. *)
EachAmount == [r \in sold |-> AmountOf(r)]
EachListPrice == [r \in sold |-> ListPriceOf(r)]
EachTip == [r \in sold |-> TipOf(r)]
EachCommission == [r \in sold |-> CommissionOf(r)]
EachOne == [r \in sold |-> 1]
EachPayment == [p \in paidOut |-> PaidOutTo(p)]

(* A discount that counts in the gap to list prices. *)
DiscountOf(r) == IF r.legacy THEN 0 ELSE PriceSale(r.ticket).discount

(* Rounding a percentage. *)
LEMMA HalfUpIsNat ==
  ASSUME NEW n \in Nat
  PROVE  HalfUp(n, 100) \in Nat
BY DEF HalfUp

(* Money is never negative, and a discount is never more than the price. *)
LEMMA RowMoney ==
  ASSUME NEW r \in StoredSale
  PROVE  /\ AmountOf(r) \in Nat /\ ListPriceOf(r) \in Nat /\ TipOf(r) \in Nat
         /\ CommissionOf(r) \in Nat /\ CommissionFor(AmountOf(r)) \in Nat
         /\ DiscountOf(r) \in Nat /\ ListPriceOf(r) = AmountOf(r) + DiscountOf(r)
<1> DEFINE t == r.ticket
           list == IF t.custom > 0 THEN t.custom ELSE StandardPrice[t.service]
           isLoyalty == t.loyalty /\ t.service = LoyaltyService /\ t.custom = 0
           discount == IF isLoyalty THEN HalfUp(list * LoyaltyPercent, 100) ELSE 0
<1>1. /\ t.custom \in Nat /\ t.tip \in Nat /\ t.service \in DOMAIN StandardPrice
  BY DEF StoredSale, Ticket
<1>2. StandardPrice[t.service] \in Nat /\ Rate \in Nat
  BY <1>1, FiguresAssumption
<1>3. list \in Nat
  BY <1>1, <1>2
<1>4. PriceSale(t) = [listPrice |-> list, discount |-> discount,
                      amountPaid |-> AtLeastZero(list - discount), tip |-> t.tip]
  BY DEF PriceSale
<1> HIDE DEF list, isLoyalty
<1>5. discount \in Nat /\ discount <= list
  <2>1. HalfUp(list * LoyaltyPercent, 100) \in Nat /\ HalfUp(list * LoyaltyPercent, 100) <= list
    BY <1>3 DEF HalfUp, LoyaltyPercent
  <2> QED BY <1>3, <2>1
<1> HIDE DEF discount, t
<1>6. /\ PriceSale(t).listPrice = list /\ PriceSale(t).discount = discount
      /\ PriceSale(t).amountPaid = list - discount /\ list - discount \in Nat
  <2>1. AtLeastZero(list - discount) = list - discount /\ list - discount \in Nat
    BY <1>3, <1>5 DEF AtLeastZero
  <2> QED BY <1>4, <2>1
<1>7. /\ AmountOf(r) = list - discount /\ AmountOf(r) \in Nat
      /\ ListPriceOf(r) = (IF r.legacy THEN list - discount ELSE list)
      /\ DiscountOf(r) = (IF r.legacy THEN 0 ELSE discount)
  BY <1>6 DEF AmountOf, ListPriceOf, DiscountOf, t
<1>8. ListPriceOf(r) \in Nat /\ TipOf(r) \in Nat /\ DiscountOf(r) \in Nat
      /\ ListPriceOf(r) = AmountOf(r) + DiscountOf(r)
  BY <1>1, <1>3, <1>5, <1>7 DEF TipOf, t
<1>9. ASSUME NEW n \in Nat PROVE CommissionFor(n) \in Nat
  <2>1. n * Rate \in Nat
    BY <1>2
  <2> QED BY <2>1, HalfUpIsNat DEF CommissionFor
<1> QED BY <1>7, <1>8, <1>9 DEF CommissionOf

(* So each of the sums is one of natural numbers over a finite set. *)
LEMMA RowsAdd ==
  ASSUME FiguresInv
  PROVE  /\ IsFiniteSet(sold) /\ IsFiniteSet(paidOut)
         /\ EachAmount \in [sold -> Nat] /\ EachListPrice \in [sold -> Nat] /\ EachTip \in [sold -> Nat]
         /\ EachCommission \in [sold -> Nat] /\ EachOne \in [sold -> Nat]
         /\ EachPayment \in [paidOut -> Nat]
         /\ [r \in sold |-> DiscountOf(r)] \in [sold -> Nat]
         /\ [r \in sold |-> CommissionFor(AmountOf(r))] \in [sold -> Nat]
<1>1. \A r \in sold : /\ AmountOf(r) \in Nat /\ ListPriceOf(r) \in Nat /\ TipOf(r) \in Nat
                      /\ CommissionOf(r) \in Nat /\ CommissionFor(AmountOf(r)) \in Nat /\ DiscountOf(r) \in Nat
  BY RowMoney DEF FiguresInv
<1>2. \A p \in paidOut : PaidOutTo(p) \in Nat
  BY DEF FiguresInv, StoredPayout, PaidOutTo
<1> QED BY <1>1, <1>2 DEF FiguresInv, EachAmount, EachListPrice, EachTip, EachCommission, EachOne, EachPayment

(* The totals of some rows. *)
LEMMA TotalsAreSums ==
  ASSUME NEW T, T \in SUBSET sold
  PROVE  /\ Total(T, AmountOf) = Sub(EachAmount, T) /\ Total(T, ListPriceOf) = Sub(EachListPrice, T)
         /\ Total(T, TipOf) = Sub(EachTip, T) /\ Total(T, CommissionOf) = Sub(EachCommission, T)
<1>1. [x \in T |-> AmountOf(x)] = [x \in T |-> EachAmount[x]]
  BY DEF EachAmount
<1>2. [x \in T |-> ListPriceOf(x)] = [x \in T |-> EachListPrice[x]]
  BY DEF EachListPrice
<1>3. [x \in T |-> TipOf(x)] = [x \in T |-> EachTip[x]]
  BY DEF EachTip
<1>4. [x \in T |-> CommissionOf(x)] = [x \in T |-> EachCommission[x]]
  BY DEF EachCommission
<1> QED BY <1>1, <1>2, <1>3, <1>4 DEF Total, Sub

(* The payments of some payout rows. *)
LEMMA PaymentsAreSums ==
  ASSUME NEW T, T \in SUBSET paidOut
  PROVE  Total(T, PaidOutTo) = Sub(EachPayment, T)
<1>1. [x \in T |-> PaidOutTo(x)] = [x \in T |-> EachPayment[x]]
  BY DEF EachPayment
<1> QED BY <1>1 DEF Total, Sub

-----------------------------------------------------------------------------
(* A day and a period. *)

(* The day's revenue is what its paid sales paid, whatever the method. *)
LEMMA DayRevenue ==
  ASSUME FiguresInv, NEW d, NEW petty
  PROVE  /\ DayFigures(d, petty).revenue = Sub(EachAmount, PaidSales(d))
         /\ DayFigures(d, petty).count = Cardinality(PaidSales(d))
         /\ PaidSales(d) \in SUBSET sold
<1> DEFINE By(ms) == {r \in PaidSales(d) : r.method \in ms}
<1>1. PaidSales(d) \in SUBSET sold
  BY DEF PaidSales, OnDay
<1>2. /\ DayFigures(d, petty).revenue
           = Total(By({"CASH"}), AmountOf) + Total(By({"GCASH", "MAYA"}), AmountOf) + Total(By({"QRPH"}), AmountOf)
      /\ DayFigures(d, petty).count = Cardinality(PaidSales(d))
  BY DEF DayFigures, FiguresOf
<1>3. \A ms : By(ms) \in SUBSET sold
  BY <1>1
<1>4. \A r \in sold : r.method \in {"CASH", "GCASH", "MAYA", "QRPH"}
  BY DEF FiguresInv, StoredSale
<1>5. /\ (By({"CASH"}) \cup By({"GCASH", "MAYA"})) \cup By({"QRPH"}) = PaidSales(d)
      /\ By({"CASH"}) \cap By({"GCASH", "MAYA"}) = {}
      /\ (By({"CASH"}) \cup By({"GCASH", "MAYA"})) \cap By({"QRPH"}) = {}
  BY <1>1, <1>4
<1>6. \A ms : Total(By(ms), AmountOf) = Sub(EachAmount, By(ms))
  <2> HIDE DEF By
  <2> QED BY <1>3, TotalsAreSums
<1> HIDE DEF By
<1>7. By({"CASH"}) \cup By({"GCASH", "MAYA"}) \in SUBSET sold
  BY <1>3
<1>8. Sub(EachAmount, By({"CASH"}) \cup By({"GCASH", "MAYA"}))
        = Sub(EachAmount, By({"CASH"})) + Sub(EachAmount, By({"GCASH", "MAYA"}))
  BY <1>3, <1>5, RowsAdd, SumOfUnion
<1>9. Sub(EachAmount, PaidSales(d))
        = Sub(EachAmount, By({"CASH"}) \cup By({"GCASH", "MAYA"})) + Sub(EachAmount, By({"QRPH"}))
  BY <1>3, <1>5, <1>7, RowsAdd, SumOfUnion
<1> QED BY <1>1, <1>2, <1>6, <1>8, <1>9

(* Each day of a row's, and the rows of each day. *)
DayOfRow == [r \in sold |-> CountedDay(r)]

(* The paid sales of a period are those of its days, each on one day. *)
LEMMA DaysOfPeriod ==
  ASSUME FiguresInv, NEW d \in Nat
  PROVE  /\ PaidIn(First(d), d) \in SUBSET sold
         /\ First(d) \in Int /\ RangeTo(d) \subseteq First(d) .. d /\ RangeTo(d) \subseteq Nat
         /\ IsFiniteSet(First(d) .. d) /\ IsFiniteSet(RangeTo(d))
         /\ \A r \in PaidIn(First(d), d) : DayOfRow[r] \in RangeTo(d)
         /\ \A x \in RangeTo(d) : Part(PaidIn(First(d), d), DayOfRow, x) = PaidSales(x)
<1>1. RangeDays \in Nat \ {0} /\ First(d) \in Int
  BY FiguresAssumption DEF First
<1>2. RangeTo(d) \subseteq First(d) .. d /\ RangeTo(d) \subseteq Nat
  BY <1>1 DEF RangeTo, AtLeastZero
<1>3. IsFiniteSet(First(d) .. d)
  <2>1. d \in Int
    OBVIOUS
  <2> QED BY ONLY <1>1, <2>1, FS_Interval
<1>4. IsFiniteSet(RangeTo(d))
  BY <1>2, <1>3, FS_Subset
<1>5. ASSUME NEW r \in sold
      PROVE  /\ r.flagged \in BOOLEAN /\ r.day \in Nat /\ (r.reviewed = Unreviewed \/ r.reviewed \in Nat)
             /\ Unreviewed \notin Nat
  BY DEF FiguresInv, StoredSale, Unreviewed
<1>6. ASSUME NEW r \in sold
      PROVE  CountedIn(r, First(d), d) <=> CountedDay(r) \in RangeTo(d)
  <2>1. \A n \in Nat : n \in First(d) .. d <=> n \in RangeTo(d)
    BY <1>1 DEF RangeTo, AtLeastZero
  <2>2. Unreviewed \notin RangeTo(d)
    BY <1>2, <1>5
  <2> QED BY <1>5, <2>1, <2>2 DEF CountedIn, CountedDay
<1>7. ASSUME NEW r \in sold, NEW x \in RangeTo(d)
      PROVE  CountedOn(r, x) <=> CountedDay(r) = x
  BY DEF CountedOn, CountedDay
<1>8. PaidIn(First(d), d) \in SUBSET sold
  BY DEF PaidIn
<1>9. \A r \in PaidIn(First(d), d) : DayOfRow[r] \in RangeTo(d)
  BY <1>6 DEF PaidIn, DayOfRow
<1>10. ASSUME NEW x \in RangeTo(d) PROVE Part(PaidIn(First(d), d), DayOfRow, x) = PaidSales(x)
  <2>1. Part(PaidIn(First(d), d), DayOfRow, x)
          = {r \in sold : CountedIn(r, First(d), d) /\ r.status = "PAID" /\ CountedDay(r) = x}
    BY DEF Part, PaidIn, DayOfRow
  <2>2. PaidSales(x) = {r \in sold : CountedOn(r, x) /\ r.status = "PAID"}
    BY DEF PaidSales, OnDay
  <2>3. \A r \in sold : CountedOn(r, x) <=> CountedIn(r, First(d), d) /\ CountedDay(r) = x
    BY <1>6, <1>7
  <2> QED BY <2>1, <2>2, <2>3
<1> QED BY <1>1, <1>2, <1>3, <1>4, <1>8, <1>9, <1>10

(* So what a period's sales add up to is the sum over its days, on a range with or without
   the days before the first. *)
LEMMA SumOfDays ==
  ASSUME FiguresInv, NEW d \in Nat, NEW g \in [sold -> Nat]
  PROVE  /\ Sub(g, PaidIn(First(d), d)) = SumOf([x \in RangeTo(d) |-> Sub(g, PaidSales(x))])
         /\ Sub(g, PaidIn(First(d), d)) \in Nat
         /\ \A x \in RangeTo(d) : Sub(g, PaidSales(x)) \in Nat
<1> DEFINE T == PaidIn(First(d), d)
           I == RangeTo(d)
<1>1. T \in SUBSET sold /\ IsFiniteSet(I) /\ \A x \in T : DayOfRow[x] \in I
  BY DaysOfPeriod
<1>2. \A x \in I : Part(T, DayOfRow, x) = PaidSales(x)
  BY DaysOfPeriod
<1> HIDE DEF T, I
<1>3. Sub(g, T) = SumOf([x \in I |-> Sub(g, Part(T, DayOfRow, x))])
  BY <1>1, RowsAdd, SumOfParts
<1>4. [x \in I |-> Sub(g, Part(T, DayOfRow, x))] = [x \in I |-> Sub(g, PaidSales(x))]
  BY <1>2
<1>5. Sub(g, T) \in Nat
  BY <1>1, RowsAdd, SubFacts
<1>6. \A x : PaidSales(x) \in SUBSET sold
  BY DEF PaidSales, OnDay
<1>7. \A x \in I : Sub(g, PaidSales(x)) \in Nat
  BY <1>6, RowsAdd, SubFacts
<1>8. Sub(g, T) = SumOf([x \in I |-> Sub(g, PaidSales(x))])
  BY <1>3, <1>4
<1> QED BY <1>5, <1>7, <1>8 DEF T, I

(* Counting rows is adding them up too. *)
LEMMA CountsAdd ==
  ASSUME FiguresInv, NEW T \in SUBSET sold
  PROVE  Cardinality(T) = Sub(EachOne, T) /\ Cardinality(T) \in Nat
<1>1. Cardinality(T) = Sub(EachOne, T)
  BY RowsAdd, CountIsSum DEF EachOne
<1>2. Sub(EachOne, T) \in Nat
  BY RowsAdd, SubFacts
<1> QED BY <1>1, <1>2

-----------------------------------------------------------------------------
(* The trends. *)

(* What loadTrends returns, field by field. *)
LEMMA TrendsFields ==
  ASSUME NEW last
  PROVE  LET sales == PaidIn(First(last), last)
             t == Trends(last)
             Of(S) == [revenue |-> Total(S, AmountOf), sales |-> Cardinality(S)] IN
         /\ t.revenue = Total(sales, AmountOf) /\ t.sales = Cardinality(sales) /\ t.tips = Total(sales, TipOf)
         /\ t.daily = [d \in First(last) .. last |-> Of({r \in sales : CountedDay(r) = d})]
         /\ t.hours = HoursChart({r \in sales : ~r.flagged})
         /\ t.hourExcluded = Cardinality(sales \ {r \in sales : ~r.flagged})
         /\ t.byBarber = [b \in {r.barber : r \in sales} |-> Of({r \in sales : r.barber = b})]
         /\ t.byMethod = [m \in {"CASH", "GCASH", "MAYA", "QRPH"} |-> Total({r \in sales : r.method = m}, AmountOf)]
         /\ t.previous = Of(PaidIn(last - (2 * RangeDays - 1), last - RangeDays))
BY DEF Trends, TrendsOf, SalesBefore

(* Sales and revenue of the days, barbers, methods and hours add up to those of the period,
   and those to the figures of its days. *)
LEMMA TrendsHold ==
  ASSUME FiguresInv, NEW d \in Nat
  PROVE  TrendsAgree(d)
<1> DEFINE T == PaidIn(First(d), d)
           t == Trends(d)
           Of(S) == [revenue |-> Total(S, AmountOf), sales |-> Cardinality(S)]
<1>1. /\ T \in SUBSET sold /\ First(d) \in Int /\ RangeTo(d) \subseteq First(d) .. d
      /\ IsFiniteSet(First(d) .. d) /\ IsFiniteSet(RangeTo(d))
      /\ \A r \in T : DayOfRow[r] \in RangeTo(d)
      /\ \A x \in RangeTo(d) : Part(T, DayOfRow, x) = PaidSales(x)
  BY DaysOfPeriod
<1>2. /\ t.revenue = Total(T, AmountOf) /\ t.sales = Cardinality(T)
      /\ t.daily = [x \in First(d) .. d |-> Of({r \in T : CountedDay(r) = x})]
      /\ t.hours = HoursChart({r \in T : ~r.flagged})
      /\ t.hourExcluded = Cardinality(T \ {r \in T : ~r.flagged})
      /\ t.byBarber = [b \in {r.barber : r \in T} |-> Of({r \in T : r.barber = b})]
      /\ t.byMethod = [m \in {"CASH", "GCASH", "MAYA", "QRPH"} |-> Total({r \in T : r.method = m}, AmountOf)]
      /\ t.previous = Of(PaidIn(d - (2 * RangeDays - 1), d - RangeDays))
  BY TrendsFields
<1> HIDE DEF T, t
<1>3. t.revenue = Sub(EachAmount, T) /\ IsFiniteSet(T)
  BY <1>1, <1>2, TotalsAreSums, RowsAdd, FS_Subset
<1>4. \A x : {r \in T : CountedDay(r) = x} = Part(T, DayOfRow, x)
  BY <1>1 DEF Part, DayOfRow
<1>5. T \in SUBSET sold /\ IsFiniteSet(sold) /\ EachAmount \in [sold -> Nat]
      /\ \A x : PaidSales(x) \in SUBSET sold
  BY <1>1, RowsAdd DEF PaidSales, OnDay
<1>6. t.revenue = Total(RangeTo(d), LAMBDA x : DayFigures(x, 0).revenue)
  <2>1. [x \in RangeTo(d) |-> DayFigures(x, 0).revenue] = [x \in RangeTo(d) |-> Sub(EachAmount, PaidSales(x))]
    BY DayRevenue
  <2>2. Sub(EachAmount, T) = SumOf([x \in RangeTo(d) |-> Sub(EachAmount, PaidSales(x))])
    BY RowsAdd, SumOfDays DEF T
  <2> QED BY <1>3, <2>1, <2>2 DEF Total
<1>7. ASSUME NEW x \in RangeTo(d)
      PROVE  t.daily[x] = [revenue |-> DayFigures(x, 0).revenue, sales |-> DayFigures(x, 0).count]
  <2>1. x \in First(d) .. d /\ {r \in T : CountedDay(r) = x} = PaidSales(x)
    BY <1>1, <1>4
  <2>2. t.daily[x] = Of(PaidSales(x))
    BY <1>2, <2>1
  <2>3. Total(PaidSales(x), AmountOf) = Sub(EachAmount, PaidSales(x))
    BY <1>5, TotalsAreSums
  <2> QED BY <2>2, <2>3, DayRevenue
<1>8. Total(DOMAIN t.daily, LAMBDA x : t.daily[x].revenue) = t.revenue
  <2> DEFINE I == First(d) .. d
  <2>1. DOMAIN t.daily = I
    BY <1>2
  <2>2. ASSUME NEW x \in I PROVE t.daily[x].revenue = Sub(EachAmount, Part(T, DayOfRow, x))
    <3>1. Part(T, DayOfRow, x) \in SUBSET sold
      BY <1>1 DEF Part
    <3>2. t.daily[x] = Of(Part(T, DayOfRow, x))
      BY <1>2, <1>4
    <3>3. t.daily[x].revenue = Total(Part(T, DayOfRow, x), AmountOf)
      BY <3>2
    <3> QED BY <3>1, <3>3, TotalsAreSums
  <2> HIDE DEF I
  <2>3. [x \in DOMAIN t.daily |-> t.daily[x].revenue] = [x \in I |-> Sub(EachAmount, Part(T, DayOfRow, x))]
    BY <2>1, <2>2
  <2>4. IsFiniteSet(I) /\ \A r \in T : DayOfRow[r] \in I
    BY <1>1 DEF I
  <2>5. Sub(EachAmount, T) = SumOf([x \in I |-> Sub(EachAmount, Part(T, DayOfRow, x))])
    BY ONLY <1>5, <2>4, SumOfParts
  <2> QED BY <1>3, <2>3, <2>5 DEF Total
<1>9. Total(DOMAIN t.byBarber, LAMBDA b : t.byBarber[b].revenue) = t.revenue
  <2> DEFINE I == {r.barber : r \in T}
             k == [r \in sold |-> r.barber]
  <2>1. DOMAIN t.byBarber = I
    BY <1>2
  <2>2. ASSUME NEW b \in I PROVE t.byBarber[b].revenue = Sub(EachAmount, Part(T, k, b))
    <3>1. Part(T, k, b) \in SUBSET sold /\ Part(T, k, b) = {r \in T : r.barber = b}
      BY <1>1 DEF Part
    <3>2. t.byBarber[b] = Of(Part(T, k, b))
      <4>1. t.byBarber = [c \in I |-> Of({r \in T : r.barber = c})]
        BY <1>2
      <4> HIDE DEF I, k
      <4>2. t.byBarber[b] = Of({r \in T : r.barber = b})
        BY <4>1
      <4> QED BY <3>1, <4>2
    <3>3. t.byBarber[b].revenue = Total(Part(T, k, b), AmountOf)
      BY <3>2
    <3> QED BY <3>1, <3>3, TotalsAreSums
  <2>3. \A r \in T : k[r] \in I
    BY <1>1
  <2>4. IsFiniteSet(I)
    <3>1. IsFiniteSet(Staff)
      BY FiguresAssumption
    <3>2. I \in SUBSET Staff
      BY <1>1 DEF FiguresInv, StoredSale
    <3> QED BY ONLY <3>1, <3>2, FS_Subset
  <2> HIDE DEF I, k
  <2>5. [b \in DOMAIN t.byBarber |-> t.byBarber[b].revenue] = [b \in I |-> Sub(EachAmount, Part(T, k, b))]
    BY <2>1, <2>2
  <2>6. Sub(EachAmount, T) = SumOf([b \in I |-> Sub(EachAmount, Part(T, k, b))])
    BY ONLY <1>5, <2>3, <2>4, SumOfParts
  <2> QED BY <1>3, <2>5, <2>6 DEF Total
<1>10. Total(DOMAIN t.byMethod, LAMBDA m : t.byMethod[m]) = t.revenue
  <2> DEFINE I == {"CASH", "GCASH", "MAYA", "QRPH"}
             k == [r \in sold |-> r.method]
  <2>1. DOMAIN t.byMethod = I
    BY <1>2
  <2>2. ASSUME NEW m \in I PROVE t.byMethod[m] = Sub(EachAmount, Part(T, k, m))
    <3>1. Part(T, k, m) \in SUBSET sold /\ Part(T, k, m) = {r \in T : r.method = m}
      BY <1>1 DEF Part
    <3>2. t.byMethod[m] = Total(Part(T, k, m), AmountOf)
      BY <1>2, <3>1
    <3> QED BY <3>1, <3>2, TotalsAreSums
  <2>3. \A r \in T : k[r] \in I
    BY <1>1 DEF FiguresInv, StoredSale
  <2>4. IsFiniteSet(I)
    <3>1. IsFiniteSet({"CASH"} \cup {"GCASH"}) /\ IsFiniteSet({"MAYA"} \cup {"QRPH"})
      BY FS_Singleton, FS_Union
    <3>2. I = ({"CASH"} \cup {"GCASH"}) \cup ({"MAYA"} \cup {"QRPH"})
      OBVIOUS
    <3>3. IsFiniteSet(({"CASH"} \cup {"GCASH"}) \cup ({"MAYA"} \cup {"QRPH"}))
      BY ONLY <3>1, FS_Union
    <3> QED BY <3>2, <3>3
  <2> HIDE DEF I, k
  <2>5. [m \in DOMAIN t.byMethod |-> t.byMethod[m]] = [m \in I |-> Sub(EachAmount, Part(T, k, m))]
    BY <2>1, <2>2
  <2>6. Sub(EachAmount, T) = SumOf([m \in I |-> Sub(EachAmount, Part(T, k, m))])
    BY ONLY <1>5, <2>3, <2>4, SumOfParts
  <2> QED BY <1>3, <2>5, <2>6 DEF Total
<1>11. Total(DOMAIN t.hours, LAMBDA h : t.hours[h]) + t.hourExcluded = t.sales
  <2> DEFINE K == {r \in T : ~r.flagged}
             soldAt == {r.hour : r \in K}
             I == Min(soldAt \cup {10}) .. Max(soldAt \cup {21})
             k == [r \in sold |-> r.hour]
  <2>1. K \in SUBSET sold /\ T \ K \in SUBSET sold /\ K \cap (T \ K) = {} /\ K \cup (T \ K) = T
    BY <1>1
  <2>2. soldAt \subseteq Nat /\ IsFiniteSet(soldAt)
    <3>1. soldAt \in SUBSET (0 .. 23)
      BY <2>1 DEF FiguresInv, StoredSale
    <3>2. IsFiniteSet(0 .. 23)
      <4>1. 0 \in Int /\ 23 \in Int
        OBVIOUS
      <4> QED BY ONLY <4>1, FS_Interval
    <3>3. IsFiniteSet(soldAt)
      BY ONLY <3>1, <3>2, FS_Subset
    <3> QED BY <3>1, <3>3
  <2> HIDE DEF soldAt
  <2>3. IsFiniteSet(soldAt \cup {10}) /\ IsFiniteSet(soldAt \cup {21})
    BY <2>2, FS_AddElement
  <2>4. soldAt \cup {10} \subseteq Int /\ soldAt \cup {10} # {} /\ soldAt \cup {21} \subseteq Int /\ soldAt \cup {21} # {}
    BY <2>2
  <2>5. /\ Min(soldAt \cup {10}) \in soldAt \cup {10} /\ \A h \in soldAt \cup {10} : Min(soldAt \cup {10}) <= h
    BY ONLY <2>3, <2>4, MinOfFinite
  <2>6. /\ Max(soldAt \cup {21}) \in soldAt \cup {21} /\ \A h \in soldAt \cup {21} : h <= Max(soldAt \cup {21})
    BY ONLY <2>3, <2>4, MaxOfFinite
  <2>7. Min(soldAt \cup {10}) \in Int /\ Max(soldAt \cup {21}) \in Int
    BY <2>4, <2>5, <2>6
  <2>8. IsFiniteSet(I)
    BY ONLY <2>7, FS_Interval
  <2>9. \A h \in soldAt : h \in I
    BY <2>2, <2>5, <2>6, <2>7
  <2>10. \A r \in K : k[r] \in I
    BY <2>1, <2>9 DEF soldAt
  <2>11. t.hours = [h \in I |-> Cardinality({r \in K : r.hour = h})] /\ t.hourExcluded = Cardinality(T \ K)
    BY <1>2 DEF HoursChart, soldAt
  <2>12. \A h : {r \in K : r.hour = h} = Part(K, k, h) /\ Part(K, k, h) \in SUBSET sold
    BY <2>1 DEF Part
  <2> HIDE DEF I, k, K
  <2>13. \A h \in I : t.hours[h] = Sub(EachOne, Part(K, k, h))
    BY <2>11, <2>12, CountsAdd
  <2>14. [h \in DOMAIN t.hours |-> t.hours[h]] = [h \in I |-> Sub(EachOne, Part(K, k, h))]
    BY <2>11, <2>13
  <2>15. Sub(EachOne, K) = SumOf([h \in I |-> Sub(EachOne, Part(K, k, h))])
    BY <2>1, <2>8, <2>10, RowsAdd, SumOfParts
  <2>16. Sub(EachOne, T) = Sub(EachOne, K) + Sub(EachOne, T \ K)
    BY <2>1, RowsAdd, SumOfUnion
  <2>17. Cardinality(T) = Sub(EachOne, T) /\ Cardinality(T \ K) = Sub(EachOne, T \ K)
    BY <1>1, <2>1, CountsAdd
  <2> QED BY <1>2, <2>11, <2>14, <2>15, <2>16, <2>17 DEF Total
<1>12. d >= RangeDays => t.previous.revenue = Trends(d - RangeDays).revenue
  <2>1. First(d - RangeDays) = d - (2 * RangeDays - 1)
    BY FiguresAssumption DEF First
  <2>2. Trends(d - RangeDays).revenue = Total(PaidIn(First(d - RangeDays), d - RangeDays), AmountOf)
    BY TrendsFields
  <2> QED BY <1>2, <2>1, <2>2
<1> QED BY <1>6, <1>7, <1>8, <1>9, <1>10, <1>11, <1>12 DEF TrendsAgree, t

-----------------------------------------------------------------------------
(* Earned, paid and left. *)

BarberOf == [r \in sold |-> r.barber]
PayeeOf == [p \in paidOut |-> p.barber]

(* What the summary shows of a sale as its commission. *)
EachView(base) == [r \in sold |-> IF base = "LIST_PRICE" THEN CommissionOf(r) ELSE CommissionFor(AmountOf(r))]

Earners(d) == {r.barber : r \in PaidSales(d)}
EarnedOf(d, b) == Sub(EachCommission, Part(PaidSales(d), BarberOf, b)) + Sub(EachTip, Part(PaidSales(d), BarberOf, b))
PaidOf(d, b) == Sub(EachPayment, Part(PayoutsOn(d), PayeeOf, b))
Shown(d) == (Active \cup Earners(d)) \cup {p.barber : p \in PayoutsOn(d)}

(* What the summary takes for a day's commissions and tips. *)
ViewsOn(d, base) == Total(Earners(d), LAMBDA b : TotalsFor(d, base)[b].view)
TipsOn(d, base) == Total(Earners(d), LAMBDA b : TotalsFor(d, base)[b].tips)

(* The barbers of a day are barbers of the shop. *)
LEMMA BarbersAreStaff ==
  ASSUME FiguresInv, NEW d
  PROVE  /\ IsFiniteSet(Earners(d)) /\ IsFiniteSet(Shown(d)) /\ Earners(d) \subseteq Shown(d)
         /\ PaidSales(d) \in SUBSET sold /\ PayoutsOn(d) \in SUBSET paidOut
         /\ \A r \in PaidSales(d) : BarberOf[r] \in Earners(d)
         /\ \A p \in PayoutsOn(d) : PayeeOf[p] \in Shown(d)
         /\ \A b : Part(PaidSales(d), BarberOf, b) \in SUBSET sold
         /\ \A b : Part(PaidSales(d), BarberOf, b) = {r \in PaidSales(d) : r.barber = b}
         /\ \A b : Part(PayoutsOn(d), PayeeOf, b) \in SUBSET paidOut
         /\ \A b : Part(PayoutsOn(d), PayeeOf, b) = {p \in PayoutsOn(d) : p.barber = b}
<1>1. IsFiniteSet(Staff) /\ Active \subseteq Staff
  BY FiguresAssumption
<1>2. PaidSales(d) \in SUBSET sold /\ PayoutsOn(d) \in SUBSET paidOut
  BY DEF PaidSales, OnDay, PayoutsOn
<1>3. (\A r \in sold : r.barber \in Staff) /\ (\A p \in paidOut : p.barber \in Staff)
  BY DEF FiguresInv, StoredSale, StoredPayout
<1>4. Earners(d) \in SUBSET Staff /\ Shown(d) \in SUBSET Staff
  BY <1>1, <1>2, <1>3 DEF Earners, Shown
<1>5. IsFiniteSet(Earners(d)) /\ IsFiniteSet(Shown(d))
  BY ONLY <1>1, <1>4, FS_Subset
<1>6. \A b : Part(PaidSales(d), BarberOf, b) = {r \in PaidSales(d) : r.barber = b}
  BY <1>2 DEF Part, BarberOf
<1>7. \A b : Part(PayoutsOn(d), PayeeOf, b) = {p \in PayoutsOn(d) : p.barber = b}
  BY <1>2 DEF Part, PayeeOf
<1>8. \A r \in PaidSales(d) : BarberOf[r] \in Earners(d)
  BY <1>2 DEF BarberOf, Earners
<1>9. \A p \in PayoutsOn(d) : PayeeOf[p] \in Shown(d)
  BY <1>2 DEF PayeeOf, Shown
<1> QED BY <1>2, <1>5, <1>6, <1>7, <1>8, <1>9 DEF Shown

(* The day's totals: per barber, and all together. *)
LEMMA TotalsOfDay ==
  ASSUME FiguresInv, NEW d, NEW base
  PROVE  /\ DOMAIN TotalsFor(d, base) = Earners(d)
         /\ \A b \in Earners(d) :
              /\ TotalsFor(d, base)[b].commission = Sub(EachCommission, Part(PaidSales(d), BarberOf, b))
              /\ TotalsFor(d, base)[b].tips = Sub(EachTip, Part(PaidSales(d), BarberOf, b))
         /\ ViewsOn(d, base) = Sub(EachView(base), PaidSales(d))
         /\ TipsOn(d, base) = Sub(EachTip, PaidSales(d))
         /\ EachView(base) \in [sold -> Nat]
<1> DEFINE paid == PaidSales(d)
           t == TotalsFor(d, base)
           ViewOf(r) == IF base = "LIST_PRICE" THEN CommissionOf(r) ELSE CommissionFor(AmountOf(r))
<1>1. t = [b \in Earners(d) |->
             [commission |-> Total({r \in paid : r.barber = b}, CommissionOf),
              view |-> Total({r \in paid : r.barber = b}, ViewOf),
              tips |-> Total({r \in paid : r.barber = b}, TipOf)]]
  BY DEF TotalsFor, EarningsOf, Earners
<1>2. EachView(base) \in [sold -> Nat]
  <2>1. \A r \in sold : CommissionOf(r) \in Nat /\ CommissionFor(AmountOf(r)) \in Nat
    BY RowMoney DEF FiguresInv
  <2> QED BY <2>1 DEF EachView
<1>3. \A b : {r \in paid : r.barber = b} = Part(paid, BarberOf, b) /\ Part(paid, BarberOf, b) \in SUBSET sold
  BY BarbersAreStaff
<1>4. ASSUME NEW U \in SUBSET sold PROVE Total(U, ViewOf) = Sub(EachView(base), U)
  <2>1. [r \in U |-> ViewOf(r)] = [r \in U |-> EachView(base)[r]]
    BY DEF EachView
  <2> QED BY <2>1 DEF Total, Sub
<1> HIDE DEF t, paid, ViewOf
<1>5. ASSUME NEW b \in Earners(d)
      PROVE  /\ t[b].commission = Sub(EachCommission, Part(paid, BarberOf, b))
             /\ t[b].tips = Sub(EachTip, Part(paid, BarberOf, b))
             /\ t[b].view = Sub(EachView(base), Part(paid, BarberOf, b))
  <2>1. t[b] = [commission |-> Total({r \in paid : r.barber = b}, CommissionOf),
                view |-> Total({r \in paid : r.barber = b}, ViewOf),
                tips |-> Total({r \in paid : r.barber = b}, TipOf)]
    BY <1>1
  <2>2. t[b].commission = Total(Part(paid, BarberOf, b), CommissionOf)
        /\ t[b].view = Total(Part(paid, BarberOf, b), ViewOf)
        /\ t[b].tips = Total(Part(paid, BarberOf, b), TipOf)
    <3>1. {r \in paid : r.barber = b} = Part(paid, BarberOf, b)
      BY <1>3
    <3>2. t[b] = [commission |-> Total(Part(paid, BarberOf, b), CommissionOf),
                  view |-> Total(Part(paid, BarberOf, b), ViewOf),
                  tips |-> Total(Part(paid, BarberOf, b), TipOf)]
      BY <2>1, <3>1 DEF Total
    <3> QED BY <3>2 DEF Total
  <2> QED BY <1>3, <1>4, <2>2, TotalsAreSums
<1>6. ASSUME NEW g \in [sold -> Nat]
      PROVE  Sub(g, paid) = SumOf([b \in Earners(d) |-> Sub(g, Part(paid, BarberOf, b))])
  <2>1. IsFiniteSet(sold) /\ IsFiniteSet(Earners(d)) /\ paid \in SUBSET sold
        /\ \A r \in paid : BarberOf[r] \in Earners(d)
    BY RowsAdd, BarbersAreStaff DEF paid
  <2> QED BY ONLY <2>1, <1>6, SumOfParts
<1>7. [b \in Earners(d) |-> t[b].view] = [b \in Earners(d) |-> Sub(EachView(base), Part(paid, BarberOf, b))]
      /\ [b \in Earners(d) |-> t[b].tips] = [b \in Earners(d) |-> Sub(EachTip, Part(paid, BarberOf, b))]
  BY <1>5
<1>8. Total(Earners(d), LAMBDA b : t[b].view) = Sub(EachView(base), paid)
  BY <1>2, <1>6, <1>7 DEF Total
<1>9. Total(Earners(d), LAMBDA b : t[b].tips) = Sub(EachTip, paid)
  BY <1>6, <1>7, RowsAdd DEF Total
<1>10. DOMAIN t = Earners(d)
  BY <1>1
<1> QED BY <1>2, <1>5, <1>8, <1>9, <1>10 DEF t, paid, ViewsOn, TipsOn

(* The cards of a day. *)
LEMMA CardsOfDay ==
  ASSUME FiguresInv, NEW d
  PROVE  /\ DOMAIN InsightsRows(d) = Shown(d)
         /\ \A b \in Shown(d) :
              /\ InsightsRows(d)[b].sales = Cardinality(Part(PaidSales(d), BarberOf, b))
              /\ InsightsRows(d)[b].revenue = Sub(EachAmount, Part(PaidSales(d), BarberOf, b))
              /\ InsightsRows(d)[b].earned = EarnedOf(d, b)
              /\ InsightsRows(d)[b].remaining = AtLeastZero(EarnedOf(d, b) - PaidOf(d, b))
<1> DEFINE totals == TotalsFor(d, "LIST_PRICE")
           Commission(b) == IF b \in DOMAIN totals THEN totals[b].commission ELSE 0
           Tips(b) == IF b \in DOMAIN totals THEN totals[b].tips ELSE 0
           Earned(b) == Commission(b) + Tips(b)
           Paid(b) == Total({p \in PayoutsOn(d) : p.barber = b}, PaidOutTo)
           Rung(b) == {r \in PaidSales(d) : r.barber = b}
           row(b) == [sales |-> Cardinality(Rung(b)), revenue |-> Total(Rung(b), AmountOf),
                      commission |-> Commission(b), tips |-> Tips(b), earned |-> Earned(b), paidOut |-> Paid(b),
                      remaining |-> AtLeastZero(Earned(b) - Paid(b)),
                      additional |-> Earned(b) > Paid(b) /\ \E p \in PayoutsOn(d) : p.barber = b /\ p.marked]
<1>1. DOMAIN totals = Earners(d)
  BY TotalsOfDay
<1>2. InsightsRows(d) = [b \in Shown(d) |-> row(b)]
  BY <1>1 DEF InsightsRows, RowsOf, Shown
<1>3. ASSUME NEW b \in Shown(d)
      PROVE  Earned(b) = EarnedOf(d, b)
  <2>1. CASE b \in Earners(d)
    BY <1>1, <2>1, TotalsOfDay DEF EarnedOf
  <2>2. CASE b \notin Earners(d)
    <3>1. Part(PaidSales(d), BarberOf, b) = {}
      <4>1. \A r \in PaidSales(d) : r.barber # b
        BY <2>2 DEF Earners
      <4>2. Part(PaidSales(d), BarberOf, b) = {r \in PaidSales(d) : r.barber = b}
        BY BarbersAreStaff
      <4> QED BY <4>1, <4>2
    <3>2. Sub(EachCommission, {}) = 0 /\ Sub(EachTip, {}) = 0
      BY RowsAdd, SubFacts
    <3> QED BY <1>1, <2>2, <3>1, <3>2 DEF EarnedOf
  <2> QED BY <2>1, <2>2
<1>4. ASSUME NEW b \in Shown(d)
      PROVE  Paid(b) = PaidOf(d, b)
  <2>1. Part(PayoutsOn(d), PayeeOf, b) = {p \in PayoutsOn(d) : p.barber = b}
        /\ Part(PayoutsOn(d), PayeeOf, b) \in SUBSET paidOut
    BY BarbersAreStaff
  <2>2. Total(Part(PayoutsOn(d), PayeeOf, b), PaidOutTo) = Sub(EachPayment, Part(PayoutsOn(d), PayeeOf, b))
    BY <2>1, PaymentsAreSums
  <2> QED BY <2>1, <2>2 DEF PaidOf
<1>5. ASSUME NEW b \in Shown(d)
      PROVE  Rung(b) = Part(PaidSales(d), BarberOf, b) /\ Total(Rung(b), AmountOf) = Sub(EachAmount, Rung(b))
  BY BarbersAreStaff, TotalsAreSums
<1> HIDE DEF totals, Earned, Paid, Rung
<1>6. ASSUME NEW b \in Shown(d)
      PROVE  /\ row(b).sales = Cardinality(Rung(b)) /\ row(b).revenue = Total(Rung(b), AmountOf)
             /\ row(b).earned = Earned(b) /\ row(b).remaining = AtLeastZero(Earned(b) - Paid(b))
  OBVIOUS
<1> HIDE DEF row
<1>7. \A b \in Shown(d) : InsightsRows(d)[b] = row(b)
  BY <1>2
<1> QED BY <1>2, <1>3, <1>4, <1>5, <1>6, <1>7

(* Owed and paid over a day's cards. *)
LEMMA CardsAddUp ==
  ASSUME FiguresInv, NEW d
  PROVE  LET Cards == SumOf([b \in Shown(d) |-> InsightsRows(d)[b].remaining])
             Owed == Sub(EachCommission, PaidSales(d)) + Sub(EachTip, PaidSales(d))
             Paid == Total(PayoutsOn(d), PaidOutTo)
             Overpaid == \E p \in PayoutsOn(d) : PaidOutTo(p) > InsightsRows(d)[p.barber].earned IN
         /\ SumOf([b \in Shown(d) |-> InsightsRows(d)[b].earned]) = Owed
         /\ Owed \in Nat /\ Paid \in Nat /\ Cards \in Nat
         /\ AtLeastZero(Owed - Paid) <= Cards
         /\ ~Overpaid => AtLeastZero(Owed - Paid) = Cards
<1> DEFINE I == Shown(d)
           paid == PaidSales(d)
           outs == PayoutsOn(d)
           c == [b \in I |-> Sub(EachCommission, Part(paid, BarberOf, b))]
           t == [b \in I |-> Sub(EachTip, Part(paid, BarberOf, b))]
           e == [b \in I |-> EarnedOf(d, b)]
           p == [b \in I |-> PaidOf(d, b)]
           Owed == Sub(EachCommission, paid) + Sub(EachTip, paid)
           Paid == Total(outs, PaidOutTo)
<1>1. /\ IsFiniteSet(I) /\ paid \in SUBSET sold /\ outs \in SUBSET paidOut
      /\ \A r \in paid : BarberOf[r] \in I
      /\ \A q \in outs : PayeeOf[q] \in I
      /\ \A b : Part(paid, BarberOf, b) \in SUBSET sold
      /\ \A b : Part(outs, PayeeOf, b) \in SUBSET paidOut
      /\ \A b : Part(outs, PayeeOf, b) = {q \in outs : q.barber = b}
  BY BarbersAreStaff
<1>2. /\ IsFiniteSet(sold) /\ IsFiniteSet(paidOut)
      /\ EachCommission \in [sold -> Nat] /\ EachTip \in [sold -> Nat] /\ EachPayment \in [paidOut -> Nat]
  BY RowsAdd
<1>3. Sub(EachCommission, paid) = SumOf(c) /\ Sub(EachTip, paid) = SumOf(t)
  <2> HIDE DEF I, paid
  <2> QED BY ONLY <1>1, <1>2, SumOfParts DEF c, t
<1>4. Paid = SumOf(p)
  <2>1. Paid = Sub(EachPayment, outs)
    BY <1>1, PaymentsAreSums
  <2>2. Sub(EachPayment, outs) = SumOf([b \in I |-> Sub(EachPayment, Part(outs, PayeeOf, b))])
    <3> HIDE DEF I, outs
    <3> QED BY ONLY <1>1, <1>2, SumOfParts
  <2> QED BY <2>1, <2>2 DEF PaidOf
<1>5. c \in [I -> Nat] /\ t \in [I -> Nat]
  <2> HIDE DEF I, paid
  <2> QED BY <1>1, <1>2, SubFacts
<1>6. p \in [I -> Nat]
  <2> HIDE DEF I
  <2> QED BY <1>1, <1>2, SubFacts DEF PaidOf
<1>7. e = [b \in I |-> c[b] + t[b]] /\ e \in [I -> Nat]
  <2>1. e = [b \in I |-> c[b] + t[b]]
    BY DEF EarnedOf
  <2> HIDE DEF c, t, e, I
  <2> QED BY <1>5, <2>1
<1>8. [b \in I |-> InsightsRows(d)[b].earned] = e
      /\ [b \in I |-> InsightsRows(d)[b].remaining] = [b \in I |-> AtLeastZero(e[b] - p[b])]
  BY CardsOfDay
<1>9. ASSUME ~ \E q \in outs : PaidOutTo(q) > InsightsRows(d)[q.barber].earned, NEW b \in I
      PROVE  p[b] <= e[b]
  <2>1. p[b] = Sub(EachPayment, Part(outs, PayeeOf, b)) /\ e[b] \in Nat
    BY <1>7 DEF PaidOf
  <2>2. CASE Part(outs, PayeeOf, b) = {}
    <3>1. Sub(EachPayment, {}) = 0
      BY <1>2, SubFacts
    <3> QED BY <2>1, <2>2, <3>1
  <2>3. ASSUME NEW q \in Part(outs, PayeeOf, b) PROVE p[b] <= e[b]
    <3>1. q \in outs /\ q.barber = b /\ q \in paidOut
      BY <1>1
    <3>2. Part(outs, PayeeOf, b) \ {q} = {}
      <4>1. ASSUME NEW r \in Part(outs, PayeeOf, b) PROVE r = q
        <5>1. r \in outs /\ r.barber = q.barber /\ r.day = q.day /\ r \in paidOut
          BY <1>1, <3>1 DEF PayoutsOn
        <5> QED BY <3>1, <5>1 DEF FiguresInv
      <4> QED BY <4>1
    <3>3. Sub(EachPayment, Part(outs, PayeeOf, b)) = EachPayment[q] + Sub(EachPayment, Part(outs, PayeeOf, b) \ {q})
      <4>1. Part(outs, PayeeOf, b) \in SUBSET paidOut
        BY <1>1
      <4> QED BY <1>2, <2>3, <4>1, SubFacts
    <3>4. Sub(EachPayment, {}) = 0 /\ EachPayment[q] = PaidOutTo(q) /\ EachPayment[q] \in Nat
      BY <1>2, <3>1, SubFacts DEF EachPayment
    <3>5. p[b] = PaidOutTo(q) /\ PaidOutTo(q) \in Nat
      BY <2>1, <3>2, <3>3, <3>4
    <3>6. ~ (PaidOutTo(q) > e[b])
      <4>1. InsightsRows(d)[q.barber].earned = e[b]
        BY <3>1, CardsOfDay
      <4> QED BY <1>9, <3>1, <4>1
    <3> QED BY <2>1, <3>5, <3>6
  <2> QED BY <2>2, <2>3
<1> HIDE DEF I, c, t, e, p, paid, outs
<1>10. SumOf(e) = Owed
  BY <1>1, <1>3, <1>5, <1>7, SumOfPairs
<1> DEFINE l == [b \in I |-> AtLeastZero(e[b] - p[b])]
<1>11. /\ SumOf(e) \in Nat /\ SumOf(p) \in Nat /\ SumOf(l) \in Nat
       /\ AtLeastZero(SumOf(e) - SumOf(p)) <= SumOf(l)
       /\ (\A b \in I : p[b] <= e[b]) => AtLeastZero(SumOf(e) - SumOf(p)) = SumOf(l)
  <2>1. IsFiniteSet(I) /\ e \in [I -> Nat] /\ p \in [I -> Nat] /\ l = [b \in I |-> AtLeastZero(e[b] - p[b])]
    BY <1>1, <1>6, <1>7
  <2> HIDE DEF l
  <2> QED BY ONLY <2>1, LeftOverall
<1>12. SumOf([b \in I |-> InsightsRows(d)[b].earned]) = Owed
  BY <1>8, <1>10
<1>13. /\ Owed \in Nat /\ Paid \in Nat
       /\ SumOf([b \in I |-> InsightsRows(d)[b].remaining]) \in Nat
       /\ AtLeastZero(Owed - Paid) <= SumOf([b \in I |-> InsightsRows(d)[b].remaining])
       /\ (~ \E q \in outs : PaidOutTo(q) > InsightsRows(d)[q.barber].earned) =>
            AtLeastZero(Owed - Paid) = SumOf([b \in I |-> InsightsRows(d)[b].remaining])
  <2>1. [b \in I |-> InsightsRows(d)[b].remaining] = l
    BY <1>8
  <2>2. (~ \E q \in outs : PaidOutTo(q) > InsightsRows(d)[q.barber].earned) => \A b \in I : p[b] <= e[b]
    BY <1>9
  <2>3. Owed = SumOf(e) /\ Paid = SumOf(p)
    BY <1>4, <1>10
  <2> HIDE DEF Owed, Paid, l
  <2> QED BY ONLY <1>11, <2>1, <2>2, <2>3
<1> QED BY <1>12, <1>13 DEF I, outs, paid

(* The petty cash of a day is that of its latest count. *)
LEMMA PettyIsNat ==
  ASSUME FiguresInv, NEW d
  PROVE  LatestPetty(d) \in Nat
<1> SUFFICES ASSUME CountsOf(d) # {} PROVE LatestPetty(d) \in Nat
  BY DEF LatestPetty
<1> DEFINE S == {c.revision : c \in CountsOf(d)}
<1>1. CountsOf(d) \in SUBSET counts /\ \A c \in CountsOf(d) : c.petty \in Nat /\ c.revision \in Nat
  BY DEF FiguresInv, CountsOf
<1>2. IsFiniteSet(CountsOf(d))
  BY <1>1, FS_Subset DEF FiguresInv
<1>3. IsFiniteSet(S)
  <2> DEFINE f == [c \in CountsOf(d) |-> c.revision]
  <2>1. f \in Surjection(CountsOf(d), S)
    BY DEF Surjection
  <2> HIDE DEF f, S
  <2> QED BY ONLY <1>2, <2>1, FS_Surjection
<1>4. S \subseteq Int /\ S # {}
  BY <1>1
<1> HIDE DEF S
<1>5. Max(S) \in S /\ \A x \in S : x <= Max(S)
  BY ONLY <1>3, <1>4, MaxOfFinite
<1>6. \E c \in CountsOf(d) : \A o \in CountsOf(d) : o.revision <= c.revision
  BY <1>5 DEF S
<1>7. LatestCount(d) \in CountsOf(d)
  BY <1>6 DEF LatestCount
<1> QED BY <1>1, <1>7 DEF LatestPetty

(* What is not discounted adds nothing to the discounts. *)
LEMMA Discounts ==
  ASSUME FiguresInv, NEW T \in SUBSET sold
  PROVE  /\ Sub(EachListPrice, T) = Sub(EachAmount, T)
              + Total({r \in T : ~r.legacy}, LAMBDA r : PriceSale(r.ticket).discount)
         /\ Total({r \in T : ~r.legacy}, LAMBDA r : PriceSale(r.ticket).discount) \in Nat
<1> DEFINE g == [r \in sold |-> DiscountOf(r)]
           U == {r \in T : ~r.legacy}
<1>1. g \in [sold -> Nat] /\ EachAmount \in [sold -> Nat] /\ EachListPrice \in [sold -> Nat] /\ IsFiniteSet(sold)
  BY RowsAdd
<1>2. T \in SUBSET sold /\ U \in SUBSET T /\ U \in SUBSET sold /\ IsFiniteSet(T)
  BY <1>1, FS_Subset
<1>3. Total(U, LAMBDA r : PriceSale(r.ticket).discount) = Sub(g, U)
  <2>1. [r \in U |-> PriceSale(r.ticket).discount] = [r \in U |-> g[r]]
    BY <1>2 DEF DiscountOf
  <2> QED BY <2>1 DEF Total, Sub
<1>4. \A r \in T \ U : g[r] = 0
  BY <1>2 DEF DiscountOf
<1>5. \A r \in sold : EachListPrice[r] = EachAmount[r] + g[r]
  BY RowMoney DEF EachListPrice, EachAmount, FiguresInv
<1> HIDE DEF g, U
<1>6. Sub(g, T) = Sub(g, U) /\ Sub(g, T) \in Nat
  <2> DEFINE f == [r \in T |-> g[r]]
  <2>1. f \in [T -> Nat] /\ \A r \in T \ U : f[r] = 0
    BY <1>1, <1>2, <1>4
  <2>2. (\A r \in T : f[r] = g[r]) /\ \A r \in U : f[r] = g[r]
    BY <1>2
  <2> HIDE DEF f
  <2>3. Sub(f, T) = Sub(f, U)
    BY ONLY <1>2, <2>1, SubOfZeros
  <2>4. Sub(f, T) = Sub(g, T) /\ Sub(f, U) = Sub(g, U)
    BY <2>2, SubSame
  <2> QED BY <1>1, <1>2, <2>3, <2>4, SubFacts
<1>7. Sub(EachListPrice, T) = Sub(EachAmount, T) + Sub(g, T)
  <2> DEFINE a == [r \in T |-> EachAmount[r]]
             f == [r \in T |-> g[r]]
  <2>1. a \in [T -> Nat] /\ f \in [T -> Nat]
    BY <1>1, <1>2
  <2>2. [r \in T |-> EachListPrice[r]] = [r \in T |-> a[r] + f[r]]
    BY <1>2, <1>5
  <2>3. SumOf([r \in T |-> a[r] + f[r]]) = SumOf(a) + SumOf(f)
    <3> HIDE DEF a, f
    <3> QED BY ONLY <1>2, <2>1, SumOfPairs
  <2> QED BY <2>2, <2>3 DEF Sub
<1> QED BY <1>3, <1>6, <1>7 DEF U

(* The summary's sums, as the trends have them. *)
LEMMA SummarySums ==
  ASSUME FiguresInv, NEW d \in Nat, NEW base
  PROVE  LET s == Summary(RangeTo(d), base)
             t == Trends(d)
             D == RangeTo(d) IN
         /\ s.revenue = t.revenue /\ s.count = t.sales /\ s.tips = t.tips
         /\ s.left + s.commissions + s.petty = s.revenue
         /\ s.gap = -Total({r \in PaidIn(First(d), d) : ~r.legacy}, LAMBDA r : PriceSale(r.ticket).discount)
         /\ s.remaining = SumOf([x \in D |->
              AtLeastZero((Sub(EachView(base), PaidSales(x)) + Sub(EachTip, PaidSales(x))) - PaidOnDay(x))]) 
<1> DEFINE s == Summary(RangeTo(d), base)
           t == Trends(d)
           D == RangeTo(d)
           T == PaidIn(First(d), d)
<1> HIDE DEF D
<1>1. /\ s.revenue = SumOf([x \in D |-> DayFigures(x, 0).revenue])
      /\ s.count = SumOf([x \in D |-> DayFigures(x, 0).count])
      /\ s.commissions = SumOf([x \in D |-> ViewsOn(x, base)])
      /\ s.tips = SumOf([x \in D |-> TipsOn(x, base)])
      /\ s.petty = SumOf([x \in D |-> LatestPetty(x)])
      /\ s.left = s.revenue - s.commissions - s.petty
      /\ s.remaining = SumOf([x \in D |-> AtLeastZero((ViewsOn(x, base) + TipsOn(x, base)) - PaidOnDay(x))])
      /\ s.gap = s.revenue - SumOf([x \in D |-> Total(PaidSales(x), ListPriceOf)])
  <2> DEFINE figures == [x \in D |-> DayFigures(x, 0)]
             earned == [x \in D |->
               LET totals == TotalsFor(x, base) IN
               [view |-> Total(DOMAIN totals, LAMBDA b : totals[b].view),
                tips |-> Total(DOMAIN totals, LAMBDA b : totals[b].tips)]]
             OwedOn(x) == earned[x].view + earned[x].tips
             revenue == Total(D, LAMBDA x : figures[x].revenue)
             commissions == Total(D, LAMBDA x : earned[x].view)
             petty == Total(D, LatestPetty)
  <2>1. s = [revenue |-> revenue, count |-> Total(D, LAMBDA x : figures[x].count),
             commissions |-> commissions, tips |-> Total(D, LAMBDA x : earned[x].tips),
             petty |-> petty, left |-> revenue - commissions - petty,
             owed |-> Total(D, OwedOn), paid |-> Total(D, PaidOnDay),
             remaining |-> Total(D, LAMBDA x : AtLeastZero(OwedOn(x) - PaidOnDay(x))),
             gap |-> revenue - Total(D, LAMBDA x : Total(PaidSales(x), ListPriceOf))]
    BY DEF Summary, D
  <2>2. ASSUME NEW x \in D
        PROVE  /\ earned[x].view = ViewsOn(x, base) /\ earned[x].tips = TipsOn(x, base)
               /\ OwedOn(x) = ViewsOn(x, base) + TipsOn(x, base)
    <3>1. DOMAIN TotalsFor(x, base) = Earners(x)
      BY DEF TotalsFor, EarningsOf, Earners
    <3> QED BY <3>1 DEF Total, ViewsOn, TipsOn
  <2> HIDE DEF s, earned
  <2>3. /\ s.revenue = SumOf([x \in D |-> figures[x].revenue])
        /\ s.count = SumOf([x \in D |-> figures[x].count])
        /\ s.commissions = SumOf([x \in D |-> earned[x].view])
        /\ s.tips = SumOf([x \in D |-> earned[x].tips])
        /\ s.petty = SumOf([x \in D |-> LatestPetty(x)])
        /\ s.left = s.revenue - s.commissions - s.petty
        /\ s.remaining = SumOf([x \in D |-> AtLeastZero(OwedOn(x) - PaidOnDay(x))])
        /\ s.gap = s.revenue - SumOf([x \in D |-> Total(PaidSales(x), ListPriceOf)])
    BY <2>1 DEF Total
  <2>4. /\ [x \in D |-> figures[x].revenue] = [x \in D |-> DayFigures(x, 0).revenue]
        /\ [x \in D |-> figures[x].count] = [x \in D |-> DayFigures(x, 0).count]
    OBVIOUS
  <2> HIDE DEF figures, OwedOn
  <2>5. /\ [x \in D |-> earned[x].view] = [x \in D |-> ViewsOn(x, base)]
        /\ [x \in D |-> earned[x].tips] = [x \in D |-> TipsOn(x, base)]
        /\ [x \in D |-> AtLeastZero(OwedOn(x) - PaidOnDay(x))]
             = [x \in D |-> AtLeastZero((ViewsOn(x, base) + TipsOn(x, base)) - PaidOnDay(x))]
    BY <2>2
  <2> QED BY <2>3, <2>4, <2>5
<1>2. \A x : ViewsOn(x, base) = Sub(EachView(base), PaidSales(x)) /\ TipsOn(x, base) = Sub(EachTip, PaidSales(x))
  BY TotalsOfDay
<1>3. EachView(base) \in [sold -> Nat]
  BY TotalsOfDay
<1>4. IsFiniteSet(D) /\ T \in SUBSET sold /\ \A x : PaidSales(x) \in SUBSET sold
  BY DaysOfPeriod DEF PaidSales, OnDay, D
<1>5. t.revenue = Total(T, AmountOf) /\ t.sales = Cardinality(T) /\ t.tips = Total(T, TipOf)
  BY TrendsFields
<1> HIDE DEF s, t, D, T
<1>6. ASSUME NEW g \in [sold -> Nat]
      PROVE  /\ Sub(g, T) = SumOf([x \in D |-> Sub(g, PaidSales(x))]) /\ Sub(g, T) \in Nat
             /\ [x \in D |-> Sub(g, PaidSales(x))] \in [D -> Nat]
  BY SumOfDays DEF T, D
<1>7. /\ EachAmount \in [sold -> Nat] /\ EachListPrice \in [sold -> Nat] /\ EachTip \in [sold -> Nat]
      /\ EachOne \in [sold -> Nat]
  BY RowsAdd
<1>8. s.revenue = Sub(EachAmount, T) /\ s.revenue \in Nat /\ s.revenue = t.revenue
  <2>1. [x \in D |-> DayFigures(x, 0).revenue] = [x \in D |-> Sub(EachAmount, PaidSales(x))]
    BY DayRevenue
  <2>2. Total(T, AmountOf) = Sub(EachAmount, T)
    BY <1>4, TotalsAreSums
  <2> QED BY <1>1, <1>5, <1>6, <1>7, <2>1, <2>2
<1>9. s.count = t.sales
  <2>1. \A x : DayFigures(x, 0).count = Sub(EachOne, PaidSales(x))
    BY <1>4, DayRevenue, CountsAdd
  <2>2. [x \in D |-> DayFigures(x, 0).count] = [x \in D |-> Sub(EachOne, PaidSales(x))]
    BY <2>1
  <2>3. Cardinality(T) = Sub(EachOne, T)
    BY <1>4, CountsAdd
  <2> QED BY <1>1, <1>5, <1>6, <1>7, <2>2, <2>3
<1>10. s.tips = t.tips
  <2>1. [x \in D |-> TipsOn(x, base)] = [x \in D |-> Sub(EachTip, PaidSales(x))]
    BY <1>2
  <2>2. Total(T, TipOf) = Sub(EachTip, T)
    BY <1>4, TotalsAreSums
  <2> QED BY <1>1, <1>5, <1>6, <1>7, <2>1, <2>2
<1>11. s.left + s.commissions + s.petty = s.revenue
  <2>1. [x \in D |-> ViewsOn(x, base)] = [x \in D |-> Sub(EachView(base), PaidSales(x))]
    BY <1>2
  <2>2. s.commissions \in Nat
    BY <1>1, <1>3, <1>6, <2>1
  <2>3. s.petty \in Nat
    <3> DEFINE f == [x \in D |-> LatestPetty(x)]
    <3>1. f \in [D -> Nat]
      BY PettyIsNat
    <3> HIDE DEF f
    <3>2. SumOf(f) \in Nat
      BY ONLY <1>4, <3>1, SubFacts
    <3> QED BY <1>1, <3>2 DEF f
  <2> QED BY <1>1, <1>8, <2>2, <2>3
<1>12. s.gap = -Total({r \in T : ~r.legacy}, LAMBDA r : PriceSale(r.ticket).discount)
  <2> DEFINE gap == Total({r \in T : ~r.legacy}, LAMBDA r : PriceSale(r.ticket).discount)
  <2>1. \A x : Total(PaidSales(x), ListPriceOf) = Sub(EachListPrice, PaidSales(x))
    BY <1>4, TotalsAreSums
  <2>2. [x \in D |-> Total(PaidSales(x), ListPriceOf)] = [x \in D |-> Sub(EachListPrice, PaidSales(x))]
    BY <2>1
  <2>3. SumOf([x \in D |-> Total(PaidSales(x), ListPriceOf)]) = Sub(EachListPrice, T)
    BY <1>6, <1>7, <2>2
  <2>4. Sub(EachListPrice, T) = Sub(EachAmount, T) + gap /\ gap \in Nat
    BY <1>4, Discounts
  <2> HIDE DEF gap
  <2>5. s.gap = Sub(EachAmount, T) - Sub(EachListPrice, T)
    BY <1>1, <1>8, <2>3
  <2>6. s.gap = -gap
    <3>1. \A a, b \in Nat : a - (a + b) = -b
      OBVIOUS
    <3> QED BY <1>8, <2>4, <2>5, <3>1
  <2> QED BY <2>6 DEF gap
<1>13. s.remaining = SumOf([x \in D |->
         AtLeastZero((Sub(EachView(base), PaidSales(x)) + Sub(EachTip, PaidSales(x))) - PaidOnDay(x))])
  <2>1. [x \in D |-> AtLeastZero((ViewsOn(x, base) + TipsOn(x, base)) - PaidOnDay(x))]
          = [x \in D |-> AtLeastZero((Sub(EachView(base), PaidSales(x)) + Sub(EachTip, PaidSales(x))) - PaidOnDay(x))]
    BY <1>2
  <2> QED BY <1>1, <2>1
<1> QED BY <1>8, <1>9, <1>10, <1>11, <1>12, <1>13 DEF s, t, D, T

(* The summary shows the same period, and no less is left on the barbers' cards. *)
LEMMA SummaryHolds ==
  ASSUME FiguresInv, NEW d \in Nat, NEW base
  PROVE  SummaryAgrees(d, base)
<1> DEFINE s == Summary(RangeTo(d), base)
           t == Trends(d)
           D == RangeTo(d)
           cards == [x \in D |-> InsightsRows(x)]
           Cards(x) == Total(DOMAIN cards[x], LAMBDA b : cards[x][b].remaining)
           Overpaid(x) == \E p \in PayoutsOn(x) : PaidOutTo(p) > cards[x][p.barber].earned
<1>1. /\ s.revenue = t.revenue /\ s.count = t.sales /\ s.tips = t.tips
      /\ s.left + s.commissions + s.petty = s.revenue
      /\ s.gap = -Total({r \in PaidIn(First(d), d) : ~r.legacy}, LAMBDA r : PriceSale(r.ticket).discount)
      /\ s.remaining = SumOf([x \in D |->
           AtLeastZero((Sub(EachView(base), PaidSales(x)) + Sub(EachTip, PaidSales(x))) - PaidOnDay(x))])
  BY SummarySums
<1>2. ASSUME base = "LIST_PRICE"
      PROVE  /\ s.remaining <= Total(D, Cards)
             /\ (\A x \in D : ~Overpaid(x)) => s.remaining = Total(D, Cards)
  <2> DEFINE f == [x \in D |->
        AtLeastZero((Sub(EachView(base), PaidSales(x)) + Sub(EachTip, PaidSales(x))) - PaidOnDay(x))]
             g == [x \in D |-> Cards(x)]
  <2>1. EachView(base) = EachCommission
    BY <1>2 DEF EachView, EachCommission
  <2>2. ASSUME NEW x \in D
        PROVE  /\ f[x] \in Nat /\ g[x] \in Nat /\ f[x] <= g[x]
               /\ ~Overpaid(x) => f[x] = g[x]
    <3> DEFINE Owed == Sub(EachCommission, PaidSales(x)) + Sub(EachTip, PaidSales(x))
               shown == SumOf([b \in Shown(x) |-> InsightsRows(x)[b].remaining])
               over == \E p \in PayoutsOn(x) : PaidOutTo(p) > InsightsRows(x)[p.barber].earned
    <3>1. /\ Owed \in Nat /\ PaidOnDay(x) \in Nat /\ shown \in Nat
          /\ AtLeastZero(Owed - PaidOnDay(x)) <= shown
          /\ ~over => AtLeastZero(Owed - PaidOnDay(x)) = shown
      BY CardsAddUp DEF PaidOnDay
    <3>2. Overpaid(x) <=> over
      OBVIOUS
    <3>3. g[x] = shown
      <4>1. cards[x] = InsightsRows(x) /\ DOMAIN InsightsRows(x) = Shown(x)
        BY CardsOfDay
      <4> QED BY <4>1 DEF Total
    <3>4. f[x] = AtLeastZero(Owed - PaidOnDay(x))
      BY <2>1
    <3> HIDE DEF Owed, f, g, shown, over
    <3>5. f[x] \in Nat
      BY <3>1, <3>4 DEF AtLeastZero
    <3> QED BY <3>1, <3>2, <3>3, <3>4, <3>5
  <2>3. IsFiniteSet(D)
    BY DaysOfPeriod
  <2>4. f \in [D -> Nat] /\ g \in [D -> Nat]
    BY <2>2
  <2>5. Total(D, Cards) = SumOf(g) /\ s.remaining = SumOf(f)
    BY <1>1 DEF Total
  <2>6. SumOf(f) <= SumOf(g)
    <3>1. \A x \in D : f[x] <= g[x]
      BY <2>2
    <3> HIDE DEF f, g, D
    <3> QED BY ONLY <2>3, <2>4, <3>1, SumOfLess
  <2>7. ASSUME \A x \in D : ~Overpaid(x) PROVE SumOf(f) = SumOf(g)
    <3>1. \A x \in D : f[x] = g[x]
      BY <2>2, <2>7
    <3> HIDE DEF f, g, D
    <3>2. f = g
      BY <2>4, <3>1
    <3> QED BY <3>2
  <2> HIDE DEF f, g, D, s, Cards, Overpaid
  <2> QED BY <2>5, <2>6, <2>7
<1> DEFINE Agree(u, v, w) ==
             LET SumLeft(x) == Total(DOMAIN w[x], LAMBDA b : w[x][b].remaining)
                 OverpaidOf(x) == \E p \in PayoutsOn(x) : PaidOutTo(p) > w[x][p.barber].earned IN
             /\ u.revenue = v.revenue /\ u.count = v.sales /\ u.tips = v.tips
             /\ u.left + u.commissions + u.petty = u.revenue
             /\ u.gap = -Total({r \in PaidIn(First(d), d) : ~r.legacy}, LAMBDA r : PriceSale(r.ticket).discount)
             /\ base = "LIST_PRICE" =>
                  /\ u.remaining <= Total(RangeTo(d), SumLeft)
                  /\ (\A x \in RangeTo(d) : ~OverpaidOf(x)) => u.remaining = Total(RangeTo(d), SumLeft)
<1>3. Agree(s, t, cards)
  BY <1>1, <1>2
<1>4. SummaryAgrees(d, base) <=> \A u \in {s}, v \in {t}, w \in {cards} : Agree(u, v, w)
  BY DEF SummaryAgrees
<1> HIDE DEF s, t, cards, Agree
<1> QED BY <1>3, <1>4

(* What a summary of one day says is owed. *)
LEMMA OwedOfDay ==
  ASSUME FiguresInv, NEW d
  PROVE  Summary({d}, "LIST_PRICE").owed = Sub(EachCommission, PaidSales(d)) + Sub(EachTip, PaidSales(d))
<1> DEFINE base == "LIST_PRICE"
           D == {d}
           earned == [x \in D |->
             LET totals == TotalsFor(x, base) IN
             [view |-> Total(DOMAIN totals, LAMBDA b : totals[b].view),
              tips |-> Total(DOMAIN totals, LAMBDA b : totals[b].tips)]]
           OwedOn(x) == earned[x].view + earned[x].tips
           Owed == Sub(EachCommission, PaidSales(d)) + Sub(EachTip, PaidSales(d))
<1>1. Summary(D, base).owed = Total(D, OwedOn)
  BY DEF Summary
<1>2. earned[d].view = ViewsOn(d, base) /\ earned[d].tips = TipsOn(d, base)
  <2>1. DOMAIN TotalsFor(d, base) = Earners(d)
    BY DEF TotalsFor, EarningsOf, Earners
  <2> QED BY <2>1 DEF Total, ViewsOn, TipsOn
<1>3. ViewsOn(d, base) = Sub(EachView(base), PaidSales(d)) /\ TipsOn(d, base) = Sub(EachTip, PaidSales(d))
  <2> HIDE DEF base
  <2> QED BY TotalsOfDay
<1>4. EachView(base) = EachCommission
  BY DEF EachView, EachCommission
<1>5. Owed \in Nat
  BY CardsAddUp
<1> HIDE DEF earned, base
<1>6. OwedOn(d) = Owed
  BY <1>2, <1>3, <1>4
<1> HIDE DEF Owed
<1>7. [x \in D |-> OwedOn(x)] = [x \in {d} |-> Owed]
  BY <1>6
<1>8. Total(D, OwedOn) = Owed
  BY <1>5, <1>7, SumOfOne DEF Total
<1> QED BY <1>1, <1>8 DEF Owed, base

(* The cards of a day show all of its sales and all that is owed for them. *)
LEMMA InsightsHold ==
  ASSUME FiguresInv, NEW d
  PROVE  InsightsAgree(d)
<1> DEFINE I == Shown(d)
           paid == PaidSales(d)
           shown == InsightsRows(d)
<1>1. /\ IsFiniteSet(I) /\ paid \in SUBSET sold /\ \A r \in paid : BarberOf[r] \in I
      /\ \A b : Part(paid, BarberOf, b) \in SUBSET sold
  BY BarbersAreStaff
<1>2. /\ DOMAIN shown = I
      /\ \A b \in I : /\ shown[b].sales = Cardinality(Part(paid, BarberOf, b))
                      /\ shown[b].revenue = Sub(EachAmount, Part(paid, BarberOf, b))
  BY CardsOfDay
<1>3. DayFigures(d, 0).revenue = Sub(EachAmount, paid) /\ DayFigures(d, 0).count = Cardinality(paid)
  BY DayRevenue
<1>4. SumOf([b \in I |-> shown[b].earned]) = Summary({d}, "LIST_PRICE").owed
  BY CardsAddUp, OwedOfDay
<1> HIDE DEF I, paid, shown
<1>5. ASSUME NEW g \in [sold -> Nat] PROVE Sub(g, paid) = SumOf([b \in I |-> Sub(g, Part(paid, BarberOf, b))])
  <2>1. IsFiniteSet(sold)
    BY RowsAdd
  <2> QED BY ONLY <1>1, <1>5, <2>1, SumOfParts
<1>6. Total(DOMAIN shown, LAMBDA b : shown[b].revenue) = DayFigures(d, 0).revenue
  <2>1. [b \in DOMAIN shown |-> shown[b].revenue] = [b \in I |-> Sub(EachAmount, Part(paid, BarberOf, b))]
    BY <1>2
  <2> QED BY <1>3, <1>5, <2>1, RowsAdd DEF Total
<1>7. Total(DOMAIN shown, LAMBDA b : shown[b].sales) = DayFigures(d, 0).count
  <2>1. \A b : Cardinality(Part(paid, BarberOf, b)) = Sub(EachOne, Part(paid, BarberOf, b))
    BY <1>1, CountsAdd
  <2>2. [b \in DOMAIN shown |-> shown[b].sales] = [b \in I |-> Sub(EachOne, Part(paid, BarberOf, b))]
    BY <1>2, <2>1
  <2>3. Cardinality(paid) = Sub(EachOne, paid)
    BY <1>1, CountsAdd
  <2> QED BY <1>3, <1>5, <2>2, <2>3, RowsAdd DEF Total
<1>8. Total(DOMAIN shown, LAMBDA b : shown[b].earned) = Summary({d}, "LIST_PRICE").owed
  <2>1. [b \in DOMAIN shown |-> shown[b].earned] = [b \in I |-> shown[b].earned]
    BY <1>2
  <2> QED BY <1>4, <2>1 DEF Total
<1> QED BY <1>6, <1>7, <1>8 DEF InsightsAgree, shown

(* A sale that counts nowhere is on the list of its day and on today's. *)
LEMMA NoneIsLost ==
  ASSUME FiguresInv, NEW r \in sold
  PROVE  CountedOrAsked(r)
<1>1. /\ r.flagged \in BOOLEAN /\ r.day \in 0 .. Today /\ Today \in Nat
      /\ r.reviewed = Unreviewed \/ r.reviewed \in 0 .. Today
      /\ Unreviewed \notin 0 .. Today
  BY FiguresAssumption DEF FiguresInv, StoredSale, Unreviewed
<1>2. CASE r.flagged /\ r.reviewed = Unreviewed
  <2>1. {d \in 0 .. Today : CountedOn(r, d)} = {}
    BY <1>1, <1>2 DEF CountedOn
  <2>2. r \in Held(r.day, r.day) /\ r \in NeedsReview(r.day) /\ r \in NeedsReview(Today)
    BY <1>1, <1>2 DEF Held, NeedsReview
  <2> QED BY <2>1, <2>2 DEF CountedOrAsked
<1>3. CASE ~(r.flagged /\ r.reviewed = Unreviewed)
  <2>1. CountedDay(r) \in 0 .. Today
    BY <1>1, <1>3 DEF CountedDay
  <2>2. \A d : CountedOn(r, d) <=> d = CountedDay(r)
    BY <1>1 DEF CountedOn, CountedDay
  <2>3. {d \in 0 .. Today : CountedOn(r, d)} = {CountedDay(r)}
    BY <2>1, <2>2
  <2> QED BY <2>3 DEF CountedOrAsked
<1> QED BY <1>2, <1>3

-----------------------------------------------------------------------------
(* The rows stay well formed. *)

(* There are none at first. *)
LEMMA FiguresInvInit ==
  FiguresInit => FiguresInv
BY FS_EmptySet DEF FiguresInit, FiguresInv

(* Each step adds a row, or changes a sale to another well-formed one. *)
LEMMA FiguresInvStep ==
  FiguresInv /\ [FiguresNext]_figureVars => FiguresInv'
<1> SUFFICES ASSUME FiguresInv, [FiguresNext]_figureVars PROVE FiguresInv'
  OBVIOUS
<1>1. ASSUME NEW r \in NewSales, Sell(r) PROVE FiguresInv'
  <2>1. r \in StoredSale
    BY FiguresAssumption
  <2>2. IsFiniteSet(sold \cup {r})
    BY FS_AddElement DEF FiguresInv
  <2> QED BY <1>1, <2>1, <2>2 DEF Sell, FiguresInv
<1>2. ASSUME NEW r \in sold, NEW new \in StoredSale, Changed(r, new) PROVE FiguresInv'
  <2>1. IsFiniteSet((sold \ {r}) \cup {new})
    BY FS_AddElement, FS_RemoveElement DEF FiguresInv
  <2> QED BY <1>2, <2>1 DEF Changed, FiguresInv
<1>3. ASSUME NEW r \in sold, ConfirmPaid(r) PROVE FiguresInv'
  <2>1. [r EXCEPT !.status = "PAID"] \in StoredSale
    BY DEF FiguresInv, StoredSale
  <2> QED BY <1>2, <1>3, <2>1 DEF ConfirmPaid
<1>4. ASSUME NEW r \in sold, NEW d \in 0 .. Today, ReviewDate(r, d) PROVE FiguresInv'
  <2>1. d \in -1 .. Today
    BY FiguresAssumption
  <2>2. [r EXCEPT !.reviewed = d] \in StoredSale
    BY <2>1 DEF FiguresInv, StoredSale
  <2> QED BY <1>2, <1>4, <2>2 DEF ReviewDate
<1>5. ASSUME NEW p \in NewPayouts, PayOut(p) PROVE FiguresInv'
  <2>1. p \in StoredPayout
    BY FiguresAssumption
  <2>2. IsFiniteSet(paidOut \cup {p})
    BY FS_AddElement DEF FiguresInv
  <2>3. \A q \in paidOut : ~ (q.barber = p.barber /\ q.day = p.day)
    BY <1>5 DEF PayOut
  <2> QED BY <1>5, <2>1, <2>2, <2>3 DEF PayOut, FiguresInv
<1>6. ASSUME NEW c \in NewCounts, CountDrawer(c) PROVE FiguresInv'
  <2> DEFINE row == [day |-> c.day, revision |-> Cardinality(CountsOf(c.day)) + 1, petty |-> c.petty,
         variance |-> c.variance, expected |-> DayFigures(c.day, c.petty).drawer, saw |-> OnDay(c.day)]
  <2>1. Cardinality(CountsOf(c.day)) \in Nat
    BY FS_Subset, FS_CardinalityType DEF CountsOf, FiguresInv
  <2>2. row.petty \in Nat /\ row.revision \in Nat
    BY <2>1, FiguresAssumption
  <2> HIDE DEF row
  <2>3. IsFiniteSet(counts \cup {row})
    BY FS_AddElement DEF FiguresInv
  <2>4. counts' = counts \cup {row} /\ UNCHANGED <<sold, paidOut>>
    BY <1>6 DEF CountDrawer, row
  <2> QED BY <2>2, <2>3, <2>4 DEF FiguresInv
<1>7. CASE UNCHANGED figureVars
  BY <1>7 DEF figureVars, FiguresInv
<1> QED BY <1>1, <1>3, <1>4, <1>5, <1>6, <1>7 DEF FiguresNext

(* The figures of well-formed rows agree. *)
LEMMA AgreeInState ==
  FiguresInv => FiguresAgree
<1> SUFFICES ASSUME FiguresInv PROVE FiguresAgree
  OBVIOUS
<1>1. \A d \in PageDates : d \in Nat
  BY FiguresAssumption
<1>2. \A d \in PageDates : TrendsAgree(d) /\ InsightsAgree(d) /\ \A base \in Bases : SummaryAgrees(d, base)
  BY <1>1, TrendsHold, InsightsHold, SummaryHolds
<1>3. \A r \in sold : CountedOrAsked(r)
  BY NoneIsLost
<1> QED BY <1>2, <1>3 DEF FiguresAgree

(* The trends, the ledger's summary, the insights and the drawer's figures are sums of the
   same sales, each counted once, on one day, however it was split by hour, barber, method
   or service, and whatever was reviewed, confirmed, discounted or paid out (lib/trends.ts,
   ledger-summary, insights). *)
THEOREM PagesAgree == FiguresSpec => []FiguresAgree
<1>1. FiguresInit => FiguresInv
  BY FiguresInvInit
<1>2. FiguresInv /\ [FiguresNext]_figureVars => FiguresInv'
  BY FiguresInvStep
<1>3. FiguresInv => FiguresAgree
  BY AgreeInState
<1> QED BY <1>1, <1>2, <1>3, PTL DEF FiguresSpec

-----------------------------------------------------------------------------
(* What FiguresTypeOK says beyond FiguresInv. *)
FiguresRest ==
  /\ Cardinality(sold) <= MaxSold
  /\ Cardinality(counts) <= MaxCounts
  /\ counts \subseteq StoredCount

(* The expected drawer is an amount, perhaps a negative one. *)
LEMMA DrawerIsInt ==
  ASSUME FiguresInv, NEW d, NEW petty \in Nat
  PROVE  DayFigures(d, petty).drawer \in Int
<1> DEFINE cash == {r \in PaidSales(d) : r.method \in {"CASH"}}
           tipped == {r \in PaidSales(d) : r.method = "CASH"}
           marked == {p \in PayoutsOn(d) : p.marked}
           g == [p \in marked |-> p.cash]
<1>1. cash \in SUBSET sold /\ tipped \in SUBSET sold /\ marked \in SUBSET paidOut
  BY DEF PaidSales, OnDay, PayoutsOn
<1>2. IsFiniteSet(marked) /\ IsFiniteSet(cash) /\ IsFiniteSet(tipped)
  <2> HIDE DEF marked, cash, tipped
  <2> QED BY <1>1, FS_Subset DEF FiguresInv
<1>3. g \in [marked -> Nat]
  BY <1>1 DEF FiguresInv, StoredPayout
<1>4. DayFigures(d, petty).drawer
        = Total(cash, AmountOf) + ((Total(tipped, TipOf) - SumOf(g)) - petty)
  BY DEF DayFigures, FiguresOf, Handed, Total
<1>5. SumOf(g) \in Nat
  <2> HIDE DEF g, marked
  <2> QED BY <1>2, <1>3, SumIsNat
<1>6. Total(cash, AmountOf) \in Nat
  <2> DEFINE a == [x \in cash |-> AmountOf(x)]
  <2>1. a \in [cash -> Nat]
    BY <1>1, RowMoney DEF FiguresInv
  <2>2. Total(cash, AmountOf) = SumOf(a)
    BY DEF Total
  <2> HIDE DEF a, cash
  <2> QED BY <1>2, <2>1, <2>2, SumIsNat
<1>7. Total(tipped, TipOf) \in Nat
  <2> DEFINE a == [x \in tipped |-> TipOf(x)]
  <2>1. a \in [tipped -> Nat]
    BY <1>1, RowMoney DEF FiguresInv
  <2>2. Total(tipped, TipOf) = SumOf(a)
    BY DEF Total
  <2> HIDE DEF a, tipped
  <2> QED BY <1>2, <2>1, <2>2, SumIsNat
<1> HIDE DEF cash, tipped, marked, g
<1> QED BY <1>4, <1>5, <1>6, <1>7

(* They hold in the beginning. *)
LEMMA FiguresRestInit == FiguresInit => FiguresRest
<1> SUFFICES ASSUME FiguresInit PROVE FiguresRest
  OBVIOUS
<1>1. MaxSold \in Nat /\ MaxCounts \in Nat
  BY FiguresAssumption
<1>2. Cardinality(sold) = 0 /\ Cardinality(counts) = 0 /\ counts = {}
  BY FS_EmptySet DEF FiguresInit
<1> QED BY <1>1, <1>2 DEF FiguresRest

(* Every step keeps them. *)
LEMMA FiguresRestStep == FiguresRest /\ FiguresInv /\ [FiguresNext]_figureVars => FiguresRest'
<1> SUFFICES ASSUME FiguresRest, FiguresInv, [FiguresNext]_figureVars PROVE FiguresRest'
  OBVIOUS
<1>0. /\ MaxSold \in Nat /\ MaxCounts \in Nat
      /\ Cardinality(sold) \in Nat /\ Cardinality(counts) \in Nat
      /\ Cardinality(sold) <= MaxSold
      /\ IsFiniteSet(sold) /\ IsFiniteSet(counts)
  BY FiguresAssumption, FS_CardinalityType DEF FiguresInv, FiguresRest
<1>1. ASSUME NEW r \in NewSales, Sell(r) PROVE FiguresRest'
  <2>1. Cardinality(sold \cup {r}) = IF r \in sold THEN Cardinality(sold) ELSE Cardinality(sold) + 1
    BY <1>0, FS_AddElement
  <2>2. Cardinality(sold \cup {r}) <= MaxSold
    BY <1>0, <1>1, <2>1 DEF Sell
  <2> QED BY <1>1, <2>2 DEF Sell, FiguresRest
<1>2. ASSUME NEW r \in sold, NEW new, Changed(r, new) PROVE FiguresRest'
  <2>1. IsFiniteSet(sold \ {r}) /\ Cardinality(sold \ {r}) = Cardinality(sold) - 1
    BY <1>0, FS_RemoveElement
  <2>2. Cardinality((sold \ {r}) \cup {new}) <= Cardinality(sold)
    <3>1. Cardinality((sold \ {r}) \cup {new})
            = IF new \in sold \ {r} THEN Cardinality(sold \ {r}) ELSE Cardinality(sold \ {r}) + 1
      BY <2>1, FS_AddElement
    <3> QED BY <1>0, <2>1, <3>1
  <2>3. IsFiniteSet((sold \ {r}) \cup {new})
    BY <2>1, FS_AddElement
  <2>4. Cardinality((sold \ {r}) \cup {new}) <= MaxSold
    BY <1>0, <2>2, <2>3, FS_CardinalityType
  <2> QED BY <1>2, <2>4 DEF Changed, FiguresRest
<1>3. ASSUME NEW r \in sold, ConfirmPaid(r) \/ (\E d \in 0 .. Today : ReviewDate(r, d)) PROVE FiguresRest'
  BY <1>2, <1>3 DEF ConfirmPaid, ReviewDate
<1>4. ASSUME NEW p \in NewPayouts, PayOut(p) PROVE FiguresRest'
  BY <1>4 DEF PayOut, FiguresRest
<1>5. ASSUME NEW c \in NewCounts, CountDrawer(c) PROVE FiguresRest'
  <2> DEFINE row == [day |-> c.day, revision |-> Cardinality(CountsOf(c.day)) + 1, petty |-> c.petty,
         variance |-> c.variance, expected |-> DayFigures(c.day, c.petty).drawer, saw |-> OnDay(c.day)]
  <2>1. Cardinality(CountsOf(c.day)) \in Nat /\ Cardinality(CountsOf(c.day)) <= Cardinality(counts)
    <3>1. CountsOf(c.day) \in SUBSET counts
      BY DEF CountsOf
    <3> QED BY <1>0, <3>1, FS_Subset, FS_CardinalityType
  <2>2. Cardinality(counts) < MaxCounts
    BY <1>5 DEF CountDrawer
  <2>3. Cardinality(CountsOf(c.day)) + 1 \in 1 .. MaxCounts
    BY <1>0, <2>1, <2>2
  <2>4. c.day \in 0 .. Today /\ c.petty \in Nat /\ c.variance \in Int
    BY FiguresAssumption
  <2>5. DayFigures(c.day, c.petty).drawer \in Int
    BY <2>4, DrawerIsInt
  <2>6. OnDay(c.day) \in SUBSET StoredSale
    BY DEF OnDay, FiguresInv
  <2>7. row \in StoredCount
    BY <2>3, <2>4, <2>5, <2>6 DEF StoredCount
  <2> HIDE DEF row
  <2>8. Cardinality(counts \cup {row}) <= MaxCounts
    <3>1. Cardinality(counts \cup {row}) = IF row \in counts THEN Cardinality(counts) ELSE Cardinality(counts) + 1
      BY <1>0, FS_AddElement
    <3> QED BY <1>0, <2>2, <3>1
  <2>9. counts' = counts \cup {row} /\ UNCHANGED <<sold, paidOut>>
    BY <1>5 DEF CountDrawer, row
  <2> QED BY <2>7, <2>8, <2>9 DEF FiguresRest
<1>6. CASE UNCHANGED figureVars
  BY <1>6 DEF figureVars, FiguresRest
<1> QED BY <1>1, <1>3, <1>4, <1>5, <1>6 DEF FiguresNext

(* With the invariant they are all the types. *)
LEMMA FiguresTyped == FiguresInv /\ FiguresRest => FiguresTypeOK
BY DEF FiguresInv, FiguresRest, FiguresTypeOK, StoredCount

(* The sales, payouts and saved counts the pages sum over have their types. *)
THEOREM FiguresTypes == FiguresSpec => []FiguresTypeOK
<1>1. FiguresInit => FiguresInv /\ FiguresRest
  BY FiguresInvInit, FiguresRestInit
<1>2. (FiguresInv /\ FiguresRest) /\ [FiguresNext]_figureVars => (FiguresInv /\ FiguresRest)'
  BY FiguresInvStep, FiguresRestStep
<1>3. FiguresInv /\ FiguresRest => FiguresTypeOK
  BY FiguresTyped
<1> QED BY <1>1, <1>2, <1>3, PTL DEF FiguresSpec

-----------------------------------------------------------------------------
(* The insights page: its rows were read one query after the other, so what is said of
   them is said of rows some of which are older than others. *)

(* A sale that is paid and counted is written no more. *)
Final(r) == r.status = "PAID" /\ (r.flagged => r.reviewed # Unreviewed)

SalesApart(S) == \A r, s \in S : r.id = s.id => r = s
OnlyQrphWaits(S) == \A r \in S : r.status = "PAID" \/ r.method = "QRPH"

(* A saved count saw sales of its day; those that were paid are there still, and the
   others with the same id and method. *)
CountsRemember ==
  \A c \in counts : \A s \in c.saw :
    /\ CountedOn(s, c.day)
    /\ s.status = "PAID" => s \in sold
    /\ s.status = "PAID" \/ s.method = "QRPH"
    /\ \E r \in sold : r.id = s.id /\ r.method = s.method

(* No query is answered before those it waits for; a failed load has nothing. *)
ReadsInOrder ==
  /\ page.answered \subseteq Reads
  /\ \A q \in page.answered : After(q) \subseteq page.answered
  /\ \A load \in page.failed : page.answered \cap ReadsOf(load) = {}
  /\ page.open \/ page.answered = {}

(* Rows that are final when they are read stay true. *)
RowsKept(x, d) ==
  /\ x.saved \subseteq counts /\ \A c \in x.saved : c.day = d
  /\ PaidRows(x) \subseteq sold /\ SalesApart(x.sales) /\ OnlyQrphWaits(x.sales)
  /\ \A r \in x.sales : CountedOn(r, d)
  /\ \A r \in x.rung \cup x.owed : r \in sold /\ r.status = "PAID" /\ CountedOn(r, d)
  /\ \A r \in x.period : r \in sold /\ r.status = "PAID" /\ CountedIn(r, First(d), d)
  /\ \A r \in x.before : r \in sold /\ r.status = "PAID" /\ CountedIn(r, d - (2 * RangeDays - 1), d - RangeDays)
  /\ x.marked \cup x.ledger \subseteq paidOut

(* What a later query finds, given what an earlier one has found. *)
ReadAfter(x, A) ==
  /\ "sales" \in A => \A c \in x.saved : {s \in c.saw : s.status = "PAID"} \subseteq x.sales
  /\ "rung" \in A => PaidRows(x) \subseteq x.rung
  /\ "owed" \in A => PaidRows(x) \subseteq x.owed
  /\ "held" \in A => Ids(x.held) \cap Ids(PaidRows(x)) = {}
  /\ "late" \in A => \A c \in x.saved : PaidRows(x) \ c.saw \subseteq x.late

(* A sale not written since was found by every query that looks for it. *)
WaitsIn(r, first, last) == r.flagged /\ r.reviewed = Unreviewed /\ r.day \in first .. last
Untouched(x, A, d) ==
  \A r \in sold : r.id \notin touched =>
    /\ "sales" \in A => (r \in x.sales <=> CountedOn(r, d))
    /\ "held" \in A => (r \in x.held <=> WaitsIn(r, d, d))
    /\ "period" \in A => (r \in x.period <=> r.status = "PAID" /\ CountedIn(r, First(d), d))
    /\ "waiting" \in A => (r \in x.waiting <=> WaitsIn(r, First(d), d))

PageInv ==
  /\ SalesApart(sold) /\ OnlyQrphWaits(sold) /\ CountsRemember /\ ReadsInOrder
  /\ RowsKept(page.rows, page.day)
  /\ ReadAfter(page.rows, page.answered)
  /\ Untouched(page.rows, page.answered, page.day)

(* A step of the shop stores a new sale, or turns one that is not final into another with
   its id and method, or leaves the sales alone. *)
NewRow(n) ==
  /\ \A s \in sold : s.id # n.id
  /\ sold' = sold \cup {n} /\ (n.status = "PAID" \/ n.method = "QRPH")
OtherRow(r, n) ==
  /\ sold' = (sold \ {r}) \cup {n}
  /\ n.id = r.id /\ n.method = r.method /\ (r.status = "PAID" => n.status = "PAID") /\ ~Final(r)

(* So says each step of the shop. *)
LEMMA SalesStep ==
  ASSUME FiguresInv, [FiguresNext]_figureVars
  PROVE  /\ \/ sold' = sold
            \/ counts' = counts /\ \E n \in StoredSale : NewRow(n)
            \/ counts' = counts /\ \E r \in sold, n \in StoredSale : OtherRow(r, n)
         /\ counts \subseteq counts' /\ paidOut \subseteq paidOut'
         /\ \A c \in counts' \ counts : c.saw = OnDay(c.day)
<1>1. ASSUME NEW r \in NewSales, Sell(r) PROVE counts' = counts /\ paidOut' = paidOut /\ r \in StoredSale /\ NewRow(r)
  BY <1>1, FiguresAssumption, InsightsAssumption DEF Sell, NewRow
<1>2. ASSUME NEW r \in sold, ConfirmPaid(r)
      PROVE  counts' = counts /\ paidOut' = paidOut /\ \E n \in StoredSale : OtherRow(r, n)
  <2> DEFINE n == [r EXCEPT !.status = "PAID"]
  <2>1. n \in StoredSale /\ n.id = r.id /\ n.method = r.method /\ n.status = "PAID"
    BY DEF FiguresInv, StoredSale
  <2> HIDE DEF n
  <2>2. sold' = (sold \ {r}) \cup {n} /\ counts' = counts /\ paidOut' = paidOut
    BY <1>2 DEF ConfirmPaid, Changed, n
  <2>3. ~Final(r)
    BY <1>2 DEF ConfirmPaid, Final
  <2> QED BY <2>1, <2>2, <2>3 DEF OtherRow
<1>3. ASSUME NEW r \in sold, NEW d \in 0 .. Today, ReviewDate(r, d)
      PROVE  counts' = counts /\ paidOut' = paidOut /\ \E n \in StoredSale : OtherRow(r, n)
  <2> DEFINE n == [r EXCEPT !.reviewed = d]
  <2>0. d \in -1 .. Today
    BY FiguresAssumption
  <2>1. n \in StoredSale /\ n.id = r.id /\ n.method = r.method /\ n.status = r.status
    BY <2>0 DEF FiguresInv, StoredSale
  <2> HIDE DEF n
  <2>2. sold' = (sold \ {r}) \cup {n} /\ counts' = counts /\ paidOut' = paidOut
    BY <1>3 DEF ReviewDate, Changed, n
  <2>3. ~Final(r)
    BY <1>3 DEF ReviewDate, Final
  <2> QED BY <2>1, <2>2, <2>3 DEF OtherRow
<1>4. ASSUME NEW p \in NewPayouts, PayOut(p) PROVE sold' = sold /\ counts' = counts /\ paidOut \subseteq paidOut'
  BY <1>4 DEF PayOut
<1>5. ASSUME NEW c \in NewCounts, CountDrawer(c)
      PROVE  /\ sold' = sold /\ paidOut' = paidOut /\ counts \subseteq counts'
             /\ \A o \in counts' \ counts : o.saw = OnDay(o.day)
  BY <1>5 DEF CountDrawer
<1>6. CASE UNCHANGED figureVars
  BY <1>6 DEF figureVars
<1>7. CASE FiguresNext
  BY <1>1, <1>2, <1>3, <1>4, <1>5, <1>7 DEF FiguresNext
<1> QED BY <1>6, <1>7

(* So final sales stay, ids and methods too, and a paid sale stays paid. *)
LEMMA SalesStay ==
  ASSUME FiguresInv, SalesApart(sold), OnlyQrphWaits(sold), [FiguresNext]_figureVars
  PROVE  /\ \A r \in sold : Final(r) => r \in sold'
         /\ \A r \in sold : \E n \in sold' : n.id = r.id /\ n.method = r.method
         /\ SalesApart(sold') /\ OnlyQrphWaits(sold')
<1>1. CASE sold' = sold
  BY <1>1
<1>2. ASSUME NEW n \in StoredSale, NewRow(n)
      PROVE  /\ \A r \in sold : r \in sold'
             /\ SalesApart(sold') /\ OnlyQrphWaits(sold')
  BY <1>2 DEF NewRow, SalesApart, OnlyQrphWaits
<1>3. ASSUME NEW r \in sold, NEW n \in StoredSale, OtherRow(r, n)
      PROVE  /\ \A s \in sold : s # r => s \in sold'
             /\ n \in sold' /\ n.id = r.id /\ n.method = r.method /\ ~Final(r)
             /\ SalesApart(sold') /\ OnlyQrphWaits(sold')
  BY <1>3 DEF OtherRow, SalesApart, OnlyQrphWaits
<1> QED BY <1>1, <1>2, <1>3, SalesStep

(* The last count of a day that has one. *)
LEMMA LatestIsThere ==
  ASSUME FiguresInv, NEW d, CountsOf(d) # {}
  PROVE  LatestCount(d) \in counts /\ LatestCount(d).day = d
<1> DEFINE S == {c.revision : c \in CountsOf(d)}
<1>1. CountsOf(d) \in SUBSET counts /\ \A c \in CountsOf(d) : c.petty \in Nat /\ c.revision \in Nat
  BY DEF FiguresInv, CountsOf
<1>2. IsFiniteSet(CountsOf(d))
  BY <1>1, FS_Subset DEF FiguresInv
<1>3. IsFiniteSet(S)
  <2> DEFINE f == [c \in CountsOf(d) |-> c.revision]
  <2>1. f \in Surjection(CountsOf(d), S)
    BY DEF Surjection
  <2> HIDE DEF f, S
  <2> QED BY ONLY <1>2, <2>1, FS_Surjection
<1>4. S \subseteq Int /\ S # {}
  BY <1>1
<1> HIDE DEF S
<1>5. Max(S) \in S /\ \A x \in S : x <= Max(S)
  BY ONLY <1>3, <1>4, MaxOfFinite
<1>6. \E c \in CountsOf(d) : \A o \in CountsOf(d) : o.revision <= c.revision
  BY <1>5 DEF S
<1>7. LatestCount(d) \in CountsOf(d)
  BY <1>6 DEF LatestCount
<1> QED BY <1>7 DEF CountsOf

(* What the invariant says of the tables alone. *)
LEMMA TablesRemember ==
  ASSUME FiguresInv, FiguresRest, SalesApart(sold), OnlyQrphWaits(sold), CountsRemember,
         [FiguresNext]_figureVars
  PROVE  CountsRemember'
<1>1. \A r \in sold : \E n \in sold' : n.id = r.id /\ n.method = r.method
  BY SalesStay
<1>2. ASSUME NEW c \in counts, NEW s \in c.saw
      PROVE  /\ CountedOn(s, c.day)
             /\ s.status = "PAID" => s \in sold'
             /\ s.status = "PAID" \/ s.method = "QRPH"
             /\ \E r \in sold' : r.id = s.id /\ r.method = s.method
  <2>1. /\ CountedOn(s, c.day)
        /\ s.status = "PAID" => s \in sold
        /\ s.status = "PAID" \/ s.method = "QRPH"
        /\ \E r \in sold : r.id = s.id /\ r.method = s.method
    BY DEF CountsRemember
  <2>2. s.status = "PAID" => s \in sold'
    <3> SUFFICES ASSUME s.status = "PAID" PROVE s \in sold'
      OBVIOUS
    <3>1. s \in sold /\ s \in StoredSale
      BY <2>1 DEF FiguresInv
    <3>2. CASE Final(s)
      BY <3>1, <3>2, SalesStay
    <3>3. CASE ~Final(s)
      <4>1. s.flagged /\ s.reviewed = Unreviewed /\ CountedOn(s, c.day)
        BY <2>1, <3>3 DEF Final
      <4>2. c.day = Unreviewed
        BY <4>1 DEF CountedOn
      <4>3. c.day \in Nat
        BY DEF FiguresRest, StoredCount
      <4> QED BY <4>2, <4>3 DEF Unreviewed
    <3> QED BY <3>2, <3>3
  <2> QED BY <1>1, <2>1, <2>2
<1>3. ASSUME NEW c \in counts' \ counts, NEW s \in c.saw
      PROVE  /\ CountedOn(s, c.day)
             /\ s.status = "PAID" => s \in sold'
             /\ s.status = "PAID" \/ s.method = "QRPH"
             /\ \E r \in sold' : r.id = s.id /\ r.method = s.method
  <2>1. c.saw = OnDay(c.day) /\ counts' # counts
    BY SalesStep
  <2>2. sold' = sold
    BY <2>1, SalesStep
  <2>3. s \in sold /\ CountedOn(s, c.day)
    BY <2>1 DEF OnDay
  <2> QED BY <2>2, <2>3 DEF OnlyQrphWaits
<1> QED BY <1>2, <1>3 DEF CountsRemember, CountedOn

(* A query finds what there is. *)
LEMMA FindsAre ==
  /\ Finds["saved"] = (IF CountsOf(page.day) = {} THEN {} ELSE {LatestCount(page.day)})
  /\ Finds["sales"] = OnDay(page.day)
  /\ Finds["marked"] = {p \in PayoutsOn(page.day) : p.marked}
  /\ Finds["late"] = UNION {OnDay(page.day) \ c.saw : c \in page.rows.saved}
  /\ Finds["owed"] = PaidSales(page.day) /\ Finds["rung"] = PaidSales(page.day)
  /\ Finds["ledger"] = PayoutsOn(page.day) /\ Finds["held"] = Held(page.day, page.day)
  /\ Finds["period"] = PaidIn(First(page.day), page.day)
  /\ Finds["before"] = SalesBefore(page.day)
  /\ Finds["waiting"] = Held(First(page.day), page.day)
BY DEF Finds

(* A query's rows have their type. *)
LEMMA FindsTyped ==
  ASSUME FiguresInv, FiguresRest, page.rows.saved \subseteq counts, NEW q \in Reads
  PROVE  Finds[q] \in SUBSET AnyRow
<1>1. sold \subseteq StoredSale /\ paidOut \subseteq StoredPayout /\ counts \subseteq StoredCount
  BY DEF FiguresInv, FiguresRest
<1>2. /\ \A d : OnDay(d) \subseteq sold /\ PaidSales(d) \subseteq sold /\ SalesBefore(d) \subseteq sold
      /\ \A d : PayoutsOn(d) \subseteq paidOut
      /\ \A first, last : PaidIn(first, last) \subseteq sold /\ Held(first, last) \subseteq sold
  BY DEF OnDay, PaidSales, SalesBefore, PayoutsOn, PaidIn, Held
<1>3. Finds["saved"] \subseteq counts
  BY LatestIsThere, FindsAre
<1>4. Finds["late"] \subseteq sold
  BY <1>2, FindsAre
<1>5. Finds["marked"] \subseteq paidOut
  BY <1>2, FindsAre
<1>6. q \in {"saved", "sales", "marked", "late", "owed", "rung", "ledger", "held", "period", "before", "waiting"}
  BY DEF Reads, DayReads, TrendReads
<1>7. Finds[q] \subseteq (sold \cup paidOut) \cup counts
  BY <1>2, <1>3, <1>4, <1>5, <1>6, FindsAre
<1> QED BY <1>1, <1>7 DEF AnyRow

PageRecord ==
  [open : BOOLEAN, day : ShownDays \cup {Today}, answered : SUBSET Reads,
   failed : SUBSET Loads, rows : [Reads -> SUBSET AnyRow]]

InsightsInv == FiguresInv /\ FiguresRest /\ InsightsTypeOK /\ PageInv

(* A page just asked for. *)
LEMMA NoPageTyped ==
  ASSUME NEW d \in ShownDays \cup {Today}, NEW o \in BOOLEAN
  PROVE  NoPage \in PageRecord /\ [NoPage EXCEPT !.open = o, !.day = d] \in PageRecord
<1>1. NoRows \in [Reads -> SUBSET AnyRow]
  BY DEF NoRows
<1>2. NoPage \in PageRecord
  BY <1>1 DEF NoPage, PageRecord
<1> QED BY <1>2 DEF PageRecord

(* A page nothing is read for yet. *)
LEMMA NothingRead ==
  ASSUME SalesApart(sold), OnlyQrphWaits(sold), CountsRemember,
         page.answered = {}, page.failed = {}, page.rows = NoRows
  PROVE  PageInv
<1>1. \A q \in Reads : page.rows[q] = {}
  BY DEF NoRows
<1>2. /\ page.rows.saved = {} /\ page.rows.sales = {} /\ page.rows.marked = {} /\ page.rows.late = {}
      /\ page.rows.owed = {} /\ page.rows.rung = {} /\ page.rows.ledger = {} /\ page.rows.held = {}
      /\ page.rows.period = {} /\ page.rows.before = {} /\ page.rows.waiting = {}
  BY <1>1 DEF Reads, DayReads, TrendReads
<1>3. PaidRows(page.rows) = {}
  BY <1>2 DEF PaidRows
<1>4. RowsKept(page.rows, page.day)
  BY <1>2, <1>3 DEF RowsKept, SalesApart, OnlyQrphWaits
<1>5. ReadAfter(page.rows, page.answered) /\ Untouched(page.rows, page.answered, page.day) /\ ReadsInOrder
  BY DEF ReadAfter, Untouched, ReadsInOrder
<1> QED BY <1>4, <1>5 DEF PageInv

(* Nothing is sold and no page is open. *)
LEMMA InsightsInvInit == InsightsInit => InsightsInv
<1> SUFFICES ASSUME InsightsInit PROVE InsightsInv
  OBVIOUS
<1>1. FiguresInit /\ page = NoPage /\ touched = {} /\ meanwhile = 0
  BY DEF InsightsInit
<1>2. FiguresInv /\ FiguresRest /\ FiguresTypeOK
  BY <1>1, FiguresInvInit, FiguresRestInit, FiguresTyped
<1>3. page \in PageRecord
  <2>1. NoRows \in [Reads -> SUBSET AnyRow]
    BY DEF NoRows
  <2> QED BY <1>1, <2>1 DEF PageRecord, NoPage
<1>4. meanwhile \in 0 .. MaxMeanwhile
  BY <1>1, InsightsAssumption
<1>5. page.answered = {} /\ page.failed = {} /\ page.rows = NoRows
  BY <1>1 DEF NoPage
<1>6. SalesApart(sold) /\ OnlyQrphWaits(sold) /\ CountsRemember
  BY <1>1 DEF FiguresInit, SalesApart, OnlyQrphWaits, CountsRemember
<1>7. PageInv
  BY <1>5, <1>6, NothingRead
<1> QED BY <1>1, <1>2, <1>3, <1>4, <1>7 DEF InsightsInv, InsightsTypeOK, PageRecord

(* The tables keep their types. *)
LEMMA TypesKept ==
  ASSUME InsightsInv, [FiguresNext]_figureVars
  PROVE  FiguresInv' /\ FiguresRest' /\ FiguresTypeOK'
<1>1. FiguresInv' /\ FiguresRest'
  BY FiguresInvStep, FiguresRestStep DEF InsightsInv
<1>2. (FiguresInv /\ FiguresRest => FiguresTypeOK)'
  BY FiguresTyped, PTL
<1> QED BY <1>1, <1>2

(* The page is asked for. *)
LEMMA AskKeeps ==
  ASSUME InsightsInv, NEW d \in Offered, NEW isOwner \in BOOLEAN, Ask(d, isOwner)
  PROVE  InsightsInv'
<1>1. /\ page' = [NoPage EXCEPT !.open = isOwner, !.day = d] /\ touched' = {} /\ meanwhile' = 0
      /\ UNCHANGED figureVars
  BY DEF Ask
<1>2. sold' = sold /\ paidOut' = paidOut /\ counts' = counts
  BY <1>1 DEF figureVars
<1>3. page' \in PageRecord
  BY <1>1, NoPageTyped DEF Offered
<1>4. page'.answered = {} /\ page'.failed = {} /\ page'.rows = NoRows
  BY <1>1 DEF NoPage
<1>5. (SalesApart(sold) /\ OnlyQrphWaits(sold) /\ CountsRemember)'
  BY <1>2 DEF InsightsInv, PageInv, CountsRemember, CountedOn, SalesApart, OnlyQrphWaits
<1>6. PageInv'
  <2>1. (SalesApart(sold) /\ OnlyQrphWaits(sold) /\ CountsRemember
         /\ page.answered = {} /\ page.failed = {} /\ page.rows = NoRows => PageInv)'
    BY NothingRead, PTL
  <2>2. NoRows' = NoRows
    BY DEF NoRows
  <2> QED BY <1>4, <1>5, <2>1, <2>2
<1>7. meanwhile' \in 0 .. MaxMeanwhile /\ touched' \subseteq Nat
  BY <1>1, InsightsAssumption
<1> QED BY <1>1, <1>3, <1>6, <1>7, TypesKept DEF InsightsInv, InsightsTypeOK, PageRecord

(* The invariant after a step that leaves the tables alone. *)
LEMMA PageInvAfter ==
  ASSUME sold' = sold, paidOut' = paidOut, counts' = counts, touched' = touched,
         NEW y, NEW B, NEW d, page'.rows = y, page'.answered = B, page'.day = d,
         SalesApart(sold), OnlyQrphWaits(sold), CountsRemember, ReadsInOrder',
         RowsKept(y, d), ReadAfter(y, B), Untouched(y, B, d)
  PROVE  PageInv'
<1>1. SalesApart(sold)' /\ OnlyQrphWaits(sold)'
  OBVIOUS
<1>2. CountsRemember'
  BY DEF CountsRemember, CountedOn
<1>3. RowsKept(page.rows, page.day)'
  BY DEF RowsKept, SalesApart, OnlyQrphWaits, CountedOn, CountedIn, PaidRows, First
<1>4. ReadAfter(page.rows, page.answered)'
  BY DEF ReadAfter, PaidRows, Ids
<1>5. Untouched(page.rows, page.answered, page.day)'
  BY DEF Untouched, CountedOn, CountedIn, WaitsIn, First
<1> QED BY <1>1, <1>2, <1>3, <1>4, <1>5 DEF PageInv

(* The rows after a query. *)
LEMMA AnswerKeeps ==
  ASSUME InsightsInv, NEW load \in Loads, NEW q \in Reads, Answer(load, q)
  PROVE  InsightsInv'
<1> DEFINE x == page.rows
           y == [page.rows EXCEPT ![q] = Finds[q]]
           A == page.answered
           B == page.answered \cup {q}
           d == page.day
<1>1. /\ page.open /\ load \notin page.failed /\ q \in ReadsOf(load) /\ q \notin A /\ After(q) \subseteq A
      /\ page' = [page EXCEPT !.answered = B, !.rows[q] = Finds[q]]
      /\ UNCHANGED <<figureVars, touched, meanwhile>>
  BY DEF Answer
<1>2. page \in PageRecord /\ FiguresInv /\ FiguresRest /\ PageInv
  BY DEF InsightsInv, InsightsTypeOK, PageRecord
<1>3. x \in [Reads -> SUBSET AnyRow] /\ A \subseteq Reads /\ page.failed \subseteq Loads
  BY <1>2 DEF PageRecord
<1>4. Finds[q] \in SUBSET AnyRow
  BY <1>2, FindsTyped DEF PageInv, RowsKept
<1>5. /\ page' \in PageRecord /\ page'.rows = y /\ page'.answered = B /\ page'.day = d
      /\ page'.failed = page.failed /\ page'.open
  BY <1>1, <1>2, <1>3, <1>4 DEF PageRecord
<1>6. sold' = sold /\ paidOut' = paidOut /\ counts' = counts /\ touched' = touched /\ meanwhile' = meanwhile
  BY <1>1 DEF figureVars
<1>7. \A p \in Reads : y[p] = IF p = q THEN Finds[q] ELSE x[p]
  BY <1>3
<1>8. /\ y.saved = (IF q = "saved" THEN Finds["saved"] ELSE x.saved)
      /\ y.sales = (IF q = "sales" THEN Finds["sales"] ELSE x.sales)
      /\ y.marked = (IF q = "marked" THEN Finds["marked"] ELSE x.marked)
      /\ y.late = (IF q = "late" THEN Finds["late"] ELSE x.late)
      /\ y.owed = (IF q = "owed" THEN Finds["owed"] ELSE x.owed)
      /\ y.rung = (IF q = "rung" THEN Finds["rung"] ELSE x.rung)
      /\ y.ledger = (IF q = "ledger" THEN Finds["ledger"] ELSE x.ledger)
      /\ y.held = (IF q = "held" THEN Finds["held"] ELSE x.held)
      /\ y.period = (IF q = "period" THEN Finds["period"] ELSE x.period)
      /\ y.before = (IF q = "before" THEN Finds["before"] ELSE x.before)
      /\ y.waiting = (IF q = "waiting" THEN Finds["waiting"] ELSE x.waiting)
  BY <1>7 DEF Reads, DayReads, TrendReads
<1>9. SalesApart(sold) /\ OnlyQrphWaits(sold) /\ CountsRemember /\ ReadsInOrder
      /\ RowsKept(x, d) /\ ReadAfter(x, A) /\ Untouched(x, A, d)
  BY <1>2 DEF PageInv
<1>10. /\ q = "saved" => "sales" \notin A
       /\ q \in {"saved", "sales"} => {"rung", "owed", "held", "late"} \cap A = {}
       /\ q \in {"rung", "owed", "held", "late"} => "sales" \in A /\ "saved" \in A
       /\ q = "sales" => "saved" \in A
  <2>1. \A p \in A : After(p) \subseteq A
    BY <1>9 DEF ReadsInOrder
  <2>2. After("sales") = {"saved"} /\ \A p \in {"rung", "owed", "held", "late"} : After(p) = {"sales", "marked"}
    BY DEF After
  <2>3. "sales" \in A => "saved" \in A
    BY <2>1, <2>2
  <2> QED BY <1>1, <2>1, <2>2, <2>3
<1>11. /\ OnDay(d) = {r \in sold : CountedOn(r, d)}
       /\ PaidSales(d) = {r \in sold : CountedOn(r, d) /\ r.status = "PAID"}
       /\ PayoutsOn(d) \subseteq paidOut
       /\ \A first, last : PaidIn(first, last) = {r \in sold : CountedIn(r, first, last) /\ r.status = "PAID"}
       /\ \A first, last : Held(first, last) = {r \in sold : WaitsIn(r, first, last)}
       /\ SalesBefore(d) = PaidIn(d - (2 * RangeDays - 1), d - RangeDays)
  BY DEF OnDay, PaidSales, PayoutsOn, PaidIn, Held, WaitsIn, SalesBefore
<1>12. PaidRows(y) = {r \in y.sales : r.status = "PAID"} /\ PaidRows(x) = {r \in x.sales : r.status = "PAID"}
  BY DEF PaidRows
<1>13. q = "sales" => PaidRows(y) = PaidSales(d)
  BY <1>8, <1>11, <1>12, FindsAre
<1>14. q # "sales" => PaidRows(y) = PaidRows(x) /\ y.sales = x.sales
  BY <1>8, <1>12
<1>15. ReadsInOrder'
  <2>1. \A other \in page.failed : B \cap ReadsOf(other) = {}
    <3>1. \A other \in page.failed : q \notin ReadsOf(other)
      BY <1>1, <1>3 DEF Loads, ReadsOf, DayReads, TrendReads
    <3> QED BY <1>9, <3>1 DEF ReadsInOrder
  <2>2. B \subseteq Reads /\ \A p \in B : After(p) \subseteq B
    BY <1>1, <1>3, <1>9 DEF ReadsInOrder
  <2> QED BY <1>5, <2>1, <2>2 DEF ReadsInOrder
<1> HIDE DEF y, x, B, A, d
<1>16. \A p : p \in B <=> p \in A \/ p = q
  BY DEF A, B
<1>17. /\ "sales" \in A => \A c \in x.saved : {s \in c.saw : s.status = "PAID"} \subseteq x.sales
       /\ "rung" \in A => PaidRows(x) \subseteq x.rung
       /\ "owed" \in A => PaidRows(x) \subseteq x.owed
       /\ "held" \in A => Ids(x.held) \cap Ids(PaidRows(x)) = {}
       /\ "late" \in A => \A c \in x.saved : PaidRows(x) \ c.saw \subseteq x.late
  BY <1>9 DEF ReadAfter
<1>18. PaidRows(x) \subseteq PaidSales(d)
  BY <1>9, <1>11, <1>12 DEF RowsKept
<1>19. RowsKept(y, d)
  <2>1. y.saved \subseteq counts /\ \A c \in y.saved : c.day = d
    BY <1>2, <1>8, <1>9, LatestIsThere, FindsAre DEF RowsKept, d
  <2>2. PaidRows(y) \subseteq sold
    BY <1>9, <1>11, <1>13, <1>14 DEF RowsKept
  <2>3. SalesApart(y.sales) /\ OnlyQrphWaits(y.sales) /\ \A r \in y.sales : CountedOn(r, d)
    BY <1>8, <1>9, <1>11, FindsAre DEF RowsKept, SalesApart, OnlyQrphWaits, d
  <2>4. \A r \in y.rung \cup y.owed : r \in sold /\ r.status = "PAID" /\ CountedOn(r, d)
    <3>1. \A r \in x.rung \cup x.owed : r \in sold /\ r.status = "PAID" /\ CountedOn(r, d)
      BY <1>9 DEF RowsKept
    <3>2. \A r \in PaidSales(d) : r \in sold /\ r.status = "PAID" /\ CountedOn(r, d)
      BY <1>11
    <3> QED BY <1>8, <3>1, <3>2, FindsAre DEF d
  <2>5. \A r \in y.period : r \in sold /\ r.status = "PAID" /\ CountedIn(r, First(d), d)
    BY <1>8, <1>9, <1>11, FindsAre DEF RowsKept, d
  <2>6. \A r \in y.before : r \in sold /\ r.status = "PAID" /\ CountedIn(r, d - (2 * RangeDays - 1), d - RangeDays)
    BY <1>8, <1>9, <1>11, FindsAre DEF RowsKept, d
  <2>7. y.marked \cup y.ledger \subseteq paidOut
    BY <1>8, <1>9, <1>11, FindsAre DEF RowsKept, d
  <2> QED BY <2>1, <2>2, <2>3, <2>4, <2>5, <2>6, <2>7 DEF RowsKept
<1>20. ReadAfter(y, B)
  <2>1. "sales" \in B => \A c \in y.saved : {s \in c.saw : s.status = "PAID"} \subseteq y.sales
    <3>1. CASE q = "sales"
      <4>1. \A c \in x.saved : c \in counts /\ c.day = d
        BY <1>9 DEF RowsKept
      <4>2. \A c \in counts : \A s \in c.saw : CountedOn(s, c.day) /\ (s.status = "PAID" => s \in sold)
        BY <1>9 DEF CountsRemember
      <4>3. y.sales = OnDay(d) /\ y.saved = x.saved
        BY <1>8, <3>1, FindsAre DEF d
      <4> QED BY <1>11, <4>1, <4>2, <4>3
    <3>2. CASE q # "sales"
      BY <1>8, <1>10, <1>16, <1>17, <3>2
    <3> QED BY <3>1, <3>2
  <2>2. "rung" \in B => PaidRows(y) \subseteq y.rung
    <3>1. CASE q = "rung"
      BY <1>8, <1>14, <1>18, <3>1, FindsAre DEF d
    <3>2. CASE q # "rung"
      BY <1>8, <1>10, <1>14, <1>16, <1>17, <3>2
    <3> QED BY <3>1, <3>2
  <2>3. "owed" \in B => PaidRows(y) \subseteq y.owed
    <3>1. CASE q = "owed"
      BY <1>8, <1>14, <1>18, <3>1, FindsAre DEF d
    <3>2. CASE q # "owed"
      BY <1>8, <1>10, <1>14, <1>16, <1>17, <3>2
    <3> QED BY <3>1, <3>2
  <2>4. "held" \in B => Ids(y.held) \cap Ids(PaidRows(y)) = {}
    <3>1. CASE q = "held"
      <4>1. y.held = Held(d, d) /\ PaidRows(y) = PaidRows(x)
        BY <1>8, <1>14, <3>1, FindsAre DEF d
      <4>2. \A r \in Held(d, d) : r \in sold /\ r.flagged /\ r.reviewed = Unreviewed
        BY <1>11 DEF WaitsIn
      <4>3. \A r \in PaidRows(x) : r \in sold /\ CountedOn(r, d)
        BY <1>9, <1>12 DEF RowsKept
      <4>4. d \in Nat
        BY <1>2, FiguresAssumption, InsightsAssumption DEF PageRecord, d
      <4>5. \A r \in PaidRows(x) : ~(r.flagged /\ r.reviewed = Unreviewed)
        BY <4>3, <4>4 DEF CountedOn, Unreviewed
      <4>6. \A r \in Held(d, d), s \in PaidRows(x) : r.id # s.id
        BY <1>9, <4>2, <4>3, <4>5 DEF SalesApart
      <4> QED BY <4>1, <4>6 DEF Ids
    <3>2. CASE q # "held"
      BY <1>8, <1>10, <1>14, <1>16, <1>17, <3>2
    <3> QED BY <3>1, <3>2
  <2>5. "late" \in B => \A c \in y.saved : PaidRows(y) \ c.saw \subseteq y.late
    <3>1. CASE q = "late"
      <4>1. y.late = UNION {OnDay(d) \ c.saw : c \in x.saved} /\ PaidRows(y) = PaidRows(x) /\ y.saved = x.saved
        BY <1>8, <1>14, <3>1, FindsAre DEF d, x
      <4>2. PaidRows(x) \subseteq OnDay(d)
        BY <1>9, <1>11, <1>12 DEF RowsKept
      <4> QED BY <4>1, <4>2
    <3>2. CASE q # "late"
      BY <1>8, <1>10, <1>14, <1>16, <1>17, <3>2
    <3> QED BY <3>1, <3>2
  <2> QED BY <2>1, <2>2, <2>3, <2>4, <2>5 DEF ReadAfter
<1>21. Untouched(y, B, d)
  <2> SUFFICES ASSUME NEW r \in sold, r.id \notin touched
               PROVE  /\ "sales" \in B => (r \in y.sales <=> CountedOn(r, d))
                      /\ "held" \in B => (r \in y.held <=> WaitsIn(r, d, d))
                      /\ "period" \in B => (r \in y.period <=> r.status = "PAID" /\ CountedIn(r, First(d), d))
                      /\ "waiting" \in B => (r \in y.waiting <=> WaitsIn(r, First(d), d))
    BY DEF Untouched
  <2>1. /\ "sales" \in A => (r \in x.sales <=> CountedOn(r, d))
        /\ "held" \in A => (r \in x.held <=> WaitsIn(r, d, d))
        /\ "period" \in A => (r \in x.period <=> r.status = "PAID" /\ CountedIn(r, First(d), d))
        /\ "waiting" \in A => (r \in x.waiting <=> WaitsIn(r, First(d), d))
    BY <1>9 DEF Untouched
  <2>2. \A p : p \in B <=> p \in A \/ p = q
    BY DEF A, B
  <2>3. "sales" \in B => (r \in y.sales <=> CountedOn(r, d))
    BY <1>8, <1>11, <2>1, <2>2, FindsAre DEF d
  <2>4. "held" \in B => (r \in y.held <=> WaitsIn(r, d, d))
    BY <1>8, <1>11, <2>1, <2>2, FindsAre DEF d
  <2>5. "period" \in B => (r \in y.period <=> r.status = "PAID" /\ CountedIn(r, First(d), d))
    BY <1>8, <1>11, <2>1, <2>2, FindsAre DEF d
  <2>6. "waiting" \in B => (r \in y.waiting <=> WaitsIn(r, First(d), d))
    BY <1>8, <1>11, <2>1, <2>2, FindsAre DEF d
  <2> QED BY <2>3, <2>4, <2>5, <2>6
<1>22. PageInv'
  BY <1>5, <1>6, <1>9, <1>15, <1>19, <1>20, <1>21, PageInvAfter
<1>23. FiguresInv' /\ FiguresRest' /\ FiguresTypeOK'
  BY <1>1, TypesKept DEF figureVars
<1>24. InsightsTypeOK'
  BY <1>5, <1>6, <1>23 DEF InsightsInv, InsightsTypeOK, PageRecord
<1> QED BY <1>22, <1>23, <1>24 DEF InsightsInv

(* A load fails and has nothing; the rows of the other stay. *)
LEMMA FailKeeps ==
  ASSUME InsightsInv, NEW load \in Loads, Fail(load)
  PROVE  InsightsInv'
<1> DEFINE x == page.rows
           y == [q \in Reads |-> IF q \in ReadsOf(load) THEN {} ELSE page.rows[q]]
           A == page.answered
           B == page.answered \ ReadsOf(load)
           d == page.day
<1>1. /\ page.open /\ load \notin page.failed
      /\ page' = [page EXCEPT !.answered = B, !.failed = page.failed \cup {load}, !.rows = y]
      /\ UNCHANGED <<figureVars, touched, meanwhile>>
  BY DEF Fail
<1>2. page \in PageRecord /\ FiguresInv /\ FiguresRest /\ PageInv
  BY DEF InsightsInv, InsightsTypeOK, PageRecord
<1>3. x \in [Reads -> SUBSET AnyRow] /\ A \subseteq Reads /\ page.failed \subseteq Loads
  BY <1>2 DEF PageRecord
<1>4. y \in [Reads -> SUBSET AnyRow] /\ B \subseteq Reads /\ B \subseteq A
  BY <1>3
<1>5. /\ page' \in PageRecord /\ page'.rows = y /\ page'.answered = B /\ page'.day = d
      /\ page'.failed = page.failed \cup {load} /\ page'.open
  <2> HIDE DEF y, B
  <2> QED BY <1>1, <1>2, <1>3, <1>4 DEF PageRecord
<1>6. sold' = sold /\ paidOut' = paidOut /\ counts' = counts /\ touched' = touched /\ meanwhile' = meanwhile
  BY <1>1 DEF figureVars
<1>7. \A q \in Reads : y[q] = {} \/ y[q] = x[q]
  BY <1>3
<1>8. \A q \in Reads : q \in B => y[q] = x[q]
  BY <1>3
<1>9. SalesApart(sold) /\ OnlyQrphWaits(sold) /\ CountsRemember /\ ReadsInOrder
      /\ RowsKept(x, d) /\ ReadAfter(x, A) /\ Untouched(x, A, d)
  BY <1>2 DEF PageInv
<1>10. load = "day" \/ load = "trends"
  BY DEF Loads
<1>11. DayReads \cap TrendReads = {}
  BY DEF DayReads, TrendReads
<1>12. ReadsInOrder'
  <2>1. \A q \in B : After(q) \subseteq B
    <3>1. \A q \in TrendReads : After(q) = {}
      BY DEF TrendReads, After
    <3>2. \A q \in DayReads : After(q) \subseteq DayReads
      BY DEF DayReads, After
    <3>3. \A q \in A : After(q) \subseteq A /\ (q \in DayReads \/ q \in TrendReads)
      BY <1>3, <1>9 DEF ReadsInOrder, Reads
    <3> QED BY <1>10, <1>11, <3>1, <3>2, <3>3 DEF ReadsOf
  <2>2. \A other \in page.failed \cup {load} : B \cap ReadsOf(other) = {}
    BY <1>9 DEF ReadsInOrder
  <2> QED BY <1>4, <1>5, <2>1, <2>2 DEF ReadsInOrder
<1>13. CASE load = "trends"
  <2>1. \A q \in DayReads : q \in Reads /\ y[q] = x[q] /\ (q \in B <=> q \in A)
    BY <1>3, <1>11, <1>13 DEF ReadsOf, Reads
  <2>2. \A q \in TrendReads : q \in Reads /\ y[q] = {} /\ q \notin B
    BY <1>3, <1>13 DEF ReadsOf, Reads
  <2> HIDE DEF x, y, A, B, d
  <2>3. /\ y.saved = x.saved /\ y.sales = x.sales /\ y.marked = x.marked /\ y.late = x.late /\ y.owed = x.owed
        /\ y.rung = x.rung /\ y.ledger = x.ledger /\ y.held = x.held
        /\ y.period = {} /\ y.before = {} /\ y.waiting = {}
    BY <2>1, <2>2 DEF DayReads, TrendReads
  <2>4. /\ "sales" \in B <=> "sales" \in A
        /\ "held" \in B <=> "held" \in A
        /\ "owed" \in B <=> "owed" \in A
        /\ "rung" \in B <=> "rung" \in A
        /\ "late" \in B <=> "late" \in A
        /\ "period" \notin B /\ "waiting" \notin B
    BY <2>1, <2>2 DEF DayReads, TrendReads
  <2>5. PaidRows(y) = PaidRows(x)
    BY <2>3 DEF PaidRows
  <2>6. RowsKept(y, d)
    BY <1>9, <2>3, <2>5 DEF RowsKept
  <2>7. ReadAfter(y, B)
    BY <1>9, <2>3, <2>4, <2>5 DEF ReadAfter
  <2>8. Untouched(y, B, d)
    BY <1>9, <2>3, <2>4 DEF Untouched
  <2>9. PageInv'
    BY <1>5, <1>6, <1>9, <1>12, <2>6, <2>7, <2>8, PageInvAfter
  <2> QED BY <1>1, <1>5, <1>6, <2>9, TypesKept DEF InsightsInv, InsightsTypeOK, PageRecord, figureVars
<1>14. CASE load = "day"
  <2>1. \A q \in TrendReads : q \in Reads /\ y[q] = x[q] /\ (q \in B <=> q \in A)
    BY <1>3, <1>11, <1>14 DEF ReadsOf, Reads
  <2>2. \A q \in DayReads : q \in Reads /\ y[q] = {} /\ q \notin B
    BY <1>3, <1>14 DEF ReadsOf, Reads
  <2> HIDE DEF x, y, A, B, d
  <2>3. /\ y.saved = {} /\ y.sales = {} /\ y.marked = {} /\ y.late = {} /\ y.owed = {}
        /\ y.rung = {} /\ y.ledger = {} /\ y.held = {}
        /\ y.period = x.period /\ y.before = x.before /\ y.waiting = x.waiting
    BY <2>1, <2>2 DEF DayReads, TrendReads
  <2>4. /\ "sales" \notin B /\ "held" \notin B /\ "owed" \notin B /\ "rung" \notin B /\ "late" \notin B
        /\ "period" \in B <=> "period" \in A
        /\ "waiting" \in B <=> "waiting" \in A
    BY <2>1, <2>2 DEF DayReads, TrendReads
  <2>5. PaidRows(y) = {}
    BY <2>3 DEF PaidRows
  <2>6. RowsKept(y, d)
    BY <1>9, <2>3, <2>5 DEF RowsKept, SalesApart, OnlyQrphWaits
  <2>7. ReadAfter(y, B)
    BY <1>9, <2>3, <2>4, <2>5 DEF ReadAfter
  <2>8. Untouched(y, B, d)
    BY <1>9, <2>3, <2>4 DEF Untouched
  <2>9. PageInv'
    BY <1>5, <1>6, <1>9, <1>12, <2>6, <2>7, <2>8, PageInvAfter
  <2> QED BY <1>1, <1>5, <1>6, <2>9, TypesKept DEF InsightsInv, InsightsTypeOK, PageRecord, figureVars
<1> QED BY <1>10, <1>13, <1>14

(* The shop writes while the page is made: rows that are final stay, and what is not is
   remembered as touched. *)
LEMMA WriteKeeps ==
  ASSUME InsightsInv, Write
  PROVE  InsightsInv'
<1> DEFINE x == page.rows
           A == page.answered
           d == page.day
<1>1. /\ FiguresNext /\ page' = page
      /\ page.open => meanwhile < MaxMeanwhile
      /\ page.open => touched' = touched \cup {r.id : r \in sold' \ sold} /\ meanwhile' = meanwhile + 1
      /\ ~page.open => touched' = touched /\ meanwhile' = meanwhile
  BY DEF Write
<1>2. /\ page \in PageRecord /\ FiguresInv /\ FiguresRest /\ PageInv
      /\ touched \subseteq Nat /\ meanwhile \in 0 .. MaxMeanwhile /\ MaxMeanwhile \in Nat
  BY InsightsAssumption DEF InsightsInv, InsightsTypeOK, PageRecord
<1>3. SalesApart(sold) /\ OnlyQrphWaits(sold) /\ CountsRemember /\ ReadsInOrder
      /\ RowsKept(x, d) /\ ReadAfter(x, A) /\ Untouched(x, A, d)
  BY <1>2 DEF PageInv
<1>4. /\ \A r \in sold : Final(r) => r \in sold'
      /\ SalesApart(sold') /\ OnlyQrphWaits(sold') /\ CountsRemember'
      /\ counts \subseteq counts' /\ paidOut \subseteq paidOut'
  BY <1>1, <1>2, <1>3, SalesStay, SalesStep, TablesRemember
<1>5. FiguresInv' /\ FiguresRest' /\ FiguresTypeOK'
  BY <1>1, TypesKept
<1>6. \A r \in sold' : r.id \in Nat
  BY <1>5 DEF FiguresInv, StoredSale
<1>7. InsightsTypeOK'
  <2>1. touched' \subseteq Nat /\ meanwhile' \in 0 .. MaxMeanwhile
    <3>1. CASE page.open
      <4>1. meanwhile' = meanwhile + 1 /\ meanwhile < MaxMeanwhile
        BY <1>1, <3>1
      <4>2. meanwhile' \in 0 .. MaxMeanwhile
        BY <1>2, <4>1
      <4>3. touched' = touched \cup {r.id : r \in sold' \ sold}
        BY <1>1, <3>1
      <4> QED BY <1>2, <1>6, <4>2, <4>3
    <3>2. CASE ~page.open
      BY <1>1, <1>2, <3>2
    <3> QED BY <3>1, <3>2
  <2> QED BY <1>1, <1>2, <1>5, <2>1 DEF InsightsTypeOK, PageRecord
<1>8. d \in Nat /\ First(d) \in Int /\ RangeDays \in Nat \ {0}
  BY <1>2, FiguresAssumption, InsightsAssumption DEF PageRecord, First
<1>9. RowsKept(x, d)'
  <2>1. \A r : r.status = "PAID" /\ CountedOn(r, d) => Final(r)
    BY <1>8 DEF CountedOn, Final, Unreviewed
  <2>2. \A r, first, last : r.status = "PAID" /\ CountedIn(r, first, last) => Final(r)
    BY DEF CountedIn, Final
  <2>3. PaidRows(x) \subseteq sold'
    BY <1>3, <1>4, <2>1 DEF RowsKept, PaidRows
  <2>4. \A r \in x.rung \cup x.owed : r \in sold'
    BY <1>3, <1>4, <2>1 DEF RowsKept
  <2>5. (\A r \in x.period : r \in sold') /\ (\A r \in x.before : r \in sold')
    BY <1>3, <1>4, <2>2 DEF RowsKept
  <2> QED BY <1>1, <1>3, <1>4, <2>3, <2>4, <2>5
          DEF RowsKept, SalesApart, OnlyQrphWaits, CountedOn, CountedIn, PaidRows, First
<1>10. Untouched(x, A, d)'
  <2>1. CASE page.open
    <3>1. \A r \in sold' : r.id \notin touched' => r \in sold /\ r.id \notin touched
      BY <1>1, <2>1
    <3> QED BY <1>1, <1>3, <3>1 DEF Untouched, CountedOn, CountedIn, WaitsIn, First
  <2>2. CASE ~page.open
    <3>1. A = {}
      BY <1>3, <2>2 DEF ReadsInOrder
    <3> QED BY <1>1, <3>1 DEF Untouched
  <2> QED BY <2>1, <2>2
<1>11. PageInv'
  <2>1. ReadsInOrder'
    BY <1>1, <1>3 DEF ReadsInOrder
  <2>2. ReadAfter(x, A)'
    BY <1>1, <1>3 DEF ReadAfter, PaidRows, Ids
  <2> QED BY <1>4, <1>9, <1>10, <2>1, <2>2 DEF PageInv
<1> QED BY <1>5, <1>7, <1>11 DEF InsightsInv

(* Every step keeps the invariant. *)
LEMMA InsightsInvStep == InsightsInv /\ [InsightsNext]_insightsVars => InsightsInv'
<1> SUFFICES ASSUME InsightsInv, [InsightsNext]_insightsVars PROVE InsightsInv'
  OBVIOUS
<1>1. CASE UNCHANGED insightsVars
  <2>1. /\ sold' = sold /\ paidOut' = paidOut /\ counts' = counts
        /\ page' = page /\ touched' = touched /\ meanwhile' = meanwhile
    BY <1>1 DEF insightsVars, figureVars, pageVars
  <2>2. FiguresInv' /\ FiguresRest' /\ FiguresTypeOK'
    BY <2>1, TypesKept DEF figureVars
  <2>3. PageInv'
    BY <2>1 DEF InsightsInv, PageInv, SalesApart, OnlyQrphWaits, CountsRemember, ReadsInOrder, RowsKept, ReadAfter,
       Untouched, CountedOn, CountedIn, WaitsIn, PaidRows, Ids, First
  <2> QED BY <2>1, <2>2, <2>3 DEF InsightsInv, InsightsTypeOK
<1>2. CASE InsightsNext
  BY <1>2, AskKeeps, AnswerKeeps, FailKeeps, WriteKeeps DEF InsightsNext
<1> QED BY <1>1, <1>2

(* The insights page and its history have their types, whatever was asked for and whenever
   it was read (app/insights/page.tsx). *)
THEOREM InsightsTypes == InsightsSpec => []InsightsTypeOK
<1>1. InsightsInv => InsightsTypeOK
  BY DEF InsightsInv
<1> QED BY <1>1, InsightsInvInit, InsightsInvStep, PTL DEF InsightsSpec

-----------------------------------------------------------------------------
(* Sums of a page's rows. *)

(* Integer division. *)
LEMMA Division ==
  ASSUME NEW m \in Int, NEW k \in Nat \ {0}
  PROVE  /\ m \div k \in Int
         /\ k * (m \div k) <= m /\ m < k * (m \div k) + k
OBVIOUS

(* A rounded quotient is off by half of the divisor at most, and has its sign. *)
LEMMA HalfUpNear ==
  ASSUME NEW n \in Int, NEW d \in Nat \ {0}
  PROVE  /\ HalfUp(n, d) \in Int
         /\ 2 * (HalfUp(n, d) * d - n) <= d /\ 2 * (n - HalfUp(n, d) * d) <= d
         /\ HalfUp(n, d) > 0 => n > 0
         /\ HalfUp(n, d) < 0 => n < 0
<1> DEFINE q == HalfUp(n, d)
<1>1. 2 * n + d \in Int /\ 2 * d \in Nat \ {0}
  OBVIOUS
<1>2. q = (2 * n + d) \div (2 * d)
  BY DEF HalfUp
<1>3. q \in Int /\ (2 * d) * q <= 2 * n + d /\ 2 * n + d < (2 * d) * q + 2 * d
  BY <1>1, <1>2, Division
<1> HIDE DEF q
<1>4. (2 * d) * q = 2 * (q * d)
  BY <1>3
<1>5. q * d \in Int
  BY <1>3
<1>6. ASSUME q > 0 PROVE n > 0
  <2>1. d <= q * d
    BY <1>3, <1>6
  <2> QED BY <1>3, <1>4, <1>5, <2>1
<1>7. ASSUME q < 0 PROVE n < 0
  <2>1. q * d <= -d
    BY <1>3, <1>7
  <2> QED BY <1>3, <1>4, <1>5, <2>1
<1>8. 2 * (q * d - n) <= d /\ 2 * (n - q * d) <= d
  BY <1>3, <1>4, <1>5
<1> QED BY <1>3, <1>6, <1>7, <1>8 DEF q

(* Over more elements the sum is no less. *)
LEMMA SubOfMore ==
  ASSUME NEW S, IsFiniteSet(S), NEW g \in [S -> Nat], NEW T \in SUBSET S, NEW U \in SUBSET T
  PROVE  Sub(g, U) <= Sub(g, T)
<1>1. PICK h : IsSum(h, g, S)
  BY SumExists
<1>2. h[U] <= h[T]
  BY <1>1, SumOfMore
<1>3. U \in SUBSET S
  OBVIOUS
<1>4. Sub(g, U) = h[U] /\ Sub(g, T) = h[T]
  BY <1>1, <1>3, SubIsSum
<1> QED BY <1>2, <1>4

(* No lines add up to nothing. *)
LEMMA SumOfNone == SumOf(<<>>) = 0
<1>1. <<>> = [x \in {} |-> 0]
  OBVIOUS
<1> DEFINE f == [x \in {} |-> 0]
<1>2. f \in [{} -> Nat] /\ IsFiniteSet({})
  BY FS_EmptySet
<1> HIDE DEF f
<1>3. Sub(f, {}) = 0 /\ Sub(f, {}) = SumOf(f)
  BY <1>2, SubFacts
<1> QED BY <1>1, <1>3 DEF f

(* Two values. *)
LEMMA SumOfTwo ==
  ASSUME NEW a, NEW b, a # b, NEW f \in [{a, b} -> Nat]
  PROVE  SumOf(f) = f[a] + f[b]
<1>1. IsFiniteSet({a, b}) /\ {a, b} \in SUBSET {a, b} /\ {b} \in SUBSET {a, b} /\ {} \in SUBSET {a, b}
  <2>1. IsFiniteSet({a}) /\ IsFiniteSet({b})
    BY FS_Singleton
  <2>2. {a, b} = {a} \cup {b}
    OBVIOUS
  <2>3. IsFiniteSet({a} \cup {b})
    BY ONLY <2>1, FS_Union
  <2> QED BY <2>2, <2>3
<1>2. Sub(f, {a, b}) = SumOf(f) /\ Sub(f, {}) = 0
      /\ \A T \in SUBSET {a, b} : \A x \in T : Sub(f, T) = f[x] + Sub(f, T \ {x})
  BY <1>1, SubFacts
<1>3. {a, b} \ {a} = {b} /\ {b} \ {b} = {}
  OBVIOUS
<1>4. Sub(f, {a, b}) = f[a] + Sub(f, {b}) /\ Sub(f, {b}) = f[b] + Sub(f, {})
  BY <1>1, <1>2, <1>3
<1>5. f[a] \in Nat /\ f[b] \in Nat
  OBVIOUS
<1> QED BY <1>2, <1>4, <1>5

(* The strip of any paid sales: revenue is what they paid, whatever the method. *)
LEMMA StripAddsUp ==
  ASSUME FiguresInv, NEW T \in SUBSET sold, NEW handed \in Nat, NEW petty \in Nat
  PROVE  LET e == FiguresOf(T, handed, petty) IN
         /\ e.revenue = Sub(EachAmount, T) /\ e.revenue \in Nat
         /\ e.count = Cardinality(T) /\ e.count \in Nat
         /\ e.cash \in Nat /\ e.cashTips \in Nat
         /\ e.drawer = ((e.cash + e.cashTips) - handed) - petty
<1> DEFINE By(ms) == {r \in T : r.method \in ms}
           tipped == {r \in T : r.method = "CASH"}
           e == FiguresOf(T, handed, petty)
<1>1. /\ e.revenue = Total(By({"CASH"}), AmountOf) + Total(By({"GCASH", "MAYA"}), AmountOf) + Total(By({"QRPH"}), AmountOf)
      /\ e.count = Cardinality(T) /\ e.cash = Total(By({"CASH"}), AmountOf) /\ e.cashTips = Total(tipped, TipOf)
      /\ e.drawer = Total(By({"CASH"}), AmountOf) + Total(tipped, TipOf) - handed - petty
  BY DEF FiguresOf
<1>2. (\A ms : By(ms) \in SUBSET sold) /\ tipped \in SUBSET sold
  OBVIOUS
<1>3. \A r \in sold : r.method \in {"CASH", "GCASH", "MAYA", "QRPH"}
  BY DEF FiguresInv, StoredSale
<1>4. /\ (By({"CASH"}) \cup By({"GCASH", "MAYA"})) \cup By({"QRPH"}) = T
      /\ By({"CASH"}) \cap By({"GCASH", "MAYA"}) = {}
      /\ (By({"CASH"}) \cup By({"GCASH", "MAYA"})) \cap By({"QRPH"}) = {}
  BY <1>3
<1> HIDE DEF By, tipped, e
<1>5. \A ms : Total(By(ms), AmountOf) = Sub(EachAmount, By(ms)) /\ Sub(EachAmount, By(ms)) \in Nat
  <2>1. \A U \in SUBSET sold : Total(U, AmountOf) = Sub(EachAmount, U) /\ Sub(EachAmount, U) \in Nat
    BY TotalsAreSums, RowsAdd, SubFacts
  <2> QED BY <1>2, <2>1
<1>6. Total(tipped, TipOf) \in Nat
  <2>1. Total(tipped, TipOf) = Sub(EachTip, tipped)
    BY <1>2, TotalsAreSums
  <2>2. Sub(EachTip, tipped) \in Nat
    BY <1>2, RowsAdd, SubFacts
  <2> QED BY <2>1, <2>2
<1>7. By({"CASH"}) \cup By({"GCASH", "MAYA"}) \in SUBSET sold
  BY <1>2
<1>8. Sub(EachAmount, By({"CASH"}) \cup By({"GCASH", "MAYA"}))
        = Sub(EachAmount, By({"CASH"})) + Sub(EachAmount, By({"GCASH", "MAYA"}))
  BY <1>2, <1>4, RowsAdd, SumOfUnion
<1>9. Sub(EachAmount, T)
        = Sub(EachAmount, By({"CASH"}) \cup By({"GCASH", "MAYA"})) + Sub(EachAmount, By({"QRPH"}))
  BY <1>2, <1>4, <1>7, RowsAdd, SumOfUnion
<1>10. e.revenue = Sub(EachAmount, T) /\ e.revenue \in Nat
  BY <1>1, <1>5, <1>8, <1>9
<1>11. e.count \in Nat
  BY <1>1, CountsAdd
<1>12. e.cash \in Nat /\ e.cashTips \in Nat
  BY <1>1, <1>5, <1>6
<1>13. e.drawer = ((e.cash + e.cashTips) - handed) - petty
  BY <1>1, <1>12
<1> QED BY <1>1, <1>10, <1>11, <1>12, <1>13 DEF e

(* What was handed out of the drawer. *)
LEMMA HandedIsNat ==
  ASSUME FiguresInv, NEW P \in SUBSET paidOut
  PROVE  Handed(P) \in Nat
<1> DEFINE marked == {p \in P : p.marked}
           g == [p \in marked |-> p.cash]
<1>1. marked \in SUBSET paidOut
  OBVIOUS
<1>2. g \in [marked -> Nat]
  BY <1>1 DEF FiguresInv, StoredPayout
<1>3. Handed(P) = SumOf(g)
  BY DEF Handed, Total
<1> HIDE DEF g, marked
<1>4. IsFiniteSet(marked)
  BY <1>1, FS_Subset DEF FiguresInv
<1> QED BY <1>2, <1>3, <1>4, SumIsNat

(* By method: the parts of any sales, and the lines that show them all. *)
LEMMA MethodsAdd ==
  ASSUME FiguresInv, NEW T \in SUBSET sold, NEW I, I \subseteq {"CASH", "GCASH", "MAYA", "QRPH"},
         \A r \in T : r.method \in I
  PROVE  /\ SumOf([m \in I |-> Total({r \in T : r.method = m}, AmountOf)]) = Sub(EachAmount, T)
         /\ [m \in I |-> Total({r \in T : r.method = m}, AmountOf)] \in [I -> Nat]
         /\ IsFiniteSet(I)
<1> DEFINE k == [r \in sold |-> r.method]
<1>1. IsFiniteSet(I)
  <2> DEFINE J == {"CASH", "GCASH", "MAYA", "QRPH"}
  <2>1. IsFiniteSet({"CASH"} \cup {"GCASH"}) /\ IsFiniteSet({"MAYA"} \cup {"QRPH"})
    BY FS_Singleton, FS_Union
  <2>2. J = ({"CASH"} \cup {"GCASH"}) \cup ({"MAYA"} \cup {"QRPH"})
    OBVIOUS
  <2>3. IsFiniteSet(({"CASH"} \cup {"GCASH"}) \cup ({"MAYA"} \cup {"QRPH"}))
    BY ONLY <2>1, FS_Union
  <2>4. IsFiniteSet(J) /\ I \in SUBSET J
    BY <2>2, <2>3
  <2> HIDE DEF J
  <2> QED BY ONLY <2>4, FS_Subset
<1>2. ASSUME NEW m \in I
      PROVE  /\ Total({r \in T : r.method = m}, AmountOf) = Sub(EachAmount, Part(T, k, m))
             /\ Sub(EachAmount, Part(T, k, m)) \in Nat
  <2>1. Part(T, k, m) \in SUBSET sold /\ Part(T, k, m) = {r \in T : r.method = m}
    BY DEF Part
  <2>2. Total(Part(T, k, m), AmountOf) = Sub(EachAmount, Part(T, k, m))
    BY <2>1, TotalsAreSums
  <2>3. Sub(EachAmount, Part(T, k, m)) \in Nat
    BY <2>1, RowsAdd, SubFacts
  <2> QED BY <2>1, <2>2, <2>3
<1>3. \A r \in T : k[r] \in I
  OBVIOUS
<1> HIDE DEF k
<1>4. [m \in I |-> Total({r \in T : r.method = m}, AmountOf)] = [m \in I |-> Sub(EachAmount, Part(T, k, m))]
  BY <1>2
<1>5. T \in SUBSET sold /\ IsFiniteSet(sold) /\ EachAmount \in [sold -> Nat]
  BY RowsAdd
<1>6. Sub(EachAmount, T) = SumOf([m \in I |-> Sub(EachAmount, Part(T, k, m))])
  BY ONLY <1>1, <1>3, <1>5, SumOfParts
<1> QED BY <1>1, <1>2, <1>4, <1>6

(* The cards of the barbers. *)
Cards(owed, rung, ledger) == RowsOf(EarningsOf(owed, "LIST_PRICE"), rung, ledger)

(* What each card says, from the sales rung up; whoever earned something has one. *)
CardsAre(cards, owed, rung) ==
  /\ IsFiniteSet(DOMAIN cards) /\ \A r \in owed : r.barber \in DOMAIN cards
  /\ \A b \in DOMAIN cards :
       /\ cards[b].sales = Cardinality(Part(rung, BarberOf, b))
       /\ cards[b].revenue = Sub(EachAmount, Part(rung, BarberOf, b))
       /\ cards[b].commission \in Nat /\ cards[b].tips \in Nat /\ cards[b].paidOut \in Nat
       /\ cards[b].earned = cards[b].commission + cards[b].tips
       /\ cards[b].remaining = AtLeastZero(cards[b].earned - cards[b].paidOut)

(* A barber's card, from the sales the totals were made of, those rung up, and the payouts. *)
LEMMA CardsOfRows ==
  ASSUME FiguresInv, NEW owed, owed \subseteq sold, NEW rung, rung \subseteq sold, NEW ledger, ledger \subseteq paidOut
  PROVE  CardsAre(Cards(owed, rung, ledger), owed, rung)
<1> DEFINE cards == Cards(owed, rung, ledger)
           totals == EarningsOf(owed, "LIST_PRICE")
           Of(b) == {r \in owed : r.barber = b}
           Commission(b) == IF b \in DOMAIN totals THEN totals[b].commission ELSE 0
           Tips(b) == IF b \in DOMAIN totals THEN totals[b].tips ELSE 0
           Paid(b) == Total({p \in ledger : p.barber = b}, PaidOutTo)
           Rung(b) == {r \in rung : r.barber = b}
           I == Active \cup DOMAIN totals \cup {p.barber : p \in ledger}
           row(b) == [sales |-> Cardinality(Rung(b)), revenue |-> Total(Rung(b), AmountOf),
                      commission |-> Commission(b), tips |-> Tips(b), earned |-> Commission(b) + Tips(b),
                      paidOut |-> Paid(b), remaining |-> AtLeastZero((Commission(b) + Tips(b)) - Paid(b)),
                      additional |-> Commission(b) + Tips(b) > Paid(b) /\ \E p \in ledger : p.barber = b /\ p.marked]
<1>1. DOMAIN totals = {r.barber : r \in owed}
      /\ \A b \in DOMAIN totals : totals[b].commission = Total(Of(b), CommissionOf) /\ totals[b].tips = Total(Of(b), TipOf)
  BY DEF EarningsOf
<1>2. \A b : Of(b) \in SUBSET sold /\ Rung(b) \in SUBSET sold
  OBVIOUS
<1>3. cards = [b \in I |-> row(b)]
  BY DEF Cards, RowsOf
<1>4. \A b : Rung(b) = Part(rung, BarberOf, b)
  BY DEF Part, BarberOf
<1> HIDE DEF totals, Of, Rung
<1>5. \A U \in SUBSET sold : Total(U, CommissionOf) \in Nat /\ Total(U, TipOf) \in Nat
  <2>1. \A U \in SUBSET sold : Sub(EachCommission, U) \in Nat /\ Sub(EachTip, U) \in Nat
    BY RowsAdd, SubFacts
  <2> QED BY <2>1, TotalsAreSums
<1>6. \A b : Commission(b) \in Nat /\ Tips(b) \in Nat
  BY <1>1, <1>2, <1>5
<1>7. \A b : Paid(b) \in Nat
  <2>1. \A b : {p \in ledger : p.barber = b} \in SUBSET paidOut
    OBVIOUS
  <2>2. \A U \in SUBSET paidOut : Total(U, PaidOutTo) \in Nat
    <3>1. \A U \in SUBSET paidOut : Sub(EachPayment, U) \in Nat
      BY RowsAdd, SubFacts
    <3> QED BY <3>1, PaymentsAreSums
  <2> QED BY <2>1, <2>2
<1>8. \A b : Total(Rung(b), AmountOf) = Sub(EachAmount, Rung(b))
  BY <1>2, TotalsAreSums
<1>9. IsFiniteSet(I) /\ \A r \in owed : r.barber \in I
  <2>1. I \in SUBSET Staff
    BY <1>1, FiguresAssumption DEF FiguresInv, StoredSale, StoredPayout
  <2>2. IsFiniteSet(Staff)
    BY FiguresAssumption
  <2>3. \A r \in owed : r.barber \in I
    BY <1>1
  <2> HIDE DEF I
  <2> QED BY <2>1, <2>2, <2>3, FS_Subset
<1> HIDE DEF Commission, Tips, Paid, I
<1>10. ASSUME NEW b \in I
       PROVE  /\ row(b).sales = Cardinality(Rung(b)) /\ row(b).revenue = Total(Rung(b), AmountOf)
              /\ row(b).commission = Commission(b) /\ row(b).tips = Tips(b) /\ row(b).paidOut = Paid(b)
              /\ row(b).earned = Commission(b) + Tips(b)
              /\ row(b).remaining = AtLeastZero((Commission(b) + Tips(b)) - Paid(b))
  OBVIOUS
<1> HIDE DEF row
<1>11. DOMAIN cards = I /\ \A b \in I : cards[b] = row(b)
  BY <1>3
<1> HIDE DEF cards
<1> QED BY <1>4, <1>6, <1>7, <1>8, <1>9, <1>10, <1>11 DEF cards, CardsAre

(* The last line of the table: what the barbers on it rang up. *)
OnTheTable(cards, rung) == {r \in rung : r.barber \in DOMAIN cards}
LastLineIs(cards, rung) ==
  /\ Total(DOMAIN cards, LAMBDA b : cards[b].revenue) = Sub(EachAmount, OnTheTable(cards, rung))
  /\ Total(DOMAIN cards, LAMBDA b : cards[b].sales) = Cardinality(OnTheTable(cards, rung))

(* So it is, for any rows. *)
LEMMA TableAddsUp ==
  ASSUME FiguresInv, NEW owed, owed \subseteq sold, NEW rung, rung \subseteq sold, NEW ledger, ledger \subseteq paidOut
  PROVE  LastLineIs(Cards(owed, rung, ledger), rung)
<1> DEFINE cards == Cards(owed, rung, ledger)
           T == OnTheTable(cards, rung)
           I == DOMAIN cards
<1>1. /\ IsFiniteSet(I)
      /\ \A b \in I : /\ cards[b].sales = Cardinality(Part(rung, BarberOf, b))
                      /\ cards[b].revenue = Sub(EachAmount, Part(rung, BarberOf, b))
  <2>1. CardsAre(Cards(owed, rung, ledger), owed, rung)
    BY CardsOfRows
  <2> QED BY <2>1 DEF CardsAre
<1>2. T \in SUBSET sold /\ IsFiniteSet(sold) /\ \A r \in T : BarberOf[r] \in I
  BY RowsAdd DEF BarberOf, OnTheTable
<1>3. \A b \in I : Part(rung, BarberOf, b) = Part(T, BarberOf, b) /\ Part(T, BarberOf, b) \in SUBSET sold
  BY DEF Part, BarberOf, OnTheTable
<1> HIDE DEF T
<1>4. ASSUME NEW g \in [sold -> Nat] PROVE Sub(g, T) = SumOf([b \in I |-> Sub(g, Part(T, BarberOf, b))])
  <2> HIDE DEF I
  <2> QED BY ONLY <1>1, <1>2, <1>4, SumOfParts
<1>5. [b \in I |-> cards[b].revenue] = [b \in I |-> Sub(EachAmount, Part(T, BarberOf, b))]
  BY <1>1, <1>3
<1>6. [b \in I |-> cards[b].sales] = [b \in I |-> Sub(EachOne, Part(T, BarberOf, b))]
  <2>1. \A b \in I : Cardinality(Part(T, BarberOf, b)) = Sub(EachOne, Part(T, BarberOf, b))
    BY <1>3, CountsAdd
  <2> QED BY <1>1, <1>3, <2>1
<1>7. Cardinality(T) = Sub(EachOne, T)
  BY <1>2, CountsAdd
<1>8. Total(I, LAMBDA b : cards[b].revenue) = Sub(EachAmount, T)
  BY <1>4, <1>5, RowsAdd DEF Total
<1>9. Total(I, LAMBDA b : cards[b].sales) = Cardinality(T)
  BY <1>4, <1>6, <1>7, RowsAdd DEF Total
<1> QED BY <1>8, <1>9 DEF T, LastLineIs

(* The date a page is for, and what a load that has ended has read. *)
LEMMA PageFacts ==
  ASSUME InsightsInv
  PROVE  /\ page.day \in Nat /\ page.answered \subseteq Reads
         /\ Loaded("day") => DayReads \subseteq page.answered
         /\ Loaded("trends") => TrendReads \subseteq page.answered
<1>1. page.day \in ShownDays \cup {Today} /\ page.answered \subseteq Reads
  BY DEF InsightsInv, InsightsTypeOK
<1>2. ShownDays \subseteq Nat /\ Today \in Nat
  BY InsightsAssumption, FiguresAssumption
<1> QED BY <1>1, <1>2 DEF Loaded, ReadsOf

(* No sale that was left alone is missing. *)
LEMMA PageMissesNothing == InsightsInv => NothingIsMissing(page.rows)
<1> DEFINE x == page.rows
           d == page.day
<1> SUFFICES ASSUME InsightsInv, NEW r \in sold, r.id \notin touched
             PROVE  /\ Loaded("day") =>
                         /\ CountedOn(r, d) => (r \in PaidRows(x)) # (r \in LeftOut(x))
                         /\ r \in Held(d, d) => r \in LeftOut(x)
                    /\ Loaded("trends") /\ CountedIn(r, First(d), d) /\ r.status = "PAID" => r \in x.period
                    /\ Loaded("trends") /\ r \in Held(First(d), d) => r \in x.waiting
  BY DEF NothingIsMissing
<1>1. /\ "sales" \in page.answered => (r \in x.sales <=> CountedOn(r, d))
      /\ "held" \in page.answered => (r \in x.held <=> WaitsIn(r, d, d))
      /\ "period" \in page.answered => (r \in x.period <=> r.status = "PAID" /\ CountedIn(r, First(d), d))
      /\ "waiting" \in page.answered => (r \in x.waiting <=> WaitsIn(r, First(d), d))
  BY DEF InsightsInv, PageInv, Untouched
<1>2. d \in Nat /\ (Loaded("day") => {"sales", "held"} \subseteq page.answered)
      /\ (Loaded("trends") => {"period", "waiting"} \subseteq page.answered)
  BY PageFacts DEF DayReads, TrendReads
<1>3. \A first, last : r \in Held(first, last) => WaitsIn(r, first, last)
  BY DEF Held, WaitsIn
<1>4. r.status = "PAID" \/ r.method = "QRPH"
  BY DEF InsightsInv, PageInv, OnlyQrphWaits
<1>5. ASSUME Loaded("day"), CountedOn(r, d) PROVE (r \in PaidRows(x)) # (r \in LeftOut(x))
  <2>1. r \in x.sales /\ (r \in x.held <=> WaitsIn(r, d, d))
    BY <1>1, <1>2, <1>5
  <2>2. ~WaitsIn(r, d, d)
    BY <1>2, <1>5 DEF WaitsIn, CountedOn, Unreviewed
  <2>3. CASE r.status = "PAID"
    <3>1. r \in PaidRows(x)
      BY <2>1, <2>3 DEF PaidRows
    <3>2. r \notin LeftOut(x)
      BY <2>1, <2>2, <2>3 DEF LeftOut, PendingRows
    <3> QED BY <3>1, <3>2
  <2>4. CASE r.status # "PAID"
    <3>1. r \notin PaidRows(x)
      BY <2>4 DEF PaidRows
    <3>2. r \in LeftOut(x)
      BY <1>4, <2>1, <2>4 DEF LeftOut, PendingRows
    <3> QED BY <3>1, <3>2
  <2> QED BY <2>3, <2>4
<1>6. Loaded("day") /\ r \in Held(d, d) => r \in LeftOut(x)
  BY <1>1, <1>2, <1>3 DEF LeftOut
<1>7. /\ Loaded("trends") /\ CountedIn(r, First(d), d) /\ r.status = "PAID" => r \in x.period
      /\ Loaded("trends") /\ r \in Held(First(d), d) => r \in x.waiting
  BY <1>1, <1>2, <1>3
<1> QED BY <1>5, <1>6, <1>7

(* The forecast's cards are of one forecast, and each section is of its own load. *)
LEMMA PageSectionsStand == InsightsInv /\ page.open => SectionsStand
<1> SUFFICES ASSUME InsightsInv, page.open, NEW f \in Forecasts \cup {Unreachable}
             PROVE  /\ (\A load \in Loads : load \in page.failed \/ Loaded(load)) =>
                         /\ Sections(f).dashboards = "can't be shown" <=> "day" \in page.failed
                         /\ Sections(f).trends = "can't be shown" <=> "trends" \in page.failed
                    /\ IF ChartDays(f) = {} THEN WorkedOut(f) \in {"can't be loaded", "none covers today"}
                       ELSE WorkedOut(f) = Min(ChartDays(f)) /\ Sections(f).evaluation = "run"
  BY DEF SectionsStand
<1>1. \A load \in page.failed : page.answered \cap ReadsOf(load) = {}
  BY DEF InsightsInv, PageInv, ReadsInOrder
<1>2. ~("day" \in page.failed /\ Loaded("day")) /\ ~("trends" \in page.failed /\ Loaded("trends"))
  <2>1. ReadsOf("day") # {} /\ ReadsOf("trends") # {}
    BY DEF ReadsOf, DayReads, TrendReads
  <2> QED BY <1>1, <2>1 DEF Loaded
<1>3. ASSUME \A load \in Loads : load \in page.failed \/ Loaded(load)
      PROVE  /\ Sections(f).dashboards = "can't be shown" <=> "day" \in page.failed
             /\ Sections(f).trends = "can't be shown" <=> "trends" \in page.failed
  <2>1. ("day" \in page.failed \/ Loaded("day")) /\ ("trends" \in page.failed \/ Loaded("trends"))
    BY <1>3 DEF Loads
  <2> QED BY <1>2, <2>1 DEF Sections
<1>4. CASE ChartDays(f) = {}
  <2>1. f = Unreachable \/ ~f.saved \/ \A d \in DOMAIN f.days : ~Ahead(f, d)
    BY <1>4 DEF ChartDays
  <2>2. WorkedOut(f) \in {"can't be loaded", "none covers today"}
    BY <2>1 DEF WorkedOut
  <2> QED BY <1>3, <1>4, <2>2
<1>5. CASE ChartDays(f) # {}
  <2>1. f # Unreachable /\ f.saved /\ ChartDays(f) = {d \in DOMAIN f.days : Ahead(f, d)}
    BY <1>5 DEF ChartDays
  <2>2. DOMAIN f.days \subseteq Int /\ IsFiniteSet(DOMAIN f.days)
    BY <2>1, InsightsAssumption
  <2>3. IsFiniteSet(ChartDays(f)) /\ ChartDays(f) \subseteq Int
    BY <2>1, <2>2, FS_Subset
  <2> DEFINE first == Min(ChartDays(f))
             IsFirst(d) == Ahead(f, d) /\ \A e \in DOMAIN f.days : e < d => ~Ahead(f, e)
  <2>4. first \in ChartDays(f) /\ \A d \in ChartDays(f) : first <= d
    BY ONLY <1>5, <2>3, MinOfFinite
  <2>5. WorkedOut(f) = CHOOSE d \in DOMAIN f.days : IsFirst(d)
    BY <1>5, <2>1 DEF WorkedOut
  <2> HIDE DEF first
  <2>6. first \in DOMAIN f.days /\ IsFirst(first)
    BY <2>1, <2>2, <2>4
  <2>7. \A d \in DOMAIN f.days : IsFirst(d) => d = first
    BY <2>1, <2>2, <2>4, <2>6
  <2>8. WorkedOut(f) = first
    BY <2>5, <2>6, <2>7
  <2>9. Sections(f).evaluation = "run"
    BY <2>1 DEF Sections
  <2> QED BY <1>3, <1>5, <2>8, <2>9 DEF first
<1> QED BY <1>4, <1>5

(* The rows a page was given are rows of the tables. *)
LEMMA PageRows ==
  ASSUME InsightsInv
  PROVE  LET x == page.rows IN
         /\ PaidRows(x) \subseteq sold /\ x.owed \subseteq sold /\ x.rung \subseteq sold
         /\ x.period \subseteq sold /\ x.before \subseteq sold
         /\ x.ledger \subseteq paidOut /\ x.marked \subseteq paidOut
         /\ x.saved \subseteq counts /\ PettyOf(x) \in Nat /\ Handed(x.marked) \in Nat
<1> DEFINE x == page.rows
<1>1. RowsKept(x, page.day)
  BY DEF InsightsInv, PageInv
<1>2. /\ PaidRows(x) \subseteq sold /\ x.owed \subseteq sold /\ x.rung \subseteq sold
      /\ x.period \subseteq sold /\ x.before \subseteq sold
      /\ x.ledger \subseteq paidOut /\ x.marked \subseteq paidOut /\ x.saved \subseteq counts
  BY <1>1 DEF RowsKept
<1>3. PettyOf(x) \in Nat
  <2>1. \A c \in counts : c.petty \in Nat
    BY DEF InsightsInv, FiguresInv
  <2> QED BY <1>2, <2>1 DEF PettyOf
<1>4. Handed(x.marked) \in Nat
  BY <1>2, HandedIsNat DEF InsightsInv
<1> QED BY <1>2, <1>3, <1>4

(* The strip, the last line of the table, and which sales each adds up. *)
LEMMA StripAndTable ==
  ASSUME InsightsInv, NEW gateway
  PROVE  LET x == page.rows
             shown == Dashboards(x, gateway)
             T == {r \in x.rung : r.barber \in DOMAIN CardsOf(x)} IN
         /\ shown.revenue = Sub(EachAmount, PaidRows(x)) /\ shown.sales = Cardinality(PaidRows(x))
         /\ shown.revenue \in Nat /\ shown.sales \in Nat
         /\ shown.average = Average(shown.revenue, shown.sales)
         /\ shown.table.revenue = Sub(EachAmount, T) /\ shown.table.sales = Cardinality(T)
         /\ \A r \in x.owed : r.barber \in DOMAIN CardsOf(x)
<1> DEFINE x == page.rows
           e == ExpectedOf(x)
           cards == CardsOf(x)
           shown == Dashboards(x, gateway)
           T == {r \in x.rung : r.barber \in DOMAIN cards}
<1>1. /\ shown.revenue = e.revenue /\ shown.sales = e.count /\ shown.average = Average(e.revenue, e.count)
      /\ shown.table.revenue = Total(DOMAIN cards, LAMBDA b : cards[b].revenue)
      /\ shown.table.sales = Total(DOMAIN cards, LAMBDA b : cards[b].sales)
  BY DEF Dashboards
<1>2. /\ PaidRows(x) \subseteq sold /\ x.owed \subseteq sold /\ x.rung \subseteq sold /\ x.ledger \subseteq paidOut
      /\ PettyOf(x) \in Nat /\ Handed(x.marked) \in Nat /\ FiguresInv
  BY PageRows DEF InsightsInv
<1>3. e.revenue = Sub(EachAmount, PaidRows(x)) /\ e.revenue \in Nat
      /\ e.count = Cardinality(PaidRows(x)) /\ e.count \in Nat
  BY <1>2, StripAddsUp DEF ExpectedOf
<1>4. cards = Cards(x.owed, x.rung, x.ledger)
  BY DEF CardsOf, Cards
<1>5. \A r \in x.owed : r.barber \in DOMAIN cards
  <2>1. CardsAre(Cards(x.owed, x.rung, x.ledger), x.owed, x.rung)
    BY <1>2, CardsOfRows
  <2> QED BY <1>4, <2>1 DEF CardsAre
<1>6. /\ Total(DOMAIN cards, LAMBDA b : cards[b].revenue) = Sub(EachAmount, T)
      /\ Total(DOMAIN cards, LAMBDA b : cards[b].sales) = Cardinality(T)
  <2>1. LastLineIs(Cards(x.owed, x.rung, x.ledger), x.rung)
    BY <1>2, TableAddsUp
  <2> QED BY <1>4, <2>1 DEF LastLineIs, OnTheTable
<1> HIDE DEF shown, e, cards
<1> QED BY <1>1, <1>3, <1>5, <1>6 DEF shown, e, cards

(* The table follows the strip. *)
LEMMA PageTableFollows == InsightsInv => TableFollowsStrip(page.rows)
<1> DEFINE x == page.rows
           d == page.day
           P == PaidRows(x)
           shown == Dashboards(x, TRUE)
           T == {r \in x.rung : r.barber \in DOMAIN CardsOf(x)}
<1> SUFFICES ASSUME InsightsInv PROVE TableFollowsStrip(x)
  OBVIOUS
<1>1. /\ d \in Nat /\ (Loaded("day") => DayReads \subseteq page.answered)
      /\ (Loaded("trends") => TrendReads \subseteq page.answered)
  BY PageFacts
<1>2. /\ P \subseteq sold /\ x.owed \subseteq sold /\ x.rung \subseteq sold /\ x.period \subseteq sold
  BY PageRows
<1>3. ReadAfter(x, page.answered) /\ Untouched(x, page.answered, d) /\ RowsKept(x, d)
  BY DEF InsightsInv, PageInv
<1>4. ASSUME Loaded("day")
      PROVE  /\ P \subseteq x.rung \cap x.owed
             /\ Ids((x.rung \cup x.owed) \ P) \subseteq touched
             /\ Ids(LeftOut(x)) \cap Ids(P) = {}
  <2>1. {"sales", "rung", "owed", "held"} \subseteq page.answered
    BY <1>1, <1>4 DEF DayReads
  <2>2. P \subseteq x.rung \cap x.owed /\ Ids(x.held) \cap Ids(P) = {}
    BY <1>3, <2>1 DEF ReadAfter
  <2>3. ASSUME NEW r \in (x.rung \cup x.owed) \ P, r.id \notin touched PROVE FALSE
    <3>1. r \in sold /\ r.status = "PAID" /\ CountedOn(r, d)
      BY <1>3 DEF RowsKept
    <3>2. r \in x.sales
      BY <1>3, <2>1, <2>3, <3>1 DEF Untouched
    <3> QED BY <3>1, <3>2 DEF PaidRows
  <2>4. Ids(PendingRows(x)) \cap Ids(P) = {}
    BY <1>3 DEF RowsKept, SalesApart, Ids, PendingRows, PaidRows
  <2> QED BY <2>2, <2>3, <2>4 DEF Ids, LeftOut
<1>5. /\ shown.revenue = Sub(EachAmount, P) /\ shown.sales = Cardinality(P)
      /\ shown.table.revenue = Sub(EachAmount, T) /\ shown.table.sales = Cardinality(T)
      /\ \A r \in x.owed : r.barber \in DOMAIN CardsOf(x)
  BY StripAndTable
<1>6. \A U \in SUBSET sold : \A V \in SUBSET U :
         Sub(EachAmount, V) <= Sub(EachAmount, U) /\ Cardinality(V) <= Cardinality(U)
  <2> TAKE U \in SUBSET sold
  <2> TAKE V \in SUBSET U
  <2>1. IsFiniteSet(sold) /\ EachAmount \in [sold -> Nat] /\ EachOne \in [sold -> Nat]
    BY RowsAdd DEF InsightsInv
  <2>2. Sub(EachAmount, V) <= Sub(EachAmount, U) /\ Sub(EachOne, V) <= Sub(EachOne, U)
    BY <2>1, SubOfMore
  <2>3. Cardinality(V) = Sub(EachOne, V) /\ Cardinality(U) = Sub(EachOne, U)
    BY CountsAdd DEF InsightsInv
  <2> QED BY <2>2, <2>3
<1>7. ASSUME Loaded("day")
      PROVE  /\ shown.table.revenue >= shown.revenue /\ shown.table.sales >= shown.sales
             /\ touched = {} => shown.table.revenue = shown.revenue /\ shown.table.sales = shown.sales
  <2>1. P \subseteq T /\ T \subseteq sold
    BY <1>2, <1>4, <1>5, <1>7
  <2>2. touched = {} => T = P
    BY <1>4, <1>7, <2>1 DEF Ids
  <2> HIDE DEF shown, T, P
  <2>3. shown.table.revenue >= shown.revenue /\ shown.table.sales >= shown.sales
    <3>1. Sub(EachAmount, P) <= Sub(EachAmount, T) /\ Cardinality(P) <= Cardinality(T)
      BY <1>6, <2>1
    <3>2. Sub(EachAmount, P) \in Nat /\ Sub(EachAmount, T) \in Nat /\ Cardinality(P) \in Nat /\ Cardinality(T) \in Nat
      <4>1. \A U \in SUBSET sold : Sub(EachAmount, U) \in Nat /\ Cardinality(U) \in Nat
        BY RowsAdd, SubFacts, CountsAdd DEF InsightsInv
      <4> QED BY <2>1, <4>1
    <3> QED BY <1>5, <3>1, <3>2
  <2> QED BY <1>5, <2>2, <2>3
<1>8. ASSUME Loaded("day"), Loaded("trends"), touched = {}
      PROVE  PeriodOf(x).daily[d] = [revenue |-> shown.revenue, sales |-> shown.sales]
  <2>1. {"sales", "period"} \subseteq page.answered
    BY <1>1, <1>8 DEF DayReads, TrendReads
  <2>2. \A r \in sold : /\ r \in x.sales <=> CountedOn(r, d)
                        /\ r \in x.period <=> r.status = "PAID" /\ CountedIn(r, First(d), d)
    BY <1>3, <1>8, <2>1 DEF Untouched
  <2>3. d \in First(d) .. d
    BY <1>1, FiguresAssumption DEF First
  <2>4. ASSUME NEW r \in sold
        PROVE  CountedOn(r, d) <=> CountedIn(r, First(d), d) /\ CountedDay(r) = d
    BY <1>1, <2>3 DEF CountedOn, CountedIn, CountedDay, Unreviewed
  <2>5. {r \in x.period : CountedDay(r) = d} = P
    BY <1>2, <2>2, <2>4 DEF PaidRows
  <2>6. PeriodOf(x).daily[d] = [revenue |-> Total(P, AmountOf), sales |-> Cardinality(P)]
    BY <2>3, <2>5 DEF PeriodOf, TrendsOf
  <2>7. Total(P, AmountOf) = Sub(EachAmount, P)
    BY <1>2, TotalsAreSums DEF InsightsInv
  <2> HIDE DEF shown, P
  <2> QED BY <1>5, <2>6, <2>7
<1> HIDE DEF shown, P
<1> QED BY <1>4, <1>7, <1>8 DEF TableFollowsStrip, shown, P

(* A count without a notice is of the sales the strip counts. *)
LEMMA PageCountsAreFresh == InsightsInv => CountsAreFresh(page.rows)
<1> DEFINE x == page.rows
<1> SUFFICES ASSUME InsightsInv, Loaded("day"), NEW c \in x.saved, SavedCard(x, c).reasons = {}
             PROVE  {r \in c.saw : r.status = "PAID"} = PaidRows(x) /\ c.expected = DrawerTape(x).result
  BY DEF CountsAreFresh
<1>1. {"sales", "late"} \subseteq page.answered
  BY PageFacts DEF DayReads
<1>2. StaleReasons(x, c) = {}
  BY DEF SavedCard
<1>3. ExpectedOf(x).drawer = c.expected
  BY <1>2 DEF StaleReasons
<1>4. \A r \in x.late : ~r.flagged /\ (\E s \in c.saw : s.id = r.id) /\ ~(r.method = "QRPH" /\ r.status = "PAID")
  <2>1. "synced" \notin StaleReasons(x, c) /\ "confirmed" \notin StaleReasons(x, c) /\ "reviewed" \notin StaleReasons(x, c)
    BY <1>2
  <2>2. ~\E r \in x.late : r.flagged
    BY <2>1 DEF StaleReasons
  <2>3. ~\E r \in x.late : r.method = "QRPH" /\ r.status = "PAID"
    BY <2>1 DEF StaleReasons
  <2>4. ~\E r \in x.late : ~r.flagged /\ \A s \in c.saw : s.id # r.id
    BY <2>1 DEF StaleReasons
  <2> QED BY <2>2, <2>3, <2>4
<1>5. /\ {s \in c.saw : s.status = "PAID"} \subseteq x.sales
      /\ PaidRows(x) \ c.saw \subseteq x.late
  BY <1>1 DEF InsightsInv, PageInv, ReadAfter
<1>6. c \in counts /\ PaidRows(x) \subseteq sold /\ SalesApart(sold)
  BY PageRows DEF InsightsInv, PageInv
<1>7. ASSUME NEW r \in PaidRows(x), r \notin c.saw PROVE FALSE
  <2>1. r \in x.late /\ r \in sold /\ r.status = "PAID"
    BY <1>5, <1>6, <1>7 DEF PaidRows
  <2>2. PICK s \in c.saw : s.id = r.id
    BY <1>4, <2>1
  <2>3. /\ s.status = "PAID" => s \in sold
        /\ s.status = "PAID" \/ s.method = "QRPH"
        /\ \E o \in sold : o.id = s.id /\ o.method = s.method
    BY <1>6 DEF InsightsInv, PageInv, CountsRemember
  <2>4. s \notin sold
    BY <1>6, <1>7, <2>1, <2>2 DEF SalesApart
  <2>5. r.method = "QRPH"
    BY <1>6, <2>1, <2>2, <2>3, <2>4 DEF SalesApart
  <2> QED BY <1>4, <2>1, <2>5
<1>8. {r \in c.saw : r.status = "PAID"} = PaidRows(x)
  BY <1>5, <1>7 DEF PaidRows
<1>9. DrawerTape(x).result = ExpectedOf(x).drawer
  BY DEF DrawerTape, Tape
<1> QED BY <1>3, <1>8, <1>9

(* Two lines of a tape. *)
LEMMA TwoLines ==
  ASSUME NEW a \in Nat, NEW b \in Nat
  PROVE  /\ SumOf([sales |-> a, tips |-> b]) = a + b
         /\ SumOf([payouts |-> a, petty |-> b]) = a + b
         /\ SumOf([commission |-> a, tips |-> b]) = a + b
         /\ SumOf([earned |-> a]) = a /\ SumOf([paid |-> a]) = a
<1>1. SumOf([sales |-> a, tips |-> b]) = a + b
  <2> DEFINE f == [sales |-> a, tips |-> b]
  <2>1. f \in [{"sales", "tips"} -> Nat] /\ f["sales"] = a /\ f["tips"] = b
    OBVIOUS
  <2> HIDE DEF f
  <2>2. SumOf(f) = f["sales"] + f["tips"]
    BY <2>1, SumOfTwo
  <2> QED BY <2>1, <2>2 DEF f
<1>2. SumOf([payouts |-> a, petty |-> b]) = a + b
  <2> DEFINE f == [payouts |-> a, petty |-> b]
  <2>1. f \in [{"payouts", "petty"} -> Nat] /\ f["payouts"] = a /\ f["petty"] = b
    OBVIOUS
  <2> HIDE DEF f
  <2>2. SumOf(f) = f["payouts"] + f["petty"]
    BY <2>1, SumOfTwo
  <2> QED BY <2>1, <2>2 DEF f
<1>3. SumOf([commission |-> a, tips |-> b]) = a + b
  <2> DEFINE f == [commission |-> a, tips |-> b]
  <2>1. f \in [{"commission", "tips"} -> Nat] /\ f["commission"] = a /\ f["tips"] = b
    OBVIOUS
  <2> HIDE DEF f
  <2>2. SumOf(f) = f["commission"] + f["tips"]
    BY <2>1, SumOfTwo
  <2> QED BY <2>1, <2>2 DEF f
<1>4. SumOf([earned |-> a]) = a /\ SumOf([paid |-> a]) = a
  <2>1. SumOf([x \in {"earned"} |-> a]) = a /\ SumOf([x \in {"paid"} |-> a]) = a
    BY SumOfOne
  <2>2. [earned |-> a] = [x \in {"earned"} |-> a] /\ [paid |-> a] = [x \in {"paid"} |-> a]
    OBVIOUS
  <2> QED BY <2>1, <2>2
<1> QED BY <1>1, <1>2, <1>3, <1>4

(* Each calculation adds up to what it ends with. *)
LEMMA PageTapesAddUp == InsightsInv => TapesAddUp(page.rows)
<1> DEFINE x == page.rows
           P == PaidRows(x)
           e == ExpectedOf(x)
           shown == Dashboards(x, TRUE)
<1> SUFFICES ASSUME InsightsInv PROVE TapesAddUp(x)
  OBVIOUS
<1>1. /\ P \subseteq sold /\ x.owed \subseteq sold /\ x.rung \subseteq sold /\ x.ledger \subseteq paidOut
      /\ PettyOf(x) \in Nat /\ Handed(x.marked) \in Nat /\ FiguresInv
  BY PageRows DEF InsightsInv
<1>2. e.revenue = Sub(EachAmount, P) /\ e.revenue \in Nat /\ e.cash \in Nat /\ e.cashTips \in Nat
      /\ e.drawer = ((e.cash + e.cashTips) - Handed(x.marked)) - PettyOf(x)
  BY <1>1, StripAddsUp DEF ExpectedOf
<1>3. ASSUME NEW gateway \in BOOLEAN PROVE AddsUp(RevenueTape(x, gateway))
  <2> DEFINE I == {"CASH", "GCASH", "MAYA"} \cup (IF QrphLine(x, gateway) THEN {"QRPH"} ELSE {})
  <2>1. I \subseteq {"CASH", "GCASH", "MAYA", "QRPH"}
    OBVIOUS
  <2>2. \A r \in P : r.method \in {"CASH", "GCASH", "MAYA", "QRPH"}
    BY <1>1 DEF FiguresInv, StoredSale
  <2>3. \A r \in P : r.method \in I
    BY <2>2 DEF QrphLine, PaidRows
  <2>4. MixOf(x, gateway) = [m \in I |-> Total({r \in P : r.method = m}, AmountOf)]
    BY DEF MixOf
  <2> HIDE DEF I, P, e
  <2>5. SumOf([m \in I |-> Total({r \in P : r.method = m}, AmountOf)]) = Sub(EachAmount, P)
    BY ONLY <1>1, <2>1, <2>3, MethodsAdd
  <2>6. SumOf(MixOf(x, gateway)) - 0 = e.revenue
    BY <1>2, <2>4, <2>5
  <2> QED BY <2>6, SumOfNone DEF AddsUp, RevenueTape, Tape, e
<1>4. AddsUp(DrawerTape(x))
  <2> DEFINE h == Handed(x.marked)
             p == PettyOf(x)
  <2>1. SumOf([sales |-> e.cash, tips |-> e.cashTips]) = e.cash + e.cashTips
        /\ SumOf([payouts |-> h, petty |-> p]) = h + p
    BY <1>1, <1>2, TwoLines
  <2>2. DrawerTape(x) = [plus |-> [sales |-> e.cash, tips |-> e.cashTips],
                         minus |-> [payouts |-> h, petty |-> p], result |-> e.drawer]
    BY DEF DrawerTape, Tape
  <2> HIDE DEF e, h, p
  <2>3. SumOf(DrawerTape(x).plus) = e.cash + e.cashTips /\ SumOf(DrawerTape(x).minus) = h + p
        /\ DrawerTape(x).result = e.drawer
    BY <2>1, <2>2
  <2>4. (e.cash + e.cashTips) - (h + p) = e.drawer
    BY <1>1, <1>2 DEF h, p
  <2> QED BY <2>3, <2>4 DEF AddsUp
<1>5. ASSUME shown.sales > 0
      PROVE  /\ 2 * (shown.average * shown.sales - shown.revenue) <= shown.sales
             /\ 2 * (shown.revenue - shown.average * shown.sales) <= shown.sales
  <2>1. shown.revenue \in Nat /\ shown.sales \in Nat /\ shown.average = Average(shown.revenue, shown.sales)
    BY StripAndTable
  <2> HIDE DEF shown
  <2>2. shown.average = HalfUp(shown.revenue, shown.sales) /\ shown.sales \in Nat \ {0}
    BY <1>5, <2>1 DEF Average
  <2>3. \A n \in Int, k \in Nat \ {0} : 2 * (HalfUp(n, k) * k - n) <= k /\ 2 * (n - HalfUp(n, k) * k) <= k
    BY HalfUpNear
  <2>4. shown.revenue \in Int
    BY <2>1
  <2> QED BY <2>2, <2>3, <2>4
<1>6. ASSUME NEW b \in DOMAIN CardsOf(x)
      PROVE  LET card == CardsOf(x)[b] IN
             /\ AddsUp(EarnedTape(card))
             /\ IF PaidTooMuch(card) THEN card.remaining = 0 ELSE AddsUp(RemainingTape(card))
  <2> DEFINE card == CardsOf(x)[b]
  <2>1. CardsAre(Cards(x.owed, x.rung, x.ledger), x.owed, x.rung)
    BY <1>1, CardsOfRows
  <2>2. /\ card.commission \in Nat /\ card.tips \in Nat /\ card.paidOut \in Nat
        /\ card.earned = card.commission + card.tips
        /\ card.remaining = AtLeastZero(card.earned - card.paidOut)
    BY <2>1 DEF CardsAre, Cards, CardsOf
  <2> HIDE DEF card
  <2>3. card.earned \in Nat
    BY <2>2
  <2>4. /\ SumOf([commission |-> card.commission, tips |-> card.tips]) = card.commission + card.tips
        /\ SumOf([earned |-> card.earned]) = card.earned /\ SumOf([paid |-> card.paidOut]) = card.paidOut
    BY <2>2, <2>3, TwoLines
  <2>5. AddsUp(EarnedTape(card))
    BY <2>2, <2>3, <2>4, SumOfNone DEF AddsUp, EarnedTape, Tape
  <2>6. IF PaidTooMuch(card) THEN card.remaining = 0 ELSE AddsUp(RemainingTape(card))
    <3>1. CASE PaidTooMuch(card)
      BY <2>2, <2>3, <3>1 DEF PaidTooMuch, AtLeastZero
    <3>2. CASE ~PaidTooMuch(card)
      <4>1. card.remaining = card.earned - card.paidOut
        BY <2>2, <2>3, <3>2 DEF PaidTooMuch, AtLeastZero
      <4> QED BY <2>4, <3>2, <4>1 DEF AddsUp, RemainingTape, Tape
    <3> QED BY <3>1, <3>2
  <2> QED BY <2>5, <2>6 DEF card
<1> HIDE DEF shown
<1> QED BY <1>3, <1>4, <1>5, <1>6 DEF TapesAddUp, shown

(* Of finitely many days one is the best, the latest of several. *)
LEMMA BestExists ==
  ASSUME NEW S, S \subseteq Int, IsFiniteSet(S), S # {}, NEW g \in [S -> Nat]
  PROVE  \E d \in S : \A e \in S : g[e] < g[d] \/ (g[e] = g[d] /\ e <= d)
<1> DEFINE R == {g[d] : d \in S}
           most == Max(R)
           B == {d \in S : g[d] = most}
           last == Max(B)
<1>1. g \in Surjection(S, R)
  BY DEF Surjection
<1>2. R \subseteq Int /\ R # {} /\ \A d \in S : g[d] \in R
  <2>1. \A d \in S : g[d] \in Int /\ g[d] \in R
    OBVIOUS
  <2>2. R \subseteq Int
    BY <2>1
  <2> QED BY <2>1, <2>2
<1>3. \A n \in R : \E d \in S : g[d] = n
  OBVIOUS
<1> HIDE DEF R
<1>4. IsFiniteSet(R)
  BY ONLY <1>1, IsFiniteSet(S), FS_Surjection
<1>5. most \in R /\ \A n \in R : n <= most
  BY ONLY <1>2, <1>4, MaxOfFinite
<1> HIDE DEF most
<1>6. B # {} /\ B \subseteq S
  BY <1>3, <1>5
<1>7. IsFiniteSet(B) /\ B \subseteq Int
  BY <1>6, FS_Subset
<1> HIDE DEF B
<1>8. last \in B /\ \A d \in B : d <= last
  BY ONLY <1>6, <1>7, MaxOfFinite
<1> HIDE DEF last
<1>9. ASSUME NEW e \in S PROVE g[e] < g[last] \/ (g[e] = g[last] /\ e <= last)
  <2>1. g[last] = most /\ g[e] <= most /\ g[e] \in Int /\ most \in Int
    BY <1>2, <1>5, <1>8 DEF B
  <2>2. g[e] = most => e \in B
    BY DEF B
  <2> QED BY <1>8, <2>1, <2>2
<1> QED BY <1>6, <1>8, <1>9

(* Totals of the period S up to d, and of the one before, its methods and its days. *)
TrendsAre(t, S, d) ==
  /\ t.revenue = Sub(EachAmount, S) /\ t.revenue \in Nat /\ t.previous.revenue \in Nat
  /\ t.byMethod = [m \in {"CASH", "GCASH", "MAYA", "QRPH"} |-> Total({r \in S : r.method = m}, AmountOf)]
  /\ DOMAIN t.daily = First(d) .. d
  /\ \A e \in First(d) .. d : /\ t.daily[e].revenue \in Nat /\ t.daily[e].sales \in Nat
                              /\ t.daily[e].sales = 0 => t.daily[e].revenue = 0

(* So they are for any paid sales. *)
LEMMA TrendsAddUp ==
  ASSUME FiguresInv, NEW S, S \subseteq sold, NEW P, P \subseteq sold, NEW waiting, NEW d \in Nat
  PROVE  TrendsAre(TrendsOf(S, P, waiting, d), S, d)
<1> DEFINE t == TrendsOf(S, P, waiting, d)
           On(e) == {r \in S : CountedDay(r) = e}
<1>1. /\ t.revenue = Total(S, AmountOf) /\ t.previous.revenue = Total(P, AmountOf)
      /\ t.byMethod = [m \in {"CASH", "GCASH", "MAYA", "QRPH"} |-> Total({r \in S : r.method = m}, AmountOf)]
      /\ t.daily = [e \in First(d) .. d |-> [revenue |-> Total(On(e), AmountOf), sales |-> Cardinality(On(e))]]
  BY DEF TrendsOf
<1>2. \A e : On(e) \subseteq sold
  OBVIOUS
<1> HIDE DEF t, On
<1>3. \A U \in SUBSET sold : Total(U, AmountOf) = Sub(EachAmount, U) /\ Sub(EachAmount, U) \in Nat /\ Cardinality(U) \in Nat
  BY TotalsAreSums, RowsAdd, SubFacts, CountsAdd
<1>4. \A U \in SUBSET sold : Cardinality(U) = 0 => Sub(EachAmount, U) = 0
  <2> TAKE U \in SUBSET sold
  <2> HAVE Cardinality(U) = 0
  <2>1. IsFiniteSet(U)
    BY RowsAdd, FS_Subset
  <2>2. U = {}
    BY <2>1, FS_EmptySet
  <2> QED BY <2>2, RowsAdd, SubFacts
<1>5. ASSUME NEW e \in First(d) .. d
      PROVE  /\ t.daily[e].revenue \in Nat /\ t.daily[e].sales \in Nat
             /\ t.daily[e].sales = 0 => t.daily[e].revenue = 0
  <2>1. t.daily[e].revenue = Sub(EachAmount, On(e)) /\ t.daily[e].sales = Cardinality(On(e))
    BY <1>1, <1>2, <1>3
  <2> QED BY <1>2, <1>3, <1>4, <2>1
<1>6. t.revenue = Sub(EachAmount, S) /\ t.revenue \in Nat /\ t.previous.revenue \in Nat
  BY <1>1, <1>3
<1>7. DOMAIN t.daily = First(d) .. d
  BY <1>1
<1> QED BY <1>1, <1>5, <1>6, <1>7 DEF t, TrendsAre

(* An arrow points the way the figure went. *)
LEMMA ArrowsPoint ==
  ASSUME NEW now \in Nat, NEW before \in Nat
  PROVE  /\ Change(now, before) = "up" => now > before
         /\ Change(now, before) = "down" => now < before
<1>1. CASE before = 0
  BY <1>1 DEF Change
<1>2. CASE before # 0
  <2> DEFINE percent == HalfUp((now - before) * 100, before)
  <2>1. before \in Nat \ {0} /\ (now - before) * 100 \in Int
    BY <1>2
  <2>2. percent \in Int /\ (percent > 0 => (now - before) * 100 > 0) /\ (percent < 0 => (now - before) * 100 < 0)
    BY <2>1, HalfUpNear
  <2>3. Change(now, before) = IF percent = 0 THEN "flat" ELSE IF percent > 0 THEN "up" ELSE "down"
    BY <1>2 DEF Change
  <2> HIDE DEF percent
  <2> QED BY <2>2, <2>3
<1> QED BY <1>1, <1>2

(* What the trends' cards say is so. *)
LEMMA PageArrowsAreTrue == InsightsInv => ArrowsAreTrue(page.rows)
<1> DEFINE x == page.rows
           M == {"CASH", "GCASH", "MAYA", "QRPH"}
           days == First(page.day) .. page.day
<1> SUFFICES ASSUME InsightsInv, NEW gateway \in BOOLEAN, NEW t \in {PeriodOf(x)},
                    NEW stats \in {TrendStats(t, QrphLine(x, gateway))}
             PROVE  /\ stats.revenue = "up" => t.revenue > t.previous.revenue
                    /\ stats.revenue = "down" => t.revenue < t.previous.revenue
                    /\ Total(stats.methods, LAMBDA m : t.byMethod[m]) = t.revenue
                    /\ stats.best # NoFigure => \A d \in DOMAIN t.daily : t.daily[d].revenue <= t.daily[stats.best].revenue
  BY DEF ArrowsAreTrue
<1>1. page.day \in Nat /\ x.period \subseteq sold /\ x.before \subseteq sold /\ FiguresInv
  BY PageFacts, PageRows DEF InsightsInv
<1>2. /\ t.revenue = Sub(EachAmount, x.period) /\ t.revenue \in Nat /\ t.previous.revenue \in Nat
      /\ t.byMethod = [m \in M |-> Total({r \in x.period : r.method = m}, AmountOf)]
      /\ DOMAIN t.daily = days
      /\ \A e \in days : /\ t.daily[e].revenue \in Nat /\ t.daily[e].sales \in Nat
                         /\ t.daily[e].sales = 0 => t.daily[e].revenue = 0
  <2>1. TrendsAre(t, x.period, page.day)
    BY <1>1, TrendsAddUp DEF PeriodOf
  <2> QED BY <2>1 DEF TrendsAre
<1> DEFINE open == {d \in DOMAIN t.daily : t.daily[d].sales > 0}
           IsBest(d) == \A e \in open :
             t.daily[e].revenue < t.daily[d].revenue \/ (t.daily[e].revenue = t.daily[d].revenue /\ e <= d)
<1>3. /\ stats.revenue = Change(t.revenue, t.previous.revenue)
      /\ stats.best = IF open = {} THEN NoFigure ELSE CHOOSE d \in open : IsBest(d)
      /\ stats.methods = {m \in DOMAIN t.byMethod : m # "QRPH" \/ QrphLine(x, gateway) \/ t.byMethod[m] > 0}
  BY DEF TrendStats
<1>4. /\ stats.revenue = "up" => t.revenue > t.previous.revenue
      /\ stats.revenue = "down" => t.revenue < t.previous.revenue
  BY <1>2, <1>3, ArrowsPoint
<1>5. Total(stats.methods, LAMBDA m : t.byMethod[m]) = t.revenue
  <2> DEFINE g == t.byMethod
             T == stats.methods
  <2>1. \A r \in x.period : r.method \in M
    BY <1>1 DEF FiguresInv, StoredSale
  <2>2. SumOf(g) = t.revenue /\ g \in [M -> Nat] /\ IsFiniteSet(M)
    <3>1. M \subseteq {"CASH", "GCASH", "MAYA", "QRPH"}
      OBVIOUS
    <3>2. /\ SumOf([m \in M |-> Total({r \in x.period : r.method = m}, AmountOf)]) = Sub(EachAmount, x.period)
          /\ [m \in M |-> Total({r \in x.period : r.method = m}, AmountOf)] \in [M -> Nat]
          /\ IsFiniteSet(M)
      <4> HIDE DEF M
      <4> QED BY ONLY <1>1, <2>1, <3>1, MethodsAdd
    <3> QED BY <1>2, <3>2
  <2>3. T \in SUBSET M /\ \A m \in M \ T : g[m] = 0
    <3>1. DOMAIN g = M /\ \A m \in M : g[m] \in Nat
      BY <2>2
    <3>2. \A m \in M \ T : ~(g[m] > 0)
      BY <1>3, <3>1
    <3> HIDE DEF g, M
    <3>3. T \in SUBSET M
      BY <1>3, <3>1 DEF g
    <3> QED BY <3>1, <3>2, <3>3
  <2> HIDE DEF g, T, M
  <2>4. Sub(g, M) = Sub(g, T) /\ Sub(g, M) = SumOf(g)
    BY <2>2, <2>3, SubOfZeros, SubFacts
  <2>5. Total(T, LAMBDA m : g[m]) = Sub(g, T)
    BY DEF Total, Sub
  <2> QED BY <2>2, <2>4, <2>5 DEF g, T
<1>6. ASSUME stats.best # NoFigure, NEW d \in DOMAIN t.daily
      PROVE  t.daily[d].revenue <= t.daily[stats.best].revenue
  <2> DEFINE g == [e \in open |-> t.daily[e].revenue]
  <2>1. open # {} /\ open \subseteq days /\ days \subseteq Int
    BY <1>2, <1>3, <1>6
  <2>2. IsFiniteSet(days)
    <3>1. First(page.day) \in Int /\ page.day \in Int
      BY <1>1, FiguresAssumption DEF First
    <3> QED BY <3>1, FS_Interval
  <2>3. g \in [open -> Nat]
    BY <1>2
  <2>4. IsFiniteSet(open) /\ open \subseteq Int
    BY <2>1, <2>2, FS_Subset
  <2>5. \E b \in open : \A e \in open : g[e] < g[b] \/ (g[e] = g[b] /\ e <= b)
    <3> HIDE DEF g, open
    <3> QED BY ONLY <2>1, <2>3, <2>4, BestExists
  <2>6. \E b \in open : IsBest(b)
    BY <2>5
  <2>7. stats.best \in open /\ IsBest(stats.best)
    BY <1>3, <2>1, <2>6
  <2>8. CASE d \in open
    BY <1>2, <2>1, <2>7, <2>8
  <2>9. CASE d \notin open
    BY <1>2, <2>1, <2>7, <2>9
  <2> QED BY <2>8, <2>9
<1> QED BY <1>4, <1>5, <1>6

(* Every part of the page is true. *)
LEMMA PageIsTrueNow == InsightsInv => PageIsTrue
BY PageMissesNothing, PageTableFollows, PageCountsAreFresh, PageTapesAddUp, PageArrowsAreTrue, PageSectionsStand
   DEF PageIsTrue

(* The insights page is made of rows read one query after the other while the shop goes on
   (app/insights/page.tsx:924): it leaves out no sale without a word, its table has the
   sales its strip counts, a count it calls current saw them, each calculation adds up,
   the arrows and the best day are so, and a load that fails takes no other section with
   it. *)
THEOREM InsightsTellTruth == InsightsSpec => []PageIsTrue
<1>1. InsightsInit => InsightsInv
  BY InsightsInvInit
<1>2. InsightsInv /\ [InsightsNext]_insightsVars => InsightsInv'
  BY InsightsInvStep
<1>3. InsightsInv => PageIsTrue
  BY PageIsTrueNow
<1> QED BY <1>1, <1>2, <1>3, PTL DEF InsightsSpec

-----------------------------------------------------------------------------
(* The presentation: what its slides say holds of the rows, whatever they are. *)

(* The named cause of a change moved the same way as revenue. *)
LEMMA GreaterProduct ==
  ASSUME NEW p \in Nat \ {0}, NEW x \in Nat, NEW y \in Nat, x < y
  PROVE  p * x < p * y
<1>1. p * (y - x) >= 1
  OBVIOUS
<1>2. p * (y - x) = p * y - p * x
  OBVIOUS
<1> QED BY <1>1, <1>2

(* The larger and the smaller of two. *)
LEMMA LargerAndSmaller ==
  ASSUME NEW a \in Int, NEW b \in Int
  PROVE  /\ Max({a, b}) = IF a >= b THEN a ELSE b
         /\ Min({a, b}) = IF a >= b THEN b ELSE a
<1>1. IsFiniteSet({a, b}) /\ {a, b} \subseteq Int /\ {a, b} # {}
  <2>1. IsFiniteSet({} \cup {a})
    BY FS_EmptySet, FS_AddElement
  <2>2. IsFiniteSet(({} \cup {a}) \cup {b})
    BY <2>1, FS_AddElement
  <2>3. ({} \cup {a}) \cup {b} = {a, b}
    OBVIOUS
  <2> QED BY <2>2, <2>3
<1>2. /\ Max({a, b}) \in {a, b} /\ a <= Max({a, b}) /\ b <= Max({a, b})
      /\ Min({a, b}) \in {a, b} /\ Min({a, b}) <= a /\ Min({a, b}) <= b
  BY <1>1, MaxOfFinite, MinOfFinite
<1> QED BY <1>2

(* Revenue is sales times the average: whichever of the two ratios is further from one moved
   with it. *)
LEMMA CauseMoves ==
  ASSUME NEW a \in Nat \ {0}, NEW b \in Nat \ {0}, NEW x \in Nat \ {0}, NEW y \in Nat \ {0}, x # y
  PROVE  /\ Further(a, b, x * b, y * a) /\ a > b => x > y
         /\ Further(a, b, x * b, y * a) /\ ~(a > b) => x < y
         /\ ~Further(a, b, x * b, y * a) /\ x * b > y * a => x > y
         /\ ~Further(a, b, x * b, y * a) /\ ~(x * b > y * a) => x < y
<1> DEFINE p == a * b
           now == x * b
           before == y * a
<1>1. p \in Nat \ {0} /\ now \in Nat /\ before \in Nat
  OBVIOUS
<1>2. /\ a * now = p * x /\ b * before = p * y
      /\ now * a = p * x /\ before * b = p * y
  OBVIOUS
<1>3. /\ x < y => p * x < p * y
      /\ y < x => p * y < p * x
  BY <1>1, GreaterProduct
<1>4. /\ x < y /\ b <= a => now < before
      /\ y < x /\ a <= b => before < now
  <2>1. ASSUME x < y, b <= a PROVE now < before
    <3>1. b * x < b * y
      BY <2>1, GreaterProduct
    <3>2. y * b <= y * a
      BY <2>1
    <3> QED BY <3>1, <3>2
  <2>2. ASSUME y < x, a <= b PROVE before < now
    <3>1. a * y < a * x
      BY <2>2, GreaterProduct
    <3>2. x * a <= x * b
      BY <2>2
    <3> QED BY <3>1, <3>2
  <2> QED BY <2>1, <2>2
<1>5. Further(a, b, now, before) <=>
        (IF a >= b THEN a ELSE b) * (IF now >= before THEN before ELSE now)
          >= (IF now >= before THEN now ELSE before) * (IF a >= b THEN b ELSE a)
  BY <1>1, LargerAndSmaller DEF Further
<1> HIDE DEF p
<1>6. p * x \in Nat /\ p * y \in Nat
  BY <1>1
<1>7. ASSUME a >= b, ~(now >= before)
      PROVE Further(a, b, now, before) <=> p * x >= p * y
  BY <1>5, <1>7, <1>2
<1>8. ASSUME ~(a >= b), now >= before
      PROVE Further(a, b, now, before) <=> p * y >= p * x
  BY <1>5, <1>8, <1>2
<1>9. ASSUME a = b, now >= before
      PROVE Further(a, b, now, before) <=> p * y >= p * x
  BY <1>5, <1>9, <1>2
<1> HIDE DEF now, before
<1>10. CASE x < y
  <2>1. ASSUME a > b PROVE ~Further(a, b, now, before) /\ ~(now > before)
    BY <1>1, <1>3, <1>4, <1>6, <1>7, <1>10, <2>1
  <2>2. ASSUME ~(a > b), now > before PROVE Further(a, b, now, before)
    <3>1. ~(a >= b)
      BY <1>1, <1>4, <1>10, <2>2
    <3> QED BY <1>1, <1>3, <1>6, <1>8, <1>10, <2>2, <3>1
  <2> QED BY <1>1, <1>10, <2>1, <2>2 DEF now, before
<1>11. CASE y < x
  <2>1. ASSUME ~(a > b) PROVE ~Further(a, b, now, before) /\ now > before
    <3>1. now > before
      BY <1>1, <1>4, <1>11, <2>1
    <3>2. a = b \/ ~(a >= b)
      BY <2>1
    <3> QED BY <1>1, <1>3, <1>6, <1>8, <1>9, <1>11, <3>1, <3>2
  <2>2. ASSUME a > b, ~(now > before) PROVE Further(a, b, now, before) 
    <3>1. CASE now < before
      BY <1>1, <1>3, <1>6, <1>7, <1>11, <2>2, <3>1
    <3>2. CASE now = before
      BY <1>1, <1>5, <2>2, <3>2
    <3> QED BY <1>1, <2>2, <3>1, <3>2
  <2> QED BY <1>1, <1>11, <2>1, <2>2 DEF now, before
<1> QED BY <1>10, <1>11

(* The sign of a rounded change. *)
LEMMA ChangeMoves ==
  ASSUME NEW now \in Int, NEW before \in Nat \ {0}
  PROVE  /\ PercentChange(now, before) \in Int
         /\ PercentChange(now, before) > 0 => now > before
         /\ PercentChange(now, before) < 0 => now < before
<1> DEFINE n == (now - before) * 100
<1>1. n \in Int /\ PercentChange(now, before) = HalfUp(n, before)
  BY DEF PercentChange
<1>2. (n > 0 => now > before) /\ (n < 0 => now < before)
  OBVIOUS
<1> HIDE DEF n
<1>3. /\ HalfUp(n, before) \in Int
      /\ HalfUp(n, before) > 0 => n > 0
      /\ HalfUp(n, before) < 0 => n < 0
  BY <1>1, HalfUpNear
<1> QED BY <1>1, <1>2, <1>3

(* What is claimed of a headline about the change. *)
TrendSays(h, a, b, x, y) ==
  /\ h.about \in {"more sales", "higher average"} => h.n > 0
  /\ h.about \in {"fewer sales", "lower average"} => h.n < 0
  /\ h.about = "higher average" => x * b > y * a

(* So it does for every cause that fits. *)
LEMMA CauseSays ==
  ASSUME NEW a \in Nat \ {0}, NEW b \in Nat \ {0}, NEW x \in Nat \ {0}, NEW y \in Nat \ {0},
         NEW change \in Int, change # 0, change > 0 => x > y, change < 0 => x < y, NEW tone
  PROVE  TrendSays(Point(tone, IF Further(a, b, x * b, y * a) THEN IF a > b THEN "more sales" ELSE "fewer sales"
                               ELSE IF x * b > y * a THEN "higher average" ELSE "lower average", change), a, b, x, y)
<1> DEFINE cause == IF Further(a, b, x * b, y * a) THEN IF a > b THEN "more sales" ELSE "fewer sales"
                    ELSE IF x * b > y * a THEN "higher average" ELSE "lower average"
           further == Further(a, b, x * b, y * a)
           more == a > b
           higher == x * b > y * a
           up == x > y
           down == x < y
<1>1. x # y
  OBVIOUS
<1>2. /\ further /\ more => up
      /\ further /\ ~more => down
      /\ ~further /\ higher => up
      /\ ~further /\ ~higher => down
  BY <1>1, CauseMoves
<1>3. (up => change > 0) /\ (down => change < 0)
  OBVIOUS
<1>4. cause = IF further THEN IF more THEN "more sales" ELSE "fewer sales"
              ELSE IF higher THEN "higher average" ELSE "lower average"
  OBVIOUS
<1>5. Point(tone, cause, change).about = cause /\ Point(tone, cause, change).n = change
  BY DEF Point
<1>6. higher => x * b > y * a
  OBVIOUS
<1> HIDE DEF cause, further, more, higher, up, down
<1>7. /\ cause \in {"more sales", "higher average"} => change > 0
      /\ cause \in {"fewer sales", "lower average"} => change < 0
      /\ cause = "higher average" => higher
  <2>1. CASE further /\ more
    <3>1. cause = "more sales" /\ change > 0
      BY <1>2, <1>3, <1>4, <2>1
    <3> QED BY ONLY <3>1
  <2>2. CASE further /\ ~more
    <3>1. cause = "fewer sales" /\ change < 0
      BY <1>2, <1>3, <1>4, <2>2
    <3> QED BY ONLY <3>1
  <2>3. CASE ~further /\ higher
    <3>1. cause = "higher average" /\ change > 0 /\ higher
      BY <1>2, <1>3, <1>4, <2>3
    <3> QED BY ONLY <3>1
  <2>4. CASE ~further /\ ~higher
    <3>1. cause = "lower average" /\ change < 0
      BY <1>2, <1>3, <1>4, <2>4
    <3> QED BY ONLY <3>1
  <2> QED BY ONLY <2>1, <2>2, <2>3, <2>4
<1>8. TrendSays(Point(tone, cause, change), a, b, x, y)
  BY ONLY <1>5, <1>6, <1>7 DEF TrendSays
<1> QED BY <1>8 DEF cause

(* What the trend's headline says of the change is so. *)
LEMMA TrendCompares ==
  ASSUME NEW a \in Nat \ {0}, NEW b \in Nat, NEW x \in Nat, NEW y \in Nat,
         NEW t, t.sales = a, t.previous.sales = b, t.revenue = x, t.previous.revenue = y
  PROVE  TrendSays(TrendHeadline(t), a, b, x, y)
<1> DEFINE change == PercentChange(x, y)
           cause == IF Further(a, b, x * b, y * a) THEN IF a > b THEN "more sales" ELSE "fewer sales"
                    ELSE IF x * b > y * a THEN "higher average" ELSE "lower average"
           none == b = 0 \/ y <= 0
           gone == x <= 0
           small == Size(change) < Steady
           h == TrendHeadline(t)
<1>1. h = IF none THEN Point("info", "nothing to compare", 0)
          ELSE IF gone THEN Point("info", "no revenue", 0)
          ELSE IF small THEN Point("flat", "steady", change)
          ELSE Point(Toward(change), cause, change)
  BY DEF TrendHeadline, Driver
<1>2. ~none => b \in Nat \ {0} /\ y \in Nat \ {0}
  OBVIOUS
<1>3. ~gone => x \in Nat \ {0}
  OBVIOUS
<1>4. ASSUME ~small, change \in Int PROVE change # 0
  BY <1>4 DEF Size, Steady
<1> HIDE DEF h, change, none, gone, small
<1>5. /\ TrendSays(Point("info", "nothing to compare", 0), a, b, x, y)
      /\ TrendSays(Point("info", "no revenue", 0), a, b, x, y)
      /\ TrendSays(Point("flat", "steady", change), a, b, x, y)
  BY DEF TrendSays, Point
<1>6. ASSUME ~none, ~gone, ~small
      PROVE  TrendSays(Point(Toward(change), cause, change), a, b, x, y)
  <2>1. change \in Int /\ (change > 0 => x > y) /\ (change < 0 => x < y)
    BY <1>2, <1>6, ChangeMoves DEF change
  <2>2. change # 0
    BY <1>4, <1>6, <2>1
  <2>3. b \in Nat \ {0} /\ y \in Nat \ {0} /\ x \in Nat \ {0}
    BY <1>2, <1>3, <1>6
  <2>4. a \in Nat \ {0}
    OBVIOUS
  <2> QED BY ONLY <2>1, <2>2, <2>3, <2>4, CauseSays
<1> HIDE DEF cause
<1>7. TrendSays(h, a, b, x, y)
  <2>1. CASE none
    BY <1>1, <1>5, <2>1
  <2>2. CASE ~none /\ gone
    BY <1>1, <1>5, <2>2
  <2>3. CASE ~none /\ ~gone /\ small
    BY <1>1, <1>5, <2>3
  <2>4. CASE ~none /\ ~gone /\ ~small
    BY <1>1, <1>6, <2>4
  <2> QED BY ONLY <2>1, <2>2, <2>3, <2>4
<1> QED BY <1>7 DEF h

-----------------------------------------------------------------------------
(* A sum that is no less than its terms are many. *)
LEMMA AtLeastOneEach ==
  ASSUME NEW S, IsFiniteSet(S), NEW g \in [S -> Nat], NEW T \in SUBSET S, \A x \in T : g[x] >= 1
  PROVE  /\ Cardinality(T) \in Nat /\ Sub(g, T) \in Nat /\ Cardinality(T) <= Sub(g, T)
         /\ Cardinality(T) = 0 <=> Sub(g, T) = 0
<1> DEFINE one == [x \in T |-> 1]
           f == [x \in T |-> g[x]]
<1>1. IsFiniteSet(T) /\ T \in SUBSET T
  BY FS_Subset
<1>2. one \in [T -> Nat] /\ f \in [T -> Nat] /\ \A x \in T : one[x] <= f[x]
  OBVIOUS
<1>3. Cardinality(T) = Sub(one, T)
  BY <1>1, CountIsSum
<1>4. Sub(g, T) = SumOf(f)
  BY DEF Sub
<1> HIDE DEF one, f
<1>5. Sub(one, T) = SumOf(one) /\ SumOf(one) \in Nat /\ SumOf(f) \in Nat
  BY <1>1, <1>2, SubFacts
<1>6. SumOf(one) <= SumOf(f)
  BY <1>1, <1>2, SumOfLess
<1>7. T = {} => Sub(g, T) = 0
  BY SubFacts
<1>8. Cardinality(T) = 0 => T = {}
  BY <1>1, FS_EmptySet
<1>9. Cardinality(T) = SumOf(one) /\ Sub(g, T) = SumOf(f)
  BY <1>3, <1>4, <1>5
<1> QED BY <1>5, <1>6, <1>7, <1>8, <1>9

(* Reaching 100 percent, rounded, of n equal parts of a sum. *)
LEMMA ReachesShare ==
  ASSUME NEW m \in Nat, NEW n \in Nat \ {0}, NEW S \in Nat \ {0}, HalfUp(m * 100 * n, S) >= 100
  PROVE  m * 200 * n >= 199 * S
<1> DEFINE k == m * n
           p == m * 100 * n
           q == HalfUp(p, S)
<1>1. k \in Nat /\ p = 100 * k /\ m * 200 * n = 200 * k /\ p \in Int
  OBVIOUS
<1>0. q >= 100
  OBVIOUS
<1> HIDE DEF k, p
<1>9. S \in Nat \ {0}
  OBVIOUS
<1>2. q \in Int /\ 2 * (q * S - p) <= S
  BY ONLY <1>1, <1>9, HalfUpNear
<1> HIDE DEF q
<1>3. (q - 100) * S >= 0 /\ q * S \in Int
  BY ONLY <1>0, <1>2, <1>9
<1>4. q * S >= 100 * S
  BY ONLY <1>2, <1>3, <1>9
<1> QED BY ONLY <1>1, <1>2, <1>4, <1>3, <1>9

(* Above or below a rounded mean. *)
LEMMA MeanSays ==
  ASSUME NEW m \in Nat, NEW n \in Nat \ {0}, NEW S \in Nat \ {0}, n <= S
  PROVE  LET gap == PercentChange(m, HalfUp(S, n)) IN
         /\ gap \in Int
         /\ gap > 0 => m * 200 * n >= 199 * S
         /\ gap < 0 => m * n < S
<1> DEFINE mean == HalfUp(S, n)
           gap == PercentChange(m, mean)
           k == m * n
           l == mean * n
<1>1. mean \in Int /\ 2 * (l - S) <= n /\ 2 * (S - l) <= n
  BY HalfUpNear
<1> HIDE DEF mean
<1>2. l \in Int
  BY <1>1
<1>3. mean >= 1
  <2>1. ASSUME mean <= 0 PROVE FALSE
    <3>1. l <= 0
      BY <1>1, <2>1
    <3> HIDE DEF l
    <3> QED BY <1>1, <1>2, <3>1
  <2> QED BY <1>1, <2>1
<1>4. gap \in Int /\ (gap > 0 => m > mean) /\ (gap < 0 => m < mean)
  BY <1>1, <1>3, ChangeMoves
<1> HIDE DEF gap
<1>5. ASSUME m > mean PROVE k >= l + n
  <2>1. m - mean >= 1
    BY <1>1, <1>5
  <2>2. (m - mean) * n >= n
    BY <1>1, <2>1
  <2> QED BY <1>1, <2>2
<1>6. ASSUME m < mean PROVE k <= l - n
  <2>1. mean - m >= 1
    BY <1>1, <1>6
  <2>2. (mean - m) * n >= n
    BY <1>1, <2>1
  <2> QED BY <1>1, <2>2
<1>7. k \in Nat /\ m * 200 * n = 200 * k
  OBVIOUS
<1> HIDE DEF k, l
<1>8. gap > 0 => 200 * k >= 199 * S
  BY <1>1, <1>2, <1>4, <1>5, <1>7
<1>9. gap < 0 => k < S
  BY <1>1, <1>2, <1>4, <1>6, <1>7
<1> QED BY <1>4, <1>7, <1>8, <1>9 DEF gap, mean, k

(* The pace never ends the day below what it has already made, but for the rounding. *)
LEMMA PaceSays ==
  ASSUME NEW m \in Nat, NEW total \in Int, NEW before \in Nat \ {0}, NEW rounded \in Nat \ {0},
         before * 10 <= total * 9
  PROVE  HalfUp(m * total, before * rounded) * rounded >= m - rounded
<1> DEFINE D == before * rounded
           mt == m * total
           q == HalfUp(mt, D)
<1>1. D \in Nat \ {0} /\ mt \in Int
  OBVIOUS
<1>2. before <= total
  OBVIOUS
<1>3. m * before <= mt
  BY <1>2
<1> HIDE DEF D, mt
<1>4. q \in Int /\ 2 * (mt - q * D) <= D
  BY <1>1, HalfUpNear
<1> HIDE DEF q
<1>5. ASSUME q * rounded < m - rounded PROVE FALSE
  <2> DEFINE p == q * rounded
  <2>1. p \in Int /\ p + rounded + 1 <= m
    BY <1>4, <1>5
  <2>2. p * before = q * D
    BY <1>4 DEF D
  <2> HIDE DEF p
  <2>3. (m - (p + rounded)) * before >= before
    <3>1. m - (p + rounded) >= 1
      BY <2>1
    <3> QED BY <2>1, <3>1
  <2>4. m * before - p * before - rounded * before >= before
    BY <2>1, <2>3
  <2>5. rounded * before = D
    BY DEF D
  <2>6. q * D \in Int /\ m * before \in Int
    BY <1>1, <1>4
  <2>7. m * before - q * D - D >= before
    BY <2>2, <2>4, <2>5
  <2> QED BY <1>1, <1>3, <1>4, <2>6, <2>7
<1>6. q * rounded \in Int
  BY <1>4
<1> QED BY <1>5, <1>6 DEF q, D, mt

-----------------------------------------------------------------------------
(* What an input holds of the rows. *)

(* Whatever part of an input was loaded is the rows' own. *)
LEMMA Inputs ==
  ASSUME NEW v, NEW d
  PROVE  LET i == StoryInput(v, d) IN
         /\ i.date = d /\ i.hour = v.hour
         /\ i.day # NotLoaded => i.day = DayInput(v, d) /\ "day" \in v.loaded
         /\ i.trends # NotLoaded => i.trends = TrendsInput(v, d)
         /\ i.forecast # NotLoaded => i.forecast = ForecastInput(v.forecast)
BY DEF StoryInput

(* The day's, field by field. *)
LEMMA InputOfDay ==
  ASSUME NEW v, NEW d
  PROVE  /\ DayInput(v, d).revenue = DayFigures(d, LatestPetty(d)).revenue
         /\ DayInput(v, d).sales = DayFigures(d, LatestPetty(d)).count
         /\ DayInput(v, d).methods = PaymentMethods(d, ShowQrph(v, d))
         /\ DayInput(v, d).drawer = SavedCount(d) /\ DayInput(v, d).barbers = InsightsRows(d)
         /\ DayInput(v, d).held = Cardinality(Held(d, d))
         /\ DayInput(v, d).pending = Cardinality(Unconfirmed(d))
BY DEF DayInput

(* The period's: those of the trends, but for the methods shown and the held ones counted. *)
LEMMA InputOfTrends ==
  ASSUME NEW v, NEW d
  PROVE  /\ TrendsInput(v, d).daily = Trends(d).daily /\ TrendsInput(v, d).hours = Trends(d).hours
         /\ TrendsInput(v, d).hourExcluded = Trends(d).hourExcluded
         /\ TrendsInput(v, d).byBarber = Trends(d).byBarber /\ TrendsInput(v, d).byService = Trends(d).byService
         /\ TrendsInput(v, d).byMethod = TrendMethods(Trends(d), ShowQrph(v, d))
         /\ TrendsInput(v, d).revenue = Trends(d).revenue /\ TrendsInput(v, d).sales = Trends(d).sales
         /\ TrendsInput(v, d).tips = Trends(d).tips /\ TrendsInput(v, d).previous = Trends(d).previous
         /\ TrendsInput(v, d).held = Cardinality(Held(First(d), d))
<1> DEFINE t == Trends(d)
           u == TrendsInput(v, d)
<1>1. t = [daily |-> t.daily, hours |-> t.hours, hourExcluded |-> t.hourExcluded,
           byBarber |-> t.byBarber, byService |-> t.byService, byMethod |-> t.byMethod,
           revenue |-> t.revenue, sales |-> t.sales, tips |-> t.tips,
           previous |-> t.previous, held |-> t.held]
  BY DEF Trends, TrendsOf
<1>2. t.held = Held(First(d), d)
  BY DEF Trends, TrendsOf
<1>3. u = [t EXCEPT !.byMethod = TrendMethods(t, ShowQrph(v, d)), !.held = Cardinality(t.held)]
  BY DEF TrendsInput
<1> HIDE DEF t, u
<1>4. u = [daily |-> t.daily, hours |-> t.hours, hourExcluded |-> t.hourExcluded,
           byBarber |-> t.byBarber, byService |-> t.byService, byMethod |-> TrendMethods(t, ShowQrph(v, d)),
           revenue |-> t.revenue, sales |-> t.sales, tips |-> t.tips,
           previous |-> t.previous, held |-> Cardinality(t.held)]
  BY <1>1, <1>3
<1> QED BY <1>2, <1>4 DEF t, u

(* A sale is never free. *)
LEMMA AmountIsSome ==
  ASSUME NEW r \in StoredSale
  PROVE  AmountOf(r) \in Nat /\ AmountOf(r) >= 1
<1> DEFINE t == r.ticket
           list == IF t.custom > 0 THEN t.custom ELSE StandardPrice[t.service]
           discount == IF t.loyalty /\ t.service = LoyaltyService /\ t.custom = 0
                       THEN HalfUp(list * LoyaltyPercent, 100) ELSE 0
<1>1. t.service \in DOMAIN StandardPrice /\ t.custom \in Nat
  BY DEF StoredSale, Ticket
<1>2. StandardPrice[t.service] \in Nat /\ StandardPrice[t.service] >= 2
  BY <1>1, FiguresAssumption, StoryAssumption
<1>3. list \in Nat /\ list >= 1 /\ (t.custom = 0 => list >= 2)
  BY <1>1, <1>2
<1>4. AmountOf(r) = AtLeastZero(list - discount)
  BY DEF AmountOf, PriceSale
<1> HIDE DEF list
<1>5. list * LoyaltyPercent = 50 * list
  BY <1>3 DEF LoyaltyPercent
<1>6. HalfUp(50 * list, 100) = (100 * list + 100) \div 200
  BY <1>3 DEF HalfUp
<1>7. discount \in Nat /\ discount < list
  BY <1>3, <1>5, <1>6
<1> HIDE DEF discount
<1> QED BY <1>3, <1>4, <1>7 DEF AtLeastZero

(* A period's days, totals and hours. *)
Period(t, d) ==
  /\ DOMAIN t.daily = First(d) .. d
  /\ \A e \in First(d) .. d : /\ t.daily[e].revenue \in Nat /\ t.daily[e].sales \in Nat
                              /\ t.daily[e].sales > 0 => t.daily[e].revenue >= 1
  /\ t.sales \in Nat /\ t.revenue \in Nat /\ t.tips \in Nat /\ t.hourExcluded \in Nat
  /\ t.previous.sales \in Nat /\ t.previous.revenue \in Nat
  /\ \E a, b \in Int : a <= OpenHour /\ CloseHour - 1 <= b /\ t.hours \in [a .. b -> Nat]

(* So they are, whatever the rows. *)
LEMMA PeriodOfInput ==
  ASSUME FiguresInv, NEW v, NEW d \in Nat
  PROVE  Period(TrendsInput(v, d), d)
<1> DEFINE S == PaidIn(First(d), d)
           P == PaidIn(d - (2 * RangeDays - 1), d - RangeDays)
           known == {r \in S : ~r.flagged}
           On(e) == {r \in S : CountedDay(r) = e}
           t == TrendsInput(v, d)
<1>1. /\ t.revenue = Total(S, AmountOf) /\ t.sales = Cardinality(S) /\ t.tips = Total(S, TipOf)
      /\ t.daily = [e \in First(d) .. d |-> [revenue |-> Total(On(e), AmountOf), sales |-> Cardinality(On(e))]]
      /\ t.hours = HoursChart(known) /\ t.hourExcluded = Cardinality(S \ known)
      /\ t.previous = [revenue |-> Total(P, AmountOf), sales |-> Cardinality(P)]
  <2> DEFINE u == Trends(d)
  <2>1. /\ t.revenue = u.revenue /\ t.sales = u.sales /\ t.tips = u.tips /\ t.daily = u.daily
        /\ t.hours = u.hours /\ t.hourExcluded = u.hourExcluded /\ t.previous = u.previous
    BY InputOfTrends
  <2>2. /\ u.revenue = Total(S, AmountOf) /\ u.sales = Cardinality(S) /\ u.tips = Total(S, TipOf)
        /\ u.daily = [e \in First(d) .. d |-> [revenue |-> Total(On(e), AmountOf), sales |-> Cardinality(On(e))]]
        /\ u.hours = HoursChart(known) /\ u.hourExcluded = Cardinality(S \ known)
        /\ u.previous = [revenue |-> Total(P, AmountOf), sales |-> Cardinality(P)]
    BY TrendsFields
  <2> HIDE DEF t, u
  <2> QED BY ONLY <2>1, <2>2
<1>2. S \in SUBSET sold /\ P \in SUBSET sold /\ known \in SUBSET sold /\ S \ known \in SUBSET sold
      /\ \A e : On(e) \in SUBSET sold
  BY DEF PaidIn
<1> HIDE DEF t, S, P, On, known
<1>3. \A U \in SUBSET sold : /\ Total(U, AmountOf) = Sub(EachAmount, U) /\ Sub(EachAmount, U) \in Nat
                             /\ Total(U, TipOf) = Sub(EachTip, U) /\ Sub(EachTip, U) \in Nat
                             /\ Cardinality(U) \in Nat /\ IsFiniteSet(U)
  BY TotalsAreSums, RowsAdd, SubFacts, CountsAdd, FS_Subset
<1>4. ASSUME NEW U \in SUBSET sold, Cardinality(U) > 0 PROVE Total(U, AmountOf) >= 1
  <2>1. \A r \in U : EachAmount[r] >= 1
    BY AmountIsSome DEF EachAmount, FiguresInv
  <2>2. Cardinality(U) <= Sub(EachAmount, U)
    BY <2>1, RowsAdd, AtLeastOneEach
  <2> QED BY <1>3, <1>4, <2>2
<1>5. ASSUME NEW e \in First(d) .. d
      PROVE  /\ t.daily[e].revenue \in Nat /\ t.daily[e].sales \in Nat
             /\ t.daily[e].sales > 0 => t.daily[e].revenue >= 1
  <2>1. t.daily[e].revenue = Total(On(e), AmountOf) /\ t.daily[e].sales = Cardinality(On(e))
    BY <1>1
  <2> QED BY <1>2, <1>3, <1>4, <2>1
<1>6. \E a, b \in Int : a <= OpenHour /\ CloseHour - 1 <= b /\ t.hours \in [a .. b -> Nat]
  <2> DEFINE soldAt == {r.hour : r \in known}
             opens == soldAt \cup {10}
             closes == soldAt \cup {21}
             At(h) == {r \in known : r.hour = h}
  <2>1. soldAt \subseteq Int
    BY <1>2 DEF FiguresInv, StoredSale
  <2>2. IsFiniteSet(soldAt)
    <3> DEFINE f == [r \in known |-> r.hour]
    <3>1. f \in Surjection(known, soldAt)
      BY DEF Surjection
    <3>2. IsFiniteSet(known)
      BY <1>2, <1>3
    <3> HIDE DEF f, soldAt
    <3> QED BY ONLY <3>1, <3>2, FS_Surjection
  <2>3. t.hours = [h \in Min(opens) .. Max(closes) |-> Cardinality(At(h))]
    BY <1>1 DEF HoursChart
  <2>4. \A h : Cardinality(At(h)) \in Nat
    BY <1>2, <1>3
  <2> HIDE DEF soldAt, At
  <2>5. IsFiniteSet(opens) /\ IsFiniteSet(closes)
    BY ONLY <2>2, FS_Singleton, FS_Union
  <2>6. opens \subseteq Int /\ closes \subseteq Int /\ 10 \in opens /\ 21 \in closes
    BY <2>1
  <2> HIDE DEF opens, closes
  <2>7. Min(opens) \in opens /\ \A x \in opens : Min(opens) <= x
    BY ONLY <2>5, <2>6, MinOfFinite
  <2>8. Max(closes) \in closes /\ \A x \in closes : x <= Max(closes)
    BY ONLY <2>5, <2>6, MaxOfFinite
  <2>9. Min(opens) \in Int /\ Max(closes) \in Int /\ Min(opens) <= 10 /\ 21 <= Max(closes)
    BY <2>6, <2>7, <2>8
  <2>10. t.hours \in [Min(opens) .. Max(closes) -> Nat]
    BY <2>3, <2>4
  <2> QED BY <2>9, <2>10 DEF OpenHour, CloseHour
<1>7. t.sales \in Nat /\ t.revenue \in Nat /\ t.tips \in Nat /\ t.hourExcluded \in Nat
      /\ t.previous.sales \in Nat /\ t.previous.revenue \in Nat
  BY <1>1, <1>2, <1>3
<1>8. DOMAIN t.daily = First(d) .. d
  BY <1>1
<1> QED BY <1>5, <1>6, <1>7, <1>8 DEF Period, t

-----------------------------------------------------------------------------
(* Its slides. *)
LEMMA SlidesAre ==
  ASSUME NEW i
  PROVE  /\ StorySlides(i)["todo"] = TodoSlide(i) /\ StorySlides(i)["day"] = DaySlide(i)
         /\ StorySlides(i)["trend"] = TrendSlide(i)
         /\ HasMix(i) => StorySlides(i)["mix"] = MixSlide(i)
         /\ HasHours(i) => StorySlides(i)["hours"] = HoursSlide(i)
<1> DEFINE part == [id \in StoryIds(i) \ {"summary"} |->
                 CASE id = "day" -> DaySlide(i) [] id = "trend" -> TrendSlide(i) [] id = "hours" -> HoursSlide(i)
                   [] id = "mix" -> MixSlide(i) [] id = "forecast" -> ForecastSlide(i) [] id = "todo" -> TodoSlide(i)]
           sum == SummarySlide(i, {part[o] : o \in DOMAIN part \ {"trend"}})
<1>1. StorySlides(i) = [id \in StoryIds(i) |-> IF id = "summary" THEN sum ELSE part[id]]
  BY DEF StorySlides
<1>2. {"todo", "day", "trend"} \subseteq StoryIds(i) \ {"summary"}
      /\ (HasMix(i) => "mix" \in StoryIds(i) \ {"summary"}) /\ (HasHours(i) => "hours" \in StoryIds(i) \ {"summary"})
  BY DEF StoryIds, When
<1>3. /\ part["todo"] = TodoSlide(i) /\ part["day"] = DaySlide(i) /\ part["trend"] = TrendSlide(i)
      /\ HasMix(i) => part["mix"] = MixSlide(i)
      /\ HasHours(i) => part["hours"] = HoursSlide(i)
  BY <1>2
<1> HIDE DEF part, sum
<1> QED BY <1>1, <1>2, <1>3

(* What some complete open days made. *)
LEMMA OpenDaysAdd ==
  ASSUME NEW i, NEW d \in Nat, i.trends = NotLoaded \/ Period(i.trends, d), NEW O, O \subseteq OpenDays(i)
  PROVE  /\ Cardinality(O) \in Nat /\ RevenueOf(i, O) \in Nat /\ Cardinality(O) <= RevenueOf(i, O)
         /\ Cardinality(O) = 0 <=> RevenueOf(i, O) = 0
<1>1. CASE i.trends = NotLoaded
  <2>1. O = {}
    BY <1>1 DEF OpenDays, Complete
  <2>2. RevenueOf(i, O) = SumOf([x \in {} |-> i.trends.daily[x].revenue])
    BY <2>1 DEF RevenueOf, Total
  <2>3. [x \in {} |-> i.trends.daily[x].revenue] = <<>>
    OBVIOUS
  <2> QED BY <2>1, <2>2, <2>3, SumOfNone, FS_EmptySet
<1>2. CASE i.trends # NotLoaded
  <2> DEFINE D == First(d) .. d
             g == [e \in D |-> i.trends.daily[e].revenue]
  <2>1. DOMAIN i.trends.daily = D /\ \A e \in D : /\ i.trends.daily[e].revenue \in Nat
          /\ i.trends.daily[e].sales > 0 => i.trends.daily[e].revenue >= 1
    BY <1>2 DEF Period
  <2>2. O \in SUBSET D /\ \A e \in O : i.trends.daily[e].sales > 0
    BY <1>2, <2>1 DEF OpenDays, Complete
  <2>3. First(d) \in Int /\ d \in Int
    BY FiguresAssumption DEF First
  <2>4. IsFiniteSet(D)
    BY ONLY <2>3, FS_Interval
  <2>5. g \in [D -> Nat] /\ \A e \in O : g[e] >= 1
    <3>1. \A e \in D : i.trends.daily[e].revenue \in Nat
      BY <1>2 DEF Period
    <3>2. g \in [D -> Nat]
      BY ONLY <3>1
    <3>3. ASSUME NEW e \in O PROVE g[e] >= 1
      <4>1. e \in D /\ i.trends.daily[e].sales > 0 /\ g[e] = i.trends.daily[e].revenue
        BY <2>2
      <4>2. i.trends.daily[e].revenue >= 1
        <5>1. i.trends.daily[e].sales \in Nat /\ i.trends.daily[e].revenue \in Nat
          BY <1>2, <4>1 DEF Period
        <5> QED BY <1>2, <4>1, <5>1 DEF Period
      <4> QED BY ONLY <4>1, <4>2
    <3> QED BY <3>2, <3>3
  <2>6. RevenueOf(i, O) = Sub(g, O)
    <3>1. [e \in O |-> i.trends.daily[e].revenue] = [e \in O |-> g[e]]
      BY <2>2
    <3> QED BY <3>1 DEF RevenueOf, Total, Sub
  <2> HIDE DEF g, D
  <2> QED BY <2>2, <2>4, <2>5, <2>6, AtLeastOneEach
<1> QED BY <1>1, <1>2

(* What is claimed of a headline about the day. *)
DaySays(h, i) ==
  LET others == OpenDays(i) \ {i.date} IN
  /\ h.about \in {"of typical", "against typical"} =>
       /\ h.tone = "up" => i.day.revenue * 200 * Cardinality(others) >= 199 * RevenueOf(i, others)
       /\ h.tone = "down" => i.day.revenue * Cardinality(others) < RevenueOf(i, others)
  /\ h.about = "of typical" => InProgress(i) /\ i.date = Today

(* A day said to be above or below a typical one is. *)
LEMMA ComparisonSays ==
  ASSUME NEW i, NEW d \in Nat, i.trends = NotLoaded \/ Period(i.trends, d), i.day.revenue \in Nat
  PROVE  DaySays(Comparison(i), i)
<1> DEFINE others == OpenDays(i) \ {i.date}
           n == Cardinality(others)
           S == RevenueOf(i, others)
           m == i.day.revenue
           reached == HalfUp(m * 100 * n, S)
           gap == PercentChange(m, HalfUp(S, n))
           few == n < Rules.compared \/ S <= 0
           small == Size(gap) < Notable
           tone == IF reached >= 100 THEN "up" ELSE "info"
           tone2 == IF small THEN "flat" ELSE Toward(gap)
           above == m * 200 * n >= 199 * S
           below == m * n < S
           h == Comparison(i)
<1>1. h = IF few THEN Point("info", "alone", 0)
          ELSE IF InProgress(i) THEN Point(tone, "of typical", reached)
          ELSE Point(tone2, "against typical", gap)
  BY DEF Comparison
<1>2. n \in Nat /\ S \in Nat /\ n <= S /\ (n = 0 <=> S = 0)
  BY OpenDaysAdd
<1>3. m \in Nat
  OBVIOUS
<1>4. InProgress(i) => i.date = Today
  BY DEF InProgress
<1> HIDE DEF m, n, S, others
<1>5. ~few => n \in Nat \ {0} /\ S \in Nat \ {0}
  BY <1>2
<1>6. ASSUME ~few, tone = "up" PROVE above
  <2>1. reached >= 100
    BY <1>6
  <2> QED BY <1>3, <1>5, <1>6, <2>1, ReachesShare
<1>7. tone # "down"
  OBVIOUS
<1>8. ASSUME ~few PROVE gap \in Int /\ (gap > 0 => above) /\ (gap < 0 => below)
  BY <1>2, <1>3, <1>5, <1>8, MeanSays
<1> HIDE DEF few, above, below, reached, small
<1>9. ASSUME ~few PROVE (tone2 = "up" => above) /\ (tone2 = "down" => below)
  <2>1. tone2 = "up" => gap > 0
    BY DEF Toward
  <2>2. tone2 = "down" => gap < 0
    BY DEF Toward
  <2> HIDE DEF tone2, gap
  <2> QED BY <1>8, <1>9, <2>1, <2>2
<1> HIDE DEF gap, tone, tone2, h
<1>10. /\ h.about \in {"of typical", "against typical"} => (h.tone = "up" => above) /\ (h.tone = "down" => below)
       /\ h.about = "of typical" => InProgress(i)
  <2>1. CASE few
    <3>1. h = Point("info", "alone", 0)
      BY <1>1, <2>1
    <3> QED BY ONLY <3>1 DEF Point
  <2>2. CASE ~few /\ InProgress(i)
    <3>1. h = Point(tone, "of typical", reached)
      BY <1>1, <2>2
    <3>2. h.tone = tone
      BY ONLY <3>1 DEF Point
    <3> QED BY <1>6, <1>7, <2>2, <3>2
  <2>3. CASE ~few /\ ~InProgress(i)
    <3>1. h = Point(tone2, "against typical", gap)
      BY <1>1, <2>3
    <3>2. h.tone = tone2 /\ h.about = "against typical"
      BY ONLY <3>1 DEF Point
    <3> QED BY ONLY <1>9, <2>3, <3>2
  <2> QED BY ONLY <2>1, <2>2, <2>3
<1> QED BY <1>4, <1>10 DEF DaySays, above, below, m, n, S, others, h

(* Sales by the hour. *)
LEMMA HoursAdd ==
  ASSUME NEW t, NEW d, Period(t, d), NEW S
  PROVE  HourSales(t, S) \in Nat
<1>1. PICK a \in Int, b \in Int : t.hours \in [a .. b -> Nat]
  BY DEF Period
<1> DEFINE I == a .. b
<1>2. IsFiniteSet(I)
  BY ONLY a \in Int, b \in Int, FS_Interval
<1>3. DOMAIN t.hours = I /\ t.hours \in [I -> Nat]
  BY <1>1
<1> HIDE DEF I
<1>4. HourSales(t, S) = Sub(t.hours, S \cap I)
  BY <1>3 DEF HourSales, Total, Sub
<1> QED BY <1>2, <1>3, <1>4, SubFacts

(* No pace takes the day below what it made, but for the rounding. *)
LEMMA DayPace ==
  ASSUME NEW i, NEW d, i.trends = NotLoaded \/ Period(i.trends, d), i.day = NotLoaded \/ (i.day.revenue \in Nat /\ i.day.sales \in Nat),
         NEW p \in Pace(i)
  PROVE  p.about = "pace" /\ p.n >= i.day.revenue - Rules.rounded
<1> DEFINE before == HourSales(i.trends, 0 .. i.hour - 1) - i.day.sales
           total == KnownSales(i.trends) - i.day.sales
           n == HalfUp(i.day.revenue * total, before * Rules.rounded) * Rules.rounded
<1>1. /\ i.day # NotLoaded /\ i.trends # NotLoaded
      /\ ~(before <= 0) /\ ~(before * 10 > total * 9) /\ p = Point("info", "pace", n)
  BY DEF Pace
<1>2. Period(i.trends, d) /\ i.day.revenue \in Nat /\ i.day.sales \in Nat
  BY <1>1
<1>3. HourSales(i.trends, 0 .. i.hour - 1) \in Nat /\ KnownSales(i.trends) \in Nat
  BY <1>2, HoursAdd DEF KnownSales
<1>4. Rules.rounded \in Nat \ {0}
  BY StoryAssumption
<1>5. before \in Nat \ {0} /\ total \in Int /\ before * 10 <= total * 9
  BY <1>1, <1>2, <1>3
<1> HIDE DEF before, total
<1>6. n >= i.day.revenue - Rules.rounded
  BY ONLY <1>2, <1>4, <1>5, PaceSays
<1> HIDE DEF n
<1> QED BY <1>1, <1>6 DEF Point

(* Sentences, said or not. *)
LEMMA PointIs ==
  ASSUME NEW tone, NEW about, NEW n
  PROVE  Point(tone, about, n).tone = tone /\ Point(tone, about, n).about = about /\ Point(tone, about, n).n = n
BY DEF Point

(* A point told on a condition. *)
LEMMA WhenIs ==
  ASSUME NEW cond, NEW p, NEW q
  PROVE  /\ q \in When(cond, p) => q = p /\ cond
         /\ cond => When(cond, p) = {p}
         /\ ~cond => When(cond, p) = {}
BY DEF When

(* The trend's slide. *)
LEMMA TrendSlideIs ==
  ASSUME NEW i
  PROVE  TrendSlide(i).headline = IF i.trends = NotLoaded THEN Point("info", "unreachable", 0)
                                  ELSE IF i.trends.sales = 0 THEN Point("info", "no sales", 0)
                                  ELSE TrendHeadline(i.trends)
<1> DEFINE t == i.trends
           quiet == QuietDays(i)
           gaps == Cardinality(quiet.gaps)
           points == {Point("up", "best day", BestDay(t))} \cup Momentum(i) \cup AveragePoint(t)
                   \cup When(quiet.start, Point("info", "started", 0))
                   \cup When(gaps > 0, Point("warn", "gaps", gaps))
                   \cup When(InProgress(i), Point("info", "still open", 0))
                   \cup When(t.held > 0, Point("warn", "held", t.held))
           none == t = NotLoaded
           zero == t.sales = 0
           p1 == Point("info", "unreachable", 0)
           p2 == Point("info", "no sales", 0)
           p3 == TrendHeadline(t)
<1>1. TrendSlide(i) = IF none THEN [headline |-> p1, points |-> {}, highlight |-> {}]
                      ELSE IF zero THEN [headline |-> p2, points |-> {}, highlight |-> {}]
                      ELSE [headline |-> p3, highlight |-> {}, points |-> points]
  BY DEF TrendSlide
<1> HIDE DEF points, none, zero, p1, p2, p3
<1>2. TrendSlide(i).headline = IF none THEN p1 ELSE IF zero THEN p2 ELSE p3
  BY <1>1
<1> QED BY <1>2 DEF none, zero, p1, p2, p3

(* The day's slide. *)
LEMMA DaySlideIs ==
  ASSUME NEW i
  PROVE  /\ DaySlide(i).headline = IF i.day = NotLoaded THEN Point("info", "unreachable", 0)
                                   ELSE IF i.day.sales > 0 THEN Comparison(i)
                                   ELSE Point(IF InProgress(i) THEN "info" ELSE "warn", "no sales", 0)
         /\ i.day = NotLoaded => DaySlide(i).points = {}
         /\ \A p \in DaySlide(i).points : \/ p.about \in {"left out", "by barber"} \/ p \in Pace(i)
                                         \/ p \in PaidBy(i) \/ p \in DrawerPoint(i) \/ p \in OwedPoint(i)
         /\ i.day # NotLoaded => PaidBy(i) \subseteq DaySlide(i).points
<1> DEFINE out == i.day.held + i.day.pending
           working == {b \in DOMAIN i.day.barbers : i.day.barbers[b].sales > 0}
           outs == out > 0
           several == Cardinality(working) >= 2
           q1 == Point("warn", "left out", out)
           q2 == Point("info", "by barber", i.day.sales)
           left == When(outs, q1)
           by == When(several, q2)
           points == left \cup Pace(i) \cup PaidBy(i) \cup DrawerPoint(i) \cup OwedPoint(i) \cup by
           none == i.day = NotLoaded
           some == i.day.sales > 0
           p1 == Point("info", "unreachable", 0)
           p2 == Point(IF InProgress(i) THEN "info" ELSE "warn", "no sales", 0)
           said == IF some THEN Comparison(i) ELSE p2
<1>1. DaySlide(i) = IF none THEN [headline |-> p1, points |-> {}, highlight |-> {}]
                    ELSE [headline |-> said, highlight |-> {said}, points |-> points]
  BY DEF DaySlide
<1>2. \A p \in left : p.about = "left out"
  <2>1. q1.about = "left out"
    <3> HIDE DEF out
    <3> QED BY DEF Point
  <2> HIDE DEF outs, q1
  <2> QED BY <2>1, WhenIs
<1>3. \A p \in by : p.about = "by barber"
  <2>1. q2.about = "by barber"
    BY DEF Point
  <2> HIDE DEF several, q2
  <2> QED BY <2>1, WhenIs
<1> HIDE DEF left, by, none, some, p1, p2, said, points
<1>4. /\ DaySlide(i).headline = IF none THEN p1 ELSE said
      /\ none => DaySlide(i).points = {}
      /\ ~none => DaySlide(i).points = points
  BY <1>1
<1>5. \A p \in points : \/ p.about \in {"left out", "by barber"} \/ p \in Pace(i)
                        \/ p \in PaidBy(i) \/ p \in DrawerPoint(i) \/ p \in OwedPoint(i)
  BY <1>2, <1>3 DEF points
<1>6. PaidBy(i) \subseteq points
  BY DEF points
<1> QED BY <1>4, <1>5, <1>6 DEF none, said, some, p1, p2

(* What its other sentences are about. *)
LEMMA DayAbouts ==
  ASSUME NEW i
  PROVE  /\ \A p \in PaidBy(i) : p.about \in {"all cash", "no cash", "cash share"}
         /\ \A p \in Pace(i) : p.about = "pace"
         /\ \A p \in OwedPoint(i) : p.about \in {"owed", "all paid out"}
         /\ i.day.drawer.status \in {"none", "balanced", "short", "over"} =>
              \A p \in DrawerPoint(i) : p.about \in {"stale", "balanced", "short", "over", "not counted"}
<1>1. \A p \in PaidBy(i) : p.about \in {"all cash", "no cash", "cash share"}
  <2> DEFINE methods == i.day.methods
             cash == methods["CASH"]
             digital == {m \in DOMAIN methods \ {"CASH"} : methods[m] > 0}
             none == digital = {}
             noCash == cash <= 0
             share == PercentOf(cash, i.day.revenue)
  <2>1. PaidBy(i) = IF i.day.revenue <= 0 THEN {}
          ELSE {CASE none -> Point("info", "all cash", 100)
                  [] ~none /\ noCash -> Point("info", "no cash", 0)
                  [] ~none /\ ~noCash -> Point("info", "cash share", share)}
    BY DEF PaidBy
  <2> DEFINE p1 == Point("info", "all cash", 100)
             p2 == Point("info", "no cash", 0)
             p3 == Point("info", "cash share", share)
  <2> HIDE DEF none, noCash, share
  <2>2. p1.about = "all cash" /\ p2.about = "no cash" /\ p3.about = "cash share"
    BY DEF Point
  <2>3. PaidBy(i) \subseteq {p1, p2, p3}
    BY <2>1
  <2> HIDE DEF p1, p2, p3
  <2> QED BY <2>2, <2>3
<1>2. \A p \in Pace(i) : p.about = "pace"
  <2> DEFINE before == HourSales(i.trends, 0 .. i.hour - 1) - i.day.sales
             total == KnownSales(i.trends) - i.day.sales
             n == HalfUp(i.day.revenue * total, before * Rules.rounded) * Rules.rounded
             c1 == ~InProgress(i) \/ NotLoaded \in {i.day, i.trends}
             c2 == i.day.sales = 0 \/ i.hour < OpenHour + 2 \/ total < Rules.paceSales \/ before <= 0
          \/ before * 5 < total \/ before * 10 > total * 9
  <2>1. Pace(i) = IF c1 THEN {} ELSE IF c2 THEN {} ELSE {Point("info", "pace", n)}
    BY DEF Pace
  <2> HIDE DEF c1, c2, n
  <2>2. Point("info", "pace", n).about = "pace"
    BY DEF Point
  <2> QED BY <2>1, <2>2
<1>3. \A p \in OwedPoint(i) : p.about \in {"owed", "all paid out"}
  <2> DEFINE n == Total(NotPaidOut(i), LAMBDA b : i.day.barbers[b].remaining)
             p1 == Point(IF InProgress(i) THEN "info" ELSE "warn", "owed", n)
             p2 == Point("good", "all paid out", 0)
             some == NotPaidOut(i) # {}
             earned == SomeoneEarned(i)
  <2>1. OwedPoint(i) = IF some THEN {p1} ELSE When(earned, p2)
    BY DEF OwedPoint
  <2>2. p1.about = "owed" /\ p2.about = "all paid out"
    <3> HIDE DEF n
    <3> QED BY DEF Point
  <2> HIDE DEF p1, p2, some, earned
  <2>3. When(earned, p2) \subseteq {p2}
    BY DEF When
  <2>4. OwedPoint(i) \subseteq {p1, p2}
    BY <2>1, <2>3
  <2> QED BY ONLY <2>2, <2>4
<1>4. ASSUME i.day.drawer.status \in {"none", "balanced", "short", "over"}
      PROVE  \A p \in DrawerPoint(i) : p.about \in {"stale", "balanced", "short", "over", "not counted"}
  <2> DEFINE stale == i.day.drawer.stale
             status == i.day.drawer.status
             some == i.day.sales > 0
             p1 == Point("warn", "stale", 0)
             p2 == Point("good", "balanced", 0)
             p3 == Point("warn", status, 0)
             p4 == Point(IF InProgress(i) THEN "info" ELSE "warn", "not counted", 0)
  <2>1. DrawerPoint(i) = IF stale THEN {p1} ELSE IF status = "balanced" THEN {p2}
                         ELSE IF status # "none" THEN {p3} ELSE When(some, p4)
    BY DEF DrawerPoint
  <2>2. p1.about = "stale" /\ p2.about = "balanced" /\ p3.about = status /\ p4.about = "not counted"
    BY DEF Point
  <2>3. status \in {"none", "balanced", "short", "over"}
    BY <1>4
  <2> HIDE DEF p1, p2, p3, p4, some, status, stale
  <2> SUFFICES ASSUME NEW p \in DrawerPoint(i)
               PROVE  p.about \in {"stale", "balanced", "short", "over", "not counted"}
    OBVIOUS
  <2>4. p \in {p1, p2, p4} \/ (p = p3 /\ status # "none")
    BY <2>1, WhenIs
  <2> QED BY ONLY <2>2, <2>3, <2>4
<1> QED BY <1>1, <1>2, <1>3, <1>4

(* The latest count either balances, is short or over. *)
LEMMA DrawerStatus ==
  ASSUME FiguresInv, FiguresRest, NEW d
  PROVE  /\ SavedCount(d).status \in {"none", "balanced", "short", "over"}
         /\ SavedCount(d).stale \in BOOLEAN
         /\ SavedCount(d).status = "none" <=> CountsOf(d) = {}
         /\ SavedCount(d).stale <=> CountsOf(d) # {} /\ IsStale(LatestCount(d))
         /\ SavedCount(d).status = "balanced" <=> CountsOf(d) # {} /\ LatestCount(d).variance = 0
<1>1. CASE CountsOf(d) = {}
  BY <1>1 DEF SavedCount
<1>2. CASE CountsOf(d) # {}
  <2> DEFINE c == LatestCount(d)
             x == c.variance
             status == CASE x = 0 -> "balanced" [] x < 0 -> "short" [] x > 0 -> "over"
             stale == IsStale(c)
  <2>1. c \in StoredCount
    BY <1>2, LatestIsThere DEF FiguresRest
  <2>2. x \in Int
    BY <2>1 DEF StoredCount
  <2>3. SavedCount(d) = [status |-> status, stale |-> stale]
    BY <1>2 DEF SavedCount
  <2>4. stale \in BOOLEAN
    BY DEF IsStale
  <2> HIDE DEF x, stale
  <2>5. x = 0 \/ x < 0 \/ x > 0
    BY <2>2
  <2>6. (x = 0 => status = "balanced") /\ (x < 0 => status = "short") /\ (x > 0 => status = "over")
    BY <2>2
  <2> HIDE DEF status
  <2>7. status \in {"balanced", "short", "over"} /\ (status = "balanced" <=> x = 0)
    BY <2>2, <2>5, <2>6
  <2> QED BY <1>2, <2>3, <2>4, <2>7 DEF x, stale
<1> QED BY <1>1, <1>2

(* What the slides say of a change, of the day and of where it ends is so. *)
LEMMA StoryCompares ==
  ASSUME FiguresInv, FiguresRest, NEW v \in Visits, NEW d, d = v.date
  PROVE  ComparesRightly(StoryInput(v, d), StorySlides(StoryInput(v, d)))
<1> DEFINE i == StoryInput(v, d)
           s == StorySlides(i)
           trend == s["trend"].headline
           day == s["day"].headline
<1>1. d \in Nat /\ i.date = d
  BY StoryAssumption, FiguresAssumption, Inputs
<1>2. i.trends # NotLoaded => i.trends = TrendsInput(v, d)
  BY Inputs
<1>3. i.day # NotLoaded => i.day = DayInput(v, d)
  BY Inputs
<1>4. i.trends = NotLoaded \/ Period(i.trends, d)
  BY <1>1, <1>2, PeriodOfInput
<1>5. i.day = NotLoaded \/ (i.day.revenue \in Nat /\ i.day.sales \in Nat)
  <2>1. DayInput(v, d).revenue = Sub(EachAmount, PaidSales(d)) /\ DayInput(v, d).sales = Cardinality(PaidSales(d))
        /\ PaidSales(d) \in SUBSET sold
    BY InputOfDay, DayRevenue
  <2>2. DayInput(v, d).revenue \in Nat /\ DayInput(v, d).sales \in Nat
    BY <2>1, RowsAdd, SubFacts, CountsAdd
  <2> QED BY <1>3, <2>2
<1>6. s["trend"] = TrendSlide(i) /\ s["day"] = DaySlide(i)
  BY SlidesAre
<1> HIDE DEF i, s
<1>7. /\ trend.about \in {"more sales", "higher average"} => trend.n > 0
      /\ trend.about \in {"fewer sales", "lower average"} => trend.n < 0
      /\ trend.about = "higher average" => i.trends.revenue * i.trends.previous.sales > i.trends.previous.revenue * i.trends.sales
  <2>1. trend = IF i.trends = NotLoaded THEN Point("info", "unreachable", 0)
                ELSE IF i.trends.sales = 0 THEN Point("info", "no sales", 0)
                ELSE TrendHeadline(i.trends)
    BY <1>6, TrendSlideIs
  <2> DEFINE zero == i.trends.sales = 0
             higher == i.trends.revenue * i.trends.previous.sales > i.trends.previous.revenue * i.trends.sales
  <2>2. ASSUME i.trends # NotLoaded, ~zero
        PROVE  /\ trend.about \in {"more sales", "higher average"} => trend.n > 0
               /\ trend.about \in {"fewer sales", "lower average"} => trend.n < 0
               /\ trend.about = "higher average" => higher
    <3> DEFINE a == i.trends.sales
               b == i.trends.previous.sales
               x == i.trends.revenue
               y == i.trends.previous.revenue
    <3>1. trend = TrendHeadline(i.trends)
      BY <2>1, <2>2
    <3>2. a \in Nat \ {0} /\ b \in Nat /\ x \in Nat /\ y \in Nat
      BY <1>4, <2>2 DEF Period
    <3>3. TrendSays(TrendHeadline(i.trends), a, b, x, y)
      <4> DEFINE t == i.trends
      <4>1. t.sales = a /\ t.previous.sales = b /\ t.revenue = x /\ t.previous.revenue = y
        OBVIOUS
      <4> HIDE DEF a, b, x, y
      <4> QED BY <3>2, <4>1, TrendCompares
    <3> HIDE DEF trend
    <3> QED BY <3>1, <3>3 DEF TrendSays
  <2>3. Point("info", "unreachable", 0).about = "unreachable" /\ Point("info", "no sales", 0).about = "no sales"
    BY DEF Point
  <2> HIDE DEF trend, zero, higher
  <2>4. CASE i.trends = NotLoaded \/ zero
    <3>1. trend.about \in {"unreachable", "no sales"}
      BY <2>1, <2>3, <2>4 DEF zero
    <3> QED BY ONLY <3>1 DEF higher
  <2> QED BY <2>2, <2>4 DEF higher
<1>8. DaySays(day, i)
  <2> DEFINE none == i.day = NotLoaded
             some == i.day.sales > 0
             p1 == Point("info", "unreachable", 0)
             p2 == Point(IF InProgress(i) THEN "info" ELSE "warn", "no sales", 0)
  <2>1. day = IF none THEN p1 ELSE IF some THEN Comparison(i) ELSE p2
    BY <1>6, DaySlideIs
  <2>2. p1.about = "unreachable" /\ p2.about = "no sales"
    BY DEF Point
  <2>4. ASSUME ~none PROVE DaySays(Comparison(i), i)
    BY <1>1, <1>4, <1>5, <2>4, ComparisonSays
  <2> HIDE DEF p1, p2
  <2>5. DaySays(p1, i) /\ DaySays(p2, i)
    BY ONLY <2>2 DEF DaySays
  <2> HIDE DEF day, none, some
  <2>6. CASE none
    BY ONLY <2>1, <2>5, <2>6
  <2>7. CASE ~none /\ some
    BY ONLY <2>1, <2>4, <2>7
  <2>8. CASE ~none /\ ~some
    BY ONLY <2>1, <2>5, <2>8
  <2> QED BY ONLY <2>6, <2>7, <2>8
<1>9. \A p \in s["day"].points : p.about = "pace" => p.n >= i.day.revenue - Rules.rounded
  <2> SUFFICES ASSUME NEW p \in s["day"].points, p.about = "pace"
               PROVE  p.n >= i.day.revenue - Rules.rounded
    OBVIOUS
  <2>1. i.day # NotLoaded
    BY <1>6, DaySlideIs
  <2>2. i.day.drawer = SavedCount(d)
    BY <1>3, <2>1, InputOfDay
  <2>3. i.day.drawer.status \in {"none", "balanced", "short", "over"}
    BY <2>2, DrawerStatus
  <2>4. p \notin PaidBy(i) /\ p \notin OwedPoint(i) /\ p \notin DrawerPoint(i)
    BY <2>3, DayAbouts
  <2>5. p \in Pace(i)
    BY <1>6, <2>4, DaySlideIs
  <2> QED BY <1>4, <1>5, <2>5, DayPace
<1> HIDE DEF day, trend
<1>10. ComparesRightly(i, s)
  BY <1>7, <1>8, <1>9 DEF ComparesRightly, DaySays, day, trend
<1> QED BY <1>10 DEF i, s

-----------------------------------------------------------------------------
(* Of finitely many hours one is the busiest, the earliest of several. *)
LEMMA EarliestExists ==
  ASSUME NEW S, S \subseteq Int, IsFiniteSet(S), S # {}, NEW g \in [S -> Nat]
  PROVE  \E h \in S : \A o \in S \ {h} : g[h] > g[o] \/ (~(g[o] > g[h]) /\ h < o)
<1> DEFINE R == {g[d] : d \in S}
           most == Max(R)
           B == {d \in S : g[d] = most}
           first == Min(B)
<1>1. g \in Surjection(S, R)
  BY DEF Surjection
<1>2. R \subseteq Int /\ R # {} /\ \A d \in S : g[d] \in R
  <2>1. \A d \in S : g[d] \in Int /\ g[d] \in R
    OBVIOUS
  <2>2. R \subseteq Int
    BY <2>1
  <2> QED BY <2>1, <2>2
<1>3. \A n \in R : \E d \in S : g[d] = n
  OBVIOUS
<1> HIDE DEF R
<1>4. IsFiniteSet(R)
  BY ONLY <1>1, IsFiniteSet(S), FS_Surjection
<1>5. most \in R /\ \A n \in R : n <= most
  BY ONLY <1>2, <1>4, MaxOfFinite
<1> HIDE DEF most
<1>6. B # {} /\ B \subseteq S
  BY <1>3, <1>5
<1>7. IsFiniteSet(B) /\ B \subseteq Int
  BY <1>6, FS_Subset
<1> HIDE DEF B
<1>8. first \in B /\ \A d \in B : first <= d
  BY ONLY <1>6, <1>7, MinOfFinite
<1> HIDE DEF first
<1>9. ASSUME NEW o \in S \ {first} PROVE g[first] > g[o] \/ (~(g[o] > g[first]) /\ first < o)
  <2>1. g[first] = most /\ g[o] <= most /\ g[o] \in Int /\ most \in Int
    BY <1>2, <1>5, <1>8 DEF B
  <2>2. g[o] = most => o \in B
    BY DEF B
  <2>3. first \in Int /\ o \in Int
    BY <1>6, <1>8
  <2> QED BY <1>8, <2>1, <2>2, <2>3
<1> QED BY <1>6, <1>8, <1>9

(* A part is at most the whole. *)
LEMMA PercentIsShare ==
  ASSUME NEW whole \in Nat, NEW n \in Nat, n <= whole
  PROVE  PercentOf(n, whole) \in 0 .. 100
<1> DEFINE p == n * 100
           q == HalfUp(p, whole)
<1>1. CASE whole = 0
  BY <1>1 DEF PercentOf
<1>2. CASE whole # 0
  <2>1. p \in Nat /\ whole \in Nat \ {0} /\ p <= 100 * whole
    BY <1>2
  <2>2. PercentOf(n, whole) = q
    BY <2>1 DEF PercentOf
  <2> HIDE DEF p
  <2>3. q \in Int /\ 2 * (q * whole - p) <= whole /\ (q < 0 => p < 0)
    BY <2>1, HalfUpNear
  <2> HIDE DEF q
  <2>4. q >= 0
    BY <2>1, <2>3
  <2>5. ASSUME q > 100 PROVE FALSE
    <3>1. q * whole >= 101 * whole
      BY <2>1, <2>3, <2>5
    <3>2. q * whole \in Int
      BY <2>1, <2>3
    <3> QED BY <2>1, <2>3, <3>1, <3>2
  <2> QED BY <2>2, <2>3, <2>4, <2>5
<1> QED BY <1>1, <1>2

(* Sales of more hours are no fewer. *)
LEMMA HoursMore ==
  ASSUME NEW t, NEW d, Period(t, d), NEW S, NEW T, S \cap DOMAIN t.hours \subseteq T
  PROVE  HourSales(t, S) <= HourSales(t, T)
<1>1. PICK a \in Int, b \in Int : t.hours \in [a .. b -> Nat]
  BY DEF Period
<1> DEFINE I == a .. b
<1>2. IsFiniteSet(I)
  BY ONLY a \in Int, b \in Int, FS_Interval
<1>3. DOMAIN t.hours = I /\ t.hours \in [I -> Nat]
  BY <1>1
<1> HIDE DEF I
<1>4. HourSales(t, S) = Sub(t.hours, S \cap I) /\ HourSales(t, T) = Sub(t.hours, T \cap I)
  BY <1>3 DEF HourSales, Total, Sub
<1>5. T \cap I \in SUBSET I /\ S \cap I \in SUBSET (T \cap I)
  BY <1>3
<1> QED BY ONLY <1>2, <1>3, <1>4, <1>5, SubOfMore

(* The stretch that is named is one of the busiest. *)
LEMMA StretchIsBusiest ==
  ASSUME NEW t, NEW d, Period(t, d), NEW h \in DOMAIN t.hours
  PROVE  HourSales(t, h .. h + StretchHours - 1) <= HourSales(t, Stretch(t) .. Stretch(t) + StretchHours - 1)
<1>1. PICK a \in Int, b \in Int : a <= 10 /\ 21 <= b /\ t.hours \in [a .. b -> Nat]
  BY DEF Period, OpenHour, CloseHour
<1> DEFINE S == {x \in DOMAIN t.hours : x + StretchHours - 1 \in DOMAIN t.hours}
           Of(x) == HourSales(t, x .. x + StretchHours - 1)
           g == [x \in S |-> Of(x)]
<1>2. DOMAIN t.hours = a .. b
  BY <1>1
<1>3. S = a .. b - 2
  BY <1>1, <1>2 DEF StretchHours
<1>4. S \subseteq Int /\ S # {} /\ b - 2 \in S
  BY <1>1, <1>3
<1>5. IsFiniteSet(S)
  <2>1. b - 2 \in Int
    BY <1>1
  <2> QED BY ONLY a \in Int, <2>1, <1>3, FS_Interval
<1>6. \A x : Of(x) \in Nat
  BY HoursAdd
<1>7. Stretch(t) = CHOOSE x \in S : \A o \in S \ {x} : Of(x) > Of(o) \/ (~(Of(o) > Of(x)) /\ x < o)
  BY DEF Stretch, Earliest
<1> HIDE DEF S, Of
<1>8. g \in [S -> Nat] /\ \A x \in S : g[x] = Of(x)
  BY <1>6
<1> HIDE DEF g
<1>9. \E x \in S : \A o \in S \ {x} : g[x] > g[o] \/ (~(g[o] > g[x]) /\ x < o)
  BY ONLY <1>4, <1>5, <1>8, EarliestExists
<1>10. \E x \in S : \A o \in S \ {x} : Of(x) > Of(o) \/ (~(Of(o) > Of(x)) /\ x < o)
  <2>1. PICK x \in S : \A o \in S \ {x} : g[x] > g[o] \/ (~(g[o] > g[x]) /\ x < o)
    BY <1>9
  <2>2. ASSUME NEW o \in S \ {x} PROVE Of(x) > Of(o) \/ (~(Of(o) > Of(x)) /\ x < o)
    <3>1. g[x] = Of(x) /\ g[o] = Of(o)
      BY <1>8
    <3> QED BY <2>1, <3>1
  <2> QED BY <2>2
<1> DEFINE from == Stretch(t)
<1>11. from \in S /\ \A o \in S \ {from} : Of(from) > Of(o) \/ (~(Of(o) > Of(from)) /\ from < o)
  BY <1>7, <1>10
<1> HIDE DEF from
<1>12. ASSUME NEW x \in S PROVE Of(x) <= Of(from)
  <2>1. Of(x) \in Nat /\ Of(from) \in Nat
    BY <1>6
  <2>2. CASE x = from
    BY <2>1, <2>2
  <2>3. CASE x # from
    <3>1. Of(from) > Of(x) \/ ~(Of(x) > Of(from))
      BY <1>11, <2>3
    <3> QED BY <2>1, <3>1
  <2> QED BY <2>2, <2>3
<1>13. Of(h) <= Of(from)
  <2>1. CASE h \in S
    BY <1>12, <2>1
  <2>2. CASE h \notin S
    <3>1. h \in Int /\ h > b - 2
      BY <1>1, <1>2, <1>3, <2>2
    <3>2. (h .. h + StretchHours - 1) \cap DOMAIN t.hours \subseteq (b - 2) .. (b - 2) + StretchHours - 1
      BY <1>1, <1>2, <3>1 DEF StretchHours
    <3>3. Of(h) <= Of(b - 2)
      BY <3>2, HoursMore DEF Of
    <3>4. Of(b - 2) <= Of(from)
      BY <1>4, <1>12
    <3>5. Of(h) \in Nat /\ Of(b - 2) \in Nat /\ Of(from) \in Nat
      BY <1>6
    <3> QED BY ONLY <3>3, <3>4, <3>5
  <2> QED BY <2>1, <2>2
<1> QED BY <1>13 DEF Of, from

(* What the weekdays are about. *)
LEMMA WeekAbouts ==
  ASSUME NEW i
  PROVE  \A p \in WeekProfile(i) : p.about \in {"weekend", "weekdays"}
<1> DEFINE On(w) == {d \in OpenDays(i) : d % Rules.week = w}
           Busier(w, x) == SalesOf(i, On(w)) * Cardinality(On(x)) > SalesOf(i, On(x)) * Cardinality(On(w))
           seen == {w \in 0 .. Rules.week - 1 : Cardinality(On(w)) >= Rules.seenTwice}
           busiest == Earliest(seen, Busier)
           quietest == Earliest(seen, LAMBDA w, x : Busier(x, w))
           weekend == {d \in OpenDays(i) : d % Rules.week \in Rules.weekend}
           weekdays == OpenDays(i) \ weekend
           Mean(S) == HalfUp(SalesOf(i, S) * 100, Cardinality(S))
           gap == PercentChange(Mean(weekend), Mean(weekdays))
           c1 == RangeDays < Rules.fortnight \/ Cardinality({w \in 0 .. Rules.week - 1 : On(w) # {}}) < Rules.weekdays
           c2 == Cardinality(seen) < 2
           c3 == ~Busier(busiest, quietest)
           c4 == Cardinality(weekend) >= Rules.seenTwice /\ Cardinality(weekdays) >= Rules.seenTwice
           tone == IF Size(gap) < Notable THEN "flat" ELSE Toward(gap)
<1>1. WeekProfile(i) = IF c1 THEN {} ELSE IF c2 THEN {} ELSE IF c3 THEN {}
                       ELSE IF c4 THEN {Point(tone, "weekend", gap)} ELSE {Point("info", "weekdays", busiest)}
  BY DEF WeekProfile
<1> HIDE DEF gap, busiest, tone, c1, c2, c3, c4
<1> DEFINE p1 == Point(tone, "weekend", gap)
           p2 == Point("info", "weekdays", busiest)
<1>2. p1.about = "weekend" /\ p2.about = "weekdays"
  BY DEF Point
<1>3. WeekProfile(i) \subseteq {p1, p2}
  BY <1>1
<1> HIDE DEF p1, p2
<1> QED BY ONLY <1>2, <1>3

(* The hours' slide. *)
LEMMA HoursSlideIs ==
  ASSUME NEW i
  PROVE  LET t == i.trends
             from == Stretch(t)
             stretch == from .. from + StretchHours - 1 IN
         /\ HoursSlide(i).headline.n = from
         /\ \A p \in HoursSlide(i).points : p.about = "breaks at" => p.n \notin stretch
         /\ \A p \in HoursSlide(i).highlight : p.n = PercentOf(HourSales(t, stretch), KnownSales(t))
<1> DEFINE t == i.trends
           known == KnownSales(t)
           from == Stretch(t)
           stretch == from .. from + StretchHours - 1
           part == PercentOf(HourSales(t, stretch), known)
           outside == known - HourSales(t, OpenHour .. CloseHour - 1)
           enough == known >= Rules.enough
           early == PercentOf(HourSales(t, 0 .. 15), known)
           out == outside > 0
           unknown == t.hourExcluded > 0
           quiet == QuietHour(t)
           away == quiet \notin stretch
           q0 == Point("info", IF enough THEN "busiest from" ELSE "early read", from)
           q1 == Point("up", "busiest hour", PeakHour(t))
           q2 == Point("info", "before four", early)
           q3 == Point("info", "outside", outside)
           q4 == Point("info", "hour unknown", t.hourExcluded)
           q5 == Point("idea", "breaks at", quiet)
           q6 == Point("info", "stretch share", part)
<1>1. HoursSlide(i) =
        [headline |-> q0,
         points |-> WeekProfile(i) \cup When(~enough, q1) \cup When(enough, q2) \cup When(out, q3)
                    \cup When(unknown, q4) \cup When(enough /\ away, q5),
         highlight |-> When(enough, q6)]
  BY DEF HoursSlide
<1> HIDE DEF from, enough, early, outside, out, unknown, quiet, part
<1>2. q0.n = from
  BY DEF Point
<1>3. q1.about = "busiest hour"
  <2> DEFINE peak == PeakHour(t)
  <2> HIDE DEF peak
  <2>1. Point("up", "busiest hour", peak).about = "busiest hour"
    BY DEF Point
  <2> QED BY <2>1 DEF peak
<1>4. q2.about = "before four" /\ q3.about = "outside" /\ q4.about = "hour unknown"
  BY DEF Point
<1>5. q5.n = quiet /\ q6.n = part
  BY DEF Point
<1> HIDE DEF q0, q1, q2, q3, q4, q5, q6
<1>6. /\ HoursSlide(i).headline = q0
      /\ HoursSlide(i).points \subseteq WeekProfile(i) \cup {q1, q2, q3, q4} \cup When(enough /\ away, q5)
      /\ HoursSlide(i).highlight \subseteq {q6}
  BY <1>1 DEF When
<1>7. ASSUME NEW p \in HoursSlide(i).points, p.about = "breaks at"
      PROVE  p.n \notin stretch
  <2>1. p \notin WeekProfile(i)
    BY <1>7, WeekAbouts
  <2>2. p \notin {q1, q2, q3, q4}
    BY <1>3, <1>4, <1>7
  <2>3. p = q5 /\ away
    BY <1>6, <2>1, <2>2 DEF When
  <2> QED BY <1>5, <2>3
<1> HIDE DEF stretch
<1>8. \A p \in HoursSlide(i).highlight : p.n = part
  BY <1>5, <1>6
<1> QED BY <1>2, <1>6, <1>7, <1>8 DEF from, stretch, part

(* Nothing is known of a busier stretch, a break is outside it, and its share is one. *)
LEMMA StoryHours ==
  ASSUME FiguresInv, NEW v \in Visits, NEW d, d = v.date
  PROVE  HoursAreRight(StoryInput(v, d), StorySlides(StoryInput(v, d)))
<1> DEFINE i == StoryInput(v, d)
           s == StorySlides(i)
           t == i.trends
           from == Stretch(t)
           stretch == from .. from + StretchHours - 1
<1> SUFFICES ASSUME HasHours(i) PROVE HoursAreRight(i, s)
  BY DEF HoursAreRight
<1>1. d \in Nat
  BY StoryAssumption, FiguresAssumption
<1>2. i.trends # NotLoaded /\ t = TrendsInput(v, d)
  BY Inputs DEF HasHours, HasTrends
<1>3. Period(t, d)
  BY <1>1, <1>2, PeriodOfInput
<1>4. s["hours"] = HoursSlide(i)
  BY SlidesAre
<1> HIDE DEF i, s
<1>5. /\ s["hours"].headline.n = from
      /\ \A p \in s["hours"].points : p.about = "breaks at" => p.n \notin stretch
      /\ \A p \in s["hours"].highlight : p.n = PercentOf(HourSales(t, stretch), KnownSales(t))
  BY <1>4, HoursSlideIs
<1>6. \A h \in DOMAIN t.hours : HourSales(t, h .. h + StretchHours - 1) <= HourSales(t, stretch)
  BY <1>3, StretchIsBusiest
<1>7. PercentOf(HourSales(t, stretch), KnownSales(t)) \in 0 .. 100
  <2>1. HourSales(t, stretch) \in Nat /\ KnownSales(t) \in Nat
    BY <1>3, HoursAdd DEF KnownSales
  <2>2. HourSales(t, stretch) <= KnownSales(t)
    <3>1. stretch \cap DOMAIN t.hours \subseteq DOMAIN t.hours
      OBVIOUS
    <3> HIDE DEF stretch
    <3> QED BY <1>3, <3>1, HoursMore DEF KnownSales
  <2> QED BY ONLY <2>1, <2>2, PercentIsShare
<1>8. HoursAreRight(i, s)
  BY <1>5, <1>6, <1>7 DEF HoursAreRight
<1> QED BY <1>8 DEF i, s

-----------------------------------------------------------------------------
(* Money by method and by barber. *)

(* Money that adds up to nothing is none. *)
LEMMA NothingFromZero ==
  ASSUME NEW S, IsFiniteSet(S), NEW g \in [S -> Nat], NEW T \in SUBSET S, Sub(g, T) = 0
  PROVE  \A x \in T : g[x] = 0
<1> SUFFICES ASSUME NEW x \in T PROVE g[x] = 0
  OBVIOUS
<1>1. Sub(g, T) = g[x] + Sub(g, T \ {x}) /\ Sub(g, T \ {x}) \in Nat /\ g[x] \in Nat
  BY SubFacts
<1> QED BY <1>1

(* Bars by method, when every sale has one. *)
MethodBars(T, I) == [m \in I |-> Total({r \in T : r.method = m}, AmountOf)]

(* They add up to the sales; one of nothing has no sale with an amount. *)
LEMMA MethodBarsAdd ==
  ASSUME FiguresInv, NEW T \in SUBSET sold, NEW I, I \subseteq {"CASH", "GCASH", "MAYA", "QRPH"},
         \A r \in T : r.method \in I
  PROVE  /\ SumOf(MethodBars(T, I)) = Sub(EachAmount, T)
         /\ MethodBars(T, I) \in [I -> Nat] /\ IsFiniteSet(I)
         /\ \A m \in I : MethodBars(T, I)[m] = 0 => \A r \in T : r.method = m => AmountOf(r) = 0
<1>1. /\ SumOf(MethodBars(T, I)) = Sub(EachAmount, T)
      /\ MethodBars(T, I) \in [I -> Nat] /\ IsFiniteSet(I)
  BY MethodsAdd DEF MethodBars
<1>2. ASSUME NEW m \in I, MethodBars(T, I)[m] = 0, NEW r \in T, r.method = m
      PROVE  AmountOf(r) = 0
  <2> DEFINE U == {x \in T : x.method = m}
  <2>1. MethodBars(T, I)[m] = Total(U, AmountOf)
    BY DEF MethodBars
  <2>2. U \in SUBSET sold /\ r \in U
    BY <1>2
  <2> HIDE DEF U
  <2>3. Total(U, AmountOf) = Sub(EachAmount, U)
    BY <2>2, TotalsAreSums
  <2>4. EachAmount[r] = 0
    BY <1>2, <2>1, <2>2, <2>3, RowsAdd, NothingFromZero
  <2> QED BY <2>2, <2>4 DEF EachAmount
<1> QED BY <1>1, <1>2

(* No set of the k greatest is missing. *)
LEMMA TopSet ==
  ASSUME NEW D, IsFiniteSet(D), NEW f \in [D -> Nat], NEW k \in Nat, k <= Cardinality(D)
  PROVE  \E S \in SUBSET D : Cardinality(S) = k /\ \A a \in S, b \in D \ S : f[a] >= f[b]
<1> DEFINE Top(S) == \A a \in S, b \in D \ S : f[a] >= f[b]
           B == {S \in SUBSET D : Cardinality(S) >= k /\ Top(S)}
<1>1. \A S \in SUBSET D : IsFiniteSet(S) /\ Cardinality(S) \in Nat
  BY FS_Subset, FS_CardinalityType
<1>2. D \in B
  BY <1>1
<1>3. B \subseteq SUBSET D /\ B # {}
  BY <1>2
<1>4. PICK U \in B : \A V \in B : V \subseteq U => V = U
  <2> HIDE DEF B
  <2> QED BY <1>3, SmallestSet
<1>5. U \in SUBSET D /\ Cardinality(U) >= k /\ Top(U)
  BY <1>4
<1>6. ASSUME Cardinality(U) > k PROVE FALSE
  <2> DEFINE R == {f[x] : x \in U}
             g == [x \in U |-> f[x]]
  <2>1. U # {}
    BY <1>5, <1>6, FS_EmptySet
  <2>2. g \in Surjection(U, R)
    BY DEF Surjection
  <2>3. \A x \in U : f[x] \in R /\ f[x] \in Nat
    BY <1>5
  <2>4. R \subseteq Int /\ R # {}
    BY <2>1, <2>3
  <2>5. \A n \in R : \E x \in U : f[x] = n
    OBVIOUS
  <2> HIDE DEF R, g
  <2>6. IsFiniteSet(R)
    <3>1. IsFiniteSet(U)
      BY <1>1, <1>5
    <3> QED BY ONLY <3>1, <2>2, FS_Surjection
  <2>7. Min(R) \in R /\ \A n \in R : Min(R) <= n
    BY ONLY <2>4, <2>6, MinOfFinite
  <2>8. PICK y \in U : f[y] = Min(R)
    BY <2>5, <2>7
  <2>9. \A x \in U : f[y] <= f[x]
    BY <2>3, <2>7, <2>8
  <2> DEFINE V == U \ {y}
  <2>10. V \in SUBSET D /\ V # U /\ V \subseteq U
    BY <1>5
  <2>11. Cardinality(V) = Cardinality(U) - 1
    BY <1>1, <1>5, FS_RemoveElement
  <2>12. Cardinality(V) >= k
    BY <1>1, <1>5, <1>6, <2>11
  <2>13. Top(V)
    <3> SUFFICES ASSUME NEW a \in V, NEW b \in D \ V PROVE f[a] >= f[b]
      OBVIOUS
    <3>1. CASE b = y
      <4>1. f[y] <= f[a] /\ f[y] \in Nat /\ f[a] \in Nat
        BY <2>3, <2>9
      <4> QED BY <3>1, <4>1
    <3>2. CASE b # y
      BY <1>5, <3>2
    <3> QED BY <3>1, <3>2
  <2> QED BY <1>4, <2>10, <2>12, <2>13
<1>7. Cardinality(U) = k
  BY <1>1, <1>5, <1>6
<1> QED BY <1>5, <1>7

(* Bars past the limit are added up, not left out. *)
LEMMA BarsAdd ==
  ASSUME NEW D, D \subseteq Staff, NEW f \in [D -> Nat]
  PROVE  Total(DOMAIN CapBars(f), LAMBDA x : CapBars(f)[x]) = SumOf(f)
<1> DEFINE longest == CHOOSE S \in SUBSET D :
             Cardinality(S) = Rules.bars - 1 /\ \A a \in S, b \in D \ S : f[a] >= f[b]
           others == Total(D \ longest, LAMBDA x : f[x])
           J == longest \cup {"others"}
           capped == [x \in J |-> IF x = "others" THEN others ELSE f[x]]
           n == Cardinality(D)
           few == n <= Rules.bars
<1>1. D = DOMAIN f /\ IsFiniteSet(D) /\ "others" \notin D /\ Rules.bars \in Nat \ {0}
  BY FS_Subset, FiguresAssumption, StoryAssumption
<1>2. CapBars(f) = IF few THEN f ELSE capped
  BY <1>1 DEF CapBars
<1>3. n \in Nat
  BY <1>1, FS_CardinalityType
<1>4. CASE few
  <2>1. CapBars(f) = f
    BY <1>2, <1>4
  <2>2. [x \in DOMAIN f |-> f[x]] = f
    OBVIOUS
  <2> QED BY <2>1, <2>2 DEF Total
<1>5. CASE ~few
  <2>1. CapBars(f) = capped
    BY <1>2, <1>5
  <2>2. \E S \in SUBSET D : Cardinality(S) = Rules.bars - 1 /\ \A a \in S, b \in D \ S : f[a] >= f[b]
    <3> DEFINE k == Rules.bars - 1
    <3>1. k \in Nat /\ k <= n
      BY <1>1, <1>3, <1>5
    <3> HIDE DEF k
    <3>2. \E S \in SUBSET D : Cardinality(S) = k /\ \A a \in S, b \in D \ S : f[a] >= f[b]
      BY <1>1, <3>1, TopSet
    <3> QED BY <3>2 DEF k
  <2>3. longest \in SUBSET D
    BY <2>2
  <2> HIDE DEF longest
  <2>4. others = Sub(f, D \ longest)
    BY DEF Total, Sub
  <2>5. Sub(f, longest) \in Nat /\ others \in Nat
    BY <1>1, <2>3, <2>4, SubFacts
  <2>6. SumOf(f) = Sub(f, longest) + others
    <3>1. longest \cup (D \ longest) = D /\ longest \cap (D \ longest) = {}
      BY <2>3
    <3>2. Sub(f, D) = SumOf(f)
      BY <1>1, SubFacts
    <3> QED BY <1>1, <2>3, <2>4, <3>1, <3>2, SumOfUnion
  <2> HIDE DEF others
  <2>7. capped \in [J -> Nat] /\ IsFiniteSet(J)
    <3>1. \A x \in longest : f[x] \in Nat
      BY <2>3
    <3>2. capped \in [J -> Nat]
      BY <2>5, <3>1
    <3>3. IsFiniteSet(longest)
      BY <1>1, <2>3, FS_Subset
    <3> QED BY <3>2, <3>3, FS_AddElement
  <2>8. longest \in SUBSET J /\ {"others"} \in SUBSET J /\ longest \cap {"others"} = {} /\ J = longest \cup {"others"}
    BY <1>1, <2>3
  <2>9. \A x \in longest : capped[x] = f[x]
    BY <2>8
  <2>10. capped["others"] = others /\ DOMAIN capped = J
    BY <2>8
  <2> HIDE DEF capped, J
  <2>11. Sub(capped, J) = Sub(capped, longest) + Sub(capped, {"others"})
    BY ONLY <2>7, <2>8, SumOfUnion
  <2>12. Sub(capped, longest) = Sub(f, longest)
    BY <2>9, SubSame
  <2>13. Sub(capped, {"others"}) = others
    <3>1. [x \in {"others"} |-> capped[x]] = [x \in {"others"} |-> others]
      BY <2>10
    <3> QED BY <2>5, <3>1, SumOfOne DEF Sub
  <2>14. Total(DOMAIN capped, LAMBDA x : capped[x]) = Sub(capped, J)
    BY <2>10 DEF Total, Sub
  <2> QED BY <2>1, <2>6, <2>11, <2>12, <2>13, <2>14
<1> QED BY <1>4, <1>5

(* A share rounded twice is a percent off at most. *)
LEMMA TwiceRounded ==
  ASSUME NEW D \in Nat, NEW R \in Nat \ {0}
  PROVE  Size(HalfUp(HalfUp(D * 1000, R), 10) - HalfUp(D * 100, R)) <= 1
<1> DEFINE p1 == D * 1000
           p3 == D * 100
           q1 == HalfUp(p1, R)
           q2 == HalfUp(q1, 10)
           q3 == HalfUp(p3, R)
<1>1. p1 \in Nat /\ p3 \in Nat /\ p1 = 10 * p3
  OBVIOUS
<1> HIDE DEF p1, p3
<1>2. q1 \in Int /\ 2 * (q1 * R - p1) <= R /\ 2 * (p1 - q1 * R) <= R
  BY <1>1, HalfUpNear
<1> HIDE DEF q1
<1>3. q2 \in Int /\ 2 * (q2 * 10 - q1) <= 10 /\ 2 * (q1 - q2 * 10) <= 10
  <2>1. q1 \in Int /\ 10 \in Nat \ {0}
    BY <1>2
  <2> QED BY ONLY <2>1, HalfUpNear
<1>4. q3 \in Int /\ 2 * (q3 * R - p3) <= R /\ 2 * (p3 - q3 * R) <= R
  BY <1>1, HalfUpNear
<1> HIDE DEF q2, q3
<1> DEFINE e == q2 - q3
           x1 == q1 * R
           x2 == q2 * R
           x3 == q3 * R
           y == e * R
<1>5. x1 \in Int /\ x2 \in Int /\ x3 \in Int /\ y = x2 - x3 /\ e \in Int
  BY <1>2, <1>3, <1>4
<1>6. 10 * x2 - x1 <= 5 * R /\ x1 - 10 * x2 <= 5 * R
  <2>1. q2 * 10 - q1 <= 5 /\ q1 - q2 * 10 <= 5
    BY <1>2, <1>3
  <2>2. (q2 * 10 - q1) * R <= 5 * R /\ (q1 - q2 * 10) * R <= 5 * R
    BY <1>2, <1>3, <2>1
  <2> QED BY <1>2, <1>3, <2>2
<1>7. 2 * (x1 - p1) <= R /\ 2 * (p1 - x1) <= R /\ 2 * (x3 - p3) <= R /\ 2 * (p3 - x3) <= R
  BY <1>2, <1>4
<1> HIDE DEF x1, x2, x3
<1>8. 20 * y <= 21 * R /\ -(20 * y) <= 21 * R
  BY <1>1, <1>5, <1>6, <1>7
<1>9. e <= 1
  <2>1. ASSUME e >= 2 PROVE FALSE
    <3>1. y >= 2 * R
      BY <1>5, <2>1
    <3> HIDE DEF y
    <3> QED BY <1>5, <1>8, <3>1
  <2> QED BY <1>5, <2>1
<1>10. e >= -1
  <2>1. ASSUME e <= -2 PROVE FALSE
    <3>1. y <= -(2 * R)
      BY <1>5, <2>1
    <3> HIDE DEF y
    <3> QED BY <1>5, <1>8, <3>1
  <2> QED BY <1>5, <2>1
<1> HIDE DEF e
<1>11. Size(e) <= 1
  BY <1>5, <1>9, <1>10 DEF Size
<1> QED BY <1>11 DEF e, q2, q1, q3, p1, p3

(* How the day was paid. *)
LEMMA PaidByIs ==
  ASSUME NEW i
  PROVE  \A p \in PaidBy(i) :
         /\ p.about = "all cash" => {m \in DOMAIN i.day.methods \ {"CASH"} : i.day.methods[m] > 0} = {}
         /\ p.about = "no cash" => i.day.methods["CASH"] <= 0
<1> DEFINE methods == i.day.methods
           cash == methods["CASH"]
           digital == {m \in DOMAIN methods \ {"CASH"} : methods[m] > 0}
           none == digital = {}
           noCash == cash <= 0
           share == PercentOf(cash, i.day.revenue)
           p1 == Point("info", "all cash", 100)
           p2 == Point("info", "no cash", 0)
           p3 == Point("info", "cash share", share)
<1>1. PaidBy(i) = IF i.day.revenue <= 0 THEN {}
        ELSE {CASE none -> Point("info", "all cash", 100)
                [] ~none /\ noCash -> Point("info", "no cash", 0)
                [] ~none /\ ~noCash -> Point("info", "cash share", share)}
  BY DEF PaidBy
<1> HIDE DEF none, noCash, share
<1>2. p1.about = "all cash" /\ p2.about = "no cash" /\ p3.about = "cash share"
  BY DEF Point
<1>3. \A p \in PaidBy(i) : (p = p1 /\ none) \/ (p = p2 /\ noCash) \/ p = p3
  BY <1>1
<1> HIDE DEF p1, p2, p3
<1>4. \A p \in PaidBy(i) : (p.about = "all cash" => none) /\ (p.about = "no cash" => noCash)
  BY ONLY <1>2, <1>3
<1> QED BY <1>4 DEF none, noCash

(* The mix's slide. *)
LEMMA MixSlideIs ==
  ASSUME NEW i
  PROVE  LET t == i.trends
             digital == Total(DOMAIN t.byMethod \ {"CASH"}, LAMBDA m : t.byMethod[m]) IN
         /\ MixSlide(i).bars.barbers = CapBars([b \in DOMAIN t.byBarber |-> t.byBarber[b].revenue])
         /\ MixSlide(i).bars.methods = t.byMethod
         /\ \A p \in MixSlide(i).points : /\ p.about = "all cash" => digital = 0
                                          /\ p.about = "digital share" => p.n = PercentOf(digital, t.revenue)
<1> DEFINE t == i.trends
           revenue == [b \in DOMAIN t.byBarber |-> t.byBarber[b].revenue]
           n == Cardinality(DOMAIN revenue)
           topShare == PercentOf(Max({revenue[b] : b \in DOMAIN revenue}), t.revenue)
           digital == Total(DOMAIN t.byMethod \ {"CASH"}, LAMBDA m : t.byMethod[m])
           headline == IF n = 1 THEN Point("info", "one barber", 100)
                       ELSE IF n = 2 /\ 2 * topShare - 100 < Steady THEN Point("info", "even", topShare)
                       ELSE Point("info", "top barber", topShare)
           several == Cardinality({b \in DOMAIN revenue : t.byBarber[b].sales >= Rules.regular}) >= 2
           more == n > 1
           none == digital = 0
           tipped == t.tips > 0
           share == PercentOf(digital, t.revenue)
           tips == PercentOf(t.tips, t.revenue)
           q1 == Point("info", "averages", 0)
           q2 == Point("info", "not a score", 0)
           q3 == Point("info", "all cash", 100)
           q4 == Point("info", "digital share", share)
           q5 == Point("info", "tips", tips)
           services == CapBars(t.byService)
           barbers == CapBars(revenue)
           methods == t.byMethod
           bars == [barbers |-> barbers, services |-> services, methods |-> methods]
           points == When(several, q1) \cup When(more, q2) \cup {IF none THEN q3 ELSE q4} \cup When(tipped, q5)
           highlight == When(more, headline)
<1>1. MixSlide(i) = [headline |-> headline, points |-> points, bars |-> bars, highlight |-> highlight]
  BY DEF MixSlide
<1> HIDE DEF headline, several, more, none, tipped, share, tips, services, barbers, methods, highlight
<1>2. /\ q1.about = "averages" /\ q2.about = "not a score" /\ q3.about = "all cash"
      /\ q4.about = "digital share" /\ q4.n = share /\ q5.about = "tips"
  BY DEF Point
<1> HIDE DEF q1, q2, q3, q4, q5
<1>3. \A p \in points : p \in {q1, q2, q5} \/ (p = q3 /\ none) \/ p = q4
  BY DEF When
<1>4. \A p \in points : (p.about = "all cash" => none) /\ (p.about = "digital share" => p.n = share)
  BY ONLY <1>2, <1>3
<1>5. bars.barbers = barbers /\ bars.methods = methods
  OBVIOUS
<1> HIDE DEF points, bars
<1>6. MixSlide(i).points = points /\ MixSlide(i).bars = bars
  BY <1>1
<1> QED BY <1>4, <1>5, <1>6 DEF barbers, methods, none, share

(* The methods of a day that are shown are those of all its sales. *)
LEMMA DayMethods ==
  ASSUME FiguresInv, NEW d, NEW showQrph \in BOOLEAN, showQrph \/ GatewaySales(d) = {}
  PROVE  \E I : /\ I \subseteq {"CASH", "GCASH", "MAYA", "QRPH"} /\ "CASH" \in I
                /\ \A r \in PaidSales(d) : r.method \in I
                /\ PaymentMethods(d, showQrph) = MethodBars(PaidSales(d), I)
<1> DEFINE all == {"CASH", "GCASH", "MAYA", "QRPH"}
           I == {m \in DOMAIN MethodsOf(d) : m # "QRPH" \/ showQrph}
<1>1. MethodsOf(d) = MethodBars(PaidSales(d), all)
  BY DEF MethodsOf, MethodBars
<1>2. DOMAIN MethodsOf(d) = all
  BY DEF MethodsOf
<1>3. I \subseteq all /\ "CASH" \in I
  BY <1>2
<1>4. \A r \in PaidSales(d) : r.method \in I
  <2> SUFFICES ASSUME NEW r \in PaidSales(d) PROVE r.method \in I
    OBVIOUS
  <2>1. r \in OnDay(d) /\ r \in sold
    BY DEF PaidSales, OnDay
  <2>2. r.method \in all
    BY <2>1 DEF FiguresInv, StoredSale
  <2>3. r.method # "QRPH" \/ showQrph
    BY <2>1 DEF GatewaySales
  <2> QED BY <1>2, <2>2, <2>3
<1>5. PaymentMethods(d, showQrph) = [m \in I |-> MethodsOf(d)[m]]
  BY DEF PaymentMethods
<1>6. \A m \in I : MethodsOf(d)[m] = Total({r \in PaidSales(d) : r.method = m}, AmountOf)
  BY <1>2 DEF MethodsOf
<1>7. PaymentMethods(d, showQrph) = MethodBars(PaidSales(d), I)
  <2> HIDE DEF I
  <2> QED BY <1>5, <1>6 DEF MethodBars
<1> QED BY <1>3, <1>4, <1>7

(* So are those of a period. *)
LEMMA PeriodMethods ==
  ASSUME FiguresInv, NEW d \in Nat, NEW showQrph \in BOOLEAN
  PROVE  \E I : /\ I \subseteq {"CASH", "GCASH", "MAYA", "QRPH"} /\ "CASH" \in I
                /\ \A r \in PaidIn(First(d), d) : r.method \in I
                /\ TrendMethods(Trends(d), showQrph) = MethodBars(PaidIn(First(d), d), I)
<1> DEFINE all == {"CASH", "GCASH", "MAYA", "QRPH"}
           S == PaidIn(First(d), d)
           by == Trends(d).byMethod
           I == {m \in DOMAIN by : m # "QRPH" \/ showQrph \/ by[m] > 0}
<1>1. by = [m \in all |-> Total({r \in S : r.method = m}, AmountOf)]
  BY TrendsFields
<1>2. S \in SUBSET sold /\ \A r \in S : r.method \in all
  <2>1. S \in SUBSET sold
    BY DEF PaidIn
  <2> HIDE DEF S
  <2> QED BY <2>1 DEF FiguresInv, StoredSale
<1>3. by = MethodBars(S, all)
  <2> HIDE DEF by, S
  <2> QED BY <1>1 DEF MethodBars
<1>4. TrendMethods(Trends(d), showQrph) = [m \in I |-> by[m]]
  BY DEF TrendMethods
<1> HIDE DEF by, S
<1>5. DOMAIN by = all /\ \A m \in all : by[m] = Total({r \in S : r.method = m}, AmountOf)
  BY <1>1
<1>6. I \subseteq all /\ "CASH" \in I
  BY <1>5
<1>7. \A r \in S : r.method \in I
  <2> SUFFICES ASSUME NEW r \in S, r.method \notin I PROVE FALSE
    OBVIOUS
  <2> DEFINE m == r.method
  <2>1. m \in all /\ r \in StoredSale
    BY <1>2 DEF FiguresInv
  <2>2. by \in [all -> Nat] /\ (by[m] = 0 => AmountOf(r) = 0)
    <3>1. by \in [all -> Nat] /\ \A x \in all : by[x] = 0 => \A q \in S : q.method = x => AmountOf(q) = 0
      <4> HIDE DEF all
      <4>1. all \subseteq {"CASH", "GCASH", "MAYA", "QRPH"}
        BY DEF all
      <4> QED BY <1>2, <1>3, <4>1, MethodBarsAdd
    <3> QED BY <2>1, <3>1
  <2>3. by[m] \in Nat /\ ~(by[m] > 0)
    BY <1>5, <2>1, <2>2
  <2>4. AmountOf(r) = 0
    BY <2>2, <2>3
  <2> QED BY <2>1, <2>4, AmountIsSome
<1>8. TrendMethods(Trends(d), showQrph) = MethodBars(S, I)
  <2>1. \A m \in I : by[m] = Total({r \in S : r.method = m}, AmountOf)
    BY <1>5, <1>6
  <2> HIDE DEF I
  <2> QED BY <1>4, <2>1 DEF MethodBars
<1> QED BY <1>6, <1>7, <1>8 DEF S

-----------------------------------------------------------------------------
(* What the slides say of money is where it is: a day said to be all cash had no other,
   the bars add up to the revenue shown beside them, and the digital share is the one the
   page shows, but for a percent. *)
LEMMA StoryMoney ==
  ASSUME FiguresInv, FiguresRest, NEW v \in Visits, NEW d, d = v.date
  PROVE  MoneyIsWhereItSays(StoryInput(v, d), StorySlides(StoryInput(v, d)), d)
<1> DEFINE i == StoryInput(v, d)
           s == StorySlides(i)
           t == i.trends
           paid == PaidSales(d)
           S == PaidIn(First(d), d)
           show == ShowQrph(v, d)
<1>1. d \in Nat /\ v.gateway \in BOOLEAN
  BY StoryAssumption, FiguresAssumption
<1>2. show \in BOOLEAN
  BY <1>1 DEF ShowQrph
<1>3. paid \in SUBSET sold /\ S \in SUBSET sold
  BY DEF PaidSales, OnDay, PaidIn
<1>4. \A r \in sold : r.method \in {"CASH", "GCASH", "MAYA", "QRPH"}
  BY DEF FiguresInv, StoredSale
<1>5. i.day # NotLoaded => i.day = DayInput(v, d) /\ (show \/ GatewaySales(d) = {})
  BY Inputs DEF ShowQrph
<1>6. i.trends # NotLoaded => t = TrendsInput(v, d)
  BY Inputs
<1>7. /\ s["day"] = DaySlide(i)
      /\ HasMix(i) => s["mix"] = MixSlide(i)
  BY SlidesAre
<1>8. HasMix(i) => i.trends # NotLoaded /\ i.trends.sales > 0
  BY DEF HasMix, HasTrends
<1> HIDE DEF i, s, paid, S, show
<1>9. ASSUME i.day # NotLoaded
      PROVE  \E I : /\ I \subseteq {"CASH", "GCASH", "MAYA", "QRPH"} /\ "CASH" \in I
                    /\ \A r \in paid : r.method \in I
                    /\ i.day.methods = MethodBars(paid, I)
  <2>1. i.day.methods = PaymentMethods(d, show)
    BY <1>5, <1>9, InputOfDay DEF show
  <2> QED BY <1>2, <1>5, <1>9, <2>1, DayMethods DEF paid
<1>10. ASSUME NEW p \in s["day"].points, p.about \in {"all cash", "no cash"}
       PROVE  i.day # NotLoaded /\ p \in PaidBy(i)
  <2>1. i.day # NotLoaded
    BY <1>7, DaySlideIs
  <2>2. i.day.drawer = SavedCount(d)
    BY <1>5, <2>1, InputOfDay
  <2>3. i.day.drawer.status \in {"none", "balanced", "short", "over"}
    BY <2>2, DrawerStatus
  <2>4. p \notin Pace(i) /\ p \notin OwedPoint(i) /\ p \notin DrawerPoint(i)
    BY <1>10, <2>3, DayAbouts
  <2>5. p \in PaidBy(i)
    BY <1>7, <1>10, <2>4, DaySlideIs
  <2> QED BY <2>1, <2>5
<1>11. ASSUME NEW p \in s["day"].points, p.about = "all cash", NEW r \in paid
       PROVE  r.method \in {"CASH"} \/ AmountOf(r) = 0
  <2>1. i.day # NotLoaded /\ p \in PaidBy(i)
    BY <1>10, <1>11
  <2>2. PICK I : /\ I \subseteq {"CASH", "GCASH", "MAYA", "QRPH"} /\ "CASH" \in I
                 /\ \A q \in paid : q.method \in I
                 /\ i.day.methods = MethodBars(paid, I)
    BY <1>9, <2>1
  <2>3. /\ MethodBars(paid, I) \in [I -> Nat]
        /\ \A m \in I : MethodBars(paid, I)[m] = 0 => \A q \in paid : q.method = m => AmountOf(q) = 0
    BY <1>3, <2>2, MethodBarsAdd
  <2> DEFINE bars == MethodBars(paid, I)
  <2>4. {m \in I \ {"CASH"} : bars[m] > 0} = {}
    <3>1. DOMAIN bars = I
      BY <2>3
    <3> HIDE DEF bars
    <3>2. {m \in DOMAIN i.day.methods \ {"CASH"} : i.day.methods[m] > 0} = {}
      BY <1>11, <2>1, PaidByIs
    <3>3. i.day.methods = bars
      BY <2>2 DEF bars
    <3> QED BY <3>1, <3>2, <3>3
  <2>5. ASSUME r.method # "CASH" PROVE AmountOf(r) = 0
    <3>1. r.method \in I /\ bars[r.method] \in Nat
      BY <2>2, <2>3
    <3>2. ~(bars[r.method] > 0)
      BY <2>4, <2>5, <3>1
    <3>3. bars[r.method] = 0
      BY <3>1, <3>2
    <3> QED BY <2>3, <3>1, <3>3
  <2> QED BY <2>5
<1>12. ASSUME NEW p \in s["day"].points, p.about = "no cash", NEW r \in paid
       PROVE  r.method \in {"GCASH", "MAYA", "QRPH"} \/ AmountOf(r) = 0
  <2>1. i.day # NotLoaded /\ p \in PaidBy(i)
    BY <1>10, <1>12
  <2>2. PICK I : /\ I \subseteq {"CASH", "GCASH", "MAYA", "QRPH"} /\ "CASH" \in I
                 /\ \A q \in paid : q.method \in I
                 /\ i.day.methods = MethodBars(paid, I)
    BY <1>9, <2>1
  <2>3. /\ MethodBars(paid, I) \in [I -> Nat]
        /\ \A m \in I : MethodBars(paid, I)[m] = 0 => \A q \in paid : q.method = m => AmountOf(q) = 0
    BY <1>3, <2>2, MethodBarsAdd
  <2> DEFINE cash == MethodBars(paid, I)["CASH"]
  <2>4. cash <= 0 /\ cash \in Nat
    BY <1>12, <2>1, <2>2, <2>3, PaidByIs
  <2>5. cash = 0
    BY <2>4
  <2>6. r.method = "CASH" => AmountOf(r) = 0
    BY <2>2, <2>3, <2>5
  <2> QED BY <1>3, <1>4, <2>6
<1>13. ASSUME i.day # NotLoaded
       PROVE  Total(DOMAIN i.day.methods, LAMBDA m : i.day.methods[m]) = DayFigures(d, 0).revenue
  <2>1. PICK I : /\ I \subseteq {"CASH", "GCASH", "MAYA", "QRPH"} /\ "CASH" \in I
                 /\ \A q \in paid : q.method \in I
                 /\ i.day.methods = MethodBars(paid, I)
    BY <1>9, <1>13
  <2> DEFINE bars == MethodBars(paid, I)
  <2>2. SumOf(bars) = Sub(EachAmount, paid) /\ bars \in [I -> Nat]
    BY <1>3, <2>1, MethodBarsAdd
  <2>3. DayFigures(d, 0).revenue = Sub(EachAmount, paid)
    BY DayRevenue DEF paid
  <2>4. i.day.methods = bars
    BY <2>1
  <2> HIDE DEF bars
  <2>5. Total(DOMAIN bars, LAMBDA m : bars[m]) = SumOf(bars)
    <3>1. [m \in DOMAIN bars |-> bars[m]] = bars
      BY <2>2
    <3> QED BY <3>1 DEF Total
  <2> QED BY <2>2, <2>3, <2>4, <2>5
<1>14. ASSUME HasMix(i)
       PROVE  /\ \A p \in s["mix"].points : p.about = "all cash" =>
                   \A r \in S : r.method \in {"CASH"} \/ AmountOf(r) = 0
              /\ \A bars \in {s["mix"].bars.barbers, s["mix"].bars.methods} :
                   Total(DOMAIN bars, LAMBDA x : bars[x]) = i.trends.revenue
              /\ \A p \in s["mix"].points : p.about = "digital share" => Size(PaidDigitally(i.trends) - p.n) <= 1
  <2> DEFINE by == t.byMethod
             of == [b \in DOMAIN t.byBarber |-> t.byBarber[b].revenue]
             digital == Total(DOMAIN by \ {"CASH"}, LAMBDA m : by[m])
  <2>1. t = TrendsInput(v, d) /\ t.sales > 0
    BY <1>6, <1>8, <1>14
  <2>2. /\ t.byMethod = TrendMethods(Trends(d), show) /\ t.revenue = Trends(d).revenue
        /\ t.sales = Trends(d).sales /\ t.byBarber = Trends(d).byBarber
    BY <2>1, InputOfTrends DEF show
  <2>3. PICK I : /\ I \subseteq {"CASH", "GCASH", "MAYA", "QRPH"} /\ "CASH" \in I
                 /\ \A q \in S : q.method \in I
                 /\ TrendMethods(Trends(d), show) = MethodBars(S, I)
    BY <1>1, <1>2, PeriodMethods DEF S
  <2>4. by = MethodBars(S, I)
    BY <2>2, <2>3
  <2>5. /\ SumOf(by) = Sub(EachAmount, S) /\ by \in [I -> Nat] /\ IsFiniteSet(I)
        /\ \A m \in I : by[m] = 0 => \A q \in S : q.method = m => AmountOf(q) = 0
    <3> HIDE DEF by
    <3> QED BY <1>3, <2>3, <2>4, MethodBarsAdd
  <2>6. t.revenue = Sub(EachAmount, S) /\ t.sales = Cardinality(S)
    <3>1. /\ Trends(d).revenue = Total(PaidIn(First(d), d), AmountOf)
          /\ Trends(d).sales = Cardinality(PaidIn(First(d), d))
      BY ONLY TrendsFields
    <3>2. Trends(d).revenue = Total(S, AmountOf) /\ Trends(d).sales = Cardinality(S)
      BY ONLY <3>1 DEF S
    <3>3. Total(S, AmountOf) = Sub(EachAmount, S)
      BY <1>3, TotalsAreSums
    <3> QED BY ONLY <2>2, <3>2, <3>3
  <2>7. t.revenue \in Nat \ {0}
    <3>1. \A r \in S : EachAmount[r] >= 1
      BY <1>3, AmountIsSome DEF EachAmount, FiguresInv
    <3>2. /\ Cardinality(S) \in Nat /\ Sub(EachAmount, S) \in Nat
          /\ Cardinality(S) <= Sub(EachAmount, S)
      BY <1>3, <3>1, RowsAdd, AtLeastOneEach
    <3> QED BY <2>1, <2>6, <3>2
  <2>8. Trends(d).revenue = Total(DOMAIN Trends(d).byBarber, LAMBDA b : Trends(d).byBarber[b].revenue)
    BY <1>1, TrendsHold DEF TrendsAgree
  <2>9. t.revenue = SumOf(of)
    BY <2>2, <2>8 DEF Total
  <2>10. DOMAIN of \subseteq Staff /\ of \in [DOMAIN of -> Nat]
    <3>1. Trends(d).byBarber = [b \in {r.barber : r \in S} |-> [revenue |-> Total({r \in S : r.barber = b}, AmountOf),
                                                             sales |-> Cardinality({r \in S : r.barber = b})]]
      <4>1. Trends(d).byBarber = [b \in {r.barber : r \in PaidIn(First(d), d)} |->
              [revenue |-> Total({r \in PaidIn(First(d), d) : r.barber = b}, AmountOf),
               sales |-> Cardinality({r \in PaidIn(First(d), d) : r.barber = b})]]
        BY ONLY TrendsFields
      <4> QED BY ONLY <4>1 DEF S
    <3>2. DOMAIN of = {r.barber : r \in S}
      BY <2>2, <3>1
    <3>3. \A r \in S : r.barber \in Staff
      BY <1>3 DEF FiguresInv, StoredSale
    <3>4. ASSUME NEW b \in {r.barber : r \in S} PROVE t.byBarber[b].revenue \in Nat
      <4> DEFINE U == {r \in S : r.barber = b}
      <4>1. U \in SUBSET sold
        BY <1>3
      <4>2. t.byBarber[b].revenue = Total(U, AmountOf)
        BY <2>2, <3>1
      <4> HIDE DEF U
      <4>3. Total(U, AmountOf) = Sub(EachAmount, U) /\ Sub(EachAmount, U) \in Nat
        BY <4>1, TotalsAreSums, RowsAdd, SubFacts
      <4> QED BY <4>2, <4>3
    <3>5. of \in [DOMAIN of -> Nat]
      BY <3>2, <3>4
    <3> QED BY <3>2, <3>3, <3>5
  <2>11. /\ s["mix"].bars.barbers = CapBars(of) /\ s["mix"].bars.methods = by
         /\ \A p \in s["mix"].points : /\ p.about = "all cash" => digital = 0
                                       /\ p.about = "digital share" => p.n = PercentOf(digital, t.revenue)
    BY <1>7, <1>14, MixSlideIs
  <2>12. Total(DOMAIN CapBars(of), LAMBDA x : CapBars(of)[x]) = t.revenue
    <3> HIDE DEF of
    <3> DEFINE D == DOMAIN of
    <3>1. D \subseteq Staff /\ of \in [D -> Nat]
      BY <2>10
    <3> HIDE DEF D
    <3> QED BY <2>9, <3>1, BarsAdd
  <2> HIDE DEF of, by
  <2>13. DOMAIN by = I
    BY <2>5
  <2>14. Total(DOMAIN by, LAMBDA x : by[x]) = t.revenue
    <3>1. [m \in DOMAIN by |-> by[m]] = by
      BY <2>5
    <3> QED BY <2>5, <2>6, <3>1 DEF Total
  <2>15. digital = Sub(by, I \ {"CASH"})
    BY <2>13 DEF Total, Sub
  <2>16. digital \in Nat
    BY <2>5, <2>15, SubFacts
  <2>17. ASSUME digital = 0, NEW r \in S PROVE r.method \in {"CASH"} \/ AmountOf(r) = 0
    <3>1. \A m \in I \ {"CASH"} : by[m] = 0
      BY <2>5, <2>15, <2>17, NothingFromZero
    <3> QED BY <2>3, <2>5, <3>1
  <2>18. ASSUME NEW p, p.n = PercentOf(digital, t.revenue)
         PROVE  Size(PaidDigitally(t) - p.n) <= 1
    <3>1. PaidDigitally(t) = HalfUp(HalfUp(digital * 1000, t.revenue), 10)
      BY DEF PaidDigitally, by
    <3>2. p.n = HalfUp(digital * 100, t.revenue)
      BY <2>7, <2>18 DEF PercentOf
    <3> HIDE DEF digital
    <3> DEFINE R == t.revenue
    <3>3. R \in Nat \ {0} /\ digital \in Nat
      BY <2>7, <2>16
    <3>4. PaidDigitally(t) = HalfUp(HalfUp(digital * 1000, R), 10) /\ p.n = HalfUp(digital * 100, R)
      BY <3>1, <3>2
    <3> HIDE DEF R
    <3>5. Size(HalfUp(HalfUp(digital * 1000, R), 10) - HalfUp(digital * 100, R)) <= 1
      BY ONLY <3>3, TwiceRounded
    <3> QED BY ONLY <3>4, <3>5
  <2> HIDE DEF digital
  <2>19. \A p \in s["mix"].points : p.about = "all cash" =>
           \A r \in S : r.method \in {"CASH"} \/ AmountOf(r) = 0
    BY ONLY <2>11, <2>17
  <2>20. \A bars \in {s["mix"].bars.barbers, s["mix"].bars.methods} :
           Total(DOMAIN bars, LAMBDA x : bars[x]) = i.trends.revenue
    <3> DEFINE barbers == s["mix"].bars.barbers
               methods == s["mix"].bars.methods
    <3>1. barbers = CapBars(of) /\ methods = by
      BY ONLY <2>11
    <3>2. /\ Total(DOMAIN barbers, LAMBDA x : barbers[x]) = i.trends.revenue
          /\ Total(DOMAIN methods, LAMBDA x : methods[x]) = i.trends.revenue
      BY ONLY <2>12, <2>14, <3>1
    <3> HIDE DEF barbers, methods
    <3>3. ASSUME NEW bars \in {barbers, methods}
          PROVE  Total(DOMAIN bars, LAMBDA x : bars[x]) = i.trends.revenue
      <4>1. CASE bars = barbers
        BY ONLY <3>2, <4>1
      <4>2. CASE bars = methods
        BY ONLY <3>2, <4>2
      <4> QED BY ONLY <3>3, <4>1, <4>2
    <3> QED BY ONLY <3>3 DEF barbers, methods
  <2>21. \A p \in s["mix"].points : p.about = "digital share" => Size(PaidDigitally(i.trends) - p.n) <= 1
    BY ONLY <2>11, <2>18
  <2> QED BY ONLY <2>19, <2>20, <2>21
<1>15. MoneyIsWhereItSays(i, s, d)
  BY <1>11, <1>12, <1>13, <1>14 DEF MoneyIsWhereItSays, paid, S
<1> QED BY <1>15 DEF i, s

-----------------------------------------------------------------------------
(* The list of what needs the owner. *)

(* Its parts: the day's, when the day could be read, and those of the period and the
   forecast. *)
DatesTodo(i) ==
  IF i.day = NotLoaded THEN {} ELSE When(i.day.held > 0, Todo("confirm dates", "", i.day.held))
PendingTodo(i) ==
  IF i.day = NotLoaded THEN {} ELSE When(i.day.pending > 0, Todo("not confirmed paid", "", i.day.pending))
DrawerTodo(i) ==
  IF i.day = NotLoaded THEN {}
  ELSE IF i.day.drawer.stale THEN {Todo("count again", "", 0)}
  ELSE IF i.day.drawer.status \in {"short", "over"} THEN {Todo("look into the drawer", "", 0)}
  ELSE When(i.day.drawer.status = "none" /\ ~InProgress(i) /\ i.day.sales > 0, Todo("count", "", 0))

ExtraOf(i) == {b \in DOMAIN i.day.barbers : i.day.barbers[b].additional}
ExtraTodo(i) ==
  IF i.day = NotLoaded THEN {} ELSE {Todo("extra", b, i.day.barbers[b].remaining) : b \in ExtraOf(i)}
PayTodo(i) ==
  IF i.day = NotLoaded THEN {}
  ELSE When(NotPaidOut(i) \ ExtraOf(i) # {},
            Todo("pay out", "", Total(NotPaidOut(i) \ ExtraOf(i), LAMBDA b : i.day.barbers[b].remaining)))

DayHeld(i) == IF i.day = NotLoaded THEN 0 ELSE i.day.held
PeriodHeld(i) == IF i.trends = NotLoaded THEN 0 ELSE i.trends.held
MoreTodo(i) == When(PeriodHeld(i) > DayHeld(i), Todo("more dates", "", PeriodHeld(i) - DayHeld(i)))
GapsTodo(i) == When(QuietDays(i).gaps # {}, Todo("gaps", "", Cardinality(QuietDays(i).gaps)))
ForecastTodo(i) ==
  IF i.forecast = NotLoaded THEN {}
  ELSE When(~i.forecast.saved \/ Cardinality(DOMAIN i.forecast.days) < Rules.week, Todo("forecast", "", 0))

(* The list has no other parts. *)
LEMMA TodoParts ==
  ASSUME NEW i
  PROVE  TodoItems(i) = DatesTodo(i) \cup PendingTodo(i) \cup DrawerTodo(i) \cup ExtraTodo(i) \cup PayTodo(i)
                        \cup MoreTodo(i) \cup GapsTodo(i) \cup ForecastTodo(i)
<1>1. TodoItems(i) = (IF i.day = NotLoaded THEN {} ELSE DayTodo(i)) \cup MoreTodo(i) \cup GapsTodo(i) \cup ForecastTodo(i)
  BY DEF TodoItems, MoreTodo, GapsTodo, ForecastTodo, PeriodHeld, DayHeld
<1>2. ASSUME i.day # NotLoaded
      PROVE DayTodo(i) = DatesTodo(i) \cup PendingTodo(i) \cup DrawerTodo(i) \cup ExtraTodo(i) \cup PayTodo(i)
  <2>1. DatesTodo(i) = When(i.day.held > 0, Todo("confirm dates", "", i.day.held))
    BY <1>2 DEF DatesTodo
  <2>2. PendingTodo(i) = When(i.day.pending > 0, Todo("not confirmed paid", "", i.day.pending))
    BY <1>2 DEF PendingTodo
  <2>3. DrawerTodo(i) = IF i.day.drawer.stale THEN {Todo("count again", "", 0)}
          ELSE IF i.day.drawer.status \in {"short", "over"} THEN {Todo("look into the drawer", "", 0)}
          ELSE When(i.day.drawer.status = "none" /\ ~InProgress(i) /\ i.day.sales > 0, Todo("count", "", 0))
    BY <1>2 DEF DrawerTodo
  <2>4. ExtraTodo(i) = {Todo("extra", b, i.day.barbers[b].remaining) : b \in ExtraOf(i)}
    BY <1>2 DEF ExtraTodo
  <2>5. PayTodo(i) = When(NotPaidOut(i) \ ExtraOf(i) # {},
            Todo("pay out", "", Total(NotPaidOut(i) \ ExtraOf(i), LAMBDA b : i.day.barbers[b].remaining)))
    BY <1>2 DEF PayTodo
  <2>6. DayTodo(i) =
          When(i.day.held > 0, Todo("confirm dates", "", i.day.held))
          \cup When(i.day.pending > 0, Todo("not confirmed paid", "", i.day.pending))
          \cup (IF i.day.drawer.stale THEN {Todo("count again", "", 0)}
                ELSE IF i.day.drawer.status \in {"short", "over"} THEN {Todo("look into the drawer", "", 0)}
                ELSE When(i.day.drawer.status = "none" /\ ~InProgress(i) /\ i.day.sales > 0, Todo("count", "", 0)))
          \cup {Todo("extra", b, i.day.barbers[b].remaining) : b \in ExtraOf(i)}
          \cup When(NotPaidOut(i) \ ExtraOf(i) # {},
                    Todo("pay out", "", Total(NotPaidOut(i) \ ExtraOf(i), LAMBDA b : i.day.barbers[b].remaining)))
    BY DEF DayTodo, ExtraOf
  <2> QED BY ONLY <2>1, <2>2, <2>3, <2>4, <2>5, <2>6
<1>3. ASSUME i.day = NotLoaded
      PROVE  /\ DatesTodo(i) = {} /\ PendingTodo(i) = {} /\ DrawerTodo(i) = {} /\ ExtraTodo(i) = {} /\ PayTodo(i) = {}
  BY <1>3 DEF DatesTodo, PendingTodo, DrawerTodo, ExtraTodo, PayTodo
<1> QED BY ONLY <1>1, <1>2, <1>3

(* An item, field by field. *)
LEMMA TodoIs ==
  ASSUME NEW about, NEW who, NEW n
  PROVE  Todo(about, who, n).about = about /\ Todo(about, who, n).who = who /\ Todo(about, who, n).n = n
BY DEF Todo

(* A part of at most one item. *)
LEMMA TodoWhen ==
  ASSUME NEW about, NEW n, NEW S, S \subseteq {Todo(about, "", n)}
  PROVE  \A x \in S : x.about = about /\ x.n = n
<1> SUFFICES ASSUME NEW x \in S PROVE x.about = about /\ x.n = n
  OBVIOUS
<1>1. x = Todo(about, "", n)
  OBVIOUS
<1> QED BY ONLY <1>1 DEF Todo

(* Of what is told on a condition there is one, or none. *)
LEMMA AtMostOne ==
  ASSUME NEW cond, NEW p
  PROVE  When(cond, p) \subseteq {p}
<1>1. CASE cond
  BY <1>1 DEF When
<1>2. CASE ~cond
  BY <1>2 DEF When
<1> QED BY ONLY <1>1, <1>2

(* What each part is about. *)
LEMMA TodoAbouts ==
  ASSUME NEW i
  PROVE  /\ \A x \in DatesTodo(i) : x.about = "confirm dates"
         /\ \A x \in PendingTodo(i) : x.about = "not confirmed paid"
         /\ \A x \in DrawerTodo(i) : x.about \in {"count again", "look into the drawer", "count"}
         /\ \A x \in ExtraTodo(i) : x.about = "extra"
         /\ \A x \in PayTodo(i) : x.about = "pay out"
         /\ \A x \in MoreTodo(i) : x.about = "more dates"
         /\ \A x \in GapsTodo(i) : x.about = "gaps"
         /\ \A x \in ForecastTodo(i) : x.about = "forecast"
<1>1. \A x \in DatesTodo(i) : x.about = "confirm dates"
  <2> DEFINE n == i.day.held
             p == Todo("confirm dates", "", n)
  <2>1. DatesTodo(i) \subseteq {p}
    BY AtMostOne DEF DatesTodo
  <2> HIDE DEF n
  <2> QED BY ONLY <2>1, TodoWhen DEF p
<1>2. \A x \in PendingTodo(i) : x.about = "not confirmed paid"
  <2> DEFINE n == i.day.pending
             p == Todo("not confirmed paid", "", n)
  <2>1. PendingTodo(i) \subseteq {p}
    BY AtMostOne DEF PendingTodo
  <2> HIDE DEF n
  <2> QED BY ONLY <2>1, TodoWhen DEF p
<1>3. \A x \in DrawerTodo(i) : x.about \in {"count again", "look into the drawer", "count"}
  <2> DEFINE p == Todo("count again", "", 0)
             q == Todo("look into the drawer", "", 0)
             r == Todo("count", "", 0)
  <2>1. DrawerTodo(i) \subseteq {p, q, r}
    <3> DEFINE c1 == i.day = NotLoaded
               c2 == i.day.drawer.stale
               c3 == i.day.drawer.status \in {"short", "over"}
               c4 == i.day.drawer.status = "none" /\ ~InProgress(i) /\ i.day.sales > 0
               w == When(c4, r)
    <3>1. DrawerTodo(i) = IF c1 THEN {} ELSE IF c2 THEN {p} ELSE IF c3 THEN {q} ELSE w
      BY DEF DrawerTodo
    <3>2. w \subseteq {r}
      <4> HIDE DEF c4, r
      <4> QED BY ONLY AtMostOne DEF w
    <3> HIDE DEF c1, c2, c3, p, q, r, w
    <3> QED BY ONLY <3>1, <3>2
  <2>2. p.about = "count again" /\ q.about = "look into the drawer" /\ r.about = "count"
    BY ONLY DEF Todo
  <2> QED BY ONLY <2>1, <2>2
<1>4. \A x \in ExtraTodo(i) : x.about = "extra"
  BY TodoIs DEF ExtraTodo
<1>5. \A x \in PayTodo(i) : x.about = "pay out"
  <2> DEFINE n == Total(NotPaidOut(i) \ ExtraOf(i), LAMBDA b : i.day.barbers[b].remaining)
             p == Todo("pay out", "", n)
  <2>1. PayTodo(i) \subseteq {p}
    BY AtMostOne DEF PayTodo
  <2> HIDE DEF n
  <2> QED BY ONLY <2>1, TodoWhen DEF p
<1>6. \A x \in MoreTodo(i) : x.about = "more dates"
  <2> DEFINE n == PeriodHeld(i) - DayHeld(i)
             p == Todo("more dates", "", n)
  <2>1. MoreTodo(i) \subseteq {p}
    BY AtMostOne DEF MoreTodo
  <2> HIDE DEF n
  <2> QED BY ONLY <2>1, TodoWhen DEF p
<1>7. \A x \in GapsTodo(i) : x.about = "gaps"
  <2> DEFINE n == Cardinality(QuietDays(i).gaps)
             p == Todo("gaps", "", n)
  <2>1. GapsTodo(i) \subseteq {p}
    BY AtMostOne DEF GapsTodo
  <2> HIDE DEF n
  <2> QED BY ONLY <2>1, TodoWhen DEF p
<1>8. \A x \in ForecastTodo(i) : x.about = "forecast"
  <2> DEFINE n == 0
             p == Todo("forecast", "", n)
  <2>1. ForecastTodo(i) \subseteq {p}
    BY AtMostOne DEF ForecastTodo
  <2> HIDE DEF n
  <2> QED BY ONLY <2>1, TodoWhen DEF p
<1> QED BY ONLY <1>1, <1>2, <1>3, <1>4, <1>5, <1>6, <1>7, <1>8

(* What is asked about dates, days without a sale and payouts. *)
LEMMA AskedParts ==
  ASSUME NEW i
  PROVE  /\ {x \in TodoItems(i) : x.about \in {"confirm dates", "more dates"}} = DatesTodo(i) \cup MoreTodo(i)
         /\ {x \in TodoItems(i) : x.about \in {"gaps"}} = GapsTodo(i)
         /\ {x \in TodoItems(i) : x.about \in {"extra", "pay out"}} = ExtraTodo(i) \cup PayTodo(i)
         /\ TodoItems(i) = {} <=> /\ DatesTodo(i) = {} /\ PendingTodo(i) = {} /\ DrawerTodo(i) = {}
                                  /\ ExtraTodo(i) = {} /\ PayTodo(i) = {}
                                  /\ MoreTodo(i) = {} /\ GapsTodo(i) = {} /\ ForecastTodo(i) = {}
<1>1. {x \in TodoItems(i) : x.about \in {"confirm dates", "more dates"}} = DatesTodo(i) \cup MoreTodo(i)
  BY ONLY TodoParts, TodoAbouts
<1>2. {x \in TodoItems(i) : x.about \in {"gaps"}} = GapsTodo(i)
  BY ONLY TodoParts, TodoAbouts
<1>3. {x \in TodoItems(i) : x.about \in {"extra", "pay out"}} = ExtraTodo(i) \cup PayTodo(i)
  BY ONLY TodoParts, TodoAbouts
<1>4. TodoItems(i) = {} <=> /\ DatesTodo(i) = {} /\ PendingTodo(i) = {} /\ DrawerTodo(i) = {}
                            /\ ExtraTodo(i) = {} /\ PayTodo(i) = {}
                            /\ MoreTodo(i) = {} /\ GapsTodo(i) = {} /\ ForecastTodo(i) = {}
  BY ONLY TodoParts
<1> QED BY ONLY <1>1, <1>2, <1>3, <1>4

-----------------------------------------------------------------------------
(* Days without a sale. *)

(* The day a stored sale counts on, if it counts. *)
LEMMA CountsOnOneDay ==
  ASSUME NEW r \in StoredSale
  PROVE  /\ CountedDay(r) \in Int /\ CountedDay(r) >= -1
         /\ \A x \in Int : CountedOn(r, x) <=> CountedDay(r) = x
         /\ \A a, b \in Int : CountedIn(r, a, b) <=> CountedDay(r) \in a .. b /\ CountedDay(r) >= 0
<1> DEFINE f == r.flagged
           day == r.day
           reviewed == r.reviewed
           c == CountedDay(r)
<1>1. day \in Nat /\ reviewed \in Int /\ reviewed >= -1
  BY FiguresAssumption DEF StoredSale
<1>2. /\ c = IF f THEN reviewed ELSE day
      /\ \A x : CountedOn(r, x) <=> IF f THEN reviewed = x ELSE day = x
      /\ \A a, b : CountedIn(r, a, b) <=> IF f THEN reviewed # -1 /\ reviewed \in a .. b ELSE day \in a .. b
  BY DEF CountedDay, CountedOn, CountedIn, Unreviewed
<1>3. f \in BOOLEAN
  BY DEF StoredSale
<1> HIDE DEF f, day, reviewed, c
<1>4. c \in Int /\ c >= -1
  BY <1>1, <1>2
<1>5. \A x \in Int : CountedOn(r, x) <=> c = x
  BY ONLY <1>2
<1>6. ASSUME NEW a \in Int, NEW b \in Int
      PROVE  CountedIn(r, a, b) <=> c \in a .. b /\ c >= 0
  <2>1. CASE f
    <3>1. (CountedIn(r, a, b) <=> reviewed # -1 /\ reviewed \in a .. b) /\ c = reviewed
      BY ONLY <1>2, <2>1
    <3> QED BY <1>1, <3>1
  <2>2. CASE ~f
    <3>1. (CountedIn(r, a, b) <=> day \in a .. b) /\ c = day
      BY ONLY <1>2, <2>2
    <3> QED BY <1>1, <3>1
  <2> QED BY ONLY <2>1, <2>2
<1> QED BY <1>4, <1>5, <1>6 DEF c

(* The complete days of an input's period. *)
LEMMA CompleteDays ==
  ASSUME NEW i, NEW d \in Nat, i.trends # NotLoaded, DOMAIN i.trends.daily = First(d) .. d, i.date = d
  PROVE  Complete(i) = First(d) .. (IF InProgress(i) THEN d - 1 ELSE d)
<1> DEFINE w == InProgress(i)
<1>1. First(d) \in Int
  BY FiguresAssumption DEF First
<1>2. Complete(i) = {x \in First(d) .. d : ~(w /\ x = d)}
  BY DEF Complete
<1> HIDE DEF w
<1>3. CASE w
  BY <1>1, <1>2, <1>3 DEF w
<1>4. CASE ~w
  BY <1>1, <1>2, <1>4 DEF w
<1> QED BY ONLY <1>3, <1>4

(* The days the trends call gaps are those that nobody sold on since someone did. *)
LEMMA GapsAreMissed ==
  ASSUME FiguresInv, NEW v \in Visits, NEW d \in Nat, NEW i, i.date = d,
         i.trends # NotLoaded, i.trends = TrendsInput(v, d)
  PROVE  QuietDays(i).gaps = Missed(i, d)
<1> DEFINE S == PaidIn(First(d), d)
           P == PaidIn(d - (2 * RangeDays - 1), d - RangeDays)
           E == PaidIn(d - (2 * RangeDays - 1), d)
           C(r) == CountedDay(r)
           On(x) == {r \in S : C(r) = x}
           daily == i.trends.daily
           fresh == i.trends.previous.sales = 0
           days == {x \in DOMAIN daily : daily[x].sales > 0}
           firstSale == Min(days)
           F == First(d)
           last == IF InProgress(i) THEN d - 1 ELSE d
<1>1. /\ i.trends.sales = Cardinality(S)
      /\ \A x \in F .. d : daily[x].sales = Cardinality(On(x))
      /\ i.trends.previous.sales = Cardinality(P)
      /\ DOMAIN daily = F .. d
  <2> DEFINE u == Trends(d)
  <2>1. i.trends.sales = u.sales /\ i.trends.daily = u.daily /\ i.trends.previous = u.previous
    BY InputOfTrends
  <2>2. /\ u.sales = Cardinality(S)
        /\ u.daily = [e \in First(d) .. d |-> [revenue |-> Total(On(e), AmountOf), sales |-> Cardinality(On(e))]]
        /\ u.previous = [revenue |-> Total(P, AmountOf), sales |-> Cardinality(P)]
    BY ONLY TrendsFields
  <2> HIDE DEF u
  <2> QED BY ONLY <2>1, <2>2
<1>2. Complete(i) = F .. last
  BY <1>1, CompleteDays
<1>3. F \in Int /\ RangeDays \in Nat \ {0} /\ F = d - RangeDays + 1 /\ d \in Nat /\ last \in Int /\ last <= d
  BY FiguresAssumption DEF First
<1>4. \A r \in sold : /\ C(r) \in Int /\ C(r) >= -1
                      /\ \A x \in Int : CountedOn(r, x) <=> C(r) = x
                      /\ \A a, b \in Int : CountedIn(r, a, b) <=> C(r) \in a .. b /\ C(r) >= 0
  BY CountsOnOneDay DEF FiguresInv
<1>5. \A a, b \in Int : \A r : r \in PaidIn(a, b) <=> r \in sold /\ r.status = "PAID" /\ C(r) >= a /\ C(r) <= b /\ C(r) >= 0
  BY <1>4 DEF PaidIn
<1>6. \A x \in Int : \A r : r \in PaidSales(x) <=> r \in sold /\ r.status = "PAID" /\ C(r) = x
  BY <1>4 DEF PaidSales, OnDay
<1>7. QuietDays(i).gaps = IF ~HasTrends(i) THEN {}
                          ELSE {x \in Complete(i) : daily[x].sales = 0 /\ (fresh => x > firstSale)}
  BY DEF QuietDays
<1>8. HasTrends(i) <=> i.trends.sales > 0
  BY DEF HasTrends
<1>9. \A T \in SUBSET sold : Cardinality(T) \in Nat /\ (Cardinality(T) = 0 <=> T = {})
  <2> SUFFICES ASSUME NEW T \in SUBSET sold PROVE Cardinality(T) \in Nat /\ (Cardinality(T) = 0 <=> T = {})
    OBVIOUS
  <2>1. IsFiniteSet(T)
    BY FS_Subset DEF FiguresInv
  <2> QED BY <2>1, FS_CardinalityType, FS_EmptySet
<1>10. S \in SUBSET sold /\ P \in SUBSET sold /\ \A x : On(x) \in SUBSET sold
  BY DEF PaidIn
<1>11. Missed(i, d) = IF S = {} THEN {}
                      ELSE {x \in F .. last : PaidSales(x) = {} /\ PaidIn(d - (2 * RangeDays - 1), x - 1) # {}}
  BY DEF Missed
<1>12. HasTrends(i) <=> S # {}
  BY <1>1, <1>8, <1>9, <1>10
<1>13. fresh <=> P = {}
  BY <1>1, <1>9, <1>10
<1> DEFINE G == d - (2 * RangeDays - 1)
           H == d - RangeDays
<1>14. G \in Int /\ H \in Int /\ H = F - 1 /\ G <= H
  BY <1>3
<1>15. /\ \A r : r \in S <=> r \in sold /\ r.status = "PAID" /\ C(r) >= F /\ C(r) <= d /\ C(r) >= 0
       /\ \A r : r \in P <=> r \in sold /\ r.status = "PAID" /\ C(r) >= G /\ C(r) <= H /\ C(r) >= 0
       /\ \A x \in Int : \A r : r \in PaidIn(G, x - 1) <=>
            r \in sold /\ r.status = "PAID" /\ C(r) >= G /\ C(r) <= x - 1 /\ C(r) >= 0
  <2>1. \A x \in Int : x - 1 \in Int
    OBVIOUS
  <2> HIDE DEF C, G, H, F
  <2>2. PaidIn(F, d) = S /\ PaidIn(G, H) = P
    BY DEF G, H, F
  <2> HIDE DEF S, P
  <2>3. \A r : r \in S <=> r \in sold /\ r.status = "PAID" /\ C(r) >= F /\ C(r) <= d /\ C(r) >= 0
    BY <1>3, <1>5, <2>2
  <2>4. \A r : r \in P <=> r \in sold /\ r.status = "PAID" /\ C(r) >= G /\ C(r) <= H /\ C(r) >= 0
    BY <1>5, <1>14, <2>2
  <2>5. \A x \in Int : \A r : r \in PaidIn(G, x - 1) <=>
            r \in sold /\ r.status = "PAID" /\ C(r) >= G /\ C(r) <= x - 1 /\ C(r) >= 0
    BY <1>5, <1>14, <2>1
  <2> QED BY ONLY <2>3, <2>4, <2>5
<1>16. \A x \in F .. d : daily[x].sales = 0 <=> On(x) = {}
  BY <1>1, <1>9, <1>10
<1>17. \A x : \A r : r \in On(x) <=> r \in S /\ C(r) = x
  OBVIOUS
<1>18. days = {x \in F .. d : On(x) # {}}
  <2>1. \A x \in F .. d : daily[x].sales \in Nat
    <3> HIDE DEF On, daily, F
    <3> QED BY ONLY <1>1, <1>9, <1>10
  <2>2. DOMAIN daily = F .. d
    BY <1>1
  <2> HIDE DEF On, daily, F
  <2>3. \A x \in F .. d : daily[x].sales > 0 <=> On(x) # {}
    BY ONLY <1>16, <2>1
  <2> QED BY ONLY <2>2, <2>3
<1> HIDE DEF C, S, P, On, daily, fresh, F, last, G, H
<1>19. days = {x \in F .. d : \E r \in S : C(r) = x}
  BY ONLY <1>17, <1>18
<1> HIDE DEF days
<1>20. ASSUME S # {} PROVE firstSale \in days /\ \A x \in days : firstSale <= x
  <2>1. PICK r \in S : TRUE
    BY <1>20
  <2>2. C(r) \in F .. d
    BY <1>3, <1>4, <1>15, <2>1
  <2>3. days # {} /\ days \subseteq F .. d
    BY <1>19, <2>2
  <2>4. IsFiniteSet(F .. d) /\ F .. d \subseteq Int
    BY ONLY <1>3, FS_Interval
  <2>5. IsFiniteSet(days) /\ days \subseteq Int
    BY ONLY <2>3, <2>4, FS_Subset
  <2> QED BY ONLY <2>3, <2>5, MinOfFinite
<1> HIDE DEF firstSale
<1>21. ASSUME S # {}, NEW x \in F .. last
       PROVE  (daily[x].sales = 0 /\ (fresh => x > firstSale)) <=> (PaidSales(x) = {} /\ PaidIn(G, x - 1) # {})
  <2>1. x \in Int /\ F <= x /\ x <= d
    BY <1>3
  <2>2. x \in F .. d
    BY <1>3, <2>1
  <2>3. firstSale \in Int /\ F <= firstSale /\ firstSale <= d
    BY <1>3, <1>19, <1>20, <1>21
  <2>4. PICK q \in S : C(q) = firstSale
    BY <1>19, <1>20, <1>21
  <2>5. firstSale >= 0 /\ q \in sold /\ q.status = "PAID"
    BY <1>15, <2>4
  <2>6. CASE x < 0
    <3>1. PaidIn(G, x - 1) = {}
      <4> SUFFICES ASSUME NEW r \in PaidIn(G, x - 1) PROVE FALSE
        OBVIOUS
      <4>1. r \in sold /\ C(r) <= x - 1 /\ C(r) >= 0 /\ C(r) \in Int
        BY <1>4, <1>15, <2>1
      <4> QED BY <2>1, <2>6, <4>1
    <3>2. P = {}
      <4> SUFFICES ASSUME NEW r \in P PROVE FALSE
        OBVIOUS
      <4>1. C(r) <= H /\ C(r) >= 0 /\ C(r) \in Int
        BY <1>4, <1>15
      <4> QED BY <1>3, <1>14, <2>1, <2>6, <4>1
    <3>3. fresh /\ ~(x > firstSale)
      BY <1>13, <2>1, <2>3, <2>5, <2>6, <3>2
    <3> QED BY ONLY <3>1, <3>3
  <2>7. CASE x >= 0
    <3>1. daily[x].sales = 0 <=> PaidSales(x) = {}
      <4>1. On(x) = PaidSales(x)
        <5>1. \A r : r \in PaidSales(x) <=> r \in sold /\ r.status = "PAID" /\ C(r) = x
          BY ONLY <1>6, <2>1
        <5>2. \A r : r \in On(x) <=> r \in sold /\ r.status = "PAID" /\ C(r) >= F /\ C(r) <= d /\ C(r) >= 0 /\ C(r) = x
          BY ONLY <1>15, <1>17
        <5>3. \A r : C(r) = x => C(r) >= F /\ C(r) <= d /\ C(r) >= 0
          BY ONLY <2>1, <2>7
        <5>4. \A r : r \in On(x) <=> r \in PaidSales(x)
          BY ONLY <5>1, <5>2, <5>3
        <5>5. On(x) \subseteq sold /\ PaidSales(x) \subseteq sold
          BY ONLY <5>1, <5>4
        <5> QED BY ONLY <5>4, <5>5
      <4> QED BY ONLY <1>16, <2>2, <4>1
    <3>2. ASSUME PaidIn(G, x - 1) # {}, fresh PROVE x > firstSale
      <4>1. PICK r \in PaidIn(G, x - 1) : TRUE
        BY <3>2
      <4>2. r \in sold /\ r.status = "PAID" /\ C(r) >= G /\ C(r) <= x - 1 /\ C(r) >= 0 /\ C(r) \in Int
        BY <1>4, <1>15, <2>1, <4>1
      <4>3. r \notin P
        BY <1>13, <3>2
      <4>4. C(r) > H
        BY <1>14, <1>15, <4>2, <4>3
      <4>5. C(r) >= F /\ C(r) <= d
        BY <1>3, <1>14, <2>1, <4>2, <4>4
      <4>6. r \in S
        BY <1>15, <4>2, <4>5
      <4>7. C(r) \in days
        BY <1>3, <1>19, <4>2, <4>5, <4>6
      <4>8. firstSale <= C(r)
        BY <1>20, <1>21, <4>7
      <4> QED BY <2>1, <2>3, <4>2, <4>8
    <3>3. ASSUME fresh => x > firstSale PROVE PaidIn(G, x - 1) # {}
      <4>1. CASE fresh
        <5>1. C(q) >= G /\ C(q) <= x - 1 /\ C(q) >= 0
          BY <1>3, <1>14, <2>1, <2>3, <2>4, <2>5, <3>3, <4>1
        <5>2. q \in PaidIn(G, x - 1)
          BY <1>15, <2>1, <2>5, <5>1
        <5> QED BY <5>2
      <4>2. CASE ~fresh
        <5>1. PICK r \in P : TRUE
          BY <1>13, <4>2
        <5>2. r \in sold /\ r.status = "PAID" /\ C(r) >= G /\ C(r) <= H /\ C(r) >= 0 /\ C(r) \in Int
          BY <1>4, <1>15
        <5>3. C(r) <= x - 1
          BY <1>14, <1>3, <2>1, <5>2
        <5>4. r \in PaidIn(G, x - 1)
          BY <1>15, <2>1, <5>2, <5>3
        <5> QED BY <5>4
      <4> QED BY ONLY <4>1, <4>2
    <3> QED BY ONLY <3>1, <3>2, <3>3
  <2> QED BY ONLY <2>1, <2>6, <2>7
<1>22. Missed(i, d) = IF S = {} THEN {} ELSE {x \in F .. last : PaidSales(x) = {} /\ PaidIn(G, x - 1) # {}}
  BY ONLY <1>11 DEF G
<1>23. QuietDays(i).gaps = IF S = {} THEN {} ELSE {x \in F .. last : daily[x].sales = 0 /\ (fresh => x > firstSale)}
  BY ONLY <1>2, <1>7, <1>12
<1> QED BY ONLY <1>21, <1>22, <1>23

-----------------------------------------------------------------------------
(* What the items add up to. *)
Numbers(S) == SumOf([x \in S |-> x.n])

(* Of two sets of items without one in common, the sum of both. *)
LEMMA NumbersAdd ==
  ASSUME NEW A, NEW B, IsFiniteSet(A), IsFiniteSet(B), A \cap B = {}, \A x \in A \cup B : x.n \in Nat
  PROVE  Numbers(A \cup B) = Numbers(A) + Numbers(B)
<1> DEFINE S == A \cup B
           g == [x \in S |-> x.n]
<1>1. IsFiniteSet(S) /\ A \in SUBSET S /\ B \in SUBSET S /\ S \in SUBSET S
  BY FS_Union
<1>2. g \in [S -> Nat]
  OBVIOUS
<1>3. [x \in A |-> g[x]] = [x \in A |-> x.n] /\ [x \in B |-> g[x]] = [x \in B |-> x.n]
  OBVIOUS
<1>4. Sub(g, A) = Numbers(A) /\ Sub(g, B) = Numbers(B)
  BY <1>3 DEF Sub, Numbers
<1>5. SumOf(g) = Numbers(S)
  BY DEF Numbers
<1> HIDE DEF g
<1>6. Sub(g, S) = SumOf(g)
  BY ONLY <1>1, <1>2, SubFacts
<1>7. Sub(g, A \cup B) = Sub(g, A) + Sub(g, B)
  BY ONLY <1>1, <1>2, A \cap B = {}, SumOfUnion
<1> QED BY ONLY <1>4, <1>5, <1>6, <1>7

(* Of one item, its number. *)
LEMMA NumberOfOne ==
  ASSUME NEW p, p.n \in Nat
  PROVE  Numbers({p}) = p.n
<1> DEFINE n == p.n
<1>1. [x \in {p} |-> x.n] = [x \in {p} |-> n]
  OBVIOUS
<1>2. n \in Nat
  OBVIOUS
<1> HIDE DEF n
<1>3. SumOf([x \in {p} |-> n]) = n
  BY ONLY <1>2, SumOfOne
<1> QED BY <1>1, <1>3 DEF Numbers, n

(* Of none, nothing. *)
LEMMA NumberOfNone == Numbers({}) = 0
<1>1. [x \in {} |-> x.n] = <<>>
  OBVIOUS
<1> QED BY <1>1, SumOfNone DEF Numbers

(* One for each barber who earned more since, and one for all the others together. *)
ExtraItems(X, h) == {Todo("extra", b, h[b]) : b \in X}
PayItems(U, h) == When(U # {}, Todo("pay out", "", Sub(h, U)))

(* They ask for what the barbers among them are owed. *)
LEMMA OwedItemsAdd ==
  ASSUME NEW D, IsFiniteSet(D), NEW h \in [D -> Nat], NEW X \in SUBSET D, NEW U \in SUBSET D, X \cap U = {}
  PROVE  Numbers(ExtraItems(X, h) \cup PayItems(U, h)) = Sub(h, X \cup U)
<1> DEFINE E == ExtraItems(X, h)
           P == PayItems(U, h)
           T(b) == Todo("extra", b, h[b])
           q == Todo("pay out", "", Sub(h, U))
           f == [x \in E |-> x.n]
           k == [x \in E |-> x.who]
<1>1. \A b \in X : T(b).who = b /\ T(b).n = h[b] /\ T(b).about = "extra" /\ h[b] \in Nat
  BY DEF Todo
<1>2. Sub(h, U) \in Nat /\ Sub(h, X) \in Nat /\ Sub(h, {}) = 0
  BY SubFacts
<1>3. q.about = "pay out" /\ q.n = Sub(h, U)
  BY DEF Todo
<1>4. E = {T(b) : b \in X} /\ (U = {} => P = {}) /\ (U # {} => P = {q})
  BY DEF ExtraItems, PayItems, When
<1> HIDE DEF T, q, E, P
<1>5. IsFiniteSet(E)
  <2> DEFINE s == [b \in X |-> T(b)]
  <2>1. s \in Surjection(X, E)
    BY <1>4 DEF Surjection
  <2>2. IsFiniteSet(X)
    BY FS_Subset
  <2> HIDE DEF s
  <2> QED BY ONLY <2>1, <2>2, FS_Surjection
<1>6. /\ f \in [E -> Nat] /\ E \in SUBSET E /\ IsFiniteSet(X)
      /\ \A x \in E : k[x] \in X
      /\ \A b \in X : Part(E, k, b) = {T(b)} /\ f[T(b)] = h[b] /\ T(b) \in E
  <2>0. \A x \in E : \E b \in X : x = T(b)
    BY ONLY <1>4
  <2>1. \A x \in E : \E b \in X : x = T(b) /\ x.n = h[b] /\ x.who = b
    BY ONLY <1>1, <2>0
  <2>2. f \in [E -> Nat] /\ E \in SUBSET E
    BY <1>1, <2>1
  <2>3. IsFiniteSet(X)
    BY FS_Subset
  <2>4. \A x \in E : k[x] \in X
    BY <2>1
  <2>5. ASSUME NEW b \in X PROVE Part(E, k, b) = {T(b)} /\ f[T(b)] = h[b] /\ T(b) \in E
    <3>1. T(b) \in E /\ T(b).who = b /\ T(b).n = h[b]
      BY <1>1, <1>4
    <3>2. \A x \in E : k[x] = b => x = T(b)
      BY <2>1
    <3>3. k[T(b)] = b /\ f[T(b)] = h[b]
      BY <3>1
    <3> HIDE DEF k, f
    <3> QED BY ONLY <3>1, <3>2, <3>3 DEF Part
  <2> HIDE DEF k, f
  <2> QED BY ONLY <2>2, <2>3, <2>4, <2>5
<1>7. Numbers(E) = SumOf(f)
  BY DEF Numbers
<1> HIDE DEF f, k
<1>8. Numbers(E) = Sub(h, X)
  <2>1. Sub(f, E) = SumOf(f)
    BY <1>5, <1>6, SubFacts
  <2>2. Sub(f, E) = SumOf([b \in X |-> Sub(f, Part(E, k, b))])
    <3>1. E \in SUBSET E /\ IsFiniteSet(E) /\ f \in [E -> Nat] /\ IsFiniteSet(X) /\ \A x \in E : k[x] \in X
      BY ONLY <1>5, <1>6
    <3> QED BY ONLY <3>1, SumOfParts
  <2>3. ASSUME NEW b \in X PROVE Sub(f, Part(E, k, b)) = h[b]
    <3> DEFINE t == T(b)
    <3>1. {t} \in SUBSET E /\ t \in {t} /\ {t} \ {t} = {} /\ Part(E, k, b) = {t}
      BY <1>6
    <3> HIDE DEF t
    <3>2. Sub(f, {t}) = f[t] + Sub(f, {}) /\ Sub(f, {}) = 0
      <4>1. IsFiniteSet(E) /\ f \in [E -> Nat]
        BY ONLY <1>5, <1>6
      <4> QED BY ONLY <3>1, <4>1, SubFacts
    <3>3. f[t] = h[b] /\ h[b] \in Nat
      BY <1>1, <1>6 DEF t
    <3> QED BY ONLY <3>1, <3>2, <3>3
  <2>4. [b \in X |-> Sub(f, Part(E, k, b))] = [b \in X |-> h[b]]
    BY <2>3
  <2> QED BY <1>7, <2>1, <2>2, <2>4 DEF Sub
<1>9. Sub(h, X \cup U) = Sub(h, X) + Sub(h, U)
  BY ONLY IsFiniteSet(D), h \in [D -> Nat], X \in SUBSET D, U \in SUBSET D, X \cap U = {}, SumOfUnion
<1>10. CASE U = {}
  <2>1. E \cup P = E /\ Sub(h, U) = 0
    BY <1>2, <1>4, <1>10
  <2>2. Numbers(E \cup P) = Sub(h, X \cup U)
    BY ONLY <1>2, <1>8, <1>9, <2>1
  <2> QED BY ONLY <2>2 DEF E, P
<1>11. CASE U # {}
  <2>1. P = {q} /\ IsFiniteSet(P)
    BY <1>4, <1>11, FS_Singleton
  <2>2. \A x \in E : x.about = "extra" /\ x.n \in Nat
    <3>1. \A x \in E : \E b \in X : x = T(b)
      BY ONLY <1>4
    <3> QED BY ONLY <1>1, <3>1
  <2>3. q \notin E /\ q.n \in Nat
    BY <1>2, <1>3, <2>2
  <2>4. E \cap P = {} /\ \A x \in E \cup P : x.n \in Nat
    BY <2>1, <2>2, <2>3
  <2>5. Numbers(E \cup P) = Numbers(E) + Numbers(P)
    BY <1>5, <2>1, <2>4, NumbersAdd
  <2>6. Numbers(P) = Sub(h, U)
    BY <1>3, <2>1, <2>3, NumberOfOne
  <2>7. Numbers(E \cup P) = Sub(h, X \cup U)
    BY ONLY <1>8, <1>9, <2>5, <2>6
  <2> QED BY ONLY <2>7 DEF E, P
<1> QED BY ONLY <1>10, <1>11

(* What is still owed on a day, as the rows say and as the cards do. *)
LEMMA OwedOnCards ==
  ASSUME FiguresInv, NEW d
  PROVE  LET h == [b \in Staff |-> AtLeastZero(EarnedBy(d, b) - PaidTo(d, b))]
             rows == InsightsRows(d) IN
         /\ h \in [Staff -> Nat] /\ Shown(d) \in SUBSET Staff
         /\ \A b \in Staff \ Shown(d) : h[b] = 0
         /\ DOMAIN rows = Shown(d)
         /\ \A b \in Shown(d) : rows[b].remaining = h[b] /\ (rows[b].additional => h[b] > 0)
<1> DEFINE h == [b \in Staff |-> AtLeastZero(EarnedBy(d, b) - PaidTo(d, b))]
           rows == InsightsRows(d)
           paid == PaidSales(d)
           outs == PayoutsOn(d)
<1>1. /\ paid \in SUBSET sold /\ outs \in SUBSET paidOut
      /\ \A b : Part(paid, BarberOf, b) = {r \in paid : r.barber = b}
      /\ \A b : Part(outs, PayeeOf, b) = {p \in outs : p.barber = b}
  BY BarbersAreStaff
<1>2. /\ DOMAIN rows = Shown(d)
      /\ \A b \in Shown(d) : rows[b].earned = EarnedOf(d, b)
                             /\ rows[b].remaining = AtLeastZero(EarnedOf(d, b) - PaidOf(d, b))
  BY CardsOfDay
<1>3. Shown(d) \in SUBSET Staff
  <2>1. \A r \in paid : r.barber \in Staff
    BY <1>1 DEF FiguresInv, StoredSale
  <2>2. \A p \in outs : p.barber \in Staff
    BY <1>1 DEF FiguresInv, StoredPayout
  <2> QED BY <2>1, <2>2, FiguresAssumption DEF Shown, Earners
<1>4. ASSUME NEW b PROVE EarnedBy(d, b) = EarnedOf(d, b) /\ EarnedOf(d, b) \in Nat
  <2> DEFINE T == Part(paid, BarberOf, b)
             f == [r \in T |-> EachCommission[r]]
             g == [r \in T |-> EachTip[r]]
             e == [r \in T |-> f[r] + g[r]]
  <2>1. T \in SUBSET sold
    BY <1>1
  <2>2. EarnedBy(d, b) = SumOf([r \in T |-> CommissionOf(r) + TipOf(r)])
    BY <1>1 DEF EarnedBy, Total
  <2>3. EarnedOf(d, b) = SumOf(f) + SumOf(g)
    BY DEF EarnedOf, Sub
  <2>4. [r \in T |-> CommissionOf(r) + TipOf(r)] = e
    BY <2>1 DEF EachCommission, EachTip
  <2> HIDE DEF T
  <2>5. f \in [T -> Nat] /\ g \in [T -> Nat] /\ IsFiniteSet(T)
    BY <2>1, RowsAdd, FS_Subset
  <2> HIDE DEF f, g
  <2>6. SumOf(e) = SumOf(f) + SumOf(g)
    BY <2>5, SumOfPairs
  <2>7. SumOf(f) \in Nat /\ SumOf(g) \in Nat
    BY <2>5, SubFacts
  <2> HIDE DEF e
  <2> QED BY <2>2, <2>3, <2>4, <2>6, <2>7
<1>5. ASSUME NEW b PROVE PaidTo(d, b) = PaidOf(d, b) /\ PaidOf(d, b) \in Nat
  <2> DEFINE T == Part(outs, PayeeOf, b)
  <2>1. T \in SUBSET paidOut
    BY <1>1
  <2>2. PaidTo(d, b) = Total(T, PaidOutTo)
    BY <1>1 DEF PaidTo
  <2>3. PaidOf(d, b) = Sub(EachPayment, T)
    BY DEF PaidOf
  <2> HIDE DEF T
  <2> QED BY <2>1, <2>2, <2>3, PaymentsAreSums, RowsAdd, SubFacts
<1>6. h \in [Staff -> Nat]
  BY <1>4, <1>5 DEF AtLeastZero
<1>7. ASSUME NEW b \in Staff \ Shown(d) PROVE h[b] = 0
  <2>1. b \notin Earners(d) /\ \A p \in outs : p.barber # b
    BY DEF Shown
  <2>2. {r \in paid : r.barber = b} = {}
    BY <2>1 DEF Earners
  <2>3. Part(paid, BarberOf, b) = {} /\ Part(outs, PayeeOf, b) = {}
    BY <1>1, <2>1, <2>2
  <2>4. EarnedOf(d, b) = 0 /\ PaidOf(d, b) = 0
    <3>1. Sub(EachCommission, {}) = 0 /\ Sub(EachTip, {}) = 0 /\ Sub(EachPayment, {}) = 0
      BY RowsAdd, SubFacts
    <3> QED BY <2>3, <3>1 DEF EarnedOf, PaidOf
  <2> QED BY <1>4, <1>5, <2>4 DEF AtLeastZero
<1>8. ASSUME NEW b \in Shown(d) PROVE rows[b].remaining = h[b] /\ (rows[b].additional => h[b] > 0)
  <2>1. h[b] = AtLeastZero(EarnedOf(d, b) - PaidOf(d, b)) /\ b \in Staff
    BY <1>3, <1>4, <1>5
  <2>2. rows[b].additional => EarnedOf(d, b) > PaidOf(d, b)
    <3> DEFINE totals == TotalsFor(d, "LIST_PRICE")
               Commission(c) == IF c \in DOMAIN totals THEN totals[c].commission ELSE 0
               Tips(c) == IF c \in DOMAIN totals THEN totals[c].tips ELSE 0
               Earned(c) == Commission(c) + Tips(c)
               Paid(c) == Total({p \in PayoutsOn(d) : p.barber = c}, PaidOutTo)
               Rung(c) == {r \in PaidSales(d) : r.barber = c}
               marked(c) == \E p \in PayoutsOn(d) : p.barber = c /\ p.marked
               row(c) == [sales |-> Cardinality(Rung(c)), revenue |-> Total(Rung(c), AmountOf),
                          commission |-> Commission(c), tips |-> Tips(c), earned |-> Earned(c), paidOut |-> Paid(c),
                          remaining |-> AtLeastZero(Earned(c) - Paid(c)),
                          additional |-> Earned(c) > Paid(c) /\ marked(c)]
    <3>1. rows = [c \in Active \cup DOMAIN totals \cup {p.barber : p \in PayoutsOn(d)} |-> row(c)]
      BY DEF InsightsRows, RowsOf
    <3>2. b \in Active \cup DOMAIN totals \cup {p.barber : p \in PayoutsOn(d)}
      BY <1>2, <3>1
    <3>3. rows[b].additional = (Earned(b) > Paid(b) /\ marked(b)) /\ rows[b].earned = Earned(b)
      BY <3>1, <3>2
    <3>4. Paid(b) = PaidTo(d, b)
      BY DEF PaidTo
    <3> HIDE DEF Earned, Paid, marked, rows
    <3> QED BY ONLY <1>2, <1>5, <3>3, <3>4
  <2> QED BY <1>2, <1>4, <1>5, <2>1, <2>2 DEF AtLeastZero
<1> HIDE DEF h, rows
<1>9. /\ h \in [Staff -> Nat] /\ Shown(d) \in SUBSET Staff
      /\ \A b \in Staff \ Shown(d) : h[b] = 0
      /\ DOMAIN rows = Shown(d)
      /\ \A b \in Shown(d) : rows[b].remaining = h[b] /\ (rows[b].additional => h[b] > 0)
  BY <1>2, <1>3, <1>6, <1>7, <1>8
<1> QED BY <1>9 DEF h, rows

(* What the list asks to pay out is what is owed, and it asks when anything is. *)
LEMMA OwedIsAsked ==
  ASSUME FiguresInv, NEW d, NEW i, i.day # NotLoaded, i.day.barbers = InsightsRows(d)
  PROVE  /\ Numbers(ExtraTodo(i) \cup PayTodo(i)) = StillOwed(d)
         /\ ExtraTodo(i) = {} /\ PayTodo(i) = {} <=> StillOwed(d) = 0
<1> DEFINE h == [b \in Staff |-> AtLeastZero(EarnedBy(d, b) - PaidTo(d, b))]
           rows == InsightsRows(d)
           X == ExtraOf(i)
           N == NotPaidOut(i)
           U == N \ X
<1>1. /\ h \in [Staff -> Nat] /\ Shown(d) \in SUBSET Staff
      /\ \A b \in Staff \ Shown(d) : h[b] = 0
      /\ DOMAIN rows = Shown(d)
      /\ \A b \in Shown(d) : rows[b].remaining = h[b] /\ (rows[b].additional => h[b] > 0)
  BY OwedOnCards
<1>2. StillOwed(d) = SumOf(h)
  BY DEF StillOwed, Total
<1>3. N = {b \in DOMAIN rows : rows[b].remaining > 0} /\ X = {b \in DOMAIN rows : rows[b].additional}
  BY DEF NotPaidOut, ExtraOf
<1>4. ExtraTodo(i) = {Todo("extra", b, rows[b].remaining) : b \in X}
  BY DEF ExtraTodo
<1>5. PayTodo(i) = When(U # {}, Todo("pay out", "", SumOf([b \in U |-> rows[b].remaining])))
  BY DEF PayTodo, Total
<1> HIDE DEF h, rows, X, N, U
<1>6. N = {b \in Shown(d) : h[b] > 0} /\ X \subseteq N
  BY <1>1, <1>3
<1>7. X \in SUBSET Staff /\ U \in SUBSET Staff /\ X \cap U = {} /\ X \cup U = N /\ N \in SUBSET Staff
  BY <1>1, <1>6 DEF U
<1>8. \A b \in N : rows[b].remaining = h[b]
  BY <1>1, <1>6
<1>9. ExtraTodo(i) = ExtraItems(X, h)
  BY <1>4, <1>7, <1>8 DEF ExtraItems
<1>10. [b \in U |-> rows[b].remaining] = [b \in U |-> h[b]]
  BY <1>7, <1>8
<1>11. PayTodo(i) = PayItems(U, h)
  BY <1>5, <1>10 DEF PayItems, Sub
<1>12. IsFiniteSet(Staff)
  BY FiguresAssumption
<1>13. Numbers(ExtraTodo(i) \cup PayTodo(i)) = Sub(h, X \cup U)
  BY ONLY <1>1, <1>7, <1>9, <1>11, <1>12, OwedItemsAdd
<1>14. \A b \in Staff \ N : h[b] = 0
  <2> SUFFICES ASSUME NEW b \in Staff \ N PROVE h[b] = 0
    OBVIOUS
  <2>1. h[b] \in Nat /\ (b \in Shown(d) => ~(h[b] > 0))
    BY <1>1, <1>6
  <2> QED BY <1>1, <2>1
<1>15. Sub(h, Staff) = Sub(h, N) /\ Sub(h, Staff) = SumOf(h)
  BY <1>1, <1>7, <1>12, <1>14, SubOfZeros, SubFacts
<1>16. N = {} <=> Sub(h, N) = 0
  <2>1. N = {} => Sub(h, N) = 0
    BY <1>1, <1>12, SubFacts
  <2>2. ASSUME Sub(h, N) = 0 PROVE N = {}
    <3>1. \A b \in N : h[b] = 0
      BY <1>1, <1>7, <1>12, <2>2, NothingFromZero
    <3> QED BY <1>6, <3>1
  <2> QED BY <2>1, <2>2
<1>17. ExtraTodo(i) = {} /\ PayTodo(i) = {} <=> N = {}
  <2>1. ExtraTodo(i) = {} <=> X = {}
    BY <1>9 DEF ExtraItems
  <2>2. PayTodo(i) = {} <=> U = {}
    BY <1>11 DEF PayItems, When
  <2> QED BY <1>7, <2>1, <2>2
<1> QED BY <1>2, <1>7, <1>13, <1>15, <1>16, <1>17

-----------------------------------------------------------------------------
(* Sales that wait for their date: those of the day, and the rest of the period. *)
DatesItems(a) == When(a > 0, Todo("confirm dates", "", a))
MoreItems(a, b) == When(b > a, Todo("more dates", "", b - a))

(* Together they ask for all that wait, and for none only when none does. *)
LEMMA DatesItemsAdd ==
  ASSUME NEW a \in Nat, NEW b \in Nat, a <= b
  PROVE  /\ Numbers(DatesItems(a) \cup MoreItems(a, b)) = b
         /\ DatesItems(a) = {} <=> a = 0
         /\ MoreItems(a, b) = {} <=> a = b
<1> DEFINE m == b - a
           p == Todo("confirm dates", "", a)
           q == Todo("more dates", "", m)
           D == DatesItems(a)
           M == MoreItems(a, b)
<1>1. p.n = a /\ q.n = m /\ p.about = "confirm dates" /\ q.about = "more dates"
  BY DEF Todo
<1>2. (a = 0 => D = {}) /\ (a # 0 => D = {p})
  <2>1. a > 0 <=> a # 0
    OBVIOUS
  <2> HIDE DEF p
  <2>2. D = IF a > 0 THEN {p} ELSE {}
    BY DEF DatesItems, When, p
  <2> QED BY ONLY <2>1, <2>2
<1>3. (a = b => M = {}) /\ (a # b => M = {q}) /\ m \in Nat /\ (a = b => m = 0)
  <2>1. (b > a <=> a # b) /\ m \in Nat /\ (a = b => m = 0)
    OBVIOUS
  <2> HIDE DEF q
  <2>2. M = IF b > a THEN {q} ELSE {}
    BY DEF MoreItems, When, q
  <2> QED BY ONLY <2>1, <2>2
<1>4. a + m = b /\ a \in Nat /\ b \in Nat
  OBVIOUS
<1> HIDE DEF m, p, q, D, M
<1>5. Numbers({p}) = a /\ Numbers({q}) = m /\ Numbers({}) = 0
  BY ONLY <1>1, <1>3, <1>4, NumberOfOne, NumberOfNone
<1>6. Numbers({p} \cup {q}) = Numbers({p}) + Numbers({q})
  <2>1. {p} \cap {q} = {} /\ IsFiniteSet({p}) /\ IsFiniteSet({q}) /\ \A x \in {p} \cup {q} : x.n \in Nat
    BY ONLY <1>1, <1>3, <1>4, FS_Singleton
  <2> QED BY ONLY <2>1, NumbersAdd
<1>7. Numbers(D \cup M) = b
  <2>1. CASE a = 0 /\ a = b
    <3>1. D \cup M = {}
      BY ONLY <1>2, <1>3, <2>1
    <3> QED BY ONLY <1>5, <2>1, <3>1
  <2>2. CASE a = 0 /\ a # b
    <3>1. D \cup M = {q}
      BY ONLY <1>2, <1>3, <2>2
    <3> QED BY ONLY <1>3, <1>4, <1>5, <2>2, <3>1
  <2>3. CASE a # 0 /\ a = b
    <3>1. D \cup M = {p}
      BY ONLY <1>2, <1>3, <2>3
    <3> QED BY ONLY <1>5, <2>3, <3>1
  <2>4. CASE a # 0 /\ a # b
    <3>1. D \cup M = {p} \cup {q}
      BY ONLY <1>2, <1>3, <2>4
    <3> QED BY ONLY <1>4, <1>5, <1>6, <3>1
  <2> QED BY ONLY <2>1, <2>2, <2>3, <2>4
<1>8. (D = {} <=> a = 0) /\ (M = {} <=> a = b)
  BY ONLY <1>2, <1>3
<1> QED BY <1>7, <1>8 DEF D, M

(* What the list asks about dates, for a day and its period. *)
LEMMA DatesAreAsked ==
  ASSUME FiguresInv, NEW v \in Visits, NEW d \in Nat, NEW i,
         i.day # NotLoaded => i.day = DayInput(v, d),
         i.trends # NotLoaded => i.trends = TrendsInput(v, d)
  PROVE  /\ i.day # NotLoaded => (DatesTodo(i) = {} <=> Held(d, d) = {})
         /\ i.day = NotLoaded => DatesTodo(i) = {}
         /\ i.trends = NotLoaded => MoreTodo(i) = {}
         /\ i.trends # NotLoaded =>
              /\ Numbers(DatesTodo(i) \cup MoreTodo(i)) = Cardinality(Held(First(d), d))
              /\ DatesTodo(i) = {} /\ MoreTodo(i) = {} <=> Held(First(d), d) = {}
<1> DEFINE a == DayHeld(i)
           b == PeriodHeld(i)
           A == Held(d, d)
           B == Held(First(d), d)
           day == i.day # NotLoaded
           trends == i.trends # NotLoaded
<1>1. A \subseteq B /\ IsFiniteSet(B) /\ IsFiniteSet(A)
  <2>1. First(d) \in Int /\ First(d) <= d
    BY FiguresAssumption DEF First
  <2>2. d .. d \subseteq First(d) .. d
    BY <2>1
  <2>3. A \subseteq B
    BY <2>2 DEF Held
  <2>4. B \in SUBSET sold /\ IsFiniteSet(sold)
    BY DEF Held, FiguresInv
  <2> QED BY ONLY <2>3, <2>4, FS_Subset
<1>2. (day => a = Cardinality(A)) /\ (~day => a = 0)
  BY InputOfDay DEF DayHeld
<1>3. (trends => b = Cardinality(B)) /\ (~trends => b = 0)
  BY InputOfTrends DEF PeriodHeld
<1>4. DatesTodo(i) = DatesItems(a)
  <2>1. CASE day
    BY <2>1 DEF DatesTodo, DatesItems, DayHeld
  <2>2. CASE ~day
    <3>1. DatesTodo(i) = {}
      BY <2>2 DEF DatesTodo
    <3>2. DatesItems(0) = {}
      BY DEF DatesItems, When
    <3> QED BY <1>2, <2>2, <3>1, <3>2
  <2> QED BY <2>1, <2>2
<1>5. MoreTodo(i) = MoreItems(a, b)
  BY DEF MoreTodo, MoreItems
<1> HIDE DEF a, b, A, B, day, trends
<1>6. /\ Cardinality(A) \in Nat /\ Cardinality(B) \in Nat /\ Cardinality(A) <= Cardinality(B)
      /\ (Cardinality(A) = 0 <=> A = {}) /\ (Cardinality(B) = 0 <=> B = {})
  BY ONLY <1>1, FS_CardinalityType, FS_EmptySet, FS_Subset
<1>7. a \in Nat /\ b \in Nat
  BY ONLY <1>2, <1>3, <1>6
<1>8. DatesItems(a) = {} <=> a = 0
  <2>1. a <= a
    BY ONLY <1>7
  <2> QED BY ONLY <1>7, <2>1, DatesItemsAdd
<1>9. day => (DatesTodo(i) = {} <=> A = {})
  BY ONLY <1>2, <1>4, <1>6, <1>8
<1>10. ~day => DatesTodo(i) = {}
  BY ONLY <1>2, <1>4, <1>8
<1>11. ~trends => MoreTodo(i) = {}
  <2>1. ASSUME ~trends PROVE ~(b > a)
    BY ONLY <1>3, <1>7, <2>1
  <2>2. ~(b > a) => MoreItems(a, b) = {}
    BY ONLY DEF MoreItems, When
  <2> QED BY ONLY <1>5, <2>1, <2>2
<1>12. ASSUME trends
       PROVE  /\ Numbers(DatesTodo(i) \cup MoreTodo(i)) = Cardinality(B)
              /\ DatesTodo(i) = {} /\ MoreTodo(i) = {} <=> B = {}
  <2>1. b = Cardinality(B) /\ a <= b
    BY ONLY <1>2, <1>3, <1>6, <1>12, <1>7
  <2>2. /\ Numbers(DatesItems(a) \cup MoreItems(a, b)) = b
        /\ MoreItems(a, b) = {} <=> a = b
    BY ONLY <1>7, <2>1, DatesItemsAdd
  <2>3. a = 0 /\ a = b <=> Cardinality(B) = 0
    BY ONLY <1>7, <2>1
  <2> QED BY ONLY <1>4, <1>5, <1>6, <1>8, <2>1, <2>2, <2>3
<1> QED BY <1>9, <1>10, <1>11, <1>12 DEF A, B, day, trends

(* The forecast is asked for when its last day is less than a week ahead. *)
LEMMA ForecastIsAsked ==
  ASSUME NEW v \in Visits, NEW i, i.forecast # NotLoaded, i.forecast = ForecastInput(v.forecast)
  PROVE  ForecastTodo(i) = {} <=>
           IF i.forecast.saved THEN Today .. Today + Rules.week - 1 \subseteq DOMAIN i.forecast.days ELSE FALSE
<1> DEFINE f == v.forecast
           D == {x \in DOMAIN f.days : x >= Today}
           saved == f.saved
           n == Cardinality(D)
           week == Rules.week
           p == Todo("forecast", "", 0)
<1>0. saved => \E a \in 0 .. Today : \E b \in DOMAIN f.days \cup {a - 1} : DOMAIN f.days = a .. b
  BY StoryAssumption
<1>1. {"saved", "days"} \subseteq DOMAIN f /\ saved \in BOOLEAN /\ week \in Nat \ {0} /\ Today \in Nat
      /\ (saved => \E a \in 0 .. Today, b \in Int : DOMAIN f.days = a .. b)
  <2>1. ASSUME NEW a \in 0 .. Today, NEW b \in DOMAIN f.days \cup {a - 1}, DOMAIN f.days = a .. b
        PROVE  b \in Int
    BY <2>1
  <2>2. saved => \E a \in 0 .. Today, b \in Int : DOMAIN f.days = a .. b
    BY <1>0, <2>1
  <2>3. {"saved", "days"} \subseteq DOMAIN f /\ saved \in BOOLEAN /\ week \in Nat \ {0} /\ Today \in Nat
    BY StoryAssumption, FiguresAssumption
  <2> QED BY ONLY <2>2, <2>3
<1>2. i.forecast.saved = saved /\ DOMAIN i.forecast.days = D
  BY <1>1 DEF ForecastInput
<1>3. ForecastTodo(i) = When(~saved \/ n < week, p)
  BY <1>2 DEF ForecastTodo
<1> HIDE DEF saved, D, week, p
<1>4. CASE ~saved
  BY <1>2, <1>3, <1>4 DEF When
<1>5. CASE saved
  <2>1. PICK a \in 0 .. Today, b \in Int : DOMAIN f.days = a .. b
    BY <1>1, <1>5
  <2>2. D = Today .. b
    BY <1>1, <2>1 DEF D
  <2>3. n = IF Today > b THEN 0 ELSE b - Today + 1
    <3>1. Today \in Int /\ b \in Int
      BY <1>1
    <3> QED BY ONLY <2>2, <3>1, FS_Interval
  <2>4. n < week <=> ~(b >= Today + week - 1)
    BY <1>1, <2>1, <2>3
  <2>5. Today .. Today + week - 1 \subseteq D <=> b >= Today + week - 1
    <3> DEFINE e == Today + week - 1
    <3>1. e \in Int /\ e >= Today
      BY <1>1
    <3>2. e >= Today => e \in Today .. e
      BY <1>1, <3>1
    <3>3. ASSUME Today .. e \subseteq D PROVE b >= e
      <4>1. e \in Today .. b
        BY <2>2, <3>1, <3>2, <3>3
      <4> QED BY <1>1, <3>1, <4>1
    <3>4. ASSUME b >= e PROVE Today .. e \subseteq D
      BY <1>1, <2>2, <3>1, <3>4
    <3> QED BY ONLY <3>3, <3>4
  <2> DEFINE few == n < week
             all == Today .. Today + week - 1 \subseteq D
  <2>6. few <=> ~all
    BY ONLY <2>4, <2>5
  <2> HIDE DEF few, all
  <2>7. ForecastTodo(i) = When(~saved \/ few, p)
    BY ONLY <1>3 DEF few
  <2>8. ForecastTodo(i) = {} <=> ~few
    BY ONLY <1>5, <2>7 DEF When
  <2> QED BY <1>2, <1>5, <2>6, <2>8 DEF all, week
<1> QED BY ONLY <1>4, <1>5

-----------------------------------------------------------------------------
(* The rest of a day: sales not confirmed paid, and the drawer. *)
LEMMA DayIsAsked ==
  ASSUME FiguresInv, FiguresRest, NEW v \in Visits, NEW d, NEW i, i.day # NotLoaded, i.day = DayInput(v, d)
  PROVE  /\ PendingTodo(i) = {} <=> Unconfirmed(d) = {}
         /\ DrawerTodo(i) = {} <=>
              IF CountsOf(d) = {} THEN InProgress(i) \/ PaidSales(d) = {}
              ELSE LatestCount(d).variance = 0 /\ ~IsStale(LatestCount(d))
<1> DEFINE n == Cardinality(Unconfirmed(d))
           m == Cardinality(PaidSales(d))
           p == Todo("not confirmed paid", "", n)
           q == Todo("count again", "", 0)
           r == Todo("look into the drawer", "", 0)
           s == Todo("count", "", 0)
           status == SavedCount(d).status
           stale == SavedCount(d).stale
           open == InProgress(i)
           none == CountsOf(d) = {}
           zero == LatestCount(d).variance = 0
           moved == IsStale(LatestCount(d))
           off == status \in {"short", "over"}
           due == status = "none" /\ ~open /\ m > 0
<1>1. i.day.pending = n /\ i.day.drawer = SavedCount(d) /\ i.day.sales = m
  BY InputOfDay, DayRevenue
<1>2. Unconfirmed(d) \in SUBSET sold /\ PaidSales(d) \in SUBSET sold
  BY DEF Unconfirmed, PaidSales, OnDay
<1>3. n \in Nat /\ m \in Nat /\ (n = 0 <=> Unconfirmed(d) = {}) /\ (m = 0 <=> PaidSales(d) = {})
  <2>1. IsFiniteSet(Unconfirmed(d)) /\ IsFiniteSet(PaidSales(d))
    BY <1>2, FS_Subset DEF FiguresInv
  <2> QED BY <2>1, FS_CardinalityType, FS_EmptySet
<1>4. PendingTodo(i) = IF n > 0 THEN {p} ELSE {}
  BY <1>1 DEF PendingTodo, When
<1>5. DrawerTodo(i) = IF stale THEN {q} ELSE IF off THEN {r} ELSE IF due THEN {s} ELSE {}
  BY <1>1 DEF DrawerTodo, When
<1>6. /\ status \in {"none", "balanced", "short", "over"}
      /\ status = "none" <=> none
      /\ stale <=> ~none /\ moved
      /\ status = "balanced" <=> ~none /\ zero
  BY DrawerStatus
<1> HIDE DEF p, q, r, s, n, m
<1>7. PendingTodo(i) = {} <=> Unconfirmed(d) = {}
  <2>1. n > 0 <=> n # 0
    BY ONLY <1>3
  <2> QED BY ONLY <1>3, <1>4, <2>1
<1>8. due <=> none /\ ~open /\ PaidSales(d) # {}
  <2>1. m > 0 <=> m # 0
    BY ONLY <1>3
  <2> HIDE DEF status, none, open
  <2> QED BY ONLY <1>3, <1>6, <2>1 DEF due
<1>9. off <=> ~none /\ ~zero
  <2> HIDE DEF status, none, zero
  <2> QED BY ONLY <1>6 DEF off
<1> HIDE DEF stale, off, due, none, zero, moved, open
<1>10. DrawerTodo(i) = {} <=> ~stale /\ ~off /\ ~due
  BY ONLY <1>5
<1>11. DrawerTodo(i) = {} <=> IF none THEN open \/ PaidSales(d) = {} ELSE zero /\ ~moved
  BY ONLY <1>6, <1>8, <1>9, <1>10
<1> QED BY <1>7, <1>11 DEF none, open, zero, moved

(* The slide lists the items. *)
LEMMA TodoSlideIs ==
  ASSUME NEW i
  PROVE  TodoSlide(i).items = TodoItems(i)
<1> DEFINE items == TodoItems(i)
           loaded == NotLoaded \notin {i.day, i.trends}
           Day(cond) == IF i.day = NotLoaded THEN FALSE ELSE cond
           headline == IF items # {} THEN Point("warn", "needs attention", Cardinality(items))
                       ELSE Point("good", IF loaded THEN "nothing" ELSE "nothing loaded", 0)
           points ==
             (IF loaded THEN When(i.trends.held = 0 /\ i.day.held = 0, Point("good", "no dates", 0)) ELSE {})
              \cup When(Day(i.day.drawer = [status |-> "balanced", stale |-> FALSE]), Point("good", "balanced", 0))
              \cup When(Day(NotPaidOut(i) = {} /\ SomeoneEarned(i)), Point("good", "all paid out", 0))
              \cup When(HasTrends(i) /\ QuietDays(i).gaps = {}, Point("good", "every day", 0))
              \cup When(~loaded, Point("warn", "incomplete", 0))
           highlight == {Point(IF items = {} THEN "good" ELSE "warn", "to look at", Cardinality(items))}
<1>1. TodoSlide(i) = [headline |-> headline, items |-> items, points |-> points, highlight |-> highlight]
  BY DEF TodoSlide
<1> HIDE DEF headline, points, highlight, items
<1>2. TodoSlide(i).items = items
  BY ONLY <1>1
<1> QED BY ONLY <1>2 DEF items

(* The list of what needs the owner has nothing to ask only when nothing does, and asks for
   what the rows say. *)
LEMMA StoryAsks ==
  ASSUME FiguresInv, FiguresRest, NEW v \in Visits, NEW d, d = v.date
  PROVE  AsksForWhatNeedsIt(StoryInput(v, d), StorySlides(StoryInput(v, d)), d)
<1> DEFINE i == StoryInput(v, d)
           s == StorySlides(i)
           items == TodoItems(i)
           dates == DatesTodo(i)
           pending == PendingTodo(i)
           drawer == DrawerTodo(i)
           extra == ExtraTodo(i)
           pay == PayTodo(i)
           more == MoreTodo(i)
           gaps == GapsTodo(i)
           ahead == ForecastTodo(i)
           day == i.day # NotLoaded
           trends == i.trends # NotLoaded
           forecast == i.forecast # NotLoaded
           H == Held(First(d), d)
           M == Missed(i, d)
           counted == IF CountsOf(d) = {} THEN InProgress(i) \/ PaidSales(d) = {}
                      ELSE LatestCount(d).variance = 0 /\ ~IsStale(LatestCount(d))
           week == IF i.forecast.saved THEN Today .. Today + Rules.week - 1 \subseteq DOMAIN i.forecast.days ELSE FALSE
           owed == StillOwed(d)
<1>1. d \in Nat /\ i.date = d
  BY StoryAssumption, FiguresAssumption, Inputs
<1>2. /\ day => i.day = DayInput(v, d)
      /\ trends => i.trends = TrendsInput(v, d)
      /\ forecast => i.forecast = ForecastInput(v.forecast)
  BY Inputs
<1>3. s["todo"].items = items
  BY SlidesAre, TodoSlideIs
<1> HIDE DEF i, s
<1>4. /\ {x \in items : x.about \in {"confirm dates", "more dates"}} = dates \cup more
      /\ {x \in items : x.about \in {"gaps"}} = gaps
      /\ {x \in items : x.about \in {"extra", "pay out"}} = extra \cup pay
      /\ items = {} <=> /\ dates = {} /\ pending = {} /\ drawer = {} /\ extra = {} /\ pay = {}
                        /\ more = {} /\ gaps = {} /\ ahead = {}
  BY AskedParts
<1>5. /\ day => (dates = {} <=> Held(d, d) = {})
      /\ ~day => dates = {}
      /\ ~trends => more = {}
      /\ trends => /\ Numbers(dates \cup more) = Cardinality(H)
                   /\ dates = {} /\ more = {} <=> H = {}
  <2>1. /\ i.day # NotLoaded => (DatesTodo(i) = {} <=> Held(d, d) = {})
        /\ i.day = NotLoaded => DatesTodo(i) = {}
        /\ i.trends = NotLoaded => MoreTodo(i) = {}
        /\ i.trends # NotLoaded =>
             /\ Numbers(DatesTodo(i) \cup MoreTodo(i)) = Cardinality(Held(First(d), d))
             /\ DatesTodo(i) = {} /\ MoreTodo(i) = {} <=> Held(First(d), d) = {}
    BY <1>1, <1>2, DatesAreAsked
  <2> QED BY ONLY <2>1
<1>6. ASSUME day
      PROVE  /\ pending = {} <=> Unconfirmed(d) = {}
             /\ drawer = {} <=> counted
             /\ Numbers(extra \cup pay) = owed
             /\ extra = {} /\ pay = {} <=> owed = 0
  <2>1. i.day = DayInput(v, d) /\ i.day.barbers = InsightsRows(d)
    BY <1>2, <1>6, InputOfDay
  <2>2. (PendingTodo(i) = {} <=> Unconfirmed(d) = {}) /\ (DrawerTodo(i) = {} <=> counted)
    BY <1>6, <2>1, DayIsAsked
  <2>3. Numbers(ExtraTodo(i) \cup PayTodo(i)) = StillOwed(d) /\ (ExtraTodo(i) = {} /\ PayTodo(i) = {} <=> StillOwed(d) = 0)
    BY <1>6, <2>1, OwedIsAsked
  <2> QED BY ONLY <2>2, <2>3
<1>7. ~day => pending = {} /\ drawer = {} /\ extra = {} /\ pay = {}
  BY DEF PendingTodo, DrawerTodo, ExtraTodo, PayTodo
<1>8. trends => (gaps = {} <=> M = {}) /\ Numbers(gaps) = Cardinality(M)
  <2> SUFFICES ASSUME trends PROVE (gaps = {} <=> M = {}) /\ Numbers(gaps) = Cardinality(M)
    OBVIOUS
  <2> DEFINE n == Cardinality(M)
             p == Todo("gaps", "", n)
  <2>1. QuietDays(i).gaps = M
    BY <1>1, <1>2, GapsAreMissed
  <2>2. IsFiniteSet(M)
    <3>1. First(d) \in Int /\ d \in Int /\ d - 1 \in Int
      BY <1>1, FiguresAssumption DEF First
    <3>2. IsFiniteSet(First(d) .. d) /\ IsFiniteSet(First(d) .. d - 1)
      BY ONLY <3>1, FS_Interval
    <3>3. M \subseteq First(d) .. d \/ M \subseteq First(d) .. d - 1
      BY DEF Missed
    <3> QED BY ONLY <3>2, <3>3, FS_Subset
  <2>3. n \in Nat /\ (M = {} => n = 0)
    BY ONLY <2>2, FS_CardinalityType, FS_EmptySet
  <2>4. gaps = IF M # {} THEN {p} ELSE {}
    BY <2>1 DEF GapsTodo, When
  <2>5. p.n = n
    BY DEF Todo
  <2> HIDE DEF p, n, gaps
  <2>6. Numbers({p}) = n /\ Numbers({}) = 0
    BY ONLY <2>3, <2>5, NumberOfOne, NumberOfNone
  <2>7. (gaps = {} <=> M = {}) /\ Numbers(gaps) = n
    BY ONLY <2>3, <2>4, <2>6
  <2> QED BY ONLY <2>7 DEF n
<1>9. ~trends => gaps = {}
  BY DEF GapsTodo, QuietDays, HasTrends, When
<1>10. forecast => (ahead = {} <=> week)
  BY <1>2, ForecastIsAsked
<1>11. ~forecast => ahead = {}
  BY DEF ForecastTodo
<1>12. DayIsClear(i, d) <=> Held(d, d) = {} /\ Unconfirmed(d) = {} /\ owed = 0 /\ counted
  BY DEF DayIsClear
<1>13. /\ Total({x \in items : x.about \in {"confirm dates", "more dates"}}, LAMBDA x : x.n) = Numbers(dates \cup more)
       /\ Total({x \in items : x.about \in {"gaps"}}, LAMBDA x : x.n) = Numbers(gaps)
       /\ Total({x \in items : x.about \in {"extra", "pay out"}}, LAMBDA x : x.n) = Numbers(extra \cup pay)
  <2> HIDE DEF items, dates, more, gaps, extra, pay
  <2> QED BY ONLY <1>4 DEF Total, Numbers
<1> HIDE DEF items, dates, pending, drawer, extra, pay, more, gaps, ahead, day, trends, forecast, H, M, counted, week, owed
<1>14. items = {} <=>
         /\ day => DayIsClear(i, d)
         /\ trends => H = {} /\ M = {}
         /\ forecast => week
  BY ONLY <1>4, <1>5, <1>6, <1>7, <1>8, <1>9, <1>10, <1>11, <1>12
<1>15. /\ trends => /\ Numbers(dates \cup more) = Cardinality(H)
                    /\ Numbers(gaps) = Cardinality(M)
       /\ day => Numbers(extra \cup pay) = owed
  BY ONLY <1>5, <1>6, <1>8
<1>16. AsksForWhatNeedsIt(i, s, d)
  BY <1>3, <1>13, <1>14, <1>15 DEF AsksForWhatNeedsIt, day, trends, forecast, H, M, week, owed
<1> QED BY <1>16 DEF i, s

(* However the page is opened, what the slides say holds of the rows. *)
LEMMA StoryHolds ==
  ASSUME FiguresInv, FiguresRest
  PROVE  StoryIsTrue
<1>1. ASSUME NEW v \in Visits
      PROVE  /\ AsksForWhatNeedsIt(StoryInput(v, v.date), StorySlides(StoryInput(v, v.date)), v.date)
             /\ MoneyIsWhereItSays(StoryInput(v, v.date), StorySlides(StoryInput(v, v.date)), v.date)
             /\ ComparesRightly(StoryInput(v, v.date), StorySlides(StoryInput(v, v.date)))
             /\ HoursAreRight(StoryInput(v, v.date), StorySlides(StoryInput(v, v.date)))
  <2> DEFINE d == v.date
  <2>0. d = v.date
    OBVIOUS
  <2> HIDE DEF d
  <2>1. AsksForWhatNeedsIt(StoryInput(v, d), StorySlides(StoryInput(v, d)), d)
    BY <2>0, StoryAsks
  <2>2. MoneyIsWhereItSays(StoryInput(v, d), StorySlides(StoryInput(v, d)), d)
    BY <2>0, StoryMoney
  <2>3. ComparesRightly(StoryInput(v, d), StorySlides(StoryInput(v, d)))
    BY <2>0, StoryCompares
  <2>4. HoursAreRight(StoryInput(v, d), StorySlides(StoryInput(v, d)))
    BY <2>0, StoryHours
  <2> QED BY ONLY <2>1, <2>2, <2>3, <2>4 DEF d
<1> QED BY <1>1 DEF StoryIsTrue

(* What the presentation says of cash, of days without a sale, of changes and of what needs
   the owner is so of the rows the pages are made of, whatever they are. *)
THEOREM StoryTells == FiguresSpec => []StoryIsTrue
<1>1. FiguresInit => FiguresInv /\ FiguresRest
  BY FiguresInvInit, FiguresRestInit
<1>2. (FiguresInv /\ FiguresRest) /\ [FiguresNext]_figureVars => (FiguresInv /\ FiguresRest)'
  BY FiguresInvStep, FiguresRestStep
<1>3. FiguresInv /\ FiguresRest => StoryIsTrue
  BY StoryHolds
<1> QED BY <1>1, <1>2, <1>3, PTL DEF FiguresSpec
=============================================================================
