-------------------------------- MODULE Sums --------------------------------
(***************************************************************************)
(* What MapThenSumSet adds up (FiniteSetsExt): it takes the elements in an *)
(* order of its own, so that what holds of a sum is proved by induction    *)
(* over finite sets.  The induction is stated as the existence of a        *)
(* smallest set.                                                           *)
(***************************************************************************)
EXTENDS Totals, Integers, FiniteSets, FiniteSetsExt, FiniteSetTheorems, WellFoundedInduction, TLAPS

(* Of any sets of elements of a finite set, one has no other of them in it. *)
LEMMA SmallestSet ==
  ASSUME NEW S, IsFiniteSet(S), NEW B, B \subseteq SUBSET S, B # {}
  PROVE  \E T \in B : \A U \in B : U \subseteq T => U = T
<1>1. IsWellFoundedOn(StrictSubsetOrdering(S), FiniteSubsetsOf(S))
  BY FS_StrictSubsetOrderingWellFounded
<1>2. FiniteSubsetsOf(S) = SUBSET S
  BY FS_FiniteSubsetsOfFinite
<1>3. \E T \in B : \A U \in B : ~(<<U, T>> \in StrictSubsetOrdering(S))
  BY <1>1, <1>2, WFMin
<1>4. PICK T \in B : \A U \in B : ~(<<U, T>> \in StrictSubsetOrdering(S))
  BY <1>3
<1>5. ASSUME NEW U \in B, U \subseteq T, U # T PROVE FALSE
  BY <1>4, <1>5 DEF StrictSubsetOrdering
<1> QED BY <1>5

(* h[s] is the sum of f over s, for every part s of S. *)
IsSum(h, f, S) ==
  /\ h \in [SUBSET S -> Nat]
  /\ h[{}] = 0
  /\ \A s \in SUBSET S : \A x \in s : h[s] = f[x] + h[s \ {x}]

(* The recursion of MapThenSumSet. *)
Folds(i, f, S) ==
  i = [s \in SUBSET S |-> IF s = {} THEN 0
                          ELSE f[CHOOSE x \in s : TRUE] + i[s \ {CHOOSE x \in s : TRUE}]]

(* If a sum exists, so does the sum with one element more. *)
LEMMA SumOfOneMore ==
  ASSUME NEW S, NEW y, y \notin S, NEW f \in [S \cup {y} -> Nat],
         NEW h, IsSum(h, f, S)
  PROVE  \E k : IsSum(k, f, S \cup {y})
<1> DEFINE k == [s \in SUBSET (S \cup {y}) |-> IF y \in s THEN f[y] + h[s \ {y}] ELSE h[s]]
<1>1. ASSUME NEW s \in SUBSET (S \cup {y}) PROVE s \ {y} \in SUBSET S /\ (y \notin s => s \in SUBSET S)
  OBVIOUS
<1>2. k \in [SUBSET (S \cup {y}) -> Nat]
  BY <1>1 DEF IsSum
<1>3. k[{}] = 0
  BY DEF IsSum
<1>4. ASSUME NEW s \in SUBSET (S \cup {y}), NEW x \in s PROVE k[s] = f[x] + k[s \ {x}]
  <2>0. s \ {x} \in SUBSET (S \cup {y})
    OBVIOUS
  <2>1. CASE x = y
    <3>1. k[s] = f[y] + h[s \ {y}]
      BY <2>1
    <3>2. k[s \ {x}] = h[s \ {y}]
      BY <2>0, <2>1
    <3> QED BY <2>1, <3>1, <3>2
  <2>2. CASE x # y /\ y \in s
    <3>1. k[s] = f[y] + h[s \ {y}]
      BY <2>2
    <3>2. k[s \ {x}] = f[y] + h[(s \ {x}) \ {y}]
      BY <2>0, <2>2
    <3>3. h[s \ {y}] = f[x] + h[(s \ {y}) \ {x}]
      BY <1>1, <2>2 DEF IsSum
    <3>4. (s \ {y}) \ {x} = (s \ {x}) \ {y}
      OBVIOUS
    <3>5. f[x] \in Nat /\ f[y] \in Nat /\ h[(s \ {x}) \ {y}] \in Nat
      BY <1>1, <2>2 DEF IsSum
    <3>6. \A a, b, c \in Nat : a + (b + c) = b + (a + c)
      OBVIOUS
    <3> HIDE DEF k
    <3>7. h[s \ {y}] = f[x] + h[(s \ {x}) \ {y}]
      BY <3>3, <3>4
    <3>8. f[x] + k[s \ {x}] = f[y] + h[s \ {y}]
      BY <3>2, <3>5, <3>6, <3>7
    <3> QED BY <3>1, <3>8
  <2>3. CASE y \notin s
    BY <1>1, <2>0, <2>3 DEF IsSum
  <2> QED BY <2>1, <2>2, <2>3
<1>5. IsSum(k, f, S \cup {y})
  BY <1>2, <1>3, <1>4 DEF IsSum
<1> QED BY <1>5

(* Every function on a finite set has its sums. *)
LEMMA SumExists ==
  ASSUME NEW S, IsFiniteSet(S), NEW f \in [S -> Nat]
  PROVE  \E h : IsSum(h, f, S)
<1> DEFINE B == {T \in SUBSET S : ~ \E h : IsSum(h, f, T)}
<1> SUFFICES ASSUME B # {} PROVE FALSE
  OBVIOUS
<1>0. B \subseteq SUBSET S
  OBVIOUS
<1>1. PICK T \in B : \A U \in B : U \subseteq T => U = T
  <2> HIDE DEF B
  <2> QED BY <1>0, SmallestSet
<1>2. T # {}
  <2> DEFINE h == [s \in SUBSET {} |-> 0]
  <2>1. IsSum(h, f, {})
    BY DEF IsSum
  <2> QED BY <1>1, <2>1
<1>3. PICK y \in T : TRUE
  BY <1>2
<1> DEFINE U == T \ {y}
<1>4. U \notin B /\ U \in SUBSET S /\ y \notin U /\ U \cup {y} = T
  BY <1>1, <1>3
<1>5. PICK h : IsSum(h, f, U)
  BY <1>4
<1> DEFINE g == [x \in T |-> f[x]]
<1>6. g \in [U \cup {y} -> Nat] /\ \A x \in T : g[x] = f[x]
  BY <1>4
<1>7. IsSum(h, g, U)
  BY <1>4, <1>5, <1>6 DEF IsSum
<1> HIDE DEF U, g
<1>8. PICK k : IsSum(k, g, T)
  BY <1>4, <1>6, <1>7, SumOfOneMore
<1>9. IsSum(k, f, T)
  BY <1>6, <1>8 DEF IsSum
<1> QED BY <1>1, <1>9

(* So the recursion has a solution, and each is a sum. *)
LEMMA FoldExists ==
  ASSUME NEW S, IsFiniteSet(S), NEW f \in [S -> Nat]
  PROVE  \E i : Folds(i, f, S)
<1>1. PICK h : IsSum(h, f, S)
  BY SumExists
<1>2. ASSUME NEW s \in SUBSET S
      PROVE  h[s] = IF s = {} THEN 0
                    ELSE f[CHOOSE x \in s : TRUE] + h[s \ {CHOOSE x \in s : TRUE}]
  BY <1>1 DEF IsSum
<1>3. h = [s \in SUBSET S |-> h[s]]
  BY <1>1 DEF IsSum
<1>4. Folds(h, f, S)
  BY <1>2, <1>3 DEF Folds
<1> QED BY <1>4

(* Its solution is the sum, whichever elements it takes first. *)
LEMMA FoldIsSum ==
  ASSUME NEW S, IsFiniteSet(S), NEW f \in [S -> Nat], NEW i, Folds(i, f, S)
  PROVE  IsSum(i, f, S)
<1>1. PICK h : IsSum(h, f, S)
  BY SumExists
<1> DEFINE B == {s \in SUBSET S : i[s] # h[s]}
<1>2. B = {}
  <2> SUFFICES ASSUME B # {} PROVE FALSE
    OBVIOUS
  <2>0. B \subseteq SUBSET S
    OBVIOUS
  <2>1. PICK T \in B : \A U \in B : U \subseteq T => U = T
    <3> HIDE DEF B
    <3> QED BY <2>0, SmallestSet
  <2>2. CASE T = {}
    BY <1>1, <2>1, <2>2 DEF IsSum, Folds
  <2>3. CASE T # {}
    <3> DEFINE x == CHOOSE x \in T : TRUE
    <3>1. x \in T
      BY <2>3
    <3>2. i[T] = f[x] + i[T \ {x}]
      BY <2>1, <2>3 DEF Folds
    <3> HIDE DEF x
    <3>3. i[T \ {x}] = h[T \ {x}]
      BY <2>1, <3>1
    <3>4. h[T] = f[x] + h[T \ {x}]
      BY <1>1, <2>1, <3>1 DEF IsSum
    <3> QED BY <2>1, <3>2, <3>3, <3>4
  <2> QED BY <2>2, <2>3
<1>3. \A s \in SUBSET S : i[s] = h[s]
  BY <1>2
<1>4. i \in [SUBSET S -> Nat]
  <2>1. i = [s \in SUBSET S |-> i[s]]
    BY DEF Folds
  <2> QED BY <1>1, <1>3, <2>1 DEF IsSum
<1> QED BY <1>1, <1>3, <1>4 DEF IsSum

(* A sum is of its terms and of nothing else. *)
LEMMA SumOfSame ==
  ASSUME NEW S, IsFiniteSet(S), NEW f, NEW g, NEW h, NEW k, IsSum(h, f, S), IsSum(k, g, S),
         NEW T \in SUBSET S, \A x \in T : f[x] = g[x]
  PROVE  h[T] = k[T]
<1> DEFINE B == {s \in SUBSET T : h[s] # k[s]}
<1> SUFFICES ASSUME B # {} PROVE FALSE
  OBVIOUS
<1>1. B \subseteq SUBSET T /\ IsFiniteSet(T) /\ B \subseteq SUBSET S
  BY FS_Subset
<1>2. PICK U \in B : \A V \in B : V \subseteq U => V = U
  <2> HIDE DEF B
  <2> QED BY <1>1, SmallestSet
<1>3. U # {}
  BY <1>2 DEF IsSum
<1>4. PICK x \in U : TRUE
  BY <1>3
<1>5. h[U \ {x}] = k[U \ {x}] /\ f[x] = g[x]
  BY <1>2, <1>4
<1>6. h[U] = f[x] + h[U \ {x}] /\ k[U] = g[x] + k[U \ {x}]
  BY <1>1, <1>2, <1>4 DEF IsSum
<1> QED BY <1>2, <1>5, <1>6

(* The sum of nothing but zeros. *)
LEMMA SumOfNothing ==
  ASSUME NEW S, IsFiniteSet(S), NEW f, NEW h, IsSum(h, f, S), \A x \in S : f[x] = 0
  PROVE  h[S] = 0
<1> DEFINE k == [s \in SUBSET S |-> 0]
           g == [x \in S |-> 0]
<1>1. IsSum(k, g, S)
  BY DEF IsSum
<1>2. k[S] = 0 /\ \A x \in S : f[x] = g[x]
  OBVIOUS
<1> HIDE DEF k, g
<1> QED BY <1>1, <1>2, SumOfSame

(* One term more by one, the sum more by one. *)
LEMMA SumGrows ==
  ASSUME NEW S, IsFiniteSet(S), NEW y \in S, NEW f \in [S -> Nat], NEW g \in [S -> Nat],
         g[y] = f[y] + 1, \A x \in S \ {y} : f[x] = g[x],
         NEW h, NEW k, IsSum(h, f, S), IsSum(k, g, S)
  PROVE  k[S] = h[S] + 1
<1>1. h[S \ {y}] = k[S \ {y}]
  BY SumOfSame
<1>2. h[S] = f[y] + h[S \ {y}] /\ k[S] = g[y] + k[S \ {y}] /\ h[S \ {y}] \in Nat /\ f[y] \in Nat
  BY DEF IsSum
<1> QED BY <1>1, <1>2

(* A sum over some elements is the sum over all of them, read at their set. *)
LEMMA SumOfPart ==
  ASSUME NEW S, IsFiniteSet(S), NEW f \in [S -> Nat], NEW h, IsSum(h, f, S),
         NEW T \in SUBSET S, NEW g, NEW k, IsSum(k, g, T), \A x \in T : f[x] = g[x]
  PROVE  k[T] = h[T]
<1> DEFINE j == [s \in SUBSET T |-> h[s]]
<1>1. IsSum(j, f, T)
  BY DEF IsSum
<1>2. IsFiniteSet(T) /\ T \in SUBSET T /\ j[T] = h[T]
  BY FS_Subset
<1> HIDE DEF j
<1>3. j[T] = k[T]
  BY <1>1, <1>2, SumOfSame
<1> QED BY <1>2, <1>3

(* Over more elements the sum is no less. *)
LEMMA SumOfMore ==
  ASSUME NEW S, IsFiniteSet(S), NEW f \in [S -> Nat], NEW h, IsSum(h, f, S),
         NEW T \in SUBSET S, NEW U \in SUBSET T
  PROVE  h[U] <= h[T]
<1> DEFINE B == {s \in SUBSET S : U \subseteq s /\ ~ (h[U] <= h[s])}
<1> SUFFICES ASSUME B # {} PROVE FALSE
  OBVIOUS
<1>1. B \subseteq SUBSET S
  OBVIOUS
<1>2. PICK s \in B : \A V \in B : V \subseteq s => V = s
  <2> HIDE DEF B
  <2> QED BY <1>1, SmallestSet
<1>3. s \in SUBSET S /\ U \subseteq s /\ ~ (h[U] <= h[s]) /\ h[U] \in Nat
  BY DEF IsSum
<1>4. PICK x \in s : x \notin U
  <2>1. s # U
    BY <1>3
  <2> QED BY <1>3, <2>1
<1>5. h[U] <= h[s \ {x}]
  BY <1>2, <1>3, <1>4
<1>6. h[s] = f[x] + h[s \ {x}] /\ f[x] \in Nat /\ h[s \ {x}] \in Nat /\ h[s] \in Nat
  BY <1>3 DEF IsSum
<1> QED BY <1>3, <1>5, <1>6

(* The sum of g over some of the elements it is defined for. *)
Sub(g, T) == SumOf([x \in T |-> g[x]])

(* What SumOf adds up, it adds up in any order. *)
LEMMA SumOfIsSum ==
  ASSUME NEW S, IsFiniteSet(S), NEW g \in [S -> Nat], NEW h, IsSum(h, g, S)
  PROVE  SumOf(g) = h[S]
<1> DEFINE Adds(i) == i = [s \in SUBSET S |->
                             IF s = {} THEN 0
                             ELSE LET x == CHOOSE x \in s : TRUE
                                  IN  g[x] + i[s \ {x}]]
           i == CHOOSE i : Adds(i)
<1>1. SumOf(g) = i[S]
  <2>1. DOMAIN g = S
    OBVIOUS
  <2> QED BY <2>1 DEF SumOf, MapThenSumSet, MapThenFoldSet
<1>2. ASSUME NEW j PROVE Adds(j) <=> Folds(j, g, S)
  BY DEF Folds
<1> HIDE DEF i
<1>3. \E j : Adds(j)
  <2>1. \E j : Folds(j, g, S)
    BY FoldExists
  <2> HIDE DEF Adds
  <2> QED BY <1>2, <2>1
<1>4. Adds(i)
  <2> HIDE DEF Adds
  <2> QED BY <1>3 DEF i
<1>5. IsSum(i, g, S)
  <2>1. Folds(i, g, S)
    BY <1>2, <1>4
  <2> QED BY <2>1, FoldIsSum
<1>6. i[S] = h[S]
  <2>1. S \in SUBSET S /\ \A x \in S : g[x] = g[x]
    OBVIOUS
  <2> QED BY ONLY <1>5, <2>1, SumOfSame, IsFiniteSet(S), IsSum(h, g, S)
<1> QED BY <1>1, <1>6

(* The sums over all parts of a set at once. *)
LEMMA SubIsSum ==
  ASSUME NEW S, IsFiniteSet(S), NEW g \in [S -> Nat], NEW h, IsSum(h, g, S), NEW T \in SUBSET S
  PROVE  Sub(g, T) = h[T] /\ Sub(g, T) \in Nat
<1> DEFINE f == [x \in T |-> g[x]]
<1>1. IsFiniteSet(T)
  BY FS_Subset
<1>2. f \in [T -> Nat]
  OBVIOUS
<1>3. PICK k : IsSum(k, f, T)
  BY <1>1, <1>2, SumExists
<1>4. \A x \in T : g[x] = f[x]
  OBVIOUS
<1> HIDE DEF f
<1>5. k[T] = h[T]
  BY <1>3, <1>4, SumOfPart
<1>6. SumOf(f) = k[T]
  BY ONLY <1>1, <1>2, <1>3, SumOfIsSum
<1>7. h[T] \in Nat
  BY DEF IsSum
<1> QED BY <1>5, <1>6, <1>7 DEF Sub, f

(* A sum of natural numbers is one. *)
LEMMA SumIsNat ==
  ASSUME NEW S, IsFiniteSet(S), NEW g \in [S -> Nat]
  PROVE  SumOf(g) \in Nat
<1>1. PICK h : IsSum(h, g, S)
  BY SumExists
<1>2. SumOf(g) = h[S]
  BY <1>1, SumOfIsSum
<1>3. h[S] \in Nat
  BY <1>1 DEF IsSum
<1> QED BY <1>2, <1>3

(* A finite set of numbers has a largest one. *)
LEMMA MaxOfFinite ==
  ASSUME NEW S, S \subseteq Int, IsFiniteSet(S), S # {}
  PROVE  Max(S) \in S /\ \A x \in S : x <= Max(S)
<1> DEFINE B == {T \in SUBSET S : \E y \in S : T = {x \in S : x > y}}
<1>1. B \subseteq SUBSET S /\ B # {}
  OBVIOUS
<1> HIDE DEF B
<1>2. PICK T \in B : \A U \in B : U \subseteq T => U = T
  <2>1. IsFiniteSet(S)
    OBVIOUS
  <2> QED BY ONLY <1>1, <2>1, SmallestSet
<1> USE DEF B
<1>3. PICK y \in S : T = {x \in S : x > y}
  BY <1>2
<1>4. ASSUME NEW x \in S, x > y PROVE FALSE
  <2>1. {z \in S : z > x} \in B
    OBVIOUS
  <2>3. ASSUME NEW z \in S, z > x PROVE z \in T
    BY <1>3, <1>4, <2>3
  <2>2. x \in T /\ x \notin {z \in S : z > x}
    BY <1>3, <1>4
  <2> QED BY <1>2, <2>1, <2>2, <2>3
<1>5. \A x \in S : y >= x
  BY <1>4
<1>6. \A x \in S : Max(S) >= x
  BY <1>5 DEF Max
<1>7. Max(S) \in S
  BY <1>5 DEF Max
<1> QED BY <1>6, <1>7

(* The same downwards. *)
LEMMA MinOfFinite ==
  ASSUME NEW S, S \subseteq Int, IsFiniteSet(S), S # {}
  PROVE  Min(S) \in S /\ \A x \in S : Min(S) <= x
<1> DEFINE B == {T \in SUBSET S : \E y \in S : T = {x \in S : x < y}}
<1>1. B \subseteq SUBSET S /\ B # {}
  OBVIOUS
<1> HIDE DEF B
<1>2. PICK T \in B : \A U \in B : U \subseteq T => U = T
  <2>1. IsFiniteSet(S)
    OBVIOUS
  <2> QED BY ONLY <1>1, <2>1, SmallestSet
<1> USE DEF B
<1>3. PICK y \in S : T = {x \in S : x < y}
  BY <1>2
<1>4. ASSUME NEW x \in S, x < y PROVE FALSE
  <2>1. {z \in S : z < x} \in B
    OBVIOUS
  <2>3. ASSUME NEW z \in S, z < x PROVE z \in T
    BY <1>3, <1>4, <2>3
  <2>2. x \in T /\ x \notin {z \in S : z < x}
    BY <1>3, <1>4
  <2> QED BY <1>2, <2>1, <2>2, <2>3
<1>5. \A x \in S : y <= x
  BY <1>4
<1>6. \A x \in S : Min(S) <= x
  BY <1>5 DEF Min
<1>7. Min(S) \in S
  BY <1>5 DEF Min
<1> QED BY <1>6, <1>7
=============================================================================
