---------------------------- MODULE SumTheorems ----------------------------
(***************************************************************************)
(* Facts about Total.  A sum of naturals is the number of "coins" in heaps *)
(* of those sizes, so the facts follow from those about the cardinality of *)
(* finite sets.  At the end, what the modules use of products and of       *)
(* rounded quotients.                                                      *)
(***************************************************************************)
EXTENDS Sums, Arithmetic, FiniteSetTheorems, TLAPS

\* f[k] coins for every k in S.
Coins(f, S) == {c \in S \X Nat : 1 <= c[2] /\ c[2] <= f[c[1]]}

Heap(f, k) == {k} \X (1..f[k])

\* A heap has as many coins as its term of the sum says.
LEMMA HeapSize ==
    ASSUME NEW f, NEW k, f[k] \in Nat
    PROVE  IsFiniteSet(Heap(f, k)) /\ Cardinality(Heap(f, k)) = f[k]
<1>1. IsFiniteSet({k}) /\ Cardinality({k}) = 1
  BY FS_Singleton
<1>2. IsFiniteSet(1..f[k]) /\ Cardinality(1..f[k]) = f[k]
  BY FS_Interval
<1>3. /\ IsFiniteSet({k} \X (1..f[k]))
      /\ Cardinality({k} \X (1..f[k])) = Cardinality({k}) * Cardinality(1..f[k])
  BY <1>1, <1>2, FS_Product
<1>4. Cardinality({k}) * Cardinality(1..f[k]) = f[k]
  BY <1>1, <1>2
<1> QED
  BY <1>3, <1>4 DEF Heap

\* Taking one heap away.
LEMMA CoinsSplit ==
    ASSUME NEW f, NEW S, NEW k \in S, \A x \in S : f[x] \in Nat
    PROVE  /\ Coins(f, S) = Coins(f, S \ {k}) \cup Heap(f, k)
           /\ Coins(f, S \ {k}) \cap Heap(f, k) = {}
  BY DEF Coins, Heap

\* The coins of finitely many heaps are finitely many.
LEMMA CoinsFinite ==
    ASSUME NEW f, NEW S, IsFiniteSet(S), \A x \in S : f[x] \in Nat
    PROVE  IsFiniteSet(Coins(f, S))
<1> DEFINE Bad == {T \in SUBSET S : ~ IsFiniteSet(Coins(f, T))}
<1>1. SUFFICES ASSUME Bad # {} PROVE FALSE
  BY DEF Bad
<1>2. IsWellFoundedOn(StrictSubsetOrdering(S), FiniteSubsetsOf(S))
  BY FS_StrictSubsetOrderingWellFounded
<1>3. Bad \subseteq FiniteSubsetsOf(S)
  BY FS_FiniteSubsetsOfFinite
<1> HIDE DEF Bad
<1>4. PICK T \in Bad : \A U \in Bad : ~ (<<U, T>> \in StrictSubsetOrdering(S))
  BY <1>1, <1>2, <1>3, WFMin
<1> USE DEF Bad
<1>5. T # {}
  <2>1. Coins(f, {}) = {}
    BY DEF Coins
  <2> QED
    BY <2>1, FS_EmptySet
<1>6. PICK k \in T : TRUE
  BY <1>5
<1>7. IsFiniteSet(Coins(f, T \ {k}))
  <2>1. <<T \ {k}, T>> \in StrictSubsetOrdering(S)
    BY <1>6 DEF StrictSubsetOrdering
  <2>2. T \ {k} \notin Bad
    BY <1>4, <2>1
  <2> QED
    BY <2>2
<1>8. IsFiniteSet(Heap(f, k))
  BY HeapSize, <1>6
<1>9. Coins(f, T) = Coins(f, T \ {k}) \cup Heap(f, k)
  BY CoinsSplit, <1>6
<1> QED
  BY <1>7, <1>8, <1>9, FS_Union

\* Each heap adds its own coins to the count.
LEMMA CoinsCount ==
    ASSUME NEW f, NEW S, IsFiniteSet(S), \A x \in S : f[x] \in Nat, NEW k \in S
    PROVE  Cardinality(Coins(f, S)) = f[k] + Cardinality(Coins(f, S \ {k}))
<1>1. IsFiniteSet(S \ {k})
  BY FS_RemoveElement
<1>2. IsFiniteSet(Coins(f, S \ {k}))
  BY <1>1, CoinsFinite
<1>3. IsFiniteSet(Heap(f, k)) /\ Cardinality(Heap(f, k)) = f[k]
  BY HeapSize
<1>4. /\ Coins(f, S) = Coins(f, S \ {k}) \cup Heap(f, k)
      /\ Coins(f, S \ {k}) \cap Heap(f, k) = {}
  BY CoinsSplit
<1>5. Cardinality(Coins(f, S \ {k})) \in Nat /\ f[k] \in Nat
  BY <1>2, FS_CardinalityType
<1>6. Cardinality(Coins(f, S \ {k}) \cup Heap(f, k)) =
        Cardinality(Coins(f, S \ {k})) + Cardinality(Heap(f, k))
           - Cardinality(Coins(f, S \ {k}) \cap Heap(f, k))
  BY <1>2, <1>3, FS_Union
<1>7. Cardinality(Coins(f, S \ {k}) \cap Heap(f, k)) = 0
  BY <1>4, FS_EmptySet
<1>8. Cardinality(Coins(f, S)) = Cardinality(Coins(f, S \ {k}) \cup Heap(f, k))
  BY <1>4
<1> QED
  BY <1>3, <1>5, <1>6, <1>7, <1>8

\* The recursion of Total, as a property of a function.
SumsUp(sum, f, D) ==
    sum = [S \in SUBSET D |->
             IF S = {} THEN 0
                       ELSE LET k == CHOOSE k \in S : TRUE IN f[k] + sum[S \ {k}]]

\* The sum that every conservation property of the contracts is stated with
\* is the number of coins.
LEMMA TotalIsCoins ==
    ASSUME NEW f, NEW D, IsFiniteSet(D), \A x \in D : f[x] \in Nat
    PROVE  Total(f, D) = Cardinality(Coins(f, D))
<1> DEFINE count == [S \in SUBSET D |-> Cardinality(Coins(f, S))]
<1> DEFINE sum == CHOOSE s : SumsUp(s, f, D)
<1>1. SumsUp(count, f, D)
  <2> SUFFICES ASSUME NEW S \in SUBSET D
               PROVE  count[S] = IF S = {} THEN 0
                        ELSE LET k == CHOOSE k \in S : TRUE IN f[k] + count[S \ {k}]
    BY DEF SumsUp
  <2>1. CASE S = {}
    <3>1. Coins(f, {}) = {}
      BY DEF Coins
    <3> QED
      BY <2>1, <3>1, FS_EmptySet
  <2>2. CASE S # {}
    <3> DEFINE k == CHOOSE k \in S : TRUE
    <3>1. k \in S
      BY <2>2
    <3>2. IsFiniteSet(S)
      BY FS_Subset
    <3> HIDE DEF k
    <3>3. Cardinality(Coins(f, S)) = f[k] + Cardinality(Coins(f, S \ {k}))
      BY <3>1, <3>2, CoinsCount
    <3>4. S \ {k} \in SUBSET D
      OBVIOUS
    <3> QED
      BY <2>2, <3>3, <3>4 DEF k
  <2> QED
    BY <2>1, <2>2
<1>2. SumsUp(sum, f, D)
  BY <1>1
<1>3. Total(f, D) = sum[D]
  BY DEF Total, SumsUp
<1> HIDE DEF sum
<1>4. \A S \in SUBSET D : sum[S] = count[S]
  <2> DEFINE Bad == {S \in SUBSET D : sum[S] # count[S]}
  <2>1. SUFFICES ASSUME Bad # {} PROVE FALSE
    BY DEF Bad
  <2>2. IsWellFoundedOn(StrictSubsetOrdering(D), FiniteSubsetsOf(D))
    BY FS_StrictSubsetOrderingWellFounded
  <2>3. Bad \subseteq FiniteSubsetsOf(D)
    BY FS_FiniteSubsetsOfFinite
  <2> HIDE DEF Bad, count
  <2>4. PICK T \in Bad : \A U \in Bad : ~ (<<U, T>> \in StrictSubsetOrdering(D))
    BY <2>1, <2>2, <2>3, WFMin
  <2>5. T \in SUBSET D
    BY DEF Bad
  <2>6. T # {}
    BY <1>1, <1>2, <2>5 DEF Bad, SumsUp
  <2> DEFINE k == CHOOSE k \in T : TRUE
  <2>7. k \in T
    BY <2>6
  <2>8. /\ sum[T] = f[k] + sum[T \ {k}]
        /\ count[T] = f[k] + count[T \ {k}]
    BY <1>1, <1>2, <2>5, <2>6 DEF SumsUp
  <2>9. sum[T \ {k}] = count[T \ {k}]
    <3> HIDE DEF k
    <3>1. <<T \ {k}, T>> \in StrictSubsetOrdering(D)
      BY <2>5, <2>7 DEF StrictSubsetOrdering
    <3>2. T \ {k} \notin Bad
      BY <2>4, <3>1
    <3> QED
      BY <2>5, <3>2 DEF Bad
  <2> QED
    BY <2>8, <2>9 DEF Bad
<1> QED
  BY <1>3, <1>4

-----------------------------------------------------------------------------

\* A sum of naturals is a natural.
LEMMA TotalNat ==
    ASSUME NEW f, NEW D, IsFiniteSet(D), \A x \in D : f[x] \in Nat
    PROVE  Total(f, D) \in Nat
  BY TotalIsCoins, CoinsFinite, FS_CardinalityType

\* The empty sum is zero.
LEMMA TotalEmpty ==
    ASSUME NEW f
    PROVE  Total(f, {}) = 0
<1>1. Coins(f, {}) = {}
  BY DEF Coins
<1>2. Total(f, {}) = Cardinality(Coins(f, {}))
  BY TotalIsCoins, FS_EmptySet
<1> QED
  BY <1>1, <1>2, FS_EmptySet

\* A sum of zeros is zero.
LEMMA TotalZero ==
    ASSUME NEW D, IsFiniteSet(D)
    PROVE  Total([x \in D |-> 0], D) = 0
<1>1. Coins([x \in D |-> 0], D) = {}
  BY DEF Coins
<1>2. Total([x \in D |-> 0], D) = Cardinality(Coins([x \in D |-> 0], D))
  BY TotalIsCoins
<1> QED
  BY <1>1, <1>2, FS_EmptySet

\* A sum depends on the values in its domain only.
LEMMA TotalSame ==
    ASSUME NEW f, NEW g, NEW D, IsFiniteSet(D),
           \A x \in D : f[x] \in Nat, \A x \in D : g[x] = f[x]
    PROVE  Total(g, D) = Total(f, D)
<1>1. Coins(g, D) = Coins(f, D)
  BY DEF Coins
<1>2. Total(g, D) = Cardinality(Coins(g, D))
  BY TotalIsCoins
<1>3. Total(f, D) = Cardinality(Coins(f, D))
  BY TotalIsCoins
<1> QED
  BY <1>1, <1>2, <1>3

\* Any one term can be taken out.
LEMMA TotalSplit ==
    ASSUME NEW f, NEW D, IsFiniteSet(D), \A x \in D : f[x] \in Nat, NEW k \in D
    PROVE  Total(f, D) = f[k] + Total(f, D \ {k})
<1>1. IsFiniteSet(D \ {k})
  BY FS_RemoveElement
<1>2. Total(f, D \ {k}) = Cardinality(Coins(f, D \ {k}))
  BY <1>1, TotalIsCoins
<1>3. Total(f, D) = Cardinality(Coins(f, D))
  BY TotalIsCoins
<1>4. Cardinality(Coins(f, D)) = f[k] + Cardinality(Coins(f, D \ {k}))
  BY CoinsCount
<1> QED
  BY <1>2, <1>3, <1>4

\* No term exceeds the sum.
LEMMA TotalAtLeast ==
    ASSUME NEW f, NEW D, IsFiniteSet(D), \A x \in D : f[x] \in Nat, NEW k \in D
    PROVE  f[k] <= Total(f, D)
<1>1. IsFiniteSet(D \ {k})
  BY FS_RemoveElement
<1>2. Total(f, D \ {k}) \in Nat
  BY <1>1, TotalNat
<1> QED
  BY <1>2, TotalSplit

\* Changing one term changes the sum by as much.
LEMMA TotalUpdate ==
    ASSUME NEW f, NEW g, NEW D, IsFiniteSet(D), NEW k \in D,
           \A x \in D : f[x] \in Nat, \A x \in D : g[x] \in Nat,
           \A x \in D \ {k} : g[x] = f[x]
    PROVE  Total(g, D) = Total(f, D) - f[k] + g[k]
<1>1. IsFiniteSet(D \ {k})
  BY FS_RemoveElement
<1>2. Total(f, D \ {k}) \in Nat
  BY <1>1, TotalNat
<1>3. Total(g, D \ {k}) = Total(f, D \ {k})
  BY <1>1, TotalSame
<1>4. Total(f, D) = f[k] + Total(f, D \ {k})
  BY TotalSplit
<1>5. Total(g, D) = g[k] + Total(g, D \ {k})
  BY TotalSplit
<1> QED
  BY <1>2, <1>3, <1>4, <1>5

\* The sum of a pointwise sum.
LEMMA TotalPlus ==
    ASSUME NEW f, NEW g, NEW h, NEW D, IsFiniteSet(D),
           \A x \in D : f[x] \in Nat, \A x \in D : g[x] \in Nat,
           \A x \in D : h[x] = f[x] + g[x]
    PROVE  Total(h, D) = Total(f, D) + Total(g, D)
<1> DEFINE Bad == {S \in SUBSET D : Total(h, S) # Total(f, S) + Total(g, S)}
<1>1. SUFFICES ASSUME Bad # {} PROVE FALSE
  BY DEF Bad
<1>2. IsWellFoundedOn(StrictSubsetOrdering(D), FiniteSubsetsOf(D))
  BY FS_StrictSubsetOrderingWellFounded
<1>3. Bad \subseteq FiniteSubsetsOf(D)
  BY FS_FiniteSubsetsOfFinite
<1> HIDE DEF Bad
<1>4. PICK T \in Bad : \A U \in Bad : ~ (<<U, T>> \in StrictSubsetOrdering(D))
  BY <1>1, <1>2, <1>3, WFMin
<1>5. T \in SUBSET D /\ IsFiniteSet(T)
  BY FS_Subset DEF Bad
<1>6. T # {}
  BY TotalEmpty DEF Bad
<1>7. PICK k \in T : TRUE
  BY <1>6
<1>8. T \ {k} \notin Bad
  <2>1. <<T \ {k}, T>> \in StrictSubsetOrdering(D)
    BY <1>5, <1>7 DEF StrictSubsetOrdering
  <2> QED
    BY <1>4, <2>1
<1>9. Total(h, T \ {k}) = Total(f, T \ {k}) + Total(g, T \ {k})
  BY <1>5, <1>8 DEF Bad
<1>10. /\ \A x \in T : f[x] \in Nat /\ g[x] \in Nat /\ h[x] \in Nat
       /\ h[k] = f[k] + g[k]
  BY <1>5, <1>7
<1>11. Total(f, T) = f[k] + Total(f, T \ {k})
  BY <1>5, <1>7, <1>10, TotalSplit
<1>12. Total(g, T) = g[k] + Total(g, T \ {k})
  BY <1>5, <1>7, <1>10, TotalSplit
<1>13. Total(h, T) = h[k] + Total(h, T \ {k})
  BY <1>5, <1>7, <1>10, TotalSplit
<1>14. Total(f, T \ {k}) \in Nat /\ Total(g, T \ {k}) \in Nat
  <2>1. IsFiniteSet(T \ {k})
    BY <1>5, FS_RemoveElement
  <2> QED
    BY <1>10, <2>1, TotalNat
<1>15. Total(h, T) = Total(f, T) + Total(g, T)
  BY <1>7, <1>9, <1>10, <1>11, <1>12, <1>13, <1>14
<1> QED
  BY <1>15 DEF Bad

\* A sum grows with its terms.
LEMMA TotalMono ==
    ASSUME NEW f, NEW g, NEW D, IsFiniteSet(D),
           \A x \in D : f[x] \in Nat, \A x \in D : g[x] \in Nat,
           \A x \in D : f[x] <= g[x]
    PROVE  Total(f, D) <= Total(g, D)
<1> DEFINE h == [x \in D |-> g[x] - f[x]]
<1>1. \A x \in D : h[x] \in Nat /\ g[x] = f[x] + h[x]
  OBVIOUS
<1> HIDE DEF h
<1>2. \A x \in D : h[x] \in Nat
  BY <1>1
<1>3. \A x \in D : g[x] = f[x] + h[x]
  BY <1>1
<1>4. Total(g, D) = Total(f, D) + Total(h, D)
  BY <1>2, <1>3, TotalPlus
<1>5. Total(f, D) \in Nat /\ Total(h, D) \in Nat
  BY <1>2, TotalNat
<1> QED
  BY <1>4, <1>5

-----------------------------------------------------------------------------
(* Products and rounded quotients.                                         *)

\* Multiplying both sides keeps an inequality.
LEMMA Scale ==
    ASSUME NEW a \in Nat, NEW b \in Nat, NEW c \in Nat, a <= b
    PROVE  a * c \in Nat /\ b * c \in Nat /\ a * c <= b * c
  OBVIOUS

\* A positive factor cancels.
LEMMA Cancel ==
    ASSUME NEW a \in Nat, NEW b \in Nat, NEW c \in Nat \ {0}, a * c <= b * c
    PROVE  a <= b
<1>1. SUFFICES ASSUME b + 1 <= a PROVE FALSE
  OBVIOUS
<1>2. (b + 1) * c <= a * c
  BY <1>1
<1>3. (b + 1) * c = b * c + c
  OBVIOUS
<1> QED
  BY <1>2, <1>3

\* Factors may be reordered.
LEMMA Reorder ==
    ASSUME NEW a \in Nat, NEW b \in Nat, NEW c \in Nat
    PROVE  a * b \in Nat /\ (a * b) * c = (a * c) * b /\ (a * b) * c = a * (c * b)
  OBVIOUS

\* The floor of a quotient is the largest number that fits.
LEMMA Floor ==
    ASSUME NEW x \in Nat, NEW c \in Nat \ {0}
    PROVE  /\ x \div c \in Nat /\ (x \div c) * c <= x
           /\ \A y \in Nat : y * c <= x => y <= x \div c
<1>1. x \div c \in Nat /\ (x \div c) * c <= x /\ x < (x \div c) * c + c
  OBVIOUS
<1>2. ASSUME NEW y \in Nat, y * c <= x PROVE y <= x \div c
  <2> DEFINE q == x \div c
  <2>1. q \in Nat /\ x < q * c + c
    BY <1>1
  <2> HIDE DEF q
  <2>2. SUFFICES ASSUME q + 1 <= y PROVE FALSE
    BY <2>1 DEF q
  <2>3. (q + 1) * c <= y * c
    BY <2>1, <2>2, Scale
  <2>4. (q + 1) * c = q * c + c
    BY <2>1
  <2> QED
    BY <1>2, <2>1, <2>3, <2>4
<1> QED
  BY <1>1, <1>2

\* The floor of a quotient of naturals is a natural.
LEMMA MulDivNat ==
    ASSUME NEW a \in Nat, NEW b \in Nat, NEW c \in Nat \ {0}
    PROVE  MulDiv(a, b, c) \in Nat
<1>1. a * b \in Nat
  OBVIOUS
<1> QED
  BY <1>1 DEF MulDiv

\* A fraction of an amount is a natural number not above the amount.
LEMMA MulDivBound ==
    ASSUME NEW a \in Nat, NEW c \in Nat \ {0}, NEW b \in 0..c
    PROVE  MulDiv(a, b, c) \in 0..a
<1>1. a * b \in Nat /\ a * b <= a * c
  OBVIOUS
<1>2. (a * b) \div c \in Nat
  BY <1>1
<1>3. (a * b) \div c <= a
  BY <1>1
<1> QED
  BY <1>2, <1>3 DEF MulDiv

\* The scale of the rates.
LEMMA BpsNat == BPS \in Nat \ {0} /\ 5000 <= BPS /\ 1000 <= BPS
  BY DEF BPS

=============================================================================
