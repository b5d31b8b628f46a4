--------------------------- MODULE BookHeapProofs ---------------------------
(***************************************************************************)
(* The array heaps of OrderbookMarketplaceV2 answer with the best of what  *)
(* is in them, for any orders, prices and sequence of insertions and       *)
(* removals.                                                               *)
(*                                                                         *)
(* A loop of the contract is After: turns, each a function of the book and *)
(* the position it has come to.  LoopKeeps and LoopEnds say what such a    *)
(* loop does, and the rest is about one turn.  While an order moves, the   *)
(* array is a heap but at the order's own position, and the orders below   *)
(* that position are in order with the one above it (OrderedBut).          *)
(***************************************************************************)
EXTENDS BookHeap, SequenceTheorems, WellFoundedInduction, TLAPS

-----------------------------------------------------------------------------
(* Loops.                                                                  *)

\* The way of NatInduction, with a set for what is to hold.
LEMMA Induction ==
    ASSUME NEW T, 0 \in T, \A n \in Nat : n \in T => n + 1 \in T
    PROVE  Nat \subseteq T
<1> DEFINE Bad == Nat \ T
<1>1. SUFFICES ASSUME Bad # {} PROVE FALSE
  OBVIOUS
<1>2. PICK m \in Bad : \A k \in Bad : ~ (<<k, m>> \in OpToRel(<, Nat))
  <2>1. Bad \subseteq Nat
    OBVIOUS
  <2> HIDE DEF Bad
  <2> QED
    BY <1>1, <2>1, NatLessThanWellFounded, WFMin
<1>3. m \in Nat /\ m # 0 /\ m - 1 \in Nat /\ (m - 1) + 1 = m
  OBVIOUS
<1>4. <<m - 1, m>> \in OpToRel(<, Nat)
  BY <1>3 DEF OpToRel
<1>5. m - 1 \notin Bad
  BY <1>2, <1>4
<1> QED
  BY <1>3, <1>5

\* A run of n turns from x.
Run(g, turn, x, n) == g[0] = x /\ \A k \in 1..n : g[k] = turn[g[k - 1]]

\* There is a run of any number of turns.
LEMMA RunExists ==
    ASSUME NEW turn, NEW x
    PROVE  \A n \in Nat : \E g : Run(g, turn, x, n)
<1> DEFINE T == {n \in Nat : \E g : Run(g, turn, x, n)}
<1>1. 0 \in T
  <2>1. Run([k \in {0} |-> x], turn, x, 0)
    BY DEF Run
  <2> QED
    BY <2>1
<1>2. ASSUME NEW n \in Nat, n \in T PROVE n + 1 \in T
  <2>1. PICK g : Run(g, turn, x, n)
    BY <1>2
  <2> DEFINE h == [k \in 0..(n + 1) |-> IF k = n + 1 THEN turn[g[n]] ELSE g[k]]
  <2>2. h[0] = x
    BY <2>1 DEF Run
  <2>3. ASSUME NEW k \in 1..(n + 1) PROVE h[k] = turn[h[k - 1]]
    <3>1. CASE k = n + 1
      BY <3>1
    <3>2. CASE k # n + 1
      <4>1. k \in 1..n /\ k - 1 \in 0..(n + 1) /\ k - 1 # n + 1
        BY <3>2
      <4> QED
        BY <2>1, <3>2, <4>1 DEF Run
    <3> QED
      BY <3>1, <3>2
  <2> HIDE DEF h
  <2>4. Run(h, turn, x, n + 1)
    BY <2>2, <2>3 DEF Run
  <2> QED
    BY <2>4
<1> QED
  BY <1>1, <1>2, Induction

\* Two runs from the same start agree as far as both go.
LEMMA RunsAgree ==
    ASSUME NEW turn, NEW x, NEW n \in Nat, NEW m \in Nat, NEW g, NEW h,
           Run(g, turn, x, n), Run(h, turn, x, m)
    PROVE  \A k \in Nat : k <= n /\ k <= m => g[k] = h[k]
<1> DEFINE T == {k \in Nat : k <= n /\ k <= m => g[k] = h[k]}
<1>1. 0 \in T
  BY DEF Run
<1>2. ASSUME NEW k \in Nat, k \in T PROVE k + 1 \in T
  <2> SUFFICES ASSUME k + 1 <= n, k + 1 <= m PROVE g[k + 1] = h[k + 1]
    OBVIOUS
  <2>1. k + 1 \in 1..n /\ k + 1 \in 1..m /\ (k + 1) - 1 = k
    OBVIOUS
  <2>2. g[k] = h[k]
    BY <1>2
  <2> QED
    BY <2>1, <2>2 DEF Run
<1> QED
  BY <1>1, <1>2, Induction

\* What After is: the equation of its recursive function has a solution.
LEMMA AfterTurns ==
    ASSUME NEW turn, NEW x
    PROVE  /\ After(turn, x, 0) = x
           /\ \A n \in Nat : After(turn, x, n + 1) = turn[After(turn, x, n)]
<1> DEFINE g(n) == CHOOSE g : Run(g, turn, x, n)
           f    == [n \in Nat |-> g(n)[n]]
           at   == CHOOSE at : at = [k \in Nat |-> IF k = 0 THEN x ELSE turn[at[k - 1]]]
<1>1. \A n \in Nat : Run(g(n), turn, x, n)
  BY RunExists
<1> HIDE DEF g
<1>2. f[0] = x
  BY <1>1 DEF Run
<1>3. ASSUME NEW k \in Nat, k # 0 PROVE f[k] = turn[f[k - 1]]
  <2>1. k - 1 \in Nat /\ k \in 1..k
    BY <1>3
  <2>2. g(k)[k] = turn[g(k)[k - 1]]
    BY <1>1, <2>1 DEF Run
  <2>3. g(k)[k - 1] = g(k - 1)[k - 1]
    BY <1>1, <2>1, RunsAgree
  <2> QED
    BY <2>1, <2>2, <2>3
<1>4. f = [k \in Nat |-> IF k = 0 THEN x ELSE turn[f[k - 1]]]
  BY <1>2, <1>3
<1> HIDE DEF f
<1>5. at = [k \in Nat |-> IF k = 0 THEN x ELSE turn[at[k - 1]]]
  BY <1>4
<1>6. \A n : After(turn, x, n) = at[n]
  BY DEF After
<1> HIDE DEF at
<1>7. at[0] = x
  BY <1>5
<1>8. ASSUME NEW n \in Nat PROVE at[n + 1] = turn[at[n]]
  <2>1. n + 1 \in Nat /\ n + 1 # 0 /\ (n + 1) - 1 = n
    OBVIOUS
  <2>2. at[n + 1] = IF n + 1 = 0 THEN x ELSE turn[at[(n + 1) - 1]]
    BY <1>5, <2>1
  <2> QED
    BY <2>1, <2>2
<1> QED
  BY <1>6, <1>7, <1>8

\* A set the turns do not leave is an invariant of the loop.
LEMMA LoopKeeps ==
    ASSUME NEW turn, NEW S, NEW x \in S, \A y \in S : turn[y] \in S
    PROVE  \A n \in Nat : After(turn, x, n) \in S
<1> DEFINE T == {n \in Nat : After(turn, x, n) \in S}
<1>1. 0 \in T
  BY AfterTurns
<1>2. ASSUME NEW n \in Nat, n \in T PROVE n + 1 \in T
  <2>1. After(turn, x, n) \in S
    BY <1>2
  <2>2. After(turn, x, n + 1) = turn[After(turn, x, n)]
    BY AfterTurns
  <2> QED
    BY <2>1, <2>2
<1> QED
  BY <1>1, <1>2, Induction

\* A loop with a rank that every turn but the idle one lowers has come to
\* its end when it has had as many turns as the rank it began with.
LEMMA LoopEnds ==
    ASSUME NEW turn, NEW S, NEW x \in S, \A y \in S : turn[y] \in S,
           NEW rank \in [S -> Nat],
           \A y \in S : turn[y] = y \/ rank[turn[y]] < rank[y]
    PROVE  \A n \in Nat : rank[x] <= n =>
              turn[After(turn, x, n)] = After(turn, x, n)
<1> DEFINE A(n) == After(turn, x, n)
           Idle(n) == turn[A(n)] = A(n)
           T == {n \in Nat : Idle(n) \/ rank[A(n)] + n <= rank[x]}
<1>1. \A n \in Nat : A(n) \in S /\ A(n + 1) = turn[A(n)]
  BY LoopKeeps, AfterTurns
<1>2. A(0) = x
  BY AfterTurns
<1> HIDE DEF A
<1>3. 0 \in T
  BY <1>2
<1>4. ASSUME NEW n \in Nat, n \in T PROVE n + 1 \in T
  <2>1. CASE Idle(n)
    BY <1>1, <2>1
  <2>2. CASE ~ Idle(n)
    <3>1. rank[A(n)] + n <= rank[x]
      BY <1>4, <2>2
    <3>2. rank[A(n + 1)] < rank[A(n)]
      BY <1>1, <2>2
    <3>3. rank[A(n)] \in Nat /\ rank[A(n + 1)] \in Nat /\ rank[x] \in Nat
      BY <1>1
    <3> QED
      BY <3>1, <3>2, <3>3
  <2> QED
    BY <2>1, <2>2
<1> HIDE DEF T
<1>5. Nat \subseteq T
  BY <1>3, <1>4, Induction
<1>6. ASSUME NEW n \in Nat, rank[x] <= n PROVE Idle(n)
  <2>1. SUFFICES ASSUME ~ Idle(n) PROVE FALSE
    OBVIOUS
  <2>2. rank[A(n)] + n <= rank[x]
    BY <1>5, <2>1 DEF T
  <2>3. rank[A(n)] = 0 /\ n = rank[x]
    BY <1>1, <1>6, <2>2
  <2>4. rank[A(n + 1)] < 0 /\ rank[A(n + 1)] \in Nat
    BY <1>1, <2>1, <2>3
  <2> QED
    BY <2>4
<1> QED
  BY <1>6 DEF A

-----------------------------------------------------------------------------
(* The order of orders.                                                    *)

\* The side of the book and the prices of its orders.
PricesFixed == side \in Sides /\ price \in [OrderIds -> UnitPrices]

\* Price, then age, is a total order of the orders of a side.
LEMMA BetterOrder ==
    ASSUME PricesFixed, NEW a \in OrderIds, NEW c \in OrderIds
    PROVE  /\ ~ Better(a, a)
           /\ Better(a, c) => ~ Better(c, a)
           /\ a # c => Better(a, c) \/ Better(c, a)
<1>1. /\ a \in Nat /\ c \in Nat /\ price[a] \in Nat /\ price[c] \in Nat
  BY HeapAssumption DEF PricesFixed
<1> QED
  BY <1>1 DEF Better

\* To be no better is transitive.
LEMMA NoBetter ==
    ASSUME PricesFixed, NEW a \in OrderIds, NEW c \in OrderIds, NEW d \in OrderIds,
           ~ Better(a, c), ~ Better(c, d)
    PROVE  ~ Better(a, d)
<1>1. /\ a \in Nat /\ c \in Nat /\ d \in Nat
      /\ price[a] \in Nat /\ price[c] \in Nat /\ price[d] \in Nat
  BY HeapAssumption DEF PricesFixed
<1> QED
  BY <1>1 DEF Better

-----------------------------------------------------------------------------
(* Arrays and positions.                                                   *)

\* The ids in a book.
InBook(b) == {id \in OrderIds : b.offsets[id] # 0}

\* Array and positions are inverse to each other.
Placed(b) ==
    /\ b \in Books
    /\ \A p \in 1..Len(b.heap) : b.offsets[b.heap[p]] = p
    /\ \A id \in OrderIds :
          b.offsets[id] # 0 => /\ b.offsets[id] \in 1..Len(b.heap)
                               /\ b.heap[b.offsets[id]] = id

\* What positions are good for: no order is in the array twice.
LEMMA PlacedType ==
    ASSUME NEW b, Placed(b)
    PROVE  /\ b.heap \in Seq(OrderIds) /\ Len(b.heap) \in Nat
           /\ b.offsets \in [OrderIds -> Nat]
           /\ \A p \in 1..Len(b.heap) : b.heap[p] \in OrderIds /\ b.heap[p] # 0
           /\ \A p \in 1..Len(b.heap), q \in 1..Len(b.heap) :
                 b.heap[p] = b.heap[q] => p = q
<1>1. b.heap \in Seq(OrderIds) /\ b.offsets \in [OrderIds -> Nat]
  BY DEF Placed, Books
<1>2. Len(b.heap) \in Nat /\ \A p \in 1..Len(b.heap) : b.heap[p] \in OrderIds
  BY <1>1, LenProperties, ElementOfSeq
<1> QED
  BY <1>1, <1>2, HeapAssumption DEF Placed

\* _swap exchanges two entries and keeps the positions right.
LEMMA SwapPlaced ==
    ASSUME NEW b, Placed(b), NEW i \in 1..Len(b.heap), NEW j \in 1..Len(b.heap), i # j
    PROVE  LET c == Swap(b, i, j) IN
           /\ Placed(c) /\ Len(c.heap) = Len(b.heap)
           /\ c.heap[i] = b.heap[j] /\ c.heap[j] = b.heap[i]
           /\ \A p \in 1..Len(b.heap) \ {i, j} : c.heap[p] = b.heap[p]
           /\ InBook(c) = InBook(b)
<1> DEFINE c == Swap(b, i, j)
           n == Len(b.heap)
           x == b.heap[i]
           y == b.heap[j]
           h == [b.heap EXCEPT ![i] = y]
<1>1. /\ b.heap \in Seq(OrderIds) /\ n \in Nat /\ b.offsets \in [OrderIds -> Nat]
      /\ x \in OrderIds /\ y \in OrderIds /\ x # y
  BY PlacedType
<1>2. /\ c.heap = [h EXCEPT ![j] = x]
      /\ c.offsets = [b.offsets EXCEPT ![x] = j, ![y] = i]
  BY DEF Swap
<1>3. h \in Seq(OrderIds) /\ Len(h) = n /\ \A p \in 1..n : h[p] = IF p = i THEN y ELSE b.heap[p]
  BY <1>1, ExceptSeq
<1> HIDE DEF c, h
<1>4. /\ c.heap \in Seq(OrderIds) /\ Len(c.heap) = n
      /\ \A p \in 1..n : c.heap[p] = IF p = j THEN x ELSE h[p]
  BY <1>1, <1>2, <1>3, ExceptSeq
<1>5. /\ c.offsets \in [OrderIds -> Nat]
      /\ c.offsets[x] = j /\ c.offsets[y] = i
      /\ \A id \in OrderIds \ {x, y} : c.offsets[id] = b.offsets[id]
  <2>1. i \in Nat /\ j \in Nat
    BY <1>1
  <2> HIDE DEF x, y, n
  <2> QED
    BY <1>1, <1>2, <2>1
<1>6. c.heap[i] = y /\ c.heap[j] = x /\ \A p \in 1..n \ {i, j} : c.heap[p] = b.heap[p]
  BY <1>3, <1>4
<1>7. c \in Books
  <2>1. c = [heap |-> c.heap, offsets |-> c.offsets]
    BY DEF c, Swap
  <2> QED
    BY <2>1, <1>4, <1>5 DEF Books
<1>8. \A p \in 1..n : c.offsets[c.heap[p]] = p
  <2> SUFFICES ASSUME NEW p \in 1..n PROVE c.offsets[c.heap[p]] = p
    OBVIOUS
  <2>1. CASE p \in {i, j}
    BY <1>5, <1>6, <2>1
  <2>2. CASE p \notin {i, j}
    <3>1. c.heap[p] = b.heap[p] /\ b.heap[p] \in OrderIds /\ b.heap[p] # x /\ b.heap[p] # y
      BY <1>6, <2>2, PlacedType
    <3> QED
      BY <1>5, <3>1 DEF Placed
  <2> QED
    BY <2>1, <2>2
<1>9. \A id \in OrderIds : c.offsets[id] # 0 => c.offsets[id] \in 1..n /\ c.heap[c.offsets[id]] = id
  <2> SUFFICES ASSUME NEW id \in OrderIds, c.offsets[id] # 0
               PROVE  c.offsets[id] \in 1..n /\ c.heap[c.offsets[id]] = id
    OBVIOUS
  <2>1. CASE id \in {x, y}
    BY <1>5, <1>6, <2>1
  <2>2. CASE id \notin {x, y}
    <3>1. c.offsets[id] = b.offsets[id]
      BY <1>5, <2>2
    <3>2. b.offsets[id] \in 1..n /\ b.heap[b.offsets[id]] = id
      BY <3>1 DEF Placed
    <3> QED
      BY <1>6, <2>2, <3>1, <3>2
  <2> QED
    BY <2>1, <2>2
<1>10. \A id \in OrderIds : c.offsets[id] # 0 <=> b.offsets[id] # 0
  <2> SUFFICES ASSUME NEW id \in OrderIds PROVE c.offsets[id] # 0 <=> b.offsets[id] # 0
    OBVIOUS
  <2>1. b.offsets[x] = i /\ b.offsets[y] = j
    BY DEF Placed
  <2> QED
    BY <1>5, <2>1
<1>11. Placed(c)
  BY <1>4, <1>7, <1>8, <1>9 DEF Placed
<1>12. InBook(c) = InBook(b)
  BY <1>10 DEF InBook
<1> QED
  BY <1>4, <1>6, <1>11, <1>12 DEF c

\* Appending an order that is in no book.
LEMMA AppendPlaced ==
    ASSUME NEW b, Placed(b), NEW id \in OrderIds, b.offsets[id] = 0
    PROVE  LET n == Len(b.heap) + 1
               c == [heap |-> Append(b.heap, id), offsets |-> [b.offsets EXCEPT ![id] = n]]
           IN  /\ Placed(c) /\ Len(c.heap) = n
               /\ \A p \in 1..Len(b.heap) : c.heap[p] = b.heap[p]
               /\ InBook(c) = InBook(b) \cup {id}
<1> DEFINE m == Len(b.heap)
           n == m + 1
           c == [heap |-> Append(b.heap, id), offsets |-> [b.offsets EXCEPT ![id] = n]]
<1>1. b.heap \in Seq(OrderIds) /\ m \in Nat /\ b.offsets \in [OrderIds -> Nat]
  BY PlacedType
<1>2. /\ c.heap \in Seq(OrderIds) /\ Len(c.heap) = n /\ c.heap[n] = id
      /\ \A p \in 1..m : c.heap[p] = b.heap[p]
  BY <1>1, AppendProperties
<1>3. /\ c.offsets \in [OrderIds -> Nat] /\ c.offsets[id] = n
      /\ \A d \in OrderIds \ {id} : c.offsets[d] = b.offsets[d]
  BY <1>1
<1>4. c = [heap |-> c.heap, offsets |-> c.offsets]
  OBVIOUS
<1> HIDE DEF c
<1>5. c \in Books
  BY <1>2, <1>3, <1>4 DEF Books
<1>6. \A p \in 1..n : c.offsets[c.heap[p]] = p
  <2> SUFFICES ASSUME NEW p \in 1..n PROVE c.offsets[c.heap[p]] = p
    OBVIOUS
  <2>1. CASE p = n
    BY <1>2, <1>3, <2>1
  <2>2. CASE p # n
    <3>1. p \in 1..m
      BY <1>1, <2>2
    <3>2. b.heap[p] \in OrderIds /\ b.offsets[b.heap[p]] = p /\ b.heap[p] # id
      BY <1>1, <3>1, PlacedType DEF Placed
    <3> QED
      BY <1>2, <1>3, <3>1, <3>2
  <2> QED
    BY <2>1, <2>2
<1>7. \A d \in OrderIds : c.offsets[d] # 0 => c.offsets[d] \in 1..n /\ c.heap[c.offsets[d]] = d
  <2> SUFFICES ASSUME NEW d \in OrderIds, c.offsets[d] # 0
               PROVE  c.offsets[d] \in 1..n /\ c.heap[c.offsets[d]] = d
    OBVIOUS
  <2>1. CASE d = id
    BY <1>1, <1>2, <1>3, <2>1
  <2>2. CASE d # id
    <3> DEFINE p == b.offsets[d]
    <3>1. c.offsets[d] = p /\ p \in 1..m /\ b.heap[p] = d
      BY <1>3, <2>2 DEF Placed
    <3> HIDE DEF p, m
    <3>2. p \in 1..(m + 1)
      BY <1>1, <3>1
    <3> QED
      BY <1>2, <3>1, <3>2
  <2> QED
    BY <2>1, <2>2
<1>8. Placed(c)
  BY <1>2, <1>5, <1>6, <1>7 DEF Placed
<1>9. InBook(c) = InBook(b) \cup {id}
  <2>1. \A d \in OrderIds : c.offsets[d] # 0 <=> (b.offsets[d] # 0 \/ d = id)
    <3>1. n # 0
      BY <1>1
    <3> HIDE DEF n
    <3> QED
      BY <1>3, <3>1
  <2> QED
    BY <2>1 DEF InBook
<1> QED
  BY <1>2, <1>8, <1>9 DEF c

\* Dropping the last entry.
LEMMA PopPlaced ==
    ASSUME NEW b, Placed(b), NEW id \in OrderIds, b.offsets[id] = Len(b.heap), Len(b.heap) # 0
    PROVE  LET n == Len(b.heap)
               c == [heap |-> SubSeq(b.heap, 1, n - 1), offsets |-> [b.offsets EXCEPT ![id] = 0]]
           IN  /\ Placed(c) /\ Len(c.heap) = n - 1
               /\ \A p \in 1..(n - 1) : c.heap[p] = b.heap[p]
               /\ InBook(c) = InBook(b) \ {id}
<1> DEFINE n == Len(b.heap)
           m == n - 1
           c == [heap |-> SubSeq(b.heap, 1, n - 1), offsets |-> [b.offsets EXCEPT ![id] = 0]]
<1>1. /\ b.heap \in Seq(OrderIds) /\ n \in Nat /\ m \in Nat
      /\ b.offsets \in [OrderIds -> Nat] /\ b.heap[n] = id
      /\ \A p \in 1..m : b.heap[p] \in OrderIds
  BY PlacedType DEF Placed
<1>2. /\ c.heap \in Seq(OrderIds) /\ Len(c.heap) = m
      /\ \A p \in 1..m : c.heap[p] = b.heap[p]
  <2> DEFINE s == SubSeq(b.heap, 1, m)
  <2>1. /\ s \in Seq(OrderIds)
        /\ Len(s) = IF 1 <= m THEN m - 1 + 1 ELSE 0
        /\ \A p \in 1..(m - 1 + 1) : s[p] = b.heap[1 + p - 1]
    BY <1>1, SubSeqProperties
  <2>2. c.heap = s
    OBVIOUS
  <2> HIDE DEF s, c
  <2>3. Len(s) = m /\ m - 1 + 1 = m /\ \A p \in 1..m : 1 + p - 1 = p
    BY <1>1, <2>1
  <2> QED
    BY <2>1, <2>2, <2>3
<1>3. /\ c.offsets \in [OrderIds -> Nat] /\ c.offsets[id] = 0
      /\ \A d \in OrderIds \ {id} : c.offsets[d] = b.offsets[d]
  BY <1>1
<1>4. c = [heap |-> c.heap, offsets |-> c.offsets]
  OBVIOUS
<1> HIDE DEF c
<1>5. c \in Books
  BY <1>2, <1>3, <1>4 DEF Books
<1>6. \A p \in 1..m : c.offsets[c.heap[p]] = p
  <2> SUFFICES ASSUME NEW p \in 1..m PROVE c.offsets[c.heap[p]] = p
    OBVIOUS
  <2>1. p \in 1..n /\ p # n
    BY <1>1
  <2>2. b.heap[p] \in OrderIds /\ b.offsets[b.heap[p]] = p /\ b.heap[p] # id
    BY <1>1, <2>1, PlacedType DEF Placed
  <2> QED
    BY <1>2, <1>3, <2>2
<1>7. \A d \in OrderIds : c.offsets[d] # 0 => c.offsets[d] \in 1..m /\ c.heap[c.offsets[d]] = d
  <2> SUFFICES ASSUME NEW d \in OrderIds, c.offsets[d] # 0
               PROVE  c.offsets[d] \in 1..m /\ c.heap[c.offsets[d]] = d
    OBVIOUS
  <2>1. d # id
    BY <1>3
  <2> DEFINE p == b.offsets[d]
  <2>2. c.offsets[d] = p /\ p \in 1..n /\ b.heap[p] = d
    BY <1>3, <2>1 DEF Placed
  <2>3. p # n
    BY <1>1, <2>1, <2>2
  <2> HIDE DEF p
  <2>4. p \in 1..m
    BY <1>1, <2>2, <2>3
  <2> QED
    BY <1>2, <2>2, <2>4
<1>8. Placed(c)
  BY <1>2, <1>5, <1>6, <1>7 DEF Placed
<1>9. InBook(c) = InBook(b) \ {id}
  <2>1. \A d \in OrderIds : c.offsets[d] # 0 <=> (b.offsets[d] # 0 /\ d # id)
    BY <1>1, <1>3
  <2> QED
    BY <2>1 DEF InBook
<1> QED
  BY <1>2, <1>8, <1>9 DEF c

-----------------------------------------------------------------------------
(* The order of a heap.                                                    *)

\* The order at p is not better than the one at q.
Under(b, p, q) == ~ Better(b.heap[p], b.heap[q])

\* Nobody is better than his parent.
Ordered(b) == \A p \in 2..Len(b.heap) : Under(b, p, p \div 2)

\* The same but for what stands at i: its children are not better than its
\* parent.
OrderedBut(b, i) ==
    \A p \in 2..Len(b.heap) :
        /\ p # i /\ p \div 2 # i => Under(b, p, p \div 2)
        /\ p \div 2 = i /\ i # 1 => Under(b, p, i \div 2)

\* Book b is a heap except that the order at i may belong above its parent, or
\* below its children.
MayRise(b, i) ==
    OrderedBut(b, i) /\ \A p \in 2..Len(b.heap) : p \div 2 = i => Under(b, p, i)

MaySink(b, i) == OrderedBut(b, i) /\ (i # 1 => Under(b, i, i \div 2))

\* A loop that has come to position i of a book of n orders L.
LoopAt(b, i, n, L) == Placed(b) /\ Len(b.heap) = n /\ i \in 1..n /\ InBook(b) = L

\* Positions: the parent is nearer to the root.
LEMMA Parent ==
    ASSUME NEW p \in Nat, p >= 2
    PROVE  p \div 2 \in Nat /\ 1 <= p \div 2 /\ p \div 2 < p
  OBVIOUS

\* A position has two children at most.
LEMMA Children ==
    ASSUME NEW p \in Nat, NEW i \in Nat, p \div 2 = i
    PROVE  p = 2 * i \/ p = 2 * i + 1
  OBVIOUS

\* Their parent is the position.
LEMMA ChildOf ==
    ASSUME NEW i \in Nat
    PROVE  (2 * i) \div 2 = i /\ (2 * i + 1) \div 2 = i
  OBVIOUS

\* A turn towards the root.
LEMMA RiseKeeps ==
    ASSUME PricesFixed, NEW n \in Nat, NEW L, NEW b, NEW i, LoopAt(b, i, n, L),
           MayRise(b, i), Rises(b, i)
    PROVE  /\ LoopAt(Swap(b, i, i \div 2), i \div 2, n, L)
           /\ MayRise(Swap(b, i, i \div 2), i \div 2)
           /\ i \div 2 < i
<1> DEFINE q == i \div 2
           c == Swap(b, i, q)
<1>1. Placed(b) /\ Len(b.heap) = n /\ i \in 1..n /\ InBook(b) = L
  BY DEF LoopAt
<1>2. i \in Nat /\ i >= 2 /\ Better(b.heap[i], b.heap[q])
  BY <1>1 DEF Rises
<1>3. q \in 1..n /\ q < i
  BY <1>1, <1>2, Parent
<1>4. \A p \in 1..n : b.heap[p] \in OrderIds
  BY <1>1, PlacedType
<1> HIDE DEF c
<1>5. /\ Placed(c) /\ Len(c.heap) = n /\ InBook(c) = L
      /\ c.heap[i] = b.heap[q] /\ c.heap[q] = b.heap[i]
      /\ \A p \in 1..n \ {i, q} : c.heap[p] = b.heap[p]
  BY <1>1, <1>3, SwapPlaced DEF c
<1>6. \A p \in 2..n : p \in 1..n /\ p \div 2 \in 1..n /\ p \div 2 < p
  BY Parent
<1>7. \A p \in 2..n : /\ p # i /\ p \div 2 # i => ~ Better(b.heap[p], b.heap[p \div 2])
                      /\ p \div 2 = i => ~ Better(b.heap[p], b.heap[q])
                      /\ p \div 2 = i => ~ Better(b.heap[p], b.heap[i])
  BY <1>1, <1>2 DEF MayRise, OrderedBut, Under
<1>8. ~ Better(b.heap[q], b.heap[i])
  BY <1>1, <1>2, <1>3, <1>4, BetterOrder
<1>9. i \div 2 = q
  OBVIOUS
<1> HIDE DEF q
<1>10. ASSUME NEW p \in 2..n, p # q, p \div 2 # q PROVE Under(c, p, p \div 2)
  <2>1. p # i
    BY <1>9, <1>10
  <2>2. c.heap[p] = b.heap[p]
    BY <1>5, <1>6, <1>10, <2>1
  <2>3. CASE p \div 2 = i
    <3>1. c.heap[p \div 2] = b.heap[q] /\ ~ Better(b.heap[p], b.heap[q])
      BY <1>5, <1>7, <2>3
    <3> QED
      BY <2>2, <3>1 DEF Under
  <2>4. CASE p \div 2 # i
    <3>1. c.heap[p \div 2] = b.heap[p \div 2]
      BY <1>5, <1>6, <1>10, <2>4
    <3> QED
      BY <1>7, <2>1, <2>2, <2>4, <3>1 DEF Under
  <2> QED
    BY <2>3, <2>4
<1>11. ASSUME NEW p \in 2..n, p \div 2 = q, q # 1 PROVE Under(c, p, q \div 2)
  <2>1. q \in 2..n /\ q \div 2 \in 1..n /\ q \div 2 < q
    BY <1>3, <1>6, <1>11
  <2>2. ~ Better(b.heap[q], b.heap[q \div 2])
    BY <1>3, <1>7, <2>1
  <2>3. c.heap[q \div 2] = b.heap[q \div 2]
    BY <1>3, <1>5, <2>1
  <2>4. CASE p = i
    BY <1>5, <2>2, <2>3, <2>4 DEF Under
  <2>5. CASE p # i
    <3>1. c.heap[p] = b.heap[p] /\ ~ Better(b.heap[p], b.heap[q])
      BY <1>3, <1>5, <1>6, <1>7, <1>11, <2>5
    <3>2. ~ Better(b.heap[p], b.heap[q \div 2])
      BY <1>3, <1>4, <1>6, <2>1, <2>2, <3>1, NoBetter
    <3> QED
      BY <2>3, <3>1, <3>2 DEF Under
  <2> QED
    BY <2>4, <2>5
<1>12. ASSUME NEW p \in 2..n, p \div 2 = q PROVE Under(c, p, q)
  <2>1. CASE p = i
    BY <1>5, <1>8, <2>1 DEF Under
  <2>2. CASE p # i
    <3>1. c.heap[p] = b.heap[p] /\ ~ Better(b.heap[p], b.heap[q])
      BY <1>3, <1>5, <1>6, <1>7, <1>12, <2>2
    <3>2. ~ Better(b.heap[p], b.heap[i])
      BY <1>1, <1>3, <1>4, <1>6, <1>8, <3>1, NoBetter
    <3> QED
      BY <1>5, <3>1, <3>2 DEF Under
  <2> QED
    BY <2>1, <2>2
<1>13. MayRise(c, q)
  BY <1>5, <1>10, <1>11, <1>12 DEF MayRise, OrderedBut
<1> QED
  BY <1>3, <1>5, <1>9, <1>13 DEF LoopAt, c

\* A turn towards the leaves.
LEMMA SinkKeeps ==
    ASSUME PricesFixed, NEW n \in Nat, NEW L, NEW b, NEW i, LoopAt(b, i, n, L),
           MaySink(b, i), Sinks(b, i)
    PROVE  LET j == BetterChild(b, i) IN
           LoopAt(Swap(b, i, j), j, n, L) /\ MaySink(Swap(b, i, j), j) /\ i < j
<1> DEFINE j == BetterChild(b, i)
           c == Swap(b, i, j)
<1>1. Placed(b) /\ Len(b.heap) = n /\ i \in 1..n /\ InBook(b) = L
  BY DEF LoopAt
<1>2. \A p \in 1..n : b.heap[p] \in OrderIds
  BY <1>1, PlacedType
<1>3. i \in Nat /\ 2 * i <= n /\ Better(b.heap[j], b.heap[i])
  BY <1>1 DEF Sinks
<1>4. /\ j = 2 * i \/ j = 2 * i + 1
      /\ j \in 1..n /\ i < j
  BY <1>1, <1>3 DEF BetterChild
<1>5. j \div 2 = i
  BY <1>3, <1>4, ChildOf
<1>6. \A p \in 2..n : p \div 2 = i => ~ Better(b.heap[p], b.heap[j])
  <2> SUFFICES ASSUME NEW p \in 2..n, p \div 2 = i PROVE ~ Better(b.heap[p], b.heap[j])
    OBVIOUS
  <2>1. p = 2 * i \/ p = 2 * i + 1
    BY <1>3, Children
  <2>2. b.heap[p] \in OrderIds /\ b.heap[j] \in OrderIds
    BY <1>2, <1>4
  <2>3. CASE p = j
    BY <2>2, <2>3, BetterOrder
  <2>4. CASE p = 2 * i + 1 /\ j = 2 * i
    BY <1>1, <2>4 DEF BetterChild
  <2>5. CASE p = 2 * i /\ j = 2 * i + 1
    <3>1. Better(b.heap[j], b.heap[p])
      BY <1>1, <1>3, <2>5 DEF BetterChild
    <3> QED
      BY <2>2, <3>1, BetterOrder
  <2> QED
    BY <1>4, <2>1, <2>3, <2>4, <2>5
<1> HIDE DEF c, j
<1>7. /\ Placed(c) /\ Len(c.heap) = n /\ InBook(c) = L
      /\ c.heap[i] = b.heap[j] /\ c.heap[j] = b.heap[i]
      /\ \A p \in 1..n \ {i, j} : c.heap[p] = b.heap[p]
  BY <1>1, <1>3, <1>4, SwapPlaced DEF c
<1>8. \A p \in 2..n : p \in 1..n /\ p \div 2 \in 1..n /\ p \div 2 < p
  BY Parent
<1>9. /\ \A p \in 2..n : /\ p # i /\ p \div 2 # i => ~ Better(b.heap[p], b.heap[p \div 2])
                         /\ p \div 2 = i /\ i # 1 => ~ Better(b.heap[p], b.heap[i \div 2])
      /\ i # 1 => ~ Better(b.heap[i], b.heap[i \div 2])
  BY <1>1 DEF MaySink, OrderedBut, Under
<1>10. j \in 2..n
  BY <1>1, <1>3, <1>4
<1>11. ASSUME NEW p \in 2..n, p # j, p \div 2 # j PROVE Under(c, p, p \div 2)
  <2>1. CASE p = i
    <3>1. i # 1 /\ p \div 2 < i /\ p \div 2 \in 1..n
      BY <1>8, <2>1
    <3>2. c.heap[p \div 2] = b.heap[p \div 2]
      <4> DEFINE q == p \div 2
      <4>1. q \in 1..n /\ q # i /\ q # j
        BY <1>3, <1>4, <3>1
      <4> HIDE DEF q
      <4>2. c.heap[q] = b.heap[q]
        BY <1>7, <4>1
      <4> QED
        BY <4>2 DEF q
    <3>3. ~ Better(b.heap[j], b.heap[i \div 2])
      BY <1>5, <1>9, <1>10, <3>1
    <3> QED
      BY <1>7, <2>1, <3>2, <3>3 DEF Under
  <2>2. CASE p \div 2 = i
    <3>1. p # i
      BY <1>8, <2>2
    <3>2. c.heap[p] = b.heap[p] /\ c.heap[p \div 2] = b.heap[j]
      BY <1>7, <1>8, <1>11, <2>2, <3>1
    <3> QED
      BY <1>6, <2>2, <3>2 DEF Under
  <2>3. CASE p # i /\ p \div 2 # i
    <3>1. c.heap[p] = b.heap[p] /\ c.heap[p \div 2] = b.heap[p \div 2]
      BY <1>7, <1>8, <1>11, <2>3
    <3> QED
      BY <1>9, <2>3, <3>1 DEF Under
  <2> QED
    BY <2>1, <2>2, <2>3
<1>12. ASSUME NEW p \in 2..n, p \div 2 = j PROVE Under(c, p, j \div 2)
  <2>1. p # j /\ p # i /\ p \div 2 # i
    BY <1>4, <1>8, <1>12
  <2>2. c.heap[p] = b.heap[p] /\ c.heap[j \div 2] = b.heap[j]
    BY <1>5, <1>7, <1>8, <2>1
  <2> QED
    BY <1>9, <1>12, <2>1, <2>2 DEF Under
<1>13. Under(c, j, j \div 2)
  <2>1. ~ Better(b.heap[i], b.heap[j])
    BY <1>1, <1>2, <1>3, <1>4, BetterOrder DEF j
  <2> QED
    BY <1>5, <1>7, <2>1 DEF Under
<1>14. MaySink(c, j)
  BY <1>7, <1>11, <1>12, <1>13 DEF MaySink, OrderedBut
<1> QED
  BY <1>4, <1>7, <1>14 DEF LoopAt, c, j

-----------------------------------------------------------------------------
(* The loops.                                                              *)

\* The states the two loops go through.
Rising(n, L)  == {y \in Books \X Nat : LoopAt(y[1], y[2], n, L) /\ MayRise(y[1], y[2])}
Sinking(n, L) == {y \in Books \X Nat : LoopAt(y[1], y[2], n, L) /\ MaySink(y[1], y[2])}

\* The loop towards the root ends, and leaves a heap of the same orders.
LEMMA SiftUpOrders ==
    ASSUME PricesFixed, NEW n \in Nat, NEW L, NEW b, NEW i, LoopAt(b, i, n, L), MayRise(b, i)
    PROVE  LET c == SiftUp(b, i) IN
           Placed(c) /\ Ordered(c) /\ Len(c.heap) = n /\ InBook(c) = L
<1> DEFINE S    == Rising(n, L)
           rank == [y \in S |-> y[2]]
           x    == <<b, i>>
           z    == After(UpTurn, x, n)
<1>1. ASSUME NEW y \in S
      PROVE  /\ y = <<y[1], y[2]>> /\ y[1] \in Books /\ y[2] \in 1..n
             /\ LoopAt(y[1], y[2], n, L) /\ MayRise(y[1], y[2])
             /\ UpTurn[y] = IF Rises(y[1], y[2])
                              THEN <<Swap(y[1], y[2], y[2] \div 2), y[2] \div 2>> ELSE y
  BY DEF Rising, LoopAt, UpTurn
<1>2. ASSUME NEW y \in S, Rises(y[1], y[2])
      PROVE  UpTurn[y] \in S /\ UpTurn[y] # y /\ UpTurn[y][2] < y[2]
  <2> DEFINE c == Swap(y[1], y[2], y[2] \div 2)
             j == y[2] \div 2
  <2>1. LoopAt(c, j, n, L) /\ MayRise(c, j) /\ j < y[2]
    BY <1>1, <1>2, RiseKeeps
  <2>2. UpTurn[y] = <<c, j>>
    BY <1>1, <1>2
  <2> HIDE DEF c, j
  <2>3. c \in Books /\ j \in Nat
    BY <2>1 DEF LoopAt, Placed
  <2>4. y[2] \in Nat
    BY DEF Rising
  <2> QED
    BY <1>1, <2>1, <2>2, <2>3, <2>4 DEF Rising
<1>3. ASSUME NEW y \in S, ~ Rises(y[1], y[2]) PROVE UpTurn[y] = y
  BY <1>1, <1>3
<1>4. \A y \in S : UpTurn[y] \in S
  BY <1>2, <1>3
<1>5. x \in S /\ i \in 1..n /\ \A y \in S : y[2] \in Nat
  BY DEF Rising, LoopAt, Placed
<1> HIDE DEF S
<1>6. rank \in [S -> Nat] /\ rank[x] = i
  BY <1>5
<1>7. \A y \in S : UpTurn[y] = y \/ rank[UpTurn[y]] < rank[y]
  BY <1>2, <1>3, <1>4
<1> HIDE DEF x, rank, z
<1>8. z \in S
  BY <1>4, <1>5, LoopKeeps DEF z
<1>9. UpTurn[z] = z
  <2>1. rank[x] <= n
    BY <1>5, <1>6
  <2> QED
    BY <1>4, <1>5, <1>6, <1>7, <2>1, LoopEnds DEF z
<1>10. ~ Rises(z[1], z[2])
  BY <1>2, <1>8, <1>9
<1>11. SiftUp(b, i) = z[1]
  BY DEF SiftUp, z, x, LoopAt
<1> DEFINE c == z[1]
           k == z[2]
<1>12. /\ Placed(c) /\ Len(c.heap) = n /\ InBook(c) = L /\ k \in 1..n
       /\ MayRise(c, k) /\ ~ Rises(c, k)
  BY <1>1, <1>8, <1>10 DEF LoopAt
<1> HIDE DEF c, k
<1>13. \A p \in 2..n : Under(c, p, p \div 2)
  <2> SUFFICES ASSUME NEW p \in 2..n PROVE Under(c, p, p \div 2)
    OBVIOUS
  <2>1. CASE p = k
    BY <1>12, <2>1 DEF Rises, Under
  <2>2. CASE p \div 2 = k
    BY <1>12, <2>2 DEF MayRise
  <2>3. CASE p # k /\ p \div 2 # k
    BY <1>12, <2>3 DEF MayRise, OrderedBut
  <2> QED
    BY <2>1, <2>2, <2>3
<1> QED
  BY <1>11, <1>12, <1>13 DEF Ordered, c

\* So does the loop towards the leaves.
LEMMA SiftDownOrders ==
    ASSUME PricesFixed, NEW n \in Nat, NEW L, NEW b, NEW i, LoopAt(b, i, n, L), MaySink(b, i)
    PROVE  LET c == SiftDown(b, i) IN
           Placed(c) /\ Ordered(c) /\ Len(c.heap) = n /\ InBook(c) = L
<1> DEFINE S    == Sinking(n, L)
           rank == [y \in S |-> n - y[2]]
           x    == <<b, i>>
           z    == After(DownTurn, x, n)
<1>1. ASSUME NEW y \in S
      PROVE  /\ y = <<y[1], y[2]>> /\ y[1] \in Books /\ y[2] \in 1..n
             /\ LoopAt(y[1], y[2], n, L) /\ MaySink(y[1], y[2])
             /\ DownTurn[y] =
                  LET j == BetterChild(y[1], y[2]) IN
                  IF Sinks(y[1], y[2]) THEN <<Swap(y[1], y[2], j), j>> ELSE y
  BY DEF Sinking, LoopAt, DownTurn
<1>2. ASSUME NEW y \in S, Sinks(y[1], y[2])
      PROVE  DownTurn[y] \in S /\ DownTurn[y] # y /\ y[2] < DownTurn[y][2]
  <2> DEFINE j == BetterChild(y[1], y[2])
             c == Swap(y[1], y[2], j)
  <2>1. LoopAt(c, j, n, L) /\ MaySink(c, j) /\ y[2] < j
    BY <1>1, <1>2, SinkKeeps
  <2>2. DownTurn[y] = <<c, j>>
    BY <1>1, <1>2
  <2> HIDE DEF c, j
  <2>3. c \in Books /\ j \in Nat
    BY <2>1 DEF LoopAt, Placed
  <2>4. y[2] \in Nat
    BY DEF Sinking
  <2> QED
    BY <1>1, <2>1, <2>2, <2>3, <2>4 DEF Sinking
<1>3. ASSUME NEW y \in S, ~ Sinks(y[1], y[2]) PROVE DownTurn[y] = y
  BY <1>1, <1>3
<1>4. \A y \in S : DownTurn[y] \in S
  BY <1>2, <1>3
<1>5. x \in S /\ i \in 1..n
  BY DEF Sinking, LoopAt, Placed
<1>6. \A y \in S : y[2] \in 1..n
  BY <1>1
<1> HIDE DEF S
<1>7. rank \in [S -> Nat] /\ rank[x] = n - i
  BY <1>5, <1>6
<1>8. \A y \in S : DownTurn[y] = y \/ rank[DownTurn[y]] < rank[y]
  <2> SUFFICES ASSUME NEW y \in S, DownTurn[y] # y PROVE rank[DownTurn[y]] < rank[y]
    OBVIOUS
  <2>1. DownTurn[y] \in S /\ y[2] < DownTurn[y][2]
    BY <1>2, <1>3
  <2>2. y[2] \in 1..n /\ DownTurn[y][2] \in 1..n
    BY <1>6, <2>1
  <2> QED
    BY <2>1, <2>2
<1> HIDE DEF x, rank, z
<1>9. z \in S
  BY <1>4, <1>5, LoopKeeps DEF z
<1>10. DownTurn[z] = z
  <2>1. rank[x] <= n
    BY <1>5, <1>7
  <2> QED
    BY <1>4, <1>5, <1>7, <1>8, <2>1, LoopEnds DEF z
<1>11. ~ Sinks(z[1], z[2])
  BY <1>2, <1>9, <1>10
<1>12. SiftDown(b, i) = z[1]
  BY DEF SiftDown, z, x, LoopAt
<1> DEFINE c == z[1]
           k == z[2]
<1>13. /\ Placed(c) /\ Len(c.heap) = n /\ InBook(c) = L /\ k \in 1..n
       /\ MaySink(c, k) /\ ~ Sinks(c, k)
  BY <1>1, <1>9, <1>11 DEF LoopAt
<1> HIDE DEF c, k
<1>14. \A p \in 1..n : c.heap[p] \in OrderIds
  BY <1>13, PlacedType
<1>15. \A p \in 2..n : Under(c, p, p \div 2)
  <2> SUFFICES ASSUME NEW p \in 2..n PROVE Under(c, p, p \div 2)
    OBVIOUS
  <2>1. CASE p = k
    BY <1>13, <2>1 DEF MaySink
  <2>2. CASE p \div 2 = k
    <3> DEFINE j == BetterChild(c, k)
    <3>1. p = 2 * k \/ p = 2 * k + 1
      BY <2>2, Children
    <3>2. 2 * k <= n /\ ~ Better(c.heap[j], c.heap[k])
      BY <1>13, <3>1 DEF Sinks
    <3>3. CASE p = j
      BY <2>2, <3>2, <3>3 DEF Under
    <3>4. CASE p # j
      <4>1. /\ j \in 1..n /\ ~ Better(c.heap[p], c.heap[j])
        <5>1. CASE p = 2 * k + 1
          BY <1>13, <3>2, <3>4, <5>1 DEF BetterChild
        <5>2. CASE p = 2 * k
          <6>1. j = 2 * k + 1 /\ j \in 1..n /\ Better(c.heap[j], c.heap[p])
            BY <1>13, <3>4, <5>2 DEF BetterChild
          <6> QED
            BY <1>14, <6>1, BetterOrder
        <5> QED
          BY <3>1, <5>1, <5>2
      <4>2. ~ Better(c.heap[p], c.heap[k])
        <5>1. c.heap[p] \in OrderIds /\ c.heap[j] \in OrderIds /\ c.heap[k] \in OrderIds
          BY <1>13, <1>14, <4>1
        <5> QED
          BY <3>2, <4>1, <5>1, NoBetter
      <4> QED
        BY <2>2, <4>2 DEF Under
    <3> QED
      BY <3>3, <3>4
  <2>3. CASE p # k /\ p \div 2 # k
    BY <1>13, <2>3 DEF MaySink, OrderedBut
  <2> QED
    BY <2>1, <2>2, <2>3
<1> QED
  BY <1>12, <1>13, <1>15 DEF Ordered, c

-----------------------------------------------------------------------------
(* Inserting and removing.                                                 *)

\* A book in order, whose ids are L.
BookOf(b, L) == Placed(b) /\ Ordered(b) /\ InBook(b) = L

\* _insertInto adds the order.
LEMMA InsertKeeps ==
    ASSUME PricesFixed, NEW b, NEW L, BookOf(b, L), NEW id \in OrderIds, b.offsets[id] = 0
    PROVE  BookOf(InsertInto(b, id), L \cup {id})
<1> DEFINE m == Len(b.heap)
           n == m + 1
           c == [heap |-> Append(b.heap, id), offsets |-> [b.offsets EXCEPT ![id] = n]]
<1>1. Placed(b) /\ InBook(b) = L /\ m \in Nat
  BY PlacedType DEF BookOf
<1>2. InsertInto(b, id) = SiftUp(c, n)
  BY DEF InsertInto
<1>3. /\ Placed(c) /\ Len(c.heap) = n /\ InBook(c) = L \cup {id}
      /\ \A p \in 1..m : c.heap[p] = b.heap[p]
  BY <1>1, AppendPlaced
<1>4. \A p \in 2..m : ~ Better(b.heap[p], b.heap[p \div 2])
  BY DEF BookOf, Ordered, Under
<1> HIDE DEF c, m
<1>5. \A p \in 2..n : p \div 2 # n /\ p \div 2 \in 1..n /\ (p # n => p \in 2..m /\ p \div 2 \in 1..m)
  BY <1>1, Parent
<1>6. MayRise(c, n)
  <2>1. \A p \in 2..n : p # n => Under(c, p, p \div 2)
    <3> SUFFICES ASSUME NEW p \in 2..n, p # n PROVE Under(c, p, p \div 2)
      OBVIOUS
    <3>1. p \in 2..m /\ p \in 1..m /\ p \div 2 \in 1..m
      BY <1>5
    <3>2. c.heap[p] = b.heap[p] /\ c.heap[p \div 2] = b.heap[p \div 2]
      BY <1>3, <3>1
    <3> QED
      BY <1>4, <3>1, <3>2 DEF Under
  <2> QED
    BY <1>3, <1>5, <2>1 DEF MayRise, OrderedBut
<1>7. LoopAt(c, n, n, L \cup {id}) /\ n \in Nat
  BY <1>1, <1>3 DEF LoopAt
<1> HIDE DEF n
<1> QED
  BY <1>2, <1>6, <1>7, SiftUpOrders DEF BookOf

\* _removeFrom takes the order out, wherever in the array it is.
LEMMA RemoveKeeps ==
    ASSUME PricesFixed, NEW b, NEW L, BookOf(b, L), NEW id \in OrderIds
    PROVE  BookOf(RemoveFrom(b, id), L \ {id})
<1> DEFINE n == Len(b.heap)
           m == n - 1
           i == b.offsets[id]
           s == IF i = n THEN b ELSE Swap(b, i, n)
           r == WithoutId(b, id)
<1>1. Placed(b) /\ InBook(b) = L /\ n \in Nat /\ i \in Nat
  BY PlacedType DEF BookOf
<1>2. CASE i = 0
  <2>1. id \notin L
    BY <1>1, <1>2 DEF InBook
  <2>2. RemoveFrom(b, id) = b /\ L \ {id} = L
    BY <1>2, <2>1 DEF RemoveFrom
  <2> QED
    BY <2>2
<1>3. CASE i # 0
  <2>1. i \in 1..n /\ b.heap[i] = id /\ n # 0 /\ m \in Nat
    BY <1>1, <1>3 DEF Placed
  <2>2. /\ Placed(s) /\ Len(s.heap) = n /\ InBook(s) = L /\ s.offsets[id] = n
        /\ \A p \in 1..n \ {i, n} : s.heap[p] = b.heap[p]
    <3>1. CASE i = n
      BY <1>1, <3>1
    <3>2. CASE i # n
      <4>1. /\ Placed(s) /\ Len(s.heap) = n /\ InBook(s) = L
            /\ s.heap[n] = id
            /\ \A p \in 1..n \ {i, n} : s.heap[p] = b.heap[p]
        BY <1>1, <2>1, <3>2, SwapPlaced
      <4>2. s.offsets[s.heap[n]] = n
        BY <2>1, <4>1 DEF Placed
      <4> QED
        BY <4>1, <4>2
    <3> QED
      BY <3>1, <3>2
  <2>3. r = [heap    |-> SubSeq(s.heap, 1, Len(s.heap) - 1),
             offsets |-> [s.offsets EXCEPT ![id] = 0]]
    BY <2>2 DEF WithoutId
  <2> HIDE DEF s, r
  <2>4. /\ Placed(r) /\ Len(r.heap) = m /\ InBook(r) = L \ {id}
        /\ \A p \in 1..m : r.heap[p] = s.heap[p]
    <3>1. Placed(s) /\ s.offsets[id] = Len(s.heap) /\ Len(s.heap) # 0
      BY <2>1, <2>2
    <3> DEFINE t == [heap    |-> SubSeq(s.heap, 1, Len(s.heap) - 1),
                     offsets |-> [s.offsets EXCEPT ![id] = 0]]
    <3>2. /\ Placed(t) /\ Len(t.heap) = Len(s.heap) - 1 /\ InBook(t) = InBook(s) \ {id}
          /\ \A p \in 1..(Len(s.heap) - 1) : t.heap[p] = s.heap[p]
      BY <3>1, PopPlaced
    <3>3. r = t
      BY <2>3
    <3> HIDE DEF t
    <3> QED
      BY <2>2, <3>2, <3>3
  <2>5. \A p \in 1..m : p # i => r.heap[p] = b.heap[p]
    BY <2>1, <2>2, <2>4
  <2>6. \A p \in 2..n : ~ Better(b.heap[p], b.heap[p \div 2])
    BY DEF BookOf, Ordered, Under
  <2>7. \A p \in 1..n : b.heap[p] \in OrderIds
    BY <1>1, PlacedType
  <2>8. \A p \in 1..m : r.heap[p] \in OrderIds
    BY <2>4, PlacedType
  <2> HIDE DEF n, i
  <2>9. \A p \in 2..m : p \in 1..m /\ p \in 2..n /\ p \in 1..n /\ p \div 2 \in 1..m /\ p \div 2 < p
    BY <1>1, <2>1, Parent
  <2>10. \A p \in 2..m : p # i /\ p \div 2 # i => Under(r, p, p \div 2)
    BY <2>5, <2>6, <2>9 DEF Under
  <2>11. CASE i > m
    <3>1. RemoveFrom(b, id) = r
      BY <1>3, <2>4, <2>11 DEF RemoveFrom, i, r
    <3>2. \A p \in 2..m : p # i /\ p \div 2 # i
      BY <1>1, <2>1, <2>9, <2>11
    <3> QED
      BY <2>4, <2>10, <3>1, <3>2 DEF BookOf, Ordered
  <2>12. CASE i <= m
    <3>1. i \in 1..m
      BY <1>1, <2>1, <2>12
    <3>2. LoopAt(r, i, m, L \ {id})
      BY <2>4, <3>1 DEF LoopAt
    <3>3. \A p \in 2..m : p \div 2 = i /\ i # 1 => Under(r, p, i \div 2)
      <4> SUFFICES ASSUME NEW p \in 2..m, p \div 2 = i, i # 1 PROVE Under(r, p, i \div 2)
        OBVIOUS
      <4>1. i \in 2..m /\ i \div 2 \in 1..m /\ i \div 2 # i /\ p # i /\ p # i \div 2
        BY <2>9, <3>1
      <4>2. ~ Better(b.heap[p], b.heap[i]) /\ ~ Better(b.heap[i], b.heap[i \div 2])
        BY <2>6, <2>9, <4>1
      <4>3. b.heap[p] \in OrderIds /\ b.heap[i] \in OrderIds /\ b.heap[i \div 2] \in OrderIds
        <5>1. \A q \in 1..m : q \in 1..n
          BY <1>1
        <5> QED
          BY <2>7, <2>9, <4>1, <5>1
      <4>4. ~ Better(b.heap[p], b.heap[i \div 2])
        BY <4>2, <4>3, NoBetter
      <4> QED
        BY <2>5, <2>9, <4>1, <4>4 DEF Under
    <3>4. OrderedBut(r, i)
      BY <2>4, <2>10, <3>3 DEF OrderedBut
    <3>5. CASE Rises(r, i)
      <4>1. RemoveFrom(b, id) = SiftUp(r, i)
        BY <1>3, <2>1, <2>4, <2>12, <3>5 DEF RemoveFrom, i, r
      <4>2. \A p \in 2..m : p \div 2 = i => Under(r, p, i)
        <5> SUFFICES ASSUME NEW p \in 2..m, p \div 2 = i PROVE Under(r, p, i)
          OBVIOUS
        <5>1. i \in 2..m /\ i \div 2 \in 1..m /\ Better(r.heap[i], r.heap[i \div 2])
          BY <2>9, <3>1, <3>5 DEF Rises
        <5>2. ~ Better(r.heap[p], r.heap[i \div 2])
          BY <3>3, <5>1 DEF Under
        <5>3. r.heap[p] \in OrderIds /\ r.heap[i] \in OrderIds /\ r.heap[i \div 2] \in OrderIds
          BY <2>8, <2>9, <3>1, <5>1
        <5>4. ~ Better(r.heap[i \div 2], r.heap[i])
          BY <5>1, <5>3, BetterOrder
        <5> QED
          BY <5>2, <5>3, <5>4, NoBetter DEF Under
      <4>3. MayRise(r, i)
        BY <2>4, <3>4, <4>2 DEF MayRise
      <4> QED
        BY <2>1, <3>2, <4>1, <4>3, SiftUpOrders DEF BookOf
    <3>6. CASE ~ Rises(r, i)
      <4>1. RemoveFrom(b, id) = SiftDown(r, i)
        BY <1>3, <2>1, <2>4, <2>12, <3>6 DEF RemoveFrom, i, r
      <4>2. MaySink(r, i)
        BY <3>4, <3>6 DEF MaySink, Rises, Under
      <4> QED
        BY <2>1, <3>2, <4>1, <4>2, SiftDownOrders DEF BookOf
    <3> QED
      BY <3>5, <3>6
  <2> QED
    BY <1>1, <2>1, <2>11, <2>12
<1> QED
  BY <1>2, <1>3

-----------------------------------------------------------------------------
(* The head of a book.                                                     *)

\* Nobody in a heap is better than its root.
LEMMA RootIsBest ==
    ASSUME PricesFixed, NEW b, Placed(b), Ordered(b)
    PROVE  \A p \in 1..Len(b.heap) : p # 1 => Better(b.heap[1], b.heap[p])
<1> DEFINE n == Len(b.heap)
           T == {k \in Nat : \A p \in 1..n : p <= k => ~ Better(b.heap[p], b.heap[1])}
<1>1. n \in Nat /\ \A p \in 1..n : b.heap[p] \in OrderIds
  BY PlacedType
<1> HIDE DEF n
<1>2. 0 \in T
  OBVIOUS
<1>3. ASSUME NEW k \in Nat, k \in T PROVE k + 1 \in T
  <2> SUFFICES ASSUME NEW p \in 1..n, p <= k + 1 PROVE ~ Better(b.heap[p], b.heap[1])
    OBVIOUS
  <2>1. CASE p = 1
    BY <1>1, <2>1, BetterOrder
  <2>2. CASE p # 1
    <3>1. p \in 2..n /\ p \div 2 \in 1..n /\ p \div 2 <= k
      <4>1. p \in Nat /\ p >= 2 /\ p <= n
        BY <1>1, <2>2
      <4>2. p \div 2 \in Nat /\ 1 <= p \div 2 /\ p \div 2 < p
        BY <4>1
      <4> HIDE DEF n
      <4> QED
        BY <1>1, <1>3, <4>1, <4>2
    <3>2. ~ Better(b.heap[p \div 2], b.heap[1]) /\ ~ Better(b.heap[p], b.heap[p \div 2])
      BY <1>3, <3>1 DEF Ordered, Under, n
    <3>3. b.heap[p \div 2] \in OrderIds /\ b.heap[p] \in OrderIds /\ b.heap[1] \in OrderIds
      BY <1>1, <3>1
    <3> QED
      BY <3>2, <3>3, NoBetter
  <2> QED
    BY <2>1, <2>2
<1> HIDE DEF T
<1>4. Nat \subseteq T
  BY <1>2, <1>3, Induction
<1>5. \A p \in 1..n : ~ Better(b.heap[p], b.heap[1])
  <2> SUFFICES ASSUME NEW p \in 1..n PROVE ~ Better(b.heap[p], b.heap[1])
    OBVIOUS
  <2>1. p \in T
    BY <1>4
  <2> QED
    BY <2>1 DEF T
<1> SUFFICES ASSUME NEW p \in 1..n, p # 1 PROVE Better(b.heap[1], b.heap[p])
  BY DEF n
<1>6. 1 \in 1..n
  BY <1>1
<1>7. b.heap[1] # b.heap[p]
  BY <1>6, PlacedType DEF n
<1> QED
  BY <1>1, <1>5, <1>6, <1>7, BetterOrder

\* The root, or 0, is what the priority book calls the best of its orders.
LEMMA RootIsBestOf ==
    ASSUME PricesFixed, NEW b, NEW L, BookOf(b, L)
    PROVE  (IF b.heap = <<>> THEN 0 ELSE b.heap[1]) = PB!BestOf(L)
<1> DEFINE n == Len(b.heap)
<1>1. /\ Placed(b) /\ Ordered(b) /\ InBook(b) = L /\ n \in Nat
      /\ b.heap \in Seq(OrderIds)
      /\ \A p \in 1..n : b.heap[p] \in OrderIds
  BY PlacedType DEF BookOf
<1>2. \A a, c : PB!Better(a, c) = Better(a, c)
  BY DEF PB!Better, Better
<1>3. CASE b.heap = <<>>
  <2>1. n = 0
    BY <1>3, EmptySeq
  <2>2. L = {}
    BY <1>1, <2>1 DEF Placed, InBook
  <2> QED
    BY <1>3, <2>2 DEF PB!BestOf
<1>4. CASE b.heap # <<>>
  <2>1. n \in Nat \ {0} /\ 1 \in 1..n
    BY <1>1, <1>4, EmptySeq
  <2> DEFINE x == b.heap[1]
  <2>2. x \in OrderIds /\ b.offsets[x] = 1
    BY <1>1, <2>1 DEF Placed
  <2>3. x \in L
    BY <1>1, <2>2 DEF InBook
  <2>4. \A a \in L \ {x} : Better(x, a) /\ ~ Better(a, x)
    <3> SUFFICES ASSUME NEW a \in L \ {x} PROVE Better(x, a) /\ ~ Better(a, x)
      OBVIOUS
    <3> DEFINE p == b.offsets[a]
    <3>1. a \in OrderIds /\ p \in 1..n /\ b.heap[p] = a
      BY <1>1 DEF InBook, Placed
    <3> HIDE DEF p
    <3>2. p # 1
      BY <3>1
    <3>3. Better(x, a)
      BY <1>1, <3>1, <3>2, RootIsBest
    <3> QED
      BY <2>2, <3>1, <3>3, BetterOrder
  <2> HIDE DEF x
  <2>5. x \in L /\ \A d \in L \ {x} : PB!Better(x, d)
    BY <1>2, <2>3, <2>4
  <2>6. ASSUME NEW a \in L, \A d \in L \ {a} : PB!Better(a, d) PROVE a = x
    BY <1>2, <2>3, <2>4, <2>6
  <2> DEFINE y == CHOOSE a \in L : \A d \in L \ {a} : PB!Better(a, d)
  <2>7. PB!BestOf(L) = y
    BY <2>3 DEF PB!BestOf
  <2>8. y \in L /\ \A d \in L \ {y} : PB!Better(y, d)
    BY <2>5
  <2> HIDE DEF y
  <2>9. y = x
    BY <2>6, <2>8
  <2> QED
    BY <1>4, <2>7, <2>9 DEF x
<1> QED
  BY <1>3, <1>4

-----------------------------------------------------------------------------
(* The refinement.                                                         *)

\* The book is in order whatever was inserted and removed before.
HeapInv == PricesFixed /\ Placed(book) /\ Ordered(book)

\* The empty book.
LEMMA InitHeapInv == Init => HeapInv
<1> SUFFICES ASSUME Init PROVE HeapInv
  OBVIOUS
<1>1. /\ book.heap = <<>> /\ book.offsets = [id \in OrderIds |-> 0]
      /\ book = [heap |-> <<>>, offsets |-> [id \in OrderIds |-> 0]]
  BY DEF Init
<1>2. book.heap \in Seq(OrderIds) /\ Len(book.heap) = 0
  BY <1>1, EmptySeq
<1>3. book \in Books
  BY <1>1, <1>2 DEF Books
<1>4. Placed(book) /\ Ordered(book)
  BY <1>1, <1>2, <1>3 DEF Placed, Ordered
<1> QED
  BY <1>4 DEF Init, HeapInv, PricesFixed

\* What a step makes of the book: the ids in it, and that they are a heap.
LEMMA StepBook ==
    ASSUME HeapInv, NEW id \in OrderIds
    PROVE  /\ Insert(id) => BookOf(book', InBook(book) \cup {id})
           /\ Remove(id) => BookOf(book', InBook(book) \ {id})
<1>1. PricesFixed /\ BookOf(book, InBook(book))
  BY DEF HeapInv, BookOf
<1>2. book.offsets[id] = 0 => BookOf(InsertInto(book, id), InBook(book) \cup {id})
  BY <1>1, InsertKeeps
<1>3. BookOf(RemoveFrom(book, id), InBook(book) \ {id})
  BY <1>1, RemoveKeeps
<1> QED
  BY <1>2, <1>3 DEF Insert, Remove

\* Prices and the side do not change, so what is in order before a step is
\* in order after it.
LEMMA StillInOrder ==
    ASSUME HeapInv, UNCHANGED <<side, price>>, NEW L, BookOf(book', L)
    PROVE  HeapInv' /\ InBook(book)' = L
<1>1. Placed(book)' /\ InBook(book)' = L
  BY DEF BookOf, Placed, InBook
<1>2. Ordered(book)'
  BY DEF BookOf, Ordered, Under, Better
<1> QED
  BY <1>1, <1>2 DEF HeapInv, PricesFixed

\* Every step leaves the book in order.
LEMMA StepHeapInv == HeapInv /\ [Next]_vars => HeapInv'
<1> SUFFICES ASSUME HeapInv, [Next]_vars PROVE HeapInv'
  OBVIOUS
<1>1. CASE Next
  <2>1. PICK id \in OrderIds : Insert(id) \/ Remove(id)
    BY <1>1 DEF Next
  <2>2. UNCHANGED <<side, price>>
    BY <2>1 DEF Insert, Remove
  <2> QED
    BY <2>1, <2>2, StepBook, StillInOrder
<1>2. CASE UNCHANGED vars
  BY <1>2 DEF vars, HeapInv, PricesFixed, Placed, Ordered, Under, Better
<1> QED
  BY <1>1, <1>2

\* The array is a heap and its positions are exact after every _insert and
\* _remove of any orders at any prices, from wherever in the array.
THEOREM BookIsHeap == Spec => []HeapInv
  BY InitHeapInv, StepHeapInv, PTL DEF Spec

\* What the priority book shows of a step: the same order comes in or goes,
\* and the head answers the best of those that are left.
LEMMA StepRefines ==
    ASSUME HeapInv, NEW id \in OrderIds
    PROVE  /\ Insert(id) => PB!Insert(id)
           /\ Remove(id) => PB!Remove(id)
<1>1. ASSUME NEW L, BookOf(book', L)
      PROVE  /\ {d \in OrderIds : book'.offsets[d] # 0} = L
             /\ (IF book'.heap = <<>> THEN 0 ELSE book'.heap[1]) = PB!BestOf(L)
  <2>1. PricesFixed
    BY DEF HeapInv
  <2> QED
    BY <1>1, <2>1, RootIsBestOf DEF BookOf, InBook
<1>2. {d \in OrderIds : book.offsets[d] # 0} = InBook(book)
  BY DEF InBook
<1>3. ASSUME Insert(id) PROVE PB!Insert(id)
  <2>1. BookOf(book', InBook(book) \cup {id})
    BY <1>3, StepBook
  <2>2. id \notin InBook(book) /\ UNCHANGED <<side, price>>
    BY <1>3 DEF Insert, InBook
  <2> QED
    BY <1>1, <1>2, <2>1, <2>2 DEF PB!Insert
<1>4. ASSUME Remove(id) PROVE PB!Remove(id)
  <2>1. BookOf(book', InBook(book) \ {id})
    BY <1>4, StepBook
  <2>2. UNCHANGED <<side, price>>
    BY <1>4 DEF Remove
  <2> QED
    BY <1>1, <1>2, <2>1, <2>2 DEF PB!Remove
<1> QED
  BY <1>3, <1>4

\* bestOrder, bestOrderForUnits and bestPartialOrder, which answer the root
\* of an array, answer the best order by price and age of all that are in it.
THEOREM HeapImplementsPriorityBook == Spec => ImplementsPriorityBook
<1>1. Init => PB!Init
  <2> SUFFICES ASSUME Init PROVE PB!Init
    OBVIOUS
  <2>1. /\ book.heap = <<>>
        /\ \A id \in OrderIds : book.offsets[id] = 0
    BY DEF Init
  <2> QED
    BY <2>1 DEF Init, PB!Init, Sides, PB!Sides
<1>2. HeapInv /\ [Next]_vars
        => [PB!Next]_<<side, price, {id \in OrderIds : book.offsets[id] # 0},
                       IF book.heap = <<>> THEN 0 ELSE book.heap[1]>>
  <2> SUFFICES ASSUME HeapInv, [Next]_vars
               PROVE  [PB!Next]_<<side, price, {id \in OrderIds : book.offsets[id] # 0},
                                  IF book.heap = <<>> THEN 0 ELSE book.heap[1]>>
    OBVIOUS
  <2>1. CASE Next
    BY <2>1, StepRefines DEF Next, PB!Next
  <2>2. CASE UNCHANGED vars
    BY <2>2 DEF vars
  <2> QED
    BY <2>1, <2>2
<1> QED
  BY <1>1, <1>2, BookIsHeap, PTL DEF Spec, ImplementsPriorityBook, PB!Spec

=============================================================================
