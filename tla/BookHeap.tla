------------------------------ MODULE BookHeap ------------------------------
(***************************************************************************)
(* The array heaps of OrderbookMarketplaceV2: _insertInto and _removeFrom  *)
(* over a storage array and a mapping of one-based positions.  Orders      *)
(* leave from the middle of the array (cancellation, expiry, a fill) and   *)
(* come back with the rest of a partial fill.                              *)
(***************************************************************************)
EXTENDS Integers, Sequences

CONSTANTS OrderIds, UnitPrices

ASSUME HeapAssumption == OrderIds \subseteq Nat \ {0} /\ UnitPrices \subseteq Nat

Sides == {"Bid", "Ask"}

VARIABLES side, price,
          book          \* [heap |-> ids, offsets |-> one-based position, 0 when absent]

vars == <<side, price, book>>

\* Order prices and sides never change while the order exists.
Better(a, b) ==
    IF price[a] = price[b] THEN a < b
    ELSE IF side = "Bid" THEN price[a] > price[b] ELSE price[a] < price[b]

\* _swap.
Swap(b, i, j) ==
    [heap    |-> [b.heap EXCEPT ![i] = b.heap[j], ![j] = b.heap[i]],
     offsets |-> [b.offsets EXCEPT ![b.heap[i]] = j, ![b.heap[j]] = i]]

\* What n turns of a loop make of x; a turn after the last changes nothing.
After(turn, x, n) ==
    LET at[k \in Nat] == IF k = 0 THEN x ELSE turn[at[k - 1]]
    IN  at[n]

Books == [heap : Seq(OrderIds), offsets : [OrderIds -> Nat]]

\* The order at position i of book b belongs above its parent.
Rises(b, i) == i # 1 /\ Better(b.heap[i], b.heap[i \div 2])

BetterChild(b, i) ==
    IF 2 * i + 1 <= Len(b.heap) /\ Better(b.heap[2 * i + 1], b.heap[2 * i])
      THEN 2 * i + 1 ELSE 2 * i

\* It belongs below its better child.
Sinks(b, i) == 2 * i <= Len(b.heap) /\ Better(b.heap[BetterChild(b, i)], b.heap[i])

\* One turn of either loop, for a book and the position it has come to.
UpTurn == [x \in Books \X Nat |->
             LET parent == x[2] \div 2 IN
             IF Rises(x[1], x[2]) THEN <<Swap(x[1], x[2], parent), parent>> ELSE x]

DownTurn == [x \in Books \X Nat |->
               LET child == BetterChild(x[1], x[2]) IN
               IF Sinks(x[1], x[2]) THEN <<Swap(x[1], x[2], child), child>> ELSE x]

\* The loop that moves the order at position i towards the root, and the one
\* that moves it towards the leaves: no path is longer than the array.
SiftUp(b, i)   == After(UpTurn, <<b, i>>, Len(b.heap))[1]
SiftDown(b, i) == After(DownTurn, <<b, i>>, Len(b.heap))[1]

\* _insertInto.
InsertInto(b, id) ==
    LET n == Len(b.heap) + 1 IN
    SiftUp([heap |-> Append(b.heap, id), offsets |-> [b.offsets EXCEPT ![id] = n]], n)

\* The array without id, the last order in its place.
WithoutId(b, id) ==
    LET n == Len(b.heap)
        s == IF b.offsets[id] = n THEN b ELSE Swap(b, b.offsets[id], n)
    IN  [heap |-> SubSeq(s.heap, 1, n - 1), offsets |-> [s.offsets EXCEPT ![id] = 0]]

\* Bug: the order moved into the gap can only sink.
RemoveSinking(b, id) ==
    IF b.offsets[id] = 0 THEN b ELSE SiftDown(WithoutId(b, id), b.offsets[id])

\* _removeFrom: the order moved into the gap may have to rise or to sink.
RemoveFrom(b, id) ==
    LET i == b.offsets[id]
        r == WithoutId(b, id)
    IN  IF i = 0 THEN b
        ELSE IF i > Len(r.heap) THEN r
        ELSE IF Rises(r, i) THEN SiftUp(r, i)
        ELSE SiftDown(r, i)

-----------------------------------------------------------------------------

Init ==
    /\ side \in Sides
    /\ price \in [OrderIds -> UnitPrices]
    /\ book = [heap |-> <<>>, offsets |-> [id \in OrderIds |-> 0]]

\* _insert is called for an order that is in no book.
Insert(id) ==
    /\ book.offsets[id] = 0
    /\ book' = InsertInto(book, id)
    /\ UNCHANGED <<side, price>>

\* _remove is called for any order, also for one that is in no book.
Remove(id) ==
    /\ book' = RemoveFrom(book, id)
    /\ UNCHANGED <<side, price>>

Next == \E id \in OrderIds : Insert(id) \/ Remove(id)

Spec == Init /\ [][Next]_vars

-----------------------------------------------------------------------------

\* bestOrder, bestOrderForUnits and bestPartialOrder answer the root of a
\* heap: it is the best order by price and time of those in the book.
PB == INSTANCE PriorityBook
        WITH live <- {id \in OrderIds : book.offsets[id] # 0},
             best <- IF book.heap = <<>> THEN 0 ELSE book.heap[1]

ImplementsPriorityBook == PB!Spec

=============================================================================
