---------------------------- MODULE PriorityBook ----------------------------
(***************************************************************************)
(* What an automatic book of OrderbookMarketplaceV2 promises: a set of     *)
(* orders of one side of which the best is known.  Price comes first, then *)
(* the order of creation; order ids grow with time.                        *)
(***************************************************************************)
EXTENDS Integers

CONSTANTS
    OrderIds,         \* ids of the orders that may enter the book; 0 is no order
    UnitPrices        \* their prices

Sides == {"Bid", "Ask"}

VARIABLES
    side,             \* the side this book is of
    price,            \* [OrderIds -> UnitPrices], never changed
    live,             \* the orders in the book
    best              \* the head of the book, 0 when it is empty

\* _better: price priority, then first come first served.
Better(a, b) ==
    IF price[a] = price[b] THEN a < b
    ELSE IF side = "Bid" THEN price[a] > price[b] ELSE price[a] < price[b]

BestOf(S) ==
    IF S = {} THEN 0 ELSE CHOOSE a \in S : \A b \in S \ {a} : Better(a, b)

Init ==
    /\ side \in Sides
    /\ price \in [OrderIds -> UnitPrices]
    /\ live = {} /\ best = 0

Insert(id) ==
    /\ id \notin live
    /\ live' = live \cup {id}
    /\ best' = BestOf(live')
    /\ UNCHANGED <<side, price>>

Remove(id) ==
    /\ live' = live \ {id}
    /\ best' = BestOf(live')
    /\ UNCHANGED <<side, price>>

Next == \E id \in OrderIds : Insert(id) \/ Remove(id)

Spec == Init /\ [][Next]_<<side, price, live, best>>

=============================================================================
