--------------------------- MODULE OrderBookProps ---------------------------
(* What the order book promises to those who place and fill orders. *)
EXTENDS OrderBook

Active(sd) == {id \in OrderIds : orders[id].active /\ orders[id].side = sd}

\* The payment the marketplace holds is what totalLockedPayment says and what
\* the open bids lock, and a bid locks exactly the rounded-up price of what it
\* still wants: after fills at better prices the saving has gone back, and
\* the rest can be filled to the last unit (_spendBid never underflows).
PaymentMatches ==
    /\ market.cash = market.totalLockedPayment
    /\ market.cash = Total([id \in OrderIds |-> orders[id].lockedPayment], OrderIds)
    /\ \A id \in OrderIds :
         orders[id].lockedPayment =
           IF id \in Active("Bid")
             THEN ReserveFor(orders[id].remainingUnits, orders[id].unitPrice) ELSE 0

\* The shares the marketplace holds are those on offer and those whose return
\* was rejected: each can be handed out exactly once, so the coverage checks
\* before a transfer never fail (createOrder, fillOrder, _matchOrders,
\* _release, withdrawOrderShares).
SharesMatch ==
    market.escrow = Total([id \in OrderIds |-> IF id \in Active("Ask")
                                                 THEN orders[id].remainingUnits ELSE 0], OrderIds)
                    + Total(market.pendingShares, OrderIds)

\* Both together: the marketplace holds what it owes, no more and no less.
CustodyMatches == PaymentMatches /\ SharesMatch

\* The three families of heaps hold the open automatic orders, each under its
\* present size: none is lost by a partial fill and none is left behind by a
\* cancellation (_insert, _remove, _finish).
BooksMatch ==
    LET listed == {id \in OrderIds : orders[id].active /\ orders[id].autoMatch} IN
    /\ market.books = listed
    /\ market.unitBooks = {<<orders[id].remainingUnits, id>> : id \in listed}
    /\ market.partialBooks = {id \in listed : orders[id].allowPartial}

\* What stays open after any fills can still be filled as a whole by one
\* taker: it has the minimum size and a positive price (_finish, fillOrder).
OpenOrdersFillable ==
    \A id \in OrderIds : orders[id].active =>
        /\ orders[id].remainingUnits >= MinimumC2CUnits
        /\ Gross(orders[id].remainingUnits, orders[id].unitPrice) # 0

\* Two open automatic orders whose prices cross and whose sizes allow a trade.
Matchable(bid, ask) ==
    /\ bid \in Active("Bid") /\ ask \in Active("Ask")
    /\ orders[bid].autoMatch /\ orders[ask].autoMatch
    /\ Crosses(bid, ask)
    /\ \/ orders[bid].allowPartial /\ orders[ask].allowPartial
       \/ orders[bid].remainingUnits = orders[ask].remainingUnits

\* matchOrders reverts or breaks off only when there is nothing to do: while
\* two orders could trade, an iteration on some group releases an order or
\* trades, whatever stale, self-owned or whole orders stand in front.
MatchMakesProgress ==
    (\E bid, ask \in OrderIds : Matchable(bid, ask)) =>
        \E g \in Groups :
            LET bid == Heads(g)[1]
                ask == Heads(g)[2]
            IN  \/ IsStaleHead(bid) \/ IsStaleHead(ask)
                \/ /\ Matched(bid, ask)
                   /\ \/ orders[bid].owner = orders[ask].owner
                      \/ Tradable(bid, ask) /\ GrossOf(bid, ask) <= orders[bid].lockedPayment

\* No order of its side that asks for as many units, or that like this one
\* takes part of an order, is better.
FirstInLine(id, other) ==
    \A r \in OrderIds :
        (/\ orders[r].active /\ orders[r].autoMatch /\ orders[r].side = orders[id].side
         /\ \/ orders[r].remainingUnits = orders[id].remainingUnits
               /\ orders[r].remainingUnits = orders[other].remainingUnits
            \/ orders[r].remainingUnits # orders[id].remainingUnits
               /\ orders[id].remainingUnits # orders[other].remainingUnits
               /\ orders[r].allowPartial)
        => r = id \/ Book(orders[id].side)!Better(id, r)

\* A match respects price and time: of the orders of one size, and of the
\* partly fillable ones when sizes differ, the best trade, at a price both
\* accepted (matchOrders, matchOrdersForUnits).
MatchesInPriority ==
    [][\A g \in Groups, rejecting \in SUBSET Contracts :
         LET bid == Heads(g)[1]
             ask == Heads(g)[2]
         IN  MatchTrades(bid, ask, rejecting) =>
               Crosses(bid, ask) /\ FirstInLine(bid, ask) /\ FirstInLine(ask, bid)]_vars

-----------------------------------------------------------------------------

\* The worker of matching-source.ts releases what is stale and calls one
\* matching step per group while two heads cross; anybody may do the same.
Fairness ==
    /\ WF_vars(Tick)
    /\ \A id \in OrderIds : WF_vars(\E rejecting \in SUBSET Contracts : ReleaseOrder(id, rejecting))
    /\ WF_vars(\E rejecting \in SUBSET Contracts, g \in Groups : MatchOrders(g, rejecting))

FairSpec == Spec /\ Fairness

\* Orders that could trade do not stand against each other for ever, although
\* receivers reject shares and owners cross themselves (_matchOrders).
CrossedOrdersMeet ==
    \A bid \in OrderIds : \A ask \in OrderIds \ {bid} :
        Matchable(bid, ask) ~> ~Matchable(bid, ask) \/ "ListingFill" \in paused

\* At its expiry or the end of its market an order gives everything back,
\* pause or not (releaseOrder).
EndedOrdersReleased ==
    \A id \in OrderIds :
        (orders[id].active /\ (now >= orders[id].expiresAt \/ vaultTerminal)) ~> ~orders[id].active

=============================================================================
