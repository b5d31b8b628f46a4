----------------------------- MODULE MCOrderBook -----------------------------
(* Values of the constants of OrderBook for TLC. *)
EXTENDS OrderBookProps, TLC

CONSTANTS Alice, Bob, Wallet

PersonAndWallet == {Alice, Wallet}
Persons == {Alice, Bob}

\* Requests of both sides for all combinations of the given values.
Requests(units, prices, expiries) ==
    [side : {"Bid", "Ask"}, units : units, unitPrice : prices,
     expiresAt : expiries, autoMatch : {TRUE}]

\* Two sizes of which the smaller does not divide the larger; prices at
\* which bids and asks cross or not, neither divisible by the scale.
CrossingRequests == Requests({20, 51}, {4999, 5101}, {1})

\* Orders that differ in size at prices that cross, and in price at one size.
QueueRequests ==
    {q \in CrossingRequests : q.unitPrice = (IF q.side = "Bid" THEN 5101 ELSE 4999) \/ q.units = 51}

\* A price so low that the minimum size is worth nothing: manual orders only.
LowRequests ==
    [side : {"Bid", "Ask"}, units : {51}, unitPrice : {25}, expiresAt : {1}, autoMatch : {FALSE}]

\* The larger orders outlive the run, the smaller expire in it.
TradingRequests ==
    {[q EXCEPT !.expiresAt = IF q.units = 20 THEN 1 ELSE 2] : q \in QueueRequests} \cup LowRequests

Alike == Permutations(Persons)

=============================================================================
