------------------------------ MODULE OrderBook ------------------------------
(***************************************************************************)
(* OrderbookMarketplaceV2 for one outcome of one market: orders that lock  *)
(* payment or shares, manual fills, and automatic matching.  Orders of     *)
(* other markets and outcomes are in other books and meet these only in    *)
(* totals.  A transaction is atomic and nonReentrant, so an action is one  *)
(* call; only a receiver contract may make a share transfer fail inside.   *)
(***************************************************************************)
EXTENDS Arithmetic, Sums

CONSTANTS
    Traders,
    Contracts,              \* the traders whose receiver hook may reject shares
    OrderRequests,          \* what may be ordered: [side, units, unitPrice, expiresAt, autoMatch]
    FillSizes,              \* desiredUnits of a fill
    ShareScale, MinimumC2CUnits,
    PlatformC2CFeeBps, CreatorC2CFeeBps,
    InitialPayment, InitialShares,   \* what every trader starts with
    Pausable,               \* the pause bits the safe may use: {"ListingCreate", "ListingFill"}
    MaxOrders, MaxTime      \* bounds of the runs

ASSUME OrderAssumption ==
    /\ IsFiniteSet(Traders) /\ Contracts \subseteq Traders
    /\ OrderRequests \subseteq [side : {"Bid", "Ask"}, units : Nat, unitPrice : Nat,
                                expiresAt : Nat, autoMatch : BOOLEAN]
    /\ FillSizes \subseteq Nat
    /\ ShareScale \in Nat \ {0} /\ MinimumC2CUnits \in Nat \ {0}
    /\ {PlatformC2CFeeBps, CreatorC2CFeeBps, InitialPayment, InitialShares} \subseteq Nat
    /\ PlatformC2CFeeBps + CreatorC2CFeeBps <= BPS
    /\ MaxOrders \in Nat /\ MaxTime \in Nat

OrderIds == 1..MaxOrders

VARIABLES
    now, vaultTerminal,     \* block.timestamp; isTerminal of the vault
    paused,                 \* subset of Pausable
    defaultAllowPartialFills,
    nextOrderId,
    market                  \* storage and token balances that one call changes together

vars == <<now, vaultTerminal, paused, defaultAllowPartialFills, nextOrderId, market>>

orders == market.orders

NoOrder == [owner |-> "nobody", side |-> "Bid", remainingUnits |-> 0, unitPrice |-> 0,
            expiresAt |-> 0, autoMatch |-> FALSE, active |-> FALSE, lockedPayment |-> 0,
            allowPartial |-> FALSE]

Init ==
    /\ now = 0 /\ vaultTerminal = FALSE /\ paused = {}
    /\ defaultAllowPartialFills = FALSE /\ nextOrderId = 1
    /\ market = [orders             |-> [id \in OrderIds |-> NoOrder],
                 books              |-> {},      \* ids on the side's heap
                 unitBooks          |-> {},      \* <<units, id>>: id on the heap of its size
                 partialBooks       |-> {},      \* ids on the heap of partly fillable orders
                 totalLockedPayment |-> 0,
                 pendingShares      |-> [id \in OrderIds |-> 0],
                 cash               |-> 0,       \* payment tokens of the marketplace
                 escrow             |-> 0,       \* shares of the marketplace
                 fees               |-> 0,       \* payment tokens sent to the fee vault
                 wallet             |-> [t \in Traders |-> InitialPayment],
                 shares             |-> [t \in Traders |-> InitialShares]]

-----------------------------------------------------------------------------
(* Pure helpers; s is a value of market. *)

Gross(units, price)      == MulDiv(units, price, ShareScale)
ReserveFor(units, price) == MulDivUp(units, price, ShareScale)

FeesOn(gross) == MulDiv(gross, PlatformC2CFeeBps, BPS) + MulDiv(gross, CreatorC2CFeeBps, BPS)

Ended(o) == now >= o.expiresAt \/ vaultTerminal

\* Bug: the second of the expiry is neither live nor stale.
StaleLater(id) == orders[id].active /\ (now > orders[id].expiresAt \/ vaultTerminal)

Live(id)  == orders[id].active /\ ~Ended(orders[id])
Stale(id) == orders[id].active /\ Ended(orders[id])

\* _insert.
Inserted(s, id) ==
    [s EXCEPT !.books        = @ \cup {id},
              !.unitBooks    = @ \cup {<<s.orders[id].remainingUnits, id>>},
              !.partialBooks = IF s.orders[id].allowPartial THEN @ \cup {id} ELSE @]

\* _remove: also for orders that are in no book.
Removed(s, id) ==
    [s EXCEPT !.books        = @ \ {id},
              !.unitBooks    = @ \ {<<s.orders[id].remainingUnits, id>>},
              !.partialBooks = @ \ {id}]

\* _release: the rest of the order goes back; shares that the owner's
\* receiver rejects stay for withdrawOrderShares.
Released(s, id, rejecting) ==
    LET o == s.orders[id]
        r == [Removed(s, id) EXCEPT !.orders[id] =
                [o EXCEPT !.active = FALSE, !.remainingUnits = 0, !.lockedPayment = 0]]
    IN  IF o.side = "Bid"
          THEN [r EXCEPT !.totalLockedPayment = @ - o.lockedPayment,
                         !.cash = @ - o.lockedPayment,
                         !.wallet[o.owner] = @ + o.lockedPayment]
        ELSE IF o.owner \in rejecting
          THEN [r EXCEPT !.pendingShares[id] = o.remainingUnits]
        ELSE [r EXCEPT !.escrow = @ - o.remainingUnits,
                       !.shares[o.owner] = @ + o.remainingUnits]

\* Bug: the rest of a bid keeps what the fill did not need.
BidTrimmedKeeping(s, id) == s

\* The lock of the rest of a bid; what a better price saved goes back.
BidTrimmed(s, id) ==
    LET o      == s.orders[id]
        needed == ReserveFor(o.remainingUnits, o.unitPrice)
        excess == o.lockedPayment - needed
    IN  [s EXCEPT !.orders[id].lockedPayment = needed,
                  !.totalLockedPayment = @ - excess,
                  !.cash = @ - excess,
                  !.wallet[o.owner] = @ + excess]

\* Bug: the rest is dust only when it is worth nothing.
IsDustByValue(o) == Gross(o.remainingUnits, o.unitPrice) = 0

\* What is left could not be traded any more.
IsDust(o) ==
    o.remainingUnits < MinimumC2CUnits \/ Gross(o.remainingUnits, o.unitPrice) = 0

\* _finish.
Finished(s, id, rejecting) ==
    LET o == s.orders[id] IN
    IF IsDust(o) THEN Released(s, id, rejecting)
    ELSE LET t == IF o.side = "Bid" THEN BidTrimmed(s, id) ELSE s
         IN  IF o.autoMatch THEN Inserted(t, id) ELSE t

\* _spendBid.
Spent(s, id, gross) ==
    [s EXCEPT !.orders[id].lockedPayment = @ - gross, !.totalLockedPayment = @ - gross]

\* _pay, out of the tokens the marketplace holds.
Paid(s, seller, gross) ==
    [s EXCEPT !.cash = @ - gross,
              !.wallet[seller] = @ + gross - FeesOn(gross),
              !.fees = @ + FeesOn(gross)]

\* Bug: the books are searched under what is left, not under what is listed.
TakenLate(s, id, units) ==
    Removed([s EXCEPT !.orders[id].remainingUnits = @ - units], id)

\* Before a trade the order leaves the books under its old size.
Taken(s, id, units) ==
    [Removed(s, id) EXCEPT !.orders[id].remainingUnits = @ - units]

-----------------------------------------------------------------------------
(* Orders *)

SetDefaultAllowPartialFills(allowed) ==
    /\ allowed # defaultAllowPartialFills
    /\ defaultAllowPartialFills' = allowed
    /\ UNCHANGED <<now, vaultTerminal, paused, nextOrderId, market>>

ValidOrder(q) ==
    /\ q.units >= MinimumC2CUnits /\ q.unitPrice # 0 /\ q.expiresAt > now
    /\ Gross(q.units, q.unitPrice) # 0
    /\ q.autoMatch => Gross(MinimumC2CUnits, q.unitPrice) # 0

CreateOrder(t, q) ==
    LET id     == nextOrderId
        locked == IF q.side = "Bid" THEN ReserveFor(q.units, q.unitPrice) ELSE 0
        placed == [market EXCEPT !.orders[id] =
                     [owner |-> t, side |-> q.side, remainingUnits |-> q.units,
                      unitPrice |-> q.unitPrice, expiresAt |-> q.expiresAt,
                      autoMatch |-> q.autoMatch, active |-> TRUE, lockedPayment |-> locked,
                      allowPartial |-> defaultAllowPartialFills]]
        listed == IF q.autoMatch THEN Inserted(placed, id) ELSE placed
    IN  /\ "ListingCreate" \notin paused /\ ~vaultTerminal
        /\ nextOrderId <= MaxOrders
        /\ ValidOrder(q)
        /\ nextOrderId' = id + 1
        /\ \/ /\ q.side = "Bid" /\ market.wallet[t] >= locked
              /\ market' = [listed EXCEPT !.totalLockedPayment = @ + locked,
                                          !.cash = @ + locked, !.wallet[t] = @ - locked]
           \/ /\ q.side = "Ask" /\ market.shares[t] >= q.units
              /\ market' = [listed EXCEPT !.escrow = @ + q.units, !.shares[t] = @ - q.units]
        /\ UNCHANGED <<now, vaultTerminal, paused, defaultAllowPartialFills>>

\* fillOrder.  The taker's own limits (minUnits of a partial fill,
\* paymentLimit, deadline) only make the call revert and are left out; so
\* does a taker's or a bidder's receiver that rejects the shares.
FillOrder(t, id, desiredUnits, rejecting) ==
    LET o     == orders[id]
        units == Smaller(desiredUnits, o.remainingUnits)
        gross == Gross(units, o.unitPrice)
        taken == Taken(market, id, units)
    IN  /\ "ListingFill" \notin paused
        /\ Live(id) /\ t # o.owner
        /\ ~o.allowPartial => desiredUnits = o.remainingUnits
        /\ units # 0 /\ (units >= MinimumC2CUnits \/ units = o.remainingUnits)
        /\ gross # 0
        /\ \/ /\ o.side = "Bid" /\ market.shares[t] >= units
              /\ gross <= o.lockedPayment
              /\ market' =
                   Finished([Paid(Spent(taken, id, gross), t, gross)
                               EXCEPT !.shares[t] = @ - units, !.shares[o.owner] = @ + units],
                            id, rejecting)
           \/ /\ o.side = "Ask" /\ market.wallet[t] >= gross
              /\ market' =
                   Finished(Paid([taken EXCEPT !.wallet[t] = @ - gross, !.cash = @ + gross,
                                               !.escrow = @ - units, !.shares[t] = @ + units],
                                 o.owner, gross),
                            id, rejecting)
        /\ UNCHANGED <<now, vaultTerminal, paused, defaultAllowPartialFills, nextOrderId>>

Release(id, rejecting) ==
    /\ orders[id].active
    /\ market' = Released(market, id, rejecting)
    /\ UNCHANGED <<now, vaultTerminal, paused, defaultAllowPartialFills, nextOrderId>>

CancelOrder(t, id, rejecting) == orders[id].owner = t /\ Release(id, rejecting)

ReleaseOrder(id, rejecting) == Stale(id) /\ Release(id, rejecting)

WithdrawOrderShares(t, id, recipient) ==
    LET units == market.pendingShares[id] IN
    /\ orders[id].owner = t /\ units # 0
    /\ market' = [market EXCEPT !.pendingShares[id] = 0,
                                !.escrow = @ - units, !.shares[recipient] = @ + units]
    /\ UNCHANGED <<now, vaultTerminal, paused, defaultAllowPartialFills, nextOrderId>>

-----------------------------------------------------------------------------
(* Matching.  One iteration of _matchOrders is an action: no iteration     *)
(* reverts (MatchMakesProgress), so a call of several steps is as many     *)
(* calls of one step, which is also what the matching worker sends.        *)

\* Every heap answers as PriorityBook says; BookHeap shows that it does.
Book(sd) == INSTANCE PriorityBook
              WITH UnitPrices <- {o.unitPrice : o \in OrderRequests}, side <- sd,
                   price <- [id \in OrderIds |-> orders[id].unitPrice],
                   live <- {}, best <- 0

BestIn(S, sd) == Book(sd)!BestOf({id \in S : orders[id].side = sd})

BestOrderForUnits(sd, units) == BestIn({id \in OrderIds : <<units, id>> \in market.unitBooks}, sd)
BestPartialOrder(sd)         == BestIn(market.partialBooks, sd)

\* Bug: equal heads of the partial books trade although a whole order of
\* that size is better.
HeadsAsFound(group) ==
    IF group = 0 THEN <<BestPartialOrder("Bid"), BestPartialOrder("Ask")>>
    ELSE <<BestOrderForUnits("Bid", group), BestOrderForUnits("Ask", group)>>

\* Bug: orders that must be filled whole stand in the mixed queue too.
HeadsOfAll(group) ==
    IF group = 0 THEN <<BestIn(market.books, "Bid"), BestIn(market.books, "Ask")>>
    ELSE <<BestOrderForUnits("Bid", group), BestOrderForUnits("Ask", group)>>

\* The bid and the ask an iteration looks at, 0 when there is none: group 0
\* is matchOrders, any other the size of matchOrdersForUnits.
Heads(group) ==
    LET bid == BestPartialOrder("Bid")
        ask == BestPartialOrder("Ask")
        same == bid # 0 /\ ask # 0 /\ orders[bid].remainingUnits = orders[ask].remainingUnits
        size == IF group = 0 THEN orders[bid].remainingUnits ELSE group
    IN  IF group = 0 /\ ~same THEN <<bid, ask>>
        ELSE <<BestOrderForUnits("Bid", size), BestOrderForUnits("Ask", size)>>

IsStaleHead(id) == id # 0 /\ Stale(id)

Crosses(bid, ask) == orders[bid].unitPrice >= orders[ask].unitPrice

\* Two good heads whose prices cross.
Matched(bid, ask) ==
    /\ bid # 0 /\ ask # 0
    /\ ~Stale(bid) /\ ~Stale(ask)
    /\ Crosses(bid, ask)

UnitsOf(bid, ask) == Smaller(orders[bid].remainingUnits, orders[ask].remainingUnits)
MakerPrice(bid, ask) == orders[Smaller(bid, ask)].unitPrice

GrossOf(bid, ask)    == Gross(UnitsOf(bid, ask), MakerPrice(bid, ask))

\* The tests an iteration makes before it moves anything.
Tradable(bid, ask) ==
    /\ \/ orders[bid].allowPartial /\ orders[ask].allowPartial
       \/ orders[bid].remainingUnits = orders[ask].remainingUnits
    /\ GrossOf(bid, ask) # 0

\* A stale head goes first, the bid before the ask.
MatchReleasesStale(bid, ask, rejecting) ==
    \/ IsStaleHead(bid) /\ Release(bid, rejecting)
    \/ ~IsStaleHead(bid) /\ IsStaleHead(ask) /\ Release(ask, rejecting)

\* Bug: only a newer bid goes.
MatchReleasesOwnBid(bid, ask, rejecting) ==
    /\ Matched(bid, ask)
    /\ orders[bid].owner = orders[ask].owner /\ bid > ask
    /\ Release(bid, rejecting)

\* Nobody trades with himself: the newer order goes.
MatchReleasesSelfCross(bid, ask, rejecting) ==
    /\ Matched(bid, ask)
    /\ orders[bid].owner = orders[ask].owner
    /\ Release(Larger(bid, ask), rejecting)

\* A bidder whose receiver rejects the shares loses his place.
MatchReleasesUnfillable(bid, ask, rejecting) ==
    /\ Matched(bid, ask)
    /\ orders[bid].owner # orders[ask].owner
    /\ Tradable(bid, ask)
    /\ orders[bid].owner \in rejecting
    /\ Release(bid, rejecting)

MatchTrades(bid, ask, rejecting) ==
    LET units == UnitsOf(bid, ask)
        gross == GrossOf(bid, ask)
        buyer == orders[bid].owner
        moved == [Taken(Taken(market, bid, units), ask, units)
                    EXCEPT !.escrow = @ - units, !.shares[buyer] = @ + units]
        paid  == Paid(Spent(moved, bid, gross), orders[ask].owner, gross)
    IN  /\ Matched(bid, ask)
        /\ buyer # orders[ask].owner
        /\ Tradable(bid, ask) /\ gross <= orders[bid].lockedPayment
        /\ buyer \notin rejecting
        /\ market' = Finished(Finished(paid, bid, rejecting), ask, rejecting)
        /\ UNCHANGED <<now, vaultTerminal, paused, defaultAllowPartialFills, nextOrderId>>

Groups == {0} \cup {p[1] : p \in market.unitBooks}

MatchOrders(group, rejecting) ==
    /\ "ListingFill" \notin paused
    /\ \E pair \in {Heads(group)} :
         \/ MatchReleasesStale(pair[1], pair[2], rejecting)
         \/ MatchReleasesSelfCross(pair[1], pair[2], rejecting)
         \/ MatchReleasesUnfillable(pair[1], pair[2], rejecting)
         \/ MatchTrades(pair[1], pair[2], rejecting)

-----------------------------------------------------------------------------
(* The rest of the world *)

Tick ==
    /\ now < MaxTime /\ now' = now + 1
    /\ UNCHANGED <<vaultTerminal, paused, defaultAllowPartialFills, nextOrderId, market>>

VaultTerminates ==
    /\ ~vaultTerminal /\ vaultTerminal' = TRUE
    /\ UNCHANGED <<now, paused, defaultAllowPartialFills, nextOrderId, market>>

PauseChanges ==
    /\ paused' \in SUBSET Pausable \ {paused}
    /\ UNCHANGED <<now, vaultTerminal, defaultAllowPartialFills, nextOrderId, market>>

Next ==
    \/ \E allowed \in BOOLEAN : SetDefaultAllowPartialFills(allowed)
    \/ \E t \in Traders, q \in OrderRequests : CreateOrder(t, q)
    \/ \E rejecting \in SUBSET Contracts, id \in OrderIds :
         \/ \E t \in Traders, u \in FillSizes : FillOrder(t, id, u, rejecting)
         \/ \E t \in Traders : CancelOrder(t, id, rejecting)
         \/ ReleaseOrder(id, rejecting)
    \/ \E t, r \in Traders, id \in OrderIds : WithdrawOrderShares(t, id, r)
    \/ \E rejecting \in SUBSET Contracts, g \in Groups : MatchOrders(g, rejecting)
    \/ Tick \/ VaultTerminates \/ PauseChanges

Spec == Init /\ [][Next]_vars

=============================================================================
