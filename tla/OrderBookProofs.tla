--------------------------- MODULE OrderBookProofs ---------------------------
(***************************************************************************)
(* The order book for any number of traders and orders, any sizes, prices  *)
(* and fees: the marketplace holds what it owes, the books hold the open   *)
(* orders, a match always moves something and respects price and time.     *)
(*                                                                         *)
(* A match works on two orders that have left the books and are not yet    *)
(* finished.  The invariant (Kept) is therefore stated for a value of      *)
(* market and the set of ids in hand; between calls nothing is in hand.    *)
(***************************************************************************)
EXTENDS OrderBookProps, SumTheorems

-----------------------------------------------------------------------------
(* Rounding.                                                               *)

\* What a trade takes rounded down and the rest needs rounded up fit into
\* what the whole needed rounded up.
LEMMA RoundingSplit ==
    ASSUME NEW u \in Nat, NEW v \in Nat, NEW p \in Nat, NEW c \in Nat \ {0}
    PROVE  /\ MulDiv(u, p, c) \in Nat /\ MulDivUp(v, p, c) \in Nat
           /\ MulDivUp(u + v, p, c) \in Nat
           /\ MulDiv(u, p, c) + MulDivUp(v, p, c) <= MulDivUp(u + v, p, c)
<1> DEFINE f == MulDiv(u, p, c)
<1> DEFINE g == MulDivUp(v, p, c)
<1> DEFINE x == u * p
<1> DEFINE y == v * p
<1>1. x \in Nat /\ y \in Nat /\ (u + v) * p = x + y
  OBVIOUS
<1> HIDE DEF x, y
<1>2. f \in Nat /\ f * c <= x
  BY <1>1, Floor DEF MulDiv, x
<1>3. g \in Nat /\ g * c <= y + c - 1
  <2>1. y + c - 1 \in Nat
    BY <1>1
  <2> QED
    BY <2>1, Floor DEF MulDivUp, y
<1> HIDE DEF f, g
<1>4. f + g \in Nat /\ (f + g) * c = f * c + g * c
  BY <1>2, <1>3
<1>5. x + y + c - 1 \in Nat /\ (f + g) * c <= x + y + c - 1
  <2>1. f * c \in Nat /\ g * c \in Nat
    BY <1>2, <1>3
  <2> QED
    BY <1>1, <1>2, <1>3, <1>4, <2>1
<1>6. /\ (x + y + c - 1) \div c \in Nat
      /\ f + g <= (x + y + c - 1) \div c
  BY <1>4, <1>5, Floor
<1>7. MulDivUp(u + v, p, c) = (x + y + c - 1) \div c
  BY <1>1 DEF MulDivUp
<1> QED
  BY <1>2, <1>3, <1>6, <1>7 DEF f, g

\* A larger amount at a higher price is worth no less.
LEMMA GrossGrows ==
    ASSUME NEW u \in Nat, NEW v \in Nat, NEW p \in Nat, NEW q \in Nat, NEW c \in Nat \ {0},
           u <= v, p <= q
    PROVE  /\ MulDiv(u, p, c) \in Nat /\ MulDiv(v, q, c) \in Nat
           /\ MulDiv(u, p, c) <= MulDiv(v, q, c)
<1>1. u * p \in Nat /\ v * q \in Nat /\ u * p <= v * q
  <2>1. u * p <= v * p /\ v * p <= v * q
    BY Scale
  <2> QED
    BY <2>1
<1> DEFINE x == u * p
<1> DEFINE y == v * q
<1> HIDE DEF x, y
<1>2. x \in Nat /\ y \in Nat /\ x <= y
  BY <1>1 DEF x, y
<1>3. x \div c \in Nat /\ (x \div c) * c <= x
  BY <1>2, Floor
<1>4. (x \div c) * c <= y
  <2>1. (x \div c) * c \in Nat
    BY <1>3
  <2> QED
    BY <1>2, <1>3, <2>1
<1>5. y \div c \in Nat /\ x \div c <= y \div c
  BY <1>2, <1>3, <1>4, Floor
<1> QED
  BY <1>3, <1>5 DEF MulDiv, x, y

\* The two fees together are part of the price.
LEMMA FeesBound ==
    ASSUME NEW gross \in Nat
    PROVE  FeesOn(gross) \in Nat /\ FeesOn(gross) <= gross
<1> DEFINE a == PlatformC2CFeeBps
<1> DEFINE b == CreatorC2CFeeBps
<1> DEFINE f == MulDiv(gross, a, BPS)
<1> DEFINE g == MulDiv(gross, b, BPS)
<1>1. a \in Nat /\ b \in Nat /\ a + b <= BPS /\ BPS \in Nat \ {0}
  BY OrderAssumption, BpsNat
<1> HIDE DEF a, b
<1>2. gross * a \in Nat /\ gross * b \in Nat /\ gross * a + gross * b = gross * (a + b)
  BY <1>1
<1>3. f \in Nat /\ f * BPS <= gross * a /\ g \in Nat /\ g * BPS <= gross * b
  BY <1>1, <1>2, Floor DEF MulDiv
<1> HIDE DEF f, g
<1>4. gross * (a + b) <= gross * BPS
  BY <1>1
<1>5. (f + g) * BPS = f * BPS + g * BPS /\ f * BPS \in Nat /\ g * BPS \in Nat
  BY <1>1, <1>3
<1>6. gross * BPS \in Nat /\ gross * (a + b) \in Nat
  BY <1>1
<1>7. (f + g) * BPS <= gross * BPS
  BY <1>2, <1>3, <1>4, <1>5, <1>6
<1>8. f + g <= gross
  BY <1>1, <1>3, <1>7, Cancel
<1> QED
  BY <1>3, <1>8 DEF FeesOn, f, g, a, b

-----------------------------------------------------------------------------
(* The invariant.                                                          *)

Order == [owner : Traders \cup {"nobody"}, side : {"Bid", "Ask"}, remainingUnits : Nat,
          unitPrice : Nat, expiresAt : Nat, autoMatch : BOOLEAN, active : BOOLEAN,
          lockedPayment : Nat, allowPartial : BOOLEAN]

Market == [orders : [OrderIds -> Order], books : SUBSET OrderIds,
           unitBooks : SUBSET (Nat \X OrderIds), partialBooks : SUBSET OrderIds,
           totalLockedPayment : Nat, pendingShares : [OrderIds -> Nat],
           cash : Nat, escrow : Nat, fees : Nat,
           wallet : [Traders -> Nat], shares : [Traders -> Nat]]

TypeOK ==
    /\ now \in Nat /\ vaultTerminal \in BOOLEAN /\ paused \subseteq Pausable
    /\ defaultAllowPartialFills \in BOOLEAN
    /\ nextOrderId \in Nat \ {0}
    /\ market \in Market

\* What an order still locks and offers.
ReserveOf(o) == IF o.active /\ o.side = "Bid" THEN ReserveFor(o.remainingUnits, o.unitPrice) ELSE 0
OfferOf(o)   == IF o.active /\ o.side = "Ask" THEN o.remainingUnits ELSE 0

Locks(s)  == [id \in OrderIds |-> s.orders[id].lockedPayment]
Offers(s) == [id \in OrderIds |-> OfferOf(s.orders[id])]

Custody(s) ==
    /\ s.cash = s.totalLockedPayment
    /\ s.cash = Total(Locks(s), OrderIds)
    /\ s.escrow = Total(Offers(s), OrderIds) + Total(s.pendingShares, OrderIds)

\* An open order has an owner, and one in the books can trade at the minimum.
Placed(o) ==
    o.active => /\ o.owner \in Traders
                /\ o.autoMatch => Gross(MinimumC2CUnits, o.unitPrice) # 0

\* An order nobody works on.
Settled(o) ==
    /\ Placed(o) /\ o.lockedPayment = ReserveOf(o)
    /\ o.active => /\ o.remainingUnits >= MinimumC2CUnits
                   /\ Gross(o.remainingUnits, o.unitPrice) # 0

\* An order that has traded and is not finished.
InHand(o) == Placed(o) /\ o.active /\ o.lockedPayment >= ReserveOf(o)
             /\ (o.side = "Ask" => o.lockedPayment = 0)

Listed(s, X) == {id \in OrderIds \ X : s.orders[id].active /\ s.orders[id].autoMatch}

Entries(s, L)  == {<<s.orders[id].remainingUnits, id>> : id \in L}
Partials(s, L) == {id \in L : s.orders[id].allowPartial}

Books(s, X) ==
    /\ s.books = Listed(s, X)
    /\ s.unitBooks = Entries(s, Listed(s, X))
    /\ s.partialBooks = Partials(s, Listed(s, X))

Kept(s, X) ==
    /\ s \in Market
    /\ Custody(s)
    /\ \A id \in OrderIds \ X : Settled(s.orders[id])
    /\ \A id \in X : InHand(s.orders[id])
    /\ Books(s, X)
    /\ \A id \in OrderIds : s.orders[id].active => s.pendingShares[id] = 0

\* An id that has not been given out.
Blank(s, id) == ~ s.orders[id].active /\ s.pendingShares[id] = 0

\* A call that places no order opens none.
OpensNone(s, t) == \A id \in OrderIds : Blank(s, id) => Blank(t, id)

BookInv ==
    /\ TypeOK
    /\ Kept(market, {})
    /\ \A id \in OrderIds : id >= nextOrderId => Blank(market, id)

-----------------------------------------------------------------------------
(* The sums.                                                               *)

\* The ids are finitely many naturals.
LEMMA IdsFinite == IsFiniteSet(OrderIds) /\ OrderIds \subseteq Nat \ {0}
<1>1. MaxOrders \in Nat
  BY OrderAssumption
<1> QED
  BY <1>1, FS_Interval DEF OrderIds

\* The sums of the custody are naturals.
LEMMA CustodyNat ==
    ASSUME NEW s \in Market
    PROVE  /\ Total(Locks(s), OrderIds) \in Nat /\ Total(Offers(s), OrderIds) \in Nat
           /\ Total(s.pendingShares, OrderIds) \in Nat
           /\ \A id \in OrderIds : Locks(s)[id] \in Nat /\ Offers(s)[id] \in Nat
<1>1. \A id \in OrderIds : Locks(s)[id] \in Nat /\ Offers(s)[id] \in Nat
                             /\ s.pendingShares[id] \in Nat
  BY DEF Market, Order, Locks, Offers, OfferOf
<1> QED
  BY <1>1, IdsFinite, TotalNat

\* When one order changes, the sums change by what it locks and offers.
LEMMA CustodyChange ==
    ASSUME NEW s \in Market, NEW t \in Market, NEW k \in OrderIds,
           \A id \in OrderIds \ {k} : t.orders[id] = s.orders[id]
    PROVE  /\ Total(Locks(t), OrderIds) =
                Total(Locks(s), OrderIds) - s.orders[k].lockedPayment + t.orders[k].lockedPayment
           /\ Total(Offers(t), OrderIds) =
                Total(Offers(s), OrderIds) - OfferOf(s.orders[k]) + OfferOf(t.orders[k])
<1> DEFINE f == Locks(s)
<1> DEFINE g == Locks(t)
<1> DEFINE h == Offers(s)
<1> DEFINE i == Offers(t)
<1>1. /\ \A id \in OrderIds : f[id] \in Nat
      /\ \A id \in OrderIds : g[id] \in Nat
      /\ \A id \in OrderIds : h[id] \in Nat
      /\ \A id \in OrderIds : i[id] \in Nat
  BY CustodyNat
<1>2. /\ \A id \in OrderIds \ {k} : g[id] = f[id]
      /\ \A id \in OrderIds \ {k} : i[id] = h[id]
  BY DEF Locks, Offers
<1>3. /\ f[k] = s.orders[k].lockedPayment /\ g[k] = t.orders[k].lockedPayment
      /\ h[k] = OfferOf(s.orders[k]) /\ i[k] = OfferOf(t.orders[k])
  BY DEF Locks, Offers
<1> HIDE DEF f, g, h, i
<1>4. IsFiniteSet(OrderIds)
  BY IdsFinite
<1>5. Total(g, OrderIds) = Total(f, OrderIds) - f[k] + g[k]
  BY <1>1, <1>2, <1>4, TotalUpdate
<1>6. Total(i, OrderIds) = Total(h, OrderIds) - h[k] + i[k]
  BY <1>1, <1>2, <1>4, TotalUpdate
<1> QED
  BY <1>3, <1>5, <1>6 DEF f, g, h, i

\* No order locks or offers more than all of them.
LEMMA CustodyCovers ==
    ASSUME NEW s \in Market, NEW k \in OrderIds
    PROVE  /\ s.orders[k].lockedPayment <= Total(Locks(s), OrderIds)
           /\ OfferOf(s.orders[k]) <= Total(Offers(s), OrderIds)
<1>1. \A id \in OrderIds : Locks(s)[id] \in Nat /\ Offers(s)[id] \in Nat
  BY CustodyNat
<1>2. Locks(s)[k] <= Total(Locks(s), OrderIds) /\ Offers(s)[k] <= Total(Offers(s), OrderIds)
  BY <1>1, IdsFinite, TotalAtLeast
<1> QED
  BY <1>2 DEF Locks, Offers

-----------------------------------------------------------------------------
(* Helpers of a call.                                                      *)

\* An order that leaves its books leaves all of them.
LEMMA BooksLose ==
    ASSUME NEW s \in Market, NEW X \in SUBSET OrderIds, Books(s, X), NEW id \in OrderIds
    PROVE  /\ s.books \ {id} = Listed(s, X \cup {id})
           /\ s.unitBooks \ {<<s.orders[id].remainingUnits, id>>} =
                Entries(s, Listed(s, X \cup {id}))
           /\ s.partialBooks \ {id} = Partials(s, Listed(s, X \cup {id}))
  BY DEF Books, Listed, Entries, Partials

\* The books depend on the listed orders only.
LEMMA BooksSame ==
    ASSUME NEW s, NEW t, NEW L, \A k \in L : t.orders[k] = s.orders[k]
    PROVE  Entries(t, L) = Entries(s, L) /\ Partials(t, L) = Partials(s, L)
  BY DEF Entries, Partials

\* What _remove writes.
LEMMA RemovedFields ==
    ASSUME NEW s \in Market, NEW id \in OrderIds
    PROVE  LET r == Removed(s, id) IN
           /\ r \in Market
           /\ r.books = s.books \ {id}
           /\ r.unitBooks = s.unitBooks \ {<<s.orders[id].remainingUnits, id>>}
           /\ r.partialBooks = s.partialBooks \ {id}
           /\ r.orders = s.orders /\ r.pendingShares = s.pendingShares
           /\ r.totalLockedPayment = s.totalLockedPayment
           /\ r.cash = s.cash /\ r.escrow = s.escrow /\ r.fees = s.fees
           /\ r.wallet = s.wallet /\ r.shares = s.shares
  BY DEF Market, Removed

\* What _release writes.
LEMMA ReleasedFields ==
    ASSUME NEW s \in Market, NEW id \in OrderIds, s.orders[id].owner \in Traders,
           NEW rejecting,
           s.orders[id].side = "Bid" => /\ s.orders[id].lockedPayment <= s.totalLockedPayment
                                        /\ s.orders[id].lockedPayment <= s.cash,
           s.orders[id].side = "Ask" => s.orders[id].remainingUnits <= s.escrow
    PROVE  LET t == Released(s, id, rejecting)
               o == s.orders[id]
           IN  /\ t \in Market
               /\ \A k \in OrderIds \ {id} : /\ t.orders[k] = s.orders[k]
                                            /\ t.pendingShares[k] = s.pendingShares[k]
               /\ ~ t.orders[id].active /\ t.orders[id].lockedPayment = 0
               /\ t.books = s.books \ {id}
               /\ t.unitBooks = s.unitBooks \ {<<o.remainingUnits, id>>}
               /\ t.partialBooks = s.partialBooks \ {id}
               /\ o.side = "Bid" =>
                    /\ t.totalLockedPayment = s.totalLockedPayment - o.lockedPayment
                    /\ t.cash = s.cash - o.lockedPayment
                    /\ t.escrow = s.escrow /\ t.pendingShares = s.pendingShares
               /\ o.side = "Ask" =>
                    /\ t.totalLockedPayment = s.totalLockedPayment /\ t.cash = s.cash
                    /\ \/ t.escrow = s.escrow /\ t.pendingShares[id] = o.remainingUnits
                       \/ /\ t.escrow = s.escrow - o.remainingUnits
                          /\ t.pendingShares = s.pendingShares
<1> DEFINE o == s.orders[id]
<1> DEFINE q == Removed(s, id)
<1> DEFINE closed == [o EXCEPT !.active = FALSE, !.remainingUnits = 0, !.lockedPayment = 0]
<1> DEFINE r == [q EXCEPT !.orders[id] = closed]
<1>1. o \in Order /\ o.owner \in Traders /\ o.side \in {"Bid", "Ask"}
  BY DEF Market, Order
<1>2. closed \in Order
  BY <1>1 DEF Order
<1>3. /\ q \in Market
      /\ q.books = s.books \ {id}
      /\ q.unitBooks = s.unitBooks \ {<<o.remainingUnits, id>>}
      /\ q.partialBooks = s.partialBooks \ {id}
      /\ q.orders = s.orders /\ q.pendingShares = s.pendingShares
      /\ q.totalLockedPayment = s.totalLockedPayment
      /\ q.cash = s.cash /\ q.escrow = s.escrow
      /\ q.wallet = s.wallet /\ q.shares = s.shares
  BY RemovedFields
<1>0. ~ closed.active /\ closed.lockedPayment = 0
  BY <1>1 DEF Order
<1> HIDE DEF q, closed
<1>4. /\ r \in Market
      /\ r.orders = [s.orders EXCEPT ![id] = closed]
      /\ \A k \in OrderIds \ {id} : r.orders[k] = s.orders[k]
      /\ r.orders[id] = closed
      /\ r.books = q.books /\ r.unitBooks = q.unitBooks /\ r.partialBooks = q.partialBooks
      /\ r.totalLockedPayment = s.totalLockedPayment /\ r.cash = s.cash
      /\ r.escrow = s.escrow /\ r.pendingShares = s.pendingShares
      /\ r.wallet = s.wallet /\ r.shares = s.shares
  BY <1>2, <1>3 DEF Market
<1> DEFINE t == Released(s, id, rejecting)
<1>5. t = IF o.side = "Bid"
            THEN [r EXCEPT !.totalLockedPayment = @ - o.lockedPayment,
                           !.cash = @ - o.lockedPayment,
                           !.wallet[o.owner] = @ + o.lockedPayment]
          ELSE IF o.owner \in rejecting
            THEN [r EXCEPT !.pendingShares[id] = o.remainingUnits]
          ELSE [r EXCEPT !.escrow = @ - o.remainingUnits,
                         !.shares[o.owner] = @ + o.remainingUnits]
  BY DEF Released, q, closed
<1> HIDE DEF r, t
<1>6. CASE o.side = "Bid"
  <2> DEFINE a == r.totalLockedPayment - o.lockedPayment
  <2> DEFINE b == r.cash - o.lockedPayment
  <2> DEFINE w == [r.wallet EXCEPT ![o.owner] = @ + o.lockedPayment]
  <2>1. /\ o.lockedPayment \in Nat /\ r.totalLockedPayment \in Nat /\ r.cash \in Nat
        /\ o.lockedPayment <= r.totalLockedPayment /\ o.lockedPayment <= r.cash
        /\ r.wallet \in [Traders -> Nat]
    BY <1>1, <1>4, <1>6 DEF Market, Order
  <2>2. a \in Nat /\ b \in Nat /\ w \in [Traders -> Nat]
    BY <1>1, <2>1
  <2>3. t = [r EXCEPT !.totalLockedPayment = a, !.cash = b, !.wallet = w]
    BY <1>5, <1>6
  <2> HIDE DEF a, b, w, o
  <2>4. /\ t \in Market /\ t.orders = r.orders /\ t.books = r.books
        /\ t.unitBooks = r.unitBooks /\ t.partialBooks = r.partialBooks
        /\ t.totalLockedPayment = a /\ t.cash = b
        /\ t.escrow = r.escrow /\ t.pendingShares = r.pendingShares
    BY <1>4, <2>2, <2>3 DEF Market
  <2> QED
    BY <1>0, <1>3, <1>4, <1>6, <2>4 DEF t, a, b, o
<1>7. CASE o.side = "Ask"
  <2> DEFINE p == [r.pendingShares EXCEPT ![id] = o.remainingUnits]
  <2> DEFINE e == r.escrow - o.remainingUnits
  <2> DEFINE h == [r.shares EXCEPT ![o.owner] = @ + o.remainingUnits]
  <2>1. /\ o.remainingUnits \in Nat /\ r.escrow \in Nat /\ o.remainingUnits <= r.escrow
        /\ r.pendingShares \in [OrderIds -> Nat] /\ r.shares \in [Traders -> Nat]
    BY <1>1, <1>4, <1>7 DEF Market, Order
  <2>2. p \in [OrderIds -> Nat] /\ e \in Nat /\ h \in [Traders -> Nat]
    BY <1>1, <2>1
  <2>3. t = [r EXCEPT !.pendingShares = p] \/ t = [r EXCEPT !.escrow = e, !.shares = h]
    BY <1>5, <1>7
  <2> HIDE DEF p, e, h, o
  <2>4. /\ t \in Market /\ t.orders = r.orders /\ t.books = r.books
        /\ t.unitBooks = r.unitBooks /\ t.partialBooks = r.partialBooks
        /\ t.totalLockedPayment = r.totalLockedPayment /\ t.cash = r.cash
        /\ \/ t.escrow = r.escrow /\ t.pendingShares = p
           \/ t.escrow = e /\ t.pendingShares = r.pendingShares
    <3>1. CASE t = [r EXCEPT !.pendingShares = p]
      BY <1>4, <2>2, <3>1 DEF Market
    <3>2. CASE t = [r EXCEPT !.escrow = e, !.shares = h]
      BY <1>4, <2>2, <3>2 DEF Market
    <3> QED
      BY <2>3, <3>1, <3>2
  <2>5. p[id] = o.remainingUnits /\ \A k \in OrderIds \ {id} : p[k] = s.pendingShares[k]
    BY <1>4, <2>1 DEF p
  <2> QED
    BY <1>0, <1>3, <1>4, <1>7, <2>4, <2>5 DEF t, e, o
<1> QED
  BY <1>1, <1>6, <1>7 DEF t

\* An open order of the market, whether it is in hand or not.
LEMMA OpenOrder ==
    ASSUME NEW s, NEW X \in SUBSET OrderIds, Kept(s, X), NEW id \in OrderIds,
           s.orders[id].active
    PROVE  /\ s \in Market /\ s.orders[id] \in Order
           /\ s.orders[id].owner \in Traders
           /\ s.orders[id].side \in {"Bid", "Ask"}
           /\ s.orders[id].side = "Ask" => s.orders[id].lockedPayment = 0
           /\ s.orders[id].lockedPayment <= s.cash
           /\ s.cash = s.totalLockedPayment
           /\ s.pendingShares[id] = 0
           /\ OfferOf(s.orders[id]) <= s.escrow
<1> DEFINE o == s.orders[id]
<1>1. s \in Market /\ Custody(s) /\ s.pendingShares[id] = 0
  BY DEF Kept
<1>2. o \in Order /\ o.side \in {"Bid", "Ask"}
  BY <1>1 DEF Market, Order
<1>3. o.owner \in Traders /\ (o.side = "Ask" => o.lockedPayment = 0)
  BY DEF Kept, InHand, Settled, Placed, ReserveOf
<1>4. o.lockedPayment <= Total(Locks(s), OrderIds) /\ OfferOf(o) <= Total(Offers(s), OrderIds)
  BY <1>1, CustodyCovers
<1>5. /\ Total(Offers(s), OrderIds) \in Nat /\ Total(s.pendingShares, OrderIds) \in Nat
      /\ OfferOf(o) \in Nat
  BY <1>1, <1>2, CustodyNat DEF OfferOf, Order
<1> QED
  BY <1>1, <1>2, <1>3, <1>4, <1>5 DEF Custody

\* A release gives back what is left of an order, in hand or not, and closes
\* it; shares the owner's receiver rejects become his to withdraw.
LEMMA ReleasedKeeps ==
    ASSUME NEW s, NEW X \in SUBSET OrderIds, Kept(s, X), NEW id \in OrderIds,
           s.orders[id].active, NEW rejecting
    PROVE  /\ Kept(Released(s, id, rejecting), X \ {id})
           /\ OpensNone(s, Released(s, id, rejecting))
<1> DEFINE o == s.orders[id]
<1> DEFINE t == Released(s, id, rejecting)
<1>1. /\ s \in Market /\ o \in Order /\ o.owner \in Traders /\ o.side \in {"Bid", "Ask"}
      /\ o.side = "Ask" => o.lockedPayment = 0
      /\ o.lockedPayment <= s.cash /\ s.cash = s.totalLockedPayment
      /\ s.pendingShares[id] = 0 /\ OfferOf(o) <= s.escrow
  BY OpenOrder
<1>2. o.side = "Ask" => o.remainingUnits <= s.escrow
  BY <1>1 DEF OfferOf
<1>3. /\ t \in Market
      /\ \A k \in OrderIds \ {id} : /\ t.orders[k] = s.orders[k]
                                   /\ t.pendingShares[k] = s.pendingShares[k]
      /\ ~ t.orders[id].active /\ t.orders[id].lockedPayment = 0
      /\ t.books = s.books \ {id}
      /\ t.unitBooks = s.unitBooks \ {<<o.remainingUnits, id>>}
      /\ t.partialBooks = s.partialBooks \ {id}
      /\ o.side = "Bid" =>
           /\ t.totalLockedPayment = s.totalLockedPayment - o.lockedPayment
           /\ t.cash = s.cash - o.lockedPayment
           /\ t.escrow = s.escrow /\ t.pendingShares = s.pendingShares
      /\ o.side = "Ask" =>
           /\ t.totalLockedPayment = s.totalLockedPayment /\ t.cash = s.cash
           /\ \/ t.escrow = s.escrow /\ t.pendingShares[id] = o.remainingUnits
              \/ /\ t.escrow = s.escrow - o.remainingUnits
                 /\ t.pendingShares = s.pendingShares
  BY <1>1, <1>2, ReleasedFields
<1> HIDE DEF t
<1>4. /\ \A k \in OrderIds \ {id} : t.orders[k] = s.orders[k]
      /\ \A k \in OrderIds \ {id} : t.pendingShares[k] = s.pendingShares[k]
      /\ ~ t.orders[id].active /\ t.orders[id].lockedPayment = 0
      /\ t.orders[id] \in Order
  BY <1>3 DEF Market
<1>5. OfferOf(t.orders[id]) = 0 /\ ReserveOf(t.orders[id]) = 0 /\ o.active
      /\ OfferOf(o) = (IF o.side = "Ask" THEN o.remainingUnits ELSE 0)
  BY <1>4 DEF OfferOf, ReserveOf
<1>6. Custody(t)
  <2>1. /\ Total(Locks(t), OrderIds) = Total(Locks(s), OrderIds) - o.lockedPayment + 0
        /\ Total(Offers(t), OrderIds) = Total(Offers(s), OrderIds) - OfferOf(o) + 0
    <3> HIDE DEF o
    <3>1. /\ Total(Locks(t), OrderIds) =
               Total(Locks(s), OrderIds) - s.orders[id].lockedPayment + t.orders[id].lockedPayment
          /\ Total(Offers(t), OrderIds) =
               Total(Offers(s), OrderIds) - OfferOf(s.orders[id]) + OfferOf(t.orders[id])
      BY <1>1, <1>3, <1>4, CustodyChange
    <3> QED
      BY <1>4, <1>5, <3>1 DEF o
  <2>2. /\ Total(Locks(s), OrderIds) \in Nat /\ Total(Offers(s), OrderIds) \in Nat
        /\ Total(s.pendingShares, OrderIds) \in Nat
    BY <1>1, CustodyNat
  <2>3. Custody(s) /\ o.lockedPayment \in Nat /\ o.remainingUnits \in Nat
    BY <1>1 DEF Kept, Order
  <2>4. t.pendingShares[id] = o.remainingUnits =>
          Total(t.pendingShares, OrderIds) = Total(s.pendingShares, OrderIds) + o.remainingUnits
    <3> DEFINE f == s.pendingShares
    <3> DEFINE g == t.pendingShares
    <3>1. IsFiniteSet(OrderIds)
      BY IdsFinite
    <3>2. SUFFICES ASSUME g[id] = o.remainingUnits
                   PROVE  Total(g, OrderIds) = Total(f, OrderIds) + o.remainingUnits
      OBVIOUS
    <3>3. /\ \A k \in OrderIds : f[k] \in Nat
          /\ \A k \in OrderIds : g[k] \in Nat
          /\ \A k \in OrderIds \ {id} : g[k] = f[k]
          /\ f[id] = 0 /\ g[id] = o.remainingUnits
      BY <1>1, <1>3, <1>4, <3>2 DEF Market
    <3> HIDE DEF f, g
    <3>4. Total(g, OrderIds) = Total(f, OrderIds) - f[id] + g[id]
      BY <3>1, <3>3, TotalUpdate
    <3> QED
      BY <2>2, <2>3, <3>3, <3>4 DEF f
  <2>5. CASE o.side = "Bid"
    BY <1>3, <1>5, <2>1, <2>2, <2>3, <2>5 DEF Custody
  <2>6. CASE o.side = "Ask"
    BY <1>1, <1>3, <1>5, <2>1, <2>2, <2>3, <2>4, <2>6 DEF Custody
  <2> QED
    BY <1>1, <2>5, <2>6
<1>7. /\ \A k \in OrderIds \ (X \ {id}) : Settled(t.orders[k])
      /\ \A k \in X \ {id} : InHand(t.orders[k])
  BY <1>4, <1>5 DEF Kept, Settled, Placed
<1>8. Books(t, X \ {id})
  <2>1. Listed(t, X \ {id}) = Listed(s, X \cup {id})
    BY <1>4 DEF Listed
  <2>2. /\ t.books = Listed(t, X \ {id})
        /\ t.unitBooks = Entries(s, Listed(t, X \ {id}))
        /\ t.partialBooks = Partials(s, Listed(t, X \ {id}))
    <3>1. Books(s, X)
      BY DEF Kept
    <3>2. /\ s.books \ {id} = Listed(s, X \cup {id})
          /\ s.unitBooks \ {<<o.remainingUnits, id>>} = Entries(s, Listed(s, X \cup {id}))
          /\ s.partialBooks \ {id} = Partials(s, Listed(s, X \cup {id}))
      BY <1>1, <3>1, BooksLose
    <3> QED
      BY <1>3, <2>1, <3>2
  <2>3. \A k \in Listed(t, X \ {id}) : t.orders[k] = s.orders[k]
    BY <1>4 DEF Listed
  <2> QED
    BY <2>2, <2>3, BooksSame DEF Books
<1>9. \A k \in OrderIds : t.orders[k].active => t.pendingShares[k] = 0
  BY <1>4 DEF Kept
<1>10. OpensNone(s, t)
  BY <1>4, <1>5 DEF OpensNone, Blank
<1> QED
  BY <1>3, <1>6, <1>7, <1>8, <1>9, <1>10 DEF Kept, t

\* Two values of an order that differ in what is locked for it at most.
SameTerms(o, p) ==
    /\ p.owner = o.owner /\ p.side = o.side /\ p.remainingUnits = o.remainingUnits
    /\ p.unitPrice = o.unitPrice /\ p.autoMatch = o.autoMatch /\ p.active = o.active
    /\ p.allowPartial = o.allowPartial

\* What the trimming of a bid writes.
LEMMA TrimmedFields ==
    ASSUME NEW s \in Market, NEW id \in OrderIds, s.orders[id].owner \in Traders,
           NEW needed \in Nat,
           needed = ReserveFor(s.orders[id].remainingUnits, s.orders[id].unitPrice),
           needed <= s.orders[id].lockedPayment,
           s.orders[id].lockedPayment <= s.cash, s.totalLockedPayment = s.cash
    PROVE  LET t == BidTrimmed(s, id)
               o == s.orders[id]
           IN  /\ t \in Market
               /\ \A k \in OrderIds \ {id} : t.orders[k] = s.orders[k]
               /\ SameTerms(o, t.orders[id]) /\ t.orders[id].lockedPayment = needed
               /\ t.totalLockedPayment = s.totalLockedPayment - (o.lockedPayment - needed)
               /\ t.cash = s.cash - (o.lockedPayment - needed)
               /\ t.books = s.books /\ t.unitBooks = s.unitBooks
               /\ t.partialBooks = s.partialBooks
               /\ t.escrow = s.escrow /\ t.pendingShares = s.pendingShares
<1> DEFINE o == s.orders[id]
<1> DEFINE x == o.lockedPayment - needed
<1> DEFINE trimmed == [o EXCEPT !.lockedPayment = needed]
<1> DEFINE os == [s.orders EXCEPT ![id] = trimmed]
<1> DEFINE a == s.totalLockedPayment - x
<1> DEFINE b == s.cash - x
<1> DEFINE w == [s.wallet EXCEPT ![o.owner] = @ + x]
<1> DEFINE t == BidTrimmed(s, id)
<1>1. /\ o \in Order /\ s.cash \in Nat /\ s.wallet \in [Traders -> Nat]
      /\ s.orders \in [OrderIds -> Order] /\ o.lockedPayment \in Nat
  BY DEF Market, Order
<1>2. trimmed \in Order /\ SameTerms(o, trimmed) /\ trimmed.lockedPayment = needed
  BY <1>1 DEF Order, SameTerms
<1>3. x \in Nat /\ a \in Nat /\ b \in Nat
  BY <1>1
<1>4. w \in [Traders -> Nat]
  BY <1>1, <1>3
<1>5. t = [s EXCEPT !.orders = os, !.totalLockedPayment = a, !.cash = b, !.wallet = w]
  BY DEF BidTrimmed
<1> HIDE DEF trimmed, a, b, w, t, x
<1>6. /\ os \in [OrderIds -> Order] /\ os[id] = trimmed
      /\ \A k \in OrderIds \ {id} : os[k] = s.orders[k]
  BY <1>1, <1>2
<1> HIDE DEF os, o
<1>7. /\ t \in Market /\ t.orders = os /\ t.totalLockedPayment = a /\ t.cash = b
      /\ t.books = s.books /\ t.unitBooks = s.unitBooks
      /\ t.partialBooks = s.partialBooks
      /\ t.escrow = s.escrow /\ t.pendingShares = s.pendingShares
  BY <1>3, <1>4, <1>5, <1>6 DEF Market
<1> QED
  BY <1>2, <1>6, <1>7 DEF a, b, x, o, t

\* What the reserve of an order in the market is.
LEMMA ReserveNat ==
    ASSUME NEW u \in Nat, NEW p \in Nat
    PROVE  ReserveFor(u, p) \in Nat /\ Gross(u, p) \in Nat /\ Gross(u, p) <= ReserveFor(u, p)
<1>1. ShareScale \in Nat \ {0}
  BY OrderAssumption
<1>2. /\ MulDiv(u, p, ShareScale) \in Nat /\ MulDivUp(0, p, ShareScale) \in Nat
      /\ MulDivUp(u + 0, p, ShareScale) \in Nat
      /\ MulDiv(u, p, ShareScale) + MulDivUp(0, p, ShareScale) <= MulDivUp(u + 0, p, ShareScale)
  BY <1>1, RoundingSplit
<1>3. u + 0 = u
  OBVIOUS
<1> QED
  BY <1>2, <1>3 DEF ReserveFor, Gross

\* A bid in hand gives back what it does not need any more.
LEMMA TrimmedKeeps ==
    ASSUME NEW s, NEW X \in SUBSET OrderIds, Kept(s, X), NEW id \in X,
           s.orders[id].side = "Bid"
    PROVE  LET t == BidTrimmed(s, id) IN
           /\ Kept(t, X)
           /\ SameTerms(s.orders[id], t.orders[id])
           /\ t.orders[id].lockedPayment = ReserveOf(t.orders[id])
           /\ OpensNone(s, t)
<1> DEFINE o == s.orders[id]
<1> DEFINE t == BidTrimmed(s, id)
<1> DEFINE needed == ReserveFor(o.remainingUnits, o.unitPrice)
<1>1. InHand(o) /\ o.active
  BY DEF Kept, InHand
<1>2. /\ s \in Market /\ o \in Order /\ o.owner \in Traders
      /\ o.lockedPayment <= s.cash /\ s.cash = s.totalLockedPayment
  BY <1>1, OpenOrder
<1>3. needed \in Nat /\ needed <= o.lockedPayment
  <2>1. o.remainingUnits \in Nat /\ o.unitPrice \in Nat
    BY <1>2 DEF Order
  <2>2. needed \in Nat
    BY <2>1, ReserveNat
  <2> QED
    BY <1>1, <2>2 DEF InHand, ReserveOf
<1> HIDE DEF t
<1>4. /\ t \in Market
      /\ \A k \in OrderIds \ {id} : t.orders[k] = s.orders[k]
      /\ SameTerms(o, t.orders[id]) /\ t.orders[id].lockedPayment = needed
      /\ t.totalLockedPayment = s.totalLockedPayment - (o.lockedPayment - needed)
      /\ t.cash = s.cash - (o.lockedPayment - needed)
      /\ t.books = s.books /\ t.unitBooks = s.unitBooks
      /\ t.partialBooks = s.partialBooks
      /\ t.escrow = s.escrow /\ t.pendingShares = s.pendingShares
  <2> HIDE DEF needed
  <2>1. needed = ReserveFor(s.orders[id].remainingUnits, s.orders[id].unitPrice)
    BY DEF needed
  <2>2. s.totalLockedPayment = s.cash
    BY <1>2
  <2> QED
    BY <1>2, <1>3, <2>1, <2>2, TrimmedFields DEF t
<1>5. /\ ReserveOf(t.orders[id]) = needed
      /\ OfferOf(o) = 0 /\ OfferOf(t.orders[id]) = 0
      /\ InHand(t.orders[id])
  BY <1>1, <1>3, <1>4 DEF InHand, Placed, ReserveOf, OfferOf, SameTerms
<1> HIDE DEF needed
<1>6. Custody(t)
  <2> HIDE DEF o
  <2>1. /\ Total(Locks(t), OrderIds) =
             Total(Locks(s), OrderIds) - s.orders[id].lockedPayment + t.orders[id].lockedPayment
        /\ Total(Offers(t), OrderIds) =
             Total(Offers(s), OrderIds) - OfferOf(s.orders[id]) + OfferOf(t.orders[id])
    BY <1>2, <1>4, CustodyChange
  <2>2. /\ Total(Locks(s), OrderIds) \in Nat /\ Total(Offers(s), OrderIds) \in Nat
    BY <1>2, CustodyNat
  <2>3. Custody(s) /\ o.lockedPayment \in Nat
    BY <1>2 DEF Kept, Order
  <2> QED
    BY <1>2, <1>3, <1>4, <1>5, <2>1, <2>2, <2>3 DEF Custody, o
<1>7. /\ \A k \in OrderIds \ X : Settled(t.orders[k])
      /\ \A k \in X : InHand(t.orders[k])
      /\ \A k \in OrderIds : t.orders[k].active => t.pendingShares[k] = 0
  BY <1>4, <1>5 DEF Kept, SameTerms
<1>8. Books(t, X)
  <2>1. Listed(t, X) = Listed(s, X)
    BY <1>4 DEF Listed
  <2>2. \A k \in Listed(s, X) : t.orders[k] = s.orders[k]
    BY <1>4 DEF Listed
  <2>3. Books(s, X)
    BY DEF Kept
  <2> QED
    BY <1>4, <2>1, <2>2, <2>3, BooksSame DEF Books
<1>9. OpensNone(s, t)
  BY <1>4 DEF OpensNone, Blank, SameTerms
<1> QED
  BY <1>4, <1>5, <1>6, <1>7, <1>8, <1>9 DEF Kept, t

\* What _insert writes.
LEMMA InsertedFields ==
    ASSUME NEW s \in Market, NEW id \in OrderIds
    PROVE  LET t == Inserted(s, id) IN
           /\ t \in Market
           /\ t.orders = s.orders /\ t.pendingShares = s.pendingShares
           /\ t.totalLockedPayment = s.totalLockedPayment
           /\ t.cash = s.cash /\ t.escrow = s.escrow /\ t.fees = s.fees
           /\ t.wallet = s.wallet /\ t.shares = s.shares
           /\ t.books = s.books \cup {id}
           /\ t.unitBooks = s.unitBooks \cup {<<s.orders[id].remainingUnits, id>>}
           /\ t.partialBooks = IF s.orders[id].allowPartial
                                 THEN s.partialBooks \cup {id} ELSE s.partialBooks
<1>1. s.orders[id].remainingUnits \in Nat
  BY DEF Market, Order
<1> DEFINE b == s.books \cup {id}
<1> DEFINE u == s.unitBooks \cup {<<s.orders[id].remainingUnits, id>>}
<1> DEFINE p == IF s.orders[id].allowPartial THEN s.partialBooks \cup {id} ELSE s.partialBooks
<1> DEFINE t == Inserted(s, id)
<1>2. b \in SUBSET OrderIds /\ u \in SUBSET (Nat \X OrderIds) /\ p \in SUBSET OrderIds
  BY <1>1 DEF Market
<1>3. t = [s EXCEPT !.books = b, !.unitBooks = u, !.partialBooks = p]
  BY DEF Inserted
<1> HIDE DEF b, u, p, t
<1>4. /\ t \in Market
      /\ t.orders = s.orders /\ t.pendingShares = s.pendingShares
      /\ t.totalLockedPayment = s.totalLockedPayment
      /\ t.cash = s.cash /\ t.escrow = s.escrow /\ t.fees = s.fees
      /\ t.wallet = s.wallet /\ t.shares = s.shares
      /\ t.books = b /\ t.unitBooks = u /\ t.partialBooks = p
  BY <1>2, <1>3 DEF Market
<1> QED
  BY <1>4 DEF b, u, p, t

\* The custody looks at orders, balances and pending shares only.
LEMMA CustodySame ==
    ASSUME NEW s, NEW t, t.orders = s.orders, t.pendingShares = s.pendingShares,
           t.totalLockedPayment = s.totalLockedPayment, t.cash = s.cash, t.escrow = s.escrow,
           Custody(s)
    PROVE  Custody(t)
<1>1. Locks(t) = Locks(s) /\ Offers(t) = Offers(s)
  BY DEF Locks, Offers
<1> QED
  BY <1>1 DEF Custody

\* An order in hand that is in shape again goes back to its books.
LEMMA PutBackKeeps ==
    ASSUME NEW s, NEW X \in SUBSET OrderIds, Kept(s, X), NEW id \in X,
           Settled(s.orders[id]), NEW t,
           t = IF s.orders[id].autoMatch THEN Inserted(s, id) ELSE s
    PROVE  Kept(t, X \ {id}) /\ OpensNone(s, t)
<1>1. s \in Market /\ s.orders[id].active /\ Books(s, X) /\ Custody(s)
  BY DEF Kept, InHand
<1>2. CASE ~ s.orders[id].autoMatch
  <2>1. t = s
    BY <1>2
  <2>2. Listed(s, X \ {id}) = Listed(s, X)
    BY <1>2 DEF Listed
  <2> QED
    BY <2>1, <2>2 DEF Kept, Books, OpensNone
<1>3. CASE s.orders[id].autoMatch
  <2>1. t = Inserted(s, id) /\ id \in OrderIds
    BY <1>3
  <2>2. /\ t \in Market
        /\ t.orders = s.orders /\ t.pendingShares = s.pendingShares
        /\ t.totalLockedPayment = s.totalLockedPayment
        /\ t.cash = s.cash /\ t.escrow = s.escrow
        /\ t.books = s.books \cup {id}
        /\ t.unitBooks = s.unitBooks \cup {<<s.orders[id].remainingUnits, id>>}
        /\ t.partialBooks = IF s.orders[id].allowPartial
                              THEN s.partialBooks \cup {id} ELSE s.partialBooks
    <3>1. /\ Inserted(s, id) \in Market
          /\ Inserted(s, id).orders = s.orders /\ Inserted(s, id).pendingShares = s.pendingShares
          /\ Inserted(s, id).totalLockedPayment = s.totalLockedPayment
          /\ Inserted(s, id).cash = s.cash /\ Inserted(s, id).escrow = s.escrow
          /\ Inserted(s, id).books = s.books \cup {id}
          /\ Inserted(s, id).unitBooks = s.unitBooks \cup {<<s.orders[id].remainingUnits, id>>}
          /\ Inserted(s, id).partialBooks = IF s.orders[id].allowPartial
                                THEN s.partialBooks \cup {id} ELSE s.partialBooks
      BY <1>1, <2>1, InsertedFields
    <3> QED
      BY <2>1, <3>1
  <2>3. Listed(t, X \ {id}) = Listed(s, X) \cup {id}
    BY <1>1, <1>3, <2>2 DEF Listed
  <2>4. /\ Entries(t, Listed(s, X) \cup {id}) =
             Entries(s, Listed(s, X)) \cup {<<s.orders[id].remainingUnits, id>>}
        /\ Partials(t, Listed(s, X) \cup {id}) =
             IF s.orders[id].allowPartial
               THEN Partials(s, Listed(s, X)) \cup {id} ELSE Partials(s, Listed(s, X))
    BY <2>2 DEF Entries, Partials
  <2>5. Books(t, X \ {id})
    BY <1>1, <2>2, <2>3, <2>4 DEF Books
  <2>6. Custody(t)
    BY <1>1, <2>2, CustodySame
  <2> QED
    BY <2>2, <2>5, <2>6 DEF Kept, OpensNone, Blank
<1> QED
  BY <1>2, <1>3

\* _finish: dust is given back, a bid is trimmed, and what goes on trading
\* automatically returns to its books.
LEMMA FinishedKeeps ==
    ASSUME NEW s, NEW X \in SUBSET OrderIds, Kept(s, X), NEW id \in X, NEW rejecting
    PROVE  /\ Kept(Finished(s, id, rejecting), X \ {id})
           /\ OpensNone(s, Finished(s, id, rejecting))
<1> DEFINE o == s.orders[id]
<1> DEFINE t == IF o.side = "Bid" THEN BidTrimmed(s, id) ELSE s
<1> DEFINE u == IF o.autoMatch THEN Inserted(t, id) ELSE t
<1>1. /\ InHand(o) /\ o.active /\ s \in Market /\ o \in Order
      /\ o.side \in {"Bid", "Ask"} /\ (o.side = "Ask" => o.lockedPayment = 0)
  <2>1. InHand(o) /\ o.active /\ id \in OrderIds
    BY DEF Kept, InHand
  <2> QED
    BY <2>1, OpenOrder
<1>2. Finished(s, id, rejecting) = IF IsDust(o) THEN Released(s, id, rejecting) ELSE u
  BY DEF Finished
<1>3. CASE IsDust(o)
  BY <1>1, <1>2, <1>3, ReleasedKeeps
<1>4. CASE ~ IsDust(o)
  <2>1. /\ Kept(t, X) /\ SameTerms(o, t.orders[id]) /\ OpensNone(s, t)
        /\ t.orders[id].lockedPayment = ReserveOf(t.orders[id])
    <3>1. CASE o.side = "Bid"
      BY <3>1, TrimmedKeeps
    <3>2. CASE o.side = "Ask"
      BY <1>1, <3>2 DEF SameTerms, OpensNone, ReserveOf
    <3> QED
      BY <1>1, <3>1, <3>2
  <2> HIDE DEF t
  <2>2. Settled(t.orders[id])
    <3>1. /\ o.remainingUnits \in Nat /\ o.unitPrice \in Nat /\ MinimumC2CUnits \in Nat
      BY <1>1, OrderAssumption DEF Order
    <3> QED
      BY <1>1, <1>4, <2>1, <3>1 DEF Settled, SameTerms, IsDust, InHand, Placed
  <2>3. u = IF t.orders[id].autoMatch THEN Inserted(t, id) ELSE t
    BY <2>1 DEF SameTerms
  <2> HIDE DEF u
  <2>4. Kept(u, X \ {id}) /\ OpensNone(t, u)
    BY <2>1, <2>2, <2>3, PutBackKeeps
  <2> QED
    BY <1>2, <1>4, <2>1, <2>4 DEF OpensNone
<1> QED
  BY <1>3, <1>4

-----------------------------------------------------------------------------
(* A trade takes units of an order, and of a bid the payment for them.     *)

Traded(o, p, units, gross) ==
    /\ p.owner = o.owner /\ p.side = o.side /\ p.unitPrice = o.unitPrice
    /\ p.autoMatch = o.autoMatch /\ p.active = o.active /\ p.allowPartial = o.allowPartial
    /\ p.remainingUnits = o.remainingUnits - units
    /\ p.lockedPayment = o.lockedPayment - gross

\* What the taking of units writes.
LEMMA TakenFields ==
    ASSUME NEW s \in Market, NEW id \in OrderIds, NEW units \in Nat,
           units <= s.orders[id].remainingUnits
    PROVE  LET t == Taken(s, id, units) IN
           /\ t \in Market
           /\ \A k \in OrderIds \ {id} : t.orders[k] = s.orders[k]
           /\ Traded(s.orders[id], t.orders[id], units, 0)
           /\ t.books = s.books \ {id}
           /\ t.unitBooks = s.unitBooks \ {<<s.orders[id].remainingUnits, id>>}
           /\ t.partialBooks = s.partialBooks \ {id}
           /\ t.pendingShares = s.pendingShares
           /\ t.totalLockedPayment = s.totalLockedPayment
           /\ t.cash = s.cash /\ t.escrow = s.escrow /\ t.fees = s.fees
           /\ t.wallet = s.wallet /\ t.shares = s.shares
<1> DEFINE o == s.orders[id]
<1> DEFINE r == Removed(s, id)
<1> DEFINE p == [o EXCEPT !.remainingUnits = @ - units]
<1> DEFINE os == [s.orders EXCEPT ![id] = p]
<1> DEFINE t == Taken(s, id, units)
<1>1. o \in Order /\ s.orders \in [OrderIds -> Order]
  BY DEF Market
<1>2. p \in Order /\ Traded(o, p, units, 0)
  BY <1>1 DEF Order, Traded
<1>3. /\ r \in Market
      /\ r.books = s.books \ {id}
      /\ r.unitBooks = s.unitBooks \ {<<s.orders[id].remainingUnits, id>>}
      /\ r.partialBooks = s.partialBooks \ {id}
      /\ r.orders = s.orders /\ r.pendingShares = s.pendingShares
      /\ r.totalLockedPayment = s.totalLockedPayment
      /\ r.cash = s.cash /\ r.escrow = s.escrow /\ r.fees = s.fees
      /\ r.wallet = s.wallet /\ r.shares = s.shares
  BY RemovedFields
<1>4. t = [r EXCEPT !.orders = os]
  BY <1>3 DEF Taken
<1> HIDE DEF p, r, t
<1>5. /\ os \in [OrderIds -> Order] /\ os[id] = p
      /\ \A k \in OrderIds \ {id} : os[k] = s.orders[k]
  BY <1>1, <1>2
<1> HIDE DEF os, o
<1>6. /\ t \in Market /\ t.orders = os
      /\ t.books = r.books /\ t.unitBooks = r.unitBooks
      /\ t.partialBooks = r.partialBooks /\ t.pendingShares = r.pendingShares
      /\ t.totalLockedPayment = r.totalLockedPayment
      /\ t.cash = r.cash /\ t.escrow = r.escrow /\ t.fees = r.fees
      /\ t.wallet = r.wallet /\ t.shares = r.shares
  BY <1>3, <1>4, <1>5 DEF Market
<1> QED
  BY <1>2, <1>3, <1>5, <1>6 DEF t, o

\* What the spending of a lock writes.
LEMMA SpentFields ==
    ASSUME NEW s \in Market, NEW id \in OrderIds, NEW gross \in Nat,
           gross <= s.orders[id].lockedPayment, gross <= s.totalLockedPayment
    PROVE  LET t == Spent(s, id, gross) IN
           /\ t \in Market
           /\ \A k \in OrderIds \ {id} : t.orders[k] = s.orders[k]
           /\ Traded(s.orders[id], t.orders[id], 0, gross)
           /\ t.totalLockedPayment = s.totalLockedPayment - gross
           /\ t.books = s.books /\ t.unitBooks = s.unitBooks
           /\ t.partialBooks = s.partialBooks /\ t.pendingShares = s.pendingShares
           /\ t.cash = s.cash /\ t.escrow = s.escrow /\ t.fees = s.fees
           /\ t.wallet = s.wallet /\ t.shares = s.shares
<1> DEFINE o == s.orders[id]
<1> DEFINE p == [o EXCEPT !.lockedPayment = @ - gross]
<1> DEFINE os == [s.orders EXCEPT ![id] = p]
<1> DEFINE a == s.totalLockedPayment - gross
<1> DEFINE t == Spent(s, id, gross)
<1>1. o \in Order /\ s.orders \in [OrderIds -> Order] /\ s.totalLockedPayment \in Nat
  BY DEF Market
<1>2. p \in Order /\ Traded(o, p, 0, gross) /\ a \in Nat
  BY <1>1 DEF Order, Traded
<1>3. t = [s EXCEPT !.orders = os, !.totalLockedPayment = a]
  BY DEF Spent
<1> HIDE DEF p, a, t
<1>4. /\ os \in [OrderIds -> Order] /\ os[id] = p
      /\ \A k \in OrderIds \ {id} : os[k] = s.orders[k]
  BY <1>1, <1>2
<1> HIDE DEF os, o
<1>5. /\ t \in Market /\ t.orders = os /\ t.totalLockedPayment = a
      /\ t.books = s.books /\ t.unitBooks = s.unitBooks
      /\ t.partialBooks = s.partialBooks /\ t.pendingShares = s.pendingShares
      /\ t.cash = s.cash /\ t.escrow = s.escrow /\ t.fees = s.fees
      /\ t.wallet = s.wallet /\ t.shares = s.shares
  BY <1>2, <1>3, <1>4 DEF Market
<1> QED
  BY <1>2, <1>4, <1>5 DEF t, o, a

\* What a payment writes: the seller gets the price less the fees.
LEMMA PaidFields ==
    ASSUME NEW s \in Market, NEW seller \in Traders, NEW gross \in Nat, gross <= s.cash
    PROVE  LET t == Paid(s, seller, gross) IN
           /\ t \in Market /\ t.cash = s.cash - gross
           /\ t.orders = s.orders /\ t.pendingShares = s.pendingShares
           /\ t.books = s.books /\ t.unitBooks = s.unitBooks
           /\ t.partialBooks = s.partialBooks
           /\ t.totalLockedPayment = s.totalLockedPayment
           /\ t.escrow = s.escrow /\ t.shares = s.shares
<1> DEFINE b == s.cash - gross
<1> DEFINE w == [s.wallet EXCEPT ![seller] = @ + gross - FeesOn(gross)]
<1> DEFINE f == s.fees + FeesOn(gross)
<1> DEFINE t == Paid(s, seller, gross)
<1>1. FeesOn(gross) \in Nat /\ FeesOn(gross) <= gross
  BY FeesBound
<1>2. s.cash \in Nat /\ s.fees \in Nat /\ s.wallet \in [Traders -> Nat]
  BY DEF Market
<1>3. b \in Nat /\ f \in Nat /\ w \in [Traders -> Nat]
  BY <1>1, <1>2
<1>4. t = [s EXCEPT !.cash = b, !.wallet = w, !.fees = f]
  BY DEF Paid
<1> HIDE DEF b, w, f, t
<1>5. /\ t \in Market /\ t.cash = b
      /\ t.orders = s.orders /\ t.pendingShares = s.pendingShares
      /\ t.books = s.books /\ t.unitBooks = s.unitBooks
      /\ t.partialBooks = s.partialBooks
      /\ t.totalLockedPayment = s.totalLockedPayment
      /\ t.escrow = s.escrow /\ t.shares = s.shares
  BY <1>3, <1>4 DEF Market
<1> QED
  BY <1>5 DEF t, b

\* The lock of a bid covers a trade at its price or a better one, and the
\* rest of the lock covers the rest of the bid.
LEMMA RestCovered ==
    ASSUME NEW o \in Order, Settled(o), o.active, o.side = "Bid",
           NEW units \in Nat, units <= o.remainingUnits, NEW price \in Nat, price <= o.unitPrice
    PROVE  /\ Gross(units, price) \in Nat /\ Gross(units, price) <= o.lockedPayment
           /\ ReserveFor(o.remainingUnits - units, o.unitPrice)
                <= o.lockedPayment - Gross(units, price)
<1> DEFINE rest == o.remainingUnits - units
<1> DEFINE p == o.unitPrice
<1>1. /\ o.remainingUnits \in Nat /\ p \in Nat /\ rest \in Nat /\ units + rest = o.remainingUnits
      /\ o.lockedPayment = ReserveFor(units + rest, p) /\ ShareScale \in Nat \ {0}
  BY OrderAssumption DEF Order, Settled, ReserveOf
<1> HIDE DEF rest
<1>2. /\ MulDiv(units, p, ShareScale) \in Nat /\ MulDivUp(rest, p, ShareScale) \in Nat
      /\ MulDivUp(units + rest, p, ShareScale) \in Nat
      /\ MulDiv(units, p, ShareScale) + MulDivUp(rest, p, ShareScale)
           <= MulDivUp(units + rest, p, ShareScale)
  BY <1>1, RoundingSplit
<1>3. /\ MulDiv(units, price, ShareScale) \in Nat
      /\ MulDiv(units, price, ShareScale) <= MulDiv(units, p, ShareScale)
  BY <1>1, GrossGrows
<1> QED
  BY <1>1, <1>2, <1>3 DEF Gross, ReserveFor, rest

\* Taking the units and spending the lock together are a trade.
LEMMA TradedTwice ==
    ASSUME NEW o \in Order, NEW p, NEW q, NEW units \in Nat, NEW gross \in Nat,
           Traded(o, p, units, 0), Traded(p, q, 0, gross)
    PROVE  Traded(o, q, units, gross)
<1>1. o.remainingUnits \in Nat /\ o.lockedPayment \in Nat
  BY DEF Order
<1> QED
  BY <1>1 DEF Traded

\* A trade takes a settled order in hand.
LEMMA TradeKeeps ==
    ASSUME NEW s, NEW X \in SUBSET OrderIds, Kept(s, X), NEW id \in OrderIds \ X,
           s.orders[id].active,
           NEW units \in Nat, units <= s.orders[id].remainingUnits, NEW gross \in Nat,
           s.orders[id].side = "Bid" =>
             ReserveFor(s.orders[id].remainingUnits - units, s.orders[id].unitPrice)
               <= s.orders[id].lockedPayment - gross,
           s.orders[id].side = "Ask" => gross = 0,
           NEW t \in Market,
           \A k \in OrderIds \ {id} : t.orders[k] = s.orders[k],
           Traded(s.orders[id], t.orders[id], units, gross),
           t.totalLockedPayment = s.totalLockedPayment - gross,
           t.cash = s.cash - gross,
           t.escrow = s.escrow - (IF s.orders[id].side = "Ask" THEN units ELSE 0),
           t.pendingShares = s.pendingShares,
           t.books = s.books \ {id},
           t.unitBooks = s.unitBooks \ {<<s.orders[id].remainingUnits, id>>},
           t.partialBooks = s.partialBooks \ {id}
    PROVE  Kept(t, X \cup {id}) /\ OpensNone(s, t)
<1> DEFINE o == s.orders[id]
<1> DEFINE p == t.orders[id]
<1>1. /\ s \in Market /\ o \in Order /\ o.side \in {"Bid", "Ask"}
      /\ o.side = "Ask" => o.lockedPayment = 0
  BY OpenOrder
<1>2. /\ OfferOf(o) = (IF o.side = "Ask" THEN o.remainingUnits ELSE 0)
      /\ OfferOf(p) = (IF o.side = "Ask" THEN o.remainingUnits - units ELSE 0)
  BY DEF OfferOf, Traded
<1>3. InHand(p)
  BY <1>1 DEF Kept, Settled, InHand, Placed, ReserveOf, Traded, Order
<1>4. Custody(t)
  <2>1. /\ Total(Locks(t), OrderIds) =
             Total(Locks(s), OrderIds) - s.orders[id].lockedPayment + t.orders[id].lockedPayment
        /\ Total(Offers(t), OrderIds) =
             Total(Offers(s), OrderIds) - OfferOf(s.orders[id]) + OfferOf(t.orders[id])
    BY <1>1, CustodyChange
  <2>2. /\ Total(Locks(s), OrderIds) \in Nat /\ Total(Offers(s), OrderIds) \in Nat
        /\ Total(s.pendingShares, OrderIds) \in Nat
    BY <1>1, CustodyNat
  <2>3. /\ Custody(s) /\ o.lockedPayment \in Nat /\ o.remainingUnits \in Nat
        /\ p.lockedPayment = o.lockedPayment - gross
    BY <1>1 DEF Kept, Order, Traded
  <2> HIDE DEF p
  <2>4. /\ Total(Locks(t), OrderIds) = Total(Locks(s), OrderIds) - gross
        /\ Total(Offers(t), OrderIds) =
             Total(Offers(s), OrderIds) - (IF o.side = "Ask" THEN units ELSE 0)
    BY <1>1, <1>2, <2>1, <2>2, <2>3 DEF p
  <2> HIDE DEF o
  <2>5. t.escrow = s.escrow - (IF o.side = "Ask" THEN units ELSE 0)
    BY DEF o
  <2> QED
    BY <2>2, <2>3, <2>4, <2>5 DEF Custody
<1>5. /\ \A k \in OrderIds \ (X \cup {id}) : Settled(t.orders[k])
      /\ \A k \in X \cup {id} : InHand(t.orders[k])
      /\ \A k \in OrderIds : t.orders[k].active => t.pendingShares[k] = 0
  BY <1>3 DEF Kept, Traded
<1>6. Books(t, X \cup {id})
  <2>1. Listed(t, X \cup {id}) = Listed(s, X \cup {id})
    BY DEF Listed
  <2>2. Books(s, X)
    BY DEF Kept
  <2>3. /\ s.books \ {id} = Listed(s, X \cup {id})
        /\ s.unitBooks \ {<<o.remainingUnits, id>>} = Entries(s, Listed(s, X \cup {id}))
        /\ s.partialBooks \ {id} = Partials(s, Listed(s, X \cup {id}))
    BY <1>1, <2>2, BooksLose
  <2>4. \A k \in Listed(s, X \cup {id}) : t.orders[k] = s.orders[k]
    BY DEF Listed
  <2>5. /\ Entries(t, Listed(s, X \cup {id})) = Entries(s, Listed(s, X \cup {id}))
        /\ Partials(t, Listed(s, X \cup {id})) = Partials(s, Listed(s, X \cup {id}))
    BY <2>4, BooksSame
  <2> QED
    BY <2>1, <2>3, <2>5 DEF Books
<1>7. OpensNone(s, t)
  BY DEF OpensNone, Blank
<1> QED
  BY <1>4, <1>5, <1>6, <1>7 DEF Kept

-----------------------------------------------------------------------------
(* The calls.                                                              *)

\* What a seller of shares to a bid does to the market before _finish.
BidFilled(s, id, taker, units, gross) ==
    [Paid(Spent(Taken(s, id, units), id, gross), taker, gross)
       EXCEPT !.shares[taker] = @ - units, !.shares[s.orders[id].owner] = @ + units]

\* A fill of a bid takes it in hand and leaves the rest covered.
LEMMA BidFilledKeeps ==
    ASSUME NEW s, Kept(s, {}), NEW id \in OrderIds, NEW taker \in Traders, NEW units \in Nat,
           s.orders[id].active, s.orders[id].side = "Bid",
           taker # s.orders[id].owner, units <= s.shares[taker],
           units <= s.orders[id].remainingUnits, NEW gross,
           gross = Gross(units, s.orders[id].unitPrice)
    PROVE  /\ Kept(BidFilled(s, id, taker, units, gross), {id})
           /\ OpensNone(s, BidFilled(s, id, taker, units, gross))
<1> DEFINE o == s.orders[id]
<1> DEFINE a == Taken(s, id, units)
<1> DEFINE b == Spent(a, id, gross)
<1> DEFINE c == Paid(b, taker, gross)
<1> DEFINE t == BidFilled(s, id, taker, units, gross)
<1>1. /\ s \in Market /\ o \in Order /\ o.owner \in Traders /\ Settled(o)
      /\ o.lockedPayment <= s.cash /\ s.cash = s.totalLockedPayment
  BY OpenOrder DEF Kept
<1>2. /\ gross \in Nat /\ gross <= o.lockedPayment
      /\ ReserveFor(o.remainingUnits - units, o.unitPrice) <= o.lockedPayment - gross
  <2>1. o.unitPrice \in Nat /\ o.unitPrice <= o.unitPrice
    BY <1>1 DEF Order
  <2> QED
    BY <1>1, <2>1, RestCovered
<1>3. s.cash \in Nat /\ o.lockedPayment \in Nat /\ gross <= s.cash
      /\ s.shares \in [Traders -> Nat]
  BY <1>1, <1>2 DEF Market, Order
<1>4. /\ a \in Market
      /\ \A k \in OrderIds \ {id} : a.orders[k] = s.orders[k]
      /\ Traded(o, a.orders[id], units, 0)
      /\ a.books = s.books \ {id}
      /\ a.unitBooks = s.unitBooks \ {<<o.remainingUnits, id>>}
      /\ a.partialBooks = s.partialBooks \ {id}
      /\ a.pendingShares = s.pendingShares
      /\ a.totalLockedPayment = s.totalLockedPayment
      /\ a.cash = s.cash /\ a.escrow = s.escrow /\ a.shares = s.shares
  BY <1>1, TakenFields
<1> HIDE DEF a
<1>5. gross <= a.orders[id].lockedPayment /\ gross <= a.totalLockedPayment
  BY <1>1, <1>2, <1>3, <1>4 DEF Traded
<1>6. /\ b \in Market
      /\ \A k \in OrderIds \ {id} : b.orders[k] = a.orders[k]
      /\ Traded(a.orders[id], b.orders[id], 0, gross)
      /\ b.totalLockedPayment = a.totalLockedPayment - gross
      /\ b.books = a.books /\ b.unitBooks = a.unitBooks
      /\ b.partialBooks = a.partialBooks /\ b.pendingShares = a.pendingShares
      /\ b.cash = a.cash /\ b.escrow = a.escrow /\ b.shares = a.shares
  BY <1>2, <1>4, <1>5, SpentFields
<1> HIDE DEF b
<1>7. /\ c \in Market /\ c.cash = b.cash - gross
      /\ c.orders = b.orders /\ c.pendingShares = b.pendingShares
      /\ c.books = b.books /\ c.unitBooks = b.unitBooks
      /\ c.partialBooks = b.partialBooks
      /\ c.totalLockedPayment = b.totalLockedPayment
      /\ c.escrow = b.escrow /\ c.shares = b.shares
  BY <1>2, <1>3, <1>4, <1>6, PaidFields
<1>8. t = [c EXCEPT !.shares[taker] = @ - units, !.shares[o.owner] = @ + units]
  BY DEF BidFilled, a, b
<1> HIDE DEF c, t
<1>9. /\ t \in Market /\ t.cash = c.cash
      /\ t.orders = c.orders /\ t.pendingShares = c.pendingShares
      /\ t.books = c.books /\ t.unitBooks = c.unitBooks
      /\ t.partialBooks = c.partialBooks
      /\ t.totalLockedPayment = c.totalLockedPayment
      /\ t.escrow = c.escrow
  <2> DEFINE h == [c.shares EXCEPT ![taker] = @ - units]
  <2> DEFINE i == [h EXCEPT ![o.owner] = @ + units]
  <2>1. h \in [Traders -> Nat]
    BY <1>3, <1>4, <1>6, <1>7
  <2>2. i \in [Traders -> Nat]
    BY <1>1, <2>1
  <2>3. t = [[c EXCEPT !.shares = h] EXCEPT !.shares[o.owner] = @ + units]
    BY <1>8
  <2> DEFINE d == [c EXCEPT !.shares = h]
  <2> HIDE DEF h
  <2>4. /\ d \in Market /\ d.cash = c.cash /\ d.shares = h
        /\ d.orders = c.orders /\ d.pendingShares = c.pendingShares
        /\ d.books = c.books /\ d.unitBooks = c.unitBooks
        /\ d.partialBooks = c.partialBooks
        /\ d.totalLockedPayment = c.totalLockedPayment
        /\ d.escrow = c.escrow
    BY <1>7, <2>1 DEF Market
  <2>5. t = [d EXCEPT !.shares = i]
    BY <2>3, <2>4
  <2> HIDE DEF d, i
  <2> QED
    BY <2>2, <2>4, <2>5 DEF Market
<1>10. Traded(o, t.orders[id], units, gross)
  <2>1. Traded(o, b.orders[id], units, gross)
    BY <1>1, <1>2, <1>4, <1>6, TradedTwice
  <2> QED
    BY <1>7, <1>9, <2>1
<1>11. /\ \A k \in OrderIds \ {id} : t.orders[k] = s.orders[k]
       /\ t.totalLockedPayment = s.totalLockedPayment - gross
       /\ t.cash = s.cash - gross
       /\ t.escrow = s.escrow - (IF o.side = "Ask" THEN units ELSE 0)
       /\ t.pendingShares = s.pendingShares
       /\ t.books = s.books \ {id}
       /\ t.unitBooks = s.unitBooks \ {<<o.remainingUnits, id>>}
       /\ t.partialBooks = s.partialBooks \ {id}
  BY <1>1, <1>4, <1>6, <1>7, <1>9 DEF Market
<1>12. Kept(t, {} \cup {id}) /\ OpensNone(s, t)
  <2>1. {} \in SUBSET OrderIds /\ id \in OrderIds \ {} /\ o.side = "Bid" /\ o.side # "Ask"
    OBVIOUS
  <2> QED
    BY <1>2, <1>9, <1>10, <1>11, <2>1, TradeKeeps
<1>13. {} \cup {id} = {id}
  OBVIOUS
<1> QED
  BY <1>12, <1>13 DEF t

\* What a buyer of shares from an ask does to the market before _finish.
AskFilled(s, id, taker, units, gross) ==
    Paid([Taken(s, id, units) EXCEPT !.wallet[taker] = @ - gross, !.cash = @ + gross,
                                     !.escrow = @ - units, !.shares[taker] = @ + units],
         s.orders[id].owner, gross)

\* A fill of an ask takes it in hand; the payment passes through.
LEMMA AskFilledKeeps ==
    ASSUME NEW s, Kept(s, {}), NEW id \in OrderIds, NEW taker \in Traders, NEW units \in Nat,
           s.orders[id].active, s.orders[id].side = "Ask",
           units <= s.orders[id].remainingUnits, NEW gross \in Nat, gross <= s.wallet[taker]
    PROVE  /\ Kept(AskFilled(s, id, taker, units, gross), {id})
           /\ OpensNone(s, AskFilled(s, id, taker, units, gross))
<1> DEFINE o == s.orders[id]
<1> DEFINE a == Taken(s, id, units)
<1> DEFINE b == [a EXCEPT !.wallet[taker] = @ - gross, !.cash = @ + gross,
                          !.escrow = @ - units, !.shares[taker] = @ + units]
<1> DEFINE t == AskFilled(s, id, taker, units, gross)
<1>1. /\ s \in Market /\ o \in Order /\ o.owner \in Traders
      /\ OfferOf(o) <= s.escrow
  BY OpenOrder
<1>2. /\ s.cash \in Nat /\ s.escrow \in Nat /\ units <= s.escrow
      /\ s.shares \in [Traders -> Nat] /\ s.wallet \in [Traders -> Nat]
  <2>1. /\ s.cash \in Nat /\ s.escrow \in Nat /\ o.remainingUnits \in Nat
        /\ s.shares \in [Traders -> Nat] /\ s.wallet \in [Traders -> Nat]
    BY <1>1 DEF Market, Order
  <2>2. OfferOf(o) = o.remainingUnits
    BY DEF OfferOf
  <2> QED
    BY <1>1, <2>1, <2>2
<1>4. /\ a \in Market
      /\ \A k \in OrderIds \ {id} : a.orders[k] = s.orders[k]
      /\ Traded(o, a.orders[id], units, 0)
      /\ a.books = s.books \ {id}
      /\ a.unitBooks = s.unitBooks \ {<<o.remainingUnits, id>>}
      /\ a.partialBooks = s.partialBooks \ {id}
      /\ a.pendingShares = s.pendingShares
      /\ a.totalLockedPayment = s.totalLockedPayment
      /\ a.cash = s.cash /\ a.escrow = s.escrow
      /\ a.wallet = s.wallet /\ a.shares = s.shares
  BY <1>1, TakenFields
<1> HIDE DEF a
<1>5. /\ b \in Market
      /\ b.orders = a.orders /\ b.pendingShares = a.pendingShares
      /\ b.books = a.books /\ b.unitBooks = a.unitBooks
      /\ b.partialBooks = a.partialBooks
      /\ b.totalLockedPayment = a.totalLockedPayment
      /\ b.cash = a.cash + gross /\ b.escrow = a.escrow - units
  <2> DEFINE w == [a.wallet EXCEPT ![taker] = @ - gross]
  <2> DEFINE x == a.cash + gross
  <2> DEFINE e == a.escrow - units
  <2> DEFINE h == [a.shares EXCEPT ![taker] = @ + units]
  <2>1. /\ w \in [Traders -> Nat] /\ x \in Nat /\ e \in Nat /\ h \in [Traders -> Nat]
    BY <1>2, <1>4
  <2>2. b = [a EXCEPT !.wallet = w, !.cash = x, !.escrow = e, !.shares = h]
    OBVIOUS
  <2> HIDE DEF w, x, e, h, b
  <2>3. /\ b \in Market
        /\ b.orders = a.orders /\ b.pendingShares = a.pendingShares
        /\ b.books = a.books /\ b.unitBooks = a.unitBooks
        /\ b.partialBooks = a.partialBooks
        /\ b.totalLockedPayment = a.totalLockedPayment
        /\ b.cash = x /\ b.escrow = e
    BY <1>4, <2>1, <2>2 DEF Market
  <2> QED
    BY <2>3 DEF x, e
<1>6. t = Paid(b, o.owner, gross)
  BY DEF AskFilled, a
<1> HIDE DEF b, t
<1>7. /\ t \in Market /\ t.cash = b.cash - gross
      /\ t.orders = b.orders /\ t.pendingShares = b.pendingShares
      /\ t.books = b.books /\ t.unitBooks = b.unitBooks
      /\ t.partialBooks = b.partialBooks
      /\ t.totalLockedPayment = b.totalLockedPayment
      /\ t.escrow = b.escrow
  <2>1. gross <= b.cash
    BY <1>2, <1>4, <1>5
  <2> HIDE DEF o
  <2>2. o.owner \in Traders
    BY <1>1 DEF o
  <2> QED
    BY <1>5, <1>6, <2>1, <2>2, PaidFields
<1>8. /\ \A k \in OrderIds \ {id} : t.orders[k] = s.orders[k]
      /\ Traded(o, t.orders[id], units, 0)
      /\ t.totalLockedPayment = s.totalLockedPayment - 0
      /\ t.cash = s.cash - 0
      /\ t.escrow = s.escrow - (IF o.side = "Ask" THEN units ELSE 0)
      /\ t.pendingShares = s.pendingShares
      /\ t.books = s.books \ {id}
      /\ t.unitBooks = s.unitBooks \ {<<o.remainingUnits, id>>}
      /\ t.partialBooks = s.partialBooks \ {id}
  <2>1. s.totalLockedPayment \in Nat
    BY <1>1 DEF Market
  <2> QED
    BY <1>2, <1>4, <1>5, <1>7, <2>1
<1>9. Kept(t, {} \cup {id}) /\ OpensNone(s, t)
  <2>1. {} \in SUBSET OrderIds /\ id \in OrderIds \ {} /\ o.side = "Ask" /\ o.side # "Bid"
    OBVIOUS
  <2> QED
    BY <1>7, <1>8, <2>1, TradeKeeps
<1>10. {} \cup {id} = {id}
  OBVIOUS
<1> QED
  BY <1>9, <1>10 DEF t

\* What a match does to the market before the two calls of _finish.
MatchTraded(s, bid, ask, units, gross) ==
    Paid(Spent([Taken(Taken(s, bid, units), ask, units)
                  EXCEPT !.escrow = @ - units, !.shares[s.orders[bid].owner] = @ + units],
               bid, gross),
         s.orders[ask].owner, gross)

\* A match takes both orders in hand.
LEMMA MatchTradedKeeps ==
    ASSUME NEW s, Kept(s, {}), NEW bid \in OrderIds, NEW ask \in OrderIds, NEW units \in Nat,
           s.orders[bid].active, s.orders[bid].side = "Bid",
           s.orders[ask].active, s.orders[ask].side = "Ask",
           units <= s.orders[bid].remainingUnits, units <= s.orders[ask].remainingUnits,
           NEW price \in Nat, price <= s.orders[bid].unitPrice,
           NEW gross, gross = Gross(units, price)
    PROVE  /\ Kept(MatchTraded(s, bid, ask, units, gross), {bid, ask})
           /\ OpensNone(s, MatchTraded(s, bid, ask, units, gross))
<1> DEFINE o == s.orders[bid]
<1> DEFINE p == s.orders[ask]
<1> DEFINE a == Taken(s, bid, units)
<1> DEFINE b == Taken(a, ask, units)
<1> DEFINE c == [b EXCEPT !.escrow = @ - units, !.shares[o.owner] = @ + units]
<1> DEFINE d == Spent(c, bid, gross)
<1> DEFINE t == MatchTraded(s, bid, ask, units, gross)
<1>0. bid # ask
  OBVIOUS
<1>1. /\ s \in Market /\ o \in Order /\ o.owner \in Traders /\ Settled(o)
      /\ o.lockedPayment <= s.cash /\ s.cash = s.totalLockedPayment
  BY OpenOrder DEF Kept
<1>2. /\ p \in Order /\ p.owner \in Traders /\ OfferOf(p) <= s.escrow
  BY OpenOrder
<1>3. /\ gross \in Nat /\ gross <= o.lockedPayment
      /\ ReserveFor(o.remainingUnits - units, o.unitPrice) <= o.lockedPayment - gross
  BY <1>1, RestCovered
<1>4. /\ s.cash \in Nat /\ o.lockedPayment \in Nat /\ gross <= s.cash
      /\ s.shares \in [Traders -> Nat] /\ s.escrow \in Nat /\ units <= s.escrow
      /\ o.remainingUnits \in Nat /\ p.remainingUnits \in Nat
  <2>1. /\ s.cash \in Nat /\ s.escrow \in Nat /\ p.remainingUnits \in Nat
        /\ s.shares \in [Traders -> Nat] /\ o.lockedPayment \in Nat /\ o.remainingUnits \in Nat
    BY <1>1, <1>2 DEF Market, Order
  <2>2. OfferOf(p) = p.remainingUnits
    BY DEF OfferOf
  <2> QED
    BY <1>1, <1>2, <1>3, <2>1, <2>2
<1>5. /\ a \in Market
      /\ \A k \in OrderIds \ {bid} : a.orders[k] = s.orders[k]
      /\ Traded(o, a.orders[bid], units, 0)
      /\ a.books = s.books \ {bid}
      /\ a.unitBooks = s.unitBooks \ {<<o.remainingUnits, bid>>}
      /\ a.partialBooks = s.partialBooks \ {bid}
      /\ a.pendingShares = s.pendingShares
      /\ a.totalLockedPayment = s.totalLockedPayment
      /\ a.cash = s.cash /\ a.escrow = s.escrow /\ a.shares = s.shares
  BY <1>1, TakenFields
<1> HIDE DEF a
<1>6. a.orders[ask] = p /\ units <= a.orders[ask].remainingUnits
  BY <1>0, <1>5
<1>7. /\ b \in Market
      /\ \A k \in OrderIds \ {ask} : b.orders[k] = a.orders[k]
      /\ Traded(a.orders[ask], b.orders[ask], units, 0)
      /\ b.books = a.books \ {ask}
      /\ b.unitBooks = a.unitBooks \ {<<a.orders[ask].remainingUnits, ask>>}
      /\ b.partialBooks = a.partialBooks \ {ask}
      /\ b.pendingShares = a.pendingShares
      /\ b.totalLockedPayment = a.totalLockedPayment
      /\ b.cash = a.cash /\ b.escrow = a.escrow /\ b.shares = a.shares
  BY <1>5, <1>6, TakenFields
<1> HIDE DEF b
<1>8. /\ c \in Market
      /\ c.orders = b.orders /\ c.pendingShares = b.pendingShares
      /\ c.books = b.books /\ c.unitBooks = b.unitBooks
      /\ c.partialBooks = b.partialBooks
      /\ c.totalLockedPayment = b.totalLockedPayment
      /\ c.cash = b.cash /\ c.escrow = b.escrow - units
  <2> DEFINE e == b.escrow - units
  <2> DEFINE h == [b.shares EXCEPT ![o.owner] = @ + units]
  <2>1. e \in Nat /\ h \in [Traders -> Nat]
    BY <1>1, <1>4, <1>5, <1>7
  <2>2. c = [b EXCEPT !.escrow = e, !.shares = h]
    OBVIOUS
  <2> HIDE DEF e, h, c
  <2>3. /\ c \in Market
        /\ c.orders = b.orders /\ c.pendingShares = b.pendingShares
        /\ c.books = b.books /\ c.unitBooks = b.unitBooks
        /\ c.partialBooks = b.partialBooks
        /\ c.totalLockedPayment = b.totalLockedPayment
        /\ c.cash = b.cash /\ c.escrow = e
    BY <1>7, <2>1, <2>2 DEF Market
  <2> QED
    BY <2>3 DEF e
<1> HIDE DEF c
<1>9. /\ c.orders[bid] = a.orders[bid]
      /\ gross <= c.orders[bid].lockedPayment /\ gross <= c.totalLockedPayment
  BY <1>0, <1>1, <1>3, <1>4, <1>5, <1>7, <1>8 DEF Traded
<1>10. /\ d \in Market
       /\ \A k \in OrderIds \ {bid} : d.orders[k] = c.orders[k]
       /\ Traded(c.orders[bid], d.orders[bid], 0, gross)
       /\ d.totalLockedPayment = c.totalLockedPayment - gross
       /\ d.books = c.books /\ d.unitBooks = c.unitBooks
       /\ d.partialBooks = c.partialBooks /\ d.pendingShares = c.pendingShares
       /\ d.cash = c.cash /\ d.escrow = c.escrow
  BY <1>3, <1>8, <1>9, SpentFields
<1>11. t = Paid(d, p.owner, gross)
  BY DEF MatchTraded, a, b, c
<1> HIDE DEF d, t
<1>12. /\ t \in Market /\ t.cash = d.cash - gross
       /\ t.orders = d.orders /\ t.pendingShares = d.pendingShares
       /\ t.books = d.books /\ t.unitBooks = d.unitBooks
       /\ t.partialBooks = d.partialBooks
       /\ t.totalLockedPayment = d.totalLockedPayment
       /\ t.escrow = d.escrow
  <2>1. gross <= d.cash
    BY <1>4, <1>5, <1>7, <1>8, <1>10
  <2> HIDE DEF p
  <2>2. p.owner \in Traders
    BY <1>2 DEF p
  <2> QED
    BY <1>3, <1>10, <1>11, <2>1, <2>2, PaidFields
<1>13. /\ Traded(o, t.orders[bid], units, gross)
       /\ Traded(p, t.orders[ask], units, 0)
       /\ \A k \in OrderIds \ {bid, ask} : t.orders[k] = s.orders[k]
  <2>1. Traded(o, d.orders[bid], units, gross)
    BY <1>1, <1>3, <1>5, <1>9, <1>10, TradedTwice
  <2>2. t.orders[ask] = b.orders[ask] /\ a.orders[ask] = p
    BY <1>0, <1>6, <1>8, <1>10, <1>12
  <2> QED
    BY <1>5, <1>7, <1>8, <1>10, <1>12, <2>1, <2>2
\* Between: the bid has traded, the ask has not.
<1> DEFINE os == [a.orders EXCEPT ![bid] = t.orders[bid]]
<1> DEFINE m == [a EXCEPT !.orders = os, !.totalLockedPayment = t.totalLockedPayment,
                          !.cash = t.cash]
<1>14. /\ os \in [OrderIds -> Order] /\ os[bid] = t.orders[bid]
       /\ \A k \in OrderIds \ {bid} : os[k] = s.orders[k]
       /\ t.totalLockedPayment \in Nat /\ t.cash \in Nat
  BY <1>5, <1>12 DEF Market
<1> HIDE DEF os
<1>15. /\ m \in Market /\ m.orders = os
       /\ m.totalLockedPayment = t.totalLockedPayment /\ m.cash = t.cash
       /\ m.books = a.books /\ m.unitBooks = a.unitBooks
       /\ m.partialBooks = a.partialBooks /\ m.pendingShares = a.pendingShares
       /\ m.escrow = a.escrow
  BY <1>5, <1>14 DEF Market
<1> HIDE DEF m
<1>16. /\ t.totalLockedPayment = s.totalLockedPayment - gross
       /\ t.cash = s.cash - gross /\ t.escrow = s.escrow - units
       /\ t.pendingShares = s.pendingShares
  BY <1>5, <1>7, <1>8, <1>10, <1>12
<1>17. Kept(m, {} \cup {bid}) /\ OpensNone(s, m)
  <2>1. {} \in SUBSET OrderIds /\ bid \in OrderIds \ {} /\ o.side = "Bid" /\ o.side # "Ask"
    OBVIOUS
  <2>2. /\ \A k \in OrderIds \ {bid} : m.orders[k] = s.orders[k]
        /\ Traded(o, m.orders[bid], units, gross)
        /\ m.totalLockedPayment = s.totalLockedPayment - gross
        /\ m.cash = s.cash - gross
        /\ m.escrow = s.escrow - (IF o.side = "Ask" THEN units ELSE 0)
        /\ m.pendingShares = s.pendingShares
        /\ m.books = s.books \ {bid}
        /\ m.unitBooks = s.unitBooks \ {<<o.remainingUnits, bid>>}
        /\ m.partialBooks = s.partialBooks \ {bid}
    BY <1>4, <1>5, <1>13, <1>14, <1>15, <1>16, <2>1
  <2> QED
    BY <1>3, <1>15, <2>1, <2>2, TradeKeeps
<1>18. Kept(m, {bid})
  <2>1. {} \cup {bid} = {bid}
    OBVIOUS
  <2> QED
    BY <1>17, <2>1
<1>19. Kept(t, {bid} \cup {ask}) /\ OpensNone(m, t)
  <2>1. /\ {bid} \in SUBSET OrderIds /\ ask \in OrderIds \ {bid}
        /\ m.orders[ask] = p /\ p.active /\ p.side = "Ask" /\ p.side # "Bid"
    BY <1>0, <1>14, <1>15
  <2>2. /\ \A k \in OrderIds \ {ask} : t.orders[k] = m.orders[k]
        /\ Traded(m.orders[ask], t.orders[ask], units, 0)
        /\ t.totalLockedPayment = m.totalLockedPayment - 0
        /\ t.cash = m.cash - 0
        /\ t.escrow = m.escrow - (IF m.orders[ask].side = "Ask" THEN units ELSE 0)
        /\ t.pendingShares = m.pendingShares
    BY <1>5, <1>13, <1>14, <1>15, <1>16, <2>1
  <2>3. /\ t.books = m.books \ {ask}
        /\ t.unitBooks = m.unitBooks \ {<<m.orders[ask].remainingUnits, ask>>}
        /\ t.partialBooks = m.partialBooks \ {ask}
    BY <1>6, <1>7, <1>8, <1>10, <1>12, <1>15, <2>1
  <2>4. units <= m.orders[ask].remainingUnits
    BY <2>1
  <2> HIDE DEF p
  <2> QED
    BY <1>12, <1>18, <2>1, <2>2, <2>3, <2>4, TradeKeeps
<1>20. {bid} \cup {ask} = {bid, ask}
  OBVIOUS
<1> QED
  BY <1>17, <1>19, <1>20 DEF t, OpensNone

-----------------------------------------------------------------------------
(* The heads of the books.                                                 *)

\* What comes first among the orders of one side.
LEMMA BetterOrder ==
    ASSUME NEW sd \in {"Bid", "Ask"}, NEW a \in OrderIds, NEW b \in OrderIds
    PROVE  Book(sd)!Better(a, b) <=>
             \/ orders[a].unitPrice = orders[b].unitPrice /\ a < b
             \/ /\ orders[a].unitPrice # orders[b].unitPrice
                /\ IF sd = "Bid" THEN orders[a].unitPrice > orders[b].unitPrice
                                 ELSE orders[a].unitPrice < orders[b].unitPrice
  BY DEF Book!Better

\* Any two orders are ordered, and the order is transitive.
LEMMA BetterIsOrder ==
    ASSUME market \in Market, NEW sd \in {"Bid", "Ask"}, NEW a \in OrderIds, NEW b \in OrderIds
    PROVE  /\ a # b => Book(sd)!Better(a, b) \/ Book(sd)!Better(b, a)
           /\ \A c \in OrderIds : Book(sd)!Better(a, b) /\ Book(sd)!Better(b, c)
                                    => Book(sd)!Better(a, c)
<1>1. \A k \in OrderIds : k \in Nat /\ orders[k].unitPrice \in Nat
  BY IdsFinite DEF Market, Order, orders
<1> QED
  BY <1>1, BetterOrder

\* An order no other of the set is better than.
IsHead(sd, S, a) == a \in S /\ \A r \in S \ {a} : Book(sd)!Better(a, r)

\* A set of orders that is not empty has a best: a smallest set without one
\* would lose an order and have one, to be compared with the order lost.
LEMMA BestExists ==
    ASSUME market \in Market, NEW sd \in {"Bid", "Ask"}, NEW S \in SUBSET OrderIds, S # {}
    PROVE  IsHead(sd, S, Book(sd)!BestOf(S))
<1> DEFINE Bad == {T \in SUBSET OrderIds : T # {} /\ \A a \in T : ~ IsHead(sd, T, a)}
<1>1. Bad = {}
  <2>1. SUFFICES ASSUME Bad # {} PROVE FALSE
    OBVIOUS
  <2>2. IsFiniteSet(OrderIds)
    BY IdsFinite
  <2>3. IsWellFoundedOn(StrictSubsetOrdering(OrderIds), FiniteSubsetsOf(OrderIds))
    BY <2>2, FS_StrictSubsetOrderingWellFounded
  <2>4. Bad \subseteq FiniteSubsetsOf(OrderIds)
    BY <2>2, FS_FiniteSubsetsOfFinite
  <2> HIDE DEF Bad
  <2>5. PICK T \in Bad : \A U \in Bad : ~ (<<U, T>> \in StrictSubsetOrdering(OrderIds))
    BY <2>1, <2>3, <2>4, WFMin
  <2>6. T \in SUBSET OrderIds /\ T # {} /\ \A a \in T : ~ IsHead(sd, T, a)
    BY <2>5 DEF Bad
  <2>7. PICK k \in T : TRUE
    BY <2>6
  <2>8. T \ {k} \notin Bad
    <3>1. <<T \ {k}, T>> \in StrictSubsetOrdering(OrderIds)
      BY <2>6, <2>7 DEF StrictSubsetOrdering
    <3> QED
      BY <2>5, <3>1
  <2>9. T \ {k} # {}
    BY <2>6, <2>7 DEF IsHead
  <2>10. PICK a \in T \ {k} : IsHead(sd, T \ {k}, a)
    BY <2>6, <2>8, <2>9 DEF Bad
  <2>11. a \in OrderIds /\ k \in OrderIds /\ a # k
    BY <2>6, <2>7, <2>10
  <2>12. CASE Book(sd)!Better(a, k)
    BY <2>6, <2>10, <2>12 DEF IsHead
  <2>13. CASE Book(sd)!Better(k, a)
    <3>1. \A r \in T \ {k} : Book(sd)!Better(k, r)
      <4> SUFFICES ASSUME NEW r \in T \ {k} PROVE Book(sd)!Better(k, r)
        OBVIOUS
      <4>1. CASE r = a
        BY <2>13, <4>1
      <4>2. CASE r # a
        <5>1. Book(sd)!Better(a, r) /\ r \in OrderIds
          BY <2>6, <2>10, <4>2 DEF IsHead
        <5> QED
          BY <2>11, <2>13, <5>1, BetterIsOrder
      <4> QED
        BY <4>1, <4>2
    <3> QED
      BY <2>6, <2>7, <3>1 DEF IsHead
  <2> QED
    BY <2>11, <2>12, <2>13, BetterIsOrder
<1>2. PICK a \in S : IsHead(sd, S, a)
  BY <1>1
<1>3. Book(sd)!BestOf(S) = CHOOSE x \in S : \A r \in S \ {x} : Book(sd)!Better(x, r)
  BY DEF Book!BestOf, Book!Better
<1> QED
  BY <1>2, <1>3 DEF IsHead

\* The head of the orders of one side in a book.
LEMMA HeadOfBook ==
    ASSUME market \in Market, NEW sd \in {"Bid", "Ask"}, NEW S \in SUBSET OrderIds
    PROVE  LET h == BestIn(S, sd) IN
           /\ (\E k \in S : orders[k].side = sd) => h # 0
           /\ h # 0 => /\ h \in S /\ h \in OrderIds /\ orders[h].side = sd
                       /\ \A r \in S : orders[r].side = sd => r = h \/ Book(sd)!Better(h, r)
<1> DEFINE T == {id \in S : orders[id].side = sd}
<1> DEFINE h == BestIn(S, sd)
<1>1. h = Book(sd)!BestOf(T)
  BY DEF BestIn
<1>2. T \in SUBSET OrderIds
  OBVIOUS
<1>3. CASE T = {}
  <2>1. h = 0
    BY <1>1, <1>3 DEF Book!BestOf
  <2> QED
    BY <1>3, <2>1
<1>4. CASE T # {}
  <2> HIDE DEF T, h
  <2>1. IsHead(sd, T, h)
    BY <1>1, <1>2, <1>4, BestExists
  <2>2. h \in OrderIds /\ h # 0
    BY <1>2, <2>1, IdsFinite DEF IsHead
  <2> QED
    BY <2>1, <2>2 DEF IsHead, T, h
<1> QED
  BY <1>3, <1>4

Open(id, sd) == orders[id].active /\ orders[id].autoMatch /\ orders[id].side = sd

\* The head of the orders of one size.
LEMMA UnitHead ==
    ASSUME Kept(market, {}), NEW sd \in {"Bid", "Ask"}, NEW units
    PROVE  LET h == BestOrderForUnits(sd, units) IN
           /\ (\E k \in OrderIds : Open(k, sd) /\ orders[k].remainingUnits = units) => h # 0
           /\ h # 0 =>
                /\ h \in OrderIds /\ Open(h, sd) /\ orders[h].remainingUnits = units
                /\ \A r \in OrderIds : Open(r, sd) /\ orders[r].remainingUnits = units
                                         => r = h \/ Book(sd)!Better(h, r)
<1> DEFINE S == {id \in OrderIds : <<units, id>> \in market.unitBooks}
<1> DEFINE h == BestOrderForUnits(sd, units)
<1>1. market \in Market /\ S \in SUBSET OrderIds /\ h = BestIn(S, sd)
  BY DEF Kept, BestOrderForUnits
<1>2. \A k \in OrderIds :
        k \in S <=> orders[k].active /\ orders[k].autoMatch /\ orders[k].remainingUnits = units
  BY DEF Kept, Books, Entries, Listed, orders
<1> HIDE DEF S, h
<1>3. /\ (\E k \in S : orders[k].side = sd) => h # 0
      /\ h # 0 => /\ h \in S /\ h \in OrderIds /\ orders[h].side = sd
                  /\ \A r \in S : orders[r].side = sd => r = h \/ Book(sd)!Better(h, r)
  BY <1>1, HeadOfBook
<1> QED
  BY <1>2, <1>3 DEF Open, h

\* The head of the orders that may be filled in parts.
LEMMA PartialHead ==
    ASSUME Kept(market, {}), NEW sd \in {"Bid", "Ask"}
    PROVE  LET h == BestPartialOrder(sd) IN
           /\ (\E k \in OrderIds : Open(k, sd) /\ orders[k].allowPartial) => h # 0
           /\ h # 0 =>
                /\ h \in OrderIds /\ Open(h, sd) /\ orders[h].allowPartial
                /\ \A r \in OrderIds : Open(r, sd) /\ orders[r].allowPartial
                                         => r = h \/ Book(sd)!Better(h, r)
<1> DEFINE S == market.partialBooks
<1> DEFINE h == BestPartialOrder(sd)
<1>1. market \in Market /\ S \in SUBSET OrderIds /\ h = BestIn(S, sd)
  BY DEF Kept, BestPartialOrder, Market
<1>2. \A k \in OrderIds :
        k \in S <=> orders[k].active /\ orders[k].autoMatch /\ orders[k].allowPartial
  BY DEF Kept, Books, Partials, Listed, orders
<1> HIDE DEF S, h
<1>3. /\ (\E k \in S : orders[k].side = sd) => h # 0
      /\ h # 0 => /\ h \in S /\ h \in OrderIds /\ orders[h].side = sd
                  /\ \A r \in S : orders[r].side = sd => r = h \/ Book(sd)!Better(h, r)
  BY <1>1, HeadOfBook
<1> QED
  BY <1>2, <1>3 DEF Open, h

\* The two orders an iteration looks at: the heads of the partly fillable
\* orders if they differ in size, the heads of one size otherwise.
LEMMA HeadsAre ==
    ASSUME NEW g
    PROVE  LET bid == Heads(g)[1]
               ask == Heads(g)[2]
           IN  \/ /\ g = 0
                  /\ bid = BestPartialOrder("Bid") /\ ask = BestPartialOrder("Ask")
                  /\ bid # 0 /\ ask # 0 => orders[bid].remainingUnits # orders[ask].remainingUnits
               \/ \E units : /\ bid = BestOrderForUnits("Bid", units)
                             /\ ask = BestOrderForUnits("Ask", units)
                             /\ g # 0 => units = g
                             /\ g = 0 =>
                                  LET b == BestPartialOrder("Bid")
                                      a == BestPartialOrder("Ask")
                                  IN  /\ b # 0 /\ a # 0
                                      /\ orders[b].remainingUnits = units
                                      /\ orders[a].remainingUnits = units
  BY DEF Heads

\* Heads are open orders of their sides.
LEMMA HeadsOpen ==
    ASSUME Kept(market, {}), NEW g
    PROVE  /\ Heads(g)[1] # 0 => Heads(g)[1] \in OrderIds /\ Open(Heads(g)[1], "Bid")
           /\ Heads(g)[2] # 0 => Heads(g)[2] \in OrderIds /\ Open(Heads(g)[2], "Ask")
<1> DEFINE bid == Heads(g)[1]
<1> DEFINE ask == Heads(g)[2]
<1>1. CASE bid = BestPartialOrder("Bid") /\ ask = BestPartialOrder("Ask")
  BY <1>1, PartialHead
<1>2. CASE \E units : /\ bid = BestOrderForUnits("Bid", units)
                      /\ ask = BestOrderForUnits("Ask", units)
  BY <1>2, UnitHead
<1> QED
  BY <1>1, <1>2, HeadsAre

-----------------------------------------------------------------------------
(* Every call keeps the market.                                            *)

\* What a call that places no order leaves behind.
MarketKept == Kept(market', {}) /\ OpensNone(market, market')

\* cancelOrder, releaseOrder and the releases of a match.
LEMMA ReleaseKeeps ==
    ASSUME Kept(market, {}), NEW id \in OrderIds, NEW rejecting, Release(id, rejecting)
    PROVE  MarketKept
<1>1. /\ {} \in SUBSET OrderIds /\ {} \ {id} = {} /\ market.orders[id].active
      /\ market' = Released(market, id, rejecting)
  BY DEF Release, orders
<1>2. /\ Kept(Released(market, id, rejecting), {} \ {id})
      /\ OpensNone(market, Released(market, id, rejecting))
  BY <1>1, ReleasedKeeps
<1> QED
  BY <1>1, <1>2 DEF MarketKept

\* fillOrder.
LEMMA FillKeeps ==
    ASSUME Kept(market, {}), NEW t \in Traders, NEW id \in OrderIds, NEW desired \in FillSizes,
           NEW rejecting, FillOrder(t, id, desired, rejecting)
    PROVE  MarketKept
<1> DEFINE o == market.orders[id]
<1> DEFINE units == Smaller(desired, o.remainingUnits)
<1> DEFINE gross == Gross(units, o.unitPrice)
<1>1. /\ market \in Market /\ o \in Order /\ desired \in Nat
  BY OrderAssumption DEF Kept, Market
<1>2. units \in Nat /\ units <= o.remainingUnits /\ gross \in Nat
  <2>1. units \in Nat /\ units <= o.remainingUnits /\ o.unitPrice \in Nat
    BY <1>1 DEF Smaller, Order
  <2> QED
    BY <2>1, ReserveNat
<1>3. /\ o.active /\ t # o.owner
      /\ \/ /\ o.side = "Bid" /\ units <= market.shares[t]
            /\ market' = Finished(BidFilled(market, id, t, units, gross), id, rejecting)
         \/ /\ o.side = "Ask" /\ gross <= market.wallet[t]
            /\ market' = Finished(AskFilled(market, id, t, units, gross), id, rejecting)
  <2>1. market.shares[t] \in Nat /\ market.wallet[t] \in Nat
    BY <1>1 DEF Market
  <2>2. Live(id) /\ t # o.owner
    BY DEF FillOrder, orders
  <2>3. \/ /\ o.side = "Bid" /\ market.shares[t] >= units
           /\ market' = Finished(BidFilled(market, id, t, units, gross), id, rejecting)
        \/ /\ o.side = "Ask" /\ market.wallet[t] >= gross
           /\ market' = Finished(AskFilled(market, id, t, units, gross), id, rejecting)
    BY DEF FillOrder, BidFilled, AskFilled, orders
  <2> HIDE DEF units, gross
  <2> QED
    BY <1>2, <2>1, <2>2, <2>3 DEF Live, orders
<1> HIDE DEF gross
<1>4. PICK s : /\ Kept(s, {id}) /\ OpensNone(market, s)
               /\ market' = Finished(s, id, rejecting)
  <2>1. CASE o.side = "Bid"
    <3> DEFINE s == BidFilled(market, id, t, units, gross)
    <3>1. Kept(s, {id}) /\ OpensNone(market, s)
      <4> HIDE DEF units
      <4>1. gross = Gross(units, market.orders[id].unitPrice)
        BY DEF gross
      <4> QED
        BY <1>2, <1>3, <2>1, <4>1, BidFilledKeeps
    <3>2. market' = Finished(s, id, rejecting)
      BY <1>3, <2>1
    <3> HIDE DEF s
    <3> QED
      BY <3>1, <3>2
  <2>2. CASE o.side = "Ask"
    <3> DEFINE s == AskFilled(market, id, t, units, gross)
    <3>1. Kept(s, {id}) /\ OpensNone(market, s)
      <4> HIDE DEF units
      <4> QED
        BY <1>2, <1>3, <2>2, AskFilledKeeps
    <3>2. market' = Finished(s, id, rejecting)
      BY <1>3, <2>2
    <3> HIDE DEF s
    <3> QED
      BY <3>1, <3>2
  <2> QED
    BY <1>3, <2>1, <2>2
<1>5. {id} \in SUBSET OrderIds /\ id \in {id} /\ {id} \ {id} = {}
  OBVIOUS
<1>6. Kept(Finished(s, id, rejecting), {id} \ {id}) /\ OpensNone(s, Finished(s, id, rejecting))
  BY <1>4, <1>5, FinishedKeeps
<1> QED
  BY <1>4, <1>5, <1>6 DEF MarketKept, OpensNone

\* The trade of a match.
LEMMA MatchKeeps ==
    ASSUME Kept(market, {}), NEW bid \in OrderIds, NEW ask \in OrderIds,
           Open(bid, "Bid"), Open(ask, "Ask"), NEW rejecting, MatchTrades(bid, ask, rejecting)
    PROVE  MarketKept
<1> DEFINE o == market.orders[bid]
<1> DEFINE p == market.orders[ask]
<1> DEFINE units == UnitsOf(bid, ask)
<1> DEFINE price == MakerPrice(bid, ask)
<1> DEFINE gross == GrossOf(bid, ask)
<1>1. /\ market \in Market /\ o \in Order /\ p \in Order
      /\ o.active /\ p.active /\ o.side = "Bid" /\ p.side = "Ask" /\ bid # ask
  BY DEF Kept, Market, Open, orders
<1>2. /\ units \in Nat /\ units <= o.remainingUnits /\ units <= p.remainingUnits
      /\ price \in Nat /\ price <= o.unitPrice
  <2>1. /\ o.remainingUnits \in Nat /\ p.remainingUnits \in Nat
        /\ o.unitPrice \in Nat /\ p.unitPrice \in Nat /\ o.unitPrice >= p.unitPrice
    BY <1>1 DEF Order, MatchTrades, Matched, Crosses, orders
  <2>2. price = o.unitPrice \/ price = p.unitPrice
    BY DEF MakerPrice, Smaller, orders
  <2>3. units = Smaller(o.remainingUnits, p.remainingUnits)
    BY DEF UnitsOf, orders
  <2> HIDE DEF price, units
  <2> QED
    BY <2>1, <2>2, <2>3 DEF Smaller
<1> DEFINE s == MatchTraded(market, bid, ask, units, gross)
<1>3. market' = Finished(Finished(s, bid, rejecting), ask, rejecting)
  BY DEF MatchTrades, MatchTraded, orders
<1>4. gross = Gross(units, price)
  BY DEF GrossOf
<1> HIDE DEF units, price, gross
<1>5. Kept(s, {bid, ask}) /\ OpensNone(market, s)
  BY <1>1, <1>2, <1>4, MatchTradedKeeps
<1> HIDE DEF s
<1>6. /\ {bid, ask} \in SUBSET OrderIds /\ bid \in {bid, ask} /\ {bid, ask} \ {bid} = {ask}
      /\ {ask} \in SUBSET OrderIds /\ ask \in {ask} /\ {ask} \ {ask} = {}
  BY <1>1
<1> DEFINE t == Finished(s, bid, rejecting)
<1>7. Kept(t, {bid, ask} \ {bid}) /\ OpensNone(s, t)
  BY <1>5, <1>6, FinishedKeeps
<1>8. Kept(t, {ask})
  BY <1>6, <1>7
<1> HIDE DEF t
<1> DEFINE u == Finished(t, ask, rejecting)
<1>9. Kept(u, {ask} \ {ask}) /\ OpensNone(t, u)
  BY <1>6, <1>8, FinishedKeeps
<1>10. market' = u
  BY <1>3 DEF t
<1> HIDE DEF u
<1> QED
  BY <1>5, <1>6, <1>7, <1>9, <1>10 DEF MarketKept, OpensNone

\* One iteration of a match, whatever it does.
LEMMA MatchOrdersKeeps ==
    ASSUME Kept(market, {}), NEW g, NEW rejecting, MatchOrders(g, rejecting)
    PROVE  MarketKept
<1> DEFINE bid == Heads(g)[1]
<1> DEFINE ask == Heads(g)[2]
<1>1. /\ bid # 0 => bid \in OrderIds /\ Open(bid, "Bid")
      /\ ask # 0 => ask \in OrderIds /\ Open(ask, "Ask")
  BY HeadsOpen
<1>2. \/ MatchReleasesStale(bid, ask, rejecting)
      \/ MatchReleasesSelfCross(bid, ask, rejecting)
      \/ MatchReleasesUnfillable(bid, ask, rejecting)
      \/ MatchTrades(bid, ask, rejecting)
  BY DEF MatchOrders
<1> HIDE DEF bid, ask
<1>3. CASE MatchReleasesStale(bid, ask, rejecting)
  BY <1>1, <1>3, ReleaseKeeps DEF MatchReleasesStale, IsStaleHead
<1>4. CASE MatchReleasesSelfCross(bid, ask, rejecting)
  <2>1. bid \in OrderIds /\ ask \in OrderIds /\ Release(Larger(bid, ask), rejecting)
    BY <1>1, <1>4 DEF MatchReleasesSelfCross, Matched
  <2>2. Larger(bid, ask) \in OrderIds
    BY <2>1 DEF Larger
  <2> QED
    BY <2>1, <2>2, ReleaseKeeps
<1>5. CASE MatchReleasesUnfillable(bid, ask, rejecting)
  BY <1>1, <1>5, ReleaseKeeps DEF MatchReleasesUnfillable, Matched
<1>6. CASE MatchTrades(bid, ask, rejecting)
  BY <1>1, <1>6, MatchKeeps DEF MatchTrades, Matched
<1> QED
  BY <1>2, <1>3, <1>4, <1>5, <1>6


\* withdrawOrderShares.
LEMMA WithdrawKeeps ==
    ASSUME Kept(market, {}), NEW t \in Traders, NEW r \in Traders, NEW id \in OrderIds,
           WithdrawOrderShares(t, id, r)
    PROVE  MarketKept
<1> DEFINE units == market.pendingShares[id]
<1> DEFINE ps == [market.pendingShares EXCEPT ![id] = 0]
<1> DEFINE e == market.escrow - units
<1> DEFINE h == [market.shares EXCEPT ![r] = @ + units]
<1>1. /\ market \in Market /\ Custody(market) /\ units \in Nat
      /\ market.pendingShares \in [OrderIds -> Nat] /\ market.escrow \in Nat
      /\ market.shares \in [Traders -> Nat]
  BY DEF Kept, Market
<1>2. market' = [market EXCEPT !.pendingShares = ps, !.escrow = e, !.shares = h]
  BY DEF WithdrawOrderShares
<1> HIDE DEF units
<1>3. /\ ps \in [OrderIds -> Nat] /\ ps[id] = 0 /\ units = market.pendingShares[id]
      /\ \A k \in OrderIds \ {id} : ps[k] = market.pendingShares[k]
      /\ h \in [Traders -> Nat]
  BY <1>1 DEF units
<1> HIDE DEF ps, h
<1>4. /\ Total(Offers(market), OrderIds) \in Nat
      /\ Total(market.pendingShares, OrderIds) \in Nat
  BY <1>1, CustodyNat
<1>5. /\ Total(ps, OrderIds) = Total(market.pendingShares, OrderIds) - units
      /\ units <= Total(market.pendingShares, OrderIds)
  <2>1. IsFiniteSet(OrderIds)
    BY IdsFinite
  <2>2. /\ \A k \in OrderIds : market.pendingShares[k] \in Nat
        /\ \A k \in OrderIds : ps[k] \in Nat
    BY <1>1, <1>3
  <2>3. Total(ps, OrderIds) =
          Total(market.pendingShares, OrderIds) - market.pendingShares[id] + ps[id]
    BY <1>3, <2>1, <2>2, TotalUpdate
  <2>4. market.pendingShares[id] <= Total(market.pendingShares, OrderIds)
    BY <2>1, <2>2, TotalAtLeast
  <2> QED
    BY <1>1, <1>3, <1>4, <2>3, <2>4
<1>6. e \in Nat /\ e = Total(Offers(market), OrderIds) + Total(ps, OrderIds)
  BY <1>1, <1>4, <1>5 DEF Custody
<1> HIDE DEF e
<1>7. /\ market' \in Market /\ market'.orders = market.orders
      /\ market'.books = market.books /\ market'.unitBooks = market.unitBooks
      /\ market'.partialBooks = market.partialBooks
      /\ market'.totalLockedPayment = market.totalLockedPayment
      /\ market'.cash = market.cash /\ market'.escrow = e /\ market'.pendingShares = ps
  BY <1>1, <1>2, <1>3, <1>6 DEF Market
<1>8. Custody(market')
  <2>1. Locks(market') = Locks(market) /\ Offers(market') = Offers(market)
    BY <1>7 DEF Locks, Offers
  <2> QED
    BY <1>1, <1>6, <1>7, <2>1 DEF Custody
<1>9. Books(market', {})
  <2>1. Listed(market', {}) = Listed(market, {})
    BY <1>7 DEF Listed
  <2>2. \A k \in Listed(market, {}) : market'.orders[k] = market.orders[k]
    BY <1>7
  <2>3. Books(market, {})
    BY DEF Kept
  <2> QED
    BY <1>7, <2>1, <2>2, <2>3, BooksSame DEF Books
<1>10. \A k \in OrderIds : market.pendingShares[k] = 0 => ps[k] = 0
  BY <1>3
<1> QED
  BY <1>7, <1>8, <1>9, <1>10 DEF Kept, MarketKept, OpensNone, Blank

\* createOrder opens the order it numbers, and no other.
LEMMA CreateKeeps ==
    ASSUME BookInv, NEW t \in Traders, NEW q \in OrderRequests, CreateOrder(t, q)
    PROVE  /\ Kept(market', {})
           /\ \A id \in OrderIds : id >= nextOrderId' => Blank(market', id)
<1> DEFINE id == nextOrderId
<1> DEFINE locked == IF q.side = "Bid" THEN ReserveFor(q.units, q.unitPrice) ELSE 0
<1> DEFINE new == [owner |-> t, side |-> q.side, remainingUnits |-> q.units,
                   unitPrice |-> q.unitPrice, expiresAt |-> q.expiresAt,
                   autoMatch |-> q.autoMatch, active |-> TRUE, lockedPayment |-> locked,
                   allowPartial |-> defaultAllowPartialFills]
<1> DEFINE os == [market.orders EXCEPT ![id] = new]
<1> DEFINE placed == [market EXCEPT !.orders = os]
<1> DEFINE listed == IF q.autoMatch THEN Inserted(placed, id) ELSE placed
<1>1. /\ market \in Market /\ Custody(market) /\ Books(market, {})
      /\ defaultAllowPartialFills \in BOOLEAN
      /\ market.orders \in [OrderIds -> Order]
      /\ market.totalLockedPayment \in Nat /\ market.cash \in Nat /\ market.escrow \in Nat
      /\ market.wallet \in [Traders -> Nat] /\ market.shares \in [Traders -> Nat]
  BY DEF BookInv, TypeOK, Kept, Market
<1>2. /\ q.side \in {"Bid", "Ask"} /\ q.units \in Nat /\ q.unitPrice \in Nat
      /\ q.expiresAt \in Nat /\ q.autoMatch \in BOOLEAN /\ MinimumC2CUnits \in Nat
  BY OrderAssumption
<1>3. id \in OrderIds /\ Blank(market, id)
  <2>1. nextOrderId \in Nat \ {0} /\ nextOrderId <= MaxOrders /\ MaxOrders \in Nat
    BY OrderAssumption DEF BookInv, TypeOK, CreateOrder
  <2>2. nextOrderId \in OrderIds
    BY <2>1 DEF OrderIds
  <2> QED
    BY <2>1, <2>2 DEF BookInv
<1>4. /\ q.units >= MinimumC2CUnits /\ Gross(q.units, q.unitPrice) # 0
      /\ q.autoMatch => Gross(MinimumC2CUnits, q.unitPrice) # 0
  BY DEF CreateOrder, ValidOrder
<1>5. locked \in Nat
  BY <1>2, ReserveNat
<1>6. \/ /\ q.side = "Bid" /\ market.wallet[t] >= locked
         /\ market' = [listed EXCEPT !.totalLockedPayment = @ + locked,
                                     !.cash = @ + locked, !.wallet[t] = @ - locked]
      \/ /\ q.side = "Ask" /\ market.shares[t] >= q.units
         /\ market' = [listed EXCEPT !.escrow = @ + q.units, !.shares[t] = @ - q.units]
  BY DEF CreateOrder
<1>7. nextOrderId' = id + 1
  BY DEF CreateOrder
<1>8. new \in Order /\ Settled(new) /\ OfferOf(new) = (IF q.side = "Ask" THEN q.units ELSE 0)
      /\ new.active /\ new.lockedPayment = locked /\ new.autoMatch = q.autoMatch
      /\ new.remainingUnits = q.units
  BY <1>1, <1>2, <1>4, <1>5 DEF Order, Settled, Placed, ReserveOf, OfferOf
<1> HIDE DEF new
<1>9. /\ os \in [OrderIds -> Order] /\ os[id] = new
      /\ \A k \in OrderIds \ {id} : os[k] = market.orders[k]
  BY <1>1, <1>3, <1>8
<1> HIDE DEF os
<1>10. /\ placed \in Market /\ placed.orders = os
       /\ placed.books = market.books /\ placed.unitBooks = market.unitBooks
       /\ placed.partialBooks = market.partialBooks
       /\ placed.totalLockedPayment = market.totalLockedPayment
       /\ placed.pendingShares = market.pendingShares
       /\ placed.cash = market.cash /\ placed.escrow = market.escrow
       /\ placed.wallet = market.wallet /\ placed.shares = market.shares
  BY <1>1, <1>9 DEF Market
<1> HIDE DEF placed
<1>11. /\ listed \in Market /\ listed.orders = os
       /\ listed.books = IF q.autoMatch THEN market.books \cup {id} ELSE market.books
       /\ listed.unitBooks = IF q.autoMatch THEN market.unitBooks \cup {<<new.remainingUnits, id>>}
                                            ELSE market.unitBooks
       /\ listed.partialBooks = IF q.autoMatch /\ new.allowPartial
                                  THEN market.partialBooks \cup {id} ELSE market.partialBooks
       /\ listed.totalLockedPayment = market.totalLockedPayment
       /\ listed.pendingShares = market.pendingShares
       /\ listed.cash = market.cash /\ listed.escrow = market.escrow
       /\ listed.wallet = market.wallet /\ listed.shares = market.shares
  <2> HIDE DEF id
  <2>1. CASE q.autoMatch
    <3>1. /\ Inserted(placed, id) \in Market
          /\ Inserted(placed, id).orders = placed.orders
          /\ Inserted(placed, id).pendingShares = placed.pendingShares
          /\ Inserted(placed, id).totalLockedPayment = placed.totalLockedPayment
          /\ Inserted(placed, id).cash = placed.cash
          /\ Inserted(placed, id).escrow = placed.escrow
          /\ Inserted(placed, id).wallet = placed.wallet
          /\ Inserted(placed, id).shares = placed.shares
          /\ Inserted(placed, id).books = placed.books \cup {id}
          /\ Inserted(placed, id).unitBooks =
               placed.unitBooks \cup {<<placed.orders[id].remainingUnits, id>>}
          /\ Inserted(placed, id).partialBooks =
               IF placed.orders[id].allowPartial
                 THEN placed.partialBooks \cup {id} ELSE placed.partialBooks
      BY <1>3, <1>10, InsertedFields
    <3> QED
      BY <1>9, <1>10, <2>1, <3>1
  <2>2. CASE ~ q.autoMatch
    BY <1>10, <2>2
  <2> QED
    BY <2>1, <2>2
<1> HIDE DEF listed
<1>12. /\ market' \in Market /\ market'.orders = os
       /\ market'.books = listed.books /\ market'.unitBooks = listed.unitBooks
       /\ market'.partialBooks = listed.partialBooks
       /\ market'.pendingShares = market.pendingShares
       /\ market'.totalLockedPayment = market.totalLockedPayment + locked
       /\ market'.cash = market.cash + locked
       /\ market'.escrow = market.escrow + OfferOf(new)
  <2>1. CASE q.side = "Bid"
    <3> DEFINE a == listed.totalLockedPayment + locked
    <3> DEFINE b == listed.cash + locked
    <3> DEFINE w == [listed.wallet EXCEPT ![t] = @ - locked]
    <3>1. market' = [listed EXCEPT !.totalLockedPayment = a, !.cash = b, !.wallet = w]
      BY <1>6, <2>1
    <3>2. market.wallet[t] >= locked
      BY <1>6, <2>1
    <3>3. OfferOf(new) = 0
      BY <1>8, <2>1
    <3> HIDE DEF locked
    <3>4. a \in Nat /\ b \in Nat /\ w \in [Traders -> Nat]
      BY <1>1, <1>5, <1>11, <3>2
    <3> HIDE DEF a, b, w
    <3>5. /\ market' \in Market /\ market'.orders = listed.orders
          /\ market'.books = listed.books /\ market'.unitBooks = listed.unitBooks
          /\ market'.partialBooks = listed.partialBooks
          /\ market'.pendingShares = listed.pendingShares
          /\ market'.totalLockedPayment = a
          /\ market'.cash = b /\ market'.escrow = listed.escrow
      BY <1>11, <3>1, <3>4 DEF Market
    <3> QED
      BY <1>1, <1>11, <3>3, <3>5 DEF a, b
  <2>2. CASE q.side = "Ask"
    <3> DEFINE e == listed.escrow + q.units
    <3> DEFINE h == [listed.shares EXCEPT ![t] = @ - q.units]
    <3>1. market' = [listed EXCEPT !.escrow = e, !.shares = h]
      BY <1>6, <2>2
    <3>2. market.shares[t] >= q.units
      BY <1>6, <2>2
    <3>3. OfferOf(new) = q.units /\ locked = 0
      BY <1>8, <2>2
    <3> HIDE DEF locked
    <3>4. e \in Nat /\ h \in [Traders -> Nat]
      BY <1>1, <1>2, <1>11, <3>2
    <3> HIDE DEF e, h
    <3>5. /\ market' \in Market /\ market'.orders = listed.orders
          /\ market'.books = listed.books /\ market'.unitBooks = listed.unitBooks
          /\ market'.partialBooks = listed.partialBooks
          /\ market'.pendingShares = listed.pendingShares
          /\ market'.totalLockedPayment = listed.totalLockedPayment
          /\ market'.cash = listed.cash /\ market'.escrow = e
      BY <1>11, <3>1, <3>4 DEF Market
    <3> QED
      BY <1>1, <1>11, <3>3, <3>5 DEF e
  <2> QED
    BY <1>2, <2>1, <2>2
<1> HIDE DEF id, locked
<1>13. Custody(market')
  <2>1. /\ Total(Locks(market'), OrderIds) =
             Total(Locks(market), OrderIds) - market.orders[id].lockedPayment
                + market'.orders[id].lockedPayment
        /\ Total(Offers(market'), OrderIds) =
             Total(Offers(market), OrderIds) - OfferOf(market.orders[id])
                + OfferOf(market'.orders[id])
    <3>1. \A k \in OrderIds \ {id} : market'.orders[k] = market.orders[k]
      BY <1>9, <1>12
    <3> QED
      BY <1>1, <1>3, <1>12, <3>1, CustodyChange
  <2>2. Settled(market.orders[id]) /\ ~ market.orders[id].active
    BY <1>3 DEF BookInv, Kept, Blank
  <2>3. market.orders[id].lockedPayment = 0 /\ OfferOf(market.orders[id]) = 0
    BY <2>2 DEF Settled, ReserveOf, OfferOf
  <2>4. /\ market'.orders[id].lockedPayment = locked
        /\ OfferOf(market'.orders[id]) = OfferOf(new) /\ OfferOf(new) \in Nat
    BY <1>2, <1>8, <1>9, <1>12
  <2>5. /\ Total(Locks(market), OrderIds) \in Nat /\ Total(Offers(market), OrderIds) \in Nat
        /\ Total(market.pendingShares, OrderIds) \in Nat
    BY <1>1, CustodyNat
  <2>6. Custody(market) /\ market'.pendingShares = market.pendingShares
    BY <1>1, <1>12
  <2>7. market'.cash = market'.totalLockedPayment
    BY <1>12, <2>6 DEF Custody
  <2>8. market'.cash = Total(Locks(market'), OrderIds)
    BY <1>5, <1>12, <2>1, <2>3, <2>4, <2>5, <2>6 DEF Custody
  <2>9. market'.escrow = Total(Offers(market'), OrderIds) + Total(market'.pendingShares, OrderIds)
    BY <1>12, <2>1, <2>3, <2>4, <2>5, <2>6 DEF Custody
  <2> QED
    BY <2>7, <2>8, <2>9 DEF Custody
<1>14. Books(market', {})
  <2>1. \A k \in OrderIds \ {id} : market'.orders[k] = market.orders[k]
    BY <1>9, <1>12
  <2>2. market'.orders[id] = new /\ ~ market.orders[id].active /\ id \in OrderIds
    BY <1>3, <1>9, <1>12 DEF Blank
  <2>3. Listed(market', {}) = IF q.autoMatch THEN Listed(market, {}) \cup {id}
                                             ELSE Listed(market, {})
    BY <1>8, <2>1, <2>2 DEF Listed
  <2>4. \A k \in Listed(market, {}) : market'.orders[k] = market.orders[k]
    BY <2>1, <2>2 DEF Listed
  <2>5. /\ Entries(market', Listed(market, {})) = Entries(market, Listed(market, {}))
        /\ Partials(market', Listed(market, {})) = Partials(market, Listed(market, {}))
    BY <2>4, BooksSame
  <2> DEFINE L == Listed(market, {})
  <2>6. /\ market.books = L
        /\ market.unitBooks = Entries(market', L)
        /\ market.partialBooks = Partials(market', L)
    BY <1>1, <2>5 DEF Books
  <2> HIDE DEF L
  <2>7. /\ Entries(market', L \cup {id}) = Entries(market', L) \cup {<<new.remainingUnits, id>>}
        /\ Partials(market', L \cup {id}) = IF new.allowPartial THEN Partials(market', L) \cup {id}
                                                               ELSE Partials(market', L)
    BY <2>2 DEF Entries, Partials
  <2>8. CASE q.autoMatch
    <3>1. Listed(market', {}) = L \cup {id}
      BY <2>3, <2>8 DEF L
    <3> QED
      BY <1>11, <1>12, <2>6, <2>7, <2>8, <3>1 DEF Books
  <2>9. CASE ~ q.autoMatch
    <3>1. Listed(market', {}) = L
      BY <2>3, <2>9 DEF L
    <3> QED
      BY <1>11, <1>12, <2>6, <2>9, <3>1 DEF Books
  <2> QED
    BY <2>8, <2>9
<1>15. \A k \in OrderIds : Settled(market'.orders[k])
  <2>1. \A k \in OrderIds : Settled(market.orders[k])
    BY DEF BookInv, Kept
  <2> QED
    BY <1>8, <1>9, <1>12, <2>1
<1>16. \A k \in OrderIds : market'.orders[k].active => market'.pendingShares[k] = 0
  <2>1. \A k \in OrderIds : market.orders[k].active => market.pendingShares[k] = 0
    BY DEF BookInv, Kept
  <2> QED
    BY <1>3, <1>9, <1>12, <2>1 DEF Blank
<1>17. \A k \in OrderIds : k >= nextOrderId' => Blank(market', k)
  <2>1. id \in Nat /\ id = nextOrderId /\ \A k \in OrderIds : k \in Nat
    BY <1>3, IdsFinite DEF id
  <2>2. \A k \in OrderIds : k >= id => Blank(market, k)
    BY <2>1 DEF BookInv
  <2>3. \A k \in OrderIds : k >= id + 1 => k # id /\ k >= id
    BY <2>1
  <2> QED
    BY <1>7, <1>9, <1>12, <2>1, <2>2, <2>3 DEF Blank
<1> QED
  BY <1>12, <1>13, <1>14, <1>15, <1>16, <1>17 DEF Kept

\* Before the first order.
LEMMA InitBookInv ==
    ASSUME Init
    PROVE  BookInv
<1>1. /\ {InitialPayment, InitialShares} \subseteq Nat
      /\ NoOrder \in Order /\ NoOrder.active = FALSE /\ NoOrder.lockedPayment = 0
  BY OrderAssumption DEF NoOrder, Order
<1>2. /\ market.orders = [id \in OrderIds |-> NoOrder]
      /\ market.books = {} /\ market.unitBooks = {} /\ market.partialBooks = {}
      /\ market.totalLockedPayment = 0 /\ market.cash = 0 /\ market.escrow = 0
      /\ market.pendingShares = [id \in OrderIds |-> 0]
  BY DEF Init
<1>3. market \in Market
  <2> DEFINE os == [id \in OrderIds |-> NoOrder]
  <2> DEFINE zs == [id \in OrderIds |-> 0]
  <2> DEFINE w == [t \in Traders |-> InitialPayment]
  <2> DEFINE h == [t \in Traders |-> InitialShares]
  <2>1. /\ os \in [OrderIds -> Order] /\ zs \in [OrderIds -> Nat]
        /\ w \in [Traders -> Nat] /\ h \in [Traders -> Nat]
    BY <1>1
  <2>2. market = [orders |-> os, books |-> {}, unitBooks |-> {}, partialBooks |-> {},
                  totalLockedPayment |-> 0, pendingShares |-> zs, cash |-> 0, escrow |-> 0,
                  fees |-> 0, wallet |-> w, shares |-> h]
    BY DEF Init
  <2> HIDE DEF os, zs, w, h
  <2> QED
    BY <2>1, <2>2 DEF Market
<1>4. TypeOK
  <2>1. /\ now = 0 /\ vaultTerminal = FALSE /\ paused = {}
        /\ defaultAllowPartialFills = FALSE /\ nextOrderId = 1
    BY DEF Init
  <2>2. now \in Nat /\ nextOrderId \in Nat \ {0}
    BY <2>1
  <2>3. vaultTerminal \in BOOLEAN /\ paused \subseteq Pausable
        /\ defaultAllowPartialFills \in BOOLEAN
    BY <2>1
  <2> QED
    BY <1>3, <2>2, <2>3 DEF TypeOK
<1>5. \A id \in OrderIds : /\ Settled(market.orders[id]) /\ Blank(market, id)
                           /\ ~ market.orders[id].active
  BY <1>1, <1>2 DEF Settled, Placed, ReserveOf, Blank
<1>6. /\ Locks(market) = [id \in OrderIds |-> 0]
      /\ Offers(market) = [id \in OrderIds |-> 0]
  BY <1>1, <1>2 DEF Locks, Offers, OfferOf
<1>7. Total([id \in OrderIds |-> 0], OrderIds) = 0
  BY IdsFinite, TotalZero
<1>8. Custody(market)
  BY <1>2, <1>6, <1>7 DEF Custody
<1>9. Books(market, {})
  <2>1. Listed(market, {}) = {}
    BY <1>5 DEF Listed
  <2> QED
    BY <1>2, <2>1 DEF Books, Entries, Partials
<1> QED
  BY <1>3, <1>4, <1>5, <1>8, <1>9 DEF BookInv, Kept

\* A call that places no order.
LEMMA CallKeeps ==
    ASSUME BookInv, MarketKept,
           UNCHANGED <<now, vaultTerminal, paused, defaultAllowPartialFills, nextOrderId>>
    PROVE  BookInv'
  BY DEF BookInv, MarketKept, TypeOK, Kept, OpensNone

\* Every step keeps the invariant.
LEMMA StepBookInv ==
    ASSUME BookInv, [Next]_vars
    PROVE  BookInv'
<1>0. Kept(market, {})
  BY DEF BookInv
<1>1. ASSUME NEW allowed \in BOOLEAN, SetDefaultAllowPartialFills(allowed) PROVE BookInv'
  BY <1>1 DEF SetDefaultAllowPartialFills, BookInv, TypeOK
<1>2. ASSUME NEW t \in Traders, NEW q \in OrderRequests, CreateOrder(t, q) PROVE BookInv'
  <2>1. /\ Kept(market', {})
        /\ \A id \in OrderIds : id >= nextOrderId' => Blank(market', id)
    BY <1>2, CreateKeeps
  <2>2. /\ nextOrderId' = nextOrderId + 1
        /\ UNCHANGED <<now, vaultTerminal, paused, defaultAllowPartialFills>>
    BY <1>2 DEF CreateOrder
  <2>3. TypeOK'
    BY <2>1, <2>2 DEF BookInv, TypeOK, Kept
  <2> QED
    BY <2>1, <2>3 DEF BookInv
<1>3. ASSUME NEW rejecting \in SUBSET Contracts, NEW id \in OrderIds,
             NEW t \in Traders, NEW u \in FillSizes, FillOrder(t, id, u, rejecting)
      PROVE  BookInv'
  <2>1. MarketKept
    BY <1>0, <1>3, FillKeeps
  <2> QED
    BY <1>3, <2>1, CallKeeps DEF FillOrder
<1>4. ASSUME NEW rejecting \in SUBSET Contracts, NEW id \in OrderIds, Release(id, rejecting)
      PROVE  BookInv'
  <2>1. MarketKept
    BY <1>0, <1>4, ReleaseKeeps
  <2> QED
    BY <1>4, <2>1, CallKeeps DEF Release
<1>5. ASSUME NEW t \in Traders, NEW r \in Traders, NEW id \in OrderIds,
             WithdrawOrderShares(t, id, r)
      PROVE  BookInv'
  <2>1. MarketKept
    BY <1>0, <1>5, WithdrawKeeps
  <2> QED
    BY <1>5, <2>1, CallKeeps DEF WithdrawOrderShares
<1>6. ASSUME NEW rejecting \in SUBSET Contracts, NEW g \in Groups, MatchOrders(g, rejecting)
      PROVE  BookInv'
  <2>1. MarketKept
    BY <1>0, <1>6, MatchOrdersKeeps
  <2>2. UNCHANGED <<now, vaultTerminal, paused, defaultAllowPartialFills, nextOrderId>>
    BY <1>6 DEF MatchOrders, MatchReleasesStale, MatchReleasesSelfCross,
                MatchReleasesUnfillable, MatchTrades, Release
  <2> QED
    BY <2>1, <2>2, CallKeeps
<1>7. ASSUME Tick PROVE BookInv'
  BY <1>7 DEF Tick, BookInv, TypeOK
<1>8. ASSUME VaultTerminates PROVE BookInv'
  BY <1>8 DEF VaultTerminates, BookInv, TypeOK
<1>9. ASSUME PauseChanges PROVE BookInv'
  BY <1>9 DEF PauseChanges, BookInv, TypeOK
<1>10. ASSUME UNCHANGED vars PROVE BookInv'
  BY <1>10 DEF vars, BookInv, TypeOK
<1> QED
  BY <1>1, <1>2, <1>3, <1>4, <1>5, <1>6, <1>7, <1>8, <1>9, <1>10
     DEF Next, CancelOrder, ReleaseOrder

\* The invariant holds in every reachable state, whatever the traders call.
THEOREM BookInvariant == Spec => []BookInv
<1>1. Init => BookInv
  BY InitBookInv
<1>2. BookInv /\ [Next]_vars => BookInv'
  BY StepBookInv
<1> QED
  BY <1>1, <1>2, PTL DEF Spec

-----------------------------------------------------------------------------
(* What it means for those who trade.                                      *)

\* The marketplace holds what it owes.
LEMMA KeptCustody ==
    ASSUME Kept(market, {})
    PROVE  CustodyMatches
<1>1. /\ Custody(market) /\ market \in Market
      /\ \A id \in OrderIds : Settled(market.orders[id])
  BY DEF Kept
<1>2. \A id \in OrderIds : orders[id] = market.orders[id] /\ orders[id].side \in {"Bid", "Ask"}
  BY <1>1 DEF orders, Market, Order
<1>3. Locks(market) = [id \in OrderIds |-> orders[id].lockedPayment]
  BY DEF Locks, orders
<1>4. Offers(market) = [id \in OrderIds |-> IF id \in Active("Ask")
                                              THEN orders[id].remainingUnits ELSE 0]
  BY DEF Offers, OfferOf, Active, orders
<1>5. \A id \in OrderIds :
        orders[id].lockedPayment =
          IF id \in Active("Bid")
            THEN ReserveFor(orders[id].remainingUnits, orders[id].unitPrice) ELSE 0
  BY <1>1, <1>2 DEF Settled, ReserveOf, Active
<1>6. PaymentMatches
  BY <1>1, <1>3, <1>5 DEF Custody, PaymentMatches
<1>7. SharesMatch
  BY <1>1, <1>4 DEF Custody, SharesMatch
<1> QED
  BY <1>6, <1>7 DEF CustodyMatches

\* CustodyMatches is an invariant: whatever the order of placing, filling,
\* matching, cancelling and rejecting, payment and shares of the marketplace
\* are those that its open orders lock and its owners may withdraw.
THEOREM CustodyKept == Spec => []CustodyMatches
<1>1. BookInv => CustodyMatches
  BY KeptCustody DEF BookInv
<1> QED
  BY <1>1, BookInvariant, PTL

\* BooksMatch is an invariant: the books hold the open automatic orders, each
\* under its present size.
THEOREM BooksKept == Spec => []BooksMatch
<1>1. ASSUME Kept(market, {}) PROVE BooksMatch
  <2> DEFINE L == {id \in OrderIds : orders[id].active /\ orders[id].autoMatch}
  <2>1. Listed(market, {}) = L
    BY DEF Listed, orders
  <2>2. /\ market.books = L
        /\ market.unitBooks = Entries(market, L)
        /\ market.partialBooks = Partials(market, L)
    <3> HIDE DEF L
    <3> QED
      BY <1>1, <2>1 DEF Kept, Books
  <2>3. /\ Entries(market, L) = {<<orders[id].remainingUnits, id>> : id \in L}
        /\ Partials(market, L) = {id \in L : orders[id].allowPartial}
    BY DEF Entries, Partials, orders
  <2> QED
    BY <2>2, <2>3 DEF BooksMatch
<1>2. BookInv => BooksMatch
  BY <1>1 DEF BookInv
<1> QED
  BY <1>2, BookInvariant, PTL

\* OpenOrdersFillable is an invariant: no partial fill leaves a rest that
\* nobody could fill.
THEOREM OpenOrdersStayFillable == Spec => []OpenOrdersFillable
<1>1. BookInv => OpenOrdersFillable
  <2>1. BookInv => \A id \in OrderIds : Settled(orders[id])
    BY DEF BookInv, Kept, orders
  <2> QED
    BY <2>1 DEF Settled, OpenOrdersFillable
<1> QED
  BY <1>1, BookInvariant, PTL

\* Two heads that cross and whose sizes allow a trade move something.
LEMMA HeadsMove ==
    ASSUME Kept(market, {}), NEW bid \in OrderIds, NEW ask \in OrderIds,
           Open(bid, "Bid"), Open(ask, "Ask"), Crosses(bid, ask),
           \/ orders[bid].allowPartial /\ orders[ask].allowPartial
           \/ orders[bid].remainingUnits = orders[ask].remainingUnits
    PROVE  \/ IsStaleHead(bid) \/ IsStaleHead(ask)
           \/ /\ Matched(bid, ask)
              /\ \/ orders[bid].owner = orders[ask].owner
                 \/ Tradable(bid, ask) /\ GrossOf(bid, ask) <= orders[bid].lockedPayment
<1> DEFINE o == orders[bid]
<1> DEFINE p == orders[ask]
<1> DEFINE units == UnitsOf(bid, ask)
<1> DEFINE price == MakerPrice(bid, ask)
<1>1. /\ o \in Order /\ p \in Order /\ o.active /\ p.active
      /\ o.autoMatch /\ p.autoMatch /\ o.side = "Bid" /\ Settled(o) /\ Settled(p)
  BY DEF Kept, Market, Open, orders
<1>2. /\ o.remainingUnits \in Nat /\ p.remainingUnits \in Nat
      /\ o.unitPrice \in Nat /\ p.unitPrice \in Nat /\ p.unitPrice <= o.unitPrice
  BY <1>1 DEF Order, Crosses
<1>3. /\ MinimumC2CUnits \in Nat /\ ShareScale \in Nat \ {0}
      /\ MinimumC2CUnits <= o.remainingUnits /\ MinimumC2CUnits <= p.remainingUnits
      /\ Gross(MinimumC2CUnits, o.unitPrice) # 0 /\ Gross(MinimumC2CUnits, p.unitPrice) # 0
  BY <1>1, OrderAssumption DEF Settled, Placed
<1>4. /\ units \in Nat /\ MinimumC2CUnits <= units /\ units <= o.remainingUnits
      /\ price \in Nat /\ price <= o.unitPrice /\ Gross(MinimumC2CUnits, price) # 0
  <2>1. price = o.unitPrice \/ price = p.unitPrice
    BY DEF MakerPrice, Smaller
  <2>2. units = Smaller(o.remainingUnits, p.remainingUnits)
    BY DEF UnitsOf
  <2> HIDE DEF o, p, price, units
  <2> QED
    BY <1>2, <1>3, <2>1, <2>2 DEF Smaller
<1> HIDE DEF units, price
<1>5. Gross(units, price) \in Nat /\ Gross(units, price) # 0
  <2>1. /\ MulDiv(MinimumC2CUnits, price, ShareScale) \in Nat
        /\ MulDiv(units, price, ShareScale) \in Nat
        /\ MulDiv(MinimumC2CUnits, price, ShareScale) <= MulDiv(units, price, ShareScale)
    <3>1. price <= price
      BY <1>4
    <3> QED
      BY <1>3, <1>4, <3>1, GrossGrows
  <2> QED
    BY <1>4, <2>1 DEF Gross
<1>6. Gross(units, price) <= o.lockedPayment
  BY <1>1, <1>4, RestCovered
<1>7. GrossOf(bid, ask) = Gross(units, price)
  BY DEF GrossOf, units, price
<1>8. Tradable(bid, ask) /\ GrossOf(bid, ask) <= o.lockedPayment
  BY <1>5, <1>6, <1>7 DEF Tradable
<1>9. bid # 0 /\ ask # 0
  BY IdsFinite
<1> QED
  BY <1>8, <1>9 DEF IsStaleHead, Matched

\* A head is at least as good a counterpart as any other of its book.
LEMMA HeadsCross ==
    ASSUME market \in Market, NEW bid \in OrderIds, NEW ask \in OrderIds, Crosses(bid, ask),
           NEW b \in OrderIds, bid = b \/ Book("Bid")!Better(b, bid),
           NEW a \in OrderIds, ask = a \/ Book("Ask")!Better(a, ask)
    PROVE  Crosses(b, a)
<1>1. \A k \in OrderIds : orders[k].unitPrice \in Nat
  BY DEF Market, Order, orders
<1>2. orders[b].unitPrice >= orders[bid].unitPrice
  BY <1>1, BetterOrder
<1>3. orders[a].unitPrice <= orders[ask].unitPrice
  BY <1>1, BetterOrder
<1> QED
  BY <1>1, <1>2, <1>3 DEF Crosses

\* Two orders of one size that could trade have heads of that size that do.
LEMMA SameSizeMoves ==
    ASSUME Kept(market, {}), NEW bid \in OrderIds, NEW ask \in OrderIds,
           Open(bid, "Bid"), Open(ask, "Ask"), Crosses(bid, ask),
           NEW units, orders[bid].remainingUnits = units, orders[ask].remainingUnits = units,
           NEW b, b = BestOrderForUnits("Bid", units),
           NEW a, a = BestOrderForUnits("Ask", units)
    PROVE  \/ IsStaleHead(b) \/ IsStaleHead(a)
           \/ /\ Matched(b, a)
              /\ \/ orders[b].owner = orders[a].owner
                 \/ Tradable(b, a) /\ GrossOf(b, a) <= orders[b].lockedPayment
<1>1. /\ b \in OrderIds /\ Open(b, "Bid") /\ orders[b].remainingUnits = units
      /\ bid = b \/ Book("Bid")!Better(b, bid)
  BY UnitHead
<1>2. /\ a \in OrderIds /\ Open(a, "Ask") /\ orders[a].remainingUnits = units
      /\ ask = a \/ Book("Ask")!Better(a, ask)
  BY UnitHead
<1>3. market \in Market
  BY DEF Kept
<1>4. Crosses(b, a)
  BY <1>1, <1>2, <1>3, HeadsCross
<1> QED
  BY <1>1, <1>2, <1>4, HeadsMove

\* The group whose heads move when two orders could trade: that of their
\* size, or the partly fillable orders.
LEMMA KeptProgress ==
    ASSUME Kept(market, {})
    PROVE  MatchMakesProgress
<1> DEFINE Moves(b, a) ==
      \/ IsStaleHead(b) \/ IsStaleHead(a)
      \/ /\ Matched(b, a)
         /\ \/ orders[b].owner = orders[a].owner
            \/ Tradable(b, a) /\ GrossOf(b, a) <= orders[b].lockedPayment
<1> SUFFICES ASSUME NEW bid \in OrderIds, NEW ask \in OrderIds, Matchable(bid, ask)
             PROVE  \E g \in Groups : Moves(Heads(g)[1], Heads(g)[2])
  BY DEF MatchMakesProgress
<1>1. /\ Open(bid, "Bid") /\ Open(ask, "Ask") /\ Crosses(bid, ask)
      /\ \/ orders[bid].allowPartial /\ orders[ask].allowPartial
         \/ orders[bid].remainingUnits = orders[ask].remainingUnits
  BY DEF Matchable, Active, Open
<1>2. CASE orders[bid].allowPartial /\ orders[ask].allowPartial
  <2> DEFINE b == BestPartialOrder("Bid")
  <2> DEFINE a == BestPartialOrder("Ask")
  <2>1. /\ b # 0 /\ b \in OrderIds /\ Open(b, "Bid") /\ orders[b].allowPartial
        /\ bid = b \/ Book("Bid")!Better(b, bid)
    BY <1>1, <1>2, PartialHead
  <2>2. /\ a # 0 /\ a \in OrderIds /\ Open(a, "Ask") /\ orders[a].allowPartial
        /\ ask = a \/ Book("Ask")!Better(a, ask)
    BY <1>1, <1>2, PartialHead
  <2>3. 0 \in Groups
    BY DEF Groups
  <2>4. Crosses(b, a)
    <3>1. market \in Market
      BY DEF Kept
    <3> HIDE DEF b, a
    <3> QED
      BY <1>1, <2>1, <2>2, <3>1, HeadsCross
  <2>5. CASE orders[b].remainingUnits # orders[a].remainingUnits
    <3>1. Heads(0) = <<b, a>>
      BY <2>5 DEF Heads
    <3>2. Moves(b, a)
      <4> HIDE DEF b, a
      <4> QED
        BY <2>1, <2>2, <2>4, HeadsMove
    <3> HIDE DEF b, a, Moves
    <3> QED
      BY <2>3, <3>1, <3>2
  <2>6. CASE orders[b].remainingUnits = orders[a].remainingUnits
    <3> DEFINE units == orders[b].remainingUnits
    <3> DEFINE c == BestOrderForUnits("Bid", units)
    <3> DEFINE d == BestOrderForUnits("Ask", units)
    <3>1. Heads(0) = <<c, d>>
      BY <2>1, <2>2, <2>6 DEF Heads
    <3>2. Moves(c, d)
      <4> HIDE DEF b, a
      <4>1. orders[a].remainingUnits = units
        BY <2>6
      <4> HIDE DEF units
      <4>2. orders[b].remainingUnits = units
        BY DEF units
      <4> QED
        BY <2>1, <2>2, <2>4, <4>1, <4>2, SameSizeMoves
    <3> HIDE DEF c, d, Moves
    <3> QED
      BY <2>3, <3>1, <3>2
  <2> QED
    BY <2>5, <2>6
<1>3. CASE orders[bid].remainingUnits = orders[ask].remainingUnits
  <2> DEFINE units == orders[bid].remainingUnits
  <2> DEFINE c == BestOrderForUnits("Bid", units)
  <2> DEFINE d == BestOrderForUnits("Ask", units)
  <2>1. units \in Groups /\ units # 0
    <3>1. <<units, bid>> \in market.unitBooks
      BY <1>1 DEF Kept, Books, Entries, Listed, Open, orders
    <3>2. /\ units >= MinimumC2CUnits /\ units \in Nat /\ MinimumC2CUnits \in Nat \ {0}
      BY <1>1, OrderAssumption DEF Kept, Settled, Market, Order, Open, orders
    <3> HIDE DEF units
    <3>3. <<units, bid>>[1] = units
      OBVIOUS
    <3> QED
      BY <3>1, <3>2, <3>3 DEF Groups
  <2>2. Heads(units) = <<c, d>>
    BY <2>1 DEF Heads
  <2>3. Moves(c, d)
    <3>1. orders[bid].remainingUnits = units /\ orders[ask].remainingUnits = units
      BY <1>3
    <3> HIDE DEF units
    <3> QED
      BY <1>1, <3>1, SameSizeMoves
  <2> HIDE DEF units, c, d, Moves
  <2> QED
    BY <2>1, <2>2, <2>3
<1> QED
  BY <1>1, <1>2, <1>3

\* MatchMakesProgress is an invariant: while two orders could trade, some
\* call of the matching worker moves an order.
THEOREM MatchesProgress == Spec => []MatchMakesProgress
<1>1. BookInv => MatchMakesProgress
  BY KeptProgress DEF BookInv
<1> QED
  BY <1>1, BookInvariant, PTL

\* The two orders of a trade are the first of those it compares.
LEMMA TradesInPriority ==
    ASSUME Kept(market, {}), NEW g, NEW rejecting,
           MatchTrades(Heads(g)[1], Heads(g)[2], rejecting)
    PROVE  /\ Crosses(Heads(g)[1], Heads(g)[2])
           /\ FirstInLine(Heads(g)[1], Heads(g)[2])
           /\ FirstInLine(Heads(g)[2], Heads(g)[1])
<1> DEFINE bid == Heads(g)[1]
<1> DEFINE ask == Heads(g)[2]
<1>1. bid # 0 /\ ask # 0 /\ Crosses(bid, ask)
  BY DEF MatchTrades, Matched
<1>2. orders[bid].side = "Bid" /\ orders[ask].side = "Ask"
  BY <1>1, HeadsOpen DEF Open
<1>3. \/ /\ bid = BestPartialOrder("Bid") /\ ask = BestPartialOrder("Ask")
         /\ orders[bid].remainingUnits # orders[ask].remainingUnits
      \/ \E units : bid = BestOrderForUnits("Bid", units) /\ ask = BestOrderForUnits("Ask", units)
  BY <1>1, HeadsAre
<1> HIDE DEF bid, ask
<1>4. CASE /\ bid = BestPartialOrder("Bid") /\ ask = BestPartialOrder("Ask")
           /\ orders[bid].remainingUnits # orders[ask].remainingUnits
  <2>1. \A r \in OrderIds : Open(r, "Bid") /\ orders[r].allowPartial
                              => r = bid \/ Book("Bid")!Better(bid, r)
    BY <1>1, <1>4, PartialHead
  <2>2. \A r \in OrderIds : Open(r, "Ask") /\ orders[r].allowPartial
                              => r = ask \/ Book("Ask")!Better(ask, r)
    BY <1>1, <1>4, PartialHead
  <2>3. FirstInLine(bid, ask)
    BY <1>2, <1>4, <2>1 DEF FirstInLine, Open
  <2>4. FirstInLine(ask, bid)
    BY <1>2, <1>4, <2>2 DEF FirstInLine, Open
  <2> QED
    BY <1>1, <2>3, <2>4 DEF bid, ask
<1>5. ASSUME NEW units, bid = BestOrderForUnits("Bid", units),
             ask = BestOrderForUnits("Ask", units)
      PROVE  FirstInLine(bid, ask) /\ FirstInLine(ask, bid)
  <2>1. /\ orders[bid].remainingUnits = units
        /\ \A r \in OrderIds : Open(r, "Bid") /\ orders[r].remainingUnits = units
                                 => r = bid \/ Book("Bid")!Better(bid, r)
    BY <1>1, <1>5, UnitHead
  <2>2. /\ orders[ask].remainingUnits = units
        /\ \A r \in OrderIds : Open(r, "Ask") /\ orders[r].remainingUnits = units
                                 => r = ask \/ Book("Ask")!Better(ask, r)
    BY <1>1, <1>5, UnitHead
  <2>3. FirstInLine(bid, ask)
    BY <1>2, <2>1, <2>2 DEF FirstInLine, Open
  <2>4. FirstInLine(ask, bid)
    BY <1>2, <2>1, <2>2 DEF FirstInLine, Open
  <2> QED
    BY <2>3, <2>4
<1> QED
  BY <1>1, <1>3, <1>4, <1>5 DEF bid, ask

\* MatchesInPriority is an action property of every behaviour: each trade of
\* a match is between the best orders of its group, by price and then time.
THEOREM PriorityKept == Spec => MatchesInPriority
<1>1. BookInv => \A g \in Groups, rejecting \in SUBSET Contracts :
                   LET bid == Heads(g)[1]
                       ask == Heads(g)[2]
                   IN  MatchTrades(bid, ask, rejecting) =>
                         Crosses(bid, ask) /\ FirstInLine(bid, ask) /\ FirstInLine(ask, bid)
  BY TradesInPriority DEF BookInv
<1> QED
  BY <1>1, BookInvariant, PTL DEF MatchesInPriority
=============================================================================
