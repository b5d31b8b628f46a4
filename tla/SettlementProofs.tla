-------------------------- MODULE SettlementProofs --------------------------
(***************************************************************************)
(* Proofs about the settlement core, for every number of markets, users,   *)
(* outcomes and treasuries and for all parameters the assumptions admit.   *)
(***************************************************************************)
EXTENDS SettlementProps, SumTheorems

-----------------------------------------------------------------------------
(* Arithmetic.                                                             *)

\* What a claim is paid is a natural number.
LEMMA ConsumePoolNat ==
    ASSUME NEW units \in Nat, NEW remainingUnits \in Nat, NEW pool \in Nat,
           CanConsume(units, remainingUnits)
    PROVE  ConsumePool(units, remainingUnits, pool) \in Nat
  BY MulDivNat DEF ConsumePool, CanConsume

\* The weight of a purchase.
LEMMA WeightType ==
    ASSUME NEW enabled, NEW createdAt \in Nat, NEW closeAt \in Nat, NEW t \in Nat
    PROVE  EarlyBirdWeight(enabled, createdAt, closeAt, t) \in 0..3
  BY DEF EarlyBirdWeight

\* The split of a resolved pool: five amounts, and the four parts other than
\* the rake are the whole principal.
LEMMA PayoutsSplit ==
    ASSUME NEW principal \in Nat, NEW e \in Snapshot, NEW enabled,
           NEW score \in Nat
    PROVE  LET b == Payouts(principal, e, enabled, score) IN
           /\ b \in Breakdown
           /\ b.totalRake = MulDiv(principal, e.creatorRakeBps, BPS)
           /\ b.protocolFee = MulDiv(b.totalRake, e.protocolShareBps, BPS)
           /\ b.protocolFee + b.creatorFee + b.earlyBirdPool + b.winnerPool = principal
<1> DEFINE rake == MulDiv(principal, e.creatorRakeBps, BPS)
<1> DEFINE fee  == MulDiv(rake, e.protocolShareBps, BPS)
<1> DEFINE net  == rake - fee
<1> DEFINE early == IF enabled /\ score # 0
                      THEN MulDiv(net, e.earlyBirdShareBps, BPS) ELSE 0
<1>1. /\ e.creatorRakeBps \in 0..BPS /\ e.protocolShareBps \in 0..BPS
      /\ e.earlyBirdShareBps \in 0..BPS
  BY DEF Snapshot
<1>2. BPS \in Nat \ {0}
  BY DEF BPS
<1>3. rake \in 0..principal
  BY <1>1, <1>2, MulDivBound
<1>4. fee \in 0..rake
  <2>1. rake \in Nat
    BY <1>3
  <2> HIDE DEF rake
  <2> QED
    BY <2>1, <1>1, <1>2, MulDivBound
<1>5. net \in Nat
  <2> HIDE DEF rake, fee
  <2> QED
    BY <1>3, <1>4
<1>6. early \in 0..net
  <2>1. MulDiv(net, e.earlyBirdShareBps, BPS) \in 0..net
    <3> HIDE DEF net
    <3> QED
      BY <1>1, <1>2, <1>5, MulDivBound
  <2>2. 0 \in 0..net
    <3> HIDE DEF net
    <3> QED
      BY <1>5
  <2> HIDE DEF net
  <2> QED
    BY <2>1, <2>2
<1>7. Payouts(principal, e, enabled, score) =
        [totalRake |-> rake, protocolFee |-> fee, earlyBirdPool |-> early,
         creatorFee |-> net - early, winnerPool |-> principal - rake]
  BY DEF Payouts
<1> HIDE DEF early
<1>8. net = rake - fee
  OBVIOUS
<1> HIDE DEF net, fee
<1>9. fee = MulDiv(rake, e.protocolShareBps, BPS)
  BY DEF fee
<1> HIDE DEF rake
<1>10. rake = MulDiv(principal, e.creatorRakeBps, BPS)
  BY DEF rake
<1> QED
  BY <1>3, <1>4, <1>5, <1>6, <1>7, <1>8, <1>9, <1>10 DEF Breakdown

-----------------------------------------------------------------------------
(* Type correctness, contract by contract.                                 *)

\* What a purchase order leaves of its size is a natural number.
LEMMA FilledNat ==
    ASSUME VaultTypeOK, NEW m \in Markets, NEW u \in Users, NEW desired \in Nat,
           CanBuy(m, u, desired)
    PROVE  Filled(m, u, desired) \in Nat
  BY DEF VaultTypeOK, CanBuy, Filled, Smaller, Snapshot

\* initialize stores a well-formed snapshot and well-formed terms.
LEMMA InitializeType ==
    ASSUME VaultTypeOK, NEW m \in Markets, NEW s \in Snapshot, NEW t \in Terms,
           Initialize(m, s, t)
    PROVE  VaultTypeOK'
  BY DEF VaultTypeOK, Initialize, MarketStates, phaseVars, tradeVars, shareVars, winVars,
         bonusVars

\* updateBeforeFirstBuy stores well-formed terms.
LEMMA UpdateTermsType ==
    ASSUME VaultTypeOK, NEW m \in Markets, NEW t \in Terms, UpdateTerms(m, t)
    PROVE  VaultTypeOK'
  BY DEF VaultTypeOK, UpdateTerms, phaseVars, tradeVars, shareVars, winVars, bonusVars

\* A purchase adds naturals to naturals: its score is filled times 0..3.
LEMMA CompleteBuyType ==
    ASSUME VaultTypeOK, NEW m \in Markets, NEW u \in Users, NEW o \in Outcomes,
           NEW filled \in Nat, now \in Nat, CompleteBuy(m, u, o, filled)
    PROVE  VaultTypeOK'
<1> DEFINE weight == EarlyBirdWeight(EarlyBirdEnabled(m), params[m].createdAt,
                                     terms[m].closeAt, now)
<1> DEFINE score == filled * weight
<1>1. weight \in 0..3
  BY WeightType DEF VaultTypeOK, EarlyBirdEnabled, Snapshot, Terms
<1>2. score \in Nat
  <2> HIDE DEF weight
  <2> QED
    BY <1>1
<1>3. /\ totalScore' = [totalScore EXCEPT ![m] = @ + score]
      /\ earlyBirdScore' = [earlyBirdScore EXCEPT ![m][u] = @ + score]
  BY DEF CompleteBuy
<1> HIDE DEF score
<1>4. u \in Accounts
  BY DEF Accounts
<1> QED
  BY <1>2, <1>3, <1>4
     DEF CompleteBuy, VaultTypeOK, phaseVars, winVars, bonusVars

\* resolve fixes pools that are natural numbers, so no subtraction in
\* _calculatePayouts underflows.
LEMMA ResolveToType ==
    ASSUME VaultTypeOK, NEW m \in Markets, NEW o \in Outcomes, ResolveTo(m, o)
    PROVE  VaultTypeOK'
<1>1. PayoutsOf(m) \in Breakdown
  BY PayoutsSplit DEF PayoutsOf, VaultTypeOK, EarlyBirdEnabled
<1>2. /\ PayoutsOf(m).protocolFee \in Nat /\ PayoutsOf(m).creatorFee \in Nat
      /\ PayoutsOf(m).winnerPool \in Nat /\ PayoutsOf(m).earlyBirdPool \in Nat
  BY <1>1 DEF Breakdown
<1> QED
  BY <1>1, <1>2 DEF ResolveTo, VaultTypeOK, MarketStates, tradeVars, shareVars, bonusVars

\* The three ways to void a market.
LEMMA VoidType ==
    ASSUME VaultTypeOK, NEW m \in Markets, NEW reason \in VoidReasons, Void(m, reason)
    PROVE  VaultTypeOK'
  BY DEF VaultTypeOK, Void, MarketStates, tradeVars, shareVars, winVars, bonusVars

-----------------------------------------------------------------------------
(* Shares.  ERC1155Supply lowers totalSupply without a check, so that it   *)
(* never goes below zero rests on the supply being the sum of balances.    *)

\* Only finitely many accounts can hold shares.
LEMMA AccountsFinite == IsFiniteSet(Accounts)
  BY AddressAssumption, FS_AddElement DEF Accounts

\* One account holds no more than there is.
LEMMA HeldWithinSupply ==
    ASSUME VaultTypeOK, SupplyIsSumOfBalances,
           NEW m \in Markets, NEW o \in Outcomes, NEW a \in Accounts
    PROVE  balanceOf[m][o][a] \in Nat /\ balanceOf[m][o][a] <= supply[m][o]
<1>1. \A x \in Accounts : balanceOf[m][o][x] \in Nat
  BY DEF VaultTypeOK
<1>2. supply[m][o] = Total(balanceOf[m][o], Accounts)
  BY DEF SupplyIsSumOfBalances
<1> QED
  BY <1>1, <1>2, AccountsFinite, TotalAtLeast

\* Minting to or burning from one account moves balance and supply alike.
LEMMA SupplyFollows ==
    ASSUME VaultTypeOK, VaultTypeOK', SupplyIsSumOfBalances,
           NEW m \in Markets, NEW o \in Outcomes, NEW a \in Accounts,
           \A b \in Accounts \ {a} : balanceOf'[m][o][b] = balanceOf[m][o][b],
           supply'[m][o] = supply[m][o] - balanceOf[m][o][a] + balanceOf'[m][o][a]
    PROVE  supply'[m][o] = Total(balanceOf'[m][o], Accounts)
<1>1. /\ \A x \in Accounts : balanceOf[m][o][x] \in Nat
      /\ \A x \in Accounts : balanceOf'[m][o][x] \in Nat
  BY DEF VaultTypeOK
<1>2. supply[m][o] = Total(balanceOf[m][o], Accounts)
  BY DEF SupplyIsSumOfBalances
<1>3. Total(balanceOf'[m][o], Accounts)
        = Total(balanceOf[m][o], Accounts) - balanceOf[m][o][a] + balanceOf'[m][o][a]
  BY <1>1, AccountsFinite, TotalUpdate
<1> QED
  BY <1>2, <1>3

\* completeBuy mints what it adds to the balance.
LEMMA BuyShares ==
    ASSUME VaultTypeOK, VaultTypeOK', SupplyIsSumOfBalances,
           NEW m \in Markets, NEW u \in Users, NEW o \in Outcomes,
           NEW filled \in Nat, CompleteBuy(m, u, o, filled)
    PROVE  SupplyIsSumOfBalances'
<1> SUFFICES ASSUME NEW n \in Markets, NEW p \in Outcomes
             PROVE  supply'[n][p] = Total(balanceOf'[n][p], Accounts)
  BY DEF SupplyIsSumOfBalances
<1>1. u \in Accounts
  BY DEF Accounts
<1>2. CASE n = m /\ p = o
  <2>1. /\ \A b \in Accounts \ {u} : balanceOf'[m][o][b] = balanceOf[m][o][b]
        /\ supply'[m][o] = supply[m][o] - balanceOf[m][o][u] + balanceOf'[m][o][u]
    BY <1>1 DEF CompleteBuy, VaultTypeOK
  <2> QED
    BY <1>1, <1>2, <2>1, SupplyFollows
<1>3. CASE ~(n = m /\ p = o)
  <2>1. balanceOf'[n][p] = balanceOf[n][p] /\ supply'[n][p] = supply[n][p]
    BY <1>3 DEF CompleteBuy, VaultTypeOK
  <2> QED
    BY <2>1 DEF SupplyIsSumOfBalances
<1> QED
  BY <1>2, <1>3

\* claimWinningsFor and burnLosingPosition burn all a holder has of one
\* outcome.
LEMMA BurnOne ==
    ASSUME VaultTypeOK, SupplyIsSumOfBalances,
           NEW m \in Markets, NEW u \in Users, NEW o \in Outcomes,
           balanceOf' = [balanceOf EXCEPT ![m][o][u] = 0],
           supply' = [supply EXCEPT ![m][o] = @ - balanceOf[m][o][u]]
    PROVE  /\ balanceOf' \in [Markets -> [Outcomes -> [Accounts -> Nat]]]
           /\ supply' \in [Markets -> [Outcomes -> Nat]]
           /\ VaultTypeOK' => SupplyIsSumOfBalances'
<1>1. u \in Accounts
  BY DEF Accounts
<1>2. balanceOf[m][o][u] \in Nat /\ balanceOf[m][o][u] <= supply[m][o]
  BY <1>1, HeldWithinSupply
<1>3. /\ balanceOf' \in [Markets -> [Outcomes -> [Accounts -> Nat]]]
      /\ supply' \in [Markets -> [Outcomes -> Nat]]
  BY <1>1, <1>2 DEF VaultTypeOK
<1>4. ASSUME VaultTypeOK', NEW n \in Markets, NEW p \in Outcomes
      PROVE  supply'[n][p] = Total(balanceOf'[n][p], Accounts)
  <2>1. CASE n = m /\ p = o
    <3>1. /\ \A b \in Accounts \ {u} : balanceOf'[m][o][b] = balanceOf[m][o][b]
          /\ supply'[m][o] = supply[m][o] - balanceOf[m][o][u] + balanceOf'[m][o][u]
      BY <1>1, <1>2 DEF VaultTypeOK
    <3> QED
      BY <1>1, <1>4, <2>1, <3>1, SupplyFollows
  <2>2. CASE ~(n = m /\ p = o)
    <3>1. balanceOf'[n][p] = balanceOf[n][p] /\ supply'[n][p] = supply[n][p]
      BY <2>2 DEF VaultTypeOK
    <3> QED
      BY <3>1 DEF SupplyIsSumOfBalances
  <2> QED
    BY <2>1, <2>2
<1> QED
  BY <1>3, <1>4 DEF SupplyIsSumOfBalances

\* A winner's claim keeps types and the supply in step.
LEMMA ClaimWinningsShares ==
    ASSUME VaultTypeOK, SupplyIsSumOfBalances, NEW m \in Markets, NEW u \in Users,
           ClaimWinnings(m, u)
    PROVE  VaultTypeOK' /\ SupplyIsSumOfBalances'
<1> DEFINE o == winningOutcome[m]
<1> DEFINE units == balanceOf[m][o][u]
<1>1. o \in Outcomes /\ u \in Accounts
  BY DEF VaultTypeOK, Accounts
<1>2. units \in Nat
  BY <1>1 DEF VaultTypeOK
<1>3. ConsumePool(units, remainingWinningUnits[m], remainingWinnerPool[m]) \in Nat
  <2>1. CanConsume(units, remainingWinningUnits[m])
    BY DEF ClaimWinnings
  <2> HIDE DEF units
  <2> QED
    BY <1>2, <2>1, ConsumePoolNat DEF VaultTypeOK
<1>4. /\ balanceOf' = [balanceOf EXCEPT ![m][o][u] = 0]
      /\ supply' = [supply EXCEPT ![m][o] = @ - balanceOf[m][o][u]]
  BY DEF ClaimWinnings
<1>5. /\ balanceOf' \in [Markets -> [Outcomes -> [Accounts -> Nat]]]
      /\ supply' \in [Markets -> [Outcomes -> Nat]]
      /\ VaultTypeOK' => SupplyIsSumOfBalances'
  <2> HIDE DEF o
  <2> QED
    BY <1>1, <1>4, BurnOne
<1>6. VaultTypeOK'
  BY <1>2, <1>3, <1>5
     DEF ClaimWinnings, CanConsume, VaultTypeOK, phaseVars, tradeVars, bonusVars
<1> QED
  BY <1>5, <1>6

\* So does burning a losing position.
LEMMA BurnLosingShares ==
    ASSUME VaultTypeOK, SupplyIsSumOfBalances, NEW m \in Markets, NEW u \in Users,
           NEW o \in Outcomes, BurnLosingPosition(m, u, o)
    PROVE  VaultTypeOK' /\ SupplyIsSumOfBalances'
<1>1. /\ balanceOf' = [balanceOf EXCEPT ![m][o][u] = 0]
      /\ supply' = [supply EXCEPT ![m][o] = @ - balanceOf[m][o][u]]
  BY DEF BurnLosingPosition
<1>2. /\ balanceOf' \in [Markets -> [Outcomes -> [Accounts -> Nat]]]
      /\ supply' \in [Markets -> [Outcomes -> Nat]]
      /\ VaultTypeOK' => SupplyIsSumOfBalances'
  BY <1>1, BurnOne
<1>3. VaultTypeOK'
  BY <1>2 DEF BurnLosingPosition, VaultTypeOK, phaseVars, tradeVars, winVars, bonusVars
<1> QED
  BY <1>2, <1>3

\* refundFor burns what a holder has of every outcome.
LEMMA RefundShares ==
    ASSUME VaultTypeOK, SupplyIsSumOfBalances, NEW m \in Markets, NEW u \in Users,
           Refund(m, u)
    PROVE  VaultTypeOK' /\ SupplyIsSumOfBalances'
<1> DEFINE amount == Total(HeldBy(m, u), Outcomes)
<1>1. u \in Accounts
  BY DEF Accounts
<1>2. amount \in Nat /\ amount <= remainingRefund[m]
  BY DEF Refund, VaultTypeOK
<1>3. /\ remainingRefund' = [remainingRefund EXCEPT ![m] = @ - amount]
      /\ cash[m] >= amount
      /\ cash' = [cash EXCEPT ![m] = @ - amount]
      /\ timeoutBonusUnits' =
            IF voidReason[m] = "TIMEOUT"
              THEN [timeoutBonusUnits EXCEPT ![m][u] = @ + amount]
              ELSE timeoutBonusUnits
  BY DEF Refund
<1> HIDE DEF amount
<1>4. \A o \in Outcomes : balanceOf[m][o][u] \in Nat /\ balanceOf[m][o][u] <= supply[m][o]
  BY <1>1, HeldWithinSupply
<1>5. /\ \A o \in Outcomes : balanceOf'[m][o] = [balanceOf[m][o] EXCEPT ![u] = 0]
      /\ \A o \in Outcomes : supply'[m][o] = supply[m][o] - balanceOf[m][o][u]
      /\ \A n \in Markets \ {m} : balanceOf'[n] = balanceOf[n] /\ supply'[n] = supply[n]
  BY DEF Refund, VaultTypeOK
<1>6. balanceOf' \in [Markets -> [Outcomes -> [Accounts -> Nat]]]
  BY <1>1 DEF Refund, VaultTypeOK
<1>7. supply' \in [Markets -> [Outcomes -> Nat]]
  BY <1>4 DEF Refund, VaultTypeOK
<1>8. VaultTypeOK'
  BY <1>2, <1>3, <1>6, <1>7
     DEF Refund, VaultTypeOK, phaseVars, tradeVars, winVars, bonusVars
<1>9. ASSUME NEW n \in Markets, NEW p \in Outcomes
      PROVE  supply'[n][p] = Total(balanceOf'[n][p], Accounts)
  <2>1. CASE n = m
    <3>1. balanceOf[m][p] \in [Accounts -> Nat] /\ supply[m][p] \in Nat
      BY DEF VaultTypeOK
    <3>2. balanceOf'[m][p] = [balanceOf[m][p] EXCEPT ![u] = 0]
      BY <1>5
    <3>3. \A b \in Accounts \ {u} : balanceOf'[m][p][b] = balanceOf[m][p][b]
      BY <1>1, <3>1, <3>2
    <3>4. balanceOf'[m][p][u] = 0
      BY <1>1, <3>1, <3>2
    <3>5. supply'[m][p] = supply[m][p] - balanceOf[m][p][u] + balanceOf'[m][p][u]
      BY <1>4, <1>5, <3>1, <3>4
    <3> QED
      BY <1>1, <1>8, <2>1, <3>3, <3>5, SupplyFollows
  <2>2. CASE n # m
    BY <1>5, <2>2 DEF SupplyIsSumOfBalances
  <2> QED
    BY <2>1, <2>2
<1> QED
  BY <1>8, <1>9 DEF SupplyIsSumOfBalances

\* A transfer takes from one account what it gives to another.
LEMMA TransferSharesShares ==
    ASSUME VaultTypeOK, SupplyIsSumOfBalances, NEW m \in Markets, NEW o \in Outcomes,
           NEW from \in Accounts, NEW to \in Accounts, NEW units \in Nat,
           TransferShares(m, o, from, to, units)
    PROVE  VaultTypeOK' /\ SupplyIsSumOfBalances'
<1> DEFINE f == balanceOf[m][o]
<1> DEFINE h == [f EXCEPT ![from] = @ - units]
<1> DEFINE g == [h EXCEPT ![to] = @ + units]
<1>1. from # to /\ units <= f[from]
  BY DEF TransferShares
<1>2. f \in [Accounts -> Nat]
  BY DEF VaultTypeOK
<1>3. h \in [Accounts -> Nat]
  BY <1>1, <1>2
<1>4. g \in [Accounts -> Nat]
  BY <1>3
<1>5. balanceOf'[m][o] = g
  BY DEF TransferShares, VaultTypeOK
<1>6. \A n \in Markets, p \in Outcomes :
         ~(n = m /\ p = o) => balanceOf'[n][p] = balanceOf[n][p]
  BY DEF TransferShares, VaultTypeOK
<1>7. balanceOf' \in [Markets -> [Outcomes -> [Accounts -> Nat]]]
  BY <1>1, <1>2 DEF TransferShares, VaultTypeOK
<1>8. VaultTypeOK'
  BY <1>7 DEF TransferShares, VaultTypeOK, phaseVars, tradeVars, winVars, bonusVars
<1>9. Total(g, Accounts) = Total(f, Accounts)
  <2>1. Total(h, Accounts) = Total(f, Accounts) - f[from] + h[from]
    BY <1>2, <1>3, AccountsFinite, TotalUpdate
  <2>2. Total(g, Accounts) = Total(h, Accounts) - h[to] + g[to]
    BY <1>3, <1>4, AccountsFinite, TotalUpdate
  <2>3. h[from] = f[from] - units /\ g[to] = h[to] + units
    BY <1>2, <1>3
  <2>4. Total(f, Accounts) \in Nat
    BY <1>2, AccountsFinite, TotalNat
  <2> QED
    BY <1>2, <1>3, <2>1, <2>2, <2>3, <2>4
<1>10. supply' = supply
  BY DEF TransferShares
<1> HIDE DEF f, g, h
<1>11. \A n \in Markets, p \in Outcomes : supply'[n][p] = Total(balanceOf'[n][p], Accounts)
  BY <1>5, <1>6, <1>9, <1>10 DEF SupplyIsSumOfBalances, f
<1> QED
  BY <1>8, <1>11 DEF SupplyIsSumOfBalances

\* The early-bird and bonus claims and the bonus funding move no shares.
LEMMA ClaimEarlyBirdType ==
    ASSUME VaultTypeOK, NEW m \in Markets, NEW u \in Users, ClaimEarlyBird(m, u)
    PROVE  VaultTypeOK'
<1> DEFINE score == earlyBirdScore[m][u]
<1>1. score \in Nat /\ CanConsume(score, remainingScore[m])
  BY DEF ClaimEarlyBird, VaultTypeOK
<1> HIDE DEF score
<1>2. ConsumePool(score, remainingScore[m], remainingEarlyBirdPool[m]) \in Nat
  BY <1>1, ConsumePoolNat DEF VaultTypeOK
<1> QED
  BY <1>1, <1>2
     DEF ClaimEarlyBird, CanConsume, VaultTypeOK, phaseVars, tradeVars, shareVars, bonusVars,
         score

\* The claim of the timeout bonus keeps types.
LEMMA ClaimTimeoutBonusType ==
    ASSUME VaultTypeOK, NEW m \in Markets, NEW u \in Users, ClaimTimeoutBonus(m, u)
    PROVE  VaultTypeOK'
<1> DEFINE units == timeoutBonusUnits[m][u]
<1>1. units \in Nat /\ CanConsume(units, remainingBonusUnits[m])
  BY DEF ClaimTimeoutBonus, VaultTypeOK
<1> HIDE DEF units
<1>2. ConsumePool(units, remainingBonusUnits[m], remainingBonusPool[m]) \in Nat
  BY <1>1, ConsumePoolNat DEF VaultTypeOK
<1> QED
  BY <1>1, <1>2
     DEF ClaimTimeoutBonus, CanConsume, VaultTypeOK, phaseVars, tradeVars, shareVars,
         winVars, units

\* Funding the bonus keeps types.
LEMMA FundTimeoutBonusType ==
    ASSUME VaultTypeOK, NEW m \in Markets, NEW amount \in Nat, FundTimeoutBonus(m, amount)
    PROVE  VaultTypeOK'
  BY DEF FundTimeoutBonus, VaultTypeOK, phaseVars, tradeVars, shareVars, winVars

-----------------------------------------------------------------------------
(* The other contracts.                                                    *)

\* The exposure guard's ledger stays in the naturals.
LEMMA GuardType ==
    ASSUME GuardTypeOK,
           \/ \E m \in Markets : RegisterMarket(m)
           \/ \E m \in Markets, a \in Nat : Reserve(m, a)
           \/ \E m \in Markets, a \in Nat : Sync(m, a)
           \/ \E cap \in CapOptions : RaiseCap(cap)
           \/ RetireForever
           \/ UNCHANGED guardVars
    PROVE  GuardTypeOK'
<1>1. CASE \E m \in Markets : RegisterMarket(m)
  BY <1>1 DEF GuardTypeOK, RegisterMarket
<1>2. CASE \E m \in Markets, a \in Nat : Reserve(m, a)
  BY <1>2 DEF GuardTypeOK, Reserve
<1>3. CASE \E m \in Markets, a \in Nat : Sync(m, a)
  BY <1>3 DEF GuardTypeOK, Sync
<1>4. CASE \E cap \in CapOptions : RaiseCap(cap)
  BY <1>4, CapAssumption DEF GuardTypeOK, RaiseCap
<1>5. CASE RetireForever
  BY <1>5 DEF GuardTypeOK, RetireForever
<1>6. CASE UNCHANGED guardVars
  BY <1>6 DEF GuardTypeOK, guardVars
<1> QED
  BY <1>1, <1>2, <1>3, <1>4, <1>5, <1>6

\* The bond escrow's ledger stays in the naturals.
LEMMA EscrowType ==
    ASSUME EscrowTypeOK,
           \/ \E m \in Markets, c \in Users, a \in Nat : LockBond(m, c, a)
           \/ \E m \in Markets : SlashBondToMarket(m)
           \/ \E m \in Markets : CreditBondToCreator(m)
           \/ \E c \in Users : ClaimBond(c)
           \/ UNCHANGED escrowVars
    PROVE  EscrowTypeOK'
<1>1. CASE \E m \in Markets, c \in Users, a \in Nat : LockBond(m, c, a)
  BY <1>1 DEF EscrowTypeOK, LockBond, Bond
<1>2. ASSUME NEW m \in Markets, MarkSettled(m)
      PROVE  bondOf' \in [Markets -> Bond] /\ totalLocked' \in Nat /\ bondOf[m].amount \in Nat
  <2>1. bondOf \in [Markets -> Bond] /\ bondOf[m].amount \in Nat
    BY DEF EscrowTypeOK, Bond
  <2>2. bondOf' = [bondOf EXCEPT ![m].settled = TRUE]
    BY <1>2 DEF MarkSettled
  <2>3. bondOf' \in [Markets -> Bond]
    BY <2>1, <2>2 DEF Bond
  <2>4. totalLocked' \in Nat
    BY <1>2, <2>1 DEF MarkSettled, EscrowTypeOK
  <2> QED
    BY <2>1, <2>3, <2>4
<1>3. CASE \E m \in Markets : SlashBondToMarket(m) \/ CreditBondToCreator(m)
  BY <1>2, <1>3 DEF EscrowTypeOK, SlashBondToMarket, CreditBondToCreator, Settleable
<1>4. CASE \E c \in Users : ClaimBond(c)
  BY <1>4 DEF EscrowTypeOK, ClaimBond
<1>5. CASE UNCHANGED escrowVars
  BY <1>5 DEF EscrowTypeOK, escrowVars
<1> QED
  BY <1>1, <1>2, <1>3, <1>4, <1>5

\* The fee vault's ledger stays in the naturals.
LEMMA FeeType ==
    ASSUME FeeTypeOK,
           \/ \E m \in Markets, b \in Beneficiaries, a \in Nat :
                 RegisterAndChargeCreation(m, b, a)
           \/ \E m \in Markets, x, y \in Beneficiaries \cup {NoAddress}, a, b \in Nat :
                 DepositAndAccrue(m, x, a, y, b)
           \/ \E b \in Beneficiaries : ClaimFees(b)
           \/ UNCHANGED feeVars
    PROVE  FeeTypeOK'
<1>1. CASE \E m \in Markets, b \in Beneficiaries, a \in Nat :
              RegisterAndChargeCreation(m, b, a)
  BY <1>1 DEF FeeTypeOK, RegisterAndChargeCreation
<1>2. CASE \E m \in Markets, x, y \in Beneficiaries \cup {NoAddress}, a, b \in Nat :
              DepositAndAccrue(m, x, a, y, b)
  <2>1. PICK m \in Markets, x, y \in Beneficiaries \cup {NoAddress}, a, b \in Nat :
              DepositAndAccrue(m, x, a, y, b)
    BY <1>2
  <2>2. x # NoAddress /\ y # NoAddress => FeeTypeOK'
    BY <2>1 DEF FeeTypeOK, DepositAndAccrue, feeVars
  <2>3. FeeTypeOK'
    BY <2>1, AddressAssumption DEF FeeTypeOK, DepositAndAccrue, feeVars
  <2> QED
    BY <2>3
<1>3. CASE \E b \in Beneficiaries : ClaimFees(b)
  BY <1>3 DEF FeeTypeOK, ClaimFees
<1>4. CASE UNCHANGED feeVars
  BY <1>4 DEF FeeTypeOK, feeVars
<1> QED
  BY <1>1, <1>2, <1>3, <1>4

\* The emergency controller counts epochs from 1 and marks past ones only.
LEMMA PauseType ==
    ASSUME PauseTypeOK, now \in Nat,
           \/ \E flags \in PauseOptions, d \in PauseDurations : Pause(flags, d)
           \/ ResetEpoch
           \/ UNCHANGED pauseVars
    PROVE  PauseTypeOK'
<1>1. CASE \E flags \in PauseOptions, d \in PauseDurations : Pause(flags, d)
  BY <1>1, PauseAssumption DEF PauseTypeOK, Pause
<1>2. CASE ResetEpoch
  BY <1>2, PauseAssumption DEF PauseTypeOK, ResetEpoch
<1>3. CASE UNCHANGED pauseVars
  BY <1>3 DEF PauseTypeOK, pauseVars
<1> QED
  BY <1>1, <1>2, <1>3

\* Every setter keeps the configuration within its hard limits' type.
LEMMA ConfigType ==
    ASSUME ConfigTypeOK, ConfigNext \/ UNCHANGED config
    PROVE  ConfigTypeOK'
<1>1. ASSUME NEW b \in TreasuryOptions, SetProtocolTreasury(b)
      PROVE  ConfigTypeOK'
  <2>1. b \in Beneficiaries
    BY ConfigAssumption
  <2> QED
    BY <1>1, <2>1 DEF ConfigTypeOK, Config, SetProtocolTreasury
<1>2. ASSUME NEW fee \in FeeOptions, SetCreationFee(fee)
      PROVE  ConfigTypeOK'
  <2>1. fee \in Nat
    BY ConfigAssumption
  <2> QED
    BY <1>2, <2>1 DEF ConfigTypeOK, Config, SetCreationFee
<1>3. ASSUME NEW bps \in ShareOptions,
             \/ SetPlatformRakeShareBps(bps)
             \/ SetEarlyBirdShareBps(bps)
             \/ SetCreatorFeeLimits(bps)
      PROVE  ConfigTypeOK'
  <2>5. bps \in Nat
    BY ConfigAssumption
  <2>6. bps <= 5000
    BY <1>3, <2>5
       DEF SetPlatformRakeShareBps, SetEarlyBirdShareBps, SetCreatorFeeLimits,
           HardMaxProtocolShareBps, HardMaxEarlyBirdShareBps, HardMaxCreatorRakeBps
  <2>1. bps \in 0..BPS
    BY <2>5, <2>6, BpsNat
  <2>2. CASE SetPlatformRakeShareBps(bps)
    BY <2>1, <2>2 DEF ConfigTypeOK, Config, SetPlatformRakeShareBps
  <2>3. CASE SetEarlyBirdShareBps(bps)
    BY <2>1, <2>3 DEF ConfigTypeOK, Config, SetEarlyBirdShareBps
  <2>4. CASE SetCreatorFeeLimits(bps)
    BY <2>1, <2>4 DEF ConfigTypeOK, Config, SetCreatorFeeLimits
  <2> QED
    BY <1>3, <2>2, <2>3, <2>4
<1>4. ASSUME NEW full \in CapOptionsPerMarket, NEW clone \in CapOptionsPerMarket,
             SetMarketCapLimits(full, clone)
      PROVE  ConfigTypeOK'
  <2>1. full \in Nat /\ clone \in Nat
    BY ConfigAssumption
  <2>2. [config EXCEPT !.maxFullMarketCap = full] \in Config
    BY <2>1 DEF ConfigTypeOK, Config
  <2>3. [[config EXCEPT !.maxFullMarketCap = full] EXCEPT !.maxCloneMarketCap = clone]
           \in Config
    <3> DEFINE c == [config EXCEPT !.maxFullMarketCap = full]
    <3> HIDE DEF c
    <3>1. [c EXCEPT !.maxCloneMarketCap = clone] \in Config
      BY <2>1, <2>2 DEF c, Config
    <3> QED
      BY <3>1 DEF c
  <2>4. config' = [[config EXCEPT !.maxFullMarketCap = full]
                      EXCEPT !.maxCloneMarketCap = clone]
    BY <1>4 DEF SetMarketCapLimits
  <2> QED
    BY <2>3, <2>4 DEF ConfigTypeOK
<1>5. ASSUME NEW cap \in CapOptionsPerMarket, SetMaxPerUserPrimaryCap(cap)
      PROVE  ConfigTypeOK'
  <2>1. cap \in Nat
    BY ConfigAssumption
  <2> QED
    BY <1>5, <2>1 DEF ConfigTypeOK, Config, SetMaxPerUserPrimaryCap
<1>6. CASE UNCHANGED config
  BY <1>6 DEF ConfigTypeOK
<1> QED
  BY <1>1, <1>2, <1>3, <1>4, <1>5, <1>6 DEF ConfigNext

\* An admitted request makes a well-formed snapshot.
LEMMA SnapshotType ==
    ASSUME ConfigTypeOK, now \in Nat, NEW creator \in Users, NEW p \in MarketRequest,
           ValidRequest(p)
    PROVE  SnapshotFor(creator, p) \in Snapshot
<1> DEFINE rake == p.creatorRakeBps
           share == p.platformRakeShareBps
<1>1. /\ p.marketCap \in Nat /\ p.userCap \in Nat /\ p.minUnits \in Nat
      /\ rake \in Nat /\ share \in Nat
  BY DEF MarketRequest
<1>2. /\ config.maxCreatorRakeBps \in 0..BPS /\ config.protocolShareBps \in 0..BPS
      /\ config.earlyBirdShareBps \in 0..BPS /\ config.protocolTreasury \in Beneficiaries
  BY DEF ConfigTypeOK, Config
<1>3. rake \in 0..BPS
  <2>1. rake <= config.maxCreatorRakeBps
    BY DEF ValidRequest
  <2> HIDE DEF rake
  <2> QED
    BY <1>1, <1>2, <2>1, BpsNat
<1>4. (IF p.custom THEN share ELSE config.protocolShareBps) \in 0..BPS
  <2>1. p.custom => share <= 5000
    BY DEF ValidRequest
  <2> HIDE DEF share
  <2>2. p.custom => share \in 0..BPS
    BY <1>1, <2>1, BpsNat
  <2> QED
    BY <1>2, <2>2
<1> QED
  BY <1>1, <1>2, <1>3, <1>4 DEF SnapshotFor, Snapshot, Config

\* Requested terms are well-formed terms.
LEMMA TermsType ==
    ASSUME NEW createdAt \in Nat, NEW r \in TermsRequest
    PROVE  TermsAt(createdAt, r) \in Terms
  BY DEF TermsAt, TermsRequest, Terms

-----------------------------------------------------------------------------
(* The composed system.  TypeOK alone is not inductive: the supply stays   *)
(* in Nat, and a resolution copies it into a claim pool, only because it   *)
(* is the sum of the balances.  The two together are.                      *)

ShareInv == TypeOK /\ SupplyIsSumOfBalances

\* What a transaction does not touch keeps its part of the invariant.
LEMMA Frame ==
    ASSUME ShareInv
    PROVE  /\ UNCHANGED now => now' \in Nat
           /\ UNCHANGED vaultVars => VaultTypeOK' /\ SupplyIsSumOfBalances'
           /\ UNCHANGED shareVars => SupplyIsSumOfBalances'
           /\ UNCHANGED factoryVars => FactoryTypeOK'
           /\ UNCHANGED config => ConfigTypeOK'
           /\ UNCHANGED guardVars => GuardTypeOK'
           /\ UNCHANGED escrowVars => EscrowTypeOK'
           /\ UNCHANGED feeVars => FeeTypeOK'
           /\ UNCHANGED pauseVars => PauseTypeOK'
<1>1. UNCHANGED vaultVars => VaultTypeOK'
  BY DEF ShareInv, TypeOK, VaultTypeOK, vaultVars, phaseVars, tradeVars, shareVars, winVars,
         bonusVars
<1>2. UNCHANGED vaultVars => UNCHANGED shareVars
  BY DEF vaultVars, shareVars
<1>3. UNCHANGED shareVars => SupplyIsSumOfBalances'
  BY DEF ShareInv, SupplyIsSumOfBalances, shareVars
<1>4. UNCHANGED now => now' \in Nat
  BY DEF ShareInv, TypeOK
<1>5. UNCHANGED factoryVars => FactoryTypeOK'
  BY DEF ShareInv, TypeOK, FactoryTypeOK, factoryVars
<1>6. /\ UNCHANGED config => ConfigTypeOK'
      /\ UNCHANGED guardVars => GuardTypeOK'
  BY ConfigType, GuardType DEF ShareInv, TypeOK
<1>7. /\ UNCHANGED escrowVars => EscrowTypeOK'
      /\ UNCHANGED feeVars => FeeTypeOK'
      /\ UNCHANGED pauseVars => PauseTypeOK'
  BY EscrowType, FeeType, PauseType DEF ShareInv, TypeOK
<1> QED
  BY <1>1, <1>2, <1>3, <1>4, <1>5, <1>6, <1>7

\* The initial state has nothing sold and nothing held.
LEMMA InitShareInv == Init => ShareInv
<1> SUFFICES ASSUME Init PROVE ShareInv
  OBVIOUS
<1>1. VaultTypeOK
  <2>1. ZeroSnapshot \in Snapshot
    BY DEF ZeroSnapshot, Snapshot, BPS
  <2>2. ZeroTerms \in Terms
    BY DEF ZeroTerms, Terms
  <2>3. ZeroBreakdown \in Breakdown
    BY DEF ZeroBreakdown, Breakdown
  <2> QED
    BY <2>1, <2>2, <2>3, AddressAssumption
       DEF Init, VaultInit, VaultTypeOK, MarketStates, VoidReasons
<1>2. FactoryTypeOK
  BY DEF Init, FactoryInit, FactoryTypeOK
<1>3. ConfigTypeOK
  BY ConfigAssumption, LimitAssumption
     DEF Init, ConfigInit, ConfigTypeOK, Config, BPS, HardMaxCreatorRakeBps
<1>4. GuardTypeOK
  BY CapAssumption DEF Init, GuardInit, GuardTypeOK
<1>5. EscrowTypeOK
  BY DEF Init, EscrowInit, EscrowTypeOK, Bond
<1>6. FeeTypeOK
  BY DEF Init, FeeInit, FeeTypeOK
<1>7. PauseTypeOK
  BY PauseAssumption DEF Init, PauseInit, PauseTypeOK
<1>8. SupplyIsSumOfBalances
  <2> SUFFICES ASSUME NEW m \in Markets, NEW o \in Outcomes
               PROVE  supply[m][o] = Total(balanceOf[m][o], Accounts)
    BY DEF SupplyIsSumOfBalances
  <2>1. supply[m][o] = 0 /\ balanceOf[m][o] = [a \in Accounts |-> 0]
    BY DEF Init, VaultInit
  <2>2. Total([a \in Accounts |-> 0], Accounts) = 0
    BY AccountsFinite, TotalZero
  <2> QED
    BY <2>1, <2>2
<1>9. now \in Nat
  BY DEF Init
<1> QED
  BY <1>1, <1>2, <1>3, <1>4, <1>5, <1>6, <1>7, <1>8, <1>9 DEF ShareInv, TypeOK

\* Governance calls change one contract each and never a vault.
LEMMA GovernanceStep ==
    ASSUME ShareInv, Governance
    PROVE  ShareInv'
<1> USE DEF ShareInv, TypeOK
<1>1. CASE ConfigureMarketplace
  <2>1. FactoryTypeOK'
    BY <1>1 DEF ConfigureMarketplace, SetMarketplace, FactoryTypeOK
  <2> QED
    BY <1>1, <2>1, Frame DEF ConfigureMarketplace
<1>2. CASE ActivateFactory
  <2>1. FactoryTypeOK'
    BY <1>2 DEF ActivateFactory, Activate, FactoryTypeOK
  <2> QED
    BY <1>2, <2>1, Frame DEF ActivateFactory
<1>3. ASSUME NEW b \in BOOLEAN, Deprecate(b)
      PROVE  ShareInv'
  <2>1. FactoryTypeOK'
    BY <1>3 DEF Deprecate, SetDeprecated, FactoryTypeOK
  <2> QED
    BY <1>3, <2>1, Frame DEF Deprecate
<1>4. CASE Reconfigure
  BY <1>4, ConfigType, Frame DEF Reconfigure
<1>5. ASSUME NEW cap \in CapOptions, RaiseExposureCap(cap)
      PROVE  ShareInv'
  BY <1>5, GuardType, Frame DEF RaiseExposureCap
<1>6. CASE RetireGuard
  BY <1>6, GuardType, Frame DEF RetireGuard
<1>7. ASSUME NEW flags \in PauseOptions, NEW d \in PauseDurations, EmergencyPause(flags, d)
      PROVE  ShareInv'
  BY <1>7, PauseType, Frame DEF EmergencyPause
<1>8. CASE EmergencyReset
  BY <1>8, PauseType, Frame DEF EmergencyReset
<1> HIDE DEF ShareInv, TypeOK
<1> QED
  BY <1>1, <1>2, <1>3, <1>4, <1>5, <1>6, <1>7, <1>8 DEF Governance

\* A transfer in either direction.
LEMMA TransferStep ==
    ASSUME ShareInv, NEW m \in Markets, NEW o \in Outcomes, NEW from \in Accounts,
           NEW to \in Accounts, NEW units \in Parts(m, o, from),
           TransferShares(m, o, from, to, units),
           UNCHANGED <<now, factoryVars, config, guardVars, escrowVars, feeVars, pauseVars>>
    PROVE  ShareInv'
<1> USE DEF ShareInv, TypeOK
<1>1. units \in Nat
  BY BoundAssumption DEF Parts, VaultTypeOK
<1>2. VaultTypeOK' /\ SupplyIsSumOfBalances'
  BY <1>1, TransferSharesShares
<1> QED
  BY <1>2, Frame

\* Creation, terms, purchases and transfers.
LEMMA TradeStep ==
    ASSUME ShareInv, Trade
    PROVE  ShareInv'
<1> USE DEF ShareInv, TypeOK
<1>1. ASSUME NEW m \in Markets, NEW c \in Users, NEW p \in MarketRequests,
             NEW r \in TermsRequests, CreateMarket(m, c, p, r)
      PROVE  ShareInv'
  <2>1. p \in MarketRequest /\ r \in TermsRequest /\ p.bond \in Nat
    BY RequestAssumption DEF MarketRequest
  <2>2. SnapshotFor(c, p) \in Snapshot /\ TermsAt(now, r) \in Terms
    BY <1>1, <2>1, SnapshotType, TermsType DEF CreateMarket, AdmitMarket
  <2>3. VaultTypeOK'
    BY <1>1, <2>2, InitializeType DEF CreateMarket
  <2>4. SupplyIsSumOfBalances'
    BY <1>1, Frame DEF CreateMarket, Initialize
  <2>5. FactoryTypeOK'
    BY <1>1 DEF CreateMarket, AdmitMarket, FactoryTypeOK
  <2>6. GuardTypeOK'
    BY <1>1, GuardType DEF CreateMarket
  <2>7. FeeTypeOK'
    <3>1. config.protocolTreasury \in Beneficiaries /\ config.creationFee \in Nat
      BY DEF ConfigTypeOK, Config
    <3> QED
      BY <1>1, <3>1, FeeType DEF CreateMarket
  <2>8. EscrowTypeOK'
    BY <1>1, <2>1, EscrowType DEF CreateMarket
  <2> QED
    BY <1>1, <2>3, <2>4, <2>5, <2>6, <2>7, <2>8, Frame DEF CreateMarket
<1>2. ASSUME NEW m \in Markets, NEW r \in TermsRequests, UpdateBeforeFirstBuy(m, r)
      PROVE  ShareInv'
  <2>1. params[m].createdAt \in Nat /\ r \in TermsRequest
    BY RequestAssumption DEF VaultTypeOK, Snapshot
  <2>2. VaultTypeOK'
    BY <1>2, <2>1, TermsType, UpdateTermsType DEF UpdateBeforeFirstBuy
  <2>3. SupplyIsSumOfBalances'
    BY <1>2, Frame DEF UpdateBeforeFirstBuy, UpdateTerms
  <2> QED
    BY <1>2, <2>2, <2>3, Frame DEF UpdateBeforeFirstBuy
<1>3. ASSUME NEW m \in Markets, NEW u \in Users, NEW o \in Outcomes,
             NEW desired \in BuySizes, NEW permit2 \in BOOLEAN, Buy(m, u, o, desired, permit2)
      PROVE  ShareInv'
  <2>1. Filled(m, u, desired) \in Nat
    BY <1>3, BoundAssumption, FilledNat DEF Buy
  <2>2. VaultTypeOK'
    BY <1>3, <2>1, CompleteBuyType DEF Buy
  <2>3. SupplyIsSumOfBalances'
    BY <1>3, <2>1, <2>2, BuyShares DEF Buy
  <2>4. GuardTypeOK'
    BY <1>3, <2>1, GuardType DEF Buy
  <2> QED
    BY <1>3, <2>2, <2>3, <2>4, Frame DEF Buy
<1>4. ASSUME NEW m \in Markets, NEW o \in Outcomes, NEW from \in Users,
             NEW to \in Accounts, NEW units \in Parts(m, o, from),
             SendShares(m, o, from, to, units)
      PROVE  ShareInv'
  <2>1. from \in Accounts
    BY DEF Accounts
  <2> QED
    BY <1>4, <2>1, TransferStep DEF SendShares
<1>5. ASSUME NEW m \in Markets, NEW o \in Outcomes, NEW to \in Users,
             NEW units \in Parts(m, o, Marketplace), ReleaseShares(m, o, to, units)
      PROVE  ShareInv'
  <2>1. to \in Accounts /\ Marketplace \in Accounts
    BY DEF Accounts
  <2> QED
    BY <1>5, <2>1, TransferStep DEF ReleaseShares
<1> HIDE DEF ShareInv, TypeOK
<1> QED
  BY <1>1, <1>2, <1>3, <1>4, <1>5 DEF Trade

\* Resolution, voiding, bonds, syncs, claims and burns.
LEMMA SettleStep ==
    ASSUME ShareInv, Settle
    PROVE  ShareInv'
<1> USE DEF ShareInv, TypeOK
<1>1. ASSUME NEW m \in Markets, NEW o \in Outcomes, Resolve(m, o)
      PROVE  ShareInv'
  <2>1. VaultTypeOK'
    BY <1>1, ResolveToType DEF Resolve
  <2>2. SupplyIsSumOfBalances'
    BY <1>1, Frame DEF Resolve, ResolveTo
  <2>3. /\ PayoutsOf(m).protocolFee \in Nat /\ PayoutsOf(m).creatorFee \in Nat
        /\ params[m].protocolTreasury \in Beneficiaries \cup {NoAddress}
        /\ terms[m].creatorTreasury \in Beneficiaries \cup {NoAddress}
    <3>1. PayoutsOf(m) \in Breakdown
      BY PayoutsSplit DEF PayoutsOf, VaultTypeOK, EarlyBirdEnabled
    <3>2. params[m] \in Snapshot /\ terms[m] \in Terms
      BY DEF VaultTypeOK
    <3> QED
      BY <3>1, <3>2 DEF Breakdown, Snapshot, Terms
  <2>4. FeeTypeOK'
    BY <1>1, <2>3, FeeType DEF Resolve
  <2> QED
    BY <1>1, <2>1, <2>2, <2>4, Frame DEF Resolve
<1>2. ASSUME NEW m \in Markets, VoidMarket(m)
      PROVE  ShareInv'
  <2>1. PICK reason \in VoidReasons : Void(m, reason)
    BY <1>2 DEF VoidMarket, ResolveWithoutSupply, CreatorVoid, VoidAfterDeadline, VoidReasons
  <2>2. VaultTypeOK'
    BY <2>1, VoidType
  <2>3. SupplyIsSumOfBalances'
    BY <2>1, Frame DEF Void
  <2> QED
    BY <1>2, <2>2, <2>3, Frame DEF VoidMarket
<1>3. ASSUME NEW m \in Markets, SettleBondToHolders(m)
      PROVE  ShareInv'
  <2>1. bondOf[m].amount \in Nat /\ remainingRefund[m] \in Nat
    BY DEF EscrowTypeOK, Bond, VaultTypeOK
  <2>2. VaultTypeOK'
    BY <1>3, <2>1, FundTimeoutBonusType DEF SettleBondToHolders
  <2>3. SupplyIsSumOfBalances'
    BY <1>3, Frame DEF SettleBondToHolders, FundTimeoutBonus
  <2>4. EscrowTypeOK'
    BY <1>3, EscrowType DEF SettleBondToHolders
  <2>5. GuardTypeOK'
    <3>1. remainingRefund[m] + bondOf[m].amount \in Nat
      BY <2>1
    <3> QED
      BY <1>3, <3>1, GuardType DEF SettleBondToHolders
  <2> QED
    BY <1>3, <2>2, <2>3, <2>4, <2>5, Frame DEF SettleBondToHolders
<1>4. ASSUME NEW m \in Markets, SettleBondToCreator(m)
      PROVE  ShareInv'
  BY <1>4, EscrowType, Frame DEF SettleBondToCreator
<1>5. ASSUME NEW m \in Markets, SyncExposure(m)
      PROVE  ShareInv'
  <2>1. GuardExposure(m) \in Nat
    BY DEF GuardExposure, VaultTypeOK
  <2> QED
    BY <1>5, <2>1, GuardType, Frame DEF SyncExposure
<1>6. ASSUME NEW m \in Markets, NEW u \in Users, PayHolder(m, u)
      PROVE  ShareInv'
  <2>1. CASE ClaimWinnings(m, u)
    BY <1>6, <2>1, ClaimWinningsShares, Frame DEF PayHolder
  <2>2. CASE ClaimEarlyBird(m, u)
    BY <1>6, <2>2, ClaimEarlyBirdType, Frame DEF PayHolder, ClaimEarlyBird
  <2>3. CASE Refund(m, u)
    BY <1>6, <2>3, RefundShares, Frame DEF PayHolder
  <2>4. CASE ClaimTimeoutBonus(m, u)
    BY <1>6, <2>4, ClaimTimeoutBonusType, Frame DEF PayHolder, ClaimTimeoutBonus
  <2> QED
    BY <1>6, <2>1, <2>2, <2>3, <2>4 DEF PayHolder, ClaimFromVault
<1>7. ASSUME NEW m \in Markets, NEW u \in Users, NEW o \in Outcomes, BurnLosing(m, u, o)
      PROVE  ShareInv'
  BY <1>7, BurnLosingShares, Frame DEF BurnLosing
<1> HIDE DEF ShareInv, TypeOK
<1> QED
  BY <1>1, <1>2, <1>3, <1>4, <1>5, <1>6, <1>7 DEF Settle

\* Withdrawals of bond credits and fees.
LEMMA WithdrawStep ==
    ASSUME ShareInv, Withdraw
    PROVE  ShareInv'
<1> USE DEF ShareInv, TypeOK
<1>1. ASSUME NEW c \in Users, WithdrawBond(c)
      PROVE  ShareInv'
  BY <1>1, EscrowType, Frame DEF WithdrawBond
<1>2. ASSUME NEW b \in Beneficiaries, WithdrawFees(b)
      PROVE  ShareInv'
  BY <1>2, FeeType, Frame DEF WithdrawFees
<1> HIDE DEF ShareInv, TypeOK
<1> QED
  BY <1>1, <1>2 DEF Withdraw

\* Every transaction keeps types and the supply in step.
LEMMA StepShareInv == ShareInv /\ [Next]_vars => ShareInv'
<1> SUFFICES ASSUME ShareInv, [Next]_vars PROVE ShareInv'
  OBVIOUS
<1>1. CASE Tick
  BY <1>1, Frame DEF Tick, ShareInv, TypeOK
<1>2. CASE UNCHANGED vars
  BY <1>2, Frame DEF vars, ShareInv, TypeOK
<1> QED
  BY <1>1, <1>2, GovernanceStep, TradeStep, SettleStep, WithdrawStep DEF Next

\* Every behaviour keeps every contract's storage in its type; above all the
\* supply, which ERC1155Supply lowers without a check, never drops below
\* zero and no pool is fixed at a negative amount.
THEOREM TypeCorrect == Spec => []TypeOK
<1>1. ShareInv => TypeOK
  BY DEF ShareInv
<1> QED
  BY <1>1, InitShareInv, StepShareInv, PTL DEF Spec

\* The ERC-1155 supply of every outcome of every market is at all times the
\* sum of the balances of users and of the marketplace escrow.
THEOREM SharesConserved == Spec => []SupplyIsSumOfBalances
<1>1. ShareInv => SupplyIsSumOfBalances
  BY DEF ShareInv
<1> QED
  BY <1>1, InitShareInv, StepShareInv, PTL DEF Spec

-----------------------------------------------------------------------------
(***************************************************************************)
(* Every vault's balance is what it owes.  The claim is inductive together *)
(* with the types and with the fact that a timeout bonus exists only in a  *)
(* voided market that was funded: otherwise voiding a market that already  *)
(* had a bonus pool would owe the bonus twice.                             *)
(***************************************************************************)

BonusOnlyWhenFunded ==
    \A m \in Markets :
        /\ bonusFunded[m] => marketState[m] = "VOIDED"
        /\ ~bonusFunded[m] => remainingBonusPool[m] = 0

SolvencyInv == VaultSolvent /\ BonusOnlyWhenFunded

\* A vault whose balance, pools and phase a step leaves alone stays solvent.
LEMMA UntouchedVault ==
    ASSUME ShareInv, SolvencyInv, NEW n \in Markets,
           cash'[n] = cash[n], marketState'[n] = marketState[n],
           totalPrincipal'[n] = totalPrincipal[n],
           remainingWinnerPool'[n] = remainingWinnerPool[n],
           remainingEarlyBirdPool'[n] = remainingEarlyBirdPool[n],
           remainingRefund'[n] = remainingRefund[n],
           remainingBonusPool'[n] = remainingBonusPool[n],
           bonusFunded'[n] = bonusFunded[n]
    PROVE  /\ cash'[n] = GuardExposure(n)'
           /\ bonusFunded'[n] => marketState'[n] = "VOIDED"
           /\ ~bonusFunded'[n] => remainingBonusPool'[n] = 0
  BY DEF SolvencyInv, VaultSolvent, BonusOnlyWhenFunded, GuardExposure

\* A step that leaves all of that alone in every vault.
LEMMA UntouchedVaults ==
    ASSUME ShareInv, SolvencyInv,
           UNCHANGED <<cash, marketState, totalPrincipal, remainingWinnerPool,
                       remainingEarlyBirdPool, remainingRefund, remainingBonusPool,
                       bonusFunded>>
    PROVE  SolvencyInv'
  BY UntouchedVault DEF SolvencyInv, VaultSolvent, BonusOnlyWhenFunded

\* initialize starts an empty market: nothing was ever sold at an address
\* without a vault.
LEMMA InitializeSolvent ==
    ASSUME ShareInv, SolvencyInv, NEW m \in Markets, NEW s, NEW t, Initialize(m, s, t)
    PROVE  SolvencyInv'
<1> USE DEF ShareInv, TypeOK, VaultTypeOK
<1>1. ASSUME NEW n \in Markets
      PROVE  /\ cash'[n] = GuardExposure(n)'
             /\ bonusFunded'[n] => marketState'[n] = "VOIDED"
             /\ ~bonusFunded'[n] => remainingBonusPool'[n] = 0
  BY DEF Initialize, SolvencyInv, VaultSolvent, BonusOnlyWhenFunded, GuardExposure,
         tradeVars, winVars, bonusVars
<1> QED
  BY <1>1 DEF SolvencyInv, VaultSolvent, BonusOnlyWhenFunded

\* A purchase takes in what it adds to the principal.
LEMMA CompleteBuySolvent ==
    ASSUME ShareInv, SolvencyInv, NEW m \in Markets, NEW u \in Users, NEW o \in Outcomes,
           NEW desired \in Nat, CanBuy(m, u, desired),
           CompleteBuy(m, u, o, Filled(m, u, desired))
    PROVE  SolvencyInv'
<1> DEFINE filled == Filled(m, u, desired)
<1> USE DEF ShareInv, TypeOK
<1>1. filled \in Nat
  BY FilledNat
<1>2. /\ cash' = [cash EXCEPT ![m] = @ + filled]
      /\ totalPrincipal' = [totalPrincipal EXCEPT ![m] = @ + filled]
      /\ UNCHANGED <<phaseVars, winVars, remainingRefund, bonusVars>>
  BY DEF CompleteBuy
<1>3. marketState[m] = "OPEN"
  BY DEF CanBuy
<1> HIDE DEF filled
<1>4. ASSUME NEW n \in Markets
      PROVE  /\ cash'[n] = GuardExposure(n)'
             /\ bonusFunded'[n] => marketState'[n] = "VOIDED"
             /\ ~bonusFunded'[n] => remainingBonusPool'[n] = 0
  <2> USE DEF VaultTypeOK
  <2>1. CASE n = m
    BY <1>1, <1>2, <1>3, <2>1
       DEF SolvencyInv, VaultSolvent, BonusOnlyWhenFunded, GuardExposure, phaseVars,
           winVars, bonusVars
  <2>2. CASE n # m
    BY <1>2, <2>2, UntouchedVault DEF phaseVars, winVars, bonusVars
  <2> QED
    BY <2>1, <2>2
<1> QED
  BY <1>4 DEF SolvencyInv, VaultSolvent, BonusOnlyWhenFunded

\* A resolution pays out the fees and owes exactly the rest.
LEMMA ResolveToSolvent ==
    ASSUME ShareInv, SolvencyInv, NEW m \in Markets, NEW o \in Outcomes, ResolveTo(m, o)
    PROVE  SolvencyInv'
<1> DEFINE b == PayoutsOf(m)
<1> USE DEF ShareInv, TypeOK, VaultTypeOK
<1>1. /\ b.protocolFee \in Nat /\ b.creatorFee \in Nat /\ b.earlyBirdPool \in Nat
      /\ b.winnerPool \in Nat
      /\ b.protocolFee + b.creatorFee + b.earlyBirdPool + b.winnerPool = totalPrincipal[m]
  BY PayoutsSplit DEF PayoutsOf, Breakdown
<1>2. /\ marketState[m] = "OPEN"
      /\ marketState' = [marketState EXCEPT ![m] = "RESOLVED"]
      /\ remainingWinnerPool' = [remainingWinnerPool EXCEPT ![m] = b.winnerPool]
      /\ remainingEarlyBirdPool' = [remainingEarlyBirdPool EXCEPT ![m] = b.earlyBirdPool]
      /\ cash' = [cash EXCEPT ![m] = @ - (b.protocolFee + b.creatorFee)]
      /\ UNCHANGED <<tradeVars, remainingRefund, bonusVars>>
  BY DEF ResolveTo, CanResolve
<1> HIDE DEF b
<1>3. ASSUME NEW n \in Markets
      PROVE  /\ cash'[n] = GuardExposure(n)'
             /\ bonusFunded'[n] => marketState'[n] = "VOIDED"
             /\ ~bonusFunded'[n] => remainingBonusPool'[n] = 0
  <2>1. CASE n = m
    <3>1. cash[m] = totalPrincipal[m] /\ ~bonusFunded[m] /\ remainingBonusPool[m] = 0
      BY <1>2 DEF SolvencyInv, VaultSolvent, BonusOnlyWhenFunded, GuardExposure
    <3>2. cash'[m] = cash[m] - (b.protocolFee + b.creatorFee)
      BY <1>2
    <3>3. GuardExposure(m)' = b.winnerPool + b.earlyBirdPool
      BY <1>2 DEF GuardExposure
    <3>4. cash'[m] = GuardExposure(m)'
      BY <1>1, <3>1, <3>2, <3>3
    <3>5. ~bonusFunded'[m] /\ remainingBonusPool'[m] = 0
      BY <1>2, <3>1 DEF bonusVars
    <3> QED
      BY <2>1, <3>4, <3>5
  <2>2. CASE n # m
    BY <1>2, <2>2, UntouchedVault DEF tradeVars, bonusVars
  <2> QED
    BY <2>1, <2>2
<1> QED
  BY <1>3 DEF SolvencyInv, VaultSolvent, BonusOnlyWhenFunded

\* Voiding an open market owes the whole principal back and no bonus yet.
LEMMA VoidSolvent ==
    ASSUME ShareInv, SolvencyInv, NEW m \in Markets, NEW reason, marketState[m] = "OPEN",
           Void(m, reason)
    PROVE  SolvencyInv'
<1> USE DEF ShareInv, TypeOK, VaultTypeOK
<1>1. ASSUME NEW n \in Markets
      PROVE  /\ cash'[n] = GuardExposure(n)'
             /\ bonusFunded'[n] => marketState'[n] = "VOIDED"
             /\ ~bonusFunded'[n] => remainingBonusPool'[n] = 0
  <2>1. CASE n = m
    BY <2>1
       DEF Void, SolvencyInv, VaultSolvent, BonusOnlyWhenFunded, GuardExposure, tradeVars,
           winVars, bonusVars
  <2>2. CASE n # m
    BY <2>2, UntouchedVault DEF Void, tradeVars, winVars, bonusVars
  <2> QED
    BY <2>1, <2>2
<1> QED
  BY <1>1 DEF SolvencyInv, VaultSolvent, BonusOnlyWhenFunded

\* What the four claims have in common: the same amount leaves the balance
\* and the pool the market's phase counts it in.
PaysFromPool(m, paid) ==
    /\ paid <= cash[m] /\ cash' = [cash EXCEPT ![m] = @ - paid]
    /\ UNCHANGED <<phaseVars, totalPrincipal, bonusFunded>>
    /\ \/ /\ marketState[m] = "RESOLVED"
          /\ remainingWinnerPool' = [remainingWinnerPool EXCEPT ![m] = @ - paid]
          /\ UNCHANGED <<remainingEarlyBirdPool, remainingRefund, remainingBonusPool>>
       \/ /\ marketState[m] = "RESOLVED"
          /\ remainingEarlyBirdPool' = [remainingEarlyBirdPool EXCEPT ![m] = @ - paid]
          /\ UNCHANGED <<remainingWinnerPool, remainingRefund, remainingBonusPool>>
       \/ /\ marketState[m] = "VOIDED"
          /\ remainingRefund' = [remainingRefund EXCEPT ![m] = @ - paid]
          /\ UNCHANGED <<remainingWinnerPool, remainingEarlyBirdPool, remainingBonusPool>>
       \/ /\ bonusFunded[m]
          /\ remainingBonusPool' = [remainingBonusPool EXCEPT ![m] = @ - paid]
          /\ UNCHANGED <<remainingWinnerPool, remainingEarlyBirdPool, remainingRefund>>

\* Such a payment keeps the vault solvent.
LEMMA PaysFromPoolSolvent ==
    ASSUME ShareInv, SolvencyInv, NEW m \in Markets, NEW paid \in Nat, PaysFromPool(m, paid)
    PROVE  SolvencyInv'
<1> USE DEF ShareInv, TypeOK, VaultTypeOK
<1>1. ASSUME NEW n \in Markets
      PROVE  /\ cash'[n] = GuardExposure(n)'
             /\ bonusFunded'[n] => marketState'[n] = "VOIDED"
             /\ ~bonusFunded'[n] => remainingBonusPool'[n] = 0
  <2>1. CASE n = m
    <3>1. /\ cash[m] = GuardExposure(m) /\ cash'[m] = cash[m] - paid
          /\ bonusFunded[m] => marketState[m] = "VOIDED"
          /\ ~bonusFunded[m] => remainingBonusPool[m] = 0
          /\ marketState'[m] = marketState[m] /\ bonusFunded'[m] = bonusFunded[m]
      BY DEF PaysFromPool, SolvencyInv, VaultSolvent, BonusOnlyWhenFunded, phaseVars
    <3>2. GuardExposure(m)' = GuardExposure(m) - paid
      BY <3>1 DEF PaysFromPool, GuardExposure, phaseVars
    <3>3. ~bonusFunded[m] => remainingBonusPool'[m] = remainingBonusPool[m]
      BY DEF PaysFromPool
    <3> QED
      BY <2>1, <3>1, <3>2, <3>3
  <2>2. CASE n # m
    BY <2>2, UntouchedVault DEF PaysFromPool, phaseVars
  <2> QED
    BY <2>1, <2>2
<1> QED
  BY <1>1 DEF SolvencyInv, VaultSolvent, BonusOnlyWhenFunded

\* claimWinningsFor, claimEarlyBirdFor, refundFor and claimTimeoutBonusFor
\* are such payments.
LEMMA ClaimPays ==
    ASSUME ShareInv, NEW m \in Markets, NEW u \in Users, ClaimFromVault(m, u)
    PROVE  \E paid \in Nat : PaysFromPool(m, paid)
<1> USE DEF ShareInv, TypeOK, VaultTypeOK
<1>1. CASE ClaimWinnings(m, u)
  <2> DEFINE units == balanceOf[m][winningOutcome[m]][u]
             paid  == ConsumePool(units, remainingWinningUnits[m], remainingWinnerPool[m])
  <2>1. units \in Nat /\ CanConsume(units, remainingWinningUnits[m])
    BY <1>1 DEF ClaimWinnings, Accounts
  <2>2. paid \in Nat
    <3> HIDE DEF units
    <3> QED
      BY <2>1, ConsumePoolNat
  <2>3. /\ paid <= cash[m] /\ cash' = [cash EXCEPT ![m] = @ - paid]
        /\ marketState[m] = "RESOLVED"
        /\ remainingWinnerPool' = [remainingWinnerPool EXCEPT ![m] = @ - paid]
        /\ UNCHANGED <<phaseVars, totalPrincipal, bonusFunded, remainingEarlyBirdPool,
                       remainingRefund, remainingBonusPool>>
    BY <1>1 DEF ClaimWinnings, tradeVars, bonusVars
  <2> HIDE DEF paid
  <2> QED
    BY <2>2, <2>3 DEF PaysFromPool
<1>2. CASE ClaimEarlyBird(m, u)
  <2> DEFINE score == earlyBirdScore[m][u]
             paid  == ConsumePool(score, remainingScore[m], remainingEarlyBirdPool[m])
  <2>1. score \in Nat /\ CanConsume(score, remainingScore[m])
    BY <1>2 DEF ClaimEarlyBird
  <2>2. paid \in Nat
    <3> HIDE DEF score
    <3> QED
      BY <2>1, ConsumePoolNat
  <2>3. /\ paid <= cash[m] /\ cash' = [cash EXCEPT ![m] = @ - paid]
        /\ marketState[m] = "RESOLVED"
        /\ remainingEarlyBirdPool' = [remainingEarlyBirdPool EXCEPT ![m] = @ - paid]
        /\ UNCHANGED <<phaseVars, totalPrincipal, bonusFunded, remainingWinnerPool,
                       remainingRefund, remainingBonusPool>>
    BY <1>2 DEF ClaimEarlyBird, tradeVars, bonusVars
  <2> HIDE DEF paid
  <2> QED
    BY <2>2, <2>3 DEF PaysFromPool
<1>3. CASE Refund(m, u)
  <2> DEFINE paid == Total(HeldBy(m, u), Outcomes)
  <2>1. /\ paid \in Nat /\ paid <= cash[m] /\ cash' = [cash EXCEPT ![m] = @ - paid]
        /\ marketState[m] = "VOIDED"
        /\ remainingRefund' = [remainingRefund EXCEPT ![m] = @ - paid]
        /\ UNCHANGED <<phaseVars, totalPrincipal, bonusFunded, remainingWinnerPool,
                       remainingEarlyBirdPool, remainingBonusPool>>
    BY <1>3 DEF Refund, tradeVars, winVars, bonusVars
  <2> HIDE DEF paid
  <2> QED
    BY <2>1 DEF PaysFromPool
<1>4. CASE ClaimTimeoutBonus(m, u)
  <2> DEFINE units == timeoutBonusUnits[m][u]
             paid  == ConsumePool(units, remainingBonusUnits[m], remainingBonusPool[m])
  <2>1. units \in Nat /\ CanConsume(units, remainingBonusUnits[m])
    BY <1>4 DEF ClaimTimeoutBonus
  <2>2. paid \in Nat
    <3> HIDE DEF units
    <3> QED
      BY <2>1, ConsumePoolNat
  <2>3. /\ paid <= cash[m] /\ cash' = [cash EXCEPT ![m] = @ - paid]
        /\ bonusFunded[m]
        /\ remainingBonusPool' = [remainingBonusPool EXCEPT ![m] = @ - paid]
        /\ UNCHANGED <<phaseVars, totalPrincipal, bonusFunded, remainingWinnerPool,
                       remainingEarlyBirdPool, remainingRefund>>
    BY <1>4 DEF ClaimTimeoutBonus, tradeVars, winVars
  <2> HIDE DEF paid
  <2> QED
    BY <2>2, <2>3 DEF PaysFromPool
<1> QED
  BY <1>1, <1>2, <1>3, <1>4 DEF ClaimFromVault

\* So a claim keeps the vault solvent.
LEMMA ClaimSolvent ==
    ASSUME ShareInv, SolvencyInv, NEW m \in Markets, NEW u \in Users, ClaimFromVault(m, u)
    PROVE  SolvencyInv'
  BY ClaimPays, PaysFromPoolSolvent

\* settleBond of a timed-out market brings in the bonus it makes the vault owe.
LEMMA FundTimeoutBonusSolvent ==
    ASSUME ShareInv, SolvencyInv, NEW m \in Markets, NEW amount \in Nat,
           FundTimeoutBonus(m, amount)
    PROVE  SolvencyInv'
<1> USE DEF ShareInv, TypeOK, VaultTypeOK
<1>1. ASSUME NEW n \in Markets
      PROVE  /\ cash'[n] = GuardExposure(n)'
             /\ bonusFunded'[n] => marketState'[n] = "VOIDED"
             /\ ~bonusFunded'[n] => remainingBonusPool'[n] = 0
  <2>1. CASE n = m
    <3>1. /\ marketState[m] = "VOIDED"
          /\ remainingBonusPool[m] = 0
          /\ cash[m] = remainingRefund[m]
      <4>1. marketState[m] = "VOIDED" /\ ~bonusFunded[m]
        BY ZenonT(30) DEF FundTimeoutBonus
      <4>2. remainingBonusPool[m] = 0
        BY <4>1, ZenonT(30) DEF SolvencyInv, BonusOnlyWhenFunded
      <4>3. GuardExposure(m) = remainingRefund[m] + remainingBonusPool[m]
        BY <4>1 DEF GuardExposure
      <4>4. cash[m] = GuardExposure(m)
        BY DEF SolvencyInv, VaultSolvent
      <4> QED
        BY <4>1, <4>2, <4>3, <4>4
    <3>2. /\ cash'[m] = cash[m] + amount
          /\ remainingBonusPool'[m] = amount
          /\ bonusFunded'[m]
      BY DEF FundTimeoutBonus
    <3>3. marketState'[m] = "VOIDED" /\ remainingRefund'[m] = remainingRefund[m]
      BY <3>1 DEF FundTimeoutBonus, phaseVars
    <3>4. GuardExposure(m)' = remainingRefund[m] + amount
      BY <3>2, <3>3 DEF GuardExposure
    <3> QED
      BY <2>1, <3>1, <3>2, <3>3, <3>4
  <2>2. CASE n # m
    BY <2>2, UntouchedVault DEF FundTimeoutBonus, phaseVars, tradeVars, winVars
  <2> QED
    BY <2>1, <2>2
<1> QED
  BY <1>1 DEF SolvencyInv, VaultSolvent, BonusOnlyWhenFunded

\* Everything else leaves the balances and the pools of all vaults alone.
LEMMA OtherStepsSolvent ==
    ASSUME ShareInv, SolvencyInv, UNCHANGED vaultVars
    PROVE  SolvencyInv'
  BY UntouchedVaults DEF vaultVars, phaseVars, tradeVars, winVars, bonusVars

\* At the start every vault is empty.
LEMMA InitSolvencyInv == Init => SolvencyInv
  BY DEF Init, VaultInit, SolvencyInv, VaultSolvent, BonusOnlyWhenFunded, GuardExposure

\* Purchases and transfers.
LEMMA TradeSolvent ==
    ASSUME ShareInv, SolvencyInv, Trade
    PROVE  SolvencyInv'
<1>1. ASSUME NEW m \in Markets, NEW c \in Users, NEW p \in MarketRequests,
             NEW r \in TermsRequests, CreateMarket(m, c, p, r)
      PROVE  SolvencyInv'
  BY <1>1, InitializeSolvent DEF CreateMarket
<1>2. ASSUME NEW m \in Markets, NEW r \in TermsRequests, UpdateBeforeFirstBuy(m, r)
      PROVE  SolvencyInv'
  BY <1>2, UntouchedVaults
     DEF UpdateBeforeFirstBuy, UpdateTerms, phaseVars, tradeVars, winVars, bonusVars
<1>3. ASSUME NEW m \in Markets, NEW u \in Users, NEW o \in Outcomes,
             NEW desired \in BuySizes, NEW permit2 \in BOOLEAN, Buy(m, u, o, desired, permit2)
      PROVE  SolvencyInv'
  BY <1>3, BoundAssumption, CompleteBuySolvent DEF Buy
<1>4. ASSUME NEW m \in Markets, NEW o \in Outcomes, NEW from, NEW to, NEW units,
             TransferShares(m, o, from, to, units)
      PROVE  SolvencyInv'
  BY <1>4, UntouchedVaults DEF TransferShares, phaseVars, tradeVars, winVars, bonusVars
<1>5. ASSUME NEW m \in Markets, NEW o \in Outcomes, NEW from, NEW to, NEW units,
             SendShares(m, o, from, to, units)
      PROVE  SolvencyInv'
  BY <1>4, <1>5 DEF SendShares
<1>6. ASSUME NEW m \in Markets, NEW o \in Outcomes, NEW to, NEW units,
             ReleaseShares(m, o, to, units)
      PROVE  SolvencyInv'
  BY <1>4, <1>6 DEF ReleaseShares
<1> QED
  BY <1>1, <1>2, <1>3, <1>5, <1>6 DEF Trade

\* Resolution, voiding, bonds and claims.
LEMMA SettleSolvent ==
    ASSUME ShareInv, SolvencyInv, Settle
    PROVE  SolvencyInv'
<1>1. ASSUME NEW m \in Markets, NEW o \in Outcomes, Resolve(m, o)
      PROVE  SolvencyInv'
  BY <1>1, ResolveToSolvent DEF Resolve
<1>2. ASSUME NEW m \in Markets, VoidMarket(m)
      PROVE  SolvencyInv'
  <2>1. PICK reason \in VoidReasons : Void(m, reason)
    BY <1>2 DEF VoidMarket, ResolveWithoutSupply, CreatorVoid, VoidAfterDeadline, VoidReasons
  <2>2. marketState[m] = "OPEN"
    BY <1>2 DEF VoidMarket, ResolveWithoutSupply, CreatorVoid, VoidAfterDeadline, CanResolve
  <2> QED
    BY <2>1, <2>2, VoidSolvent
<1>3. ASSUME NEW m \in Markets, SettleBondToHolders(m)
      PROVE  SolvencyInv'
  <2>1. bondOf[m].amount \in Nat
    BY DEF ShareInv, TypeOK, EscrowTypeOK, Bond
  <2> QED
    BY <1>3, <2>1, FundTimeoutBonusSolvent DEF SettleBondToHolders
<1>4. ASSUME NEW m \in Markets, SettleBondToCreator(m) \/ SyncExposure(m)
      PROVE  SolvencyInv'
  BY <1>4, OtherStepsSolvent DEF SettleBondToCreator, SyncExposure
<1>5. ASSUME NEW m \in Markets, NEW u \in Users, PayHolder(m, u)
      PROVE  SolvencyInv'
  BY <1>5, ClaimSolvent DEF PayHolder
<1>6. ASSUME NEW m \in Markets, NEW u \in Users, NEW o \in Outcomes, BurnLosing(m, u, o)
      PROVE  SolvencyInv'
  BY <1>6, UntouchedVaults
     DEF BurnLosing, BurnLosingPosition, phaseVars, tradeVars, winVars, bonusVars
<1> QED
  BY <1>1, <1>2, <1>3, <1>4, <1>5, <1>6 DEF Settle

\* Every transaction of the system keeps every vault solvent.
LEMMA StepSolvencyInv == ShareInv /\ SolvencyInv /\ [Next]_vars => SolvencyInv'
<1> SUFFICES ASSUME ShareInv, SolvencyInv, [Next]_vars PROVE SolvencyInv'
  OBVIOUS
<1>1. CASE Tick
  BY <1>1, OtherStepsSolvent DEF Tick
<1>2. CASE UNCHANGED vars
  BY <1>2, OtherStepsSolvent DEF vars
<1>3. CASE Governance
  BY <1>3, OtherStepsSolvent
     DEF Governance, ConfigureMarketplace, ActivateFactory, Deprecate, Reconfigure,
         RaiseExposureCap, RetireGuard, EmergencyPause, EmergencyReset
<1>4. CASE Withdraw
  BY <1>4, OtherStepsSolvent DEF Withdraw, WithdrawBond, WithdrawFees
<1> QED
  BY <1>1, <1>2, <1>3, <1>4, TradeSolvent, SettleSolvent DEF Next

\* Solvency: the payment tokens a vault holds are at all times exactly what
\* it still owes its buyers, winners, early birds and refunded holders.
THEOREM Solvency == Spec => []VaultSolvent
<1>1. SolvencyInv => VaultSolvent
  BY DEF SolvencyInv
<1> QED
  BY <1>1, InitShareInv, StepShareInv, InitSolvencyInv, StepSolvencyInv, PTL DEF Spec

-----------------------------------------------------------------------------
(***************************************************************************)
(* The other ledgers: the bond escrow and the fee vault hold what they     *)
(* owe, the exposure guard never reports less than a market owes nor       *)
(* admits more principal than the launch cap, and whoever is entitled to   *)
(* something from a vault is counted in what it is divided by, through     *)
(* every interleaving of sales, transfers, claims and bonds.               *)
(***************************************************************************)

(* The bond escrow.                                                        *)

\* A market without a creator has never had a bond.
NoBondYet ==
    \A m \in Markets :
        bondOf[m].creator = NoAddress => bondOf[m].amount = 0 /\ ~bondOf[m].settled

EscrowInv == EscrowSolvent /\ NoBondYet

\* What a transaction of the system does to the escrow.
LEMMA EscrowOperations ==
    ASSUME ShareInv, [Next]_vars
    PROVE  \/ \E m \in Markets, c \in Users, a \in Nat : LockBond(m, c, a)
           \/ \E m \in Markets : SlashBondToMarket(m) \/ CreditBondToCreator(m)
           \/ \E c \in Users : ClaimBond(c)
           \/ UNCHANGED escrowVars
<1>1. CASE Trade
  <2>1. ASSUME NEW m \in Markets, NEW c \in Users, NEW p \in MarketRequests,
               NEW r \in TermsRequests, CreateMarket(m, c, p, r)
        PROVE  LockBond(m, c, p.bond) /\ p.bond \in Nat
    BY <2>1, RequestAssumption DEF CreateMarket, MarketRequest
  <2> QED
    BY <1>1, <2>1 DEF Trade, UpdateBeforeFirstBuy, Buy, SendShares, ReleaseShares
<1>2. CASE Settle
  BY <1>2 DEF Settle, Resolve, VoidMarket, SettleBondToHolders, SettleBondToCreator,
              SyncExposure, PayHolder, BurnLosing
<1>3. CASE Withdraw
  BY <1>3 DEF Withdraw, WithdrawBond, WithdrawFees
<1>4. CASE Governance
  BY <1>4 DEF Governance, ConfigureMarketplace, ActivateFactory, Deprecate, Reconfigure,
              RaiseExposureCap, RetireGuard, EmergencyPause, EmergencyReset
<1>5. CASE Tick \/ UNCHANGED vars
  BY <1>5 DEF Tick, vars
<1> QED
  BY <1>1, <1>2, <1>3, <1>4, <1>5 DEF Next

\* One bond leaves or joins the locked ones.
LEMMA LockedChanges ==
    ASSUME EscrowTypeOK, NEW m \in Markets, NEW bond \in Bond,
           bondOf' = [bondOf EXCEPT ![m] = bond]
    PROVE  /\ Total(LockedBond, Markets) \in Nat
           /\ Total(LockedBond', Markets)
                = Total(LockedBond, Markets) - LockedBond[m]
                    + (IF bond.settled THEN 0 ELSE bond.amount)
<1>1. /\ \A n \in Markets : LockedBond[n] \in Nat
      /\ \A n \in Markets : LockedBond'[n] \in Nat
      /\ \A n \in Markets \ {m} : LockedBond'[n] = LockedBond[n]
      /\ LockedBond'[m] = IF bond.settled THEN 0 ELSE bond.amount
  BY DEF EscrowTypeOK, Bond, LockedBond
<1>2. Total(LockedBond, Markets) \in Nat
  BY <1>1, AddressAssumption, TotalNat
<1>3. Total(LockedBond', Markets)
        = Total(LockedBond, Markets) - LockedBond[m] + LockedBond'[m]
  BY <1>1, AddressAssumption, TotalUpdate
<1> QED
  BY <1>1, <1>2, <1>3

\* settleBond takes the bond off the locked ones, whichever way it goes.
LEMMA SettledUnlocks ==
    ASSUME EscrowTypeOK, EscrowInv, NEW m \in Markets, Settleable(m), MarkSettled(m)
    PROVE  /\ totalLocked' = Total(LockedBond', Markets)
           /\ NoBondYet'
           /\ bondOf[m].amount \in Nat /\ bondOf[m].creator \in Users
           /\ totalLocked' = totalLocked - bondOf[m].amount
<1>1. /\ bondOf \in [Markets -> Bond] /\ bondOf[m] \in Bond
      /\ bondOf[m].creator # NoAddress /\ ~bondOf[m].settled
  BY DEF EscrowTypeOK, Settleable
<1> DEFINE bond == [bondOf[m] EXCEPT !.settled = TRUE]
<1>2. /\ bond \in Bond /\ bond.settled /\ bond.creator = bondOf[m].creator
      /\ bondOf' = [bondOf EXCEPT ![m] = bond]
  BY <1>1 DEF MarkSettled, Bond
<1>3. bondOf[m].amount \in Nat /\ bondOf[m].creator \in Users
  BY <1>1 DEF Bond
<1>4. LockedBond[m] = bondOf[m].amount
  BY <1>1 DEF LockedBond
<1>5. totalLocked' = totalLocked - bondOf[m].amount
  BY DEF MarkSettled
<1> HIDE DEF bond
<1>6. totalLocked' = Total(LockedBond', Markets)
  <2>1. /\ Total(LockedBond, Markets) \in Nat
        /\ Total(LockedBond', Markets)
             = Total(LockedBond, Markets) - LockedBond[m]
                 + (IF bond.settled THEN 0 ELSE bond.amount)
    BY <1>2, LockedChanges
  <2>2. Total(LockedBond', Markets) = Total(LockedBond, Markets) - bondOf[m].amount
    BY <1>2, <1>3, <1>4, <2>1
  <2>3. totalLocked = Total(LockedBond, Markets)
    BY DEF EscrowInv, EscrowSolvent
  <2> QED
    BY <1>5, <2>2, <2>3
<1>7. NoBondYet'
  BY <1>1, <1>2 DEF EscrowInv, NoBondYet
<1> QED
  BY <1>3, <1>5, <1>6, <1>7

\* Every transaction keeps the escrow's balance and totals in step.
LEMMA StepEscrowInv == ShareInv /\ EscrowInv /\ [Next]_vars => EscrowInv'
<1> SUFFICES ASSUME ShareInv, EscrowInv, [Next]_vars PROVE EscrowInv'
  OBVIOUS
<1>1. EscrowTypeOK
  BY DEF ShareInv, TypeOK
<1>2. ASSUME NEW m \in Markets, NEW c \in Users, NEW a \in Nat, LockBond(m, c, a)
      PROVE  EscrowInv'
  <2> DEFINE bond == [creator |-> c, amount |-> a, settled |-> FALSE]
  <2>1. /\ bond \in Bond /\ ~bond.settled /\ bond.amount = a /\ bond.creator # NoAddress
        /\ bondOf' = [bondOf EXCEPT ![m] = bond]
    BY <1>2, AddressAssumption DEF LockBond, Bond, Accounts
  <2>2. LockedBond[m] = 0
    BY <1>2 DEF LockBond, EscrowInv, NoBondYet, LockedBond
  <2> HIDE DEF bond
  <2>3. Total(LockedBond', Markets) = Total(LockedBond, Markets) + a
        /\ Total(LockedBond, Markets) \in Nat
    <3>1. /\ Total(LockedBond, Markets) \in Nat
          /\ Total(LockedBond', Markets)
               = Total(LockedBond, Markets) - LockedBond[m]
                   + (IF bond.settled THEN 0 ELSE bond.amount)
      BY <1>1, <2>1, LockedChanges
    <3> QED
      BY <2>1, <2>2, <3>1
  <2>4. NoBondYet'
    BY <1>1, <2>1 DEF EscrowInv, NoBondYet, EscrowTypeOK
  <2> QED
    BY <1>1, <1>2, <2>3, <2>4 DEF LockBond, EscrowInv, EscrowSolvent, EscrowTypeOK
<1>3. ASSUME NEW m \in Markets, SlashBondToMarket(m)
      PROVE  EscrowInv'
  <2>1. Settleable(m) /\ MarkSettled(m)
    BY <1>3 DEF SlashBondToMarket
  <2> QED
    BY <1>1, <1>3, <2>1, SettledUnlocks
       DEF SlashBondToMarket, EscrowInv, EscrowSolvent, EscrowTypeOK
<1>4. ASSUME NEW m \in Markets, CreditBondToCreator(m)
      PROVE  EscrowInv'
  <2> DEFINE c == bondOf[m].creator
             a == bondOf[m].amount
  <2>1. Settleable(m) /\ MarkSettled(m)
    BY <1>4 DEF CreditBondToCreator
  <2>2. /\ totalLocked' = Total(LockedBond', Markets) /\ NoBondYet'
        /\ a \in Nat /\ c \in Users /\ totalLocked' = totalLocked - a
    BY <1>1, <2>1, SettledUnlocks
  <2>3. /\ bondCreditOf' = [bondCreditOf EXCEPT ![c] = @ + a]
        /\ totalBondCredits' = totalBondCredits + a /\ escrowCash' = escrowCash
    BY <1>4 DEF CreditBondToCreator
  <2> HIDE DEF c, a
  <2>4. /\ bondCreditOf'[c] = bondCreditOf[c] + a /\ bondCreditOf[c] \in Nat
        /\ bondCreditOf' \in [Users -> Nat]
        /\ \A u \in Users \ {c} : bondCreditOf'[u] = bondCreditOf[u]
    BY <1>1, <2>2, <2>3 DEF EscrowTypeOK
  <2>5. Total(bondCreditOf', Users)
          = Total(bondCreditOf, Users) - bondCreditOf[c] + bondCreditOf'[c]
    BY <1>1, <2>2, <2>4, AddressAssumption, TotalUpdate DEF EscrowTypeOK
  <2> QED
    BY <1>1, <2>2, <2>3, <2>4, <2>5 DEF EscrowInv, EscrowSolvent, EscrowTypeOK
<1>5. ASSUME NEW c \in Users, ClaimBond(c)
      PROVE  EscrowInv'
  <2>1. /\ bondCreditOf' = [bondCreditOf EXCEPT ![c] = 0]
        /\ totalBondCredits' = totalBondCredits - bondCreditOf[c]
        /\ escrowCash' = escrowCash - bondCreditOf[c]
        /\ UNCHANGED <<bondOf, totalLocked>>
    BY <1>5 DEF ClaimBond
  <2>2. Total(bondCreditOf', Users)
          = Total(bondCreditOf, Users) - bondCreditOf[c] + bondCreditOf'[c]
    BY <1>1, <2>1, AddressAssumption, TotalUpdate DEF EscrowTypeOK
  <2>3. bondCreditOf'[c] = 0 /\ bondCreditOf[c] \in Nat
    BY <1>1, <2>1 DEF EscrowTypeOK
  <2>4. LockedBond' = LockedBond
    BY <2>1 DEF LockedBond
  <2> QED
    BY <1>1, <2>1, <2>2, <2>3, <2>4
       DEF EscrowInv, EscrowSolvent, NoBondYet, EscrowTypeOK
<1>6. CASE UNCHANGED escrowVars
  <2>1. LockedBond' = LockedBond
    BY <1>6 DEF LockedBond, escrowVars
  <2> QED
    BY <1>6, <2>1 DEF EscrowInv, EscrowSolvent, NoBondYet, escrowVars
<1> QED
  BY <1>2, <1>3, <1>4, <1>5, <1>6, EscrowOperations

\* At the start there are no bonds and no credits.
LEMMA InitEscrowInv == Init => EscrowInv
<1> SUFFICES ASSUME Init PROVE EscrowInv
  OBVIOUS
<1>1. LockedBond = [m \in Markets |-> 0]
  BY DEF Init, EscrowInit, LockedBond
<1>2. Total(LockedBond, Markets) = 0 /\ Total(bondCreditOf, Users) = 0
  BY <1>1, AddressAssumption, TotalZero DEF Init, EscrowInit
<1> QED
  BY <1>2 DEF Init, EscrowInit, EscrowInv, EscrowSolvent, NoBondYet

\* Escrow solvency: the escrow holds exactly the bonds of unsettled markets
\* and the credits creators have not withdrawn, whatever settleBond and the
\* claims of several markets and creators do in which order.
THEOREM EscrowIsSolvent == Spec => []EscrowSolvent
<1>1. EscrowInv => EscrowSolvent
  BY DEF EscrowInv
<1> QED
  BY <1>1, InitShareInv, StepShareInv, InitEscrowInv, StepEscrowInv, PTL DEF Spec

-----------------------------------------------------------------------------
(* The fee vault.                                                          *)

\* A market that exists pays its fees to treasuries that can claim them.
TreasuriesNamed ==
    \A m \in Markets :
        marketState[m] # "NONE" =>
            /\ params[m].protocolTreasury \in Beneficiaries
            /\ terms[m].creatorTreasury \in Beneficiaries

FeeInv == FeeVaultSolvent /\ TreasuriesNamed

\* What a transaction does to the terms a market lives by.
LEMMA TermsOperations ==
    ASSUME ShareInv, [Next]_vars
    PROVE  \/ \E m \in Markets, c \in Users, p \in MarketRequest, r \in TermsRequest :
                 ValidRequest(p) /\ Initialize(m, SnapshotFor(c, p), TermsAt(now, r))
           \/ \E m \in Markets, r \in TermsRequest :
                 UpdateTerms(m, TermsAt(params[m].createdAt, r))
           \/ /\ UNCHANGED <<params, terms>>
              /\ \A m \in Markets : marketState[m] = "NONE" => marketState'[m] = "NONE"
<1>1. CASE Trade
  <2>1. ASSUME NEW m \in Markets, NEW c \in Users, NEW p \in MarketRequests,
               NEW r \in TermsRequests, CreateMarket(m, c, p, r)
        PROVE  /\ p \in MarketRequest /\ r \in TermsRequest /\ ValidRequest(p)
               /\ Initialize(m, SnapshotFor(c, p), TermsAt(now, r))
    BY <2>1, RequestAssumption DEF CreateMarket, AdmitMarket
  <2>2. ASSUME NEW m \in Markets, NEW r \in TermsRequests, UpdateBeforeFirstBuy(m, r)
        PROVE  r \in TermsRequest /\ UpdateTerms(m, TermsAt(params[m].createdAt, r))
    BY <2>2, RequestAssumption DEF UpdateBeforeFirstBuy
  <2>3. ASSUME NEW m \in Markets, NEW u \in Users, NEW o \in Outcomes,
               NEW desired \in BuySizes, NEW permit2 \in BOOLEAN,
               Buy(m, u, o, desired, permit2)
        PROVE  UNCHANGED <<params, terms, marketState>>
    BY <2>3 DEF Buy, CompleteBuy, phaseVars
  <2>4. ASSUME NEW m \in Markets, NEW o \in Outcomes, NEW from, NEW to, NEW units,
               SendShares(m, o, from, to, units) \/ ReleaseShares(m, o, to, units)
        PROVE  UNCHANGED <<params, terms, marketState>>
    BY <2>4 DEF SendShares, ReleaseShares, TransferShares, phaseVars
  <2> QED
    BY <1>1, <2>1, <2>2, <2>3, <2>4 DEF Trade
<1>2. CASE Settle
  <2>1. ASSUME NEW m \in Markets, NEW o \in Outcomes, Resolve(m, o)
        PROVE  /\ UNCHANGED <<params, terms>> /\ marketState[m] = "OPEN"
               /\ marketState' = [marketState EXCEPT ![m] = "RESOLVED"]
    BY <2>1 DEF Resolve, ResolveTo, CanResolve
  <2>2. ASSUME NEW m \in Markets, VoidMarket(m)
        PROVE  /\ UNCHANGED <<params, terms>> /\ marketState[m] = "OPEN"
               /\ marketState' = [marketState EXCEPT ![m] = "VOIDED"]
    BY <2>2 DEF VoidMarket, ResolveWithoutSupply, CreatorVoid, VoidAfterDeadline,
                CanResolve, Void
  <2>3. ASSUME NEW m \in Markets, SettleBondToHolders(m)
        PROVE  UNCHANGED <<params, terms, marketState>>
    BY <2>3 DEF SettleBondToHolders, FundTimeoutBonus, phaseVars
  <2>4. ASSUME NEW m \in Markets, SettleBondToCreator(m) \/ SyncExposure(m)
        PROVE  UNCHANGED <<params, terms, marketState>>
    BY <2>4 DEF SettleBondToCreator, SyncExposure, vaultVars, phaseVars
  <2>5. ASSUME NEW m \in Markets, NEW u \in Users, PayHolder(m, u)
        PROVE  UNCHANGED <<params, terms, marketState>>
    BY <2>5 DEF PayHolder, ClaimFromVault, ClaimWinnings, ClaimEarlyBird, Refund,
                ClaimTimeoutBonus, phaseVars
  <2>6. ASSUME NEW m \in Markets, NEW u \in Users, NEW o \in Outcomes, BurnLosing(m, u, o)
        PROVE  UNCHANGED <<params, terms, marketState>>
    BY <2>6 DEF BurnLosing, BurnLosingPosition, phaseVars
  <2>7. marketState \in [Markets -> MarketStates]
    BY DEF ShareInv, TypeOK, VaultTypeOK
  <2> QED
    BY <1>2, <2>1, <2>2, <2>3, <2>4, <2>5, <2>6, <2>7 DEF Settle
<1>3. CASE Withdraw \/ Governance \/ Tick \/ UNCHANGED vars
  <2>1. UNCHANGED vaultVars
    BY <1>3
       DEF Withdraw, WithdrawBond, WithdrawFees, Governance, ConfigureMarketplace,
           ActivateFactory, Deprecate, Reconfigure, RaiseExposureCap, RetireGuard,
           EmergencyPause, EmergencyReset, Tick, vars
  <2> QED
    BY <2>1 DEF vaultVars, phaseVars
<1> QED
  BY <1>1, <1>2, <1>3 DEF Next

\* So every market keeps treasuries that exist.
LEMMA StepTreasuriesNamed ==
    ASSUME ShareInv, TreasuriesNamed, [Next]_vars
    PROVE  TreasuriesNamed'
<1>1. ASSUME NEW m \in Markets, NEW c \in Users, NEW p \in MarketRequest,
             NEW r \in TermsRequest, Initialize(m, SnapshotFor(c, p), TermsAt(now, r))
      PROVE  TreasuriesNamed'
  <2>1. /\ SnapshotFor(c, p).protocolTreasury \in Beneficiaries
        /\ TermsAt(now, r).creatorTreasury \in Beneficiaries
    BY DEF SnapshotFor, TermsAt, TermsRequest, ShareInv, TypeOK, ConfigTypeOK, Config
  <2> QED
    BY <1>1, <2>1 DEF Initialize, TreasuriesNamed, ShareInv, TypeOK, VaultTypeOK
<1>2. ASSUME NEW m \in Markets, NEW r \in TermsRequest,
             UpdateTerms(m, TermsAt(params[m].createdAt, r))
      PROVE  TreasuriesNamed'
  <2>1. TermsAt(params[m].createdAt, r).creatorTreasury \in Beneficiaries
    BY DEF TermsAt, TermsRequest
  <2> QED
    BY <1>2, <2>1
       DEF UpdateTerms, TreasuriesNamed, ShareInv, TypeOK, VaultTypeOK, phaseVars
<1>3. CASE /\ UNCHANGED <<params, terms>>
           /\ \A m \in Markets : marketState[m] = "NONE" => marketState'[m] = "NONE"
  BY <1>3 DEF TreasuriesNamed
<1> QED
  BY <1>1, <1>2, <1>3, TermsOperations

\* What a transaction does to the fee vault.
LEMMA FeeOperations ==
    ASSUME ShareInv, TreasuriesNamed, [Next]_vars
    PROVE  \/ \E m \in Markets, b \in Beneficiaries, a \in Nat :
                 RegisterAndChargeCreation(m, b, a)
           \/ \E m \in Markets, x, y \in Beneficiaries, a, b \in Nat :
                 DepositAndAccrue(m, x, a, y, b)
           \/ \E b \in Beneficiaries : ClaimFees(b)
           \/ UNCHANGED feeVars
<1>1. CASE Trade
  <2>1. ASSUME NEW m \in Markets, NEW c \in Users, NEW p \in MarketRequests,
               NEW r \in TermsRequests, CreateMarket(m, c, p, r)
        PROVE  /\ config.protocolTreasury \in Beneficiaries /\ config.creationFee \in Nat
               /\ RegisterAndChargeCreation(m, config.protocolTreasury, config.creationFee)
    BY <2>1 DEF CreateMarket, ShareInv, TypeOK, ConfigTypeOK, Config
  <2> QED
    BY <1>1, <2>1 DEF Trade, UpdateBeforeFirstBuy, Buy, SendShares, ReleaseShares
<1>2. CASE Settle
  <2>1. ASSUME NEW m \in Markets, NEW o \in Outcomes, Resolve(m, o)
        PROVE  \E x, y \in Beneficiaries, a, b \in Nat : DepositAndAccrue(m, x, a, y, b)
    <3>1. marketState[m] # "NONE"
      BY <2>1 DEF Resolve, ResolveTo, CanResolve
    <3>2. /\ params[m].protocolTreasury \in Beneficiaries
          /\ terms[m].creatorTreasury \in Beneficiaries
      BY <3>1 DEF TreasuriesNamed
    <3>3. PayoutsOf(m).protocolFee \in Nat /\ PayoutsOf(m).creatorFee \in Nat
      BY PayoutsSplit DEF PayoutsOf, Breakdown, ShareInv, TypeOK, VaultTypeOK
    <3>4. DepositAndAccrue(m, params[m].protocolTreasury, PayoutsOf(m).protocolFee,
                           terms[m].creatorTreasury, PayoutsOf(m).creatorFee)
      BY <2>1 DEF Resolve
    <3> QED
      BY <3>2, <3>3, <3>4
  <2> QED
    BY <1>2, <2>1 DEF Settle, VoidMarket, SettleBondToHolders, SettleBondToCreator,
                      SyncExposure, PayHolder, BurnLosing
<1>3. CASE Withdraw
  BY <1>3 DEF Withdraw, WithdrawBond, WithdrawFees
<1>4. CASE Governance
  BY <1>4 DEF Governance, ConfigureMarketplace, ActivateFactory, Deprecate, Reconfigure,
              RaiseExposureCap, RetireGuard, EmergencyPause, EmergencyReset
<1>5. CASE Tick \/ UNCHANGED vars
  BY <1>5 DEF Tick, vars
<1> QED
  BY <1>1, <1>2, <1>3, <1>4, <1>5 DEF Next

\* A credit raised by some amount raises the sum by it.
LEMMA CreditRaised ==
    ASSUME NEW f \in [Beneficiaries -> Nat], NEW g \in [Beneficiaries -> Nat],
           NEW x \in Beneficiaries, NEW a \in Nat,
           g[x] = f[x] + a, \A z \in Beneficiaries \ {x} : g[z] = f[z]
    PROVE  /\ Total(f, Beneficiaries) \in Nat
           /\ Total(g, Beneficiaries) = Total(f, Beneficiaries) + a
<1>1. Total(f, Beneficiaries) \in Nat
  BY AddressAssumption, TotalNat
<1>2. Total(g, Beneficiaries) = Total(f, Beneficiaries) - f[x] + g[x]
  BY AddressAssumption, TotalUpdate
<1>3. f[x] \in Nat
  OBVIOUS
<1> QED
  BY <1>1, <1>2, <1>3

\* Every transaction keeps the fee vault's balance and credits in step.
LEMMA StepFeeInv == ShareInv /\ FeeInv /\ [Next]_vars => FeeInv'
<1> SUFFICES ASSUME ShareInv, FeeInv, [Next]_vars PROVE FeeInv'
  OBVIOUS
<1>1. FeeTypeOK /\ FeeVaultSolvent /\ TreasuriesNamed
  BY DEF ShareInv, TypeOK, FeeInv
<1>2. SUFFICES FeeVaultSolvent'
  BY <1>1, StepTreasuriesNamed DEF FeeInv
<1>3. ASSUME NEW m \in Markets, NEW b \in Beneficiaries, NEW a \in Nat,
             RegisterAndChargeCreation(m, b, a)
      PROVE  FeeVaultSolvent'
  <2>1. /\ feeCreditOf' = [feeCreditOf EXCEPT ![b] = @ + a]
        /\ feeCash' = feeCash + a /\ totalFeeCredits' = totalFeeCredits + a
    BY <1>3 DEF RegisterAndChargeCreation
  <2>2. /\ feeCreditOf \in [Beneficiaries -> Nat] /\ feeCreditOf' \in [Beneficiaries -> Nat]
        /\ feeCreditOf'[b] = feeCreditOf[b] + a
        /\ \A z \in Beneficiaries \ {b} : feeCreditOf'[z] = feeCreditOf[z]
    BY <1>1, <2>1 DEF FeeTypeOK
  <2>3. /\ Total(feeCreditOf, Beneficiaries) \in Nat
        /\ Total(feeCreditOf', Beneficiaries) = Total(feeCreditOf, Beneficiaries) + a
    BY <2>2, CreditRaised
  <2> QED
    BY <1>1, <2>1, <2>3 DEF FeeVaultSolvent
<1>4. ASSUME NEW m \in Markets, NEW x \in Beneficiaries, NEW y \in Beneficiaries,
             NEW a \in Nat, NEW b \in Nat, DepositAndAccrue(m, x, a, y, b)
      PROVE  FeeVaultSolvent'
  <2>1. CASE UNCHANGED feeVars
    BY <1>1, <2>1 DEF FeeVaultSolvent, feeVars
  <2>2. CASE ~ UNCHANGED feeVars
    <3>1. /\ LET first == [feeCreditOf EXCEPT ![x] = @ + a] IN
             feeCreditOf' = [first EXCEPT ![y] = @ + b]
          /\ feeCash' = feeCash + (a + b) /\ totalFeeCredits' = totalFeeCredits + (a + b)
      BY <1>4, <2>2 DEF DepositAndAccrue
    <3>2. PICK h : h = [feeCreditOf EXCEPT ![x] = @ + a]
      OBVIOUS
    <3>3. /\ feeCreditOf \in [Beneficiaries -> Nat] /\ h \in [Beneficiaries -> Nat]
          /\ h[x] = feeCreditOf[x] + a
          /\ \A z \in Beneficiaries \ {x} : h[z] = feeCreditOf[z]
      <4>1. feeCreditOf \in [Beneficiaries -> Nat]
        BY <1>1 DEF FeeTypeOK
      <4> QED
        BY <3>2, <4>1
    <3>4. feeCreditOf' = [h EXCEPT ![y] = @ + b]
      BY <3>1, <3>2
    <3>5. /\ feeCreditOf' \in [Beneficiaries -> Nat] /\ feeCreditOf'[y] = h[y] + b
          /\ \A z \in Beneficiaries \ {y} : feeCreditOf'[z] = h[z]
      BY <3>3, <3>4
    <3>6. /\ Total(feeCreditOf, Beneficiaries) \in Nat
          /\ Total(h, Beneficiaries) = Total(feeCreditOf, Beneficiaries) + a
      BY <3>3, CreditRaised, ZenonT(40)
    <3>7. Total(feeCreditOf', Beneficiaries) = Total(h, Beneficiaries) + b
      <4>1. h \in [Beneficiaries -> Nat]
        BY <3>3
      <4> QED
        BY <3>5, <4>1, CreditRaised
    <3> QED
      BY <1>1, <3>1, <3>6, <3>7 DEF FeeVaultSolvent
  <2> QED
    BY <2>1, <2>2
<1>5. ASSUME NEW b \in Beneficiaries, ClaimFees(b)
      PROVE  FeeVaultSolvent'
  <2>1. /\ feeCreditOf' = [feeCreditOf EXCEPT ![b] = 0]
        /\ totalFeeCredits' = totalFeeCredits - feeCreditOf[b]
        /\ feeCash' = feeCash - feeCreditOf[b]
    BY <1>5 DEF ClaimFees
  <2>2. /\ feeCreditOf' \in [Beneficiaries -> Nat] /\ feeCreditOf'[b] = 0
        /\ feeCreditOf[b] \in Nat
        /\ \A x \in Beneficiaries \ {b} : feeCreditOf'[x] = feeCreditOf[x]
    BY <1>1, <2>1 DEF FeeTypeOK
  <2>3. Total(feeCreditOf', Beneficiaries)
          = Total(feeCreditOf, Beneficiaries) - feeCreditOf[b] + feeCreditOf'[b]
    BY <1>1, <2>2, AddressAssumption, TotalUpdate DEF FeeTypeOK
  <2> QED
    BY <1>1, <2>1, <2>2, <2>3 DEF FeeVaultSolvent, FeeTypeOK
<1>6. CASE UNCHANGED feeVars
  BY <1>1, <1>6 DEF FeeVaultSolvent, feeVars
<1> QED
  BY <1>1, <1>3, <1>4, <1>5, <1>6, FeeOperations

\* At the start nobody is owed a fee.
LEMMA InitFeeInv == Init => FeeInv
<1> SUFFICES ASSUME Init PROVE FeeInv
  OBVIOUS
<1>1. Total(feeCreditOf, Beneficiaries) = 0
  BY AddressAssumption, TotalZero DEF Init, FeeInit
<1> QED
  BY <1>1 DEF Init, FeeInit, VaultInit, FeeInv, FeeVaultSolvent, TreasuriesNamed

\* Fee vault solvency: the fee vault holds exactly the credits of all
\* treasuries, also where the protocol's and the creator's are the same.
THEOREM FeeVaultIsSolvent == Spec => []FeeVaultSolvent
<1>1. FeeInv => FeeVaultSolvent
  BY DEF FeeInv
<1> QED
  BY <1>1, InitShareInv, StepShareInv, InitFeeInv, StepFeeInv, PTL DEF Spec

-----------------------------------------------------------------------------
(* The exposure guard.  A vault's balance is what it owes (Solvency), so   *)
(* the guard is conservative when no balance exceeds the market's report.  *)

BalancesReported == ~retired => \A m \in Markets : cash[m] <= reportedExposure[m]

ReportsSummed == totalReportedExposure = Total(reportedExposure, Markets)

\* An address without a vault has sold nothing.
NothingSold == \A m \in Markets : marketState[m] = "NONE" => totalPrincipal[m] = 0

GuardInv ==
    SolvencyInv /\ NothingSold /\ ReportsSummed /\ BalancesReported /\ OpenExposureWithinCap

\* A sum does not exceed a sum of terms at least as large.
LEMMA TotalMonotone ==
    ASSUME NEW f, NEW g, NEW D, IsFiniteSet(D),
           \A x \in D : f[x] \in Nat /\ g[x] \in Nat /\ f[x] <= g[x]
    PROVE  /\ Total(f, D) \in Nat /\ Total(g, D) \in Nat
           /\ Total(f, D) <= Total(g, D)
<1> DEFINE d == [x \in D |-> g[x] - f[x]]
<1>1. \A x \in D : d[x] \in Nat /\ g[x] = f[x] + d[x]
  OBVIOUS
<1> HIDE DEF d
<1>2. Total(f, D) \in Nat /\ Total(g, D) \in Nat /\ Total(d, D) \in Nat
  BY <1>1, TotalNat
<1>3. Total(g, D) = Total(f, D) + Total(d, D)
  BY <1>1, TotalPlus
<1> QED
  BY <1>2, <1>3

\* The calls that leave the reports alone only pay tokens out of vaults.
QuietStep ==
    /\ UNCHANGED <<reportedExposure, totalReportedExposure>>
    /\ exposureCap' >= exposureCap /\ (retired => retired')
    /\ \A n \in Markets : cash'[n] <= cash[n] /\ OpenPrincipal'[n] <= OpenPrincipal[n]
    /\ NothingSold'

\* A purchase reserves what it pays in.
BuyStep(m, amount) ==
    /\ Reserve(m, amount)
    /\ marketState[m] = "OPEN" /\ UNCHANGED marketState
    /\ cash' = [cash EXCEPT ![m] = @ + amount]
    /\ totalPrincipal' = [totalPrincipal EXCEPT ![m] = @ + amount]

\* A sync reports the balance the market has after it.
SyncStep(m) ==
    /\ Sync(m, cash'[m])
    /\ \A n \in Markets \ {m} : cash'[n] = cash[n]
    /\ UNCHANGED <<marketState, totalPrincipal>>

\* Steps that move no payment token and sell nothing, in terms of the guard.
LEMMA NoTradeIsQuiet ==
    ASSUME ShareInv, NothingSold,
           UNCHANGED <<reportedExposure, totalReportedExposure, cash, totalPrincipal>>,
           exposureCap' >= exposureCap, retired => retired',
           \A n \in Markets : /\ marketState'[n] = "NONE" => marketState[n] = "NONE"
                              /\ marketState'[n] = "OPEN" =>
                                    marketState[n] \in {"NONE", "OPEN"}
    PROVE  QuietStep
<1>1. /\ cash \in [Markets -> Nat] /\ totalPrincipal \in [Markets -> Nat]
  BY DEF ShareInv, TypeOK, VaultTypeOK
<1>2. \A n \in Markets : OpenPrincipal'[n] <= OpenPrincipal[n]
  BY <1>1 DEF OpenPrincipal, NothingSold
<1>3. NothingSold'
  BY DEF NothingSold
<1> QED
  BY <1>1, <1>2, <1>3 DEF QuietStep

\* A payment out of a vault is quiet when the guard is left alone.
LEMMA PaymentIsQuiet ==
    ASSUME ShareInv, NothingSold, NEW m \in Markets, NEW paid \in Nat, paid <= cash[m],
           cash' = [cash EXCEPT ![m] = @ - paid],
           UNCHANGED <<guardVars, totalPrincipal>>,
           \A n \in Markets : /\ marketState'[n] = "NONE" => marketState[n] = "NONE"
                              /\ marketState'[n] = "OPEN" => marketState[n] = "OPEN"
    PROVE  QuietStep
<1>1. /\ cash \in [Markets -> Nat] /\ totalPrincipal \in [Markets -> Nat]
      /\ exposureCap \in Nat
  BY DEF ShareInv, TypeOK, VaultTypeOK, GuardTypeOK
<1>2. \A n \in Markets : cash'[n] <= cash[n]
  BY <1>1
<1>3. \A n \in Markets : OpenPrincipal'[n] <= OpenPrincipal[n]
  BY <1>1 DEF OpenPrincipal
<1>4. NothingSold'
  BY DEF NothingSold
<1> QED
  BY <1>1, <1>2, <1>3, <1>4 DEF QuietStep, guardVars

\* Purchases and transfers, as the guard sees them.
LEMMA TradeGuarded ==
    ASSUME ShareInv, NothingSold, Trade
    PROVE  QuietStep \/ \E m \in Markets, a \in Nat : BuyStep(m, a)
<1>1. /\ marketState \in [Markets -> MarketStates] /\ exposureCap \in Nat
      /\ exposureCap >= exposureCap
  BY DEF ShareInv, TypeOK, VaultTypeOK, GuardTypeOK
<1>2. ASSUME NEW m \in Markets, NEW c \in Users, NEW p \in MarketRequests,
             NEW r \in TermsRequests, CreateMarket(m, c, p, r)
      PROVE  QuietStep
  <2>1. /\ marketState[m] = "NONE" /\ marketState' = [marketState EXCEPT ![m] = "OPEN"]
        /\ UNCHANGED <<reportedExposure, totalReportedExposure, exposureCap, retired,
                       cash, totalPrincipal>>
    BY <1>2 DEF CreateMarket, Initialize, RegisterMarket, tradeVars
  <2> QED
    BY <1>1, <2>1, NoTradeIsQuiet
<1>3. ASSUME NEW m \in Markets, NEW u \in Users, NEW o \in Outcomes,
             NEW desired \in BuySizes, NEW permit2 \in BOOLEAN, Buy(m, u, o, desired, permit2)
      PROVE  BuyStep(m, Filled(m, u, desired)) /\ Filled(m, u, desired) \in Nat
  <2>1. CanBuy(m, u, desired) /\ marketState[m] = "OPEN" /\ desired \in Nat
    BY <1>3, BoundAssumption DEF Buy, CanBuy
  <2>2. Filled(m, u, desired) \in Nat
    BY <2>1, FilledNat DEF ShareInv, TypeOK
  <2> QED
    BY <1>3, <2>1, <2>2 DEF Buy, CompleteBuy, BuyStep, phaseVars
<1>4. ASSUME UNCHANGED <<guardVars, marketState, cash, totalPrincipal>>
      PROVE  QuietStep
  <2>1. UNCHANGED <<reportedExposure, totalReportedExposure, exposureCap, retired>>
    BY <1>4 DEF guardVars
  <2> QED
    BY <1>1, <1>4, <2>1, NoTradeIsQuiet
<1>5. ASSUME NEW m \in Markets, NEW r \in TermsRequests, UpdateBeforeFirstBuy(m, r)
      PROVE  UNCHANGED <<guardVars, marketState, cash, totalPrincipal>>
  BY <1>5 DEF UpdateBeforeFirstBuy, UpdateTerms, phaseVars, tradeVars
<1>6. ASSUME NEW m \in Markets, NEW o \in Outcomes, NEW from, NEW to, NEW units,
             SendShares(m, o, from, to, units) \/ ReleaseShares(m, o, to, units)
      PROVE  UNCHANGED <<guardVars, marketState, cash, totalPrincipal>>
  BY <1>6 DEF SendShares, ReleaseShares, TransferShares, phaseVars, tradeVars
<1> QED
  BY <1>2, <1>3, <1>4, <1>5, <1>6 DEF Trade

\* Resolution, voiding, bonds and claims, as the guard sees them.
LEMMA SettleGuarded ==
    ASSUME ShareInv, SolvencyInv, NothingSold, SolvencyInv', Settle
    PROVE  QuietStep \/ \E m \in Markets : cash'[m] \in Nat /\ SyncStep(m)
<1>1. /\ marketState \in [Markets -> MarketStates] /\ exposureCap \in Nat
      /\ exposureCap >= exposureCap /\ cash \in [Markets -> Nat]
  BY DEF ShareInv, TypeOK, VaultTypeOK, GuardTypeOK
<1>2. ASSUME NEW m \in Markets, NEW o \in Outcomes, Resolve(m, o)
      PROVE  QuietStep
  <2> DEFINE paid == PayoutsOf(m).protocolFee + PayoutsOf(m).creatorFee
  <2>1. paid \in Nat
    BY PayoutsSplit DEF PayoutsOf, Breakdown, ShareInv, TypeOK, VaultTypeOK
  <2>2. /\ paid <= cash[m] /\ cash' = [cash EXCEPT ![m] = @ - paid]
        /\ UNCHANGED <<guardVars, totalPrincipal>>
        /\ marketState' = [marketState EXCEPT ![m] = "RESOLVED"]
    <3>1. cash[m] >= paid
      BY <1>2 DEF Resolve, ResolveTo
    <3> HIDE DEF paid
    <3>2. paid <= cash[m]
      BY <1>1, <2>1, <3>1
    <3> QED
      BY <1>2, <3>2 DEF Resolve, ResolveTo, tradeVars, paid
  <2> HIDE DEF paid
  <2> QED
    BY <1>1, <2>1, <2>2, PaymentIsQuiet
<1>3. ASSUME NEW m \in Markets, VoidMarket(m)
      PROVE  QuietStep
  <2>1. /\ marketState' = [marketState EXCEPT ![m] = "VOIDED"]
        /\ UNCHANGED <<reportedExposure, totalReportedExposure, exposureCap, retired,
                       cash, totalPrincipal>>
    BY <1>3 DEF VoidMarket, ResolveWithoutSupply, CreatorVoid, VoidAfterDeadline, Void,
                tradeVars, guardVars
  <2> QED
    BY <1>1, <2>1, NoTradeIsQuiet
<1>4. ASSUME NEW m \in Markets, SettleBondToHolders(m)
      PROVE  SyncStep(m) /\ cash'[m] \in Nat
  <2> DEFINE amount == bondOf[m].amount
  <2>1. amount \in Nat /\ remainingRefund[m] \in Nat
    BY DEF ShareInv, TypeOK, EscrowTypeOK, Bond, VaultTypeOK
  <2>2. /\ remainingBonusPool'[m] = amount /\ remainingRefund' = remainingRefund
        /\ marketState' = marketState /\ marketState[m] = "VOIDED"
        /\ totalPrincipal' = totalPrincipal
        /\ Sync(m, remainingRefund[m] + amount)
        /\ \A n \in Markets \ {m} : cash'[n] = cash[n]
    BY <1>1, <1>4
       DEF SettleBondToHolders, FundTimeoutBonus, phaseVars, tradeVars,
           ShareInv, TypeOK, VaultTypeOK
  <2>3. cash'[m] = remainingRefund[m] + amount
    BY <2>2 DEF SolvencyInv, VaultSolvent, GuardExposure
  <2> HIDE DEF amount
  <2> QED
    BY <2>1, <2>2, <2>3 DEF SyncStep
<1>5. ASSUME NEW m \in Markets, SettleBondToCreator(m)
      PROVE  QuietStep
  <2>1. UNCHANGED <<reportedExposure, totalReportedExposure, exposureCap, retired,
                    cash, totalPrincipal, marketState>>
    BY <1>5 DEF SettleBondToCreator, vaultVars, guardVars, phaseVars, tradeVars
  <2> QED
    BY <1>1, <2>1, NoTradeIsQuiet
<1>6. ASSUME NEW m \in Markets, SyncExposure(m)
      PROVE  SyncStep(m) /\ cash'[m] \in Nat
  <2>1. cash[m] = GuardExposure(m)
    BY DEF SolvencyInv, VaultSolvent
  <2>2. UNCHANGED <<marketState, totalPrincipal, cash>>
    BY <1>6 DEF SyncExposure, vaultVars, phaseVars, tradeVars
  <2>3. Sync(m, cash'[m])
    BY <1>6, <2>1, <2>2 DEF SyncExposure
  <2> QED
    BY <1>1, <2>2, <2>3 DEF SyncStep
<1>7. ASSUME NEW m \in Markets, NEW u \in Users, PayHolder(m, u)
      PROVE  QuietStep
  <2>1. PICK paid \in Nat : PaysFromPool(m, paid)
    BY <1>7, ClaimPays DEF PayHolder
  <2> QED
    BY <1>1, <1>7, <2>1, PaymentIsQuiet DEF PaysFromPool, PayHolder, phaseVars
<1>8. ASSUME NEW m \in Markets, NEW u \in Users, NEW o \in Outcomes, BurnLosing(m, u, o)
      PROVE  QuietStep
  <2>1. UNCHANGED <<reportedExposure, totalReportedExposure, exposureCap, retired,
                    cash, totalPrincipal, marketState>>
    BY <1>8 DEF BurnLosing, BurnLosingPosition, guardVars, phaseVars, tradeVars
  <2> QED
    BY <1>1, <2>1, NoTradeIsQuiet
<1> QED
  BY <1>2, <1>3, <1>4, <1>5, <1>6, <1>7, <1>8 DEF Settle

\* Governance, withdrawals and time, as the guard sees them.
LEMMA OthersQuiet ==
    ASSUME ShareInv, NothingSold, Governance \/ Withdraw \/ Tick \/ UNCHANGED vars
    PROVE  QuietStep
<1>1. /\ marketState \in [Markets -> MarketStates] /\ exposureCap \in Nat
      /\ exposureCap >= exposureCap
  BY DEF ShareInv, TypeOK, VaultTypeOK, GuardTypeOK
<1>2. UNCHANGED vaultVars
  BY DEF Withdraw, WithdrawBond, WithdrawFees, Governance, ConfigureMarketplace,
         ActivateFactory, Deprecate, Reconfigure, RaiseExposureCap, RetireGuard,
         EmergencyPause, EmergencyReset, Tick, vars
<1>3. \/ \E cap \in CapOptions : RaiseCap(cap)
      \/ RetireForever
      \/ UNCHANGED guardVars
  BY DEF Withdraw, WithdrawBond, WithdrawFees, Governance, ConfigureMarketplace,
         ActivateFactory, Deprecate, Reconfigure, RaiseExposureCap, RetireGuard,
         EmergencyPause, EmergencyReset, Tick, vars
<1>4. /\ UNCHANGED <<reportedExposure, totalReportedExposure>>
      /\ exposureCap' >= exposureCap /\ (retired => retired')
  BY <1>1, <1>3 DEF RaiseCap, RetireForever, guardVars
<1> QED
  BY <1>1, <1>2, <1>4, NoTradeIsQuiet DEF vaultVars, phaseVars, tradeVars

\* The guard starts with empty reports about empty markets.
LEMMA InitGuardInv == Init => GuardInv
<1> SUFFICES ASSUME Init PROVE GuardInv
  OBVIOUS
<1>1. OpenPrincipal = [m \in Markets |-> 0] /\ reportedExposure = [m \in Markets |-> 0]
  BY DEF Init, VaultInit, GuardInit, OpenPrincipal
<1>2. Total(OpenPrincipal, Markets) = 0 /\ Total(reportedExposure, Markets) = 0
  BY <1>1, AddressAssumption, TotalZero
<1>3. /\ totalReportedExposure = 0 /\ exposureCap \in Nat
      /\ cash = [m \in Markets |-> 0] /\ totalPrincipal = [m \in Markets |-> 0]
  BY CapAssumption DEF Init, VaultInit, GuardInit
<1> QED
  BY <1>1, <1>2, <1>3, InitSolvencyInv
     DEF GuardInv, NothingSold, ReportsSummed, BalancesReported, OpenExposureWithinCap

\* What the guard's invariant needs of a step, besides solvency.
ReportsKept == NothingSold' /\ ReportsSummed' /\ BalancesReported' /\ OpenExposureWithinCap'

\* Principal of open markets never exceeds what the guard has on record.
LEMMA OpenWithinReports ==
    ASSUME ShareInv, GuardInv, ~retired
    PROVE  /\ Total(OpenPrincipal, Markets) \in Nat
           /\ Total(OpenPrincipal, Markets) <= totalReportedExposure
<1>1. ASSUME NEW m \in Markets
      PROVE  /\ OpenPrincipal[m] \in Nat /\ reportedExposure[m] \in Nat
             /\ OpenPrincipal[m] <= reportedExposure[m]
  <2>1. /\ cash[m] = GuardExposure(m) /\ cash[m] <= reportedExposure[m]
        /\ totalPrincipal[m] \in Nat /\ reportedExposure[m] \in Nat
    BY DEF GuardInv, SolvencyInv, VaultSolvent, BalancesReported,
           ShareInv, TypeOK, VaultTypeOK, GuardTypeOK
  <2> QED
    BY <2>1 DEF OpenPrincipal, GuardExposure
<1>2. /\ Total(OpenPrincipal, Markets) \in Nat
      /\ Total(OpenPrincipal, Markets) <= Total(reportedExposure, Markets)
  BY <1>1, AddressAssumption, TotalMonotone
<1> QED
  BY <1>2 DEF GuardInv, ReportsSummed

\* A quiet step keeps the reports above the balances.
LEMMA QuietKeeps ==
    ASSUME ShareInv, ShareInv', GuardInv, QuietStep
    PROVE  ReportsKept
<1>1. BalancesReported'
  BY DEF QuietStep, GuardInv, BalancesReported, ShareInv, TypeOK, VaultTypeOK, GuardTypeOK
<1>2. ReportsSummed'
  BY DEF QuietStep, GuardInv, ReportsSummed
<1>3. OpenExposureWithinCap'
  <2>1. SUFFICES ASSUME ~retired'
                 PROVE  Total(OpenPrincipal', Markets) <= exposureCap'
    BY DEF OpenExposureWithinCap
  <2>2. ~retired /\ exposureCap' >= exposureCap /\ exposureCap \in Nat /\ exposureCap' \in Nat
    BY <2>1 DEF QuietStep, ShareInv, TypeOK, GuardTypeOK
  <2>3. \A n \in Markets : /\ OpenPrincipal'[n] \in Nat /\ OpenPrincipal[n] \in Nat
                           /\ OpenPrincipal'[n] <= OpenPrincipal[n]
    BY DEF QuietStep, OpenPrincipal, ShareInv, TypeOK, VaultTypeOK
  <2>4. /\ Total(OpenPrincipal', Markets) \in Nat /\ Total(OpenPrincipal, Markets) \in Nat
        /\ Total(OpenPrincipal', Markets) <= Total(OpenPrincipal, Markets)
    BY <2>3, AddressAssumption, TotalMonotone
  <2>5. Total(OpenPrincipal, Markets) <= exposureCap
    BY <2>2 DEF GuardInv, OpenExposureWithinCap
  <2> QED
    BY <2>2, <2>4, <2>5
<1>4. NothingSold'
  BY DEF QuietStep
<1> QED
  BY <1>1, <1>2, <1>3, <1>4 DEF ReportsKept

\* A purchase within the headroom keeps the cap, although the reports of
\* other markets may lie above what they owe.
LEMMA BuyKeeps ==
    ASSUME ShareInv, ShareInv', GuardInv, NEW m \in Markets, NEW a \in Nat, BuyStep(m, a)
    PROVE  ReportsKept
<1>1. /\ cash \in [Markets -> Nat] /\ totalPrincipal \in [Markets -> Nat]
      /\ marketState \in [Markets -> MarketStates]
      /\ reportedExposure \in [Markets -> Nat] /\ totalReportedExposure \in Nat
      /\ exposureCap \in Nat
  BY DEF ShareInv, TypeOK, VaultTypeOK, GuardTypeOK
<1>2. NothingSold'
  BY <1>1 DEF BuyStep, GuardInv, NothingSold
<1>3. UNCHANGED <<exposureCap, retired>>
  BY DEF BuyStep, Reserve
<1>4. CASE retired
  BY <1>2, <1>3, <1>4
     DEF ReportsKept, BuyStep, Reserve, GuardInv, ReportsSummed, BalancesReported,
         OpenExposureWithinCap
<1>5. CASE ~retired
  <2>1. /\ a <= Available
        /\ reportedExposure' = [reportedExposure EXCEPT ![m] = @ + a]
        /\ totalReportedExposure' = totalReportedExposure + a
    BY <1>5 DEF BuyStep, Reserve
  <2>2. BalancesReported'
    BY <1>1, <1>3, <1>5, <2>1 DEF BuyStep, GuardInv, BalancesReported
  <2>3. ReportsSummed'
    <3>1. /\ reportedExposure'[m] = reportedExposure[m] + a /\ reportedExposure[m] \in Nat
          /\ \A n \in Markets : reportedExposure[n] \in Nat /\ reportedExposure'[n] \in Nat
          /\ \A n \in Markets \ {m} : reportedExposure'[n] = reportedExposure[n]
      BY <1>1, <2>1
    <3>2. Total(reportedExposure', Markets)
            = Total(reportedExposure, Markets) - reportedExposure[m] + reportedExposure'[m]
      BY <3>1, AddressAssumption, TotalUpdate
    <3>3. totalReportedExposure = Total(reportedExposure, Markets)
      BY DEF GuardInv, ReportsSummed
    <3> QED
      BY <1>1, <2>1, <3>1, <3>2, <3>3 DEF ReportsSummed
  <2>4. Total(OpenPrincipal', Markets) = Total(OpenPrincipal, Markets) + a
    <3>1. /\ OpenPrincipal'[m] = OpenPrincipal[m] + a /\ OpenPrincipal[m] \in Nat
          /\ \A n \in Markets : OpenPrincipal[n] \in Nat /\ OpenPrincipal'[n] \in Nat
          /\ \A n \in Markets \ {m} : OpenPrincipal'[n] = OpenPrincipal[n]
      BY <1>1 DEF BuyStep, OpenPrincipal
    <3>2. Total(OpenPrincipal', Markets)
            = Total(OpenPrincipal, Markets) - OpenPrincipal[m] + OpenPrincipal'[m]
      BY <3>1, AddressAssumption, TotalUpdate
    <3>3. Total(OpenPrincipal, Markets) \in Nat
      BY <1>5, OpenWithinReports
    <3> QED
      BY <3>1, <3>2, <3>3
  <2>5. /\ Total(OpenPrincipal, Markets) \in Nat
        /\ Total(OpenPrincipal, Markets) <= totalReportedExposure
        /\ Total(OpenPrincipal, Markets) <= exposureCap
    BY <1>5, OpenWithinReports DEF GuardInv, OpenExposureWithinCap
  <2>6. OpenExposureWithinCap'
    <3>1. Total(OpenPrincipal, Markets) + a <= exposureCap
      <4>1. CASE totalReportedExposure >= exposureCap
        <5>1. a = 0
          BY <2>1, <4>1 DEF Available
        <5> QED
          BY <2>5, <5>1
      <4>2. CASE ~(totalReportedExposure >= exposureCap)
        <5>1. a <= exposureCap - totalReportedExposure
          BY <2>1, <4>2 DEF Available
        <5> QED
          BY <1>1, <2>5, <5>1
      <4> QED
        BY <4>1, <4>2
    <3> QED
      BY <1>3, <2>4, <3>1 DEF OpenExposureWithinCap
  <2> QED
    BY <1>2, <2>2, <2>3, <2>6 DEF ReportsKept
<1> QED
  BY <1>4, <1>5

\* A sync replaces one report by the market's balance.
LEMMA SyncKeeps ==
    ASSUME ShareInv, ShareInv', GuardInv, NEW m \in Markets, cash'[m] \in Nat, SyncStep(m)
    PROVE  ReportsKept
<1>1. /\ cash \in [Markets -> Nat] /\ cash' \in [Markets -> Nat]
      /\ reportedExposure \in [Markets -> Nat] /\ totalReportedExposure \in Nat
  BY DEF ShareInv, TypeOK, VaultTypeOK, GuardTypeOK
<1>2. UNCHANGED <<exposureCap, retired>>
  BY DEF SyncStep, Sync
<1>3. NothingSold'
  BY DEF SyncStep, GuardInv, NothingSold
<1>4. OpenPrincipal' = OpenPrincipal
  BY DEF SyncStep, OpenPrincipal
<1>5. OpenExposureWithinCap'
  BY <1>2, <1>4 DEF GuardInv, OpenExposureWithinCap
<1>6. CASE retired
  BY <1>2, <1>3, <1>5, <1>6
     DEF ReportsKept, SyncStep, Sync, GuardInv, ReportsSummed, BalancesReported
<1>7. CASE ~retired
  <2>1. /\ reportedExposure' = [reportedExposure EXCEPT ![m] = cash'[m]]
        /\ totalReportedExposure' = totalReportedExposure - reportedExposure[m] + cash'[m]
    BY <1>7 DEF SyncStep, Sync
  <2>2. BalancesReported'
    BY <1>1, <1>2, <1>7, <2>1 DEF SyncStep, GuardInv, BalancesReported
  <2>3. ReportsSummed'
    <3>1. /\ reportedExposure'[m] = cash'[m]
          /\ \A n \in Markets : reportedExposure[n] \in Nat /\ reportedExposure'[n] \in Nat
          /\ \A n \in Markets \ {m} : reportedExposure'[n] = reportedExposure[n]
      BY <1>1, <2>1
    <3>2. Total(reportedExposure', Markets)
            = Total(reportedExposure, Markets) - reportedExposure[m] + reportedExposure'[m]
      BY <3>1, AddressAssumption, TotalUpdate
    <3> QED
      BY <2>1, <3>1, <3>2 DEF GuardInv, ReportsSummed
  <2> QED
    BY <1>3, <1>5, <2>2, <2>3 DEF ReportsKept
<1> QED
  BY <1>6, <1>7

\* Every transaction keeps the guard conservative and the cap respected.
LEMMA StepGuardInv == ShareInv /\ GuardInv /\ [Next]_vars => GuardInv'
<1> SUFFICES ASSUME ShareInv, GuardInv, [Next]_vars PROVE GuardInv'
  OBVIOUS
<1>1. ShareInv' /\ SolvencyInv' /\ SolvencyInv /\ NothingSold
  BY StepShareInv, StepSolvencyInv DEF GuardInv
<1>2. ASSUME ReportsKept PROVE GuardInv'
  BY <1>1, <1>2 DEF GuardInv, ReportsKept
<1>3. CASE Trade
  BY <1>1, <1>2, <1>3, TradeGuarded, QuietKeeps, BuyKeeps
<1>4. CASE Settle
  BY <1>1, <1>2, <1>4, SettleGuarded, QuietKeeps, SyncKeeps
<1>5. CASE Governance \/ Withdraw \/ Tick \/ UNCHANGED vars
  BY <1>1, <1>2, <1>5, OthersQuiet, QuietKeeps
<1> QED
  BY <1>3, <1>4, <1>5 DEF Next

\* The exposure guard errs on the safe side: while it is in service no market
\* owes more than it last reported, however purchases, lagging syncs, bonus
\* payments and claims of several markets interleave.
THEOREM GuardIsConservative == Spec => []GuardConservative
<1>1. GuardInv => GuardConservative
  BY DEF GuardInv, SolvencyInv, VaultSolvent, BalancesReported, ReportsSummed,
         GuardConservative
<1> QED
  BY <1>1, InitShareInv, StepShareInv, InitGuardInv, StepGuardInv, PTL DEF Spec

\* The launch cap: Reserve checks lagging reports, and yet the principal of
\* all open markets together never exceeds the cap while the guard is in
\* service, even after a bonus pushed the reports above it.
THEOREM LaunchCapRespected == Spec => []OpenExposureWithinCap
<1>1. GuardInv => OpenExposureWithinCap
  BY DEF GuardInv
<1> QED
  BY <1>1, InitShareInv, StepShareInv, InitGuardInv, StepGuardInv, PTL DEF Spec

-----------------------------------------------------------------------------
(***************************************************************************)
(* What a market may not take back: the terms its first buyer saw, the     *)
(* verdict and the split of a terminal market, a settled bond; and what    *)
(* governance and creators can never take: more than the hard fee limits.  *)
(***************************************************************************)

-----------------------------------------------------------------------------
(* Terms.                                                                  *)

\* Terms change only while nothing has been sold.
LEMMA StepTermsFrozen ==
    ASSUME ShareInv, NothingSold, [Next]_vars
    PROVE  \A m \in Markets :
              totalPrincipal[m] # 0 => terms'[m] = terms[m] /\ params'[m] = params[m]
<1> USE DEF ShareInv, TypeOK, VaultTypeOK
<1>1. ASSUME NEW m \in Markets, NEW c \in Users, NEW p \in MarketRequest,
             NEW r \in TermsRequest, Initialize(m, SnapshotFor(c, p), TermsAt(now, r))
      PROVE  \A n \in Markets :
                totalPrincipal[n] # 0 => terms'[n] = terms[n] /\ params'[n] = params[n]
  BY <1>1 DEF Initialize, NothingSold
<1>2. ASSUME NEW m \in Markets, NEW r \in TermsRequest,
             UpdateTerms(m, TermsAt(params[m].createdAt, r))
      PROVE  \A n \in Markets :
                totalPrincipal[n] # 0 => terms'[n] = terms[n] /\ params'[n] = params[n]
  BY <1>2 DEF UpdateTerms
<1> QED
  BY <1>1, <1>2, TermsOperations

\* The terms and the fee split a buyer saw are the ones the market settles
\* by: updateBeforeFirstBuy and a second initialize cannot reach a market in
\* which anything was ever sold.
THEOREM TermsAreFrozen == Spec => TermsFrozenByFirstBuy
<1>1. GuardInv => NothingSold
  BY DEF GuardInv
<1>2. ShareInv /\ NothingSold /\ [Next]_vars =>
        [\A m \in Markets :
            totalPrincipal[m] # 0 => terms'[m] = terms[m] /\ params'[m] = params[m]]_vars
  BY StepTermsFrozen
<1> QED
  BY <1>1, <1>2, InitShareInv, StepShareInv, InitGuardInv, StepGuardInv,
     PTL DEF Spec, TermsFrozenByFirstBuy

-----------------------------------------------------------------------------
(* Terminal markets.                                                       *)

\* A settled bond stays as it is, whatever the escrow does.
LEMMA SettledBondStays ==
    ASSUME ShareInv, NoBondYet, [Next]_vars
    PROVE  \A m \in Markets : bondOf[m].settled => bondOf'[m] = bondOf[m]
<1>1. bondOf \in [Markets -> Bond]
  BY DEF ShareInv, TypeOK, EscrowTypeOK
<1>2. ASSUME NEW m \in Markets, NEW c \in Users, NEW a \in Nat, LockBond(m, c, a)
      PROVE  \A n \in Markets : bondOf[n].settled => bondOf'[n] = bondOf[n]
  BY <1>1, <1>2 DEF LockBond, NoBondYet
<1>3. ASSUME NEW m \in Markets, SlashBondToMarket(m) \/ CreditBondToCreator(m)
      PROVE  \A n \in Markets : bondOf[n].settled => bondOf'[n] = bondOf[n]
  BY <1>1, <1>3 DEF SlashBondToMarket, CreditBondToCreator, Settleable, MarkSettled
<1>4. CASE \E c \in Users : ClaimBond(c)
  BY <1>4 DEF ClaimBond
<1>5. CASE UNCHANGED escrowVars
  BY <1>5 DEF escrowVars
<1> QED
  BY <1>2, <1>3, <1>4, <1>5, EscrowOperations

\* What a step leaves alone in market n; shares may be destroyed.
VerdictKept(n) ==
    /\ marketState'[n] = marketState[n] /\ voidReason'[n] = voidReason[n]
    /\ winningOutcome'[n] = winningOutcome[n] /\ payoutBreakdown'[n] = payoutBreakdown[n]
    /\ terms'[n] = terms[n] /\ totalPrincipal'[n] = totalPrincipal[n]
    /\ \A o \in Outcomes : supply'[n][o] <= supply[n][o]

\* A step that touches none of it keeps every verdict.
LEMMA UntouchedVerdicts ==
    ASSUME ShareInv,
           UNCHANGED <<marketState, voidReason, winningOutcome, payoutBreakdown, terms,
                       totalPrincipal, supply>>
    PROVE  \A n \in Markets : VerdictKept(n)
<1>1. \A n \in Markets, o \in Outcomes : supply[n][o] \in Nat
  BY DEF ShareInv, TypeOK, VaultTypeOK
<1> QED
  BY <1>1 DEF VerdictKept

\* Markets are created, changed and sold into before they are terminal.
LEMMA TradeKeepsVerdicts ==
    ASSUME ShareInv, Trade, NEW n \in Markets, Terminal(n)
    PROVE  VerdictKept(n)
<1>1. /\ \A o \in Outcomes : supply[n][o] \in Nat
      /\ marketState[n] # "NONE" /\ marketState[n] # "OPEN"
      /\ marketState \in [Markets -> MarketStates] /\ terms \in [Markets -> Terms]
      /\ totalPrincipal \in [Markets -> Nat] /\ supply \in [Markets -> [Outcomes -> Nat]]
  BY DEF ShareInv, TypeOK, VaultTypeOK, Terminal
<1>2. ASSUME NEW m \in Markets, NEW c \in Users, NEW p \in MarketRequests,
             NEW r \in TermsRequests, CreateMarket(m, c, p, r)
      PROVE  VerdictKept(n)
  BY <1>1, <1>2
     DEF CreateMarket, Initialize, VerdictKept, tradeVars, shareVars, winVars
<1>3. ASSUME NEW m \in Markets, NEW r \in TermsRequests, UpdateBeforeFirstBuy(m, r)
      PROVE  VerdictKept(n)
  BY <1>1, <1>3
     DEF UpdateBeforeFirstBuy, UpdateTerms, VerdictKept, phaseVars, tradeVars, shareVars,
         winVars
<1>4. ASSUME NEW m \in Markets, NEW u \in Users, NEW o \in Outcomes,
             NEW desired \in BuySizes, NEW permit2 \in BOOLEAN, Buy(m, u, o, desired, permit2)
      PROVE  VerdictKept(n)
  <2>1. /\ marketState[m] = "OPEN"
        /\ UNCHANGED <<marketState, voidReason, winningOutcome, payoutBreakdown, terms>>
        /\ totalPrincipal' = [totalPrincipal EXCEPT ![m] = @ + Filled(m, u, desired)]
        /\ supply' = [supply EXCEPT ![m][o] = @ + Filled(m, u, desired)]
    BY <1>4 DEF Buy, CanBuy, CompleteBuy, phaseVars, winVars
  <2>2. n # m
    BY <1>1, <2>1
  <2> QED
    BY <1>1, <2>1, <2>2 DEF VerdictKept
<1>5. ASSUME NEW m \in Markets, NEW o \in Outcomes, NEW from, NEW to, NEW units,
             SendShares(m, o, from, to, units) \/ ReleaseShares(m, o, to, units)
      PROVE  VerdictKept(n)
  BY <1>5, UntouchedVerdicts
     DEF SendShares, ReleaseShares, TransferShares, phaseVars, tradeVars, winVars
<1> QED
  BY <1>2, <1>3, <1>4, <1>5 DEF Trade

\* Claims and burns take shares out of the supply, never back in.
LEMMA ClaimsKeepVerdicts ==
    ASSUME ShareInv, NEW m \in Markets, NEW u \in Users, ClaimFromVault(m, u),
           NEW n \in Markets
    PROVE  VerdictKept(n)
<1>1. /\ supply \in [Markets -> [Outcomes -> Nat]]
      /\ balanceOf \in [Markets -> [Outcomes -> [Accounts -> Nat]]]
      /\ winningOutcome[m] \in Outcomes /\ u \in Accounts
  BY DEF ShareInv, TypeOK, VaultTypeOK, Accounts
<1>2. CASE ClaimWinnings(m, u)
  <2> DEFINE o == winningOutcome[m]
             units == balanceOf[m][o][u]
  <2>1. /\ supply' = [supply EXCEPT ![m][o] = @ - units] /\ units \in Nat /\ o \in Outcomes
        /\ UNCHANGED <<marketState, voidReason, winningOutcome, payoutBreakdown, terms,
                       totalPrincipal>>
    BY <1>1, <1>2 DEF ClaimWinnings, phaseVars, tradeVars
  <2> HIDE DEF o, units
  <2>2. \A x \in Outcomes : supply'[n][x] <= supply[n][x]
    BY <1>1, <2>1
  <2> QED
    BY <2>1, <2>2 DEF VerdictKept
<1>3. CASE Refund(m, u)
  <2>1. /\ supply' = [supply EXCEPT ![m] = [o \in Outcomes |-> @[o] - balanceOf[m][o][u]]]
        /\ UNCHANGED <<marketState, voidReason, winningOutcome, payoutBreakdown, terms,
                       totalPrincipal>>
    BY <1>3 DEF Refund, phaseVars, tradeVars, winVars
  <2>2. \A x \in Outcomes : supply'[n][x] <= supply[n][x]
    <3>1. \A x \in Outcomes : balanceOf[m][x][u] \in Nat /\ supply[m][x] \in Nat
      BY <1>1
    <3>2. CASE n = m
      <4>1. \A x \in Outcomes : supply'[m][x] = supply[m][x] - balanceOf[m][x][u]
        BY <1>1, <2>1
      <4> QED
        BY <3>1, <3>2, <4>1
    <3>3. CASE n # m
      BY <1>1, <2>1, <3>3
    <3> QED
      BY <3>2, <3>3
  <2> QED
    BY <2>1, <2>2 DEF VerdictKept
<1>4. CASE ClaimEarlyBird(m, u)
  BY <1>4, UntouchedVerdicts DEF ClaimEarlyBird, phaseVars, tradeVars, shareVars
<1>5. CASE ClaimTimeoutBonus(m, u)
  BY <1>5, UntouchedVerdicts DEF ClaimTimeoutBonus, phaseVars, tradeVars, shareVars, winVars
<1> QED
  BY <1>2, <1>3, <1>4, <1>5 DEF ClaimFromVault

\* Resolution and voiding want an open market; what follows only pays out.
LEMMA SettleKeepsVerdicts ==
    ASSUME ShareInv, Settle, NEW n \in Markets, Terminal(n)
    PROVE  VerdictKept(n)
<1>1. /\ \A o \in Outcomes : supply[n][o] \in Nat
      /\ marketState[n] # "OPEN"
      /\ supply \in [Markets -> [Outcomes -> Nat]]
      /\ balanceOf \in [Markets -> [Outcomes -> [Accounts -> Nat]]]
  BY DEF ShareInv, TypeOK, VaultTypeOK, Terminal
<1>2. ASSUME NEW m \in Markets, NEW o \in Outcomes, Resolve(m, o)
      PROVE  VerdictKept(n)
  <2>1. m # n
    BY <1>1, <1>2 DEF Resolve, ResolveTo, CanResolve
  <2>2. /\ marketState'[n] = marketState[n] /\ winningOutcome'[n] = winningOutcome[n]
        /\ payoutBreakdown'[n] = payoutBreakdown[n]
        /\ UNCHANGED <<voidReason, terms, totalPrincipal, supply>>
    BY <1>2, <2>1
       DEF Resolve, ResolveTo, tradeVars, shareVars, ShareInv, TypeOK, VaultTypeOK
  <2> QED
    BY <1>1, <2>2 DEF VerdictKept
<1>3. ASSUME NEW m \in Markets, VoidMarket(m)
      PROVE  VerdictKept(n)
  <2>1. m # n
    BY <1>1, <1>3
       DEF VoidMarket, ResolveWithoutSupply, CreatorVoid, VoidAfterDeadline, CanResolve
  <2>2. /\ marketState'[n] = marketState[n] /\ voidReason'[n] = voidReason[n]
        /\ UNCHANGED <<winningOutcome, payoutBreakdown, terms, totalPrincipal, supply>>
    BY <1>3, <2>1
       DEF VoidMarket, ResolveWithoutSupply, CreatorVoid, VoidAfterDeadline, Void,
           tradeVars, shareVars, winVars, ShareInv, TypeOK, VaultTypeOK
  <2> QED
    BY <1>1, <2>2 DEF VerdictKept
<1>4. ASSUME NEW m \in Markets,
             SettleBondToHolders(m) \/ SettleBondToCreator(m) \/ SyncExposure(m)
      PROVE  VerdictKept(n)
  BY <1>4, UntouchedVerdicts
     DEF SettleBondToHolders, SettleBondToCreator, SyncExposure, FundTimeoutBonus,
         vaultVars, phaseVars, tradeVars, shareVars, winVars
<1>5. ASSUME NEW m \in Markets, NEW u \in Users, PayHolder(m, u)
      PROVE  VerdictKept(n)
  BY <1>5, ClaimsKeepVerdicts DEF PayHolder
<1>6. ASSUME NEW m \in Markets, NEW u \in Users, NEW o \in Outcomes, BurnLosing(m, u, o)
      PROVE  VerdictKept(n)
  <2> DEFINE units == balanceOf[m][o][u]
  <2>1. /\ supply' = [supply EXCEPT ![m][o] = @ - units] /\ units \in Nat
        /\ UNCHANGED <<marketState, voidReason, winningOutcome, payoutBreakdown, terms,
                       totalPrincipal>>
    BY <1>1, <1>6
       DEF BurnLosing, BurnLosingPosition, Accounts, phaseVars, tradeVars, winVars
  <2> HIDE DEF units
  <2>2. \A x \in Outcomes : supply'[n][x] <= supply[n][x]
    BY <1>1, <2>1
  <2> QED
    BY <2>1, <2>2 DEF VerdictKept
<1> QED
  BY <1>2, <1>3, <1>4, <1>5, <1>6 DEF Settle

\* Every transaction keeps every verdict.
LEMMA StepVerdicts ==
    ASSUME ShareInv, [Next]_vars
    PROVE  \A n \in Markets : Terminal(n) => VerdictKept(n)
<1>1. CASE Governance \/ Withdraw \/ Tick \/ UNCHANGED vars
  <2>1. UNCHANGED vaultVars
    BY <1>1
       DEF Withdraw, WithdrawBond, WithdrawFees, Governance, ConfigureMarketplace,
           ActivateFactory, Deprecate, Reconfigure, RaiseExposureCap, RetireGuard,
           EmergencyPause, EmergencyReset, Tick, vars
  <2> QED
    BY <2>1, UntouchedVerdicts DEF vaultVars, phaseVars, tradeVars, shareVars, winVars
<1> QED
  BY <1>1, TradeKeepsVerdicts, SettleKeepsVerdicts DEF Next

\* A terminal market is final: no later call of anybody reopens it, changes
\* its verdict, split or terms, mints its shares or settles its bond again.
THEOREM TerminalMarketsAreFinal == Spec => TerminalIsFinal
<1>1. EscrowInv => NoBondYet
  BY DEF EscrowInv
<1>2. ShareInv /\ NoBondYet /\ [Next]_vars => [\A m \in Markets : StaysFinal(m)]_vars
  BY StepVerdicts, SettledBondStays DEF VerdictKept, StaysFinal
<1> QED
  BY <1>1, <1>2, InitShareInv, StepShareInv, InitEscrowInv, StepEscrowInv,
     PTL DEF Spec, TerminalIsFinal

-----------------------------------------------------------------------------
(* Fee limits.                                                             *)

\* The rates governance has set and the rates markets copied are within the
\* hard limits.
RatesLimited ==
    /\ config.protocolShareBps <= HardMaxProtocolShareBps
    /\ config.maxCreatorRakeBps <= HardMaxCreatorRakeBps
    /\ \A m \in Markets : /\ params[m].protocolShareBps <= HardMaxProtocolShareBps
                          /\ params[m].creatorRakeBps <= HardMaxCreatorRakeBps

FeeLimitInv == RatesLimited /\ FeesWithinHardLimits

\* A rate of at most a k-th takes at most a k-th.
LEMMA RateTakesAtMost ==
    ASSUME NEW a \in Nat, NEW rate \in Nat, NEW k \in Nat \ {0}, rate * k <= BPS
    PROVE  MulDiv(a, rate, BPS) * k <= a
<1> DEFINE q == MulDiv(a, rate, BPS)
<1>1. BPS \in Nat \ {0}
  BY BpsNat
<1>2. q \in Nat /\ q * BPS <= a * rate
  <2>1. a * rate \in Nat
    OBVIOUS
  <2>2. ASSUME NEW x \in Nat PROVE x \div BPS \in Nat /\ (x \div BPS) * BPS <= x
    BY <1>1 DEF BPS
  <2> QED
    BY <2>1, <2>2 DEF MulDiv
<1> HIDE DEF q
<1>3. SUFFICES ASSUME q * k > a PROVE FALSE
  BY <1>2 DEF q
<1>4. q * k >= a + 1
  BY <1>2, <1>3
<1>5. (q * k) * BPS >= (a + 1) * BPS
  BY <1>1, <1>2, <1>4
<1>6. (q * k) * BPS = (q * BPS) * k
  BY <1>1, <1>2
<1>7. (q * BPS) * k <= (a * rate) * k
  BY <1>1, <1>2
<1>8. (a * rate) * k = a * (rate * k)
  OBVIOUS
<1>9. a * (rate * k) <= a * BPS
  BY <1>1
<1>10. (a + 1) * BPS = a * BPS + BPS
  BY <1>1
<1> QED
  BY <1>1, <1>2, <1>5, <1>6, <1>7, <1>8, <1>9, <1>10

\* The configuration changes by governance calls only.
LEMMA ConfigOperations ==
    ASSUME [Next]_vars
    PROVE  ConfigNext \/ UNCHANGED config
<1>1. CASE Trade
  BY <1>1 DEF Trade, CreateMarket, UpdateBeforeFirstBuy, Buy, SendShares, ReleaseShares
<1>2. CASE Settle
  BY <1>2 DEF Settle, Resolve, VoidMarket, SettleBondToHolders, SettleBondToCreator,
              SyncExposure, PayHolder, BurnLosing
<1>3. CASE Governance \/ Withdraw \/ Tick \/ UNCHANGED vars
  BY <1>3
     DEF Withdraw, WithdrawBond, WithdrawFees, Governance, ConfigureMarketplace,
         ActivateFactory, Deprecate, Reconfigure, RaiseExposureCap, RetireGuard,
         EmergencyPause, EmergencyReset, Tick, vars
<1> QED
  BY <1>1, <1>2, <1>3 DEF Next

\* Setters check the hard limits, and a new market copies rates within them:
\* the configured ones, or the creator's own after the factory's check.
LEMMA StepRatesLimited ==
    ASSUME ShareInv, RatesLimited, [Next]_vars
    PROVE  RatesLimited'
<1>1. config \in Config /\ params \in [Markets -> Snapshot] /\ terms \in [Markets -> Terms]
  BY DEF ShareInv, TypeOK, VaultTypeOK, ConfigTypeOK
<1>2. /\ config'.protocolShareBps <= HardMaxProtocolShareBps
      /\ config'.maxCreatorRakeBps <= HardMaxCreatorRakeBps
  <2>1. ASSUME NEW bps \in ShareOptions,
               \/ SetPlatformRakeShareBps(bps)
               \/ SetEarlyBirdShareBps(bps)
               \/ SetCreatorFeeLimits(bps)
        PROVE  /\ config'.protocolShareBps <= HardMaxProtocolShareBps
               /\ config'.maxCreatorRakeBps <= HardMaxCreatorRakeBps
    BY <1>1, <2>1
       DEF SetPlatformRakeShareBps, SetEarlyBirdShareBps, SetCreatorFeeLimits, RatesLimited,
           Config
  <2>2. ASSUME \/ \E b \in TreasuryOptions : SetProtocolTreasury(b)
               \/ \E fee \in FeeOptions : SetCreationFee(fee)
               \/ \E full, clone \in CapOptionsPerMarket : SetMarketCapLimits(full, clone)
               \/ \E cap \in CapOptionsPerMarket : SetMaxPerUserPrimaryCap(cap)
               \/ UNCHANGED config
        PROVE  /\ config'.protocolShareBps <= HardMaxProtocolShareBps
               /\ config'.maxCreatorRakeBps <= HardMaxCreatorRakeBps
    BY <1>1, <2>2
       DEF SetProtocolTreasury, SetCreationFee, SetMarketCapLimits,
           SetMaxPerUserPrimaryCap, RatesLimited, Config
  <2> QED
    BY <2>1, <2>2, ConfigOperations DEF ConfigNext
<1>3. ASSUME NEW n \in Markets
      PROVE  /\ params'[n].protocolShareBps <= HardMaxProtocolShareBps
             /\ params'[n].creatorRakeBps <= HardMaxCreatorRakeBps
  <2>1. ASSUME NEW m \in Markets, NEW c \in Users, NEW p \in MarketRequest,
               NEW r \in TermsRequest, ValidRequest(p),
               Initialize(m, SnapshotFor(c, p), TermsAt(now, r))
        PROVE  /\ params'[n].protocolShareBps <= HardMaxProtocolShareBps
               /\ params'[n].creatorRakeBps <= HardMaxCreatorRakeBps
    <3> DEFINE s == SnapshotFor(c, p)
    <3>1. /\ p.creatorRakeBps \in Nat /\ p.platformRakeShareBps \in Nat
          /\ config.maxCreatorRakeBps \in Nat /\ config.protocolShareBps \in Nat
      BY <1>1 DEF MarketRequest, Config
    <3>2. /\ p.creatorRakeBps <= config.maxCreatorRakeBps
          /\ p.custom => p.platformRakeShareBps <= 5000
      BY <2>1 DEF ValidRequest
    <3>3. /\ s.protocolShareBps = IF p.custom THEN p.platformRakeShareBps
                                              ELSE config.protocolShareBps
          /\ s.creatorRakeBps = p.creatorRakeBps
      BY DEF SnapshotFor
    <3>4. /\ s.protocolShareBps <= HardMaxProtocolShareBps
          /\ s.creatorRakeBps <= HardMaxCreatorRakeBps
      <4> HIDE DEF s
      <4> QED
        BY <3>1, <3>2, <3>3
           DEF RatesLimited, HardMaxProtocolShareBps, HardMaxCreatorRakeBps
    <3>5. params' = [params EXCEPT ![m] = s]
      BY <2>1 DEF Initialize
    <3> HIDE DEF s
    <3> QED
      BY <1>1, <3>4, <3>5 DEF RatesLimited
  <2>2. CASE UNCHANGED params
    BY <2>2 DEF RatesLimited
  <2> QED
    BY <2>1, <2>2, TermsOperations DEF UpdateTerms
<1> QED
  BY <1>2, <1>3 DEF RatesLimited

\* A market becomes resolved by resolve alone.
LEMMA OnlyResolveResolves ==
    ASSUME ShareInv, [Next]_vars, NEW n \in Markets,
           marketState'[n] = "RESOLVED", marketState[n] # "RESOLVED"
    PROVE  \E o \in Outcomes : Resolve(n, o)
<1>1. marketState \in [Markets -> MarketStates]
  BY DEF ShareInv, TypeOK, VaultTypeOK
<1>2. CASE Trade
  <2>1. ASSUME NEW m \in Markets, NEW c \in Users, NEW p \in MarketRequests,
               NEW r \in TermsRequests, CreateMarket(m, c, p, r)
        PROVE  FALSE
    BY <1>1, <2>1 DEF CreateMarket, Initialize
  <2>2. ASSUME NEW m \in Markets, NEW r \in TermsRequests, UpdateBeforeFirstBuy(m, r)
        PROVE  FALSE
    BY <2>2 DEF UpdateBeforeFirstBuy, UpdateTerms, phaseVars
  <2>3. ASSUME NEW m \in Markets, NEW u \in Users, NEW o \in Outcomes,
               NEW desired \in BuySizes, NEW permit2 \in BOOLEAN,
               Buy(m, u, o, desired, permit2)
        PROVE  FALSE
    BY <2>3 DEF Buy, CompleteBuy, phaseVars
  <2>4. ASSUME NEW m \in Markets, NEW o \in Outcomes, NEW from, NEW to, NEW units,
               SendShares(m, o, from, to, units) \/ ReleaseShares(m, o, to, units)
        PROVE  FALSE
    BY <2>4 DEF SendShares, ReleaseShares, TransferShares, phaseVars
  <2> QED
    BY <1>2, <2>1, <2>2, <2>3, <2>4 DEF Trade
<1>3. ASSUME NEW m \in Markets, NEW o \in Outcomes, Resolve(m, o)
      PROVE  n = m
  BY <1>1, <1>3 DEF Resolve, ResolveTo
<1>4. ASSUME NEW m \in Markets, VoidMarket(m)
      PROVE  FALSE
  BY <1>1, <1>4
     DEF VoidMarket, ResolveWithoutSupply, CreatorVoid, VoidAfterDeadline, Void
<1>5. ASSUME NEW m \in Markets,
             \/ SettleBondToHolders(m) \/ SettleBondToCreator(m) \/ SyncExposure(m)
             \/ \E u \in Users : PayHolder(m, u)
             \/ \E u \in Users, o \in Outcomes : BurnLosing(m, u, o)
      PROVE  FALSE
  BY <1>5
     DEF SettleBondToHolders, SettleBondToCreator, SyncExposure, FundTimeoutBonus,
         PayHolder, ClaimFromVault, ClaimWinnings, ClaimEarlyBird, Refund,
         ClaimTimeoutBonus, BurnLosing, BurnLosingPosition, vaultVars, phaseVars
<1>6. CASE Settle
  BY <1>3, <1>4, <1>5, <1>6 DEF Settle
<1>7. CASE Governance \/ Withdraw \/ Tick \/ UNCHANGED vars
  BY <1>7
     DEF Withdraw, WithdrawBond, WithdrawFees, Governance, ConfigureMarketplace,
         ActivateFactory, Deprecate, Reconfigure, RaiseExposureCap, RetireGuard,
         EmergencyPause, EmergencyReset, Tick, vars, vaultVars, phaseVars
<1> QED
  BY <1>2, <1>6, <1>7 DEF Next

\* The split of a resolved market obeys the limits when it is computed, and
\* neither it nor the principal changes afterwards.
LEMMA StepFeeLimitInv == ShareInv /\ FeeLimitInv /\ [Next]_vars => FeeLimitInv'
<1> SUFFICES ASSUME ShareInv, FeeLimitInv, [Next]_vars PROVE FeeLimitInv'
  OBVIOUS
<1>1. RatesLimited'
  BY StepRatesLimited DEF FeeLimitInv
<1> DEFINE Fair(b, principal) ==
      /\ b.protocolFee + b.creatorFee + b.earlyBirdPool + b.winnerPool = principal
      /\ 10 * b.totalRake <= principal
      /\ 2 * b.protocolFee <= b.totalRake
<1>2. SUFFICES ASSUME NEW n \in Markets, marketState'[n] = "RESOLVED"
               PROVE  Fair(payoutBreakdown'[n], totalPrincipal'[n])
  BY <1>1 DEF FeeLimitInv, FeesWithinHardLimits
<1>3. CASE marketState[n] = "RESOLVED"
  <2>1. payoutBreakdown'[n] = payoutBreakdown[n] /\ totalPrincipal'[n] = totalPrincipal[n]
    BY <1>3, StepVerdicts DEF Terminal, VerdictKept
  <2> QED
    BY <1>3, <2>1 DEF FeeLimitInv, FeesWithinHardLimits
<1>4. CASE marketState[n] # "RESOLVED"
  <2>1. PICK o \in Outcomes : Resolve(n, o)
    BY <1>2, <1>4, OnlyResolveResolves
  <2>2. /\ payoutBreakdown'[n] = PayoutsOf(n) /\ totalPrincipal'[n] = totalPrincipal[n]
    BY <2>1 DEF Resolve, ResolveTo, tradeVars, ShareInv, TypeOK, VaultTypeOK
  <2> DEFINE b == PayoutsOf(n)
             rake == params[n].creatorRakeBps
             share == params[n].protocolShareBps
  <2>3. /\ totalPrincipal[n] \in Nat /\ params[n] \in Snapshot /\ totalScore[n] \in Nat
        /\ rake \in Nat /\ share \in Nat
    BY DEF ShareInv, TypeOK, VaultTypeOK, Snapshot
  <2>4. /\ b \in Breakdown
        /\ b.totalRake = MulDiv(totalPrincipal[n], rake, BPS)
        /\ b.protocolFee = MulDiv(b.totalRake, share, BPS)
        /\ b.protocolFee + b.creatorFee + b.earlyBirdPool + b.winnerPool = totalPrincipal[n]
    BY <2>3, PayoutsSplit DEF PayoutsOf
  <2>5. rake * 10 <= BPS /\ share * 2 <= BPS
    BY <2>3
       DEF FeeLimitInv, RatesLimited, HardMaxCreatorRakeBps, HardMaxProtocolShareBps, BPS
  <2>6. b.totalRake \in Nat /\ b.protocolFee \in Nat
    BY <2>4 DEF Breakdown
  <2> HIDE DEF b, rake, share
  <2>7. b.totalRake * 10 <= totalPrincipal[n]
    BY <2>3, <2>4, <2>5, RateTakesAtMost
  <2>8. b.protocolFee * 2 <= b.totalRake
    BY <2>3, <2>4, <2>5, <2>6, RateTakesAtMost
  <2>9. Fair(b, totalPrincipal[n])
    BY <2>3, <2>4, <2>6, <2>7, <2>8
  <2> QED
    BY <2>2, <2>9 DEF b
<1> QED
  BY <1>3, <1>4

\* Governance starts at the rates of the constructor; no market is resolved.
LEMMA InitFeeLimitInv == Init => FeeLimitInv
  BY DEF Init, ConfigInit, VaultInit, ZeroSnapshot, FeeLimitInv, RatesLimited,
         FeesWithinHardLimits, HardMaxProtocolShareBps, HardMaxCreatorRakeBps

\* The hard fee limits: whatever governance sets and creators ask for, the
\* rake of a resolved market is at most a tenth of its principal, the protocol
\* takes at most half of the rake, and every unit of principal is accounted
\* for exactly once, also when the rates change while markets are open.
THEOREM FeesAreLimited == Spec => []FeesWithinHardLimits
<1>1. FeeLimitInv => FeesWithinHardLimits
  BY DEF FeeLimitInv
<1> QED
  BY <1>1, InitShareInv, StepShareInv, InitFeeLimitInv, StepFeeLimitInv, PTL DEF Spec

-----------------------------------------------------------------------------
(* What a transaction does to the vaults.                                  *)

VaultSteps ==
    \/ \E m \in Markets : \E s, t : Initialize(m, s, t)
    \/ \E m \in Markets : \E t : UpdateTerms(m, t)
    \/ \E m \in Markets, u \in Users, o \in Outcomes, a \in Nat :
          marketState[m] = "OPEN" /\ CompleteBuy(m, u, o, a)
    \/ \E m \in Markets, o \in Outcomes : ResolveTo(m, o)
    \/ \E m \in Markets : \E reason : marketState[m] = "OPEN" /\ Void(m, reason)
    \/ \E m \in Markets : SettleBondToHolders(m)
    \/ \E m \in Markets, u \in Users : ClaimFromVault(m, u)
    \/ \E m \in Markets, u \in Users, o \in Outcomes : BurnLosingPosition(m, u, o)
    \/ \E m \in Markets, o \in Outcomes : \E from, to, units :
          TransferShares(m, o, from, to, units)
    \/ UNCHANGED vaultVars

\* Every transaction is one of these for the vaults.
LEMMA VaultOperations == ShareInv /\ [Next]_vars => VaultSteps
<1> SUFFICES ASSUME ShareInv, [Next]_vars PROVE VaultSteps
  OBVIOUS
<1>1. CASE Trade
  <2>1. ASSUME NEW m \in Markets, NEW c \in Users, NEW p \in MarketRequests,
               NEW r \in TermsRequests, CreateMarket(m, c, p, r)
        PROVE  VaultSteps
    BY <2>1 DEF CreateMarket, VaultSteps
  <2>2. ASSUME NEW m \in Markets, NEW r \in TermsRequests, UpdateBeforeFirstBuy(m, r)
        PROVE  VaultSteps
    BY <2>2 DEF UpdateBeforeFirstBuy, VaultSteps
  <2>3. ASSUME NEW m \in Markets, NEW u \in Users, NEW o \in Outcomes,
               NEW desired \in BuySizes, NEW permit2 \in BOOLEAN,
               Buy(m, u, o, desired, permit2)
        PROVE  VaultSteps
    <3>1. CanBuy(m, u, desired) /\ marketState[m] = "OPEN" /\ desired \in Nat
      BY <2>3, BoundAssumption DEF Buy, CanBuy
    <3>2. Filled(m, u, desired) \in Nat
      BY <3>1, FilledNat DEF ShareInv, TypeOK
    <3> QED
      BY <2>3, <3>1, <3>2 DEF Buy, VaultSteps
  <2>4. ASSUME NEW m \in Markets, NEW o \in Outcomes, NEW from, NEW to, NEW units,
               SendShares(m, o, from, to, units) \/ ReleaseShares(m, o, to, units)
        PROVE  VaultSteps
    BY <2>4 DEF SendShares, ReleaseShares, VaultSteps
  <2> QED
    BY <1>1, <2>1, <2>2, <2>3, <2>4 DEF Trade
<1>2. CASE Settle
  <2>1. ASSUME NEW m \in Markets, NEW o \in Outcomes, Resolve(m, o)
        PROVE  VaultSteps
    BY <2>1 DEF Resolve, VaultSteps
  <2>2. ASSUME NEW m \in Markets, VoidMarket(m)
        PROVE  VaultSteps
    <3>1. marketState[m] = "OPEN" /\ \E reason : Void(m, reason)
      BY <2>2 DEF VoidMarket, ResolveWithoutSupply, CreatorVoid, VoidAfterDeadline, CanResolve
    <3> QED
      BY <3>1 DEF VaultSteps
  <2>3. ASSUME NEW m \in Markets,
               \/ SettleBondToHolders(m)
               \/ \E u \in Users : PayHolder(m, u)
               \/ \E u \in Users, o \in Outcomes : BurnLosing(m, u, o)
        PROVE  VaultSteps
    BY <2>3 DEF PayHolder, BurnLosing, VaultSteps
  <2>4. ASSUME NEW m \in Markets, SettleBondToCreator(m) \/ SyncExposure(m)
        PROVE  VaultSteps
    BY <2>4 DEF SettleBondToCreator, SyncExposure, VaultSteps
  <2> QED
    BY <1>2, <2>1, <2>2, <2>3, <2>4 DEF Settle
<1>3. CASE Governance \/ Withdraw \/ Tick \/ UNCHANGED vars
  <2>1. UNCHANGED vaultVars
    BY <1>3
       DEF Withdraw, WithdrawBond, WithdrawFees, Governance, ConfigureMarketplace,
           ActivateFactory, Deprecate, Reconfigure, RaiseExposureCap, RetireGuard,
           EmergencyPause, EmergencyReset, Tick, vars
  <2> QED
    BY <2>1 DEF VaultSteps
<1> QED
  BY <1>1, <1>2, <1>3 DEF Next

-----------------------------------------------------------------------------
(* Shares and the units they are divided by.                               *)

\* Before a verdict the supply is the principal, per outcome and in total.
UnitsKept(m) ==
    /\ marketState[m] \in {"NONE", "OPEN"} =>
          /\ Total(supply[m], Outcomes) = totalPrincipal[m]
          /\ \A o \in Outcomes : principalByOutcome[m][o] = supply[m][o]
    /\ marketState[m] = "RESOLVED" =>
          remainingWinningUnits[m] = supply[m][winningOutcome[m]]
    /\ marketState[m] = "VOIDED" => Total(supply[m], Outcomes) = remainingRefund[m]

UnitsInv == \A m \in Markets : UnitsKept(m)

\* A step that touches none of it in a market.
LEMMA UntouchedUnits ==
    ASSUME UnitsInv, NEW n \in Markets,
           marketState'[n] = marketState[n], supply'[n] = supply[n],
           totalPrincipal'[n] = totalPrincipal[n],
           principalByOutcome'[n] = principalByOutcome[n],
           remainingWinningUnits'[n] = remainingWinningUnits[n],
           winningOutcome'[n] = winningOutcome[n],
           remainingRefund'[n] = remainingRefund[n]
    PROVE  UnitsKept(n)'
  BY DEF UnitsInv, UnitsKept

\* A purchase adds to the principal, to the outcome's principal and to its
\* supply alike.
LEMMA BuyUnits ==
    ASSUME ShareInv, UnitsInv, NEW m \in Markets, NEW u \in Users, NEW o \in Outcomes,
           NEW a \in Nat, marketState[m] = "OPEN", CompleteBuy(m, u, o, a)
    PROVE  UnitsInv'
<1>1. /\ totalPrincipal \in [Markets -> Nat] /\ supply \in [Markets -> [Outcomes -> Nat]]
      /\ principalByOutcome \in [Markets -> [Outcomes -> Nat]]
  BY DEF ShareInv, TypeOK, VaultTypeOK
<1>2. /\ totalPrincipal' = [totalPrincipal EXCEPT ![m] = @ + a]
      /\ supply' = [supply EXCEPT ![m][o] = @ + a]
      /\ principalByOutcome' = [principalByOutcome EXCEPT ![m][o] = @ + a]
      /\ UNCHANGED <<marketState, remainingWinningUnits, winningOutcome, remainingRefund>>
  BY DEF CompleteBuy, phaseVars, winVars
<1>3. UnitsKept(m)'
  <2>1. /\ supply[m] \in [Outcomes -> Nat] /\ supply'[m][o] = supply[m][o] + a
        /\ supply'[m] \in [Outcomes -> Nat]
        /\ \A x \in Outcomes \ {o} : supply'[m][x] = supply[m][x]
    BY <1>1, <1>2
  <2>2. /\ Total(supply[m], Outcomes) \in Nat
        /\ Total(supply'[m], Outcomes) = Total(supply[m], Outcomes) - supply[m][o] + supply'[m][o]
    BY <2>1, AddressAssumption, TotalNat, TotalUpdate
  <2>3. Total(supply'[m], Outcomes) = Total(supply[m], Outcomes) + a
    BY <2>1, <2>2
  <2>4. totalPrincipal'[m] = totalPrincipal[m] + a
    BY <1>1, <1>2
  <2>5. \A x \in Outcomes : principalByOutcome'[m][x] = supply'[m][x]
    BY <1>1, <1>2, <2>1 DEF UnitsInv, UnitsKept
  <2> QED
    BY <1>2, <2>3, <2>4, <2>5 DEF UnitsInv, UnitsKept
<1>4. \A n \in Markets \ {m} : UnitsKept(n)'
  BY <1>1, <1>2, UntouchedUnits
<1> QED
  BY <1>3, <1>4 DEF UnitsInv

\* claimWinningsFor burns the units it takes out of the denominator.
LEMMA ClaimWinningsUnits ==
    ASSUME ShareInv, UnitsInv, NEW m \in Markets, NEW u \in Users, ClaimWinnings(m, u)
    PROVE  UnitsInv'
<1> DEFINE o == winningOutcome[m]
           units == balanceOf[m][o][u]
<1>1. /\ remainingWinningUnits \in [Markets -> Nat]
      /\ supply \in [Markets -> [Outcomes -> Nat]] /\ o \in Outcomes
  BY DEF ShareInv, TypeOK, VaultTypeOK
<1>2. /\ marketState[m] = "RESOLVED"
      /\ remainingWinningUnits' = [remainingWinningUnits EXCEPT ![m] = @ - units]
      /\ supply' = [supply EXCEPT ![m][o] = @ - units]
      /\ UNCHANGED <<marketState, totalPrincipal, principalByOutcome, winningOutcome,
                     remainingRefund>>
  BY DEF ClaimWinnings, phaseVars, tradeVars
<1> HIDE DEF units
<1>3. remainingWinningUnits'[m] = supply'[m][o]
  BY <1>1, <1>2 DEF UnitsInv, UnitsKept
<1>4. UnitsKept(m)'
  BY <1>2, <1>3 DEF UnitsKept
<1>5. \A n \in Markets \ {m} : UnitsKept(n)'
  BY <1>1, <1>2, UntouchedUnits
<1> QED
  BY <1>4, <1>5 DEF UnitsInv

\* burnLosingPosition cannot reach the winning outcome's supply.
LEMMA BurnLosingUnits ==
    ASSUME ShareInv, UnitsInv, NEW m \in Markets, NEW u \in Users, NEW o \in Outcomes,
           BurnLosingPosition(m, u, o)
    PROVE  UnitsInv'
<1> DEFINE units == balanceOf[m][o][u]
<1>1. supply \in [Markets -> [Outcomes -> Nat]] /\ winningOutcome[m] \in Outcomes
  BY DEF ShareInv, TypeOK, VaultTypeOK
<1>2. /\ marketState[m] = "RESOLVED" /\ o # winningOutcome[m]
      /\ supply' = [supply EXCEPT ![m][o] = @ - units]
      /\ UNCHANGED <<marketState, totalPrincipal, principalByOutcome, winningOutcome,
                     remainingWinningUnits, remainingRefund>>
  BY DEF BurnLosingPosition, phaseVars, tradeVars, winVars
<1> HIDE DEF units
<1>3. supply'[m][winningOutcome[m]] = supply[m][winningOutcome[m]]
  BY <1>1, <1>2
<1>4. UnitsKept(m)'
  BY <1>2, <1>3 DEF UnitsInv, UnitsKept
<1>5. \A n \in Markets \ {m} : UnitsKept(n)'
  BY <1>1, <1>2, UntouchedUnits
<1> QED
  BY <1>4, <1>5 DEF UnitsInv

\* refundFor pays for exactly the shares it burns.
LEMMA RefundUnits ==
    ASSUME ShareInv, UnitsInv, NEW m \in Markets, NEW u \in Users, Refund(m, u)
    PROVE  UnitsInv'
<1> DEFINE amount == Total(HeldBy(m, u), Outcomes)
<1>1. /\ remainingRefund \in [Markets -> Nat] /\ supply \in [Markets -> [Outcomes -> Nat]]
      /\ supply' \in [Markets -> [Outcomes -> Nat]] /\ u \in Accounts
      /\ balanceOf \in [Markets -> [Outcomes -> [Accounts -> Nat]]]
  BY RefundShares DEF ShareInv, TypeOK, VaultTypeOK, Accounts
<1>2. /\ marketState[m] = "VOIDED"
      /\ remainingRefund' = [remainingRefund EXCEPT ![m] = @ - amount]
      /\ supply' = [supply EXCEPT ![m] = [o \in Outcomes |-> @[o] - balanceOf[m][o][u]]]
      /\ UNCHANGED <<marketState, totalPrincipal, principalByOutcome, winningOutcome,
                     remainingWinningUnits>>
  BY DEF Refund, phaseVars, tradeVars, winVars
<1>3. \A o \in Outcomes : /\ supply'[m][o] \in Nat /\ HeldBy(m, u)[o] \in Nat
                          /\ supply[m][o] = supply'[m][o] + HeldBy(m, u)[o]
  BY <1>1, <1>2 DEF HeldBy
<1>4. /\ Total(supply'[m], Outcomes) \in Nat /\ amount \in Nat
      /\ Total(supply[m], Outcomes) = Total(supply'[m], Outcomes) + amount
  BY <1>3, AddressAssumption, TotalNat, TotalPlus
<1>5. remainingRefund[m] = Total(supply[m], Outcomes)
  BY <1>2 DEF UnitsInv, UnitsKept
<1> HIDE DEF amount
<1>6. remainingRefund'[m] = Total(supply'[m], Outcomes)
  BY <1>1, <1>2, <1>4, <1>5
<1>7. UnitsKept(m)'
  BY <1>2, <1>6 DEF UnitsKept
<1>8. \A n \in Markets \ {m} : UnitsKept(n)'
  BY <1>1, <1>2, UntouchedUnits
<1> QED
  BY <1>7, <1>8 DEF UnitsInv

\* Every transaction keeps the units in step with the shares.
LEMMA StepUnitsInv == ShareInv /\ UnitsInv /\ [Next]_vars => UnitsInv'
<1> SUFFICES ASSUME ShareInv, UnitsInv, [Next]_vars PROVE UnitsInv'
  OBVIOUS
<1> USE DEF ShareInv, TypeOK, VaultTypeOK
<1>1. ASSUME UNCHANGED <<marketState, supply, totalPrincipal, principalByOutcome,
                         remainingWinningUnits, winningOutcome, remainingRefund>>
      PROVE  UnitsInv'
  BY <1>1, UntouchedUnits DEF UnitsInv
<1>2. ASSUME NEW m \in Markets, NEW s, NEW t, Initialize(m, s, t)
      PROVE  UnitsInv'
  <2>1. /\ marketState[m] = "NONE" /\ marketState' = [marketState EXCEPT ![m] = "OPEN"]
        /\ UNCHANGED <<supply, totalPrincipal, principalByOutcome, remainingWinningUnits,
                       winningOutcome, remainingRefund>>
    BY <1>2 DEF Initialize, tradeVars, shareVars, winVars
  <2>2. UnitsKept(m)'
    BY <2>1 DEF UnitsInv, UnitsKept
  <2>3. \A n \in Markets \ {m} : UnitsKept(n)'
    BY <2>1, UntouchedUnits
  <2> QED
    BY <2>2, <2>3 DEF UnitsInv
<1>3. ASSUME NEW m \in Markets, NEW t, UpdateTerms(m, t)
      PROVE  UnitsInv'
  BY <1>1, <1>3 DEF UpdateTerms, phaseVars, tradeVars, shareVars, winVars
<1>4. ASSUME NEW m \in Markets, NEW o \in Outcomes, ResolveTo(m, o)
      PROVE  UnitsInv'
  <2>1. /\ marketState' = [marketState EXCEPT ![m] = "RESOLVED"]
        /\ winningOutcome' = [winningOutcome EXCEPT ![m] = o]
        /\ remainingWinningUnits' = [remainingWinningUnits EXCEPT ![m] = supply[m][o]]
        /\ UNCHANGED <<supply, totalPrincipal, principalByOutcome, remainingRefund>>
    BY <1>4 DEF ResolveTo, tradeVars, shareVars
  <2>2. UnitsKept(m)'
    BY <2>1 DEF UnitsKept
  <2>3. \A n \in Markets \ {m} : UnitsKept(n)'
    BY <2>1, UntouchedUnits
  <2> QED
    BY <2>2, <2>3 DEF UnitsInv
<1>5. ASSUME NEW m \in Markets, NEW reason, marketState[m] = "OPEN", Void(m, reason)
      PROVE  UnitsInv'
  <2>1. /\ marketState' = [marketState EXCEPT ![m] = "VOIDED"]
        /\ remainingRefund' = [remainingRefund EXCEPT ![m] = totalPrincipal[m]]
        /\ UNCHANGED <<supply, totalPrincipal, principalByOutcome, remainingWinningUnits,
                       winningOutcome>>
    BY <1>5 DEF Void, tradeVars, shareVars, winVars
  <2>2. UnitsKept(m)'
    BY <1>5, <2>1 DEF UnitsInv, UnitsKept
  <2>3. \A n \in Markets \ {m} : UnitsKept(n)'
    BY <2>1, UntouchedUnits
  <2> QED
    BY <2>2, <2>3 DEF UnitsInv
<1>6. ASSUME NEW m \in Markets, NEW u \in Users, ClaimFromVault(m, u)
      PROVE  UnitsInv'
  <2>1. CASE ClaimEarlyBird(m, u) \/ ClaimTimeoutBonus(m, u)
    BY <1>1, <2>1
       DEF ClaimEarlyBird, ClaimTimeoutBonus, phaseVars, tradeVars, shareVars, winVars
  <2> QED
    BY <1>6, <2>1, ClaimWinningsUnits, RefundUnits DEF ClaimFromVault
<1>7. ASSUME \/ \E m \in Markets : SettleBondToHolders(m)
             \/ UNCHANGED vaultVars
      PROVE  UnitsInv'
  BY <1>1, <1>7
     DEF SettleBondToHolders, FundTimeoutBonus, vaultVars, phaseVars, tradeVars,
         shareVars, winVars
<1>8. ASSUME NEW m \in Markets, NEW o \in Outcomes, NEW from, NEW to, NEW units,
             TransferShares(m, o, from, to, units)
      PROVE  UnitsInv'
  BY <1>1, <1>8 DEF TransferShares, phaseVars, tradeVars, winVars
<1> QED
  BY <1>2, <1>3, <1>4, <1>5, <1>6, <1>7, <1>8, BuyUnits, BurnLosingUnits, VaultOperations
     DEF VaultSteps

-----------------------------------------------------------------------------
(* Early-bird scores.                                                      *)

ScoreKept(m) ==
    Total(earlyBirdScore[m], Users) =
        IF marketState[m] = "RESOLVED" THEN remainingScore[m] ELSE totalScore[m]

\* A step that touches no score and does not resolve.
LEMMA UntouchedScores ==
    ASSUME ScoresMatch, NEW n \in Markets,
           marketState'[n] = "RESOLVED" <=> marketState[n] = "RESOLVED",
           earlyBirdScore'[n] = earlyBirdScore[n], totalScore'[n] = totalScore[n],
           remainingScore'[n] = remainingScore[n]
    PROVE  ScoreKept(n)'
  BY DEF ScoresMatch, ScoreKept

\* The weight of a purchase is a natural number, and so is its score.
LEMMA ScoreNat ==
    ASSUME ShareInv, NEW m \in Markets, NEW a \in Nat
    PROVE  a * EarlyBirdWeight(EarlyBirdEnabled(m), params[m].createdAt,
                               terms[m].closeAt, now) \in Nat
<1>1. params[m].createdAt \in Nat /\ terms[m].closeAt \in Nat /\ now \in Nat
  BY DEF ShareInv, TypeOK, VaultTypeOK, Snapshot, Terms
<1>2. EarlyBirdWeight(EarlyBirdEnabled(m), params[m].createdAt, terms[m].closeAt, now) \in 0..3
  BY <1>1, WeightType
<1> HIDE DEF EarlyBirdWeight
<1> QED
  BY <1>2

\* A purchase adds its score to the buyer's and to the total.
LEMMA BuyScores ==
    ASSUME ShareInv, ScoresMatch, NEW m \in Markets, NEW u \in Users, NEW o \in Outcomes,
           NEW a \in Nat, marketState[m] = "OPEN", CompleteBuy(m, u, o, a)
    PROVE  ScoresMatch'
<1> DEFINE score == a * EarlyBirdWeight(EarlyBirdEnabled(m), params[m].createdAt,
                                        terms[m].closeAt, now)
<1>1. score \in Nat
  BY ScoreNat
<1>2. /\ earlyBirdScore \in [Markets -> [Users -> Nat]] /\ totalScore \in [Markets -> Nat]
  BY DEF ShareInv, TypeOK, VaultTypeOK
<1>3. /\ totalScore' = [totalScore EXCEPT ![m] = @ + score]
      /\ earlyBirdScore' = [earlyBirdScore EXCEPT ![m][u] = @ + score]
      /\ UNCHANGED <<marketState, remainingScore>>
  BY DEF CompleteBuy, phaseVars, winVars
<1> HIDE DEF score
<1>4. ScoreKept(m)'
  <2>1. /\ earlyBirdScore[m] \in [Users -> Nat] /\ earlyBirdScore'[m] \in [Users -> Nat]
        /\ earlyBirdScore'[m][u] = earlyBirdScore[m][u] + score
        /\ \A x \in Users \ {u} : earlyBirdScore'[m][x] = earlyBirdScore[m][x]
    BY <1>1, <1>2, <1>3
  <2>2. /\ Total(earlyBirdScore[m], Users) \in Nat
        /\ Total(earlyBirdScore'[m], Users)
             = Total(earlyBirdScore[m], Users) - earlyBirdScore[m][u] + earlyBirdScore'[m][u]
    BY <2>1, AddressAssumption, TotalNat, TotalUpdate
  <2>3. Total(earlyBirdScore'[m], Users) = Total(earlyBirdScore[m], Users) + score
    BY <1>1, <2>1, <2>2
  <2>4. totalScore'[m] = totalScore[m] + score
    BY <1>1, <1>2, <1>3
  <2>5. marketState'[m] # "RESOLVED" /\ Total(earlyBirdScore[m], Users) = totalScore[m]
    BY <1>3 DEF ScoresMatch
  <2> QED
    BY <2>3, <2>4, <2>5 DEF ScoreKept
<1>5. \A n \in Markets \ {m} : ScoreKept(n)'
  BY <1>2, <1>3, UntouchedScores
<1> QED
  BY <1>4, <1>5 DEF ScoresMatch, ScoreKept

\* A claim clears the score it takes out of the denominator.
LEMMA ClaimScores ==
    ASSUME ShareInv, ScoresMatch, NEW m \in Markets, NEW u \in Users, ClaimEarlyBird(m, u)
    PROVE  ScoresMatch'
<1> DEFINE score == earlyBirdScore[m][u]
<1>1. /\ earlyBirdScore \in [Markets -> [Users -> Nat]] /\ remainingScore \in [Markets -> Nat]
      /\ score \in Nat
  BY DEF ShareInv, TypeOK, VaultTypeOK
<1>2. /\ earlyBirdScore' = [earlyBirdScore EXCEPT ![m][u] = 0]
      /\ remainingScore' = [remainingScore EXCEPT ![m] = @ - score]
      /\ marketState[m] = "RESOLVED" /\ UNCHANGED <<marketState, totalScore>>
  BY DEF ClaimEarlyBird, phaseVars, tradeVars
<1>3. ScoreKept(m)'
  <2>1. /\ earlyBirdScore[m] \in [Users -> Nat] /\ earlyBirdScore'[m] \in [Users -> Nat]
        /\ earlyBirdScore'[m][u] = 0
        /\ \A x \in Users \ {u} : earlyBirdScore'[m][x] = earlyBirdScore[m][x]
    BY <1>1, <1>2
  <2>2. /\ Total(earlyBirdScore[m], Users) \in Nat
        /\ Total(earlyBirdScore'[m], Users)
             = Total(earlyBirdScore[m], Users) - earlyBirdScore[m][u] + earlyBirdScore'[m][u]
    BY <2>1, AddressAssumption, TotalNat, TotalUpdate
  <2>3. Total(earlyBirdScore'[m], Users) = Total(earlyBirdScore[m], Users) - score
    BY <1>1, <2>1, <2>2
  <2>4. remainingScore'[m] = remainingScore[m] - score
    BY <1>1, <1>2
  <2>5. marketState'[m] = "RESOLVED" /\ Total(earlyBirdScore[m], Users) = remainingScore[m]
    BY <1>2 DEF ScoresMatch
  <2> QED
    BY <2>3, <2>4, <2>5 DEF ScoreKept
<1> HIDE DEF score
<1>4. \A n \in Markets \ {m} : ScoreKept(n)'
  BY <1>1, <1>2, UntouchedScores
<1> QED
  BY <1>3, <1>4 DEF ScoresMatch, ScoreKept

\* Every transaction keeps the scores and their sum in step.
LEMMA StepScores == ShareInv /\ ScoresMatch /\ [Next]_vars => ScoresMatch'
<1> SUFFICES ASSUME ShareInv, ScoresMatch, [Next]_vars PROVE ScoresMatch'
  OBVIOUS
<1> USE DEF ShareInv, TypeOK, VaultTypeOK
<1>1. ASSUME \A n \in Markets : ScoreKept(n)'
      PROVE  ScoresMatch'
  BY <1>1 DEF ScoresMatch, ScoreKept
<1>2. ASSUME NEW m \in Markets, NEW s, NEW t, Initialize(m, s, t)
      PROVE  ScoresMatch'
  <2>1. /\ marketState[m] = "NONE" /\ marketState' = [marketState EXCEPT ![m] = "OPEN"]
        /\ UNCHANGED <<earlyBirdScore, totalScore, remainingScore>>
    BY <1>2 DEF Initialize, tradeVars, winVars
  <2> QED
    BY <1>1, <2>1, UntouchedScores
<1>3. ASSUME UNCHANGED <<marketState, earlyBirdScore, totalScore, remainingScore>>
      PROVE  ScoresMatch'
  BY <1>1, <1>3, UntouchedScores
<1>4. ASSUME NEW m \in Markets, NEW o \in Outcomes, ResolveTo(m, o)
      PROVE  ScoresMatch'
  <2>1. /\ marketState[m] = "OPEN" /\ marketState' = [marketState EXCEPT ![m] = "RESOLVED"]
        /\ remainingScore' = [remainingScore EXCEPT ![m] = totalScore[m]]
        /\ UNCHANGED <<earlyBirdScore, totalScore>>
    BY <1>4 DEF ResolveTo, CanResolve, tradeVars
  <2>2. ScoreKept(m)'
    BY <2>1 DEF ScoresMatch, ScoreKept
  <2>3. \A n \in Markets \ {m} : ScoreKept(n)'
    BY <2>1, UntouchedScores
  <2> QED
    BY <1>1, <2>2, <2>3
<1>5. ASSUME NEW m \in Markets, NEW reason, marketState[m] = "OPEN", Void(m, reason)
      PROVE  ScoresMatch'
  <2>1. /\ marketState' = [marketState EXCEPT ![m] = "VOIDED"]
        /\ UNCHANGED <<earlyBirdScore, totalScore, remainingScore>>
    BY <1>5 DEF Void, tradeVars, winVars
  <2> QED
    BY <1>1, <1>5, <2>1, UntouchedScores
<1>6. ASSUME NEW m \in Markets, NEW u \in Users, ClaimFromVault(m, u)
      PROVE  ScoresMatch'
  <2>1. CASE ClaimWinnings(m, u) \/ Refund(m, u) \/ ClaimTimeoutBonus(m, u)
    BY <1>3, <2>1
       DEF ClaimWinnings, Refund, ClaimTimeoutBonus, phaseVars, tradeVars, winVars
  <2> QED
    BY <1>6, <2>1, ClaimScores DEF ClaimFromVault
<1>7. ASSUME \/ \E m \in Markets : SettleBondToHolders(m)
             \/ \E m \in Markets : \E t : UpdateTerms(m, t)
             \/ UNCHANGED vaultVars
      PROVE  ScoresMatch'
  BY <1>3, <1>7
     DEF SettleBondToHolders, FundTimeoutBonus, UpdateTerms, vaultVars, phaseVars,
         tradeVars, winVars
<1>8. ASSUME NEW m \in Markets, NEW o \in Outcomes, NEW from, NEW to, NEW units,
             TransferShares(m, o, from, to, units)
      PROVE  ScoresMatch'
  BY <1>3, <1>8 DEF TransferShares, phaseVars, tradeVars, winVars
<1>9. ASSUME NEW m \in Markets, NEW u \in Users, NEW o \in Outcomes,
             BurnLosingPosition(m, u, o)
      PROVE  ScoresMatch'
  BY <1>3, <1>9 DEF BurnLosingPosition, phaseVars, tradeVars, winVars
<1> QED
  BY <1>2, <1>4, <1>5, <1>6, <1>7, <1>8, <1>9, BuyScores, VaultOperations DEF VaultSteps

-----------------------------------------------------------------------------
(* The timeout bonus.                                                      *)

\* Refunds record units only in markets that timed out, and only those are
\* given a bonus, once.
BonusKept(m) ==
    /\ voidReason[m] = "TIMEOUT" => marketState[m] = "VOIDED"
    /\ voidReason[m] # "TIMEOUT" => \A u \in Users : timeoutBonusUnits[m][u] = 0
    /\ bonusFunded[m] => voidReason[m] = "TIMEOUT"
    /\ voidReason[m] = "TIMEOUT" =>
          Total(timeoutBonusUnits[m], Users) + remainingRefund[m] =
              IF bonusFunded[m] THEN remainingBonusUnits[m] ELSE totalPrincipal[m]

BonusInv == \A m \in Markets : BonusKept(m)

\* A step that touches none of it in a market.
LEMMA UntouchedBonus ==
    ASSUME BonusInv, NEW n \in Markets,
           marketState[n] # "VOIDED" \/ marketState'[n] = marketState[n],
           voidReason'[n] = voidReason[n],
           timeoutBonusUnits'[n] = timeoutBonusUnits[n], bonusFunded'[n] = bonusFunded[n],
           remainingRefund'[n] = remainingRefund[n],
           remainingBonusUnits'[n] = remainingBonusUnits[n],
           marketState[n] = "VOIDED" => totalPrincipal'[n] = totalPrincipal[n]
    PROVE  BonusKept(n)'
  BY DEF BonusInv, BonusKept

\* _void: all principal is still to be refunded and no unit is recorded yet.
LEMMA VoidBonus ==
    ASSUME ShareInv, BonusInv, NEW m \in Markets, NEW reason, marketState[m] = "OPEN",
           Void(m, reason)
    PROVE  BonusInv'
<1>1. /\ marketState \in [Markets -> MarketStates] /\ voidReason \in [Markets -> VoidReasons]
      /\ remainingRefund \in [Markets -> Nat] /\ totalPrincipal \in [Markets -> Nat]
      /\ timeoutBonusUnits \in [Markets -> [Users -> Nat]]
  BY DEF ShareInv, TypeOK, VaultTypeOK
<1>2. /\ marketState' = [marketState EXCEPT ![m] = "VOIDED"]
      /\ voidReason' = [voidReason EXCEPT ![m] = reason]
      /\ remainingRefund' = [remainingRefund EXCEPT ![m] = totalPrincipal[m]]
      /\ UNCHANGED <<timeoutBonusUnits, bonusFunded, remainingBonusUnits, totalPrincipal>>
  BY DEF Void, tradeVars, bonusVars
<1>3. ~bonusFunded[m] /\ \A u \in Users : timeoutBonusUnits[m][u] = 0
  BY DEF BonusInv, BonusKept
<1>4. Total(timeoutBonusUnits[m], Users) = 0
  <2>1. timeoutBonusUnits[m] = [u \in Users |-> 0]
    BY <1>1, <1>3
  <2> QED
    BY <2>1, AddressAssumption, TotalZero
<1>5. BonusKept(m)'
  BY <1>1, <1>2, <1>3, <1>4 DEF BonusKept
<1>6. \A n \in Markets \ {m} : BonusKept(n)'
  BY <1>1, <1>2, UntouchedBonus
<1> QED
  BY <1>5, <1>6 DEF BonusInv

\* refundFor of a timed-out market turns principal to refund into units.
LEMMA RefundBonus ==
    ASSUME ShareInv, BonusInv, NEW m \in Markets, NEW u \in Users, Refund(m, u)
    PROVE  BonusInv'
<1> DEFINE amount == Total(HeldBy(m, u), Outcomes)
<1>1. /\ remainingRefund \in [Markets -> Nat]
      /\ timeoutBonusUnits \in [Markets -> [Users -> Nat]]
  BY DEF ShareInv, TypeOK, VaultTypeOK
<1>2. /\ amount \in 1..remainingRefund[m] /\ marketState[m] = "VOIDED"
      /\ remainingRefund' = [remainingRefund EXCEPT ![m] = @ - amount]
      /\ timeoutBonusUnits' =
            IF voidReason[m] = "TIMEOUT"
              THEN [timeoutBonusUnits EXCEPT ![m][u] = @ + amount]
              ELSE timeoutBonusUnits
      /\ UNCHANGED <<marketState, voidReason, bonusFunded, remainingBonusUnits,
                     totalPrincipal>>
  BY DEF Refund, phaseVars, tradeVars, bonusVars
<1> HIDE DEF amount
<1>3. amount \in Nat
  BY <1>1, <1>2
<1>4. CASE voidReason[m] = "TIMEOUT"
  <2>1. /\ timeoutBonusUnits[m] \in [Users -> Nat] /\ timeoutBonusUnits'[m] \in [Users -> Nat]
        /\ timeoutBonusUnits'[m][u] = timeoutBonusUnits[m][u] + amount
        /\ \A x \in Users \ {u} : timeoutBonusUnits'[m][x] = timeoutBonusUnits[m][x]
    BY <1>1, <1>2, <1>3, <1>4
  <2>2. /\ Total(timeoutBonusUnits[m], Users) \in Nat
        /\ Total(timeoutBonusUnits'[m], Users)
             = Total(timeoutBonusUnits[m], Users) - timeoutBonusUnits[m][u]
                 + timeoutBonusUnits'[m][u]
    BY <2>1, AddressAssumption, TotalNat, TotalUpdate
  <2>3. Total(timeoutBonusUnits'[m], Users) = Total(timeoutBonusUnits[m], Users) + amount
    BY <1>3, <2>1, <2>2
  <2>4. remainingRefund'[m] = remainingRefund[m] - amount /\ remainingRefund[m] \in Nat
    BY <1>1, <1>2
  <2>5. Total(timeoutBonusUnits'[m], Users) + remainingRefund'[m]
          = Total(timeoutBonusUnits[m], Users) + remainingRefund[m]
    BY <1>3, <2>2, <2>3, <2>4
  <2>6. BonusKept(m)'
    BY <1>2, <1>4, <2>5 DEF BonusInv, BonusKept
  <2>7. \A n \in Markets \ {m} : BonusKept(n)'
    BY <1>1, <1>2, <1>4, UntouchedBonus
  <2> QED
    BY <2>6, <2>7 DEF BonusInv
<1>5. CASE voidReason[m] # "TIMEOUT"
  <2>1. BonusKept(m)'
    BY <1>2, <1>5 DEF BonusInv, BonusKept
  <2>2. \A n \in Markets \ {m} : BonusKept(n)'
    BY <1>1, <1>2, <1>5, UntouchedBonus
  <2> QED
    BY <2>1, <2>2 DEF BonusInv
<1> QED
  BY <1>4, <1>5

\* claimTimeoutBonusFor clears the units it takes out of the denominator.
LEMMA ClaimBonusUnits ==
    ASSUME ShareInv, BonusInv, NEW m \in Markets, NEW u \in Users, ClaimTimeoutBonus(m, u)
    PROVE  BonusInv'
<1> DEFINE units == timeoutBonusUnits[m][u]
<1>1. /\ remainingRefund \in [Markets -> Nat] /\ remainingBonusUnits \in [Markets -> Nat]
      /\ timeoutBonusUnits \in [Markets -> [Users -> Nat]] /\ units \in Nat
  BY DEF ShareInv, TypeOK, VaultTypeOK
<1>2. /\ bonusFunded[m]
      /\ timeoutBonusUnits' = [timeoutBonusUnits EXCEPT ![m][u] = 0]
      /\ remainingBonusUnits' = [remainingBonusUnits EXCEPT ![m] = @ - units]
      /\ UNCHANGED <<marketState, voidReason, bonusFunded, remainingRefund, totalPrincipal>>
  BY DEF ClaimTimeoutBonus, phaseVars, tradeVars
<1>3. /\ timeoutBonusUnits[m] \in [Users -> Nat] /\ timeoutBonusUnits'[m] \in [Users -> Nat]
      /\ timeoutBonusUnits'[m][u] = 0
      /\ \A x \in Users \ {u} : timeoutBonusUnits'[m][x] = timeoutBonusUnits[m][x]
  BY <1>1, <1>2
<1>4. /\ Total(timeoutBonusUnits[m], Users) \in Nat
      /\ Total(timeoutBonusUnits'[m], Users)
           = Total(timeoutBonusUnits[m], Users) - timeoutBonusUnits[m][u]
               + timeoutBonusUnits'[m][u]
  BY <1>3, AddressAssumption, TotalNat, TotalUpdate
<1>5. Total(timeoutBonusUnits'[m], Users) = Total(timeoutBonusUnits[m], Users) - units
  BY <1>1, <1>3, <1>4
<1> HIDE DEF units
<1>6. /\ remainingBonusUnits'[m] = remainingBonusUnits[m] - units
      /\ remainingRefund'[m] = remainingRefund[m]
      /\ remainingBonusUnits[m] \in Nat /\ remainingRefund[m] \in Nat
  BY <1>1, <1>2
<1>7. BonusKept(m)'
  <2>1. /\ voidReason[m] = "TIMEOUT" /\ marketState[m] = "VOIDED"
        /\ Total(timeoutBonusUnits[m], Users) + remainingRefund[m] = remainingBonusUnits[m]
    BY <1>2 DEF BonusInv, BonusKept
  <2>2. Total(timeoutBonusUnits'[m], Users) + remainingRefund'[m] = remainingBonusUnits'[m]
    BY <1>1, <1>4, <1>5, <1>6, <2>1
  <2> QED
    BY <1>2, <2>1, <2>2 DEF BonusKept
<1>8. \A n \in Markets \ {m} : BonusKept(n)'
  BY <1>1, <1>2, UntouchedBonus
<1> QED
  BY <1>7, <1>8 DEF BonusInv

\* Every transaction keeps the bonus units in step, whichever of refund and
\* settleBond comes first.
LEMMA StepBonusInv == ShareInv /\ BonusInv /\ [Next]_vars => BonusInv'
<1> SUFFICES ASSUME ShareInv, BonusInv, [Next]_vars PROVE BonusInv'
  OBVIOUS
<1> USE DEF ShareInv, TypeOK, VaultTypeOK
<1>1. ASSUME UNCHANGED <<marketState, voidReason, timeoutBonusUnits, bonusFunded,
                         remainingRefund, remainingBonusUnits, totalPrincipal>>
      PROVE  BonusInv'
  BY <1>1, UntouchedBonus DEF BonusInv
<1>2. ASSUME NEW m \in Markets, NEW s, NEW t, Initialize(m, s, t)
      PROVE  BonusInv'
  <2>1. /\ marketState[m] = "NONE" /\ marketState' = [marketState EXCEPT ![m] = "OPEN"]
        /\ UNCHANGED <<voidReason, timeoutBonusUnits, bonusFunded, remainingRefund,
                       remainingBonusUnits, totalPrincipal>>
    BY <1>2 DEF Initialize, tradeVars, bonusVars
  <2> QED
    BY <2>1, UntouchedBonus DEF BonusInv
<1>3. ASSUME NEW m \in Markets, NEW u \in Users, NEW o \in Outcomes, NEW a \in Nat,
             marketState[m] = "OPEN", CompleteBuy(m, u, o, a)
      PROVE  BonusInv'
  <2>1. /\ totalPrincipal' = [totalPrincipal EXCEPT ![m] = @ + a]
        /\ UNCHANGED <<marketState, voidReason, timeoutBonusUnits, bonusFunded,
                       remainingRefund, remainingBonusUnits>>
    BY <1>3 DEF CompleteBuy, phaseVars, bonusVars
  <2> QED
    BY <1>3, <2>1, UntouchedBonus DEF BonusInv
<1>4. ASSUME NEW m \in Markets, NEW o \in Outcomes, ResolveTo(m, o)
      PROVE  BonusInv'
  <2>1. /\ marketState[m] = "OPEN" /\ marketState' = [marketState EXCEPT ![m] = "RESOLVED"]
        /\ UNCHANGED <<voidReason, timeoutBonusUnits, bonusFunded, remainingRefund,
                       remainingBonusUnits, totalPrincipal>>
    BY <1>4 DEF ResolveTo, CanResolve, tradeVars, bonusVars
  <2> QED
    BY <2>1, UntouchedBonus DEF BonusInv
<1>5. ASSUME NEW m \in Markets, SettleBondToHolders(m)
      PROVE  BonusInv'
  <2>1. /\ marketState[m] = "VOIDED" /\ voidReason[m] = "TIMEOUT" /\ ~bonusFunded[m]
        /\ bonusFunded' = [bonusFunded EXCEPT ![m] = TRUE]
        /\ remainingBonusUnits' = [remainingBonusUnits EXCEPT ![m] = totalPrincipal[m]]
        /\ UNCHANGED <<marketState, voidReason, timeoutBonusUnits, remainingRefund,
                       totalPrincipal>>
    BY <1>5 DEF SettleBondToHolders, FundTimeoutBonus, phaseVars, tradeVars
  <2>2. BonusKept(m)'
    BY <2>1 DEF BonusInv, BonusKept
  <2>3. \A n \in Markets \ {m} : BonusKept(n)'
    BY <2>1, UntouchedBonus
  <2> QED
    BY <2>2, <2>3 DEF BonusInv
<1>6. ASSUME NEW m \in Markets, NEW u \in Users, ClaimFromVault(m, u)
      PROVE  BonusInv'
  <2>1. CASE ClaimWinnings(m, u) \/ ClaimEarlyBird(m, u)
    BY <1>1, <2>1 DEF ClaimWinnings, ClaimEarlyBird, phaseVars, tradeVars, bonusVars
  <2> QED
    BY <1>6, <2>1, RefundBonus, ClaimBonusUnits DEF ClaimFromVault
<1>7. ASSUME \/ \E m \in Markets : \E t : UpdateTerms(m, t)
             \/ UNCHANGED vaultVars
      PROVE  BonusInv'
  BY <1>1, <1>7 DEF UpdateTerms, vaultVars, phaseVars, tradeVars, bonusVars
<1>8. ASSUME NEW m \in Markets, NEW o \in Outcomes, NEW from, NEW to, NEW units,
             TransferShares(m, o, from, to, units)
      PROVE  BonusInv'
  BY <1>1, <1>8 DEF TransferShares, phaseVars, tradeVars, bonusVars
<1>9. ASSUME NEW m \in Markets, NEW u \in Users, NEW o \in Outcomes,
             BurnLosingPosition(m, u, o)
      PROVE  BonusInv'
  BY <1>1, <1>9 DEF BurnLosingPosition, phaseVars, tradeVars, bonusVars
<1> QED
  BY <1>2, <1>3, <1>4, <1>5, <1>6, <1>7, <1>8, <1>9, VoidBonus, VaultOperations
     DEF VaultSteps

EntitlementInv == UnitsInv /\ ScoresMatch /\ BonusInv

\* At the start nobody is entitled to anything.
LEMMA InitEntitlementInv == Init => EntitlementInv
<1> SUFFICES ASSUME Init PROVE EntitlementInv
  OBVIOUS
<1>1. VaultInit
  BY DEF Init
<1>2. UnitsInv
  <2>1. SUFFICES ASSUME NEW m \in Markets PROVE UnitsKept(m)
    BY DEF UnitsInv
  <2>2. supply[m] = [o \in Outcomes |-> 0] /\ principalByOutcome[m] = [o \in Outcomes |-> 0]
        /\ totalPrincipal[m] = 0 /\ marketState[m] = "NONE"
    BY <1>1 DEF VaultInit
  <2>3. Total(supply[m], Outcomes) = 0
    BY <2>2, AddressAssumption, TotalZero
  <2> QED
    BY <2>2, <2>3 DEF UnitsKept
<1>3. ScoresMatch
  <2>1. SUFFICES ASSUME NEW m \in Markets PROVE ScoreKept(m)
    BY DEF ScoresMatch, ScoreKept
  <2>2. /\ earlyBirdScore[m] = [u \in Users |-> 0]
        /\ totalScore[m] = 0 /\ marketState[m] = "NONE"
    BY <1>1 DEF VaultInit
  <2>3. Total(earlyBirdScore[m], Users) = 0
    BY <2>2, AddressAssumption, TotalZero
  <2> QED
    BY <2>2, <2>3 DEF ScoreKept
<1>4. BonusInv
  BY <1>1 DEF VaultInit, BonusInv, BonusKept
<1> QED
  BY <1>2, <1>3, <1>4 DEF EntitlementInv

\* The three together.
LEMMA StepEntitlementInv == ShareInv /\ EntitlementInv /\ [Next]_vars => EntitlementInv'
  BY StepUnitsInv, StepScores, StepBonusInv DEF EntitlementInv

\* Entitlements: the units each pool is divided by are exactly the shares,
\* scores and refunded units that can still be presented, so no claim can
\* find its denominator too small and none is left that nobody holds.
THEOREM EntitlementsAreCounted == Spec => []EntitlementsMatch
<1>1. EntitlementInv => EntitlementsMatch
  BY DEF EntitlementInv, UnitsInv, UnitsKept, BonusInv, BonusKept, EntitlementsMatch,
         UnitsMatchShares, BonusUnitsMatch
<1> QED
  BY <1>1, InitShareInv, StepShareInv, InitEntitlementInv, StepEntitlementInv, PTL DEF Spec

-----------------------------------------------------------------------------
(* The draw-down of a pool.                                                *)

\* One claim takes no more than is there, leaves the rate of the pool at or
\* above W / P, and the last unit takes the rest of the pool.
LEMMA DrawDown ==
    ASSUME NEW units \in Nat, NEW rem \in Nat, NEW pool \in Nat, NEW P \in Nat, NEW W \in Nat,
           CanConsume(units, rem), rem * W <= pool * P
    PROVE  LET paid == ConsumePool(units, rem, pool) IN
           /\ paid \in Nat /\ paid <= pool
           /\ (rem - units) * W <= (pool - paid) * P
           /\ rem - units = 0 => pool - paid = 0
<1> DEFINE paid == ConsumePool(units, rem, pool)
<1>1. rem \in Nat \ {0} /\ units # 0 /\ units <= rem
  BY DEF CanConsume
<1>2. CASE units = rem
  <2>1. paid = pool /\ rem - units = 0 /\ pool - paid = 0
    BY <1>2 DEF ConsumePool
  <2> QED
    BY <2>1
<1>3. CASE units # rem
  <2>1. units * pool \in Nat /\ paid = (units * pool) \div rem
    BY <1>3 DEF ConsumePool, MulDiv
  <2>2. paid \in Nat /\ paid * rem <= units * pool
    BY <1>1, <2>1, Floor
  <2> HIDE DEF paid
  <2>3. units * pool <= rem * pool /\ rem * pool = pool * rem
    BY <1>1, Scale
  <2>4. paid <= pool
    BY <1>1, <2>1, <2>2, <2>3, Cancel
  <2> DEFINE left == pool - paid
             rest == rem - units
  <2>5. left \in Nat /\ rest \in Nat /\ rest # 0
    BY <1>1, <1>3, <2>2, <2>4
  <2>6. pool * rest = pool * rem - units * pool /\ left * rem = pool * rem - paid * rem
    BY <1>1, <2>2
  <2>7. pool * rest <= left * rem
    BY <1>1, <2>1, <2>2, <2>6
  <2> HIDE DEF left, rest
  <2>8. (pool * rest) * P <= (left * rem) * P
    BY <2>5, <2>7, Scale, Reorder
  <2>9. (rem * W) * rest <= (pool * P) * rest
    BY <2>5, Scale, Reorder
  <2>10. /\ (rem * W) * rest = (rest * W) * rem
         /\ (pool * P) * rest = (pool * rest) * P
         /\ (left * rem) * P = (left * P) * rem
    <3>1. (rem * W) * rest = (rest * W) * rem
      BY <2>5
    <3> QED
      BY <2>5, <3>1, Reorder
  <2>11. (rest * W) * rem <= (left * P) * rem
    <3>1. /\ (rest * W) * rem \in Nat /\ (pool * rest) * P \in Nat /\ (left * P) * rem \in Nat
      BY <2>5, Reorder
    <3> QED
      BY <2>8, <2>9, <2>10, <3>1
  <2>12. rest * W <= left * P
    BY <1>1, <2>5, <2>11, Cancel, Reorder
  <2> QED
    BY <2>2, <2>4, <2>5, <2>12 DEF left, rest, paid
<1> QED
  BY <1>2, <1>3

\* What one claim is paid is at least its floor share W / P of the units.
LEMMA PaidShare ==
    ASSUME NEW units \in Nat, NEW rem \in Nat, NEW pool \in Nat,
           NEW P \in Nat \ {0}, NEW W \in Nat,
           CanConsume(units, rem), rem * W <= pool * P
    PROVE  MulDiv(units, W, P) <= ConsumePool(units, rem, pool)
<1> DEFINE share == MulDiv(units, W, P)
<1>1. rem \in Nat \ {0} /\ units <= rem
  BY DEF CanConsume
<1>2. share \in Nat /\ share * P <= units * W
  <2>1. units * W \in Nat
    OBVIOUS
  <2> QED
    BY <2>1, Floor DEF MulDiv
<1> HIDE DEF share
<1>3. CASE units = rem
  <2>1. share * P <= pool * P
    <3>1. share * P \in Nat /\ units * W \in Nat /\ pool * P \in Nat
      BY <1>2
    <3> QED
      BY <1>2, <1>3, <3>1
  <2> QED
    BY <1>2, <1>3, <2>1, Cancel DEF ConsumePool, share
<1>4. CASE units # rem
  <2>1. units * pool \in Nat /\ ConsumePool(units, rem, pool) = (units * pool) \div rem
    BY <1>4 DEF ConsumePool, MulDiv
  <2>2. (share * P) * rem <= (units * W) * rem
    BY <1>1, <1>2, Scale, Reorder
  <2>3. (rem * W) * units <= (pool * P) * units
    BY Scale, Reorder
  <2>4. /\ (units * W) * rem = (rem * W) * units
        /\ (pool * P) * units = (units * pool) * P
        /\ (share * P) * rem = (share * rem) * P
    <3>1. (units * W) * rem = (rem * W) * units
      OBVIOUS
    <3>2. (pool * P) * units = (units * pool) * P
      OBVIOUS
    <3> QED
      BY <1>2, <3>1, <3>2, Reorder
  <2>5. (share * rem) * P <= (units * pool) * P
    <3>1. /\ (share * rem) * P \in Nat /\ (rem * W) * units \in Nat /\ (units * pool) * P \in Nat
      BY <1>2, Reorder
    <3> QED
      BY <2>2, <2>3, <2>4, <3>1
  <2>6. share * rem <= units * pool
    BY <1>2, <2>1, <2>5, Cancel, Reorder
  <2> QED
    BY <1>1, <1>2, <2>1, <2>6, Floor DEF share
<1> QED
  BY <1>3, <1>4

\* A pool of which rem units are left, when it began as W for P units.
PoolKept(rem, pool, P, W) == rem * W <= pool * P /\ (rem = 0 => pool = 0)

\* The rate of the winners' pool, of the early-bird pool and of the timeout
\* bonus; the winners' pool has units to begin with, and a bonus comes from
\* a bond that stays settled.
DrawKept(m) ==
    /\ marketState[m] = "RESOLVED" =>
          /\ principalByOutcome[m][winningOutcome[m]] # 0
          /\ PoolKept(remainingWinningUnits[m], remainingWinnerPool[m],
                      principalByOutcome[m][winningOutcome[m]], payoutBreakdown[m].winnerPool)
          /\ PoolKept(remainingScore[m], remainingEarlyBirdPool[m],
                      totalScore[m], payoutBreakdown[m].earlyBirdPool)
    /\ bonusFunded[m] =>
          /\ bondOf[m].settled
          /\ PoolKept(remainingBonusUnits[m], remainingBonusPool[m],
                      totalPrincipal[m], bondOf[m].amount)

DrawInv == \A m \in Markets : DrawKept(m)

\* What the pools of market n depend on, the bond apart.
PoolsUntouched(n) ==
    /\ marketState'[n] = marketState[n]
    /\ winningOutcome'[n] = winningOutcome[n]
    /\ payoutBreakdown'[n] = payoutBreakdown[n]
    /\ principalByOutcome'[n] = principalByOutcome[n]
    /\ remainingWinningUnits'[n] = remainingWinningUnits[n]
    /\ remainingWinnerPool'[n] = remainingWinnerPool[n]
    /\ totalScore'[n] = totalScore[n] /\ remainingScore'[n] = remainingScore[n]
    /\ remainingEarlyBirdPool'[n] = remainingEarlyBirdPool[n]
    /\ bonusFunded'[n] = bonusFunded[n] /\ totalPrincipal'[n] = totalPrincipal[n]
    /\ remainingBonusUnits'[n] = remainingBonusUnits[n]
    /\ remainingBonusPool'[n] = remainingBonusPool[n]

\* A step that touches none of it in a market.
LEMMA UntouchedDraw ==
    ASSUME DrawInv, NEW n \in Markets, PoolsUntouched(n),
           bondOf[n].settled => bondOf'[n] = bondOf[n]
    PROVE  DrawKept(n)'
  BY DEF DrawInv, DrawKept, PoolKept, PoolsUntouched

\* A market that is neither resolved nor given a bonus has no pool yet.
LEMMA NoPoolYet ==
    ASSUME NEW n \in Markets, marketState'[n] # "RESOLVED", ~bonusFunded'[n]
    PROVE  DrawKept(n)'
  BY DEF DrawKept

\* An open market has been given no bonus.
LEMMA NoBonusYet ==
    ASSUME BonusInv, NEW m \in Markets, marketState[m] \in {"NONE", "OPEN"}
    PROVE  ~bonusFunded[m]
  BY DEF BonusInv, BonusKept

\* resolve: every winning unit and every score is still to be paid.
LEMMA ResolveDraw ==
    ASSUME ShareInv, UnitsInv, BonusInv, NEW m \in Markets, NEW o \in Outcomes,
           ResolveTo(m, o)
    PROVE  DrawKept(m)'
<1> USE DEF ShareInv, TypeOK, VaultTypeOK
<1> DEFINE b == PayoutsOf(m)
<1>1. /\ marketState[m] = "OPEN" /\ supply[m][o] # 0
      /\ marketState'[m] = "RESOLVED" /\ winningOutcome'[m] = o /\ payoutBreakdown'[m] = b
      /\ remainingWinningUnits'[m] = supply[m][o] /\ remainingWinnerPool'[m] = b.winnerPool
      /\ remainingScore'[m] = totalScore[m] /\ remainingEarlyBirdPool'[m] = b.earlyBirdPool
      /\ UNCHANGED <<principalByOutcome, totalScore, bonusFunded>>
  BY DEF ResolveTo, CanResolve, tradeVars, bonusVars
<1>2. principalByOutcome[m][o] = supply[m][o] /\ ~bonusFunded[m]
  BY <1>1, NoBonusYet DEF UnitsInv, UnitsKept
<1>3. b \in Breakdown /\ (totalScore[m] = 0 => b.earlyBirdPool = 0)
  <2>1. totalPrincipal[m] \in Nat /\ params[m] \in Snapshot /\ totalScore[m] \in Nat
    OBVIOUS
  <2>2. b \in Breakdown
    BY <2>1, PayoutsSplit DEF PayoutsOf
  <2>3. totalScore[m] = 0 => b.earlyBirdPool = 0
    BY DEF PayoutsOf, Payouts
  <2> QED
    BY <2>2, <2>3
<1> HIDE DEF b
<1>4. /\ b.winnerPool \in Nat /\ b.earlyBirdPool \in Nat
      /\ supply[m][o] \in Nat /\ totalScore[m] \in Nat
  BY <1>3 DEF Breakdown
<1>5. /\ PoolKept(supply[m][o], b.winnerPool, supply[m][o], b.winnerPool)
      /\ PoolKept(totalScore[m], b.earlyBirdPool, totalScore[m], b.earlyBirdPool)
  BY <1>1, <1>3, <1>4 DEF PoolKept
<1> QED
  BY <1>1, <1>2, <1>5 DEF DrawKept

\* settleBond of a timed-out market: nobody has drawn on the bonus yet.
LEMMA FundDraw ==
    ASSUME ShareInv, BonusInv, NEW m \in Markets, SettleBondToHolders(m)
    PROVE  DrawKept(m)'
<1> USE DEF ShareInv, TypeOK, VaultTypeOK, EscrowTypeOK, Bond
<1> DEFINE amount == bondOf[m].amount
<1>1. /\ marketState[m] = "VOIDED" /\ totalPrincipal[m] # 0
      /\ bondOf'[m].settled /\ bondOf'[m].amount = amount
      /\ remainingBonusUnits'[m] = totalPrincipal[m] /\ remainingBonusPool'[m] = amount
      /\ UNCHANGED <<marketState, totalPrincipal>>
  BY DEF SettleBondToHolders, TimedOutWithPrincipal, SlashBondToMarket, MarkSettled,
         FundTimeoutBonus, phaseVars, tradeVars
<1>2. amount \in Nat /\ totalPrincipal[m] \in Nat
  OBVIOUS
<1> HIDE DEF amount
<1>3. PoolKept(totalPrincipal[m], amount, totalPrincipal[m], amount)
  BY <1>1, <1>2 DEF PoolKept
<1> QED
  BY <1>1, <1>3 DEF DrawKept

\* One claim on a pool that is kept leaves it kept.
LEMMA ClaimKeepsPool ==
    ASSUME NEW units \in Nat, NEW rem \in Nat, NEW pool \in Nat, NEW P \in Nat, NEW W \in Nat,
           CanConsume(units, rem), PoolKept(rem, pool, P, W)
    PROVE  PoolKept(rem - units, pool - ConsumePool(units, rem, pool), P, W)
  BY DrawDown DEF PoolKept

\* claimWinningsFor draws on the winners' pool alone.
LEMMA ClaimWinningsDraw ==
    ASSUME ShareInv, DrawInv, NEW m \in Markets, NEW u \in Users, ClaimWinnings(m, u),
           bondOf'[m] = bondOf[m] \/ ~bondOf[m].settled
    PROVE  DrawKept(m)'
<1> USE DEF ShareInv, TypeOK, VaultTypeOK
<1> DEFINE o     == winningOutcome[m]
           units == balanceOf[m][o][u]
           rem   == remainingWinningUnits[m]
           pool  == remainingWinnerPool[m]
           paid  == ConsumePool(units, rem, pool)
           P     == principalByOutcome[m][o]
           W     == payoutBreakdown[m].winnerPool
<1>1. /\ marketState[m] = "RESOLVED" /\ CanConsume(units, rem)
      /\ remainingWinningUnits'[m] = rem - units /\ remainingWinnerPool'[m] = pool - paid
      /\ UNCHANGED <<marketState, winningOutcome, principalByOutcome, payoutBreakdown,
                     totalScore, totalPrincipal, remainingScore, remainingEarlyBirdPool,
                     bonusFunded, remainingBonusUnits, remainingBonusPool>>
  BY DEF ClaimWinnings, phaseVars, tradeVars, bonusVars
<1>2. units \in Nat /\ rem \in Nat /\ pool \in Nat /\ P \in Nat /\ W \in Nat
  BY DEF Accounts, Breakdown
<1>3. DrawKept(m)
  BY DEF DrawInv
<1>4. PoolKept(rem, pool, P, W)
  BY <1>1, <1>3 DEF DrawKept
<1>5. PoolKept(rem - units, pool - paid, P, W)
  <2> HIDE DEF units, rem, pool, P, W
  <2> QED
    BY <1>1, <1>2, <1>4, ClaimKeepsPool
<1> HIDE DEF units, paid
<1> QED
  BY <1>1, <1>3, <1>5 DEF DrawKept

\* claimEarlyBirdFor draws on the early-bird pool alone.
LEMMA ClaimEarlyBirdDraw ==
    ASSUME ShareInv, DrawInv, NEW m \in Markets, NEW u \in Users, ClaimEarlyBird(m, u),
           bondOf'[m] = bondOf[m] \/ ~bondOf[m].settled
    PROVE  DrawKept(m)'
<1> USE DEF ShareInv, TypeOK, VaultTypeOK
<1> DEFINE score == earlyBirdScore[m][u]
           rem   == remainingScore[m]
           pool  == remainingEarlyBirdPool[m]
           paid  == ConsumePool(score, rem, pool)
           P     == totalScore[m]
           W     == payoutBreakdown[m].earlyBirdPool
<1>1. /\ marketState[m] = "RESOLVED" /\ CanConsume(score, rem)
      /\ remainingScore'[m] = rem - score /\ remainingEarlyBirdPool'[m] = pool - paid
      /\ UNCHANGED <<marketState, winningOutcome, principalByOutcome, payoutBreakdown,
                     totalScore, totalPrincipal, remainingWinningUnits, remainingWinnerPool,
                     bonusFunded, remainingBonusUnits, remainingBonusPool>>
  BY DEF ClaimEarlyBird, phaseVars, tradeVars, bonusVars
<1>2. score \in Nat /\ rem \in Nat /\ pool \in Nat /\ P \in Nat /\ W \in Nat
  BY DEF Breakdown
<1>3. DrawKept(m)
  BY DEF DrawInv
<1>4. PoolKept(rem, pool, P, W)
  BY <1>1, <1>3 DEF DrawKept
<1>5. PoolKept(rem - score, pool - paid, P, W)
  <2> HIDE DEF score, rem, pool, P, W
  <2> QED
    BY <1>1, <1>2, <1>4, ClaimKeepsPool
<1> HIDE DEF score, paid
<1> QED
  BY <1>1, <1>3, <1>5 DEF DrawKept

\* claimTimeoutBonusFor draws on the bonus alone.
LEMMA ClaimBonusDraw ==
    ASSUME ShareInv, DrawInv, BonusInv, NEW m \in Markets, NEW u \in Users,
           ClaimTimeoutBonus(m, u), bondOf'[m] = bondOf[m] \/ ~bondOf[m].settled
    PROVE  DrawKept(m)'
<1> USE DEF ShareInv, TypeOK, VaultTypeOK
<1> DEFINE units == timeoutBonusUnits[m][u]
           rem   == remainingBonusUnits[m]
           pool  == remainingBonusPool[m]
           paid  == ConsumePool(units, rem, pool)
           P     == totalPrincipal[m]
           W     == bondOf[m].amount
<1>1. /\ bonusFunded[m] /\ CanConsume(units, rem)
      /\ remainingBonusUnits'[m] = rem - units /\ remainingBonusPool'[m] = pool - paid
      /\ UNCHANGED <<marketState, totalPrincipal, bonusFunded>>
  BY DEF ClaimTimeoutBonus, phaseVars, tradeVars
<1>2. units \in Nat /\ rem \in Nat /\ pool \in Nat /\ P \in Nat /\ W \in Nat
  BY DEF EscrowTypeOK, Bond
<1>3. marketState[m] # "RESOLVED"
  BY <1>1 DEF BonusInv, BonusKept
<1>4. bondOf[m].settled /\ bondOf'[m] = bondOf[m] /\ PoolKept(rem, pool, P, W)
  BY <1>1 DEF DrawInv, DrawKept
<1>5. PoolKept(rem - units, pool - paid, P, W)
  <2> HIDE DEF units, rem, pool, P, W
  <2> QED
    BY <1>1, <1>2, <1>4, ClaimKeepsPool
<1> HIDE DEF units, paid
<1> QED
  BY <1>1, <1>3, <1>4, <1>5 DEF DrawKept

\* Each operation of a vault leaves the pools of every other vault alone.
LEMMA OtherPoolsUntouched ==
    ASSUME ShareInv, NEW m \in Markets, NEW n \in Markets \ {m},
           \/ \E s, t : Initialize(m, s, t)
           \/ \E u \in Users, o \in Outcomes, a \in Nat : CompleteBuy(m, u, o, a)
           \/ \E o \in Outcomes : ResolveTo(m, o)
           \/ \E reason : Void(m, reason)
           \/ SettleBondToHolders(m)
           \/ \E u \in Users : ClaimFromVault(m, u)
    PROVE  PoolsUntouched(n)
<1> USE DEF ShareInv, TypeOK, VaultTypeOK, PoolsUntouched
<1>1. CASE (\E s, t : Initialize(m, s, t)) \/ (\E reason : Void(m, reason))
  BY <1>1 DEF Initialize, Void, tradeVars, winVars, bonusVars
<1>2. CASE \E u \in Users, o \in Outcomes, a \in Nat : CompleteBuy(m, u, o, a)
  BY <1>2 DEF CompleteBuy, phaseVars, winVars, bonusVars
<1>3. CASE \E o \in Outcomes : ResolveTo(m, o)
  BY <1>3 DEF ResolveTo, tradeVars, bonusVars
<1>4. CASE SettleBondToHolders(m)
  BY <1>4 DEF SettleBondToHolders, FundTimeoutBonus, phaseVars, tradeVars, winVars
<1>5. CASE \E u \in Users : ClaimFromVault(m, u)
  <2>1. PICK u \in Users : ClaimFromVault(m, u)
    BY <1>5
  <2>2. CASE ClaimWinnings(m, u)
    BY <2>2 DEF ClaimWinnings, phaseVars, tradeVars, bonusVars
  <2>3. CASE ClaimEarlyBird(m, u)
    BY <2>3 DEF ClaimEarlyBird, phaseVars, tradeVars, bonusVars
  <2>4. CASE Refund(m, u)
    BY <2>4 DEF Refund, phaseVars, tradeVars, winVars, bonusVars
  <2>5. CASE ClaimTimeoutBonus(m, u)
    BY <2>5 DEF ClaimTimeoutBonus, phaseVars, tradeVars, winVars
  <2> QED
    BY <2>1, <2>2, <2>3, <2>4, <2>5 DEF ClaimFromVault
<1> QED
  BY <1>1, <1>2, <1>3, <1>4, <1>5

\* Every transaction keeps the rate of every pool.
LEMMA StepDrawInv ==
    ASSUME ShareInv, NoBondYet, EntitlementInv, DrawInv, [Next]_vars
    PROVE  DrawInv'
<1> USE DEF ShareInv, TypeOK, VaultTypeOK
<1>1. /\ \A n \in Markets : bondOf[n].settled => bondOf'[n] = bondOf[n]
      /\ UnitsInv /\ BonusInv
  BY SettledBondStays DEF EntitlementInv
<1>2. ASSUME \A n \in Markets : PoolsUntouched(n)
      PROVE  DrawInv'
  BY <1>1, <1>2, UntouchedDraw DEF DrawInv
<1>3. ASSUME NEW m \in Markets, DrawKept(m)', \A n \in Markets \ {m} : PoolsUntouched(n)
      PROVE  DrawInv'
  BY <1>1, <1>3, UntouchedDraw DEF DrawInv
<1>4. ASSUME NEW m \in Markets, NEW s, NEW t, Initialize(m, s, t)
      PROVE  DrawInv'
  <2>1. DrawKept(m)'
    BY <1>1, <1>4, NoBonusYet, NoPoolYet DEF Initialize, bonusVars
  <2> QED
    BY <1>3, <1>4, <2>1, OtherPoolsUntouched
<1>5. ASSUME NEW m \in Markets, NEW u \in Users, NEW o \in Outcomes, NEW a \in Nat,
             marketState[m] = "OPEN", CompleteBuy(m, u, o, a)
      PROVE  DrawInv'
  <2>1. DrawKept(m)'
    BY <1>1, <1>5, NoBonusYet, NoPoolYet DEF CompleteBuy, phaseVars, bonusVars
  <2> QED
    BY <1>3, <1>5, <2>1, OtherPoolsUntouched
<1>6. ASSUME NEW m \in Markets, NEW o \in Outcomes, ResolveTo(m, o)
      PROVE  DrawInv'
  BY <1>1, <1>3, <1>6, ResolveDraw, OtherPoolsUntouched
<1>7. ASSUME NEW m \in Markets, NEW reason, marketState[m] = "OPEN", Void(m, reason)
      PROVE  DrawInv'
  <2>1. DrawKept(m)'
    BY <1>1, <1>7, NoBonusYet, NoPoolYet DEF Void, bonusVars
  <2> QED
    BY <1>3, <1>7, <2>1, OtherPoolsUntouched
<1>8. ASSUME NEW m \in Markets, SettleBondToHolders(m)
      PROVE  DrawInv'
  BY <1>1, <1>3, <1>8, FundDraw, OtherPoolsUntouched
<1>9. ASSUME NEW m \in Markets, NEW u \in Users, ClaimFromVault(m, u)
      PROVE  DrawInv'
  <2>1. CASE Refund(m, u)
    <3>1. PoolsUntouched(m)
      BY <2>1 DEF Refund, phaseVars, tradeVars, winVars, bonusVars, PoolsUntouched
    <3> QED
      BY <1>2, <1>9, <3>1, OtherPoolsUntouched
  <2>2. CASE ~Refund(m, u)
    <3>1. DrawKept(m)'
      BY <1>1, <1>9, <2>2, ClaimWinningsDraw, ClaimEarlyBirdDraw, ClaimBonusDraw
         DEF ClaimFromVault
    <3> QED
      BY <1>3, <1>9, <3>1, OtherPoolsUntouched
  <2> QED
    BY <2>1, <2>2
<1>10. ASSUME NEW m \in Markets,
              \/ \E t : UpdateTerms(m, t)
              \/ \E u \in Users, o \in Outcomes : BurnLosingPosition(m, u, o)
              \/ \E o \in Outcomes : \E from, to, units : TransferShares(m, o, from, to, units)
       PROVE  DrawInv'
  <2>1. UNCHANGED <<phaseVars, tradeVars, winVars, bonusVars>>
    BY <1>10 DEF UpdateTerms, BurnLosingPosition, TransferShares
  <2> QED
    BY <1>2, <2>1 DEF phaseVars, tradeVars, winVars, bonusVars, PoolsUntouched
<1>11. CASE UNCHANGED vaultVars
  BY <1>2, <1>11
     DEF vaultVars, phaseVars, tradeVars, winVars, bonusVars, PoolsUntouched
<1> QED
  BY <1>4, <1>5, <1>6, <1>7, <1>8, <1>9, <1>10, <1>11, VaultOperations DEF VaultSteps

\* Before the first market there is no pool.
LEMMA InitDrawInv == Init => DrawInv
  BY DEF Init, VaultInit, DrawInv, DrawKept

\* What is left of a pool per remaining unit never falls below the rate the
\* pool began with, in whatever order holders claim, and a pool is empty
\* when its units are: the rounding of _consumeRemainingPool favours those
\* who come later.
THEOREM DrawDownIsFair == Spec => []DrawDownFair
<1>1. ShareInv /\ DrawInv => DrawDownFair
  BY DEF ShareInv, TypeOK, VaultTypeOK, EscrowTypeOK, Bond, Breakdown, DrawInv, DrawKept,
         PoolKept, DrawDownFair
<1>2. EscrowInv => NoBondYet
  BY DEF EscrowInv
<1> QED
  BY <1>1, <1>2, InitShareInv, StepShareInv, InitEscrowInv, StepEscrowInv,
     InitEntitlementInv, StepEntitlementInv, InitDrawInv, StepDrawInv, PTL DEF Spec

\* A payout of claimWinningsFor is at least the floor share.
LEMMA ShareIsPaid ==
    ASSUME ShareInv, DrawInv, NEW m \in Markets, NEW u \in Users, ClaimWinnings(m, u)
    PROVE  cash[m] - cash'[m] >=
              MulDiv(balanceOf[m][winningOutcome[m]][u], payoutBreakdown[m].winnerPool,
                     principalByOutcome[m][winningOutcome[m]])
<1> USE DEF ShareInv, TypeOK, VaultTypeOK
<1> DEFINE o     == winningOutcome[m]
           units == balanceOf[m][o][u]
           rem   == remainingWinningUnits[m]
           pool  == remainingWinnerPool[m]
           paid  == ConsumePool(units, rem, pool)
           P     == principalByOutcome[m][o]
           W     == payoutBreakdown[m].winnerPool
<1>1. /\ marketState[m] = "RESOLVED" /\ CanConsume(units, rem)
      /\ cash' = [cash EXCEPT ![m] = @ - paid]
  BY DEF ClaimWinnings
<1>2. units \in Nat /\ rem \in Nat /\ pool \in Nat /\ P \in Nat /\ W \in Nat /\ cash[m] \in Nat
  BY DEF Accounts, Breakdown
<1>3. P # 0 /\ rem * W <= pool * P
  BY <1>1 DEF DrawInv, DrawKept, PoolKept
<1>4. paid \in Nat /\ MulDiv(units, W, P) \in Nat /\ MulDiv(units, W, P) <= paid
  <2> HIDE DEF units, rem, pool, P, W
  <2> QED
    BY <1>1, <1>2, <1>3, PaidShare, DrawDown, MulDivNat
<1> HIDE DEF units, paid, P, W
<1>5. cash[m] - cash'[m] = paid
  BY <1>1, <1>2, <1>4
<1> QED
  BY <1>4, <1>5 DEF units, P, W

\* Winners are paid at least their floor share of the pool the resolution
\* fixed, however many claims, burns and transfers come first.
THEOREM WinnersArePaid == Spec => WinnerPaidProRata
<1>1. ShareInv /\ DrawInv /\ [Next]_vars =>
        [\A m \in Markets, u \in Users :
            ClaimWinnings(m, u) =>
               cash[m] - cash'[m] >=
                  MulDiv(balanceOf[m][winningOutcome[m]][u], payoutBreakdown[m].winnerPool,
                         principalByOutcome[m][winningOutcome[m]])]_vars
  BY ShareIsPaid
<1>2. EscrowInv => NoBondYet
  BY DEF EscrowInv
<1> QED
  BY <1>1, <1>2, InitShareInv, StepShareInv, InitEscrowInv, StepEscrowInv,
     InitEntitlementInv, StepEntitlementInv, InitDrawInv, StepDrawInv,
     PTL DEF Spec, WinnerPaidProRata

-----------------------------------------------------------------------------
(***************************************************************************)
(* The guards of the claims.  Whether a claim is ENABLED is for TLC to say *)
(* (ExitAlwaysOpen); that what the claim checks and subtracts always works *)
(* out follows from the ledgers above.                                     *)
(***************************************************************************)

\* A claim on units of a pool with rem units left passes the check of
\* _consumeRemainingPool, and neither the pool nor the balance of the vault
\* is too small for what it pays.
CanPay(m, units, rem, pool) ==
    LET paid == ConsumePool(units, rem, pool) IN
    CanConsume(units, rem) /\ pool >= paid /\ cash[m] >= paid

ClaimsCovered ==
    \A m \in Markets, u \in Users :
        /\ marketState[m] = "RESOLVED" /\ balanceOf[m][winningOutcome[m]][u] # 0
              => CanPay(m, balanceOf[m][winningOutcome[m]][u],
                        remainingWinningUnits[m], remainingWinnerPool[m])
        /\ marketState[m] = "RESOLVED" /\ earlyBirdScore[m][u] # 0
              => CanPay(m, earlyBirdScore[m][u], remainingScore[m], remainingEarlyBirdPool[m])
        /\ marketState[m] = "VOIDED" /\ (\E o \in Outcomes : balanceOf[m][o][u] # 0)
              => /\ Total(HeldBy(m, u), Outcomes) \in 1..remainingRefund[m]
                 /\ cash[m] >= Total(HeldBy(m, u), Outcomes)
        /\ bonusFunded[m] /\ timeoutBonusUnits[m][u] # 0
              => CanPay(m, timeoutBonusUnits[m][u], remainingBonusUnits[m],
                        remainingBonusPool[m])

\* Units counted in the denominator of a pool the vault holds can be claimed.
LEMMA CountedCanPay ==
    ASSUME NEW m \in Markets, NEW units \in Nat \ {0}, NEW rem \in Nat, NEW pool \in Nat,
           cash[m] \in Nat, units <= rem, pool <= cash[m]
    PROVE  CanPay(m, units, rem, pool)
<1>1. CanConsume(units, rem)
  BY DEF CanConsume
<1>2. rem * 0 <= pool * 0
  OBVIOUS
<1>3. ConsumePool(units, rem, pool) \in Nat /\ ConsumePool(units, rem, pool) <= pool
  BY <1>1, <1>2, DrawDown
<1> QED
  BY <1>1, <1>3 DEF CanPay

\* What each claim draws on is part of what the vault owes and holds.
LEMMA PoolsAreHeld ==
    ASSUME ShareInv, SolvencyInv, NEW m \in Markets
    PROVE  /\ cash[m] \in Nat
           /\ marketState[m] = "RESOLVED" =>
                 /\ remainingWinnerPool[m] \in Nat /\ remainingWinnerPool[m] <= cash[m]
                 /\ remainingEarlyBirdPool[m] \in Nat /\ remainingEarlyBirdPool[m] <= cash[m]
           /\ marketState[m] = "VOIDED" =>
                 /\ remainingRefund[m] \in Nat /\ remainingRefund[m] <= cash[m]
                 /\ remainingBonusPool[m] \in Nat /\ remainingBonusPool[m] <= cash[m]
  BY DEF ShareInv, TypeOK, VaultTypeOK, SolvencyInv, VaultSolvent, GuardExposure

\* The ledgers agree, so every claim of every holder is covered.
LEMMA LedgersCoverClaims == ShareInv /\ SolvencyInv /\ EntitlementInv => ClaimsCovered
<1> SUFFICES ASSUME ShareInv, SolvencyInv, EntitlementInv, NEW m \in Markets, NEW u \in Users
             PROVE  /\ marketState[m] = "RESOLVED" /\ balanceOf[m][winningOutcome[m]][u] # 0
                          => CanPay(m, balanceOf[m][winningOutcome[m]][u],
                                    remainingWinningUnits[m], remainingWinnerPool[m])
                    /\ marketState[m] = "RESOLVED" /\ earlyBirdScore[m][u] # 0
                          => CanPay(m, earlyBirdScore[m][u], remainingScore[m],
                                    remainingEarlyBirdPool[m])
                    /\ marketState[m] = "VOIDED" /\ (\E o \in Outcomes : balanceOf[m][o][u] # 0)
                          => /\ Total(HeldBy(m, u), Outcomes) \in 1..remainingRefund[m]
                             /\ cash[m] >= Total(HeldBy(m, u), Outcomes)
                    /\ bonusFunded[m] /\ timeoutBonusUnits[m][u] # 0
                          => CanPay(m, timeoutBonusUnits[m][u], remainingBonusUnits[m],
                                    remainingBonusPool[m])
  BY DEF ClaimsCovered
<1>1. /\ u \in Accounts /\ IsFiniteSet(Accounts) /\ IsFiniteSet(Users)
      /\ IsFiniteSet(Outcomes) /\ winningOutcome[m] \in Outcomes
      /\ \A o \in Outcomes, a \in Accounts : balanceOf[m][o][a] \in Nat
      /\ \A o \in Outcomes : supply[m][o] \in Nat
      /\ \A v \in Users : earlyBirdScore[m][v] \in Nat /\ timeoutBonusUnits[m][v] \in Nat
      /\ remainingWinningUnits[m] \in Nat /\ remainingScore[m] \in Nat
      /\ remainingBonusUnits[m] \in Nat /\ remainingRefund[m] \in Nat
  BY AddressAssumption, AccountsFinite DEF ShareInv, TypeOK, VaultTypeOK, Accounts
<1>2. \A o \in Outcomes : balanceOf[m][o][u] <= supply[m][o]
  BY <1>1, TotalAtLeast DEF ShareInv, SupplyIsSumOfBalances
<1>3. ASSUME marketState[m] = "RESOLVED", balanceOf[m][winningOutcome[m]][u] # 0
      PROVE  CanPay(m, balanceOf[m][winningOutcome[m]][u],
                    remainingWinningUnits[m], remainingWinnerPool[m])
  <2>1. balanceOf[m][winningOutcome[m]][u] <= remainingWinningUnits[m]
    BY <1>1, <1>2, <1>3 DEF EntitlementInv, UnitsInv, UnitsKept
  <2> QED
    BY <1>1, <1>3, <2>1, PoolsAreHeld, CountedCanPay
<1>4. ASSUME marketState[m] = "RESOLVED", earlyBirdScore[m][u] # 0
      PROVE  CanPay(m, earlyBirdScore[m][u], remainingScore[m], remainingEarlyBirdPool[m])
  <2>1. earlyBirdScore[m][u] <= remainingScore[m]
    BY <1>1, <1>4, TotalAtLeast DEF EntitlementInv, ScoresMatch
  <2> QED
    BY <1>1, <1>4, <2>1, PoolsAreHeld, CountedCanPay
<1>5. ASSUME marketState[m] = "VOIDED", NEW o \in Outcomes, balanceOf[m][o][u] # 0
      PROVE  /\ Total(HeldBy(m, u), Outcomes) \in 1..remainingRefund[m]
             /\ cash[m] >= Total(HeldBy(m, u), Outcomes)
  <2>1. \A p \in Outcomes : /\ HeldBy(m, u)[p] = balanceOf[m][p][u]
                            /\ HeldBy(m, u)[p] \in Nat /\ HeldBy(m, u)[p] <= supply[m][p]
    BY <1>1, <1>2 DEF HeldBy
  <2>2. Total(HeldBy(m, u), Outcomes) \in Nat /\ Total(HeldBy(m, u), Outcomes) # 0
    BY <1>1, <1>5, <2>1, TotalNat, TotalAtLeast
  <2>3. Total(HeldBy(m, u), Outcomes) <= Total(supply[m], Outcomes)
    BY <1>1, <2>1, TotalMono
  <2>4. Total(supply[m], Outcomes) = remainingRefund[m]
    BY <1>5 DEF EntitlementInv, UnitsInv, UnitsKept
  <2> QED
    BY <1>1, <1>5, <2>2, <2>3, <2>4, PoolsAreHeld
<1>6. ASSUME bonusFunded[m], timeoutBonusUnits[m][u] # 0
      PROVE  CanPay(m, timeoutBonusUnits[m][u], remainingBonusUnits[m], remainingBonusPool[m])
  <2>1. /\ marketState[m] = "VOIDED"
        /\ Total(timeoutBonusUnits[m], Users) + remainingRefund[m] = remainingBonusUnits[m]
    BY <1>6 DEF EntitlementInv, BonusInv, BonusKept
  <2>2. /\ Total(timeoutBonusUnits[m], Users) \in Nat
        /\ timeoutBonusUnits[m][u] <= Total(timeoutBonusUnits[m], Users)
    BY <1>1, TotalNat, TotalAtLeast
  <2> QED
    BY <1>1, <1>6, <2>1, <2>2, PoolsAreHeld, CountedCanPay
<1> QED
  BY <1>3, <1>4, <1>5, <1>6

\* Whatever was claimed, transferred or burned before and by whom, the
\* checks and subtractions of claimWinningsFor, claimEarlyBirdFor, refundFor
\* and claimTimeoutBonusFor succeed for whoever is still owed something.
THEOREM ClaimsAreCovered == Spec => []ClaimsCovered
<1> QED
  BY LedgersCoverClaims, InitShareInv, StepShareInv, InitSolvencyInv, StepSolvencyInv,
     InitEntitlementInv, StepEntitlementInv, PTL DEF Spec

=============================================================================
