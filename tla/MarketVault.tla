---------------------------- MODULE MarketVault ----------------------------
(***************************************************************************)
(* MarketVaultCoreV1: one prediction market.  It sells outcome shares at   *)
(* par until closeAt, is then resolved by its creator or voided, and pays  *)
(* winners, early birds, refunds and the timeout bonus out of pools that   *)
(* shrink with every claim.  Every variable is indexed by the market; the  *)
(* ERC-1155 shares (balanceOf, supply) are part of the vault.  cash is the *)
(* vault's balance of the payment token.                                   *)
(*                                                                         *)
(* Each operator is the effect of one external function on the vault's own *)
(* storage; what the call does in other contracts is conjoined in module   *)
(* Settlement.                                                             *)
(***************************************************************************)
EXTENDS ProtocolMath

VARIABLES
    \* written once, by initialize
    params,               \* [Markets -> Snapshot]
    \* the mutable terms and the state machine
    terms,                \* [Markets -> Terms]
    marketState, voidReason, winningOutcome,
    \* accounting of the open phase
    totalPrincipal, totalScore,
    cumulativeBought,     \* [Markets -> [Users -> Nat]]  low half of _packedBuyerAccounting
    earlyBirdScore,       \* [Markets -> [Users -> Nat]]  high half of it
    principalByOutcome,   \* [Markets -> [Outcomes -> Nat]]
    \* the ERC-1155 shares
    balanceOf,            \* [Markets -> [Outcomes -> [Accounts -> Nat]]]
    supply,               \* [Markets -> [Outcomes -> Nat]]  totalSupply; its arithmetic is
                          \* unchecked in ERC1155Supply, so that it stays in Nat is a result
    \* the pools of the terminal phase
    payoutBreakdown,
    remainingWinningUnits, remainingWinnerPool,
    remainingScore, remainingEarlyBirdPool,
    remainingRefund,
    timeoutBonusUnits,    \* [Markets -> [Users -> Nat]]
    remainingBonusUnits, remainingBonusPool, bonusFunded,
    cash

shareVars == <<balanceOf, supply>>
tradeVars == <<totalPrincipal, totalScore, cumulativeBought, principalByOutcome>>
winVars   == <<winningOutcome, payoutBreakdown, remainingWinningUnits, remainingWinnerPool,
               remainingScore, remainingEarlyBirdPool>>
bonusVars == <<remainingBonusUnits, remainingBonusPool, bonusFunded>>
phaseVars == <<marketState, voidReason>>
vaultVars == <<params, terms, phaseVars, tradeVars, earlyBirdScore, shareVars, winVars,
               remainingRefund, timeoutBonusUnits, bonusVars, cash>>

Snapshot == [creator : Users \cup {NoAddress}, createdAt : Nat,
             marketCap : Nat, userCap : Nat, minUnits : Nat,
             creatorRakeBps : 0..BPS, protocolShareBps : 0..BPS,
             earlyBirdShareBps : 0..BPS,
             protocolTreasury : Beneficiaries \cup {NoAddress}]

Terms == [closeAt : Nat, outcomeDeadlineAt : Nat,
          creatorTreasury : Beneficiaries \cup {NoAddress},
          features : SUBSET FeatureFlags]

Breakdown == [totalRake : Nat, protocolFee : Nat, earlyBirdPool : Nat,
              creatorFee : Nat, winnerPool : Nat]

\* Storage of an address where no vault is deployed yet is all zero.
ZeroSnapshot ==
    [creator |-> NoAddress, createdAt |-> 0, marketCap |-> 0, userCap |-> 0,
     minUnits |-> 0, creatorRakeBps |-> 0, protocolShareBps |-> 0,
     earlyBirdShareBps |-> 0, protocolTreasury |-> NoAddress]
ZeroTerms ==
    [closeAt |-> 0, outcomeDeadlineAt |-> 0, creatorTreasury |-> NoAddress, features |-> {}]
ZeroBreakdown ==
    [totalRake |-> 0, protocolFee |-> 0, earlyBirdPool |-> 0, creatorFee |-> 0,
     winnerPool |-> 0]

VaultInit ==
    /\ params = [m \in Markets |-> ZeroSnapshot]
    /\ terms = [m \in Markets |-> ZeroTerms]
    /\ marketState = [m \in Markets |-> "NONE"]
    /\ voidReason = [m \in Markets |-> "NONE"]
    /\ winningOutcome = [m \in Markets |-> 0]
    /\ totalPrincipal = [m \in Markets |-> 0]
    /\ totalScore = [m \in Markets |-> 0]
    /\ cumulativeBought = [m \in Markets |-> [u \in Users |-> 0]]
    /\ earlyBirdScore = [m \in Markets |-> [u \in Users |-> 0]]
    /\ principalByOutcome = [m \in Markets |-> [o \in Outcomes |-> 0]]
    /\ balanceOf = [m \in Markets |-> [o \in Outcomes |-> [a \in Accounts |-> 0]]]
    /\ supply = [m \in Markets |-> [o \in Outcomes |-> 0]]
    /\ payoutBreakdown = [m \in Markets |-> ZeroBreakdown]
    /\ remainingWinningUnits = [m \in Markets |-> 0]
    /\ remainingWinnerPool = [m \in Markets |-> 0]
    /\ remainingScore = [m \in Markets |-> 0]
    /\ remainingEarlyBirdPool = [m \in Markets |-> 0]
    /\ remainingRefund = [m \in Markets |-> 0]
    /\ timeoutBonusUnits = [m \in Markets |-> [u \in Users |-> 0]]
    /\ remainingBonusUnits = [m \in Markets |-> 0]
    /\ remainingBonusPool = [m \in Markets |-> 0]
    /\ bonusFunded = [m \in Markets |-> FALSE]
    /\ cash = [m \in Markets |-> 0]

VaultTypeOK ==
    /\ params \in [Markets -> Snapshot]
    /\ terms \in [Markets -> Terms]
    /\ marketState \in [Markets -> MarketStates]
    /\ voidReason \in [Markets -> VoidReasons]
    /\ winningOutcome \in [Markets -> Outcomes]
    /\ totalPrincipal \in [Markets -> Nat]
    /\ totalScore \in [Markets -> Nat]
    /\ cumulativeBought \in [Markets -> [Users -> Nat]]
    /\ earlyBirdScore \in [Markets -> [Users -> Nat]]
    /\ principalByOutcome \in [Markets -> [Outcomes -> Nat]]
    /\ balanceOf \in [Markets -> [Outcomes -> [Accounts -> Nat]]]
    /\ supply \in [Markets -> [Outcomes -> Nat]]
    /\ payoutBreakdown \in [Markets -> Breakdown]
    /\ remainingWinningUnits \in [Markets -> Nat]
    /\ remainingWinnerPool \in [Markets -> Nat]
    /\ remainingScore \in [Markets -> Nat]
    /\ remainingEarlyBirdPool \in [Markets -> Nat]
    /\ remainingRefund \in [Markets -> Nat]
    /\ timeoutBonusUnits \in [Markets -> [Users -> Nat]]
    /\ remainingBonusUnits \in [Markets -> Nat]
    /\ remainingBonusPool \in [Markets -> Nat]
    /\ bonusFunded \in [Markets -> BOOLEAN]
    /\ cash \in [Markets -> Nat]

-----------------------------------------------------------------------------

Terminal(m)           == marketState[m] \in {"RESOLVED", "VOIDED"}   \* isTerminal
EarlyBirdEnabled(m)   == "EARLY_BIRD" \in terms[m].features
Permit2Enabled(m)     == "PERMIT2" \in terms[m].features
ResolutionDeadline(m) == terms[m].outcomeDeadlineAt + ResolutionWindow

\* What the vault owes its users: guardExposure, and the sum _assertCoverage
\* compares the token balance with.
GuardExposure(m) ==
    IF marketState[m] = "RESOLVED" THEN remainingWinnerPool[m] + remainingEarlyBirdPool[m]
    ELSE IF marketState[m] = "VOIDED" THEN remainingRefund[m] + remainingBonusPool[m]
    ELSE totalPrincipal[m]

\* _validateTimes.
ValidTimes(createdAt, t) ==
    /\ t.closeAt >= createdAt + MinDuration
    /\ t.closeAt <= createdAt + MaxDuration
    /\ t.outcomeDeadlineAt >= t.closeAt

\* _initialize: the factory hands over the immutable snapshot and the terms.
Initialize(m, snapshot, t) ==
    /\ marketState[m] = "NONE"
    /\ ValidTimes(snapshot.createdAt, t)
    /\ params' = [params EXCEPT ![m] = snapshot]
    /\ terms' = [terms EXCEPT ![m] = t]
    /\ marketState' = [marketState EXCEPT ![m] = "OPEN"]
    /\ UNCHANGED <<voidReason, tradeVars, earlyBirdScore, shareVars, winVars,
                   remainingRefund, timeoutBonusUnits, bonusVars, cash>>

\* Bug: the terms may be changed as long as the market is open.
UpdateTermsAnyTime(m, t) ==
    /\ marketState[m] = "OPEN"
    /\ ValidTimes(params[m].createdAt, t)
    /\ t.closeAt > now
    /\ terms' = [terms EXCEPT ![m] = t]
    /\ UNCHANGED <<params, phaseVars, tradeVars, earlyBirdScore, shareVars, winVars,
                   remainingRefund, timeoutBonusUnits, bonusVars, cash>>

\* updateBeforeFirstBuy.
UpdateTerms(m, t) ==
    /\ totalPrincipal[m] = 0
    /\ marketState[m] = "OPEN"
    /\ ValidTimes(params[m].createdAt, t)
    /\ t.closeAt > now
    /\ terms' = [terms EXCEPT ![m] = t]
    /\ UNCHANGED <<params, phaseVars, tradeVars, earlyBirdScore, shareVars, winVars,
                   remainingRefund, timeoutBonusUnits, bonusVars, cash>>

\* The units a purchase is filled with, clipped to the market's and the
\* buyer's remaining capacity.
Filled(m, u, desired) ==
    Smaller(desired, Smaller(params[m].marketCap - totalPrincipal[m],
                             params[m].userCap - cumulativeBought[m][u]))

\* _prepareBuy.  The caller's own limits (minUnits, maxPayment, deadline)
\* only make the call revert and are left out.
CanBuy(m, u, desired) ==
    /\ marketState[m] = "OPEN" /\ now < terms[m].closeAt
    /\ desired # 0
    /\ totalPrincipal[m] <= params[m].marketCap         \* checked subtractions
    /\ cumulativeBought[m][u] <= params[m].userCap
    /\ Filled(m, u, desired) >= params[m].minUnits

\* _pullExact and _completeBuy: shares are sold at par.
CompleteBuy(m, u, o, filled) ==
    LET weight == EarlyBirdWeight(EarlyBirdEnabled(m), params[m].createdAt,
                                  terms[m].closeAt, now)
        score  == filled * weight
    IN
    /\ cash' = [cash EXCEPT ![m] = @ + filled]
    /\ totalPrincipal' = [totalPrincipal EXCEPT ![m] = @ + filled]
    /\ totalScore' = [totalScore EXCEPT ![m] = @ + score]
    /\ cumulativeBought' = [cumulativeBought EXCEPT ![m][u] = @ + filled]
    /\ earlyBirdScore' = [earlyBirdScore EXCEPT ![m][u] = @ + score]
    /\ principalByOutcome' = [principalByOutcome EXCEPT ![m][o] = @ + filled]
    /\ balanceOf' = [balanceOf EXCEPT ![m][o][u] = @ + filled]
    /\ supply' = [supply EXCEPT ![m][o] = @ + filled]
    /\ UNCHANGED <<params, terms, phaseVars, winVars, remainingRefund,
                   timeoutBonusUnits, bonusVars>>

-----------------------------------------------------------------------------

CanResolve(m) ==
    /\ marketState[m] = "OPEN"
    /\ now >= terms[m].closeAt
    /\ now < ResolutionDeadline(m)

\* What resolve computes with _calculatePayouts.
PayoutsOf(m) ==
    Payouts(totalPrincipal[m], params[m], EarlyBirdEnabled(m), totalScore[m])

\* Bug: the winners' pool is divided by the shares of all outcomes.
ResolveOverAllShares(m, o) ==
    LET b    == PayoutsOf(m)
        fees == b.protocolFee + b.creatorFee
    IN
    /\ CanResolve(m)
    /\ supply[m][o] # 0
    /\ marketState' = [marketState EXCEPT ![m] = "RESOLVED"]
    /\ winningOutcome' = [winningOutcome EXCEPT ![m] = o]
    /\ payoutBreakdown' = [payoutBreakdown EXCEPT ![m] = b]
    /\ remainingWinningUnits' = [remainingWinningUnits EXCEPT ![m] = totalPrincipal[m]]
    /\ remainingWinnerPool' = [remainingWinnerPool EXCEPT ![m] = b.winnerPool]
    /\ remainingScore' = [remainingScore EXCEPT ![m] = totalScore[m]]
    /\ remainingEarlyBirdPool' = [remainingEarlyBirdPool EXCEPT ![m] = b.earlyBirdPool]
    /\ cash' = [cash EXCEPT ![m] = @ - fees]
    /\ UNCHANGED <<params, terms, voidReason, tradeVars, earlyBirdScore, shareVars,
                   remainingRefund, timeoutBonusUnits, bonusVars>>

\* resolve when somebody holds the winning outcome.
ResolveTo(m, o) ==
    LET b    == PayoutsOf(m)
        fees == b.protocolFee + b.creatorFee
    IN
    /\ CanResolve(m)
    /\ supply[m][o] # 0
    /\ marketState' = [marketState EXCEPT ![m] = "RESOLVED"]
    /\ winningOutcome' = [winningOutcome EXCEPT ![m] = o]
    /\ payoutBreakdown' = [payoutBreakdown EXCEPT ![m] = b]
    /\ remainingWinningUnits' = [remainingWinningUnits EXCEPT ![m] = supply[m][o]]
    /\ remainingWinnerPool' = [remainingWinnerPool EXCEPT ![m] = b.winnerPool]
    /\ remainingScore' = [remainingScore EXCEPT ![m] = totalScore[m]]
    /\ remainingEarlyBirdPool' = [remainingEarlyBirdPool EXCEPT ![m] = b.earlyBirdPool]
    /\ cash[m] >= fees
    /\ cash' = [cash EXCEPT ![m] = @ - fees]
    /\ cash'[m] >= b.winnerPool + b.earlyBirdPool            \* _assertCoverage
    /\ UNCHANGED <<params, terms, voidReason, tradeVars, earlyBirdScore, shareVars,
                   remainingRefund, timeoutBonusUnits, bonusVars>>

\* _void.
Void(m, reason) ==
    /\ marketState' = [marketState EXCEPT ![m] = "VOIDED"]
    /\ voidReason' = [voidReason EXCEPT ![m] = reason]
    /\ remainingRefund' = [remainingRefund EXCEPT ![m] = totalPrincipal[m]]
    /\ UNCHANGED <<params, terms, tradeVars, earlyBirdScore, shareVars, winVars,
                   timeoutBonusUnits, bonusVars, cash>>

\* resolve to an outcome nobody holds.
ResolveWithoutSupply(m, o) ==
    /\ CanResolve(m)
    /\ supply[m][o] = 0
    /\ Void(m, "NO_WINNING_SUPPLY")

\* creatorVoid: allowed before closeAt as well.
CreatorVoid(m) ==
    /\ marketState[m] = "OPEN"
    /\ now < ResolutionDeadline(m)
    /\ Void(m, "CREATOR")

\* Bug: the state of the market is not looked at.
VoidAnyAfterDeadline(m) ==
    /\ marketState[m] # "NONE"
    /\ now >= ResolutionDeadline(m)
    /\ Void(m, "TIMEOUT")

\* Bug: a market nobody bought into is skipped.
VoidSoldAfterDeadline(m) ==
    /\ marketState[m] = "OPEN"
    /\ totalPrincipal[m] # 0
    /\ now >= ResolutionDeadline(m)
    /\ Void(m, "TIMEOUT")

\* voidAfterDeadline: anyone, once the creator has missed the deadline.
VoidAfterDeadline(m) ==
    /\ marketState[m] = "OPEN"
    /\ now >= ResolutionDeadline(m)
    /\ Void(m, "TIMEOUT")

-----------------------------------------------------------------------------

\* claimWinningsFor(u); the marketplace escrow is not a user and is refused.
ClaimWinnings(m, u) ==
    LET o      == winningOutcome[m]
        units  == balanceOf[m][o][u]
        payout == ConsumePool(units, remainingWinningUnits[m], remainingWinnerPool[m])
    IN
    /\ marketState[m] = "RESOLVED"
    /\ CanConsume(units, remainingWinningUnits[m])
    /\ remainingWinningUnits' = [remainingWinningUnits EXCEPT ![m] = @ - units]
    /\ remainingWinnerPool[m] >= payout
    /\ remainingWinnerPool' = [remainingWinnerPool EXCEPT ![m] = @ - payout]
    /\ balanceOf' = [balanceOf EXCEPT ![m][o][u] = 0]
    /\ supply' = [supply EXCEPT ![m][o] = @ - units]
    /\ cash[m] >= payout
    /\ cash' = [cash EXCEPT ![m] = @ - payout]
    /\ UNCHANGED <<params, terms, phaseVars, tradeVars, earlyBirdScore, winningOutcome,
                   payoutBreakdown, remainingScore, remainingEarlyBirdPool,
                   remainingRefund, timeoutBonusUnits, bonusVars>>

\* Bug: the claimed score is not cleared.
ClaimEarlyBirdKeepingScore(m, u) ==
    LET score  == earlyBirdScore[m][u]
        reward == ConsumePool(score, remainingScore[m], remainingEarlyBirdPool[m])
    IN
    /\ marketState[m] = "RESOLVED"
    /\ remainingEarlyBirdPool[m] # 0
    /\ CanConsume(score, remainingScore[m])
    /\ remainingScore' = [remainingScore EXCEPT ![m] = @ - score]
    /\ remainingEarlyBirdPool' = [remainingEarlyBirdPool EXCEPT ![m] = @ - reward]
    /\ cash' = [cash EXCEPT ![m] = @ - reward]
    /\ UNCHANGED <<params, terms, phaseVars, tradeVars, earlyBirdScore, shareVars,
                   winningOutcome, payoutBreakdown, remainingWinningUnits,
                   remainingWinnerPool, remainingRefund, timeoutBonusUnits, bonusVars>>

\* claimEarlyBirdFor(u).
ClaimEarlyBird(m, u) ==
    LET score  == earlyBirdScore[m][u]
        reward == ConsumePool(score, remainingScore[m], remainingEarlyBirdPool[m])
    IN
    /\ marketState[m] = "RESOLVED"
    /\ remainingEarlyBirdPool[m] # 0
    /\ CanConsume(score, remainingScore[m])
    /\ earlyBirdScore' = [earlyBirdScore EXCEPT ![m][u] = 0]
    /\ remainingScore' = [remainingScore EXCEPT ![m] = @ - score]
    /\ remainingEarlyBirdPool[m] >= reward
    /\ remainingEarlyBirdPool' = [remainingEarlyBirdPool EXCEPT ![m] = @ - reward]
    /\ cash[m] >= reward
    /\ cash' = [cash EXCEPT ![m] = @ - reward]
    /\ UNCHANGED <<params, terms, phaseVars, tradeVars, shareVars, winningOutcome,
                   payoutBreakdown, remainingWinningUnits, remainingWinnerPool,
                   remainingRefund, timeoutBonusUnits, bonusVars>>

\* The shares of every outcome that refundFor(u) burns.
HeldBy(m, u) == [o \in Outcomes |-> balanceOf[m][o][u]]

\* refundFor(u).
Refund(m, u) ==
    LET amount == Total(HeldBy(m, u), Outcomes) IN
    /\ marketState[m] = "VOIDED"
    /\ amount \in 1..remainingRefund[m]          \* non-zero, and a checked subtraction
    /\ remainingRefund' = [remainingRefund EXCEPT ![m] = @ - amount]
    /\ timeoutBonusUnits' =
          IF voidReason[m] = "TIMEOUT"
            THEN [timeoutBonusUnits EXCEPT ![m][u] = @ + amount]
            ELSE timeoutBonusUnits
    /\ balanceOf' = [balanceOf EXCEPT ![m] =
                        [o \in Outcomes |-> [@[o] EXCEPT ![u] = 0]]]
    /\ supply' = [supply EXCEPT ![m] =
                        [o \in Outcomes |-> @[o] - balanceOf[m][o][u]]]
    /\ cash[m] >= amount
    /\ cash' = [cash EXCEPT ![m] = @ - amount]
    /\ UNCHANGED <<params, terms, phaseVars, tradeVars, earlyBirdScore, winVars, bonusVars>>

\* Bug: the bonus is divided by the principal not yet refunded.
FundBonusByRefund(m, amount) ==
    /\ marketState[m] = "VOIDED" /\ voidReason[m] = "TIMEOUT"
    /\ ~bonusFunded[m]
    /\ amount # 0
    /\ bonusFunded' = [bonusFunded EXCEPT ![m] = TRUE]
    /\ remainingBonusUnits' = [remainingBonusUnits EXCEPT ![m] = remainingRefund[m]]
    /\ remainingBonusPool' = [remainingBonusPool EXCEPT ![m] = amount]
    /\ cash' = [cash EXCEPT ![m] = @ + amount]
    /\ UNCHANGED <<params, terms, phaseVars, tradeVars, earlyBirdScore, shareVars, winVars,
                   remainingRefund, timeoutBonusUnits>>

\* fundTimeoutBonus, with the transfer of the bond that precedes it.
FundTimeoutBonus(m, amount) ==
    /\ marketState[m] = "VOIDED" /\ voidReason[m] = "TIMEOUT"
    /\ ~bonusFunded[m]
    /\ amount # 0
    /\ bonusFunded' = [bonusFunded EXCEPT ![m] = TRUE]
    /\ remainingBonusUnits' = [remainingBonusUnits EXCEPT ![m] = totalPrincipal[m]]
    /\ remainingBonusPool' = [remainingBonusPool EXCEPT ![m] = amount]
    /\ cash' = [cash EXCEPT ![m] = @ + amount]
    /\ cash'[m] >= remainingRefund[m] + amount               \* _assertCoverage
    /\ UNCHANGED <<params, terms, phaseVars, tradeVars, earlyBirdScore, shareVars, winVars,
                   remainingRefund, timeoutBonusUnits>>

\* claimTimeoutBonusFor(u).
ClaimTimeoutBonus(m, u) ==
    LET units  == timeoutBonusUnits[m][u]
        reward == ConsumePool(units, remainingBonusUnits[m], remainingBonusPool[m])
    IN
    /\ bonusFunded[m]
    /\ CanConsume(units, remainingBonusUnits[m])
    /\ timeoutBonusUnits' = [timeoutBonusUnits EXCEPT ![m][u] = 0]
    /\ remainingBonusUnits' = [remainingBonusUnits EXCEPT ![m] = @ - units]
    /\ remainingBonusPool[m] >= reward
    /\ remainingBonusPool' = [remainingBonusPool EXCEPT ![m] = @ - reward]
    /\ cash[m] >= reward
    /\ cash' = [cash EXCEPT ![m] = @ - reward]
    /\ UNCHANGED <<params, terms, phaseVars, tradeVars, earlyBirdScore, shareVars, winVars,
                   remainingRefund, bonusFunded>>

\* Bug: the shares are taken from the holder but not out of the supply.
BurnWithoutSupply(m, u, o) ==
    /\ marketState[m] = "RESOLVED"
    /\ o # winningOutcome[m]
    /\ balanceOf[m][o][u] # 0
    /\ balanceOf' = [balanceOf EXCEPT ![m][o][u] = 0]
    /\ UNCHANGED <<params, terms, phaseVars, tradeVars, earlyBirdScore, supply, winVars,
                   remainingRefund, timeoutBonusUnits, bonusVars, cash>>

\* burnLosingPosition.
BurnLosingPosition(m, u, o) ==
    LET units == balanceOf[m][o][u] IN
    /\ marketState[m] = "RESOLVED"
    /\ o # winningOutcome[m]
    /\ units # 0
    /\ balanceOf' = [balanceOf EXCEPT ![m][o][u] = 0]
    /\ supply' = [supply EXCEPT ![m][o] = @ - units]
    /\ UNCHANGED <<params, terms, phaseVars, tradeVars, earlyBirdScore, winVars,
                   remainingRefund, timeoutBonusUnits, bonusVars, cash>>

\* ERC-1155 safeTransferFrom: the vault adds no hook of its own to it.
TransferShares(m, o, from, to, units) ==
    /\ from # to
    /\ units # 0 /\ units <= balanceOf[m][o][from]
    /\ balanceOf' = [balanceOf EXCEPT ![m][o][from] = @ - units,
                                      ![m][o][to] = @ + units]
    /\ UNCHANGED <<params, terms, phaseVars, tradeVars, earlyBirdScore, supply, winVars,
                   remainingRefund, timeoutBonusUnits, bonusVars, cash>>

=============================================================================
