-------------------------- MODULE SettlementProps --------------------------
(***************************************************************************)
(* What the settlement core promises: solvency of the three custody        *)
(* contracts, agreement between shares, scores and the pools they draw on, *)
(* fairness of the draw-down, the exposure guard, irreversibility, and     *)
(* eventual settlement.                                                    *)
(***************************************************************************)
EXTENDS Settlement

-----------------------------------------------------------------------------
(* Custody.                                                                *)

\* A vault's token balance is exactly what it owes its users, in every
\* phase and after any interleaving of purchases, resolution, bonus funding
\* and claims: _assertCoverage never fails and nothing is left behind.
VaultSolvent == \A m \in Markets : cash[m] = GuardExposure(m)

\* The bond escrow holds exactly the bonds of unsettled markets plus the
\* credits creators have not withdrawn: no bond is released twice, lost on
\* the way to a timed-out market, or paid from another market's bond.
EscrowSolvent ==
    /\ escrowCash = totalLocked + totalBondCredits
    /\ totalLocked = Total(LockedBond, Markets)
    /\ totalBondCredits = Total(bondCreditOf, Users)

\* The fee vault holds exactly the credits of all treasuries, whatever
\* creation fees, resolutions and withdrawals came in which order.
FeeVaultSolvent ==
    /\ feeCash = totalFeeCredits
    /\ totalFeeCredits = Total(feeCreditOf, Beneficiaries)

-----------------------------------------------------------------------------
(* Shares, scores and pools.                                               *)

\* The ERC-1155 supply of an outcome is the sum of the balances, also of the
\* shares in the marketplace escrow, after transfers, claims and burns.
SupplyIsSumOfBalances ==
    \A m \in Markets, o \in Outcomes : supply[m][o] = Total(balanceOf[m][o], Accounts)

\* The units a pool is divided by are exactly the shares that can still be
\* presented: no holder's claim can find the denominator too small (and
\* revert for ever) and no unit is left in it that nobody holds.
UnitsMatchShares ==
    \A m \in Markets :
        /\ marketState[m] = "OPEN" => Total(supply[m], Outcomes) = totalPrincipal[m]
        /\ marketState[m] = "RESOLVED" =>
              remainingWinningUnits[m] = supply[m][winningOutcome[m]]
        /\ marketState[m] = "VOIDED" => Total(supply[m], Outcomes) = remainingRefund[m]

\* Early-bird scores: the per-user scores add up to the score the pool is
\* divided by, before and after any claims.
ScoresMatch ==
    \A m \in Markets :
        Total(earlyBirdScore[m], Users) =
            IF marketState[m] = "RESOLVED" THEN remainingScore[m] ELSE totalScore[m]

\* Timeout bonus: units recorded by refunds plus principal still to refund
\* are the units the bonus is divided by, whichever of refund and settleBond
\* comes first.
BonusUnitsMatch ==
    \A m \in Markets :
        voidReason[m] = "TIMEOUT" =>
            Total(timeoutBonusUnits[m], Users) + remainingRefund[m] =
                IF bonusFunded[m] THEN remainingBonusUnits[m] ELSE totalPrincipal[m]

\* Whoever is entitled to something is counted in what it is divided by, and
\* nobody else: shares, early-bird scores and timeout units alike.
EntitlementsMatch == UnitsMatchShares /\ ScoresMatch /\ BonusUnitsMatch

\* Floors favour later claimants: what is left of a pool per remaining unit
\* never falls below the initial rate, so no claim order can leave a holder
\* with less than his floor share; and a pool is empty when its units are.
DrawDownFair ==
    \A m \in Markets :
        /\ marketState[m] = "RESOLVED" =>
              /\ remainingWinnerPool[m] * principalByOutcome[m][winningOutcome[m]]
                    >= remainingWinningUnits[m] * payoutBreakdown[m].winnerPool
              /\ remainingEarlyBirdPool[m] * totalScore[m]
                    >= remainingScore[m] * payoutBreakdown[m].earlyBirdPool
              /\ remainingWinningUnits[m] = 0 => remainingWinnerPool[m] = 0
              /\ remainingScore[m] = 0 => remainingEarlyBirdPool[m] = 0
        /\ bonusFunded[m] =>
              /\ remainingBonusPool[m] * totalPrincipal[m]
                    >= remainingBonusUnits[m] * bondOf[m].amount
              /\ remainingBonusUnits[m] = 0 => remainingBonusPool[m] = 0

\* A winner's payout is at least his floor share of the pool the resolution
\* fixed, however many claims and transfers came before it.
WinnerPaidProRata ==
    [][\A m \in Markets, u \in Users :
          ClaimWinnings(m, u) =>
            cash[m] - cash'[m] >=
               MulDiv(balanceOf[m][winningOutcome[m]][u], payoutBreakdown[m].winnerPool,
                      principalByOutcome[m][winningOutcome[m]])]_vars

\* Every unit of principal of a resolved market is accounted for, and
\* governance and creators never take more than the hard limits: a tenth of
\* the principal as rake, half of the rake for the protocol.
FeesWithinHardLimits ==
    \A m \in Markets :
        marketState[m] = "RESOLVED" =>
            LET b == payoutBreakdown[m] IN
            /\ b.protocolFee + b.creatorFee + b.earlyBirdPool + b.winnerPool
                  = totalPrincipal[m]
            /\ 10 * b.totalRake <= totalPrincipal[m]
            /\ 2 * b.protocolFee <= b.totalRake

\* Whatever was claimed before, by whom, and whatever is paused, a user who
\* is owed something can claim it now: no checked subtraction, coverage
\* check or transfer of the claim can fail.
ExitAlwaysOpen ==
    \A m \in Markets, u \in Users :
        /\ marketState[m] = "RESOLVED" /\ balanceOf[m][winningOutcome[m]][u] # 0
              => ENABLED (ClaimWinnings(m, u) /\ PayHolder(m, u))
        /\ marketState[m] = "RESOLVED" /\ earlyBirdScore[m][u] # 0
           /\ remainingEarlyBirdPool[m] # 0
              => ENABLED (ClaimEarlyBird(m, u) /\ PayHolder(m, u))
        /\ marketState[m] = "VOIDED" /\ (\E o \in Outcomes : balanceOf[m][o][u] # 0)
              => ENABLED (Refund(m, u) /\ PayHolder(m, u))
        /\ bonusFunded[m] /\ timeoutBonusUnits[m][u] # 0
              => ENABLED (ClaimTimeoutBonus(m, u) /\ PayHolder(m, u))

-----------------------------------------------------------------------------
(* The launch exposure guard.                                              *)

\* While the guard is in service no market owes its users more than it
\* last reported, and the total is the sum of the reports.
GuardConservative ==
    /\ totalReportedExposure = Total(reportedExposure, Markets)
    /\ ~retired => \A m \in Markets : GuardExposure(m) <= reportedExposure[m]

OpenPrincipal == [m \in Markets |-> IF marketState[m] = "OPEN" THEN totalPrincipal[m] ELSE 0]

\* The launch cap bounds the principal of all open markets together, however
\* purchases, syncs and terminal transitions of different markets interleave.
OpenExposureWithinCap == ~retired => Total(OpenPrincipal, Markets) <= exposureCap

-----------------------------------------------------------------------------
(* What a step may never do.                                               *)

\* A step leaves a terminal market's verdict, split and terms alone, only
\* destroys its shares, and does not touch a settled bond.
StaysFinal(m) ==
    /\ Terminal(m) =>
          /\ marketState'[m] = marketState[m]
          /\ voidReason'[m] = voidReason[m]
          /\ winningOutcome'[m] = winningOutcome[m]
          /\ payoutBreakdown'[m] = payoutBreakdown[m]
          /\ terms'[m] = terms[m]
          /\ totalPrincipal'[m] = totalPrincipal[m]
          /\ \A o \in Outcomes : supply'[m][o] <= supply[m][o]
    /\ bondOf[m].settled => bondOf'[m] = bondOf[m]

\* A terminal market never reopens or changes its verdict, its split or its
\* terms, its bond is settled once, and shares are only ever destroyed.
TerminalIsFinal == [][\A m \in Markets : StaysFinal(m)]_vars

\* From the first purchase on, the terms a buyer saw (closing time,
\* deadline, early-bird feature, fee split) are what the market settles by.
TermsFrozenByFirstBuy ==
    [][\A m \in Markets :
          totalPrincipal[m] # 0 => terms'[m] = terms[m] /\ params'[m] = params[m]]_vars

-----------------------------------------------------------------------------
(* Liveness.  Time passes, and the calls anybody may make are eventually   *)
(* made: the repository runs workers that void expired markets, settle     *)
(* bonds and claim for holders; the marketplace's return of shares of a    *)
(* terminal market is permissionless too.  Nothing is assumed of creators, *)
(* buyers or governance.                                                   *)

Keepers ==
    \A m \in Markets :
        /\ WF_vars(VoidMarket(m) /\ VoidAfterDeadline(m))
        /\ WF_vars(SettleBondToHolders(m))
        /\ WF_vars(SettleBondToCreator(m))
        /\ WF_vars(\E o \in Outcomes, u \in Users :
                      Terminal(m) /\ ReleaseShares(m, o, u, balanceOf[m][o][Marketplace]))
        /\ WF_vars(\E u \in Users : PayHolder(m, u))

FairSpec == Spec /\ WF_vars(Tick) /\ Keepers

\* Every market whose deadline lies within the modelled time is eventually
\* terminal, even when its creator never acts and whatever is paused, unless
\* the creator moves the deadline before the first purchase.
OpenMarketTerminates ==
    \A m \in Markets :
        (marketState[m] = "OPEN" /\ ResolutionDeadline(m) <= MaxTime)
            ~> (Terminal(m) \/ ResolutionDeadline(m) > MaxTime)

\* Every terminal market's bond is eventually released or slashed, and
\* every token its holders are owed eventually leaves the vault.
TerminalMarketPaysOut ==
    \A m \in Markets : Terminal(m) ~> (bondOf[m].settled /\ cash[m] = 0)

=============================================================================
