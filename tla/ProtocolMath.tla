---------------------------- MODULE ProtocolMath ----------------------------
(***************************************************************************)
(* The pure computations of the vault: the early-bird weight, the split of *)
(* a resolved pool and the draw-down rule every claim goes through.        *)
(***************************************************************************)
EXTENDS ProtocolTypes, Sums

\* Which calls of _consumeRemainingPool do not revert.
CanConsume(units, remainingUnits) ==
    units # 0 /\ remainingUnits # 0 /\ units <= remainingUnits

\* Bug: rounds a claim up instead of down.
ConsumePoolRoundingUp(units, remainingUnits, remainingPool) ==
    IF units = remainingUnits THEN remainingPool
                              ELSE MulDivUp(units, remainingPool, remainingUnits)

\* What _consumeRemainingPool pays: the last claimant takes the remainder.
ConsumePool(units, remainingUnits, remainingPool) ==
    IF units = remainingUnits
      THEN remainingPool
      ELSE MulDiv(units, remainingPool, remainingUnits)

\* _earlyBirdWeight: thirds of the trading period, compared by cross-products.
EarlyBirdWeight(enabled, createdAt, closeAt, t) ==
    LET duration == closeAt - createdAt
        offset   == t - createdAt
    IN  IF ~enabled \/ t < createdAt \/ t >= closeAt THEN 0
        ELSE IF offset * 3 < duration THEN 3
        ELSE IF offset * 3 < duration * 2 THEN 2
        ELSE 1

\* Bug: the protocol's share is taken of the principal, not of the rake.
PayoutsShareOfPrincipal(principal, e, enabled, score) ==
    LET rake        == MulDiv(principal, e.creatorRakeBps, BPS)
        protocolFee == MulDiv(principal, e.protocolShareBps, BPS)
        creatorNet  == rake - protocolFee
    IN  [totalRake |-> rake, protocolFee |-> protocolFee, earlyBirdPool |-> 0,
         creatorFee |-> creatorNet, winnerPool |-> principal - rake]

\* Bug: the early-bird pool is taken out of the winners' pool once more.
PayoutsEarlyPoolTwice(principal, e, enabled, score) ==
    LET rake        == MulDiv(principal, e.creatorRakeBps, BPS)
        protocolFee == MulDiv(rake, e.protocolShareBps, BPS)
        earlyPool   == IF enabled /\ score # 0
                         THEN MulDiv(rake - protocolFee, e.earlyBirdShareBps, BPS) ELSE 0
    IN  [totalRake |-> rake, protocolFee |-> protocolFee, earlyBirdPool |-> earlyPool,
         creatorFee |-> rake - protocolFee - earlyPool,
         winnerPool |-> principal - rake - earlyPool]

\* _calculatePayouts: e is the market's economic snapshot.
Payouts(principal, e, enabled, score) ==
    LET rake        == MulDiv(principal, e.creatorRakeBps, BPS)
        protocolFee == MulDiv(rake, e.protocolShareBps, BPS)
        creatorNet  == rake - protocolFee
        earlyPool   == IF enabled /\ score # 0
                         THEN MulDiv(creatorNet, e.earlyBirdShareBps, BPS) ELSE 0
    IN  [totalRake     |-> rake,
         protocolFee   |-> protocolFee,
         earlyBirdPool |-> earlyPool,
         creatorFee    |-> creatorNet - earlyPool,
         winnerPool    |-> principal - rake]

\* MarketFactoryV1.requiredBond.
RequiredBond(cap) == Larger(MinCreatorBond, MulDivUp(cap, BondRateBps, BPS))

=============================================================================
