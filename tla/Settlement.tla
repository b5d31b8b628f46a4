----------------------------- MODULE Settlement -----------------------------
(***************************************************************************)
(* The on-chain settlement core: factory, vaults, exposure guard, bond     *)
(* escrow, fee vault and emergency controller, composed.  Every disjunct   *)
(* of Next is one transaction (or the passing of time) and conjoins the    *)
(* operators of all the contracts the call reaches.                        *)
(*                                                                         *)
(* Callers: creators create, resolve and void; users buy, transfer and     *)
(* claim; everything named "For" in the code, settleBond, sync and         *)
(* voidAfterDeadline may be called by anyone (the repository's workers do) *)
(* so these actions have no caller.  The marketplace is an account that    *)
(* takes shares into escrow while a market is open and gives them back at  *)
(* any time.                                                               *)
(***************************************************************************)
EXTENDS MarketVault, MarketFactory, ExposureGuard, BondEscrow, FeeVault,
        EmergencyController

CONSTANTS
    BuySizes,         \* the desiredUnits buyers ask for (bound of the runs)
    TransferSizes,    \* the units of share transfers, 0 for a whole balance
    GovernanceCalls,  \* which governance calls the behaviour may contain
    MaxTime           \* bound on now

AllGovernanceCalls ==
    {"CONFIG", "DEPRECATE", "RAISE_CAP", "RETIRE", "RESET_EPOCH"}

ASSUME BoundAssumption ==
    /\ BuySizes \subseteq Nat /\ TransferSizes \subseteq Nat
    /\ GovernanceCalls \subseteq AllGovernanceCalls
    /\ MaxTime \in Nat

vars == <<now, vaultVars, factoryVars, config, guardVars, escrowVars, feeVars, pauseVars>>

Init ==
    /\ now = 0
    /\ VaultInit /\ FactoryInit /\ ConfigInit /\ GuardInit
    /\ EscrowInit /\ FeeInit /\ PauseInit

-----------------------------------------------------------------------------
(* Deployment and governance.                                              *)

ConfigureMarketplace ==
    /\ SetMarketplace
    /\ UNCHANGED <<now, vaultVars, config, guardVars, escrowVars, feeVars, pauseVars>>

ActivateFactory ==
    /\ Activate
    /\ UNCHANGED <<now, vaultVars, config, guardVars, escrowVars, feeVars, pauseVars>>

Deprecate(b) ==
    /\ "DEPRECATE" \in GovernanceCalls
    /\ SetDeprecated(b)
    /\ UNCHANGED <<now, vaultVars, config, guardVars, escrowVars, feeVars, pauseVars>>

Reconfigure ==
    /\ "CONFIG" \in GovernanceCalls
    /\ ConfigNext
    /\ UNCHANGED <<now, vaultVars, factoryVars, guardVars, escrowVars, feeVars, pauseVars>>

RaiseExposureCap(cap) ==
    /\ "RAISE_CAP" \in GovernanceCalls
    /\ RaiseCap(cap)
    /\ UNCHANGED <<now, vaultVars, factoryVars, config, escrowVars, feeVars, pauseVars>>

RetireGuard ==
    /\ "RETIRE" \in GovernanceCalls
    /\ RetireForever
    /\ UNCHANGED <<now, vaultVars, factoryVars, config, escrowVars, feeVars, pauseVars>>

EmergencyPause(flags, duration) ==
    /\ Pause(flags, duration)
    /\ UNCHANGED <<now, vaultVars, factoryVars, config, guardVars, escrowVars, feeVars>>

EmergencyReset ==
    /\ "RESET_EPOCH" \in GovernanceCalls
    /\ ResetEpoch
    /\ UNCHANGED <<now, vaultVars, factoryVars, config, guardVars, escrowVars, feeVars>>

Tick ==
    /\ now < MaxTime
    /\ now' = now + 1
    /\ UNCHANGED <<vaultVars, factoryVars, config, guardVars, escrowVars, feeVars, pauseVars>>

-----------------------------------------------------------------------------
(* The life of a market.                                                   *)

CreateMarket(m, creator, p, r) ==
    /\ ~IsPaused("MARKET_CREATION")
    /\ AdmitMarket(m, p)
    /\ Initialize(m, SnapshotFor(creator, p), TermsAt(now, r))
    /\ RegisterMarket(m)
    /\ RegisterAndChargeCreation(m, config.protocolTreasury, config.creationFee)
    /\ LockBond(m, creator, p.bond)
    /\ UNCHANGED <<now, config, pauseVars>>

UpdateBeforeFirstBuy(m, r) ==
    /\ UpdateTerms(m, TermsAt(params[m].createdAt, r))
    /\ UNCHANGED <<now, factoryVars, config, guardVars, escrowVars, feeVars, pauseVars>>

\* buy, and buyWithPermit2 when permit2 holds: a relayer submits the owner's
\* signed purchase.
Buy(m, u, o, desired, permit2) ==
    /\ permit2 => Permit2Enabled(m) /\ ~IsPaused("PERMIT2")
    /\ ~IsPaused("PRIMARY_BUY")
    /\ CanBuy(m, u, desired)
    /\ Reserve(m, Filled(m, u, desired))
    /\ CompleteBuy(m, u, o, Filled(m, u, desired))
    /\ UNCHANGED <<now, factoryVars, config, escrowVars, feeVars, pauseVars>>

\* resolve to an outcome that somebody holds; the fees go to the fee vault.
Resolve(m, o) ==
    /\ ResolveTo(m, o)
    /\ DepositAndAccrue(m, params[m].protocolTreasury, PayoutsOf(m).protocolFee,
                        terms[m].creatorTreasury, PayoutsOf(m).creatorFee)
    /\ UNCHANGED <<now, factoryVars, config, guardVars, escrowVars, pauseVars>>

\* resolve to an outcome without supply, creatorVoid, voidAfterDeadline.
VoidMarket(m) ==
    /\ \/ \E o \in Outcomes : ResolveWithoutSupply(m, o)
       \/ CreatorVoid(m)
       \/ VoidAfterDeadline(m)
    /\ UNCHANGED <<now, factoryVars, config, guardVars, escrowVars, feeVars, pauseVars>>

\* Bug: a market that timed out empty is treated like any other.
TimedOut(m) == marketState[m] = "VOIDED" /\ voidReason[m] = "TIMEOUT"

TimedOutWithPrincipal(m) ==
    /\ marketState[m] = "VOIDED" /\ voidReason[m] = "TIMEOUT"
    /\ totalPrincipal[m] # 0

\* Bug: the guard is not told about the bonus.
SettleBondWithoutSync(m) ==
    /\ TimedOutWithPrincipal(m)
    /\ SlashBondToMarket(m)
    /\ FundTimeoutBonus(m, bondOf[m].amount)
    /\ UNCHANGED <<now, factoryVars, config, guardVars, feeVars, pauseVars>>

\* settleBond on a market that timed out with principal in it: transfer,
\* fundTimeoutBonus, and the guard sync fundTimeoutBonus makes.
SettleBondToHolders(m) ==
    /\ TimedOutWithPrincipal(m)
    /\ SlashBondToMarket(m)
    /\ FundTimeoutBonus(m, bondOf[m].amount)
    /\ Sync(m, remainingRefund[m] + bondOf[m].amount)
    /\ UNCHANGED <<now, factoryVars, config, feeVars, pauseVars>>

\* settleBond on any other terminal market.
SettleBondToCreator(m) ==
    /\ Terminal(m) /\ ~TimedOutWithPrincipal(m)
    /\ CreditBondToCreator(m)
    /\ UNCHANGED <<now, vaultVars, factoryVars, config, guardVars, feeVars, pauseVars>>

SyncExposure(m) ==
    /\ Sync(m, GuardExposure(m))
    /\ UNCHANGED <<now, vaultVars, factoryVars, config, escrowVars, feeVars, pauseVars>>

-----------------------------------------------------------------------------
(* Claims and shares.                                                      *)

\* The four claims and burnLosingPosition touch the vault alone.
ClaimFromVault(m, u) ==
    \/ ClaimWinnings(m, u)
    \/ ClaimEarlyBird(m, u)
    \/ Refund(m, u)
    \/ ClaimTimeoutBonus(m, u)

PayHolder(m, u) ==
    /\ ClaimFromVault(m, u)
    /\ UNCHANGED <<now, factoryVars, config, guardVars, escrowVars, feeVars, pauseVars>>

BurnLosing(m, u, o) ==
    /\ BurnLosingPosition(m, u, o)
    /\ UNCHANGED <<now, factoryVars, config, guardVars, escrowVars, feeVars, pauseVars>>

\* The amounts a transfer from account a may move.
Parts(m, o, a) == {IF s = 0 THEN balanceOf[m][o][a] ELSE s : s \in TransferSizes}

\* A user sends shares to another user, or offers them on the marketplace,
\* which accepts shares of open markets only.
SendShares(m, o, from, to, units) ==
    /\ to = Marketplace => marketState[m] = "OPEN"
    /\ TransferShares(m, o, from, to, units)
    /\ UNCHANGED <<now, factoryVars, config, guardVars, escrowVars, feeVars, pauseVars>>

\* The marketplace hands shares out: a fill, a cancellation or a return.
ReleaseShares(m, o, to, units) ==
    /\ TransferShares(m, o, Marketplace, to, units)
    /\ UNCHANGED <<now, factoryVars, config, guardVars, escrowVars, feeVars, pauseVars>>

WithdrawBond(creator) ==
    /\ ClaimBond(creator)
    /\ UNCHANGED <<now, vaultVars, factoryVars, config, guardVars, feeVars, pauseVars>>

WithdrawFees(b) ==
    /\ ClaimFees(b)
    /\ UNCHANGED <<now, vaultVars, factoryVars, config, guardVars, escrowVars, pauseVars>>

-----------------------------------------------------------------------------

Governance ==
    \/ ConfigureMarketplace
    \/ ActivateFactory
    \/ \E b \in BOOLEAN : Deprecate(b)
    \/ Reconfigure
    \/ \E cap \in CapOptions : RaiseExposureCap(cap)
    \/ RetireGuard
    \/ \E flags \in PauseOptions, d \in PauseDurations : EmergencyPause(flags, d)
    \/ EmergencyReset

Trade ==
    \E m \in Markets :
        \/ \E c \in Users, p \in MarketRequests, r \in TermsRequests : CreateMarket(m, c, p, r)
        \/ \E r \in TermsRequests : UpdateBeforeFirstBuy(m, r)
        \/ \E u \in Users, o \in Outcomes, desired \in BuySizes, permit2 \in BOOLEAN :
              Buy(m, u, o, desired, permit2)
        \/ \E o \in Outcomes, from \in Users, to \in Accounts :
              \E units \in Parts(m, o, from) : SendShares(m, o, from, to, units)
        \/ \E o \in Outcomes, to \in Users :
              \E units \in Parts(m, o, Marketplace) : ReleaseShares(m, o, to, units)

Settle ==
    \E m \in Markets :
        \/ \E o \in Outcomes : Resolve(m, o)
        \/ VoidMarket(m)
        \/ SettleBondToHolders(m)
        \/ SettleBondToCreator(m)
        \/ SyncExposure(m)
        \/ \E u \in Users : PayHolder(m, u)
        \/ \E u \in Users, o \in Outcomes : BurnLosing(m, u, o)

Withdraw ==
    \/ \E c \in Users : WithdrawBond(c)
    \/ \E b \in Beneficiaries : WithdrawFees(b)

Next == Tick \/ Governance \/ Trade \/ Settle \/ Withdraw

Spec == Init /\ [][Next]_vars

TypeOK ==
    /\ now \in Nat
    /\ VaultTypeOK /\ FactoryTypeOK /\ ConfigTypeOK /\ GuardTypeOK
    /\ EscrowTypeOK /\ FeeTypeOK /\ PauseTypeOK

=============================================================================
