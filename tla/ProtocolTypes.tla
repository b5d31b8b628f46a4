--------------------------- MODULE ProtocolTypes ---------------------------
(***************************************************************************)
(* The vocabulary every on-chain module shares: the addresses, the enums   *)
(* and limits of ProtocolTypes.sol, ProtocolConfigV1.sol and               *)
(* MarketFactoryV1.sol, and the block timestamp all contracts read.        *)
(*                                                                         *)
(* An EVM transaction is atomic, so a call that crosses contracts is one   *)
(* step; each component module has an operator per external function over  *)
(* its own variables and module Settlement conjoins them into              *)
(* transactions.  A revert is a guard: the step is not enabled.            *)
(***************************************************************************)
EXTENDS Arithmetic, FiniteSets

CONSTANTS
    Markets,          \* addresses of the vaults the factory may deploy
    Users,            \* externally owned accounts: buyers, holders, creators
    Marketplace,      \* factory.marketplace(): escrows shares that are on offer
    Outcomes,         \* outcome ids 0..outcomeCount-1 of a market
    Beneficiaries,    \* fee recipients: the protocol's and creators' treasuries
    NoAddress         \* address(0)

CONSTANTS
    MinDuration,      \* the "5 minutes" of MarketVaultCoreV1._validateTimes
    MaxDuration,      \* its "90 days"
    ResolutionWindow, \* MarketFactoryV1.resolutionWindow
    MaxPause,         \* EmergencyControllerV1.MAX_PAUSE_DURATION
    MinCreatorBond,   \* MarketFactoryV1.MIN_CREATOR_BOND
    MaxCreatorBond,   \* MarketFactoryV1.MAX_CREATOR_BOND
    MinConfiguredUnits, \* MarketFactoryV1.MIN_CONFIGURED_UNITS
    MaxConfiguredUnits, \* MarketFactoryV1.MAX_CONFIGURED_UNITS
    HardMaxFullMarketCap,     \* ProtocolConfigV1.HARD_MAX_FULL_MARKET_CAP
    HardMaxCloneMarketCap,    \* ProtocolConfigV1.HARD_MAX_CLONE_MARKET_CAP
    HardMaxPerUserPrimaryCap, \* ProtocolConfigV1.HARD_MAX_PER_USER_PRIMARY_CAP
    HardMaxCreationFee        \* ProtocolConfigV1.HARD_MAX_CREATION_FEE

\* Shares are held by users and by the marketplace escrow.
Accounts == Users \cup {Marketplace}

ASSUME AddressAssumption ==
    /\ IsFiniteSet(Markets) /\ IsFiniteSet(Users) /\ IsFiniteSet(Outcomes)
    /\ IsFiniteSet(Beneficiaries)
    /\ Outcomes \subseteq Nat /\ 0 \in Outcomes
    /\ Marketplace \notin Users
    /\ NoAddress \notin Accounts \cup Beneficiaries

ASSUME LimitAssumption ==
    /\ MinDuration \in Nat /\ MaxDuration \in Nat /\ MinDuration > 0
    /\ ResolutionWindow \in Nat \ {0}
    /\ MaxPause \in Nat \ {0}
    /\ MinCreatorBond \in Nat \ {0} /\ MaxCreatorBond \in Nat
    /\ MinConfiguredUnits \in Nat \ {0} /\ MaxConfiguredUnits \in Nat
    /\ HardMaxFullMarketCap \in Nat /\ HardMaxCloneMarketCap \in Nat
    /\ HardMaxPerUserPrimaryCap \in Nat /\ HardMaxCreationFee \in Nat

HardMaxCreatorRakeBps  == 1000
HardMaxProtocolShareBps == 5000
HardMaxEarlyBirdShareBps == 5000
BondRateBps == 200

DeploymentModes == {"FULL", "CLONE"}
MarketStates == {"NONE", "OPEN", "RESOLVED", "VOIDED"}   \* NONE: not deployed
VoidReasons  == {"NONE", "CREATOR", "NO_WINNING_SUPPLY", "TIMEOUT"}
FeatureFlags == {"EARLY_BIRD", "PERMIT2"}
PauseFlags   == {"MARKET_CREATION", "PRIMARY_BUY", "LISTING_CREATE",
                 "LISTING_FILL", "PERMIT2", "PAYMASTER"}

VARIABLE now          \* block.timestamp, shared by every contract

=============================================================================
