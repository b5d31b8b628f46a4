--------------------------- MODULE MarketFactory ---------------------------
(***************************************************************************)
(* MarketFactoryV1: one-time wiring and activation, deprecation, and the   *)
(* checks createMarket makes before it deploys a vault.  Deterministic     *)
(* addresses, code hashes and URIs are left out: a deployment picks a      *)
(* fresh market address.                                                   *)
(***************************************************************************)
EXTENDS ProtocolConfig

CONSTANTS
    MarketRequests,   \* the CreateMarketParams creators submit (bound of the runs)
    TermsRequests     \* the MarketTerms they submit, as offsets from createdAt

\* Economic part of CreateMarketParams; custom selects
\* createMarketWithPlatformFees instead of createMarket.
MarketRequest == [mode : DeploymentModes, marketCap : Nat, userCap : Nat, minUnits : Nat,
                  bond : Nat, creatorRakeBps : Nat,
                  custom : BOOLEAN, platformRakeShareBps : Nat]

TermsRequest == [closeAfter : Nat, outcomeAfter : Nat,
                 creatorTreasury : Beneficiaries, features : SUBSET FeatureFlags]

ASSUME RequestAssumption ==
    /\ MarketRequests \subseteq MarketRequest
    /\ TermsRequests \subseteq TermsRequest

VARIABLES
    active, deprecated, marketplaceSet,
    isMarket          \* SUBSET Markets

factoryVars == <<active, deprecated, marketplaceSet, isMarket>>

FactoryInit ==
    /\ active = FALSE /\ deprecated = FALSE /\ marketplaceSet = FALSE
    /\ isMarket = {}

FactoryTypeOK ==
    /\ active \in BOOLEAN /\ deprecated \in BOOLEAN /\ marketplaceSet \in BOOLEAN
    /\ isMarket \subseteq Markets

-----------------------------------------------------------------------------

SetMarketplace ==
    /\ ~marketplaceSet
    /\ marketplaceSet' = TRUE
    /\ UNCHANGED <<active, deprecated, isMarket>>

\* activate: the wiring check fails without a marketplace.
Activate ==
    /\ ~active
    /\ marketplaceSet
    /\ active' = TRUE
    /\ UNCHANGED <<deprecated, marketplaceSet, isMarket>>

SetDeprecated(b) ==
    /\ deprecated' = b
    /\ UNCHANGED <<active, marketplaceSet, isMarket>>

\* The terms a request stands for when the market is created at createdAt.
TermsAt(createdAt, r) ==
    [closeAt |-> createdAt + r.closeAfter, outcomeDeadlineAt |-> createdAt + r.outcomeAfter,
     creatorTreasury |-> r.creatorTreasury, features |-> r.features]

\* _validate and the platform-fee checks of _createMarket; the times are
\* checked once more, with the same bounds, by the vault's _validateTimes.
ValidRequest(p) ==
    /\ p.marketCap # 0
    /\ p.marketCap <= IF p.mode = "FULL" THEN config.maxFullMarketCap
                                         ELSE config.maxCloneMarketCap
    /\ p.userCap # 0
    /\ p.userCap <= config.maxPerUserPrimaryCap /\ p.userCap <= p.marketCap
    /\ p.minUnits >= MinConfiguredUnits /\ p.minUnits <= MaxConfiguredUnits
    /\ p.minUnits <= p.userCap
    /\ p.bond >= RequiredBond(p.marketCap) /\ p.bond <= MaxCreatorBond
    /\ p.creatorRakeBps <= config.maxCreatorRakeBps
    /\ p.custom => p.platformRakeShareBps <= 5000

\* The snapshot the vault keeps: ProtocolConfigV1.snapshot, the custom
\* platform share of createMarketWithPlatformFees, and _buildInit.
SnapshotFor(creator, p) ==
    [creator |-> creator, createdAt |-> now,
     marketCap |-> p.marketCap, userCap |-> p.userCap, minUnits |-> p.minUnits,
     creatorRakeBps |-> p.creatorRakeBps,
     protocolShareBps |-> IF p.custom THEN p.platformRakeShareBps
                                      ELSE config.protocolShareBps,
     earlyBirdShareBps |-> config.earlyBirdShareBps,
     protocolTreasury |-> config.protocolTreasury]

\* The factory's own part of _createMarket.
AdmitMarket(m, p) ==
    /\ active /\ ~deprecated
    /\ ValidRequest(p)
    /\ m \notin isMarket
    /\ isMarket' = isMarket \cup {m}
    /\ UNCHANGED <<active, deprecated, marketplaceSet>>

=============================================================================
