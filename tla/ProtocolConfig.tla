--------------------------- MODULE ProtocolConfig ---------------------------
(***************************************************************************)
(* ProtocolConfigV1: the defaults and limits governance sets for markets   *)
(* that are created later, inside hard bounds.  A market copies what       *)
(* applies to it (snapshot) when it is created.                            *)
(***************************************************************************)
EXTENDS ProtocolMath

CONSTANTS
    InitialTreasury,  \* constructor argument treasury_
    TreasuryOptions, ShareOptions, FeeOptions, CapOptionsPerMarket
                      \* the values governance tries (bounds of the runs)

ASSUME ConfigAssumption ==
    /\ InitialTreasury \in Beneficiaries
    /\ TreasuryOptions \subseteq Beneficiaries
    /\ ShareOptions \subseteq Nat /\ FeeOptions \subseteq Nat
    /\ CapOptionsPerMarket \subseteq Nat

VARIABLE config

Config == [protocolTreasury : Beneficiaries, creationFee : Nat,
           protocolShareBps : 0..BPS, earlyBirdShareBps : 0..BPS,
           maxFullMarketCap : Nat, maxCloneMarketCap : Nat,
           maxPerUserPrimaryCap : Nat, maxCreatorRakeBps : 0..BPS]

ConfigInit ==
    config = [protocolTreasury |-> InitialTreasury, creationFee |-> 0,
              protocolShareBps |-> 2000, earlyBirdShareBps |-> 2000,
              maxFullMarketCap |-> HardMaxFullMarketCap,
              maxCloneMarketCap |-> HardMaxCloneMarketCap,
              maxPerUserPrimaryCap |-> HardMaxPerUserPrimaryCap,
              maxCreatorRakeBps |-> HardMaxCreatorRakeBps]

ConfigTypeOK == config \in Config

-----------------------------------------------------------------------------

SetProtocolTreasury(b) == config' = [config EXCEPT !.protocolTreasury = b]

SetCreationFee(fee) ==
    /\ fee <= HardMaxCreationFee
    /\ config' = [config EXCEPT !.creationFee = fee]

\* Bug: the protocol's share is unbounded.
SetShareUnbounded(bps) ==
    /\ bps <= BPS
    /\ config' = [config EXCEPT !.protocolShareBps = bps]

\* setProtocolShareBps and setPlatformRakeShareBps are the same call.
SetPlatformRakeShareBps(bps) ==
    /\ bps <= HardMaxProtocolShareBps
    /\ config' = [config EXCEPT !.protocolShareBps = bps]

SetEarlyBirdShareBps(bps) ==
    /\ bps <= HardMaxEarlyBirdShareBps
    /\ config' = [config EXCEPT !.earlyBirdShareBps = bps]

SetMarketCapLimits(fullCap, cloneCap) ==
    /\ fullCap <= HardMaxFullMarketCap /\ cloneCap <= HardMaxCloneMarketCap
    /\ config' = [config EXCEPT !.maxFullMarketCap = fullCap,
                                !.maxCloneMarketCap = cloneCap]

SetMaxPerUserPrimaryCap(cap) ==
    /\ cap <= HardMaxPerUserPrimaryCap
    /\ config' = [config EXCEPT !.maxPerUserPrimaryCap = cap]

SetCreatorFeeLimits(rakeBps) ==
    /\ rakeBps <= HardMaxCreatorRakeBps
    /\ config' = [config EXCEPT !.maxCreatorRakeBps = rakeBps]

\* The governance calls of this contract, one setter at a time.
ConfigNext ==
    \/ \E b \in TreasuryOptions : SetProtocolTreasury(b)
    \/ \E fee \in FeeOptions : SetCreationFee(fee)
    \/ \E bps \in ShareOptions : SetPlatformRakeShareBps(bps)
    \/ \E bps \in ShareOptions : SetEarlyBirdShareBps(bps)
    \/ \E full, clone \in CapOptionsPerMarket : SetMarketCapLimits(full, clone)
    \/ \E cap \in CapOptionsPerMarket : SetMaxPerUserPrimaryCap(cap)
    \/ \E bps \in ShareOptions : SetCreatorFeeLimits(bps)

=============================================================================
