------------------------------ MODULE FeeVault ------------------------------
(***************************************************************************)
(* FeeVaultV1: pull-payment credits of the protocol's and creators'        *)
(* treasuries.  A source first transfers tokens in and then accrues        *)
(* credits; the vault checks only that its balance covers all credits.     *)
(* feeCash is the vault's token balance.                                   *)
(***************************************************************************)
EXTENDS ProtocolMath

VARIABLES
    authorizedAccruer,  \* SUBSET Markets: vaults registered by the factory
    feeCreditOf,        \* [Beneficiaries -> Nat]   creditOf
    totalFeeCredits,    \* totalCredits
    feeCash

feeVars == <<authorizedAccruer, feeCreditOf, totalFeeCredits, feeCash>>

FeeInit ==
    /\ authorizedAccruer = {}
    /\ feeCreditOf = [b \in Beneficiaries |-> 0]
    /\ totalFeeCredits = 0
    /\ feeCash = 0

FeeTypeOK ==
    /\ authorizedAccruer \subseteq Markets
    /\ feeCreditOf \in [Beneficiaries -> Nat]
    /\ totalFeeCredits \in Nat
    /\ feeCash \in Nat

-----------------------------------------------------------------------------

\* createMarket: register the market, then (if there is one) pull the
\* creation fee and accrue it; the factory itself is always an accruer.
RegisterAndChargeCreation(m, treasury, fee) ==
    /\ authorizedAccruer' = authorizedAccruer \cup {m}
    /\ fee # 0 => feeCash + fee >= totalFeeCredits + fee
    /\ feeCash' = feeCash + fee
    /\ totalFeeCredits' = totalFeeCredits + fee
    /\ feeCreditOf' = [feeCreditOf EXCEPT ![treasury] = @ + fee]

\* Bug: an accrual replaces the credit of a treasury that is already owed.
AccrueOverwriting(m, protocol, protocolFee, creatorTreasury, creatorFee) ==
    LET fees == protocolFee + creatorFee IN
    /\ m \in authorizedAccruer
    /\ feeCash' = feeCash + fees
    /\ totalFeeCredits' = totalFeeCredits + fees
    /\ feeCreditOf' = [feeCreditOf EXCEPT ![protocol] = protocolFee,
                                          ![creatorTreasury] = creatorFee]
    /\ UNCHANGED authorizedAccruer

\* resolve: one transfer of both fees followed by two accrue calls.  The
\* first call's balance check is implied by the second one's.
DepositAndAccrue(m, protocol, protocolFee, creatorTreasury, creatorFee) ==
    LET fees == protocolFee + creatorFee IN
    \/ /\ fees = 0
       /\ UNCHANGED feeVars
    \/ /\ fees # 0
       /\ m \in authorizedAccruer
       /\ feeCash' = feeCash + fees
       /\ totalFeeCredits' = totalFeeCredits + fees
       /\ feeCash' >= totalFeeCredits'
       /\ LET first == [feeCreditOf EXCEPT ![protocol] = @ + protocolFee] IN
          feeCreditOf' = [first EXCEPT ![creatorTreasury] = @ + creatorFee]
       /\ UNCHANGED authorizedAccruer

\* claim and claimFor.
ClaimFees(b) ==
    LET amount == feeCreditOf[b] IN
    /\ amount # 0
    /\ totalFeeCredits >= amount /\ feeCash >= amount
    /\ feeCreditOf' = [feeCreditOf EXCEPT ![b] = 0]
    /\ totalFeeCredits' = totalFeeCredits - amount
    /\ feeCash' = feeCash - amount
    /\ UNCHANGED authorizedAccruer

=============================================================================
