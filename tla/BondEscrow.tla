----------------------------- MODULE BondEscrow -----------------------------
(***************************************************************************)
(* BondEscrowV1: holds each creator's bond until its market is terminal,   *)
(* then either credits it back to the creator (pull payment) or, when the  *)
(* market timed out with principal in it, hands it to the market as the    *)
(* holders' timeout bonus.  escrowCash is the escrow's token balance.      *)
(***************************************************************************)
EXTENDS ProtocolMath

VARIABLES
    bondOf,           \* [Markets -> [creator, amount, settled]]
    bondCreditOf,     \* [Users -> Nat]            creditOf
    totalLocked,
    totalBondCredits, \* totalCredits
    escrowCash

escrowVars == <<bondOf, bondCreditOf, totalLocked, totalBondCredits, escrowCash>>

Bond == [creator : Users \cup {NoAddress}, amount : Nat, settled : BOOLEAN]

EscrowInit ==
    /\ bondOf = [m \in Markets |->
                    [creator |-> NoAddress, amount |-> 0, settled |-> FALSE]]
    /\ bondCreditOf = [u \in Users |-> 0]
    /\ totalLocked = 0
    /\ totalBondCredits = 0
    /\ escrowCash = 0

EscrowTypeOK ==
    /\ bondOf \in [Markets -> Bond]
    /\ bondCreditOf \in [Users -> Nat]
    /\ totalLocked \in Nat
    /\ totalBondCredits \in Nat
    /\ escrowCash \in Nat

-----------------------------------------------------------------------------

\* The factory pulls the bond from the creator with an exact-transfer check
\* and calls lockBond in the same transaction.
LockBond(m, creator, amount) ==
    /\ bondOf[m].creator = NoAddress
    /\ amount # 0
    /\ escrowCash + amount >= totalLocked + amount + totalBondCredits
    /\ escrowCash' = escrowCash + amount
    /\ bondOf' = [bondOf EXCEPT ![m] =
                    [creator |-> creator, amount |-> amount, settled |-> FALSE]]
    /\ totalLocked' = totalLocked + amount
    /\ UNCHANGED <<bondCreditOf, totalBondCredits>>

\* The common entry checks and first writes of settleBond.
Settleable(m) ==
    /\ bondOf[m].creator # NoAddress
    /\ ~bondOf[m].settled

MarkSettled(m) ==
    /\ totalLocked >= bondOf[m].amount
    /\ bondOf' = [bondOf EXCEPT ![m].settled = TRUE]
    /\ totalLocked' = totalLocked - bondOf[m].amount

\* settleBond, the branch that slashes: the tokens leave for the market.
SlashBondToMarket(m) ==
    /\ Settleable(m)
    /\ MarkSettled(m)
    /\ escrowCash >= bondOf[m].amount
    /\ escrowCash' = escrowCash - bondOf[m].amount
    /\ UNCHANGED <<bondCreditOf, totalBondCredits>>

\* Bug: the credit of the creator's other markets is overwritten.
CreditOverwriting(m) ==
    /\ Settleable(m)
    /\ MarkSettled(m)
    /\ bondCreditOf' = [bondCreditOf EXCEPT ![bondOf[m].creator] = bondOf[m].amount]
    /\ totalBondCredits' = totalBondCredits + bondOf[m].amount
    /\ UNCHANGED escrowCash

\* settleBond, the branch that credits the creator; the tokens stay.
CreditBondToCreator(m) ==
    /\ Settleable(m)
    /\ MarkSettled(m)
    /\ bondCreditOf' = [bondCreditOf EXCEPT ![bondOf[m].creator] = @ + bondOf[m].amount]
    /\ totalBondCredits' = totalBondCredits + bondOf[m].amount
    /\ UNCHANGED escrowCash

\* claim and claimFor: anyone may push a creator's credit to the creator.
ClaimBond(creator) ==
    LET amount == bondCreditOf[creator] IN
    /\ amount # 0
    /\ totalBondCredits >= amount /\ escrowCash >= amount
    /\ bondCreditOf' = [bondCreditOf EXCEPT ![creator] = 0]
    /\ totalBondCredits' = totalBondCredits - amount
    /\ escrowCash' = escrowCash - amount
    /\ UNCHANGED <<bondOf, totalLocked>>

\* Bonds still locked, market by market.
LockedBond == [m \in Markets |-> IF bondOf[m].settled THEN 0 ELSE bondOf[m].amount]

=============================================================================
