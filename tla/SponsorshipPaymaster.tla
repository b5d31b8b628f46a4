------------------------ MODULE SponsorshipPaymaster ------------------------
(***************************************************************************)
(* SponsorshipPaymasterV1: reserves the whole prefund of an operation when *)
(* the EntryPoint asks for validation and turns it into spending in        *)
(* postOp, under daily budgets per sender and for everybody.               *)
(***************************************************************************)
EXTENDS SponsorTypes

CONSTANTS BudgetOptions,    \* budgets governance sets: [perOperation, perUser, global]
          InitialBudgets, MaxPolicyVersion

Budgets == [perOperation : Nat \ {0}, perUser : Nat, global : Nat]

ASSUME PaymasterAssumption ==
    /\ InitialBudgets \in Budgets /\ BudgetOptions \subseteq Budgets
    /\ MaxPolicyVersion \in Nat \ {0}

VARIABLES
    policyVersion,      \* a new signer is a new version
    budgets, paymasterPaused,
    reservedByDay, spentByDay,      \* [Accounts -> Nat]
    consumedSponsorship

paymasterVars ==
    <<policyVersion, budgets, paymasterPaused, reservedByDay, spentByDay, consumedSponsorship>>

PaymasterInit ==
    /\ policyVersion = 1 /\ budgets = InitialBudgets /\ paymasterPaused = FALSE
    /\ reservedByDay = [x \in Accounts |-> 0]
    /\ spentByDay = [x \in Accounts |-> 0]
    /\ consumedSponsorship = {}

BudgetOf(b, payer) == IF payer = Everybody THEN b.global ELSE b.perUser

\* Both mappings, of the sender and of everybody, move by the same amount.
Moved(f, day, sender, amount) ==
    [x \in Accounts |->
        IF x[1] = day /\ x[2] \in {sender, Everybody} THEN f[x] + amount ELSE f[x]]

-----------------------------------------------------------------------------

\* validatePaymasterUserOp for an operation that needs maxCost, on a day; an
\* expired authorisation or another signer's makes the EntryPoint refuse it.
ValidatePaymasterUserOp(s, maxCost, time) ==
    LET day == DayOf(time) IN
    /\ ~paymasterPaused
    /\ s.version = policyVersion
    /\ s.validUntil >= time
    /\ maxCost <= s.maxCost /\ maxCost <= budgets.perOperation
    /\ s \notin consumedSponsorship
    /\ \A payer \in {s.sender, Everybody} :
         spentByDay[<<day, payer>>] + reservedByDay[<<day, payer>>] + maxCost <= BudgetOf(budgets, payer)
    /\ consumedSponsorship' = consumedSponsorship \cup {s}
    /\ reservedByDay' = Moved(reservedByDay, day, s.sender, maxCost)
    /\ UNCHANGED <<policyVersion, budgets, paymasterPaused, spentByDay>>

\* Bug: only the gas cost the EntryPoint reports counts as spent.
PostOpActual(context, actualGasCost) ==
    /\ \A payer \in {context.sender, Everybody} :
         reservedByDay[<<context.day, payer>>] >= context.maxCost
    /\ reservedByDay' = Moved(reservedByDay, context.day, context.sender, -context.maxCost)
    /\ spentByDay' = Moved(spentByDay, context.day, context.sender, actualGasCost)
    /\ UNCHANGED <<policyVersion, budgets, paymasterPaused, consumedSponsorship>>

\* postOp: the reservation is spent in full.
PostOp(context, actualGasCost) ==
    /\ \A payer \in {context.sender, Everybody} :
         reservedByDay[<<context.day, payer>>] >= context.maxCost
    /\ reservedByDay' = Moved(reservedByDay, context.day, context.sender, -context.maxCost)
    /\ spentByDay' = Moved(spentByDay, context.day, context.sender, context.maxCost)
    /\ UNCHANGED <<policyVersion, budgets, paymasterPaused, consumedSponsorship>>

SetSponsorSigner ==
    /\ policyVersion < MaxPolicyVersion
    /\ policyVersion' = policyVersion + 1
    /\ UNCHANGED <<budgets, paymasterPaused, reservedByDay, spentByDay, consumedSponsorship>>

SetBudgets(b) ==
    /\ b.perOperation # 0 /\ b.perUser >= b.perOperation /\ b.global >= b.perUser
    /\ budgets' = b
    /\ UNCHANGED <<policyVersion, paymasterPaused, reservedByDay, spentByDay, consumedSponsorship>>

\* The emergency controller's flag PAYMASTER.
PausePaymaster ==
    /\ paymasterPaused' = ~paymasterPaused
    /\ UNCHANGED <<policyVersion, budgets, reservedByDay, spentByDay, consumedSponsorship>>

=============================================================================
