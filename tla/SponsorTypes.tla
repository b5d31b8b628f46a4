---------------------------- MODULE SponsorTypes ----------------------------
(* What the sponsorship service and the paymaster have in common: days, and *)
(* budgets kept per person and for everybody.                               *)
EXTENDS Integers, FiniteSets

CONSTANTS
    Users,          \* identities of the service and accounts on the chain
    Everybody,      \* stands for the global budget
    DayLength, MaxTime,     \* ticks of a day, and of the runs
    None

ASSUME SponsorTypesAssumption ==
    /\ IsFiniteSet(Users) /\ Everybody \notin Users
    /\ DayLength \in Nat \ {0} /\ MaxTime \in Nat

Times == 0..MaxTime
DayOf(t) == t \div DayLength
Days == {DayOf(t) : t \in Times}

Payers == Users \cup {Everybody}
Accounts == Days \X Payers

=============================================================================
