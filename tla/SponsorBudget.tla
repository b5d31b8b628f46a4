---------------------------- MODULE SponsorBudget ----------------------------
(***************************************************************************)
(* The budget store of the paymaster service: leases, and for every day    *)
(* counters of what leases reserve and commit.  A reservation, a commit    *)
(* and a release are one transaction each; the locked counter rows make    *)
(* concurrent ones take turns.                                             *)
(***************************************************************************)
EXTENDS SponsorTypes, Sums

CONSTANTS
    Requests,       \* requests to the service; each takes one lease at most
    UserLimits,     \* per person and day, by kind
    GlobalLimit     \* the cost of everybody's operations of a day

Kinds == {"cost", "createListing", "cancelListing"}

ASSUME BudgetAssumption ==
    /\ IsFiniteSet(Requests)
    /\ UserLimits \in [Kinds -> Nat] /\ GlobalLimit \in Nat

VARIABLES leases, reserved, committed

budgetVars == <<leases, reserved, committed>>

\* The columns of sponsor_budget_user_usage and sponsor_budget_global_usage.
Counters == (Users \X Kinds) \cup {<<Everybody, "cost">>}
Rows == Days \X Counters
LimitOf(row) == IF row[2][1] = Everybody THEN GlobalLimit ELSE UserLimits[row[2][2]]

Lease == [state : {"none", "reserved", "committed", "released"},
          day : Days, subject : Payers, need : [Kinds -> Nat]]

NoLease == [state |-> "none", day |-> 0, subject |-> Everybody, need |-> [k \in Kinds |-> 0]]

\* A lease counts for its day, its subject and everybody.
Concerns(lease, row) == row[1] = lease.day /\ row[2][1] \in {lease.subject, Everybody}
Need(lease, row) == IF Concerns(lease, row) THEN lease.need[row[2][2]] ELSE 0

BudgetInit ==
    /\ leases = [r \in Requests |-> NoLease]
    /\ reserved = [row \in Rows |-> 0]
    /\ committed = [row \in Rows |-> 0]

BudgetTypeOK ==
    /\ leases \in [Requests -> Lease]
    /\ reserved \in [Rows -> Int] /\ committed \in [Rows -> Int]

-----------------------------------------------------------------------------

\* Bug: what is reserved but not yet committed is forgotten.
WithinCommitted(lease) ==
    \A row \in Rows : Concerns(lease, row) => committed[row] + Need(lease, row) <= LimitOf(row)

\* assertWithinLimits.
WithinLimits(lease) ==
    \A row \in Rows :
        Concerns(lease, row) => reserved[row] + committed[row] + Need(lease, row) <= LimitOf(row)

\* validateRequest and reserve.
ReserveBudget(r, day, subject, need) ==
    LET lease == [state |-> "reserved", day |-> day, subject |-> subject, need |-> need] IN
    /\ need["cost"] > 0 /\ need["cost"] <= UserLimits["cost"] /\ UserLimits["cost"] <= GlobalLimit
    /\ WithinLimits(lease)
    /\ reserved' = [row \in Rows |-> reserved[row] + Need(lease, row)]
    /\ leases' = [leases EXCEPT ![r] = lease]
    /\ UNCHANGED committed

\* transitionLease to "committed" or "released", from "reserved" only.
FinalizeLease(r, target) ==
    LET lease == leases[r] IN
    /\ lease.state = "reserved"
    /\ reserved' = [row \in Rows |-> reserved[row] - Need(lease, row)]
    /\ committed' = IF target = "committed"
                      THEN [row \in Rows |-> committed[row] + Need(lease, row)] ELSE committed
    /\ leases' = [leases EXCEPT ![r].state = target]

=============================================================================
