CONSTANTS
    Ann = Ann
    Ben = Ben
    r1 = r1
    r2 = r2
    Users = {Ann, Ben}
    Everybody = everybody
    DayLength = 2
    MaxTime = 3
    None = none
    Requests = {r1, r2}
    UserLimits <- SomeLimits
    GlobalLimit = 3
    BudgetOptions <- SomeBudgets
    InitialBudgets <- Ample
    MaxPolicyVersion = 2
    RequestOptions <- SomeRequests
    Validity = 1
SPECIFICATION Spec
INVARIANTS
    BudgetExact
    ConsumedIsLeased
    LossBounded
SYMMETRY Alike
CHECK_DEADLOCK FALSE
