CONSTANTS
    Workers = {w1, w2}
    Jobs = {"a", "b"}
    Fickle = {"a"}
    NoWorker = nobody
    TxCosts = {2}
    DailyBudget = 4
    MaxRows = 2
    MaxDay = 1
    MaxMishaps = 1
SPECIFICATION FairSpec
INVARIANTS
    NothingUnrecorded
    BudgetHeld
    NoncesOneByOne
    ConfirmedIsMined
PROPERTIES
    LaneComesFree
