CONSTANTS
    Ann = Ann
    a = a
    Owners = {Ann}
    Jobs = {a}
    OwnerOf <- AnnsClaim
    Fickle = {Ann}
    NoJob = nothing
    MaxFacts = 3
    MaxMishaps = 1
SPECIFICATION FairSpec
INVARIANTS
    InflightIsSigned
PROPERTIES
    OptOutHonoured
    WakesKept
    WantedIsSigned
