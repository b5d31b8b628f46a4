CONSTANTS
    Ann = Ann
    a = a
    Owners = {Ann}
    Jobs = {a}
    OwnerOf <- AnnsClaim
    Fickle = {}
    NoJob = nothing
    MaxFacts = 1
    MaxMishaps = 1
SPECIFICATION FairSpec
PROPERTIES
    BackstopComesRound
