SPECIFICATION FairSpec
CONSTANTS
    a1 = a1
    a2 = a2
    a3 = a3
    a4 = a4
    Agents = {a1}
    RolesOf <- AllInOne
    Expected = 1
    HaCount = 0
    None = None
    Budget <- Unfaulted
PROPERTY
    EveryJobEnds
