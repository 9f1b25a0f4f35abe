SPECIFICATION FairSpec
CONSTANTS
    a1 = a1
    a2 = a2
    a3 = a3
    a4 = a4
    Agents = {a1, a2}
    RolesOf <- Balanced
    Expected = 1
    HaCount = 1
    None = None
    Budget <- Delays
INVARIANT
    DeployedIsReady
PROPERTY
    EventuallyDeployed
