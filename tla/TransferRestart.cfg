SPECIFICATION Spec
CONSTANTS
    pool = pool
    c1 = c1
    c2 = c2
    Clusters = {pool, c1, c2}
    Pool = pool
    RoleSets <- Roles
    Ids = {i1, i2, i3}
    None = None
    Torn = Torn
    FirstPlace <- InCluster
    Undisturbed = TRUE
    Budget <- OneRestart
INVARIANT
    RestartKeepsPlace
