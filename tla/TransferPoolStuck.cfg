SPECIFICATION FairSpec
CONSTANTS
    pool = pool
    c1 = c1
    c2 = c2
    Clusters = {pool, c1, c2}
    Pool = pool
    RoleSets <- Roles
    Ids = {i1, i2, i3}
    None = None
    Torn = Torn
    FirstPlace <- InPool
    Undisturbed = FALSE
    Budget <- OneTransfer
PROPERTY
    ChangeIsFollowed
