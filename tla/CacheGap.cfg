SPECIFICATION Spec
CONSTANTS
    Agents = {a1}
    RoleSets <- PoolOrMinion
    Flags = {f0, f1}
    NewFlags = f0
    Leases = {l1, l2, l3}
    Outcomes = {1}
    None = None
    QueueBound = 2
    Budget <- Restarting
SYMMETRY LeaseSymmetry
INVARIANT
    AllLaterEventsWatched

