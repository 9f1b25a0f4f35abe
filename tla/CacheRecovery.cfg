SPECIFICATION FairSpec
CONSTANTS
    Agents = {a1}
    RoleSets <- OneRole
    Flags = {f0, f1}
    NewFlags = f0
    Leases = {l1, l2, l3}
    Outcomes = {}
    None = None
    QueueBound = 2
    Budget <- Recovering
PROPERTIES
    OfflineAgentLeavesCache
    ReportingAgentComesBack
    ShowsOnlyStored
