\* Watches stay open; removals, failing requests and agent events happen.
\* Deadlock: once all calls are used up nothing happens any more.
SPECIFICATION FairSpec
CONSTANTS
    n1 = n1
    n2 = n2
    g1 = g1
    g2 = g2
    k1 = k1
    k2 = k2
    k3 = k3
    Clusters = {pool, c1}
    Pool = pool
    Certs = {n1}
    Calls = {g1, g2}
    Handles = {k1, k2, k3}
    Agent = Agent
    None = None
    Budget <- Hindrances
PROPERTIES
    RegistryFollows
    CertificatesFollow
    DisposedWatcherEnds
CHECK_DEADLOCK FALSE
