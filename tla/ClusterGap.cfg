\* No fault is needed: a certificate changes between the read and the watch.
\* Deadlock: once all calls are used up nothing happens any more.
SPECIFICATION Spec
CONSTANTS
    n1 = n1
    n2 = n2
    g1 = g1
    g2 = g2
    k1 = k1
    k2 = k2
    k3 = k3
    Clusters = {pool, c1}
    Pool = pool
    Certs = {n1, n2}
    Calls = {g1, g2}
    Handles = {k1, k2, k3}
    Agent = Agent
    None = None
    Budget <- Undisturbed
INVARIANT
    NewestReceived
CHECK_DEADLOCK FALSE
SYMMETRY Alike
