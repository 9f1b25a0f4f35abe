\* One master asks until it has its routes, while all else may fail.
\* Deadlock: nobody asks any more once that master is lost.
SPECIFICATION FairSpec
CONSTANTS
    m1 = m1
    m2 = m2
    w = w
    Agents = {m1}
    Masters = {m1, m2}
    Requested <- MetricsOnly
    Metrics = 3
    Monitors <- Deployments
    None = None
    Empty = Empty
    Budget <- Mishaps
INVARIANTS
    ServedHasServices
PROPERTIES
    EventuallyServed
CHECK_DEADLOCK FALSE
