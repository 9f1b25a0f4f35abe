\* The master the client talks to is lost.
SPECIFICATION FairSpec
CONSTANTS
    m1 = m1
    m2 = m2
    w = w
    Agents = {w}
    Masters = {m1, m2}
    Requested <- SecretsAndHelm
    Metrics = 0
    Monitors <- Deployments
    None = None
    Empty = Empty
    Budget <- OneMaster
PROPERTIES
    ServedByAnyMaster
