\* An installation that fails behind its probe is never completed.
SPECIFICATION Spec
CONSTANTS
    m1 = m1
    m2 = m2
    w = w
    Agents = {m1}
    Masters = {m1}
    Requested <- SecretsAndHelm
    Metrics = 0
    Monitors <- Deployments
    None = None
    Empty = Empty
    Budget <- OneRequest
INVARIANTS
    InstalledIsComplete
