\* Two agents install at once, and an answer is lost.
SPECIFICATION Spec
CONSTANTS
    m1 = m1
    m2 = m2
    w = w
    Agents = {m1, w}
    Masters = {m1}
    Requested <- SecretsAndHelm
    Metrics = 0
    Monitors <- Deployments
    None = None
    Empty = Empty
    Budget <- Races
INVARIANTS
    TypeOK
    ObjectsInOrder
    ComponentsInOrder
    ServedHasServices
PROPERTY
    RolloutSpec
