SPECIFICATION Spec
CONSTANTS
    Agents = {a1}
    Clusters = {c1}
    Tasks = {t1, t2}
    None = None
PROPERTY
    RemovesItself
