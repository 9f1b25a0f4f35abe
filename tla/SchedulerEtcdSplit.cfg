SPECIFICATION Spec
CONSTANTS
    a1 = a1
    a2 = a2
    a3 = a3
    a4 = a4
    Agents = {a1, a2, a3, a4}
    RolesOf <- FourEtcd
    Expected = 3
    HaCount = 0
    None = None
    Budget <- Unfaulted
INVARIANT
    EtcdNodesFormCluster
SYMMETRY NodeSymmetry
