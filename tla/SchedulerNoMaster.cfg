SPECIFICATION Spec
CONSTANTS
    a1 = a1
    a2 = a2
    a3 = a3
    a4 = a4
    Agents = {a1, a2}
    RolesOf <- NoBalancer
    Expected = 1
    HaCount = 0
    None = None
    Budget <- Absences
INVARIANT
    JobsNameMasters
