SPECIFICATION FairSpec
CONSTANTS
    Agents = {a1, a2}
    Clusters = {c1, c2}
    Tasks = {t1, t2, t3}
    None = None
INVARIANTS
    TypeOK
    CancelledNeverWorks
    ListedIsPending
PROPERTIES
    PendingIsTemporary
    AppointmentSpec
