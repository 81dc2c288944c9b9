\* Three tasks compete for two connections; one of them has a large payload.
CONSTANTS
    t1 = t1
    t2 = t2
    t3 = t3
    Tasks = {t1, t2, t3}
    LargeTasks = {t3}
    c1 = c1
    c2 = c2
    c3 = c3
    Conns = {c1, c2, c3}
    None = None
    MaxConnections = 2
    MaxCalls = 1
    MaxFaults = 1
SPECIFICATION Spec
INVARIANTS TypeOK PermitConservation OpenBound ExclusiveUse CleanIdle
PROPERTIES ImplementsContract
SYMMETRY Symmetry
\* The bounds on calls and faults let the system stop.
CHECK_DEADLOCK FALSE
