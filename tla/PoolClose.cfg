\* close() against calls in flight.
CONSTANTS
    t1 = t1
    t2 = t2
    t3 = t3
    Tasks = {t1, t2, t3}
    LargeTasks = {t3}
    c1 = c1
    c2 = c2
    c3 = c3
    Conns = {c1, c2, c3}
    None = None
    MaxConnections = 2
    MaxCalls = 1
    MaxFaults = 0
SPECIFICATION Spec
INVARIANTS
    ClosedMeansNoConnection
CHECK_DEADLOCK FALSE
