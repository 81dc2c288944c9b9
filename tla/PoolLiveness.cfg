\* One connection, three callers: every caller but one queues for the permit.
CONSTANTS
    t1 = t1
    t2 = t2
    t3 = t3
    Tasks = {t1, t2, t3}
    LargeTasks = {t3}
    c1 = c1
    c2 = c2
    Conns = {c1, c2}
    None = None
    MaxConnections = 1
    MaxCalls = 1
    MaxFaults = 1
SPECIFICATION RecoveringSpec
PROPERTIES
    CallsReturn
CHECK_DEADLOCK FALSE
