\* Small payloads only, so that a lost connection is always the crash's.
CONSTANTS
    t1 = t1
    t2 = t2
    Tasks = {t1, t2}
    LargeTasks = {}
    c1 = c1
    c2 = c2
    Conns = {c1, c2}
    None = None
    MaxConnections = 2
    MaxCalls = 1
    MaxFaults = 1
SPECIFICATION HSpec
PROPERTIES
    ReconnectsAfterRestart
CHECK_DEADLOCK FALSE
